------------------------------- MODULE TStore -------------------------------
(***************************************************************************)
(* The block list of the list allocator (2_3/main_list.cpp, class TStore). *)
(*                                                                         *)
(* A list is a function h from the addresses of the existing TStore        *)
(* objects to their fields.  Each operator below is one method of the      *)
(* class: it takes the list before the call, the object the method is      *)
(* called on (and the address `fresh' that `new TStore' returns, when it   *)
(* needs one) and is the list after the call.  An address that leaves the  *)
(* domain of h has been deleted.                                           *)
(*                                                                         *)
(* A definition with a suffix, like SplitsAlways before Splits, is the     *)
(* method with a slip in it: the runs show that their properties notice.   *)
(***************************************************************************)
EXTENDS Integers

CONSTANTS
  Node,          \* addresses at which a TStore object may live
  First,         \* the TStore that is a member of SmallAllocator (`store')
  NULL,          \* the null pointer
  MemSize,       \* SIZE_MEMORY_ALLOC: bytes managed by one allocator
  SIZE_POINTER   \* sizeof(TStore* ): bytes of the header before the data

ASSUME StoreAssumption ==
  /\ First \in Node
  /\ NULL \notin Node
  /\ SIZE_POINTER \in Nat \ {0}
  /\ MemSize \in Nat /\ MemSize >= SIZE_POINTER

Status == {"free", "busy"}

TStoreRec == [size : 1 .. MemSize, status : Status, pdata : 0 .. MemSize,
              prev : Node \cup {NULL}, next : Node \cup {NULL}]

(* Info::InitFreeMemory on the member `store': one free block, all of memory. *)
InitFreeMemory ==
  [n \in {First} |-> [size |-> MemSize, status |-> "free", pdata |-> 0,
                      prev |-> NULL, next |-> NULL]]

(* Size_block(size): what a request of `size' bytes takes from memory. *)
Size_block(size) == size + SIZE_POINTER

OnlyDataShort(h, n) == h[n].size - SIZE_POINTER - 1

OnlyData(h, n) == h[n].size - SIZE_POINTER

isFree(h, n, need) == h[n].status = "free" /\ need <= h[n].size

SetStatus(h, n, s) == [h EXCEPT ![n].status = s]

-----------------------------------------------------------------------------
(* SplitMem: cut n to `need' bytes; what remains becomes the node `fresh',  *)
(* linked in after n.  Nothing changes when n has that size already.       *)
SplitsAlways(h, n, need) == TRUE

Splits(h, n, need) == need # h[n].size

SplitMem(h, n, need, fresh) ==
  IF ~Splits(h, n, need) THEN h
  ELSE [m \in DOMAIN h \cup {fresh} |->
          IF m = fresh THEN [size |-> h[n].size - need, status |-> h[n].status,
                             pdata |-> h[n].pdata + need,
                             prev |-> n, next |-> h[n].next]
          ELSE IF m = n THEN [h[n] EXCEPT !.size = need, !.next = fresh]
          ELSE IF m = h[n].next THEN [h[m] EXCEPT !.prev = fresh]
          ELSE h[m]]

(* joinRight: absorb the next block when it is free, and delete its node. *)
joinRightNoBackLink(h, n) ==
  LET r == h[n].next IN
  IF r = NULL THEN h
  ELSE IF h[r].status # "free" THEN h
  ELSE [m \in DOMAIN h \ {r} |->
          IF m = n THEN [h[n] EXCEPT !.size = @ + h[r].size, !.next = h[r].next]
          ELSE h[m]]

joinRight(h, n) ==
  LET r == h[n].next IN
  IF r = NULL THEN h
  ELSE IF h[r].status # "free" THEN h
  ELSE [m \in DOMAIN h \ {r} |->
          IF m = n THEN [h[n] EXCEPT !.size = @ + h[r].size, !.next = h[r].next]
          ELSE IF m = h[r].next THEN [h[m] EXCEPT !.prev = n]
          ELSE h[m]]

(* joinLeft: absorb the previous block when both are free, and delete its  *)
(* node -- unless it is the first one, which is not on the C++ heap.       *)
joinLeft(h, n) ==
  LET l == h[n].prev IN
  IF h[n].status # "free" \/ l = NULL THEN h
  ELSE IF h[l].status # "free" \/ h[l].prev = NULL THEN h
  ELSE [m \in DOMAIN h \ {l} |->
          IF m = n THEN [h[n] EXCEPT !.size = @ + h[l].size,
                                     !.pdata = h[l].pdata, !.prev = h[l].prev]
          ELSE IF m = h[l].prev THEN [h[m] EXCEPT !.next = n]
          ELSE h[m]]

-----------------------------------------------------------------------------
AllocPartMem(h, n, need, fresh) ==
  LET marked == SetStatus(SplitMem(h, n, need, fresh), n, "busy")
  IN  IF Splits(h, n, need)
      THEN joinRight(SetStatus(marked, fresh, "free"), fresh)
      ELSE marked

(* Whether ReAllocMem returns true: the block shrinks or keeps its size, or *)
(* the next block is free and holds what is lacking.                        *)
CanReAllocMem(h, n, new_size) ==
  \/ new_size <= h[n].size
  \/ /\ h[n].next # NULL
     /\ isFree(h, h[n].next, new_size - h[n].size)

(* The block that ReAllocMem splits, and the size it cuts it to. *)
ReAllocSplits(h, n, new_size) ==
  IF new_size <= h[n].size
  THEN Splits(h, n, new_size)
  ELSE Splits(h, h[n].next, new_size - h[n].size)

ReAllocMem(h, n, new_size, fresh) ==
  IF new_size <= h[n].size THEN AllocPartMem(h, n, new_size, fresh)
  ELSE LET r     == h[n].next
           lack  == new_size - h[n].size
           split == SetStatus(SplitMem(h, r, lack, fresh), r, "free")
           rest  == IF Splits(h, r, lack)
                    THEN joinRight(SetStatus(split, fresh, "free"), fresh)
                    ELSE split
       IN  joinRight(rest, n)

freeMemNoStatus(h, n) == joinLeft(joinRight(h, n), n)

freeMem(h, n) == joinLeft(joinRight(SetStatus(h, n, "free"), n), n)

defragmetNothing(h, n) == h

defragmet(h, n) == IF h[n].status = "free" THEN joinRight(h, n) ELSE h

-----------------------------------------------------------------------------
(* What a well formed list is: its blocks tile the memory in list order,   *)
(* the links mirror each other, and First is at the front.                 *)
LinksOK(h) ==
  /\ \A n \in DOMAIN h : h[n].prev = NULL <=> n = First
  /\ \A n \in DOMAIN h : h[n].prev # NULL =>
       h[n].prev \in DOMAIN h /\ h[h[n].prev].next = n
  /\ \A n \in DOMAIN h : h[n].next # NULL =>
       h[n].next \in DOMAIN h /\ h[h[n].next].prev = n

TilesMemory(h) ==
  /\ h[First].pdata = 0
  /\ \A n \in DOMAIN h :
       h[n].pdata + h[n].size =
         IF h[n].next = NULL THEN MemSize ELSE h[h[n].next].pdata

(* No byte belongs to two blocks. *)
Apart(h) ==
  \A m, n \in DOMAIN h : m # n =>
    \/ h[m].pdata + h[m].size <= h[n].pdata
    \/ h[n].pdata + h[n].size <= h[m].pdata

(* No two neighbouring blocks are both free. *)
Coalesced(h) ==
  \A n \in DOMAIN h : h[n].status = "free" /\ h[n].next # NULL =>
    h[h[n].next].status = "busy"
=============================================================================
