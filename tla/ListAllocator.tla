--------------------------- MODULE ListAllocator ---------------------------
(***************************************************************************)
(* SmallAllocator of 2_3/main_list.cpp, and the user that calls it.        *)
(*                                                                         *)
(* Alloc walks the block list from its head and takes the first free block *)
(* that is large enough, one loop iteration per step; the address of the   *)
(* block's TStore is stored in the SIZE_POINTER bytes before the data, and *)
(* Free and ReAlloc find the block again by reading it from there, out of  *)
(* the same memory the user writes to.                                     *)
(***************************************************************************)
EXTENDS TStore, FiniteSets

CONSTANTS
  Size,   \* the sizes the user asks for
  Value,  \* what the user stores in a byte
  Junk    \* a byte that nobody has written yet

ASSUME SizeAssumption ==
  /\ Size \subseteq Nat
  /\ (Value \cup {Junk}) \cap Node = {}

VARIABLES
  heap,              \* the block list: existing TStore objects
  memory,            \* char memory[SIZE_MEMORY_ALLOC]
  available_memory,  \* the allocator's count of free bytes
  live,              \* the user's pointers, with the size it asked for
  call               \* the call in progress: Alloc's loop, and who called it

vars == <<heap, memory, available_memory, live, call>>

(* A byte of memory; one that is part of a header holds the node it names. *)
Byte == Value \cup {Junk} \cup Node

Address == 0 .. MemSize - 1

NoCall == [op |-> "none", it |-> First, size |-> 0, old |-> 0, block |-> First]

Without(f, x) == [y \in DOMAIN f \ {x} |-> f[y]]

With(f, x, v) == [y \in DOMAIN f \cup {x} |-> IF y = x THEN v ELSE f[y]]

-----------------------------------------------------------------------------
(* putPointer writes the header at a; the data starts right after it. *)
putPointerShort(m, n, a) ==
  [i \in DOMAIN m |-> IF i \in a .. a + SIZE_POINTER - 2 THEN n ELSE m[i]]

putPointer(m, n, a) ==
  [i \in DOMAIN m |-> IF i \in a .. a + SIZE_POINTER - 1 THEN n ELSE m[i]]

DataOf(h, n) == h[n].pdata + SIZE_POINTER

(* getPointer reads the header back; its first byte stands for all of it. *)
getPointer(m, p) == m[p - SIZE_POINTER]

memcpy(m, dst, src, n) ==
  [i \in DOMAIN m |-> IF i \in dst .. dst + n - 1 THEN m[src + i - dst] ELSE m[i]]

FreshNodes(h) == Node \ DOMAIN h

Init ==
  /\ heap = InitFreeMemory
  /\ memory = [a \in Address |-> Junk]
  /\ available_memory = MemSize
  /\ live = [p \in {} |-> 0]
  /\ call = NoCall

-----------------------------------------------------------------------------
(* Alloc enters its loop at the head of the list. *)
Alloc(size) ==
  /\ call = NoCall
  /\ call' = [NoCall EXCEPT !.op = "Alloc", !.size = size]
  /\ UNCHANGED <<heap, memory, available_memory, live>>

(* Free(p) on the list h and the memory m, as ReAlloc also calls it. *)
FreeBlock(h, m, p) == defragmet(freeMem(h, getPointer(m, p)), First)

(* The loop of Alloc finds a block: AllocFreeMem succeeds, and the call    *)
(* returns -- to the user, or to ReAlloc, which copies the data over and   *)
(* frees the old block.                                                    *)
TakeBlock(fresh) ==
  LET it   == call.it
      need == Size_block(call.size)
      h    == AllocPartMem(heap, it, need, fresh)
      m    == putPointer(memory, it, heap[it].pdata)
      p    == DataOf(heap, it)
      copy == memcpy(m, p, call.old, OnlyData(h, call.block))
  IN
  /\ call # NoCall
  /\ isFree(heap, it, need)
  /\ call' = NoCall
  /\ IF call.op = "Alloc"
     THEN /\ heap' = h
          /\ memory' = m
          /\ available_memory' = available_memory - need
          /\ live' = With(live, p, call.size)
     ELSE /\ heap' = FreeBlock(h, copy, call.old)
          /\ memory' = copy
          /\ available_memory' =
               available_memory - need + h[getPointer(copy, call.old)].size
          /\ live' = With(Without(live, call.old), p, call.size)

Place ==
  /\ call # NoCall
  /\ IF Splits(heap, call.it, Size_block(call.size))
     THEN \E fresh \in FreshNodes(heap) : TakeBlock(fresh)
     ELSE TakeBlock(First)

AdvanceRestarts ==
  /\ call # NoCall
  /\ ~isFree(heap, call.it, Size_block(call.size))
  /\ heap[call.it].next # NULL
  /\ call' = [call EXCEPT !.it = First]
  /\ UNCHANGED <<heap, memory, available_memory, live>>

Advance ==
  /\ call # NoCall
  /\ ~isFree(heap, call.it, Size_block(call.size))
  /\ heap[call.it].next # NULL
  /\ call' = [call EXCEPT !.it = heap[call.it].next]
  /\ UNCHANGED <<heap, memory, available_memory, live>>

ThrowBadAllocUntried ==
  /\ call # NoCall
  /\ heap[call.it].next = NULL
  /\ call' = NoCall
  /\ UNCHANGED <<heap, memory, available_memory, live>>

(* The walk is over: "error alloc", throw bad_alloc. *)
ThrowBadAlloc ==
  /\ call # NoCall
  /\ ~isFree(heap, call.it, Size_block(call.size))
  /\ heap[call.it].next = NULL
  /\ call' = NoCall
  /\ UNCHANGED <<heap, memory, available_memory, live>>

(* The C++ heap is exhausted: `new TStore' throws out of the call. *)
NewThrows ==
  /\ call # NoCall
  /\ isFree(heap, call.it, Size_block(call.size))
  /\ Splits(heap, call.it, Size_block(call.size))
  /\ FreshNodes(heap) = {}
  /\ call' = NoCall
  /\ UNCHANGED <<heap, memory, available_memory, live>>

-----------------------------------------------------------------------------
ReAllocInPlaceLateSize(p, size, fresh) ==
  LET block == getPointer(memory, p)
      need  == Size_block(size)
  IN
  /\ heap' = ReAllocMem(heap, block, need, fresh)
  /\ available_memory' = available_memory + heap'[block].size - need
  /\ live' = [live EXCEPT ![p] = size]
  /\ UNCHANGED <<memory, call>>

(* ReAlloc in place, when ReAllocMem returns true.  (Where it needs a TStore *)
(* and the C++ heap has none, `new' throws before anything has changed.)     *)
ReAllocInPlace(p, size, fresh) ==
  LET block == getPointer(memory, p)
      need  == Size_block(size)
  IN
  /\ heap' = ReAllocMem(heap, block, need, fresh)
  /\ available_memory' = available_memory + heap[block].size - need
  /\ live' = [live EXCEPT ![p] = size]
  /\ UNCHANGED <<memory, call>>

(* ReAlloc when ReAllocMem returns false: it calls Alloc, see TakeBlock. *)
ReAllocMove(p, size) ==
  /\ call' = [NoCall EXCEPT !.op = "ReAlloc", !.size = size, !.old = p,
                            !.block = getPointer(memory, p)]
  /\ UNCHANGED <<heap, memory, available_memory, live>>

ReAlloc(p, size) ==
  LET block == getPointer(memory, p)
      need  == Size_block(size)
  IN
  /\ call = NoCall
  /\ IF ~CanReAllocMem(heap, block, need) THEN ReAllocMove(p, size)
     ELSE IF ReAllocSplits(heap, block, need)
     THEN \E fresh \in FreshNodes(heap) : ReAllocInPlace(p, size, fresh)
     ELSE ReAllocInPlace(p, size, First)

Free(p) ==
  /\ call = NoCall
  /\ available_memory' = available_memory + heap[getPointer(memory, p)].size
  /\ heap' = FreeBlock(heap, memory, p)
  /\ live' = Without(live, p)
  /\ UNCHANGED <<memory, call>>

(* The user stores a byte through a pointer it holds. *)
Write(p, i, v) ==
  /\ call = NoCall
  /\ i < live[p]
  /\ memory' = [memory EXCEPT ![p + i] = v]
  /\ UNCHANGED <<heap, available_memory, live, call>>

-----------------------------------------------------------------------------
AllocStep == Place \/ Advance \/ ThrowBadAlloc \/ NewThrows

UserStep ==
  \/ \E size \in Size : Alloc(size)
  \/ \E p \in DOMAIN live :
       \/ \E size \in Size : ReAlloc(p, size)
       \/ Free(p)
       \/ \E i \in Address, v \in Value : Write(p, i, v)

Next == AllocStep \/ UserStep

Spec == Init /\ [][Next]_vars

(* The loop of Alloc runs until it returns or throws; the user owes nothing. *)
FairSpec == Spec /\ WF_call(AllocStep)

-----------------------------------------------------------------------------
Call == [op : {"none", "Alloc", "ReAlloc"}, it : Node, size : Size \cup {0},
         old : 0 .. MemSize, block : Node]

(* The types of the variables. *)
TypeOK ==
  /\ DOMAIN heap \subseteq Node /\ heap \in [DOMAIN heap -> TStoreRec]
  /\ memory \in [Address -> Byte]
  /\ available_memory \in Int
  /\ DOMAIN live \subseteq SIZE_POINTER .. MemSize /\ live \in [DOMAIN live -> Size]
  /\ call \in Call

(* The block list stays a doubly linked list whose blocks, in list order,  *)
(* tile the memory: joining and splitting (TStore's methods) never lose a  *)
(* byte, hand one out twice or leave a link to a deleted TStore.           *)
BlockListOK ==
  First \in DOMAIN heap /\ LinksOK(heap) /\ TilesMemory(heap) /\ Apart(heap)

(* Between calls and inside Alloc's loop no two free neighbours remain:    *)
(* every path that frees memory (Free, both branches of ReAlloc) also      *)
(* joins it left and right, the block after the first one included, which  *)
(* joinLeft leaves to defragmet.                                           *)
FreeMemoryCoalesced == Coalesced(heap)

(* While Alloc walks, it stands on an existing TStore and has missed no    *)
(* block that would do; and what ReAlloc read before it called Alloc -- the *)
(* block of the old pointer -- is still that pointer's block, and smaller   *)
(* than the new one, so that copying all its data stays in bounds.          *)
CallOK ==
  /\ call.it \in DOMAIN heap
  /\ call.op = "none" => call = NoCall
  /\ call.op # "none" =>
       /\ call.size \in Size
       /\ \A n \in DOMAIN heap : heap[n].pdata < heap[call.it].pdata =>
            ~isFree(heap, n, Size_block(call.size))
  /\ call.op = "ReAlloc" =>
       /\ call.old \in DOMAIN live
       /\ call.block = getPointer(memory, call.old)
       /\ heap[call.block].size < Size_block(call.size)

(* The header in front of every pointer the user holds still names, in all *)
(* its bytes, the busy block that starts there, and that block is exactly  *)
(* large enough for what the user asked for: this is what lets Free and    *)
(* ReAlloc trust getPointer.                                               *)
HeadersIntact ==
  \A p \in DOMAIN live :
    LET n == getPointer(memory, p) IN
      /\ \A i \in p - SIZE_POINTER .. p - 1 : memory[i] = n
      /\ n \in DOMAIN heap
      /\ heap[n].status = "busy"
      /\ DataOf(heap, n) = p
      /\ heap[n].size = Size_block(live[p])

(* No block is lost: every busy block is one the user holds a pointer to,  *)
(* also after a ReAlloc that moved, and after one that threw.              *)
NoLeak == \A n \in DOMAIN heap : heap[n].status = "busy" =>
            DataOf(heap, n) \in DOMAIN live

(* available_memory, which three functions adjust by hand, is the number   *)
(* of bytes in free blocks -- so the unsigned counter never wraps.         *)
FreeBytes(h) ==
  {a \in Address : \E n \in DOMAIN h :
     /\ h[n].status = "free"
     /\ a \in h[n].pdata .. h[n].pdata + h[n].size - 1}

AvailableExact == available_memory = Cardinality(FreeBytes(heap))

(* A call gives up (throws) only when no block of the list would do, or    *)
(* the C++ heap has no room for the TStore that the split needs: the walk  *)
(* misses no block, although it follows links that earlier calls rewired.  *)
FailsOnlyWhenNothingFits ==
  [][(call # NoCall /\ call' = NoCall /\ live' = live) =>
       \/ \A n \in DOMAIN heap : ~isFree(heap, n, Size_block(call.size))
       \/ FreshNodes(heap) = {}]_vars

(* Every call of Alloc or ReAlloc returns or throws: the walk ends. *)
CallReturns == (call # NoCall) ~> (call = NoCall)

(* What the user sees: the pointers it holds and the bytes behind them.    *)
Contract == INSTANCE AllocatorContract WITH
  blocks <- [p \in DOMAIN live |-> [i \in 0 .. live[p] - 1 |-> memory[p + i]]]

(* The list allocator keeps the contract of an allocator: blocks in use    *)
(* never overlap, ReAlloc keeps the contents, and no call changes a byte   *)
(* of another block (the checks ERROR 1 to ERROR 7 of main).               *)
KeepsContract == Contract!Spec
=============================================================================
