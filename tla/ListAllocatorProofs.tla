------------------------ MODULE ListAllocatorProofs ------------------------
(***************************************************************************)
(* Proofs about ListAllocator: the block list, the headers and the user's  *)
(* pointers stay consistent, for every memory size, every set of sizes and *)
(* every number of TStore objects.  Part 1 has the methods of TStore,      *)
(* Part 2 the allocator, Part 3 the count of its free bytes.               *)
(***************************************************************************)
EXTENDS ListAllocator, FiniteSetTheorems, WellFoundedInduction, TLAPS

(***************************************************************************)
(* Part 1.  What the methods of TStore preserve and change, for lists of   *)
(* any length and memories of any size.  Every lemma takes a well formed   *)
(* list and says what the list after the call looks like, so that the      *)
(* proofs about the allocator never open the methods again.                *)
(***************************************************************************)
WellFormed(h) ==
  /\ DOMAIN h \subseteq Node
  /\ h \in [DOMAIN h -> TStoreRec]
  /\ First \in DOMAIN h
  /\ LinksOK(h)
  /\ TilesMemory(h)
  /\ Apart(h)

IsBusy(h, n) == n \in DOMAIN h /\ h[n].status = "busy"

(* The nodes outside S are busy in g exactly when they are in h, and those *)
(* blocks lie where they lay.                                              *)
SameBusyBut(h, g, S) ==
  \A m \in Node \ S :
    /\ IsBusy(g, m) <=> IsBusy(h, m)
    /\ IsBusy(h, m) => g[m].size = h[m].size /\ g[m].pdata = h[m].pdata

(* The blocks n and its successor are not both free: Coalesced, at n. *)
SeamOK(h, n) ==
  h[n].status = "free" /\ h[n].next # NULL => h[h[n].next].status = "busy"

(* How the list g after a method differs from the list h before it: after   *)
(* SetStatus, after SplitMem that splits, after joinRight and joinLeft that  *)
(* join.                                                                    *)
Relabelled(h, g, n, s) ==
  /\ DOMAIN g = DOMAIN h
  /\ g[n].status = s
  /\ \A m \in DOMAIN h :
       /\ g[m].size = h[m].size
       /\ g[m].pdata = h[m].pdata
       /\ g[m].next = h[m].next
       /\ g[m].prev = h[m].prev
       /\ m # n => g[m] = h[m]

SplitOff(h, g, n, need, fresh) ==
  /\ DOMAIN g = DOMAIN h \cup {fresh}
  /\ g[n].size = need
  /\ g[n].pdata = h[n].pdata
  /\ g[n].status = h[n].status
  /\ g[n].next = fresh
  /\ g[n].prev = h[n].prev
  /\ g[fresh].status = h[n].status
  /\ g[fresh].next = h[n].next
  /\ g[fresh].prev = n
  /\ \A m \in DOMAIN h \ {n} :
       /\ g[m].size = h[m].size
       /\ g[m].pdata = h[m].pdata
       /\ g[m].status = h[m].status
       /\ g[m].next = h[m].next
       /\ g[m].prev = IF m = h[n].next THEN fresh ELSE h[m].prev

AbsorbedRight(h, g, n) ==
  LET r == h[n].next IN
  /\ DOMAIN g = DOMAIN h \ {r}
  /\ g[n].size = h[n].size + h[r].size
  /\ g[n].pdata = h[n].pdata
  /\ g[n].status = h[n].status
  /\ g[n].next = h[r].next
  /\ g[n].prev = h[n].prev
  /\ \A m \in DOMAIN g \ {n} :
       /\ g[m].size = h[m].size
       /\ g[m].pdata = h[m].pdata
       /\ g[m].status = h[m].status
       /\ g[m].next = h[m].next
       /\ g[m].prev = IF m = h[r].next THEN n ELSE h[m].prev

AbsorbedLeft(h, g, n) ==
  LET l == h[n].prev IN
  /\ l \in DOMAIN h /\ l # n /\ h[l].prev # n
  /\ DOMAIN g = DOMAIN h \ {l}
  /\ g[n].status = "free"
  /\ g[n].next = h[n].next
  /\ g[n].prev = h[l].prev
  /\ \A m \in DOMAIN g \ {n} :
       /\ g[m].size = h[m].size
       /\ g[m].pdata = h[m].pdata
       /\ g[m].status = h[m].status
       /\ g[m].next = IF m = h[l].prev THEN n ELSE h[m].next
       /\ g[m].prev = h[m].prev

(* What joinRight and joinLeft do to the list, whether they join or not.    *)
RightJoined(h, g, n) ==
  /\ n \in DOMAIN g /\ DOMAIN g \subseteq DOMAIN h
  /\ g[n].status = h[n].status
  /\ g[n].pdata = h[n].pdata
  /\ g[n].prev = h[n].prev
  /\ h[n].prev # NULL => /\ h[n].prev \in DOMAIN g
                         /\ g[h[n].prev].status = h[h[n].prev].status
  /\ \A m \in DOMAIN g \ {n} : /\ g[m].status = h[m].status
                              /\ g[m].size = h[m].size
                              /\ g[m].pdata = h[m].pdata
                              /\ g[m].next = h[m].next
  /\ SameBusyBut(h, g, {n})
  /\ \A m \in DOMAIN g \ {n} : SeamOK(h, m) => SeamOK(g, m)
  /\ (h[n].next # NULL => SeamOK(h, h[n].next)) => SeamOK(g, n)

LeftJoined(h, g, n) ==
  /\ SameBusyBut(h, g, {n})
  /\ n \in DOMAIN g /\ g[n].status = "free"
  /\ (\A m \in DOMAIN h : m # h[n].prev => SeamOK(h, m)) =>
       \A m \in DOMAIN g : m # First => SeamOK(g, m)

(* What AllocPartMem and ReAllocMem achieve: n is busy and has the size     *)
(* asked for, no other block in use is touched, no open seam is left.       *)
Resized(h, g, n, need) ==
  /\ IsBusy(g, n) /\ g[n].size = need /\ g[n].pdata = h[n].pdata
  /\ SameBusyBut(h, g, {n})
  /\ Coalesced(h) => Coalesced(g)

(* What freeMem, followed by defragmet on the first block, achieves.        *)
Released(h, g, n) ==
  /\ ~IsBusy(g, n)
  /\ SameBusyBut(h, g, {n})
  /\ Coalesced(h) => Coalesced(g)

-----------------------------------------------------------------------------
(* The member `store' starts as one block that is all of the memory. *)
LEMMA InitWellFormed == WellFormed(InitFreeMemory) /\ Coalesced(InitFreeMemory)
  BY StoreAssumption
  DEF WellFormed, InitFreeMemory, LinksOK, TilesMemory, Apart, Coalesced,
      TStoreRec, Status

(* A block ends inside the memory, and its successor starts where it ends. *)
LEMMA BlockExtent ==
  ASSUME NEW h, WellFormed(h), NEW n \in DOMAIN h
  PROVE  /\ h[n].size \in 1 .. MemSize
         /\ h[n].pdata \in 0 .. MemSize
         /\ h[n].pdata + h[n].size <= MemSize
         /\ h[n].next # NULL => /\ h[n].next \in DOMAIN h
                                /\ h[n].next # n
                                /\ h[h[n].next].pdata = h[n].pdata + h[n].size
         /\ h[n].prev # NULL => /\ h[n].prev \in DOMAIN h
                                /\ h[n].prev # n
                                /\ h[n].prev # h[n].next
                                /\ h[h[n].prev].pdata + h[h[n].prev].size = h[n].pdata
  <1>1. h[n] \in TStoreRec /\ MemSize \in Nat
    BY StoreAssumption DEF WellFormed
  <1>2. h[n].next # NULL => h[n].next \in DOMAIN h /\ h[h[n].next] \in TStoreRec
    BY DEF WellFormed, LinksOK
  <1>3. h[n].prev # NULL => /\ h[n].prev \in DOMAIN h
                            /\ h[h[n].prev] \in TStoreRec
                            /\ h[h[n].prev].next = n
    BY DEF WellFormed, LinksOK
  <1>4. NULL \notin DOMAIN h
    BY StoreAssumption DEF WellFormed
  <1>5. h[n].prev # NULL => h[h[n].prev].pdata + h[h[n].prev].size = h[n].pdata
    BY <1>3, <1>4 DEF WellFormed, TilesMemory
  <1>6. h[n].pdata + h[n].size = IF h[n].next = NULL THEN MemSize
                                 ELSE h[h[n].next].pdata
    BY DEF WellFormed, TilesMemory
  <1> QED
    BY <1>1, <1>2, <1>3, <1>5, <1>6 DEF TStoreRec

(* The status of a block plays no part in the shape of the list. *)
LEMMA SetStatusWellFormed ==
  ASSUME NEW h, WellFormed(h), NEW n \in DOMAIN h, NEW s \in Status
  PROVE  /\ WellFormed(SetStatus(h, n, s))
         /\ Relabelled(h, SetStatus(h, n, s), n, s)
  <1> DEFINE g == SetStatus(h, n, s)
  <1>1. DOMAIN g = DOMAIN h
    BY DEF SetStatus
  <1>2. /\ g[n].status = s
        /\ \A m \in DOMAIN h :
             /\ g[m].size = h[m].size
             /\ g[m].pdata = h[m].pdata
             /\ g[m].next = h[m].next
             /\ g[m].prev = h[m].prev
             /\ m # n => g[m] = h[m]
             /\ g[m] \in TStoreRec
    BY DEF SetStatus, WellFormed, TStoreRec
  <1> HIDE DEF g
  <1>3. g \in [DOMAIN g -> TStoreRec]
    <2>1. g = [m \in DOMAIN h |-> g[m]]
      BY DEF g, SetStatus
    <2> QED BY <2>1, <1>1, <1>2
  <1>4. LinksOK(g)
    BY <1>1, <1>2 DEF WellFormed, LinksOK
  <1>5. TilesMemory(g)
    BY <1>1, <1>2 DEF WellFormed, TilesMemory, LinksOK
  <1>6. Apart(g)
    BY <1>1, <1>2 DEF WellFormed, Apart
  <1>7. WellFormed(g)
    BY <1>1, <1>3, <1>4, <1>5, <1>6 DEF WellFormed
  <1> QED BY <1>1, <1>2, <1>7 DEF g, Relabelled

(* joinRight when the next block is free: the list that results. *)
LEMMA JoinRightWellFormed ==
  ASSUME NEW h, WellFormed(h), NEW n \in DOMAIN h,
         h[n].next # NULL, h[h[n].next].status = "free"
  PROVE  /\ WellFormed(joinRight(h, n))
         /\ AbsorbedRight(h, joinRight(h, n), n)
  <1> DEFINE r == h[n].next
             g == joinRight(h, n)
  <1>1. /\ r \in DOMAIN h /\ r # n /\ r # First /\ r # NULL
        /\ h[r].prev = n
        /\ h[r].pdata = h[n].pdata + h[n].size
        /\ h[n] \in TStoreRec /\ h[r] \in TStoreRec
        /\ h[r].pdata + h[r].size <= MemSize
        /\ h[r].next # NULL =>
             /\ h[r].next \in DOMAIN h /\ h[r].next # r
             /\ h[h[r].next].pdata = h[r].pdata + h[r].size
             /\ h[h[r].next].prev = r
        /\ h[r].next # n
        /\ NULL \notin DOMAIN h /\ MemSize \in Nat
    <2>1. n \in Node /\ NULL \notin DOMAIN h /\ MemSize \in Nat
      BY StoreAssumption DEF WellFormed
    <2>2. r \in DOMAIN h /\ h[r].prev = n /\ r # First
      BY <2>1 DEF WellFormed, LinksOK
    <2>3. h[n] \in TStoreRec /\ h[r] \in TStoreRec
      BY <2>2 DEF WellFormed
    <2>4. h[r].next # NULL => h[r].next \in DOMAIN h /\ h[h[r].next].prev = r
      BY <2>2 DEF WellFormed, LinksOK
    <2>5. /\ r # n /\ h[r].pdata = h[n].pdata + h[n].size
          /\ h[n].size \in 1 .. MemSize
      BY BlockExtent
    <2>6. /\ h[r].pdata + h[r].size <= MemSize
          /\ h[r].size \in 1 .. MemSize
          /\ h[r].next # NULL => /\ h[r].next # r
                                 /\ h[h[r].next].pdata = h[r].pdata + h[r].size
      BY <2>2, BlockExtent
    <2>7. h[r].next # n
      BY <2>1, <2>3, <2>5, <2>6 DEF TStoreRec
    <2> QED BY <2>1, <2>2, <2>3, <2>4, <2>5, <2>6, <2>7
  <1>2. g = [m \in DOMAIN h \ {r} |->
               IF m = n THEN [h[n] EXCEPT !.size = @ + h[r].size, !.next = h[r].next]
               ELSE IF m = h[r].next THEN [h[m] EXCEPT !.prev = n]
               ELSE h[m]]
    BY <1>1 DEF joinRight
  <1>3. DOMAIN g = DOMAIN h \ {r} /\ n \in DOMAIN g /\ First \in DOMAIN g
    BY <1>1, <1>2 DEF WellFormed
  <1>4. /\ g[n] = [h[n] EXCEPT !.size = @ + h[r].size, !.next = h[r].next]
        /\ \A m \in DOMAIN g : m # n =>
             g[m] = IF m = h[r].next THEN [h[m] EXCEPT !.prev = n] ELSE h[m]
    BY <1>2, <1>3
  <1> HIDE DEF g
  <1>5. /\ g[n].size = h[n].size + h[r].size
        /\ g[n].pdata = h[n].pdata
        /\ g[n].status = h[n].status
        /\ g[n].next = h[r].next
        /\ g[n].prev = h[n].prev
        /\ g[n] \in TStoreRec
    <2>1. /\ h[n].size + h[r].size \in 1 .. MemSize
          /\ h[r].next \in Node \cup {NULL}
      BY <1>1 DEF TStoreRec
    <2> DEFINE rec == [h[n] EXCEPT !.size = @ + h[r].size, !.next = h[r].next]
    <2>2. /\ rec.size = h[n].size + h[r].size
          /\ rec.pdata = h[n].pdata
          /\ rec.status = h[n].status
          /\ rec.next = h[r].next
          /\ rec.prev = h[n].prev
      BY <1>1 DEF TStoreRec
    <2>3. rec \in TStoreRec
      BY <1>1, <2>1 DEF TStoreRec
    <2> QED BY <1>4, <2>2, <2>3
  <1>6. \A m \in DOMAIN g \ {n} :
          /\ g[m].size = h[m].size
          /\ g[m].pdata = h[m].pdata
          /\ g[m].status = h[m].status
          /\ g[m].next = h[m].next
          /\ g[m].prev = IF m = h[r].next THEN n ELSE h[m].prev
          /\ g[m] \in TStoreRec
    <2> SUFFICES ASSUME NEW m \in DOMAIN g \ {n}
                 PROVE  /\ g[m].size = h[m].size
                        /\ g[m].pdata = h[m].pdata
                        /\ g[m].status = h[m].status
                        /\ g[m].next = h[m].next
                        /\ g[m].prev = IF m = h[r].next THEN n ELSE h[m].prev
                        /\ g[m] \in TStoreRec
      OBVIOUS
    <2>1. h[m] \in TStoreRec /\ n \in Node
      BY <1>3 DEF WellFormed
    <2> QED BY <2>1, <1>4 DEF TStoreRec
  <1>7. g \in [DOMAIN g -> TStoreRec]
    <2>1. g = [m \in DOMAIN g |-> g[m]]
      BY <1>2, <1>3 DEF g
    <2> QED BY <2>1, <1>5, <1>6
  <1>8. LinksOK(g)
    <2>1. \A m \in DOMAIN h : h[m].next = r => m = n
      BY <1>1 DEF WellFormed, LinksOK
    <2>2. \A m \in DOMAIN h : h[m].prev = r => m = h[r].next
      BY <1>1 DEF WellFormed, LinksOK
    <2>3. \A m \in DOMAIN g : g[m].prev = NULL <=> m = First
      <3>1. \A m \in DOMAIN g : h[m].prev = NULL <=> m = First
        BY <1>3 DEF WellFormed, LinksOK
      <3>2. \A m \in DOMAIN g : m = h[r].next => m # First
        BY <1>1, <1>3 DEF WellFormed, LinksOK
      <3> QED BY <1>1, <1>5, <1>6, <3>1, <3>2
    <2>4. \A m \in DOMAIN g : g[m].prev # NULL =>
            g[m].prev \in DOMAIN g /\ g[g[m].prev].next = m
      BY <1>1, <1>3, <1>5, <1>6, <2>1, <2>2 DEF WellFormed, LinksOK
    <2>5. \A m \in DOMAIN g : g[m].next # NULL =>
            g[m].next \in DOMAIN g /\ g[g[m].next].prev = m
      BY <1>1, <1>3, <1>5, <1>6, <2>1, <2>2 DEF WellFormed, LinksOK
    <2> QED BY <2>3, <2>4, <2>5 DEF LinksOK
  <1>9. TilesMemory(g)
    <2>1. \A m \in DOMAIN h : h[m].next = r => m = n
      BY <1>1 DEF WellFormed, LinksOK
    <2>2. g[First].pdata = 0
      BY <1>3, <1>5, <1>6 DEF WellFormed, TilesMemory
    <2>3. g[n].pdata + g[n].size = IF g[n].next = NULL THEN MemSize
                                   ELSE g[g[n].next].pdata
      BY <1>1, <1>3, <1>5, <1>6 DEF WellFormed, TilesMemory, TStoreRec
    <2>4. ASSUME NEW m \in DOMAIN g, m # n
          PROVE  g[m].pdata + g[m].size = IF g[m].next = NULL THEN MemSize
                                          ELSE g[g[m].next].pdata
      <3>1. h[m].pdata + h[m].size = IF h[m].next = NULL THEN MemSize
                                     ELSE h[h[m].next].pdata
        BY <1>3 DEF WellFormed, TilesMemory
      <3>2. h[m].next # NULL => h[m].next \in DOMAIN g
        BY <1>3, <2>1, <2>4 DEF WellFormed, LinksOK
      <3> QED BY <3>1, <3>2, <1>5, <1>6, <2>4
    <2> QED BY <2>2, <2>3, <2>4 DEF TilesMemory
  <1>10. Apart(g)
    <2>1. ASSUME NEW m \in DOMAIN g, m # n
          PROVE  \/ g[m].pdata + g[m].size <= g[n].pdata
                 \/ g[n].pdata + g[n].size <= g[m].pdata
      <3>1. m \in DOMAIN h /\ m # r /\ h[m] \in TStoreRec
        BY <1>3 DEF WellFormed
      <3>2. /\ \/ h[m].pdata + h[m].size <= h[n].pdata
               \/ h[n].pdata + h[n].size <= h[m].pdata
            /\ \/ h[m].pdata + h[m].size <= h[r].pdata
               \/ h[r].pdata + h[r].size <= h[m].pdata
        BY <3>1, <1>1, <2>1 DEF WellFormed, Apart
      <3> QED BY <3>1, <3>2, <1>1, <1>5, <1>6, <2>1 DEF TStoreRec
    <2>2. ASSUME NEW m \in DOMAIN g, NEW k \in DOMAIN g, m # k, m # n, k # n
          PROVE  \/ g[m].pdata + g[m].size <= g[k].pdata
                 \/ g[k].pdata + g[k].size <= g[m].pdata
      BY <1>3, <1>6, <2>2 DEF WellFormed, Apart
    <2> QED BY <2>1, <2>2 DEF Apart
  <1>11. WellFormed(g)
    BY <1>3, <1>7, <1>8, <1>9, <1>10 DEF WellFormed
  <1> QED BY <1>3, <1>5, <1>6, <1>11 DEF g, AbsorbedRight

(* SplitMem when there is something to cut off: the list that results. *)
LEMMA SplitMemWellFormed ==
  ASSUME NEW h, WellFormed(h), NEW n \in DOMAIN h, NEW need \in Nat \ {0},
         need < h[n].size, NEW fresh \in Node \ DOMAIN h
  PROVE  /\ WellFormed(SplitMem(h, n, need, fresh))
         /\ SplitOff(h, SplitMem(h, n, need, fresh), n, need, fresh)
  <1> DEFINE r == h[n].next
             g == SplitMem(h, n, need, fresh)
  <1>1. /\ n \in Node /\ fresh \in Node /\ fresh # n /\ fresh # First
        /\ NULL \notin Node /\ MemSize \in Nat /\ DOMAIN h \subseteq Node
        /\ h[n] \in TStoreRec
        /\ h[n].pdata + h[n].size <= MemSize
        /\ r # NULL => /\ r \in DOMAIN h /\ r # n /\ h[r].prev = n
                       /\ h[r].pdata = h[n].pdata + h[n].size
                       /\ r # fresh
        /\ h[n].prev # fresh
    <2>1. n \in Node /\ NULL \notin Node /\ MemSize \in Nat /\ h[n] \in TStoreRec
      BY StoreAssumption DEF WellFormed
    <2>2. r # NULL => r \in DOMAIN h /\ h[r].prev = n
      BY DEF WellFormed, LinksOK
    <2>3. h[n].prev # NULL => h[n].prev \in DOMAIN h
      BY DEF WellFormed, LinksOK
    <2>4. /\ h[n].pdata + h[n].size <= MemSize
          /\ r # NULL => r # n /\ h[r].pdata = h[n].pdata + h[n].size
      BY BlockExtent
    <2> QED BY <2>1, <2>2, <2>3, <2>4 DEF WellFormed
  <1>2. g = [m \in DOMAIN h \cup {fresh} |->
               IF m = fresh THEN [size |-> h[n].size - need, status |-> h[n].status,
                                  pdata |-> h[n].pdata + need,
                                  prev |-> n, next |-> r]
               ELSE IF m = n THEN [h[n] EXCEPT !.size = need, !.next = fresh]
               ELSE IF m = r THEN [h[m] EXCEPT !.prev = fresh]
               ELSE h[m]]
    <2>1. Splits(h, n, need)
      BY <1>1 DEF Splits, TStoreRec
    <2> QED BY <2>1 DEF SplitMem
  <1>3. /\ DOMAIN g = DOMAIN h \cup {fresh}
        /\ n \in DOMAIN g /\ fresh \in DOMAIN g /\ First \in DOMAIN g
    BY <1>2 DEF WellFormed
  <1>4. /\ g[fresh] = [size |-> h[n].size - need, status |-> h[n].status,
                       pdata |-> h[n].pdata + need, prev |-> n, next |-> r]
        /\ g[n] = [h[n] EXCEPT !.size = need, !.next = fresh]
        /\ \A m \in DOMAIN h : m # n =>
             g[m] = IF m = r THEN [h[m] EXCEPT !.prev = fresh] ELSE h[m]
    BY <1>1, <1>2, <1>3
  <1> HIDE DEF g
  <1>5. /\ g[n].size = need
        /\ g[n].pdata = h[n].pdata
        /\ g[n].status = h[n].status
        /\ g[n].next = fresh
        /\ g[n].prev = h[n].prev
        /\ g[n] \in TStoreRec
    <2>1. need \in 1 .. MemSize
      BY <1>1 DEF TStoreRec
    <2> DEFINE rec == [h[n] EXCEPT !.size = need, !.next = fresh]
    <2>2. /\ rec.size = need
          /\ rec.pdata = h[n].pdata
          /\ rec.status = h[n].status
          /\ rec.next = fresh
          /\ rec.prev = h[n].prev
      BY <1>1 DEF TStoreRec
    <2>3. rec \in TStoreRec
      BY <1>1, <2>1 DEF TStoreRec
    <2> QED BY <1>4, <2>2, <2>3
  <1>6. /\ g[fresh].size = h[n].size - need
        /\ g[fresh].pdata = h[n].pdata + need
        /\ g[fresh].status = h[n].status
        /\ g[fresh].next = r
        /\ g[fresh].prev = n
        /\ g[fresh] \in TStoreRec
    <2>1. /\ h[n].size - need \in 1 .. MemSize
          /\ h[n].pdata + need \in 0 .. MemSize
          /\ r \in Node \cup {NULL}
          /\ h[n].status \in Status
      BY <1>1 DEF TStoreRec
    <2> QED BY <1>1, <1>4, <2>1 DEF TStoreRec
  <1>7. \A m \in DOMAIN h \ {n} :
          /\ g[m].size = h[m].size
          /\ g[m].pdata = h[m].pdata
          /\ g[m].status = h[m].status
          /\ g[m].next = h[m].next
          /\ g[m].prev = IF m = r THEN fresh ELSE h[m].prev
          /\ g[m] \in TStoreRec
    <2> SUFFICES ASSUME NEW m \in DOMAIN h \ {n}
                 PROVE  /\ g[m].size = h[m].size
                        /\ g[m].pdata = h[m].pdata
                        /\ g[m].status = h[m].status
                        /\ g[m].next = h[m].next
                        /\ g[m].prev = IF m = r THEN fresh ELSE h[m].prev
                        /\ g[m] \in TStoreRec
      OBVIOUS
    <2>1. h[m] \in TStoreRec /\ fresh \in Node
      BY DEF WellFormed
    <2>2. g[m] = IF m = r THEN [h[m] EXCEPT !.prev = fresh] ELSE h[m]
      BY <1>4
    <2> QED BY <2>1, <2>2 DEF TStoreRec
  <1>8. g \in [DOMAIN g -> TStoreRec]
    <2>1. g = [m \in DOMAIN g |-> g[m]]
      BY <1>2, <1>3 DEF g
    <2> QED BY <2>1, <1>3, <1>5, <1>6, <1>7
  <1>9. /\ \A m \in DOMAIN h : h[m].next = r /\ r # NULL => m = n
        /\ \A m \in DOMAIN h : h[m].prev = n => m = r
        /\ \A m \in DOMAIN h : h[m].next # fresh /\ h[m].prev # fresh
    BY <1>1 DEF WellFormed, LinksOK
  <1>10. LinksOK(g)
    <2>1. \A m \in DOMAIN g : g[m].prev = NULL <=> m = First
      BY <1>1, <1>3, <1>5, <1>6, <1>7 DEF WellFormed, LinksOK
    <2>2. \A m \in DOMAIN g : g[m].prev # NULL =>
            g[m].prev \in DOMAIN g /\ g[g[m].prev].next = m
      BY <1>1, <1>3, <1>5, <1>6, <1>7, <1>9 DEF WellFormed, LinksOK
    <2>3. \A m \in DOMAIN g : g[m].next # NULL =>
            g[m].next \in DOMAIN g /\ g[g[m].next].prev = m
      BY <1>1, <1>3, <1>5, <1>6, <1>7, <1>9 DEF WellFormed, LinksOK
    <2> QED BY <2>1, <2>2, <2>3 DEF LinksOK
  <1>11. TilesMemory(g)
    <2>1. g[First].pdata = 0
      BY <1>1, <1>3, <1>5, <1>7 DEF WellFormed, TilesMemory
    <2>2. g[n].pdata + g[n].size = g[fresh].pdata /\ fresh # NULL
      BY <1>1, <1>5, <1>6 DEF TStoreRec
    <2>3. g[fresh].pdata + g[fresh].size = IF r = NULL THEN MemSize ELSE g[r].pdata
      <3>1. h[n].pdata + h[n].size = IF r = NULL THEN MemSize ELSE h[r].pdata
        BY DEF WellFormed, TilesMemory
      <3> QED BY <3>1, <1>1, <1>6, <1>7 DEF TStoreRec
    <2>4. ASSUME NEW m \in DOMAIN h, m # n
          PROVE  g[m].pdata + g[m].size = IF g[m].next = NULL THEN MemSize
                                          ELSE g[g[m].next].pdata
      <3>1. h[m].pdata + h[m].size = IF h[m].next = NULL THEN MemSize
                                     ELSE h[h[m].next].pdata
        BY DEF WellFormed, TilesMemory
      <3>2. h[m].next # NULL => h[m].next \in DOMAIN h
        BY DEF WellFormed, LinksOK
      <3>3. h[m].next # NULL => g[h[m].next].pdata = h[h[m].next].pdata
        BY <3>2, <1>5, <1>7
      <3> QED BY <3>1, <3>3, <1>7, <2>4
    <2> QED BY <2>1, <2>2, <2>3, <2>4, <1>3, <1>5, <1>6 DEF TilesMemory
  <1>12. Apart(g)
    <2>1. ASSUME NEW m \in DOMAIN h, m # n
          PROVE  /\ \/ g[m].pdata + g[m].size <= g[n].pdata
                    \/ g[n].pdata + g[n].size <= g[m].pdata
                 /\ \/ g[m].pdata + g[m].size <= g[fresh].pdata
                    \/ g[fresh].pdata + g[fresh].size <= g[m].pdata
      <3>1. h[m] \in TStoreRec
        BY DEF WellFormed
      <3>2. \/ h[m].pdata + h[m].size <= h[n].pdata
            \/ h[n].pdata + h[n].size <= h[m].pdata
        BY <2>1 DEF WellFormed, Apart
      <3> QED BY <3>1, <3>2, <1>1, <1>5, <1>6, <1>7, <2>1 DEF TStoreRec
    <2>2. ASSUME NEW m \in DOMAIN h, NEW k \in DOMAIN h, m # k, m # n, k # n
          PROVE  \/ g[m].pdata + g[m].size <= g[k].pdata
                 \/ g[k].pdata + g[k].size <= g[m].pdata
      BY <1>7, <2>2 DEF WellFormed, Apart
    <2>3. g[n].pdata + g[n].size <= g[fresh].pdata
      BY <1>1, <1>5, <1>6 DEF TStoreRec
    <2> QED BY <1>3, <2>1, <2>2, <2>3 DEF Apart
  <1>13. WellFormed(g)
    BY <1>1, <1>3, <1>8, <1>10, <1>11, <1>12 DEF WellFormed
  <1> QED BY <1>3, <1>5, <1>6, <1>7, <1>13 DEF g, SplitOff

(* joinLeft when it joins: the list that results. *)
LEMMA JoinLeftWellFormed ==
  ASSUME NEW h, WellFormed(h), NEW n \in DOMAIN h, h[n].status = "free",
         h[n].prev # NULL, h[h[n].prev].status = "free", h[h[n].prev].prev # NULL
  PROVE  /\ WellFormed(joinLeft(h, n))
         /\ AbsorbedLeft(h, joinLeft(h, n), n)
  <1> DEFINE l  == h[n].prev
             ll == h[l].prev
             g  == joinLeft(h, n)
  <1>1. /\ l \in DOMAIN h /\ l # n /\ l # First /\ h[l].next = n
        /\ ll \in DOMAIN h /\ ll # l /\ ll # n /\ h[ll].next = l
        /\ h[l].pdata + h[l].size = h[n].pdata
        /\ h[ll].pdata + h[ll].size = h[l].pdata
        /\ h[n].pdata + h[n].size <= MemSize
        /\ h[n] \in TStoreRec /\ h[l] \in TStoreRec /\ h[ll] \in TStoreRec
        /\ NULL \notin DOMAIN h /\ MemSize \in Nat
        /\ n # First /\ h[n].next # n /\ h[n].next # l
    <2>1. NULL \notin DOMAIN h /\ MemSize \in Nat /\ n # First
      BY StoreAssumption DEF WellFormed, LinksOK
    <2>2. l \in DOMAIN h /\ h[l].next = n /\ l # First
      BY DEF WellFormed, LinksOK
    <2>3. ll \in DOMAIN h /\ h[ll].next = l
      BY <2>2 DEF WellFormed, LinksOK
    <2>4. h[n] \in TStoreRec /\ h[l] \in TStoreRec /\ h[ll] \in TStoreRec
      BY <2>2, <2>3 DEF WellFormed
    <2>5. /\ l # n /\ h[l].pdata + h[l].size = h[n].pdata
          /\ h[n].pdata + h[n].size <= MemSize
          /\ h[n].next # NULL => /\ h[n].next \in DOMAIN h
                                 /\ h[n].next # n
                                 /\ h[h[n].next].pdata = h[n].pdata + h[n].size
      BY BlockExtent
    <2>6. ll # l /\ h[ll].pdata + h[ll].size = h[l].pdata
      BY <2>2, BlockExtent
    <2>7. ll # n
      BY <2>4, <2>5, <2>6 DEF TStoreRec
    <2>8. h[n].next # l /\ h[n].next # n
      BY <2>1, <2>2, <2>4, <2>5 DEF TStoreRec
    <2> QED BY <2>1, <2>2, <2>3, <2>4, <2>5, <2>6, <2>7, <2>8
  <1>2. g = [m \in DOMAIN h \ {l} |->
               IF m = n THEN [h[n] EXCEPT !.size = @ + h[l].size,
                                          !.pdata = h[l].pdata, !.prev = ll]
               ELSE IF m = ll THEN [h[m] EXCEPT !.next = n]
               ELSE h[m]]
    BY <1>1 DEF joinLeft
  <1>3. DOMAIN g = DOMAIN h \ {l} /\ n \in DOMAIN g /\ First \in DOMAIN g /\ ll \in DOMAIN g
    BY <1>1, <1>2 DEF WellFormed
  <1>4. /\ g[n] = [h[n] EXCEPT !.size = @ + h[l].size,
                               !.pdata = h[l].pdata, !.prev = ll]
        /\ \A m \in DOMAIN g : m # n =>
             g[m] = IF m = ll THEN [h[m] EXCEPT !.next = n] ELSE h[m]
    BY <1>2, <1>3
  <1> HIDE DEF g
  <1>5. /\ g[n].size = h[n].size + h[l].size
        /\ g[n].pdata = h[l].pdata
        /\ g[n].status = h[n].status
        /\ g[n].next = h[n].next
        /\ g[n].prev = ll
        /\ g[n] \in TStoreRec
    <2>1. /\ h[n].size + h[l].size \in 1 .. MemSize
          /\ h[l].pdata \in 0 .. MemSize
          /\ ll \in Node \cup {NULL}
      BY <1>1 DEF TStoreRec
    <2> DEFINE rec == [h[n] EXCEPT !.size = @ + h[l].size,
                                   !.pdata = h[l].pdata, !.prev = ll]
    <2>2. /\ rec.size = h[n].size + h[l].size
          /\ rec.pdata = h[l].pdata
          /\ rec.status = h[n].status
          /\ rec.next = h[n].next
          /\ rec.prev = ll
      BY <1>1 DEF TStoreRec
    <2>3. rec \in TStoreRec
      BY <1>1, <2>1 DEF TStoreRec
    <2> QED BY <1>4, <2>2, <2>3
  <1>6. \A m \in DOMAIN g \ {n} :
          /\ g[m].size = h[m].size
          /\ g[m].pdata = h[m].pdata
          /\ g[m].status = h[m].status
          /\ g[m].next = IF m = ll THEN n ELSE h[m].next
          /\ g[m].prev = h[m].prev
          /\ g[m] \in TStoreRec
    <2> SUFFICES ASSUME NEW m \in DOMAIN g \ {n}
                 PROVE  /\ g[m].size = h[m].size
                        /\ g[m].pdata = h[m].pdata
                        /\ g[m].status = h[m].status
                        /\ g[m].next = IF m = ll THEN n ELSE h[m].next
                        /\ g[m].prev = h[m].prev
                        /\ g[m] \in TStoreRec
      OBVIOUS
    <2>1. h[m] \in TStoreRec /\ n \in Node
      BY <1>3 DEF WellFormed
    <2> QED BY <2>1, <1>4 DEF TStoreRec
  <1>7. g \in [DOMAIN g -> TStoreRec]
    <2>1. g = [m \in DOMAIN g |-> g[m]]
      BY <1>2, <1>3 DEF g
    <2> QED BY <2>1, <1>5, <1>6
  <1>8. /\ \A m \in DOMAIN h : h[m].next = l => m = ll
        /\ \A m \in DOMAIN h : h[m].prev = l => m = n
        /\ \A m \in DOMAIN h : h[m].next = n => m = l
        /\ \A m \in DOMAIN h : h[m].prev = ll => m = l
    BY <1>1 DEF WellFormed, LinksOK
  <1>9. LinksOK(g)
    <2>1. \A m \in DOMAIN g : g[m].prev = NULL <=> m = First
      BY <1>1, <1>3, <1>5, <1>6 DEF WellFormed, LinksOK
    <2>2. \A m \in DOMAIN g : g[m].prev # NULL =>
            g[m].prev \in DOMAIN g /\ g[g[m].prev].next = m
      BY <1>1, <1>3, <1>5, <1>6, <1>8 DEF WellFormed, LinksOK
    <2>3. \A m \in DOMAIN g : g[m].next # NULL =>
            g[m].next \in DOMAIN g /\ g[g[m].next].prev = m
      BY <1>1, <1>3, <1>5, <1>6, <1>8 DEF WellFormed, LinksOK
    <2> QED BY <2>1, <2>2, <2>3 DEF LinksOK
  <1>10. TilesMemory(g)
    <2>1. g[First].pdata = 0
      BY <1>1, <1>3, <1>6 DEF WellFormed, TilesMemory
    <2>2. g[ll].pdata + g[ll].size = g[n].pdata /\ g[ll].next = n
      BY <1>1, <1>3, <1>5, <1>6
    <2>3. g[n].pdata + g[n].size = IF g[n].next = NULL THEN MemSize
                                   ELSE g[g[n].next].pdata
      <3>1. h[n].pdata + h[n].size = IF h[n].next = NULL THEN MemSize
                                     ELSE h[h[n].next].pdata
        BY DEF WellFormed, TilesMemory
      <3>2. h[n].next # NULL => h[n].next \in DOMAIN g \ {n}
        BY <1>1, <1>3 DEF WellFormed, LinksOK
      <3> QED BY <3>1, <3>2, <1>1, <1>5, <1>6 DEF TStoreRec
    <2>4. ASSUME NEW m \in DOMAIN g, m # n, m # ll
          PROVE  g[m].pdata + g[m].size = IF g[m].next = NULL THEN MemSize
                                          ELSE g[g[m].next].pdata
      <3>1. h[m].pdata + h[m].size = IF h[m].next = NULL THEN MemSize
                                     ELSE h[h[m].next].pdata
        BY <1>3 DEF WellFormed, TilesMemory
      <3>2. h[m].next # NULL => h[m].next \in DOMAIN g \ {n}
        BY <1>3, <1>8, <2>4 DEF WellFormed, LinksOK
      <3> QED BY <3>1, <3>2, <1>6, <2>4
    <2> QED BY <2>1, <2>2, <2>3, <2>4, <1>1, <1>3 DEF TilesMemory
  <1>11. Apart(g)
    <2>1. ASSUME NEW m \in DOMAIN g, m # n
          PROVE  \/ g[m].pdata + g[m].size <= g[n].pdata
                 \/ g[n].pdata + g[n].size <= g[m].pdata
      <3>1. m \in DOMAIN h /\ m # l /\ h[m] \in TStoreRec
        BY <1>3 DEF WellFormed
      <3>2. /\ \/ h[m].pdata + h[m].size <= h[n].pdata
               \/ h[n].pdata + h[n].size <= h[m].pdata
            /\ \/ h[m].pdata + h[m].size <= h[l].pdata
               \/ h[l].pdata + h[l].size <= h[m].pdata
        BY <3>1, <1>1, <2>1 DEF WellFormed, Apart
      <3> QED BY <3>1, <3>2, <1>1, <1>5, <1>6, <2>1 DEF TStoreRec
    <2>2. ASSUME NEW m \in DOMAIN g, NEW k \in DOMAIN g, m # k, m # n, k # n
          PROVE  \/ g[m].pdata + g[m].size <= g[k].pdata
                 \/ g[k].pdata + g[k].size <= g[m].pdata
      BY <1>3, <1>6, <2>2 DEF WellFormed, Apart
    <2> QED BY <2>1, <2>2 DEF Apart
  <1>12. WellFormed(g)
    BY <1>3, <1>7, <1>9, <1>10, <1>11 DEF WellFormed
  <1> QED BY <1>1, <1>3, <1>5, <1>6, <1>12 DEF g, AbsorbedLeft

-----------------------------------------------------------------------------
(* joinRight, whether it joins or not: n keeps its status and start, and   *)
(* the seam after n is mended when the next one is whole.                  *)
LEMMA JoinRight ==
  ASSUME NEW h, WellFormed(h), NEW n \in DOMAIN h
  PROVE  WellFormed(joinRight(h, n)) /\ RightJoined(h, joinRight(h, n), n)
  <1> DEFINE r == h[n].next
             g == joinRight(h, n)
  <1>1. CASE r = NULL \/ h[r].status # "free"
    <2>1. g = h
      BY <1>1 DEF joinRight
    <2>2. r # NULL => r \in DOMAIN h /\ h[r].status = "busy"
      BY <1>1 DEF WellFormed, LinksOK, TStoreRec, Status
    <2>3. h[n].prev # NULL => h[n].prev \in DOMAIN h
      BY DEF WellFormed, LinksOK
    <2> QED BY <2>1, <2>2, <2>3 DEF RightJoined, SameBusyBut, IsBusy, SeamOK
  <1>2. CASE r # NULL /\ h[r].status = "free"
    <2>0. WellFormed(g) /\ AbsorbedRight(h, g, n)
      BY <1>2, JoinRightWellFormed
    <2>1. /\ DOMAIN g = DOMAIN h \ {r}
          /\ g[n].pdata = h[n].pdata
          /\ g[n].status = h[n].status
          /\ g[n].next = h[r].next
          /\ g[n].prev = h[n].prev
          /\ \A m \in DOMAIN g \ {n} :
               /\ g[m].size = h[m].size
               /\ g[m].pdata = h[m].pdata
               /\ g[m].status = h[m].status
               /\ g[m].next = h[m].next
      BY <2>0 DEF AbsorbedRight
    <2> HIDE DEF g
    <2>2. r \in DOMAIN h /\ r # n /\ h[r].prev = n
      BY <1>2, BlockExtent DEF WellFormed, LinksOK
    <2>3. h[n].prev # NULL => h[n].prev \in DOMAIN g \ {n}
      BY <2>1, BlockExtent
    <2>4. \A m \in DOMAIN g \ {n} : SeamOK(h, m) => SeamOK(g, m)
      <3> SUFFICES ASSUME NEW m \in DOMAIN g \ {n}, SeamOK(h, m),
                          g[m].status = "free", g[m].next # NULL
                   PROVE  g[g[m].next].status = "busy"
        BY DEF SeamOK
      <3>1. h[m].next \in DOMAIN h /\ h[h[m].next].prev = m
        BY <2>0, <2>1 DEF WellFormed, LinksOK
      <3>2. h[m].next # r
        BY <2>2, <3>1
      <3> QED BY <2>1, <3>1, <3>2 DEF SeamOK
    <2>5. SeamOK(h, r) => SeamOK(g, n)
      <3> SUFFICES ASSUME SeamOK(h, r), h[r].next # NULL
                   PROVE  g[h[r].next].status = "busy"
        BY <2>1 DEF SeamOK
      <3>1. h[r].next \in DOMAIN g
        BY <2>1, <2>2, BlockExtent
      <3>2. h[h[r].next].status = "busy"
        BY <1>2 DEF SeamOK
      <3>3. h[r].next = n => g[n].status = h[n].status
        BY <2>1
      <3> QED BY <2>1, <3>1, <3>2, <3>3
    <2>6. SameBusyBut(h, g, {n})
      BY <1>2, <2>1 DEF SameBusyBut, IsBusy
    <2>7. n \in DOMAIN g
      BY <2>1, <2>2
    <2> QED BY <1>2, <2>0, <2>1, <2>3, <2>4, <2>5, <2>6, <2>7 DEF g, RightJoined
  <1>3. r # NULL => r \in DOMAIN h
    BY DEF WellFormed, LinksOK
  <1> QED BY <1>1, <1>2, <1>3

(* joinLeft, whether it joins or not: when only the seam before n may be   *)
(* open, none is open afterwards, save perhaps the one after First.        *)
LEMMA JoinLeft ==
  ASSUME NEW h, WellFormed(h), NEW n \in DOMAIN h, h[n].status = "free"
  PROVE  WellFormed(joinLeft(h, n)) /\ LeftJoined(h, joinLeft(h, n), n)
  <1> DEFINE l == h[n].prev
             g == joinLeft(h, n)
  <1>1. CASE l = NULL \/ h[l].status # "free" \/ h[l].prev = NULL
    <2>1. g = h
      BY <1>1 DEF joinLeft
    <2>2. l # NULL => l \in DOMAIN h
      BY DEF WellFormed, LinksOK
    <2>3. l # NULL /\ h[l].status # "free" => SeamOK(h, l)
      BY DEF SeamOK
    <2>4. l # NULL /\ h[l].prev = NULL => l = First
      BY <2>2 DEF WellFormed, LinksOK
    <2>5. NULL \notin DOMAIN h
      BY StoreAssumption DEF WellFormed
    <2>6. SameBusyBut(h, g, {n})
      BY <2>1 DEF SameBusyBut
    <2>7. ASSUME \A m \in DOMAIN h : m # l => SeamOK(h, m)
          PROVE  \A m \in DOMAIN g : m # First => SeamOK(g, m)
      BY <1>1, <2>1, <2>2, <2>3, <2>4, <2>5, <2>7
    <2> QED BY <2>1, <2>6, <2>7 DEF LeftJoined
  <1>2. CASE l # NULL /\ h[l].status = "free" /\ h[l].prev # NULL
    <2> DEFINE ll == h[l].prev
    <2>0. WellFormed(g) /\ AbsorbedLeft(h, g, n)
      BY <1>2, JoinLeftWellFormed
    <2>1. /\ l \in DOMAIN h /\ l # n
          /\ ll # n
          /\ DOMAIN g = DOMAIN h \ {l}
          /\ g[n].status = "free"
          /\ g[n].next = h[n].next
          /\ \A m \in DOMAIN g \ {n} :
               /\ g[m].size = h[m].size
               /\ g[m].pdata = h[m].pdata
               /\ g[m].status = h[m].status
               /\ g[m].next = IF m = ll THEN n ELSE h[m].next
      BY <2>0 DEF AbsorbedLeft
    <2> HIDE DEF g
    <2>2. SameBusyBut(h, g, {n})
      BY <1>2, <2>1 DEF SameBusyBut, IsBusy
    <2>3. ASSUME \A m \in DOMAIN h : m # l => SeamOK(h, m),
                 NEW m \in DOMAIN g
          PROVE  SeamOK(g, m)
      <3>1. m \in DOMAIN h /\ m # l /\ SeamOK(h, m)
        BY <2>1, <2>3
      <3>2. CASE m = ll
        <4>1. h[ll].next = l
          BY <1>2, <2>1 DEF WellFormed, LinksOK
        <4>2. h[ll].status # "free"
          BY <1>2, <3>1, <3>2, <4>1 DEF SeamOK
        <4> QED BY <2>1, <3>2, <4>2 DEF SeamOK
      <3>3. CASE m # ll
        <4>1. h[m].next # NULL => h[m].next \in DOMAIN h /\ h[h[m].next].prev = m
          BY <3>1 DEF WellFormed, LinksOK
        <4>2. h[m].next # l
          BY <1>2, <3>3, <4>1
        <4>3. g[m].next = h[m].next /\ g[m].status = h[m].status
          BY <2>1, <3>3
        <4>4. h[m].next # NULL =>
                g[h[m].next].status = h[h[m].next].status
          BY <2>1, <4>1, <4>2
        <4> QED BY <3>1, <4>3, <4>4 DEF SeamOK
      <3> QED BY <3>2, <3>3
    <2> QED BY <2>0, <2>1, <2>2, <2>3 DEF g, LeftJoined
  <1> QED BY <1>1, <1>2

(* Marking a block busy opens no seam; marking it free may open its own    *)
(* and the one before it.                                                  *)
LEMMA SetStatusSeams ==
  ASSUME NEW h, WellFormed(h), NEW n \in DOMAIN h
  PROVE  /\ \A m \in DOMAIN h : SeamOK(h, m) => SeamOK(SetStatus(h, n, "busy"), m)
         /\ SeamOK(SetStatus(h, n, "busy"), n)
         /\ \A m \in DOMAIN h : m # n /\ m # h[n].prev /\ SeamOK(h, m) =>
              SeamOK(SetStatus(h, n, "free"), m)
  <1> DEFINE b == SetStatus(h, n, "busy")
             f == SetStatus(h, n, "free")
  <1>1. Relabelled(h, b, n, "busy") /\ Relabelled(h, f, n, "free")
    BY SetStatusWellFormed DEF Status
  <1> HIDE DEF b, f
  <1>2. \A m \in DOMAIN h : h[m].next # NULL =>
          h[m].next \in DOMAIN h /\ h[h[m].next].prev = m
    BY DEF WellFormed, LinksOK
  <1>3. \A m \in DOMAIN h : SeamOK(h, m) => SeamOK(b, m)
    BY <1>1, <1>2 DEF SeamOK, Relabelled
  <1>4. SeamOK(b, n)
    BY <1>1 DEF SeamOK, Relabelled
  <1>5. \A m \in DOMAIN h : m # n /\ m # h[n].prev /\ SeamOK(h, m) => SeamOK(f, m)
    BY <1>1, <1>2 DEF SeamOK, Relabelled
  <1> QED BY <1>3, <1>4, <1>5 DEF b, f

(* Splitting n leaves every seam but its own as it was. *)
LEMMA SplitMemSeams ==
  ASSUME NEW h, WellFormed(h), NEW n \in DOMAIN h, NEW need \in Nat \ {0},
         need < h[n].size, NEW fresh \in Node \ DOMAIN h,
         NEW m \in DOMAIN h \ {n}, SeamOK(h, m)
  PROVE  SeamOK(SplitMem(h, n, need, fresh), m)
  <1>1. SplitOff(h, SplitMem(h, n, need, fresh), n, need, fresh)
    BY SplitMemWellFormed
  <1>2. h[m].next # NULL => h[m].next \in DOMAIN h
    BY DEF WellFormed, LinksOK
  <1> QED BY <1>1, <1>2 DEF SeamOK, SplitOff

-----------------------------------------------------------------------------
(* AllocPartMem, on a free block of sufficient size or on a busy one that   *)
(* is to shrink: what is cut off becomes free memory.                       *)
LEMMA AllocPartMemOK ==
  ASSUME NEW h, WellFormed(h), NEW n \in DOMAIN h,
         NEW need \in Nat \ {0}, need <= h[n].size,
         NEW fresh, Splits(h, n, need) => fresh \in Node \ DOMAIN h
  PROVE  /\ WellFormed(AllocPartMem(h, n, need, fresh))
         /\ Resized(h, AllocPartMem(h, n, need, fresh), n, need)
  <1> DEFINE g == AllocPartMem(h, n, need, fresh)
  <1>0. "busy" \in Status /\ "free" \in Status
    BY DEF Status
  <1>1. CASE ~Splits(h, n, need)
    <2>1. g = SetStatus(h, n, "busy") /\ h[n].size = need
      BY <1>1 DEF AllocPartMem, SplitMem, Splits
    <2>2. WellFormed(g) /\ Relabelled(h, g, n, "busy")
      BY <1>0, <2>1, SetStatusWellFormed
    <2>3. \A m \in DOMAIN h : SeamOK(h, m) => SeamOK(g, m)
      BY <2>1, SetStatusSeams
    <2> HIDE DEF g
    <2>4. SameBusyBut(h, g, {n})
      BY <2>2 DEF SameBusyBut, IsBusy, Relabelled
    <2>5. Coalesced(h) => Coalesced(g)
      BY <2>2, <2>3 DEF Coalesced, SeamOK, Relabelled
    <2> QED BY <2>1, <2>2, <2>4, <2>5 DEF IsBusy, Relabelled, Resized, g
  <1>2. CASE Splits(h, n, need)
    <2> DEFINE a == SplitMem(h, n, need, fresh)
               b == SetStatus(a, n, "busy")
               c == SetStatus(b, fresh, "free")
    <2>0. /\ fresh \in Node \ DOMAIN h /\ fresh # n /\ n \in Node
          /\ need < h[n].size
          /\ g = joinRight(c, fresh)
      BY <1>2, BlockExtent, StoreAssumption DEF AllocPartMem, Splits, WellFormed
    <2> HIDE DEF g
    <2>1. WellFormed(a) /\ SplitOff(h, a, n, need, fresh)
      BY <2>0, SplitMemWellFormed
    <2>2. ASSUME Coalesced(h), NEW m \in DOMAIN h \ {n} PROVE SeamOK(a, m)
      BY <2>0, <2>2, SplitMemSeams DEF Coalesced, SeamOK
    <2> HIDE DEF a
    <2>3. WellFormed(b) /\ Relabelled(a, b, n, "busy")
      <3>1. n \in DOMAIN a
        BY <2>1 DEF SplitOff
      <3> QED BY <1>0, <2>1, <3>1, SetStatusWellFormed
    <2>4. ASSUME Coalesced(h), NEW m \in DOMAIN h \ {n} PROVE SeamOK(b, m)
      <3>1. m \in DOMAIN a /\ n \in DOMAIN a
        BY <2>1 DEF SplitOff
      <3> QED BY <2>1, <2>2, <2>4, <3>1, SetStatusSeams
    <2> HIDE DEF b
    <2>5. WellFormed(c) /\ Relabelled(b, c, fresh, "free")
      <3>1. fresh \in DOMAIN b
        BY <2>1, <2>3 DEF SplitOff, Relabelled
      <3> QED BY <1>0, <2>3, <3>1, SetStatusWellFormed
    <2>6. /\ DOMAIN c = DOMAIN h \cup {fresh}
          /\ c[n].status = "busy" /\ c[n].size = need /\ c[n].pdata = h[n].pdata
          /\ c[fresh].prev = n /\ c[fresh].next = h[n].next
          /\ \A m \in DOMAIN h \ {n} : /\ c[m].status = h[m].status
                                       /\ c[m].size = h[m].size
                                       /\ c[m].pdata = h[m].pdata
      BY <2>0, <2>1, <2>3, <2>5 DEF SplitOff, Relabelled
    <2>7. ASSUME Coalesced(h), NEW m \in DOMAIN h PROVE SeamOK(c, m)
      <3>1. CASE m = n
        BY <2>6, <3>1 DEF SeamOK
      <3>2. CASE m # n
        <4>1. SeamOK(b, m)
          BY <2>4, <2>7, <3>2
        <4>2. /\ b[fresh].prev = n /\ m # fresh
              /\ m \in DOMAIN b /\ fresh \in DOMAIN b
          BY <2>0, <2>1, <2>3 DEF SplitOff, Relabelled
        <4> QED BY <2>3, <3>2, <4>1, <4>2, SetStatusSeams DEF c
      <3> QED BY <3>1, <3>2
    <2> HIDE DEF c
    <2>8. WellFormed(g) /\ RightJoined(c, g, fresh)
      BY <2>0, <2>5, <2>6, JoinRight
    <2>9. IsBusy(g, n) /\ g[n].size = need /\ g[n].pdata = h[n].pdata
      BY <2>0, <2>6, <2>8 DEF SameBusyBut, IsBusy, RightJoined
    <2>10. SameBusyBut(h, g, {n})
      <3> SUFFICES ASSUME NEW m \in Node \ {n}
                   PROVE  /\ IsBusy(g, m) <=> IsBusy(h, m)
                          /\ IsBusy(h, m) => /\ g[m].size = h[m].size
                                             /\ g[m].pdata = h[m].pdata
        BY DEF SameBusyBut
      <3>1. CASE m = fresh
        <4>1. g[fresh].status = "free"
          BY <2>5, <2>8 DEF RightJoined, Relabelled
        <4> QED BY <2>0, <3>1, <4>1 DEF IsBusy
      <3>2. CASE m # fresh
        <4>1. /\ IsBusy(g, m) <=> IsBusy(c, m)
              /\ IsBusy(c, m) => g[m].size = c[m].size /\ g[m].pdata = c[m].pdata
          BY <2>8, <3>2 DEF SameBusyBut, RightJoined
        <4> QED BY <2>6, <3>2, <4>1 DEF IsBusy
      <3> QED BY <3>1, <3>2
    <2>11. ASSUME Coalesced(h) PROVE Coalesced(g)
      <3> SUFFICES ASSUME NEW m \in DOMAIN g
                   PROVE  SeamOK(g, m)
        BY DEF Coalesced, SeamOK
      <3>1. CASE m = fresh
        <4>1. h[n].next # NULL => h[n].next \in DOMAIN h
          BY DEF WellFormed, LinksOK
        <4> QED BY <2>6, <2>7, <2>8, <2>11, <3>1, <4>1 DEF RightJoined
      <3>2. CASE m # fresh
        <4>1. m \in DOMAIN h
          BY <2>6, <2>8, <3>2 DEF RightJoined
        <4> QED BY <2>7, <2>8, <2>11, <3>2, <4>1 DEF RightJoined
      <3> QED BY <3>1, <3>2
    <2> QED BY <2>8, <2>9, <2>10, <2>11 DEF g, Resized
  <1> QED BY <1>1, <1>2

(* freeMem and then defragmet on the first block, as Free calls them: the   *)
(* block is gone from the busy ones, and no open seam is left -- joinLeft   *)
(* leaves the one after First open, and defragmet mends it.                 *)
LEMMA FreeMemOK ==
  ASSUME NEW h, WellFormed(h), NEW n \in DOMAIN h
  PROVE  /\ WellFormed(defragmet(freeMem(h, n), First))
         /\ Released(h, defragmet(freeMem(h, n), First), n)
  <1> DEFINE a == SetStatus(h, n, "free")
             b == joinRight(a, n)
             c == joinLeft(b, n)
             g == defragmet(c, First)
  <1>0. /\ "free" \in Status /\ n \in Node
        /\ g = defragmet(freeMem(h, n), First)
    BY DEF Status, WellFormed, freeMem
  <1>1. WellFormed(a) /\ Relabelled(h, a, n, "free")
    BY <1>0, SetStatusWellFormed
  <1>2. ASSUME Coalesced(h), NEW m \in DOMAIN h, m # n, m # h[n].prev
        PROVE  SeamOK(a, m)
    BY <1>2, SetStatusSeams DEF Coalesced, SeamOK
  <1> HIDE DEF a
  <1>3. n \in DOMAIN a /\ a[n].prev = h[n].prev /\ a[n].next = h[n].next
    BY <1>1 DEF Relabelled
  <1>4. WellFormed(b) /\ RightJoined(a, b, n)
    BY <1>1, <1>3, JoinRight
  <1>5. ASSUME Coalesced(h), NEW m \in DOMAIN b, m # b[n].prev
        PROVE  SeamOK(b, m)
    <2>1. b[n].prev = h[n].prev
      BY <1>3, <1>4 DEF RightJoined
    <2>2. CASE m = n
      <3>1. a[n].next # NULL => /\ a[n].next \in DOMAIN h
                               /\ a[n].next # n
                               /\ a[n].next # h[n].prev
        <4>1. DOMAIN a = DOMAIN h
          BY <1>1 DEF Relabelled
        <4>2. NULL \notin DOMAIN h
          BY StoreAssumption DEF WellFormed
        <4> QED BY <1>1, <1>3, <4>1, <4>2, BlockExtent
      <3> QED BY <1>2, <1>4, <1>5, <2>2, <3>1 DEF RightJoined
    <2>3. CASE m # n
      <3>1. m \in DOMAIN h
        BY <1>1, <1>4 DEF Relabelled, RightJoined
      <3> QED BY <1>2, <1>4, <1>5, <2>1, <2>3, <3>1 DEF RightJoined
    <2> QED BY <2>2, <2>3
  <1>6. n \in DOMAIN b /\ b[n].status = "free"
    BY <1>1, <1>4 DEF Relabelled, RightJoined
  <1> HIDE DEF b
  <1>7. WellFormed(c) /\ LeftJoined(b, c, n)
    BY <1>4, <1>6, JoinLeft
  <1>8. ASSUME Coalesced(h), NEW m \in DOMAIN c, m # First
        PROVE  SeamOK(c, m)
    BY <1>5, <1>7, <1>8 DEF LeftJoined
  <1>9. SameBusyBut(h, c, {n}) /\ ~IsBusy(c, n)
    <2>1. SameBusyBut(h, a, {n})
      BY <1>1 DEF SameBusyBut, IsBusy, Relabelled
    <2>2. SameBusyBut(a, b, {n}) /\ SameBusyBut(b, c, {n})
      BY <1>4, <1>7 DEF RightJoined, LeftJoined
    <2> QED BY <1>7, <2>1, <2>2 DEF SameBusyBut, IsBusy, LeftJoined
  <1> HIDE DEF c
  <1>10. CASE c[First].status = "free"
    <2>1. g = joinRight(c, First) /\ First \in DOMAIN c
      BY <1>7, <1>10 DEF defragmet, WellFormed
    <2> HIDE DEF g
    <2>2. WellFormed(g) /\ RightJoined(c, g, First)
      BY <1>7, <2>1, JoinRight
    <2>3. SameBusyBut(h, g, {n}) /\ ~IsBusy(g, n)
      BY <1>0, <1>9, <1>10, <2>1, <2>2 DEF SameBusyBut, IsBusy, RightJoined
    <2>4. ASSUME Coalesced(h), NEW m \in DOMAIN g PROVE SeamOK(g, m)
      <3>1. c[First].next # NULL =>
              c[First].next \in DOMAIN c /\ c[First].next # First
        BY <1>7, <2>1, BlockExtent
      <3>2. DOMAIN g \subseteq DOMAIN c
        BY <2>2 DEF RightJoined
      <3> QED BY <1>8, <2>2, <2>4, <3>1, <3>2 DEF RightJoined
    <2> QED BY <1>0, <2>2, <2>3, <2>4 DEF Released, Coalesced, SeamOK
  <1>11. CASE c[First].status # "free"
    <2>1. g = c
      BY <1>11 DEF defragmet
    <2>2. ASSUME Coalesced(h), NEW m \in DOMAIN c PROVE SeamOK(c, m)
      BY <1>8, <1>11, <2>2 DEF SeamOK
    <2> QED BY <1>0, <1>7, <1>9, <2>1, <2>2 DEF Released, Coalesced, SeamOK
  <1> QED BY <1>10, <1>11

(* Marking a block with the status it has changes no seam.                  *)
LEMMA RelabelSame ==
  ASSUME NEW h, WellFormed(h), NEW n \in DOMAIN h, h[n].status = "free",
         NEW m \in DOMAIN h, SeamOK(h, m)
  PROVE  SeamOK(SetStatus(h, n, "free"), m)
  <1>1. Relabelled(h, SetStatus(h, n, "free"), n, "free")
    BY SetStatusWellFormed DEF Status
  <1>2. h[m].next # NULL => h[m].next \in DOMAIN h
    BY DEF WellFormed, LinksOK
  <1> QED BY <1>1, <1>2 DEF SeamOK, Relabelled

(* ReAllocMem, on a block in use and when it returns true: the block has    *)
(* the size asked for and its data where it was.                            *)
LEMMA ReAllocMemOK ==
  ASSUME NEW h, WellFormed(h), NEW n \in DOMAIN h, h[n].status = "busy",
         NEW need \in Nat \ {0}, CanReAllocMem(h, n, need),
         NEW fresh, ReAllocSplits(h, n, need) => fresh \in Node \ DOMAIN h
  PROVE  /\ WellFormed(ReAllocMem(h, n, need, fresh))
         /\ Resized(h, ReAllocMem(h, n, need, fresh), n, need)
  <1> DEFINE g == ReAllocMem(h, n, need, fresh)
  <1>0. /\ h[n].size \in 1 .. MemSize /\ MemSize \in Nat
        /\ "free" \in Status /\ n \in Node /\ NULL \notin DOMAIN h
    BY BlockExtent, StoreAssumption DEF WellFormed, Status
  <1>1. CASE need <= h[n].size
    <2>1. g = AllocPartMem(h, n, need, fresh)
      BY <1>1 DEF ReAllocMem
    <2>2. Splits(h, n, need) => fresh \in Node \ DOMAIN h
      BY <1>1 DEF ReAllocSplits
    <2> HIDE DEF g
    <2>3. WellFormed(g) /\ Resized(h, g, n, need)
      BY <1>1, <2>1, <2>2, AllocPartMemOK
    <2> QED BY <2>3 DEF g
  <1>2. CASE ~(need <= h[n].size)
    <2> DEFINE r == h[n].next
               lack == need - h[n].size
               b == SetStatus(SplitMem(h, r, lack, fresh), r, "free")
               d == IF Splits(h, r, lack)
                    THEN joinRight(SetStatus(b, fresh, "free"), fresh) ELSE b
    <2>1. g = joinRight(d, n)
      BY <1>2 DEF ReAllocMem
    <2> HIDE DEF g
    <2>2. /\ r \in DOMAIN h /\ r # n /\ h[r].status = "free" /\ r \in Node
          /\ lack \in Nat \ {0} /\ lack <= h[r].size
          /\ h[r].size \in 1 .. MemSize
          /\ h[r].next # r /\ h[r].next # n
          /\ h[r].next # NULL => h[r].next \in DOMAIN h
      <3>1. r # NULL /\ isFree(h, r, lack)
        BY <1>2 DEF CanReAllocMem
      <3>2. lack \in Nat \ {0}
        BY <1>0, <1>2
      <3>3. r \in DOMAIN h /\ r # n /\ h[r].prev = n
        BY <3>1, BlockExtent DEF WellFormed, LinksOK
      <3>4. /\ h[r].size \in 1 .. MemSize
            /\ h[r].next # NULL => h[r].next \in DOMAIN h /\ h[r].next # r
            /\ h[r].prev # h[r].next
        BY <1>0, <3>3, BlockExtent
      <3> QED BY <1>0, <3>1, <3>2, <3>3, <3>4 DEF isFree, WellFormed
    (* Just before the last join: r is the block to absorb, of the size     *)
    (* that is lacking, and no other seam is open.                          *)
    <2>3. /\ WellFormed(d)
          /\ n \in DOMAIN d /\ d[n].next = r
          /\ d[n].status = "busy" /\ d[n].size = h[n].size /\ d[n].pdata = h[n].pdata
          /\ r \in DOMAIN d /\ d[r].status = "free" /\ d[r].size = lack
          /\ SameBusyBut(h, d, {n})
          /\ Coalesced(h) => \A m \in DOMAIN d \ {r} : SeamOK(d, m)
      <3>1. CASE ~Splits(h, r, lack)
        <4>1. d = SetStatus(h, r, "free") /\ h[r].size = lack
          BY <3>1 DEF Splits, SplitMem
        <4>2. WellFormed(d) /\ Relabelled(h, d, r, "free")
          BY <1>0, <2>2, <4>1, SetStatusWellFormed
        <4>3. ASSUME Coalesced(h), NEW m \in DOMAIN h PROVE SeamOK(d, m)
          BY <2>2, <4>1, <4>3, RelabelSame DEF Coalesced, SeamOK
        <4> HIDE DEF d
        <4>4. SameBusyBut(h, d, {n})
          BY <2>2, <4>2 DEF SameBusyBut, IsBusy, Relabelled
        <4> QED BY <2>2, <4>1, <4>2, <4>3, <4>4 DEF Relabelled
      <3>2. CASE Splits(h, r, lack)
        <4> DEFINE a == SplitMem(h, r, lack, fresh)
                   c == SetStatus(b, fresh, "free")
        <4>1. /\ fresh \in Node \ DOMAIN h /\ lack < h[r].size
              /\ d = joinRight(c, fresh)
          <5>1. fresh \in Node \ DOMAIN h
            BY <1>2, <3>2 DEF ReAllocSplits
          <5>2. lack < h[r].size
            BY <1>0, <2>2, <3>2 DEF Splits
          <5> QED BY <3>2, <5>1, <5>2
        <4> HIDE DEF d
        <4>2. WellFormed(a) /\ SplitOff(h, a, r, lack, fresh)
          BY <2>2, <4>1, SplitMemWellFormed
        <4>3. ASSUME Coalesced(h), NEW m \in DOMAIN h \ {r} PROVE SeamOK(a, m)
          BY <2>2, <4>1, <4>3, SplitMemSeams DEF Coalesced, SeamOK
        <4>4. b = SetStatus(a, r, "free")
          OBVIOUS
        <4> HIDE DEF a, b
        <4>5. /\ DOMAIN a = DOMAIN h \cup {fresh} /\ fresh \notin DOMAIN h
              /\ a[r].status = "free" /\ a[fresh].status = "free"
          BY <2>2, <4>1, <4>2 DEF SplitOff
        <4>6. WellFormed(b) /\ Relabelled(a, b, r, "free")
          BY <1>0, <2>2, <4>2, <4>4, <4>5, SetStatusWellFormed
        <4>7. ASSUME Coalesced(h), NEW m \in DOMAIN h \ {r} PROVE SeamOK(b, m)
          BY <2>2, <4>2, <4>3, <4>4, <4>5, <4>7, RelabelSame
        <4>8. DOMAIN b = DOMAIN a /\ b[fresh].status = "free"
          BY <2>2, <4>5, <4>6 DEF Relabelled
        <4>9. WellFormed(c) /\ Relabelled(b, c, fresh, "free")
          BY <1>0, <4>5, <4>6, <4>8, SetStatusWellFormed
        <4>10. ASSUME Coalesced(h), NEW m \in DOMAIN h \ {r} PROVE SeamOK(c, m)
          BY <4>5, <4>6, <4>7, <4>8, <4>10, RelabelSame
        <4> HIDE DEF c
        <4>11. /\ DOMAIN c = DOMAIN h \cup {fresh}
               /\ c[n].next = r
               /\ c[n].status = "busy" /\ c[n].size = h[n].size
               /\ c[n].pdata = h[n].pdata
               /\ c[r].status = "free" /\ c[r].size = lack
               /\ c[fresh].prev = r /\ c[fresh].next = h[r].next
               /\ c[fresh].status = "free"
               /\ \A m \in DOMAIN h \ {r} : /\ c[m].status = h[m].status
                                            /\ c[m].size = h[m].size
                                            /\ c[m].pdata = h[m].pdata
          BY <2>2, <4>1, <4>2, <4>6, <4>9 DEF SplitOff, Relabelled
        <4>12. WellFormed(d) /\ RightJoined(c, d, fresh)
          BY <4>1, <4>9, <4>11, JoinRight
        <4>13. /\ n \in DOMAIN d /\ d[n].next = r
               /\ d[n].status = "busy" /\ d[n].size = h[n].size
               /\ d[n].pdata = h[n].pdata
               /\ r \in DOMAIN d /\ d[r].status = "free" /\ d[r].size = lack
          <5>1. r \in DOMAIN d \ {fresh}
            BY <1>0, <2>2, <4>1, <4>11, <4>12 DEF RightJoined
          <5>2. n \in DOMAIN d \ {fresh}
            BY <1>0, <4>1, <4>11, <4>12 DEF RightJoined, SameBusyBut, IsBusy
          <5> QED BY <4>11, <4>12, <5>1, <5>2 DEF RightJoined
        <4>14. SameBusyBut(h, d, {n})
          <5> SUFFICES ASSUME NEW m \in Node \ {n}
                       PROVE  /\ IsBusy(d, m) <=> IsBusy(h, m)
                              /\ IsBusy(h, m) => /\ d[m].size = h[m].size
                                                 /\ d[m].pdata = h[m].pdata
            BY DEF SameBusyBut
          <5>1. CASE m = fresh
            BY <4>1, <4>11, <4>12, <5>1 DEF IsBusy, RightJoined
          <5>2. CASE m # fresh
            <6>1. /\ IsBusy(d, m) <=> IsBusy(c, m)
                  /\ IsBusy(c, m) => /\ d[m].size = c[m].size
                                     /\ d[m].pdata = c[m].pdata
              BY <4>12, <5>2 DEF SameBusyBut, RightJoined
            <6> QED BY <2>2, <4>11, <5>2, <6>1 DEF IsBusy
          <5> QED BY <5>1, <5>2
        <4>15. ASSUME Coalesced(h), NEW m \in DOMAIN d \ {r} PROVE SeamOK(d, m)
          <5>1. CASE m = fresh
            BY <2>2, <4>10, <4>11, <4>12, <4>15, <5>1 DEF RightJoined
          <5>2. CASE m # fresh
            BY <4>10, <4>11, <4>12, <4>15, <5>2 DEF RightJoined
          <5> QED BY <5>1, <5>2
        <4> QED BY <4>12, <4>13, <4>14, <4>15
      <3> QED BY <3>1, <3>2
    <2> HIDE DEF d
    <2>4. r # NULL
      BY <1>0, <2>2
    <2>5. WellFormed(g) /\ AbsorbedRight(d, g, n) /\ RightJoined(d, g, n)
      BY <2>1, <2>3, <2>4, JoinRightWellFormed, JoinRight
    <2>6. IsBusy(g, n) /\ g[n].size = need /\ g[n].pdata = h[n].pdata
      BY <1>0, <2>2, <2>3, <2>5 DEF IsBusy, AbsorbedRight, RightJoined
    <2>7. SameBusyBut(h, g, {n})
      <3>1. SameBusyBut(h, d, {n}) /\ SameBusyBut(d, g, {n})
        BY <2>3, <2>5 DEF RightJoined
      <3> QED BY <3>1 DEF SameBusyBut
    <2>8. ASSUME Coalesced(h), NEW m \in DOMAIN g PROVE SeamOK(g, m)
      <3>1. CASE m = n
        BY <2>6, <3>1 DEF SeamOK, IsBusy
      <3>2. CASE m # n
        <4>1. m \in DOMAIN d \ {r}
          BY <2>3, <2>5 DEF AbsorbedRight
        <4> QED BY <2>3, <2>5, <2>8, <3>2, <4>1 DEF RightJoined
      <3> QED BY <3>1, <3>2
    <2>9. Resized(h, g, n, need)
      BY <2>6, <2>7, <2>8 DEF Resized, Coalesced, SeamOK
    <2> QED BY <2>5, <2>9 DEF g
  <1> QED BY <1>1, <1>2

(***************************************************************************)
(* Part 2.  The allocator and its user.                                    *)
(***************************************************************************)

(* The inductive invariant: none of its parts is inductive alone.  Headers *)
(* survive the user's writes because blocks are apart; blocks stay apart   *)
(* because Free and ReAlloc find the right block in the header; the copy   *)
(* of ReAlloc stays within its block because of CallOK.                    *)
IInv ==
  /\ TypeOK
  /\ BlockListOK
  /\ FreeMemoryCoalesced
  /\ CallOK
  /\ HeadersIntact
  /\ NoLeak

(* The part of it that speaks of the list is WellFormed. *)
LEMMA ListWellFormed ==
  ASSUME IInv
  PROVE  WellFormed(heap) /\ Coalesced(heap)
  BY DEF IInv, TypeOK, BlockListOK, FreeMemoryCoalesced, WellFormed

LEMMA ListShape ==
  ASSUME NEW h, WellFormed(h)
  PROVE  /\ DOMAIN h \subseteq Node /\ h \in [DOMAIN h -> TStoreRec]
         /\ First \in DOMAIN h /\ LinksOK(h) /\ TilesMemory(h) /\ Apart(h)
  BY DEF WellFormed

(* The size of a request, header included, is a positive number. *)
LEMMA NeedIsPositive ==
  ASSUME NEW size \in Size
  PROVE  /\ Size_block(size) \in Nat \ {0}
         /\ size \in Nat /\ SIZE_POINTER \in Nat \ {0} /\ MemSize \in Nat
         /\ Size_block(size) = size + SIZE_POINTER
  BY StoreAssumption, SizeAssumption DEF Size_block

(* Blocks of two nodes share no byte; two that start together are one.     *)
LEMMA ExtentsApart ==
  ASSUME NEW h, WellFormed(h), NEW m \in DOMAIN h, NEW n \in DOMAIN h
  PROVE  /\ h[m].pdata = h[n].pdata => m = n
         /\ m # n => \A i, j \in Int :
              /\ h[m].pdata <= i /\ i < h[m].pdata + h[m].size
              /\ h[n].pdata <= j /\ j < h[n].pdata + h[n].size
              => i # j
  <1>1. h[m] \in TStoreRec /\ h[n] \in TStoreRec /\ MemSize \in Nat
    BY StoreAssumption DEF WellFormed
  <1>2. m # n => \/ h[m].pdata + h[m].size <= h[n].pdata
                 \/ h[n].pdata + h[n].size <= h[m].pdata
    BY DEF WellFormed, Apart
  <1> QED BY <1>1, <1>2 DEF TStoreRec

(* What is known of a pointer that the user holds. *)
LEMMA HeldPointer ==
  ASSUME IInv, NEW p \in DOMAIN live
  PROVE  LET n == getPointer(memory, p) IN
         /\ n \in DOMAIN heap /\ n \in Node /\ heap[n].status = "busy"
         /\ heap[n].pdata + SIZE_POINTER = p
         /\ heap[n].size = live[p] + SIZE_POINTER
         /\ live[p] \in Size
         /\ \A i \in p - SIZE_POINTER .. p - 1 : memory[i] = n
  <1>1. p \in SIZE_POINTER .. MemSize /\ live[p] \in Size
    BY DEF IInv, TypeOK
  <1> QED BY <1>1 DEF IInv, HeadersIntact, DataOf, TypeOK, Size_block

(* Two pointers with one header are one pointer. *)
LEMMA HeldPointersDiffer ==
  ASSUME IInv, NEW p \in DOMAIN live, NEW q \in DOMAIN live,
         getPointer(memory, p) = getPointer(memory, q)
  PROVE  p = q
  BY HeldPointer

-----------------------------------------------------------------------------
LEMMA InitInvariant == Init => IInv
  <1> SUFFICES ASSUME Init PROVE IInv
    OBVIOUS
  <1> USE DEF Init
  <1>1. WellFormed(heap) /\ Coalesced(heap)
    BY InitWellFormed
  <1>2. TypeOK
    <2>1. memory \in [Address -> Byte]
      BY DEF Byte
    <2>2. available_memory \in Int
      BY StoreAssumption
    <2>3. call \in Call
      BY StoreAssumption DEF NoCall, Call
    <2>4. DOMAIN live = {} /\ live \in [DOMAIN live -> Size]
      OBVIOUS
    <2> QED BY <1>1, <2>1, <2>2, <2>3, <2>4 DEF TypeOK, WellFormed
  <1>3. CallOK
    BY <1>1 DEF CallOK, NoCall, WellFormed
  <1>4. HeadersIntact
    BY DEF HeadersIntact
  <1>5. NoLeak
    BY DEF NoLeak, InitFreeMemory
  <1> QED BY <1>1, <1>2, <1>3, <1>4, <1>5
      DEF IInv, BlockListOK, FreeMemoryCoalesced, WellFormed

(* When the list, the memory and the user's pointers stay as they are, only *)
(* what is said of the call remains to be shown.                            *)
LEMMA OnlyCallChanges ==
  ASSUME IInv, UNCHANGED <<heap, memory, available_memory, live>>,
         call' \in Call, CallOK'
  PROVE  IInv'
  <1>1. TypeOK'
    BY DEF IInv, TypeOK
  <1>2. BlockListOK' /\ FreeMemoryCoalesced'
    BY DEF IInv, BlockListOK, FreeMemoryCoalesced
  <1>3. HeadersIntact'
    BY DEF IInv, HeadersIntact
  <1>4. NoLeak'
    BY DEF IInv, NoLeak
  <1> QED BY <1>1, <1>2, <1>3, <1>4 DEF IInv

LEMMA CallEnds ==
  ASSUME IInv, call' = NoCall, heap' = heap
  PROVE  call' \in Call /\ CallOK'
  <1>1. First \in DOMAIN heap
    BY ListWellFormed, ListShape
  <1> QED BY <1>1, StoreAssumption DEF CallOK, NoCall, Call

(* A walk that starts at the head has passed no block yet. *)
LEMMA NothingPassed ==
  ASSUME IInv, NEW n \in DOMAIN heap
  PROVE  ~(heap[n].pdata < heap[First].pdata)
  <1>1. heap[First].pdata = 0 /\ heap[n].pdata \in 0 .. MemSize /\ MemSize \in Nat
    BY ListWellFormed, BlockExtent, StoreAssumption DEF WellFormed, TilesMemory
  <1> QED BY <1>1

LEMMA AllocStarts ==
  ASSUME IInv, NEW size \in Size, Alloc(size)
  PROVE  IInv'
  <1>1. First \in DOMAIN heap /\ First \in Node
    BY ListWellFormed, ListShape
  <1>2. /\ call'.op = "Alloc" /\ call'.it = First /\ call'.size = size
        /\ call' \in Call
    <2>1. call' = [op |-> "Alloc", it |-> First, size |-> size, old |-> 0,
                   block |-> First]
      BY DEF Alloc, NoCall
    <2>2. 0 \in 0 .. MemSize
      BY StoreAssumption
    <2> QED BY <1>1, <2>1, <2>2 DEF Call
  <1>3. CallOK'
    BY <1>1, <1>2, NothingPassed DEF CallOK, Alloc
  <1> QED BY <1>2, <1>3, OnlyCallChanges DEF Alloc

LEMMA ReAllocStartsMove ==
  ASSUME IInv, NEW p \in DOMAIN live, NEW size \in Size, ReAllocMove(p, size),
         ~CanReAllocMem(heap, getPointer(memory, p), Size_block(size))
  PROVE  IInv'
  <1> DEFINE block == getPointer(memory, p)
  <1>1. /\ First \in DOMAIN heap /\ First \in Node
        /\ block \in DOMAIN heap /\ block \in Node
        /\ p \in 0 .. MemSize
    BY ListWellFormed, ListShape, HeldPointer, StoreAssumption DEF IInv, TypeOK
  <1>2. /\ call'.op = "ReAlloc" /\ call'.it = First /\ call'.size = size
        /\ call'.old = p /\ call'.block = block
        /\ call' \in Call
    BY <1>1 DEF ReAllocMove, NoCall, Call
  <1>3. heap[block].size < Size_block(size)
    <2>1. heap[block].size \in 1 .. MemSize /\ MemSize \in Nat /\ Size_block(size) \in Nat
      BY <1>1, ListWellFormed, BlockExtent, NeedIsPositive
    <2> QED BY <2>1 DEF CanReAllocMem
  <1>4. UNCHANGED <<heap, memory, available_memory, live>>
    BY DEF ReAllocMove
  <1>5. CallOK'
    BY <1>1, <1>2, <1>3, <1>4, NothingPassed DEF CallOK
  <1> QED BY <1>2, <1>4, <1>5, OnlyCallChanges

(* One iteration further: the block just refused joins those passed. *)
LEMMA AdvanceKeeps ==
  ASSUME IInv, Advance
  PROVE  IInv'
  <1> DEFINE it  == call.it
             nxt == heap[it].next
             need == Size_block(call.size)
  <1>1. WellFormed(heap) /\ it \in DOMAIN heap /\ it \in Node
    BY ListWellFormed, ListShape DEF IInv, CallOK
  <1>2. /\ nxt \in DOMAIN heap /\ nxt \in Node
        /\ heap[nxt].pdata = heap[it].pdata + heap[it].size
    BY <1>1, BlockExtent, ListShape DEF Advance
  <1>3. /\ call' = [call EXCEPT !.it = nxt] /\ call \in Call
        /\ UNCHANGED <<heap, memory, available_memory, live>>
        /\ ~isFree(heap, it, need)
    BY DEF Advance, IInv, TypeOK
  <1>4. /\ call' \in Call /\ call'.it = nxt /\ call'.op = call.op
        /\ call'.size = call.size /\ call'.old = call.old
        /\ call'.block = call.block
    BY <1>2, <1>3 DEF Call
  <1>5. call.op # "none"
    BY DEF IInv, CallOK, Advance
  <1>6. ASSUME NEW n \in DOMAIN heap, heap[n].pdata < heap[nxt].pdata
        PROVE  ~isFree(heap, n, need)
    <2>1. CASE n = it
      BY <1>3, <2>1
    <2>2. CASE n # it
      <3>1. /\ heap[n] \in TStoreRec /\ heap[it] \in TStoreRec /\ MemSize \in Nat
            /\ \/ heap[n].pdata + heap[n].size <= heap[it].pdata
               \/ heap[it].pdata + heap[it].size <= heap[n].pdata
        BY <1>1, <2>2, StoreAssumption DEF WellFormed, Apart
      <3>2. heap[n].pdata < heap[it].pdata
        BY <1>2, <1>6, <3>1 DEF TStoreRec
      <3> QED BY <1>5, <3>2 DEF IInv, CallOK
    <2> QED BY <2>1, <2>2
  <1>7. CallOK'
    <2>1. /\ call.size \in Size
          /\ call.op = "ReAlloc" =>
               /\ call.old \in DOMAIN live
               /\ call.block = getPointer(memory, call.old)
               /\ heap[call.block].size < Size_block(call.size)
      BY <1>5 DEF IInv, CallOK
    <2> QED BY <1>2, <1>3, <1>4, <1>5, <1>6, <2>1 DEF CallOK
  <1> QED BY <1>3, <1>4, <1>7, OnlyCallChanges

LEMMA ThrowKeeps ==
  ASSUME IInv, ThrowBadAlloc \/ NewThrows
  PROVE  IInv'
  BY CallEnds, OnlyCallChanges DEF ThrowBadAlloc, NewThrows

-----------------------------------------------------------------------------
(* The parts of the invariant that speak of the list alone. *)
LEMMA ListParts ==
  ASSUME WellFormed(heap'), Coalesced(heap')
  PROVE  /\ BlockListOK' /\ FreeMemoryCoalesced'
         /\ DOMAIN heap' \subseteq Node /\ heap' \in [DOMAIN heap' -> TStoreRec]
         /\ First \in DOMAIN heap'
  BY DEF WellFormed, BlockListOK, FreeMemoryCoalesced

(* The data of a pointer: inside its block, and in nobody's header. *)
LEMMA DataInBlock ==
  ASSUME IInv, NEW p \in DOMAIN live, NEW i \in Nat, i < live[p]
  PROVE  /\ p + i \in Address
         /\ \A q \in DOMAIN live : p + i \notin q - SIZE_POINTER .. q - 1
  <1> DEFINE n == getPointer(memory, p)
  <1>1. /\ WellFormed(heap) /\ n \in DOMAIN heap
        /\ heap[n].pdata \in 0 .. MemSize /\ heap[n].pdata + heap[n].size <= MemSize
        /\ heap[n].pdata + SIZE_POINTER = p
        /\ heap[n].size = live[p] + SIZE_POINTER
        /\ live[p] \in Nat /\ SIZE_POINTER \in Nat \ {0} /\ MemSize \in Nat
    BY ListWellFormed, HeldPointer, BlockExtent, NeedIsPositive
  <1>2. p + i \in Address
    BY <1>1 DEF Address
  <1>3. ASSUME NEW q \in DOMAIN live, p + i \in q - SIZE_POINTER .. q - 1
        PROVE  FALSE
    <2> DEFINE m == getPointer(memory, q)
    <2>1. /\ m \in DOMAIN heap /\ heap[m].pdata \in 0 .. MemSize
          /\ heap[m].pdata + SIZE_POINTER = q
          /\ heap[m].size = live[q] + SIZE_POINTER
          /\ live[q] \in Nat
      BY <1>1, HeldPointer, BlockExtent, NeedIsPositive
    <2>2. m # n
      BY <1>1, <1>3, <2>1
    <2>3. /\ p + i \in Int
          /\ heap[n].pdata <= p + i /\ p + i < heap[n].pdata + heap[n].size
          /\ heap[m].pdata <= p + i /\ p + i < heap[m].pdata + heap[m].size
      BY <1>1, <1>3, <2>1
    <2> QED BY <1>1, <2>1, <2>2, <2>3, ExtentsApart
  <1> QED BY <1>2, <1>3

(* The user's writes leave every header alone. *)
LEMMA WriteKeeps ==
  ASSUME IInv, NEW p \in DOMAIN live, NEW i \in Address, NEW v \in Value,
         Write(p, i, v)
  PROVE  IInv'
  <1>1. /\ call = NoCall /\ i < live[p]
        /\ memory' = [memory EXCEPT ![p + i] = v]
        /\ UNCHANGED <<heap, available_memory, live, call>>
    BY DEF Write
  <1>2. i \in Nat /\ memory \in [Address -> Byte] /\ SIZE_POINTER \in Nat \ {0}
    BY StoreAssumption DEF IInv, TypeOK, Address
  <1>3. /\ p + i \in Address
        /\ \A q \in DOMAIN live : p + i \notin q - SIZE_POINTER .. q - 1
    BY <1>1, <1>2, DataInBlock
  <1>4. memory' \in [Address -> Byte] /\ TypeOK'
    BY <1>1, <1>2 DEF IInv, TypeOK, Byte
  <1>5. ASSUME NEW q \in DOMAIN live
        PROVE  /\ getPointer(memory', q) = getPointer(memory, q)
               /\ \A k \in q - SIZE_POINTER .. q - 1 : memory'[k] = memory[k]
    <2>1. q \in SIZE_POINTER .. MemSize /\ MemSize \in Nat
      BY StoreAssumption DEF IInv, TypeOK
    <2>2. \A k \in q - SIZE_POINTER .. q - 1 : k \in Address /\ k # p + i
      BY <1>2, <1>3, <2>1 DEF Address
    <2>3. q - SIZE_POINTER \in q - SIZE_POINTER .. q - 1
      BY <1>2, <2>1
    <2>4. \A k \in q - SIZE_POINTER .. q - 1 : memory'[k] = memory[k]
      BY <1>1, <1>2, <2>2
    <2> QED BY <2>3, <2>4 DEF getPointer
  <1>6. HeadersIntact'
    BY <1>1, <1>5 DEF IInv, HeadersIntact
  <1>7. CallOK'
    BY <1>1, ListWellFormed, ListShape DEF CallOK, NoCall
  <1>8. BlockListOK' /\ FreeMemoryCoalesced' /\ NoLeak'
    BY <1>1 DEF IInv, BlockListOK, FreeMemoryCoalesced, NoLeak
  <1> QED BY <1>4, <1>6, <1>7, <1>8 DEF IInv

(* Free: the block in the header is the one that is released. *)
LEMMA FreeKeeps ==
  ASSUME IInv, NEW p \in DOMAIN live, Free(p)
  PROVE  IInv'
  <1> DEFINE n == getPointer(memory, p)
  <1>1. /\ call = NoCall /\ call' = call /\ memory' = memory
        /\ heap' = defragmet(freeMem(heap, n), First)
        /\ live' = Without(live, p)
        /\ available_memory' = available_memory + heap[n].size
    BY DEF Free, FreeBlock
  <1>2. /\ n \in DOMAIN heap /\ n \in Node /\ heap[n].status = "busy"
        /\ heap[n].pdata + SIZE_POINTER = p
        /\ WellFormed(heap) /\ Coalesced(heap)
        /\ heap[n].size \in 1 .. MemSize /\ MemSize \in Nat
        /\ SIZE_POINTER \in Nat
    BY HeldPointer, ListWellFormed, BlockExtent, StoreAssumption
  <1>3. WellFormed(heap') /\ Released(heap, heap', n)
    BY <1>1, <1>2, FreeMemOK
  <1>4. Coalesced(heap')
    BY <1>2, <1>3 DEF Released
  <1>5. /\ DOMAIN live' = DOMAIN live \ {p}
        /\ \A q \in DOMAIN live' : live'[q] = live[q]
    BY <1>1 DEF Without
  <1>6. TypeOK'
    <2>1. live' \in [DOMAIN live' -> Size]
      <3>1. live' = [q \in DOMAIN live' |-> live'[q]]
        BY <1>1 DEF Without
      <3> QED BY <3>1, <1>5 DEF IInv, TypeOK
    <2>2. available_memory' \in Int
      BY <1>1, <1>2 DEF IInv, TypeOK
    <2> QED BY <1>1, <1>3, <1>4, <1>5, <2>1, <2>2, ListParts DEF IInv, TypeOK
  <1>7. ASSUME NEW q \in DOMAIN live'
        PROVE  /\ getPointer(memory, q) \in DOMAIN heap'
               /\ heap'[getPointer(memory, q)].status = "busy"
               /\ heap'[getPointer(memory, q)].size = heap[getPointer(memory, q)].size
               /\ heap'[getPointer(memory, q)].pdata = heap[getPointer(memory, q)].pdata
    <2> DEFINE m == getPointer(memory, q)
    <2>1. q \in DOMAIN live /\ q # p
      BY <1>5
    <2>2. m \in Node /\ m # n /\ IsBusy(heap, m)
      BY <2>1, HeldPointer, HeldPointersDiffer DEF IsBusy
    <2> QED BY <1>3, <2>2 DEF Released, SameBusyBut, IsBusy
  <1>8. HeadersIntact'
    BY <1>1, <1>5, <1>7 DEF IInv, HeadersIntact, DataOf
  <1>9. NoLeak'
    <2> SUFFICES ASSUME NEW m \in DOMAIN heap', heap'[m].status = "busy"
                 PROVE  DataOf(heap', m) \in DOMAIN live'
      BY DEF NoLeak
    <2>1. /\ m # n /\ IsBusy(heap, m)
          /\ heap'[m].pdata = heap[m].pdata
      BY <1>3, <1>4, ListParts DEF Released, SameBusyBut, IsBusy
    <2>2. DataOf(heap, m) \in DOMAIN live
      BY <2>1 DEF IInv, NoLeak, IsBusy
    <2>3. heap[m].pdata # heap[n].pdata
      BY <1>2, <2>1, ExtentsApart DEF IsBusy
    <2>4. heap[m].pdata \in 0 .. MemSize /\ heap[n].pdata \in 0 .. MemSize
      BY <1>2, <2>1, BlockExtent DEF IsBusy
    <2>5. DataOf(heap, m) # p
      BY <1>2, <2>3, <2>4 DEF DataOf
    <2> QED BY <1>5, <2>1, <2>2, <2>5 DEF DataOf
  <1>10. CallOK'
    BY <1>1, <1>3, <1>4, ListParts DEF CallOK, NoCall
  <1> QED BY <1>3, <1>4, <1>6, <1>8, <1>9, <1>10, ListParts DEF IInv

(* ReAlloc in place: the block of p changes its size, all others stay. *)
LEMMA ReAllocInPlaceKeeps ==
  ASSUME IInv, NEW p \in DOMAIN live, NEW size \in Size, NEW fresh,
         call = NoCall,
         CanReAllocMem(heap, getPointer(memory, p), Size_block(size)),
         ReAllocSplits(heap, getPointer(memory, p), Size_block(size)) =>
           fresh \in FreshNodes(heap),
         ReAllocInPlace(p, size, fresh)
  PROVE  IInv'
  <1> DEFINE n == getPointer(memory, p)
             need == Size_block(size)
  <1>1. /\ call' = call /\ memory' = memory
        /\ heap' = ReAllocMem(heap, n, need, fresh)
        /\ live' = [live EXCEPT ![p] = size]
        /\ available_memory' = available_memory + heap[n].size - need
    BY DEF ReAllocInPlace
  <1>2. /\ n \in DOMAIN heap /\ n \in Node /\ heap[n].status = "busy"
        /\ heap[n].pdata + SIZE_POINTER = p
        /\ WellFormed(heap) /\ Coalesced(heap)
        /\ heap[n].size \in 1 .. MemSize /\ MemSize \in Nat
        /\ need \in Nat \ {0}
    BY HeldPointer, ListWellFormed, BlockExtent, NeedIsPositive
  <1>3. WellFormed(heap') /\ Resized(heap, heap', n, need)
    BY <1>1, <1>2, ReAllocMemOK DEF FreshNodes
  <1>4. Coalesced(heap')
    BY <1>2, <1>3 DEF Resized
  <1>5. /\ DOMAIN live' = DOMAIN live
        /\ live'[p] = size
        /\ \A q \in DOMAIN live \ {p} : live'[q] = live[q]
        /\ live' \in [DOMAIN live -> Size]
    BY <1>1 DEF IInv, TypeOK
  <1>6. TypeOK'
    <2>1. available_memory' \in Int
      BY <1>1, <1>2 DEF IInv, TypeOK
    <2> QED BY <1>1, <1>3, <1>4, <1>5, <2>1, ListParts DEF IInv, TypeOK
  <1>7. ASSUME NEW q \in DOMAIN live, q # p
        PROVE  /\ getPointer(memory, q) \in DOMAIN heap'
               /\ heap'[getPointer(memory, q)].status = "busy"
               /\ heap'[getPointer(memory, q)].size = heap[getPointer(memory, q)].size
               /\ heap'[getPointer(memory, q)].pdata = heap[getPointer(memory, q)].pdata
    <2> DEFINE m == getPointer(memory, q)
    <2>1. m \in Node /\ m # n /\ IsBusy(heap, m)
      BY <1>7, HeldPointer, HeldPointersDiffer DEF IsBusy
    <2> QED BY <1>3, <2>1 DEF Resized, SameBusyBut, IsBusy
  <1>8. HeadersIntact'
    <2> SUFFICES ASSUME NEW q \in DOMAIN live
                 PROVE  LET m == getPointer(memory, q) IN
                        /\ \A i \in q - SIZE_POINTER .. q - 1 : memory[i] = m
                        /\ m \in DOMAIN heap' /\ heap'[m].status = "busy"
                        /\ DataOf(heap', m) = q
                        /\ heap'[m].size = Size_block(live'[q])
      BY <1>1, <1>5 DEF HeadersIntact
    <2>1. CASE q = p
      BY <1>2, <1>3, <1>5, <2>1, HeldPointer DEF Resized, IsBusy, DataOf
    <2>2. CASE q # p
      BY <1>5, <1>7, <2>2, HeldPointer DEF DataOf, Size_block
    <2> QED BY <2>1, <2>2
  <1>9. NoLeak'
    <2> SUFFICES ASSUME NEW m \in DOMAIN heap', heap'[m].status = "busy"
                 PROVE  DataOf(heap', m) \in DOMAIN live
      BY <1>5 DEF NoLeak
    <2>1. CASE m = n
      BY <1>2, <1>3, <2>1 DEF Resized, DataOf
    <2>2. CASE m # n
      <3>1. IsBusy(heap, m) /\ heap'[m].pdata = heap[m].pdata
        BY <1>3, <1>4, <2>2, ListParts DEF Resized, SameBusyBut, IsBusy
      <3> QED BY <3>1 DEF IInv, NoLeak, IsBusy, DataOf
    <2> QED BY <2>1, <2>2
  <1>10. CallOK'
    BY <1>1, <1>3, <1>4, ListParts DEF CallOK, NoCall
  <1> QED BY <1>3, <1>4, <1>6, <1>8, <1>9, <1>10, ListParts DEF IInv

-----------------------------------------------------------------------------
(* Alloc's walk stands on a block that fits: the list after AllocPartMem    *)
(* and the memory after putPointer, as TakeBlock starts from them.          *)
Taken(h, m, n, need) ==
  /\ WellFormed(h) /\ Coalesced(h)
  /\ Resized(heap, h, n, need)
  /\ m \in [Address -> Byte]
  /\ \A i \in heap[n].pdata .. heap[n].pdata + SIZE_POINTER - 1 : m[i] = n
  /\ \A i \in Address : ~(heap[n].pdata <= i /\ i < heap[n].pdata + need) =>
       m[i] = memory[i]

LEMMA WalkStands ==
  ASSUME IInv, call # NoCall
  PROVE  LET n == call.it IN
         /\ n \in DOMAIN heap /\ n \in Node
         /\ heap[n].pdata \in Nat /\ heap[n].size \in Nat
         /\ heap[n].pdata + heap[n].size <= MemSize
         /\ call.op \in {"Alloc", "ReAlloc"} /\ call.size \in Size
         /\ Size_block(call.size) \in Nat \ {0}
         /\ Size_block(call.size) = call.size + SIZE_POINTER
         /\ call.size \in Nat /\ SIZE_POINTER \in Nat \ {0} /\ MemSize \in Nat
  <1>1. /\ WellFormed(heap) /\ call.it \in DOMAIN heap /\ call.op # "none"
        /\ call.size \in Size /\ call \in Call
    BY ListWellFormed DEF IInv, CallOK, TypeOK
  <1> QED BY <1>1, BlockExtent, NeedIsPositive, StoreAssumption DEF WellFormed, Call

LEMMA BlockTaken ==
  ASSUME IInv, call # NoCall, NEW fresh,
         Splits(heap, call.it, Size_block(call.size)) => fresh \in FreshNodes(heap),
         isFree(heap, call.it, Size_block(call.size))
  PROVE  LET n == call.it
             need == Size_block(call.size)
         IN  Taken(AllocPartMem(heap, n, need, fresh),
                   putPointer(memory, n, heap[n].pdata), n, need)
  <1> DEFINE n == call.it
             need == Size_block(call.size)
             h == AllocPartMem(heap, n, need, fresh)
             m == putPointer(memory, n, heap[n].pdata)
  <1>1. /\ n \in DOMAIN heap /\ n \in Node /\ need \in Nat \ {0}
        /\ need <= heap[n].size
        /\ heap[n].pdata \in Nat /\ heap[n].size \in Nat
        /\ need = call.size + SIZE_POINTER
        /\ call.size \in Nat /\ SIZE_POINTER \in Nat \ {0}
        /\ heap[n].pdata + heap[n].size <= MemSize /\ MemSize \in Nat
    BY WalkStands DEF isFree
  <1>2. WellFormed(heap) /\ Coalesced(heap)
    BY ListWellFormed
  <1>3. WellFormed(h) /\ Resized(heap, h, n, need)
    BY <1>1, <1>2, AllocPartMemOK DEF FreshNodes
  <1>4. Coalesced(h)
    BY <1>2, <1>3 DEF Resized
  <1>5. memory \in [Address -> Byte]
    BY DEF IInv, TypeOK
  <1>6. m \in [Address -> Byte]
    BY <1>1, <1>5 DEF putPointer, Byte
  <1>7. \A i \in heap[n].pdata .. heap[n].pdata + SIZE_POINTER - 1 : m[i] = n
    <2>1. \A i \in heap[n].pdata .. heap[n].pdata + SIZE_POINTER - 1 : i \in Address
      BY <1>1 DEF Address
    <2> QED BY <1>5, <2>1 DEF putPointer
  <1>8. \A i \in Address : ~(heap[n].pdata <= i /\ i < heap[n].pdata + need) =>
          m[i] = memory[i]
    BY <1>1, <1>5 DEF putPointer, Address
  <1> QED BY <1>3, <1>4, <1>6, <1>7, <1>8 DEF Taken

(* A pointer held when a block is taken: its block is another one, and      *)
(* neither its header nor its data is written.                              *)
LEMMA OthersUntouched ==
  ASSUME IInv, call # NoCall, NEW h, NEW m,
         isFree(heap, call.it, Size_block(call.size)),
         Taken(h, m, call.it, Size_block(call.size)),
         NEW q \in DOMAIN live
  PROVE  LET n == getPointer(memory, q) IN
         /\ n # call.it /\ n \in Node
         /\ IsBusy(h, n) /\ h[n].size = heap[n].size /\ h[n].pdata = heap[n].pdata
         /\ getPointer(m, q) = n
         /\ \A i \in q - SIZE_POINTER .. q + live[q] - 1 :
              /\ i \in Address
              /\ m[i] = memory[i]
              /\ ~(heap[call.it].pdata <= i /\
                   i < heap[call.it].pdata + Size_block(call.size))
  <1> DEFINE n == getPointer(memory, q)
             it == call.it
             need == Size_block(call.size)
  <1>1. /\ it \in DOMAIN heap /\ it \in Node /\ need \in Nat \ {0}
        /\ need <= heap[it].size /\ heap[it].status = "free"
        /\ heap[it].pdata \in Nat /\ heap[it].size \in Nat
        /\ SIZE_POINTER \in Nat \ {0} /\ MemSize \in Nat
    BY WalkStands DEF isFree
  <1>2. /\ n \in DOMAIN heap /\ n \in Node /\ heap[n].status = "busy"
        /\ heap[n].pdata \in 0 .. MemSize /\ heap[n].pdata + heap[n].size <= MemSize
        /\ heap[n].pdata + SIZE_POINTER = q
        /\ heap[n].size = live[q] + SIZE_POINTER
        /\ live[q] \in Nat
    BY ListWellFormed, HeldPointer, BlockExtent, NeedIsPositive
  <1>3. n # it
    BY <1>1, <1>2
  <1>4. IsBusy(h, n) /\ h[n].size = heap[n].size /\ h[n].pdata = heap[n].pdata
    BY <1>2, <1>3 DEF Taken, Resized, SameBusyBut, IsBusy
  <1>5. ASSUME NEW i \in q - SIZE_POINTER .. q + live[q] - 1
        PROVE  /\ i \in Address
               /\ ~(heap[it].pdata <= i /\ i < heap[it].pdata + need)
    <2>1. /\ i \in Int /\ i \in Address
          /\ heap[n].pdata <= i /\ i < heap[n].pdata + heap[n].size
      BY <1>1, <1>2 DEF Address
    <2>2. ~(heap[it].pdata <= i /\ i < heap[it].pdata + heap[it].size)
      BY <1>1, <1>2, <1>3, <2>1, ListWellFormed, ExtentsApart
    <2> QED BY <1>1, <2>1, <2>2
  <1>6. \A i \in q - SIZE_POINTER .. q + live[q] - 1 : m[i] = memory[i]
    BY <1>5 DEF Taken
  <1>7. q - SIZE_POINTER \in q - SIZE_POINTER .. q + live[q] - 1
    BY <1>1, <1>2
  <1> QED BY <1>2, <1>3, <1>4, <1>5, <1>6, <1>7 DEF getPointer

LEMMA AllocTakesKeeps ==
  ASSUME IInv, NEW fresh, call.op = "Alloc", TakeBlock(fresh),
         Splits(heap, call.it, Size_block(call.size)) => fresh \in FreshNodes(heap)
  PROVE  IInv'
  <1> DEFINE n == call.it
             need == Size_block(call.size)
             p == DataOf(heap, n)
  <1>1. /\ call # NoCall /\ isFree(heap, n, need) /\ call' = NoCall
        /\ heap' = AllocPartMem(heap, n, need, fresh)
        /\ memory' = putPointer(memory, n, heap[n].pdata)
        /\ available_memory' = available_memory - need
        /\ live' = With(live, p, call.size)
    BY DEF TakeBlock
  <1>2. Taken(heap', memory', n, need)
    BY <1>1, BlockTaken
  <1>3. /\ n \in DOMAIN heap /\ n \in Node /\ heap[n].pdata \in Nat
        /\ heap[n].size \in Nat /\ need <= heap[n].size
        /\ heap[n].pdata + heap[n].size <= MemSize
        /\ call.size \in Size /\ call.size \in Nat
        /\ need = call.size + SIZE_POINTER /\ need \in Nat
        /\ SIZE_POINTER \in Nat \ {0} /\ MemSize \in Nat
        /\ p = heap[n].pdata + SIZE_POINTER
    BY <1>1, WalkStands DEF isFree, DataOf
  <1>4. /\ DOMAIN live' = DOMAIN live \cup {p}
        /\ live'[p] = call.size
        /\ \A q \in DOMAIN live \ {p} : live'[q] = live[q]
        /\ live' = [q \in DOMAIN live' |-> live'[q]]
    BY <1>1 DEF With
  <1>5. TypeOK'
    <2>1. live' \in [DOMAIN live' -> Size]
      BY <1>3, <1>4 DEF IInv, TypeOK
    <2>2. DOMAIN live' \subseteq SIZE_POINTER .. MemSize
      BY <1>3, <1>4 DEF IInv, TypeOK
    <2>3. call' \in Call
      BY <1>1, StoreAssumption DEF NoCall, Call
    <2>4. available_memory' \in Int
      BY <1>1, <1>3 DEF IInv, TypeOK
    <2> QED BY <1>2, <2>1, <2>2, <2>3, <2>4, ListParts DEF TypeOK, Taken
  <1>6. HeadersIntact'
    <2> SUFFICES ASSUME NEW q \in DOMAIN live'
                 PROVE  LET k == getPointer(memory', q) IN
                        /\ \A i \in q - SIZE_POINTER .. q - 1 : memory'[i] = k
                        /\ k \in DOMAIN heap' /\ heap'[k].status = "busy"
                        /\ DataOf(heap', k) = q
                        /\ heap'[k].size = Size_block(live'[q])
      BY DEF HeadersIntact
    <2>1. CASE q = p
      <3>1. \A i \in q - SIZE_POINTER .. q - 1 : memory'[i] = n
        BY <1>2, <1>3, <2>1 DEF Taken
      <3>2. getPointer(memory', q) = n
        <4>1. q - SIZE_POINTER \in q - SIZE_POINTER .. q - 1
          BY <1>3, <2>1
        <4> QED BY <3>1, <4>1 DEF getPointer
      <3> QED BY <1>2, <1>4, <2>1, <3>1, <3>2 DEF Taken, Resized, IsBusy, DataOf
    <2>2. CASE q # p
      <3>1. q \in DOMAIN live
        BY <1>4, <2>2
      <3>2. q \in Int /\ live[q] \in Nat
        BY <3>1, HeldPointer, NeedIsPositive DEF IInv, TypeOK
      <3>3. \A i \in q - SIZE_POINTER .. q - 1 :
              i \in q - SIZE_POINTER .. q + live[q] - 1
        BY <1>3, <3>2
      <3> QED BY <1>1, <1>2, <1>4, <2>2, <3>1, <3>3, OthersUntouched, HeldPointer, SMTT(30)
          DEF IsBusy, DataOf, Size_block
    <2> QED BY <2>1, <2>2
  <1>7. NoLeak'
    <2> SUFFICES ASSUME NEW k \in DOMAIN heap', heap'[k].status = "busy"
                 PROVE  DataOf(heap', k) \in DOMAIN live'
      BY DEF NoLeak
    <2>1. CASE k = n
      BY <1>2, <1>4, <2>1 DEF Taken, Resized, DataOf
    <2>2. CASE k # n
      <3>1. IsBusy(heap, k) /\ heap'[k].pdata = heap[k].pdata
        BY <1>2, <2>2 DEF Taken, Resized, SameBusyBut, IsBusy, WellFormed
      <3> QED BY <1>4, <3>1 DEF IInv, NoLeak, IsBusy, DataOf
    <2> QED BY <2>1, <2>2
  <1>8. CallOK'
    BY <1>1, <1>2, ListParts DEF CallOK, NoCall, Taken
  <1> QED BY <1>2, <1>5, <1>6, <1>7, <1>8, ListParts DEF IInv, Taken

(* ReAlloc's copy: all the old data, to the new block, nothing else. *)
LEMMA DataCopied ==
  ASSUME IInv, call # NoCall, call.op = "ReAlloc", NEW h, NEW m,
         isFree(heap, call.it, Size_block(call.size)),
         Taken(h, m, call.it, Size_block(call.size))
  PROVE  LET p    == DataOf(heap, call.it)
             len  == live[call.old]
             copy == memcpy(m, p, call.old, OnlyData(h, call.block))
         IN  /\ call.old \in DOMAIN live
             /\ call.block = getPointer(memory, call.old)
             /\ len \in Nat /\ len < call.size
             /\ copy \in [Address -> Byte]
             /\ \A i \in Address : i \notin p .. p + len - 1 => copy[i] = m[i]
             /\ \A i \in 0 .. len - 1 : copy[p + i] = memory[call.old + i]
             /\ getPointer(copy, call.old) = call.block
  <1> DEFINE it    == call.it
             need  == Size_block(call.size)
             p     == DataOf(heap, it)
             old   == call.old
             block == call.block
             len   == live[old]
             copy  == memcpy(m, p, old, OnlyData(h, block))
  <1>1. /\ old \in DOMAIN live
        /\ block = getPointer(memory, old)
        /\ heap[block].size < need
    BY DEF IInv, CallOK
  <1>2. /\ it \in DOMAIN heap /\ heap[it].pdata \in Nat /\ heap[it].size \in Nat
        /\ heap[it].pdata + heap[it].size <= MemSize /\ need <= heap[it].size
        /\ need = call.size + SIZE_POINTER /\ call.size \in Nat
        /\ SIZE_POINTER \in Nat \ {0} /\ MemSize \in Nat
        /\ p = heap[it].pdata + SIZE_POINTER
    BY WalkStands DEF isFree, DataOf
  <1>3. /\ heap[block].size = len + SIZE_POINTER /\ len \in Nat
        /\ heap[block].pdata + SIZE_POINTER = old
        /\ heap[block].pdata \in Nat
    BY <1>1, HeldPointer, NeedIsPositive, ListWellFormed, BlockExtent, StoreAssumption
  <1>4. h[block].size = heap[block].size
    BY <1>1, OthersUntouched
  <1>5. len < call.size /\ OnlyData(h, block) = len
    BY <1>1, <1>2, <1>3, <1>4 DEF OnlyData
  <1>6. m \in [Address -> Byte]
    BY DEF Taken
  <1>7. copy = [i \in Address |-> IF i \in p .. p + len - 1 THEN m[old + i - p]
                                  ELSE m[i]]
    BY <1>5, <1>6 DEF memcpy
  <1> HIDE DEF copy
  <1>8. \A i \in p .. p + len - 1 :
          /\ i \in Address
          /\ old + i - p \in old - SIZE_POINTER .. old + len - 1
    BY <1>2, <1>3, <1>5 DEF Address
  <1>9. \A k \in old - SIZE_POINTER .. old + len - 1 :
          k \in Address /\ m[k] = memory[k] /\ k \notin p .. p + len - 1
    <2> SUFFICES ASSUME NEW k \in old - SIZE_POINTER .. old + len - 1
                 PROVE  k \in Address /\ m[k] = memory[k] /\ k \notin p .. p + len - 1
      OBVIOUS
    <2>1. /\ k \in Address /\ m[k] = memory[k]
          /\ ~(heap[it].pdata <= k /\ k < heap[it].pdata + need)
      BY <1>1, OthersUntouched
    <2> QED BY <1>2, <1>3, <1>5, <2>1 DEF Address
  <1>10. copy \in [Address -> Byte]
    BY <1>6, <1>7, <1>8, <1>9
  <1>11. \A i \in Address : i \notin p .. p + len - 1 => copy[i] = m[i]
    BY <1>7
  <1>12. ASSUME NEW i \in 0 .. len - 1
         PROVE  copy[p + i] = memory[old + i]
    <2>1. /\ p + i \in p .. p + len - 1
          /\ old + (p + i) - p = old + i
          /\ old + i \in old - SIZE_POINTER .. old + len - 1
      BY <1>2, <1>3
    <2>2. copy[p + i] = m[old + (p + i) - p]
      BY <1>7, <1>8, <2>1
    <2> QED BY <1>9, <2>1, <2>2
  <1>13. getPointer(copy, old) = block
    <2>1. old - SIZE_POINTER \in old - SIZE_POINTER .. old + len - 1
      BY <1>2, <1>3
    <2>2. memory[old - SIZE_POINTER] = block
      BY <1>1 DEF getPointer
    <2> QED BY <1>9, <1>11, <2>1, <2>2 DEF getPointer
  <1> QED BY <1>1, <1>3, <1>5, <1>10, <1>11, <1>12, <1>13 DEF copy

LEMMA ReAllocTakesKeeps ==
  ASSUME IInv, NEW fresh, call.op = "ReAlloc", TakeBlock(fresh),
         Splits(heap, call.it, Size_block(call.size)) => fresh \in FreshNodes(heap)
  PROVE  IInv'
  <1> DEFINE n     == call.it
             need  == Size_block(call.size)
             p     == DataOf(heap, n)
             old   == call.old
             block == call.block
             h     == AllocPartMem(heap, n, need, fresh)
             m     == putPointer(memory, n, heap[n].pdata)
             copy  == memcpy(m, p, old, OnlyData(h, block))
  <1>1. /\ call # NoCall /\ isFree(heap, n, need) /\ call' = NoCall
        /\ heap' = FreeBlock(h, copy, old)
        /\ memory' = copy
        /\ available_memory' = available_memory - need + h[getPointer(copy, old)].size
        /\ live' = With(Without(live, old), p, call.size)
    BY DEF TakeBlock
  <1>2. Taken(h, m, n, need)
    BY <1>1, BlockTaken
  <1> HIDE DEF h, m
  <1>3. /\ n \in DOMAIN heap /\ n \in Node /\ heap[n].pdata \in Nat
        /\ heap[n].size \in Nat /\ need <= heap[n].size
        /\ heap[n].status = "free"
        /\ heap[n].pdata + heap[n].size <= MemSize
        /\ call.size \in Size /\ call.size \in Nat
        /\ need = call.size + SIZE_POINTER /\ need \in Nat
        /\ SIZE_POINTER \in Nat \ {0} /\ MemSize \in Nat
        /\ p = heap[n].pdata + SIZE_POINTER
    BY <1>1, WalkStands DEF isFree, DataOf
  <1>4. /\ old \in DOMAIN live
        /\ block = getPointer(memory, old)
        /\ live[old] \in Nat /\ live[old] < call.size
        /\ copy \in [Address -> Byte]
        /\ \A i \in Address : i \notin p .. p + live[old] - 1 => copy[i] = m[i]
        /\ getPointer(copy, old) = block
    BY <1>1, <1>2, DataCopied
  <1> HIDE DEF copy
  <1>5. /\ block # n /\ block \in Node /\ IsBusy(h, block)
        /\ h[block].size = heap[block].size /\ h[block].pdata = heap[block].pdata
        /\ heap[block].size \in Nat
        /\ block \in DOMAIN heap /\ heap[block].pdata + SIZE_POINTER = old
        /\ heap[block].pdata \in Nat
    BY <1>1, <1>2, <1>4, OthersUntouched, HeldPointer, ListWellFormed, BlockExtent,
       StoreAssumption
  <1>6. WellFormed(heap') /\ Coalesced(heap') /\ Released(h, heap', block)
    BY <1>1, <1>2, <1>4, <1>5, FreeMemOK DEF FreeBlock, Taken, IsBusy, Released
  <1>7. /\ DOMAIN live' = (DOMAIN live \ {old}) \cup {p}
        /\ live'[p] = call.size
        /\ \A q \in DOMAIN live' : q # p => live'[q] = live[q]
        /\ live' = [q \in DOMAIN live' |-> live'[q]]
    BY <1>1 DEF With, Without
  <1>8. TypeOK'
    <2>1. live' \in [DOMAIN live' -> Size]
      BY <1>3, <1>7 DEF IInv, TypeOK
    <2>2. DOMAIN live' \subseteq SIZE_POINTER .. MemSize
      BY <1>3, <1>7 DEF IInv, TypeOK
    <2>3. call' \in Call
      BY <1>1, StoreAssumption DEF NoCall, Call
    <2>4. available_memory' \in Int
      BY <1>1, <1>3, <1>4, <1>5 DEF IInv, TypeOK
    <2> QED BY <1>1, <1>4, <1>6, <2>1, <2>2, <2>3, <2>4, ListParts DEF TypeOK
  <1>9. ASSUME NEW i \in Address,
               ~(heap[n].pdata + SIZE_POINTER <= i /\ i < heap[n].pdata + need)
        PROVE  copy[i] = m[i]
    <2>1. i \in Int
      BY <1>3 DEF Address
    <2>2. i \notin p .. p + live[old] - 1
      BY <1>3, <1>4, <1>9, <2>1
    <2> QED BY <1>4, <2>2
  <1>10. HeadersIntact'
    <2> SUFFICES ASSUME NEW q \in DOMAIN live'
                 PROVE  LET k == getPointer(copy, q) IN
                        /\ \A i \in q - SIZE_POINTER .. q - 1 : copy[i] = k
                        /\ k \in DOMAIN heap' /\ heap'[k].status = "busy"
                        /\ DataOf(heap', k) = q
                        /\ heap'[k].size = Size_block(live'[q])
      BY <1>1 DEF HeadersIntact
    <2>1. CASE q = p
      <3>1. \A i \in q - SIZE_POINTER .. q - 1 : copy[i] = n
        <4>1. \A i \in q - SIZE_POINTER .. q - 1 :
                /\ i \in Address /\ i < heap[n].pdata + SIZE_POINTER
                /\ i \in heap[n].pdata .. heap[n].pdata + SIZE_POINTER - 1
          BY <1>3, <2>1 DEF Address
        <4>2. \A i \in q - SIZE_POINTER .. q - 1 : copy[i] = m[i]
          BY <1>3, <1>9, <4>1 DEF Address
        <4> QED BY <1>2, <4>1, <4>2 DEF Taken
      <3>2. getPointer(copy, q) = n
        <4>1. q - SIZE_POINTER \in q - SIZE_POINTER .. q - 1
          BY <1>3, <2>1
        <4> QED BY <3>1, <4>1 DEF getPointer
      <3>3. IsBusy(heap', n) /\ heap'[n].size = need /\ heap'[n].pdata = heap[n].pdata
        <4>1. IsBusy(h, n) /\ h[n].size = need /\ h[n].pdata = heap[n].pdata
          BY <1>2 DEF Taken, Resized
        <4> QED BY <1>3, <1>5, <1>6, <4>1 DEF Released, SameBusyBut
      <3> QED BY <1>3, <1>7, <2>1, <3>1, <3>2, <3>3 DEF IsBusy, DataOf, Size_block
    <2>2. CASE q # p
      <3> DEFINE k == getPointer(memory, q)
      <3>1. q \in DOMAIN live /\ q # old /\ live'[q] = live[q]
        BY <1>7, <2>2
      <3>2. /\ k # n /\ k \in Node
            /\ IsBusy(h, k) /\ h[k].size = heap[k].size /\ h[k].pdata = heap[k].pdata
            /\ k # block
        BY <1>1, <1>2, <1>4, <3>1, OthersUntouched, HeldPointersDiffer
      <3>3. /\ IsBusy(heap', k)
            /\ heap'[k].size = heap[k].size /\ heap'[k].pdata = heap[k].pdata
        BY <1>6, <3>2 DEF Released, SameBusyBut
      <3>4. \A i \in q - SIZE_POINTER .. q - 1 : copy[i] = memory[i]
        <4>1. q \in Int /\ live[q] \in Nat
          BY <3>1, HeldPointer, NeedIsPositive DEF IInv, TypeOK
        <4>2. \A i \in q - SIZE_POINTER .. q - 1 :
                i \in q - SIZE_POINTER .. q + live[q] - 1
          BY <1>3, <4>1
        <4>3. \A i \in q - SIZE_POINTER .. q - 1 :
                /\ i \in Address /\ m[i] = memory[i]
                /\ ~(heap[n].pdata <= i /\ i < heap[n].pdata + need)
          BY <1>1, <1>2, <3>1, <4>2, OthersUntouched
        <4>4. \A i \in q - SIZE_POINTER .. q - 1 : copy[i] = m[i]
          BY <1>3, <1>9, <4>3 DEF Address
        <4> QED BY <4>3, <4>4
      <3>5. getPointer(copy, q) = k
        <4>1. q - SIZE_POINTER \in q - SIZE_POINTER .. q - 1
          BY <1>3, <3>1 DEF IInv, TypeOK
        <4> QED BY <3>4, <4>1 DEF getPointer
      <3> QED BY <3>1, <3>3, <3>4, <3>5, HeldPointer DEF IsBusy, DataOf, Size_block
    <2> QED BY <2>1, <2>2
  <1>11. NoLeak'
    <2> SUFFICES ASSUME NEW k \in DOMAIN heap', heap'[k].status = "busy"
                 PROVE  DataOf(heap', k) \in DOMAIN live'
      BY DEF NoLeak
    <2>1. /\ k \in Node /\ k # block /\ IsBusy(h, k)
          /\ heap'[k].pdata = h[k].pdata
      BY <1>6, ListParts DEF Released, SameBusyBut, IsBusy
    <2>2. CASE k = n
      BY <1>2, <1>7, <2>1, <2>2 DEF Taken, Resized, DataOf
    <2>3. CASE k # n
      <3>1. IsBusy(heap, k) /\ h[k].pdata = heap[k].pdata
        BY <1>2, <2>1, <2>3 DEF Taken, Resized, SameBusyBut
      <3>2. DataOf(heap, k) \in DOMAIN live /\ heap[k].pdata \in Nat
        BY <3>1, ListWellFormed, BlockExtent, StoreAssumption DEF IInv, NoLeak, IsBusy
      <3>3. heap[k].pdata # heap[block].pdata
        BY <1>5, <2>1, <3>1, ListWellFormed, ExtentsApart DEF IsBusy
      <3>4. DataOf(heap, k) # old
        BY <1>3, <1>5, <3>2, <3>3 DEF DataOf
      <3> QED BY <1>7, <2>1, <3>1, <3>2, <3>4 DEF DataOf
    <2> QED BY <2>2, <2>3
  <1>12. CallOK'
    BY <1>1, <1>6, ListParts DEF CallOK, NoCall
  <1> QED BY <1>6, <1>8, <1>10, <1>11, <1>12, ListParts DEF IInv

-----------------------------------------------------------------------------
LEMMA PlaceKeeps ==
  ASSUME IInv, Place
  PROVE  IInv'
  <1>1. call # NoCall /\ call.op \in {"Alloc", "ReAlloc"}
    BY WalkStands DEF Place
  <1>2. PICK fresh : /\ TakeBlock(fresh)
                     /\ Splits(heap, call.it, Size_block(call.size)) =>
                          fresh \in FreshNodes(heap)
    BY DEF Place
  <1>3. CASE call.op = "Alloc"
    BY <1>2, <1>3, AllocTakesKeeps
  <1>4. CASE call.op = "ReAlloc"
    BY <1>2, <1>4, ReAllocTakesKeeps
  <1> QED BY <1>1, <1>3, <1>4

LEMMA ReAllocKeeps ==
  ASSUME IInv, NEW p \in DOMAIN live, NEW size \in Size, ReAlloc(p, size)
  PROVE  IInv'
  <1> DEFINE n == getPointer(memory, p)
             need == Size_block(size)
  <1>1. CASE ~CanReAllocMem(heap, n, need)
    BY <1>1, ReAllocStartsMove DEF ReAlloc
  <1>2. CASE CanReAllocMem(heap, n, need)
    <2>1. PICK fresh : /\ ReAllocInPlace(p, size, fresh)
                       /\ ReAllocSplits(heap, n, need) => fresh \in FreshNodes(heap)
      BY <1>2 DEF ReAlloc
    <2> QED BY <1>2, <2>1, ReAllocInPlaceKeeps DEF ReAlloc
  <1> QED BY <1>1, <1>2

LEMMA StepKeeps == IInv /\ [Next]_vars => IInv'
  <1> SUFFICES ASSUME IInv, [Next]_vars PROVE IInv'
    OBVIOUS
  <1>1. CASE Place
    BY <1>1, PlaceKeeps
  <1>2. CASE Advance
    BY <1>2, AdvanceKeeps
  <1>3. CASE ThrowBadAlloc \/ NewThrows
    BY <1>3, ThrowKeeps
  <1>4. ASSUME NEW size \in Size, Alloc(size) PROVE IInv'
    BY <1>4, AllocStarts
  <1>5. ASSUME NEW p \in DOMAIN live, NEW size \in Size, ReAlloc(p, size) PROVE IInv'
    BY <1>5, ReAllocKeeps
  <1>6. ASSUME NEW p \in DOMAIN live, Free(p) PROVE IInv'
    BY <1>6, FreeKeeps
  <1>7. ASSUME NEW p \in DOMAIN live, NEW i \in Address, NEW v \in Value, Write(p, i, v)
        PROVE  IInv'
    BY <1>7, WriteKeeps
  <1>8. CASE UNCHANGED vars
    <2>1. call' \in Call /\ CallOK'
      BY <1>8 DEF vars, IInv, TypeOK, CallOK
    <2> QED BY <1>8, <2>1, OnlyCallChanges DEF vars
  <1> QED BY <1>1, <1>2, <1>3, <1>4, <1>5, <1>6, <1>7, <1>8 DEF Next, AllocStep, UserStep

(* Every reachable state satisfies the inductive invariant. *)
THEOREM InvariantHolds == Spec => []IInv
  BY InitInvariant, StepKeeps, PTL DEF Spec

(* The variables have their types, in every state. *)
THEOREM TypeCorrect == Spec => []TypeOK
  <1>1. IInv => TypeOK
    BY DEF IInv
  <1> QED BY <1>1, InvariantHolds, PTL

(* The block list of main_list.cpp is always a doubly linked list whose     *)
(* blocks tile the memory, whatever sequence of calls has rewired it.       *)
THEOREM BlockListCorrect == Spec => []BlockListOK
  <1>1. IInv => BlockListOK
    BY DEF IInv
  <1> QED BY <1>1, InvariantHolds, PTL

(* joinRight, joinLeft and defragmet together leave no free neighbours.     *)
THEOREM NoFragmentation == Spec => []FreeMemoryCoalesced
  <1>1. IInv => FreeMemoryCoalesced
    BY DEF IInv
  <1> QED BY <1>1, InvariantHolds, PTL

(* Free and ReAlloc may trust the header in front of a pointer: putPointer  *)
(* wrote it, and nobody has overwritten it since.                           *)
THEOREM HeadersCorrect == Spec => []HeadersIntact
  <1>1. IInv => HeadersIntact
    BY DEF IInv
  <1> QED BY <1>1, InvariantHolds, PTL

(* Every busy block is one the user can still free.                         *)
THEOREM NothingLeaks == Spec => []NoLeak
  <1>1. IInv => NoLeak
    BY DEF IInv
  <1> QED BY <1>1, InvariantHolds, PTL

(* What ReAlloc remembers across its call of Alloc stays true.              *)
THEOREM CallCorrect == Spec => []CallOK
  <1>1. IInv => CallOK
    BY DEF IInv
  <1> QED BY <1>1, InvariantHolds, PTL

-----------------------------------------------------------------------------
(* The pointer that a block gets is not one the user holds already. *)
LEMMA NewPointerIsNew ==
  ASSUME IInv, call # NoCall, isFree(heap, call.it, Size_block(call.size))
  PROVE  DataOf(heap, call.it) \notin DOMAIN live
  <1> SUFFICES ASSUME DataOf(heap, call.it) \in DOMAIN live
               PROVE  FALSE
    OBVIOUS
  <1> DEFINE n == getPointer(memory, DataOf(heap, call.it))
  <1>1. /\ n \in DOMAIN heap /\ heap[n].status = "busy"
        /\ heap[n].pdata + SIZE_POINTER = DataOf(heap, call.it)
    BY HeldPointer
  <1>2. heap[n].pdata \in 0 .. MemSize /\ MemSize \in Nat
    BY <1>1, ListWellFormed, BlockExtent, StoreAssumption
  <1>3. n = call.it
    BY <1>1, <1>2, WalkStands, ListWellFormed, ExtentsApart DEF DataOf
  <1> QED BY <1>1, <1>3 DEF isFree

(* The action of FailsOnlyWhenNothingFits. *)
GivesUp == call # NoCall /\ call' = NoCall /\ live' = live

NothingFits ==
  \/ \A n \in DOMAIN heap : ~isFree(heap, n, Size_block(call.size))
  \/ FreshNodes(heap) = {}

LEMMA WalkSeesAll ==
  ASSUME IInv, ThrowBadAlloc, NEW n \in DOMAIN heap
  PROVE  ~isFree(heap, n, Size_block(call.size))
  <1> DEFINE it == call.it
  <1>1. /\ call # NoCall /\ call.op # "none"
        /\ ~isFree(heap, it, Size_block(call.size))
        /\ heap[it].next = NULL
        /\ it \in DOMAIN heap /\ WellFormed(heap)
    BY ListWellFormed DEF ThrowBadAlloc, IInv, CallOK
  <1>2. /\ heap[n].pdata \in Nat /\ heap[n].size \in 1 .. MemSize
        /\ heap[n].pdata + heap[n].size <= MemSize
        /\ heap[it].pdata \in Nat /\ heap[it].size \in Nat
        /\ heap[it].pdata + heap[it].size = MemSize
        /\ MemSize \in Nat
    BY <1>1, BlockExtent, StoreAssumption DEF WellFormed, TilesMemory
  <1>3. CASE n = it
    BY <1>1, <1>3
  <1>4. CASE n # it
    <2>1. \/ heap[n].pdata + heap[n].size <= heap[it].pdata
          \/ heap[it].pdata + heap[it].size <= heap[n].pdata
      BY <1>1, <1>4 DEF WellFormed, Apart
    <2>2. heap[n].pdata < heap[it].pdata
      BY <1>2, <2>1
    <2> QED BY <1>1, <2>2 DEF IInv, CallOK
  <1> QED BY <1>3, <1>4

LEMMA PlaceGivesPointer ==
  ASSUME IInv, Place
  PROVE  live' # live
  <1>1. PICK fresh : TakeBlock(fresh)
    BY DEF Place
  <1> DEFINE p == DataOf(heap, call.it)
  <1>2. p \notin DOMAIN live
    BY <1>1, NewPointerIsNew DEF TakeBlock
  <1>3. \/ live' = With(live, p, call.size)
        \/ live' = With(Without(live, call.old), p, call.size)
    BY <1>1 DEF TakeBlock
  <1>4. p \in DOMAIN live'
    BY <1>3 DEF With
  <1> QED BY <1>2, <1>4

(* A call of Alloc or ReAlloc gives up only when no block would do, or the  *)
(* C++ heap cannot give the TStore that the split needs.                    *)
THEOREM GivesUpOnlyWhenNothingFits == Spec => FailsOnlyWhenNothingFits
  <1>1. ASSUME IInv, [Next]_vars PROVE [GivesUp => NothingFits]_vars
    <2>1. CASE Place
      BY <1>1, <2>1, PlaceGivesPointer DEF GivesUp
    <2>2. CASE Advance
      <3>1. call' # NoCall
        BY <1>1, <2>2 DEF Advance, IInv, CallOK, TypeOK, Call, NoCall
      <3> QED BY <3>1 DEF GivesUp
    <2>3. CASE ThrowBadAlloc
      BY <1>1, <2>3, WalkSeesAll DEF NothingFits
    <2>4. CASE NewThrows
      BY <2>4 DEF NewThrows, NothingFits
    <2>5. CASE UserStep
      BY <2>5 DEF UserStep, Alloc, ReAlloc, Free, Write, GivesUp
    <2>6. CASE UNCHANGED vars
      BY <2>6
    <2> QED BY <1>1, <2>1, <2>2, <2>3, <2>4, <2>5, <2>6 DEF Next, AllocStep
  <1>2. Spec => [][GivesUp => NothingFits]_vars
    BY <1>1, InvariantHolds, PTL DEF Spec
  <1> QED BY <1>2 DEF FailsOnlyWhenNothingFits, GivesUp, NothingFits

-----------------------------------------------------------------------------
(* The refinement: what the user sees of the list allocator. *)
View == [p \in DOMAIN live |-> [i \in 0 .. live[p] - 1 |-> memory[p + i]]]

(* The data of two pointers share no byte, and lie in the memory. *)
DataApart ==
  \A p \in DOMAIN live :
    /\ p \in Int /\ live[p] \in Nat
    /\ \A i \in 0 .. live[p] - 1 : p + i \in Address /\ memory[p + i] \in Byte
    /\ \A q \in DOMAIN live \ {p} :
         \A i \in 0 .. live[p] - 1, j \in 0 .. live[q] - 1 : p + i # q + j

LEMMA DataIsApart == IInv => DataApart
  <1> SUFFICES ASSUME IInv, NEW p \in DOMAIN live
               PROVE  /\ p \in Int /\ live[p] \in Nat
                      /\ \A i \in 0 .. live[p] - 1 :
                           p + i \in Address /\ memory[p + i] \in Byte
                      /\ \A q \in DOMAIN live \ {p} :
                           \A i \in 0 .. live[p] - 1, j \in 0 .. live[q] - 1 :
                              p + i # q + j
    BY DEF DataApart
  <1> DEFINE m == getPointer(memory, p)
  <1>1. /\ p \in Int /\ live[p] \in Nat /\ MemSize \in Nat
        /\ SIZE_POINTER \in Nat
        /\ memory \in [Address -> Byte]
    BY HeldPointer, NeedIsPositive, StoreAssumption DEF IInv, TypeOK
  <1>2. \A i \in 0 .. live[p] - 1 : p + i \in Address /\ memory[p + i] \in Byte
    BY <1>1, DataInBlock
  <1>3. ASSUME NEW q \in DOMAIN live \ {p},
               NEW i \in 0 .. live[p] - 1, NEW j \in 0 .. live[q] - 1
        PROVE  p + i # q + j
    <2> DEFINE n == getPointer(memory, q)
    <2>1. m # n
      BY HeldPointersDiffer
    <2>2. /\ m \in DOMAIN heap /\ n \in DOMAIN heap /\ WellFormed(heap)
          /\ heap[m].pdata + SIZE_POINTER = p /\ heap[m].size = live[p] + SIZE_POINTER
          /\ heap[n].pdata + SIZE_POINTER = q /\ heap[n].size = live[q] + SIZE_POINTER
          /\ heap[m].pdata \in Nat /\ heap[n].pdata \in Nat /\ live[q] \in Nat
      BY HeldPointer, ListWellFormed, BlockExtent, NeedIsPositive, StoreAssumption
    <2>3. /\ p + i \in Int /\ q + j \in Int
          /\ heap[m].pdata <= p + i /\ p + i < heap[m].pdata + heap[m].size
          /\ heap[n].pdata <= q + j /\ q + j < heap[n].pdata + heap[n].size
      BY <1>1, <2>2
    <2> QED BY <2>1, <2>2, <2>3, ExtentsApart
  <1> QED BY <1>1, <1>2, <1>3

(* Each block fits beside all the others: the contract's demand on Alloc    *)
(* and ReAlloc, as a property of every state.                               *)
BlocksFit ==
  \A p \in DOMAIN View :
    /\ View[p] \in [0 .. live[p] - 1 -> Byte]
    /\ DOMAIN View[p] = 0 .. live[p] - 1
    /\ Contract!Fits(p, View[p], Contract!Without(View, p))

LEMMA BlocksDoFit == IInv => BlocksFit
  <1> SUFFICES ASSUME IInv, NEW p \in DOMAIN View
               PROVE  /\ View[p] \in [0 .. live[p] - 1 -> Byte]
                      /\ DOMAIN View[p] = 0 .. live[p] - 1
                      /\ Contract!Fits(p, View[p], Contract!Without(View, p))
    BY DEF BlocksFit
  <1>1. DataApart
    BY DataIsApart
  <1>2. /\ p \in DOMAIN live
        /\ View[p] = [i \in 0 .. live[p] - 1 |-> memory[p + i]]
    BY DEF View
  <1>3. View[p] \in [0 .. live[p] - 1 -> Byte] /\ DOMAIN View[p] = 0 .. live[p] - 1
    BY <1>1, <1>2 DEF DataApart
  <1>4. Contract!Extent(p, View[p]) \subseteq 0 .. MemSize - 1
    BY <1>1, <1>2, <1>3 DEF DataApart, Contract!Extent, Address
  <1>5. ASSUME NEW q \in DOMAIN Contract!Without(View, p)
        PROVE  /\ q # p
               /\ Contract!Extent(p, View[p]) \cap
                    Contract!Extent(q, Contract!Without(View, p)[q]) = {}
    <2>1. /\ q \in DOMAIN live \ {p}
          /\ Contract!Without(View, p)[q] = [i \in 0 .. live[q] - 1 |-> memory[q + i]]
      BY DEF Contract!Without, View
    <2>2. \A i \in 0 .. live[p] - 1, j \in 0 .. live[q] - 1 : p + i # q + j
      BY <1>1, <1>2, <2>1 DEF DataApart
    <2> QED BY <1>3, <2>1, <2>2 DEF Contract!Extent
  <1> QED BY <1>3, <1>4, <1>5 DEF Contract!Fits

LEMMA RefinesInit == Init => Contract!Init
  <1> SUFFICES ASSUME Init PROVE View = [p \in {} |-> <<>>]
    BY DEF Contract!Init, View
  <1> QED BY DEF Init, View

(* A step that changes neither a pointer nor a byte is a stutter. *)
LEMMA NothingSeen ==
  ASSUME UNCHANGED <<live, memory>>
  PROVE  View' = View
  BY DEF View

LEMMA RefinesWrite ==
  ASSUME IInv, NEW p \in DOMAIN live, NEW i \in Address, NEW v \in Value,
         Write(p, i, v)
  PROVE  Contract!Next
  <1>1. /\ i < live[p] /\ live' = live
        /\ memory' = [memory EXCEPT ![p + i] = v]
        /\ DataApart
    BY DataIsApart DEF Write
  <1>2. /\ i \in 0 .. live[p] - 1 /\ v \in Byte /\ i \in 0 .. MemSize - 1
        /\ memory \in [Address -> Byte]
    BY <1>1 DEF DataApart, Address, Byte, IInv, TypeOK
  <1>3. View' = [View EXCEPT ![p][i] = v]
    <2>1. ASSUME NEW q \in DOMAIN live
          PROVE  View'[q] = [View EXCEPT ![p][i] = v][q]
      <3>1. /\ View[q] = [j \in 0 .. live[q] - 1 |-> memory[q + j]]
            /\ View'[q] = [j \in 0 .. live[q] - 1 |-> memory'[q + j]]
        BY <1>1 DEF View
      <3>2. \A j \in 0 .. live[q] - 1 : q + j \in Address
        BY <1>1 DEF DataApart
      <3>3. CASE q = p
        <4>1. \A j \in 0 .. live[p] - 1 : p + j = p + i <=> j = i
          BY <1>1, <1>2, SMTT(30) DEF DataApart, Address
        <4>2. View'[p] = [View[p] EXCEPT ![i] = v]
          <5>1. \A j \in 0 .. live[p] - 1 :
                  memory'[p + j] = IF j = i THEN v ELSE memory[p + j]
            BY <1>1, <1>2, <3>2, <3>3, <4>1
          <5>2. /\ View[p] = [j \in 0 .. live[p] - 1 |-> memory[p + j]]
                /\ View'[p] = [j \in 0 .. live[p] - 1 |-> memory'[p + j]]
            BY <3>1, <3>3
          <5>3. PICK f, g : f = View[p] /\ g = View'[p]
            OBVIOUS
          <5>4. /\ f = [j \in 0 .. live[p] - 1 |-> f[j]]
                /\ g = [j \in 0 .. live[p] - 1 |-> g[j]]
            BY <5>2, <5>3
          <5>5. \A j \in 0 .. live[p] - 1 : g[j] = IF j = i THEN v ELSE f[j]
            BY <5>1, <5>2, <5>3
          <5>6. g = [f EXCEPT ![i] = v]
            BY <5>4, <5>5
          <5> QED BY <5>3, <5>6
        <4> QED BY <3>3, <4>2 DEF View
      <3>4. CASE q # p
        <4>1. \A j \in 0 .. live[q] - 1 : memory'[q + j] = memory[q + j]
          BY <1>1, <1>2, <3>2, <3>4 DEF DataApart
        <4>2. View'[q] = View[q]
          BY <3>1, <4>1
        <4> QED BY <3>4, <4>2 DEF View
      <3> QED BY <3>3, <3>4
    <2> DEFINE W == [View EXCEPT ![p][i] = v]
    <2>2. /\ W = [q \in DOMAIN live |-> W[q]]
          /\ View' = [q \in DOMAIN live |-> View'[q]]
      BY <1>1 DEF View
    <2> HIDE DEF W
    <2> QED BY <2>1, <2>2 DEF W
  <1>4. i \in DOMAIN View[p] /\ p \in DOMAIN View
    BY <1>2 DEF View
  <1>5. Contract!Write(p, i, v)
    BY <1>3, <1>4 DEF Contract!Write, View
  <1> QED BY <1>2, <1>4, <1>5 DEF Contract!Next, View

LEMMA RefinesFree ==
  ASSUME IInv, NEW p \in DOMAIN live, Free(p)
  PROVE  Contract!Next
  <1>1. live' = Without(live, p) /\ memory' = memory
    BY DEF Free
  <1>2. View' = Contract!Without(View, p)
    BY <1>1 DEF View, Without, Contract!Without
  <1> QED BY <1>2 DEF Contract!Next, Contract!Free, View

(* The bytes of q, and the size the user knows, are what they were. *)
Undisturbed(q) ==
  /\ q \in DOMAIN live' /\ live'[q] = live[q]
  /\ \A i \in 0 .. live[q] - 1 : memory'[q + i] = memory[q + i]

(* A block of `size' bytes at q instead of the one at p, holding the same. *)
LEMMA RefinesReAlloc ==
  ASSUME IInv, IInv', NEW p \in DOMAIN live, NEW size \in Size, NEW q,
         DOMAIN live' = (DOMAIN live \ {p}) \cup {q}, live'[q] = size,
         q = p \/ q \notin DOMAIN live,
         \A r \in DOMAIN live \ {p} : Undisturbed(r),
         \A i \in 0 .. size - 1 : i < live[p] => memory'[q + i] = memory[p + i]
  PROVE  Contract!Next
  <1>1. BlocksFit'
    BY BlocksDoFit, PTL
  <1>2. /\ View'[q] \in [0 .. size - 1 -> Byte]
        /\ DOMAIN View'[q] = 0 .. size - 1
        /\ Contract!Fits(q, View'[q], Contract!Without(View', q))
        /\ q \in DOMAIN View'
    BY <1>1 DEF BlocksFit, View
  <1>3. \A r \in DOMAIN live \ {p} : View'[r] = View[r]
    BY DEF View, Undisturbed
  <1>4. Contract!Without(View', q) = Contract!Without(View, p)
    <2>1. DOMAIN View' \ {q} = DOMAIN View \ {p}
      BY DEF View
    <2> QED BY <1>3, <2>1 DEF Contract!Without, View
  <1>5. View' = Contract!With(Contract!Without(View, p), q, View'[q])
    <2>1. DOMAIN View' = DOMAIN Contract!Without(View, p) \cup {q}
      BY DEF View, Contract!Without
    <2>2. \A r \in DOMAIN View' : r # q => View'[r] = Contract!Without(View, p)[r]
      BY <1>3 DEF View, Contract!Without
    <2>3. View' = [r \in DOMAIN View' |-> View'[r]]
      BY DEF View
    <2> QED BY <2>1, <2>2, <2>3 DEF Contract!With
  <1>6. \A i \in DOMAIN View'[q] \cap DOMAIN View[p] : View'[q][i] = View[p][i]
    <2>1. /\ View'[q] = [i \in 0 .. size - 1 |-> memory'[q + i]]
          /\ View[p] = [i \in 0 .. live[p] - 1 |-> memory[p + i]]
      BY DEF View
    <2>2. live[p] \in Nat /\ size \in Nat
      BY HeldPointer, NeedIsPositive
    <2> QED BY <2>1, <2>2
  <1>7. Contract!ReAlloc(p, size)
    BY <1>2, <1>4, <1>5, <1>6 DEF Contract!ReAlloc, View
  <1> QED BY <1>7 DEF Contract!Next, View

LEMMA RefinesReAllocInPlace ==
  ASSUME IInv, IInv', NEW p \in DOMAIN live, NEW size \in Size, NEW fresh,
         ReAllocInPlace(p, size, fresh)
  PROVE  Contract!Next
  <1>1. /\ DOMAIN live' = DOMAIN live /\ live'[p] = size /\ memory' = memory
        /\ \A r \in DOMAIN live \ {p} : live'[r] = live[r]
    BY DEF ReAllocInPlace, IInv, TypeOK
  <1>2. \A r \in DOMAIN live \ {p} : Undisturbed(r)
    BY <1>1 DEF Undisturbed
  <1> QED BY <1>1, <1>2, RefinesReAlloc

LEMMA RefinesAllocTake ==
  ASSUME IInv, IInv', NEW fresh, call.op = "Alloc", TakeBlock(fresh),
         Splits(heap, call.it, Size_block(call.size)) => fresh \in FreshNodes(heap)
  PROVE  Contract!Next
  <1> DEFINE n == call.it
             need == Size_block(call.size)
             p == DataOf(heap, n)
  <1>1. /\ call # NoCall /\ isFree(heap, n, need)
        /\ heap' = AllocPartMem(heap, n, need, fresh)
        /\ memory' = putPointer(memory, n, heap[n].pdata)
        /\ live' = With(live, p, call.size)
    BY DEF TakeBlock
  <1>2. Taken(heap', memory', n, need) /\ p \notin DOMAIN live /\ call.size \in Size
    BY <1>1, BlockTaken, NewPointerIsNew, WalkStands
  <1>3. /\ DOMAIN live' = DOMAIN live \cup {p} /\ live'[p] = call.size
        /\ \A q \in DOMAIN live : live'[q] = live[q]
    BY <1>1, <1>2 DEF With
  <1>4. ASSUME NEW q \in DOMAIN live PROVE View'[q] = View[q]
    <2>1. q \in Int /\ live[q] \in Nat /\ SIZE_POINTER \in Nat
      BY DataIsApart, StoreAssumption DEF DataApart
    <2>2. \A i \in 0 .. live[q] - 1 : q + i \in q - SIZE_POINTER .. q + live[q] - 1
      BY <2>1
    <2>3. \A i \in 0 .. live[q] - 1 : memory'[q + i] = memory[q + i]
      BY <1>1, <1>2, <2>2, OthersUntouched
    <2> QED BY <1>3, <2>3 DEF View
  <1>5. BlocksFit'
    BY BlocksDoFit, PTL
  <1>6. /\ View'[p] \in [0 .. call.size - 1 -> Byte]
        /\ Contract!Fits(p, View'[p], Contract!Without(View', p))
        /\ p \in DOMAIN View'
    BY <1>3, <1>5 DEF BlocksFit, View
  <1>7. Contract!Without(View', p) = View
    <2>1. DOMAIN View' \ {p} = DOMAIN View /\ DOMAIN View = DOMAIN live
      BY <1>2, <1>3 DEF View
    <2>2. View = [q \in DOMAIN View |-> View[q]]
      BY DEF View
    <2> QED BY <1>4, <2>1, <2>2 DEF Contract!Without
  <1>8. View' = Contract!With(View, p, View'[p])
    <2>1. DOMAIN View' = DOMAIN View \cup {p} /\ DOMAIN View = DOMAIN live
      BY <1>3 DEF View
    <2>2. View' = [q \in DOMAIN View' |-> View'[q]]
      BY DEF View
    <2> QED BY <1>4, <2>1, <2>2 DEF Contract!With
  <1>9. PICK size \in Size : size = call.size
    BY <1>2
  <1>10. Contract!Alloc(size)
    BY <1>6, <1>7, <1>8, <1>9 DEF Contract!Alloc, View
  <1> QED BY <1>10 DEF Contract!Next

LEMMA RefinesReAllocTake ==
  ASSUME IInv, IInv', NEW fresh, call.op = "ReAlloc", TakeBlock(fresh),
         Splits(heap, call.it, Size_block(call.size)) => fresh \in FreshNodes(heap)
  PROVE  Contract!Next
  <1> DEFINE n     == call.it
             need  == Size_block(call.size)
             p     == DataOf(heap, n)
             old   == call.old
             h     == AllocPartMem(heap, n, need, fresh)
             m     == putPointer(memory, n, heap[n].pdata)
             copy  == memcpy(m, p, old, OnlyData(h, call.block))
  <1>1. /\ call # NoCall /\ isFree(heap, n, need)
        /\ memory' = copy
        /\ live' = With(Without(live, old), p, call.size)
    BY DEF TakeBlock
  <1>2. Taken(h, m, n, need) /\ p \notin DOMAIN live /\ call.size \in Size
    BY <1>1, BlockTaken, NewPointerIsNew, WalkStands
  <1> HIDE DEF h, m
  <1>3. /\ old \in DOMAIN live
        /\ live[old] \in Nat /\ live[old] < call.size
        /\ \A i \in Address : i \notin p .. p + live[old] - 1 => copy[i] = m[i]
        /\ \A i \in 0 .. live[old] - 1 : copy[p + i] = memory[old + i]
    BY <1>1, <1>2, DataCopied
  <1> HIDE DEF copy
  <1>4. /\ DOMAIN live' = (DOMAIN live \ {old}) \cup {p} /\ live'[p] = call.size
        /\ \A q \in DOMAIN live \ {old} : live'[q] = live[q]
    BY <1>1, <1>2 DEF With, Without
  <1>5. ASSUME NEW q \in DOMAIN live \ {old} PROVE Undisturbed(q)
    <2>1. q \in Int /\ live[q] \in Nat /\ SIZE_POINTER \in Nat
      BY DataIsApart, StoreAssumption DEF DataApart
    <2>2. \A i \in 0 .. live[q] - 1 : q + i \in q - SIZE_POINTER .. q + live[q] - 1
      BY <2>1
    <2>3. \A i \in 0 .. live[q] - 1 :
            /\ q + i \in Address /\ m[q + i] = memory[q + i]
            /\ ~(heap[n].pdata <= q + i /\ q + i < heap[n].pdata + need)
      BY <1>1, <1>2, <2>2, OthersUntouched
    <2>4. /\ heap[n].pdata \in Nat /\ p = heap[n].pdata + SIZE_POINTER
          /\ need = call.size + SIZE_POINTER /\ call.size \in Nat
      BY <1>1, WalkStands DEF DataOf
    <2>5. \A i \in 0 .. live[q] - 1 : q + i \notin p .. p + live[old] - 1
      BY <1>3, <2>1, <2>3, <2>4
    <2>6. \A i \in 0 .. live[q] - 1 : copy[q + i] = memory[q + i]
      BY <1>3, <2>3, <2>5
    <2> QED BY <1>1, <1>4, <2>6 DEF Undisturbed
  <1>6. \A i \in 0 .. call.size - 1 : i < live[old] => memory'[p + i] = memory[old + i]
    BY <1>1, <1>3
  <1> QED BY <1>2, <1>3, <1>4, <1>5, <1>6, RefinesReAlloc

LEMMA RefinesStep == IInv /\ IInv' /\ [Next]_vars => [Contract!Next]_View
  <1> SUFFICES ASSUME IInv, IInv', [Next]_vars
               PROVE  Contract!Next \/ View' = View
    OBVIOUS
  <1>1. CASE Place
    <2>1. PICK fresh : /\ TakeBlock(fresh)
                       /\ Splits(heap, call.it, Size_block(call.size)) =>
                            fresh \in FreshNodes(heap)
      BY <1>1 DEF Place
    <2>2. call.op \in {"Alloc", "ReAlloc"}
      BY <1>1, WalkStands DEF Place
    <2>3. CASE call.op = "Alloc"
      BY <2>1, <2>3, RefinesAllocTake
    <2>4. CASE call.op = "ReAlloc"
      BY <2>1, <2>4, RefinesReAllocTake
    <2> QED BY <2>2, <2>3, <2>4
  <1>2. CASE Advance \/ ThrowBadAlloc \/ NewThrows \/ UNCHANGED vars
    BY <1>2, NothingSeen DEF Advance, ThrowBadAlloc, NewThrows, vars
  <1>3. ASSUME NEW size \in Size, Alloc(size) PROVE View' = View
    BY <1>3, NothingSeen DEF Alloc
  <1>4. ASSUME NEW p \in DOMAIN live, NEW size \in Size, ReAlloc(p, size)
        PROVE  Contract!Next \/ View' = View
    <2>1. CASE ReAllocMove(p, size)
      BY <2>1, NothingSeen DEF ReAllocMove
    <2>2. ASSUME NEW fresh, ReAllocInPlace(p, size, fresh) PROVE Contract!Next
      BY <2>2, RefinesReAllocInPlace
    <2> QED BY <1>4, <2>1, <2>2 DEF ReAlloc
  <1>5. ASSUME NEW p \in DOMAIN live, Free(p) PROVE Contract!Next
    BY <1>5, RefinesFree
  <1>6. ASSUME NEW p \in DOMAIN live, NEW i \in Address, NEW v \in Value, Write(p, i, v)
        PROVE  Contract!Next
    BY <1>6, RefinesWrite
  <1> QED BY <1>1, <1>2, <1>3, <1>4, <1>5, <1>6 DEF Next, AllocStep, UserStep

(* The list allocator implements the contract of a SmallAllocator, for every *)
(* memory size and every use: blocks in use never overlap, ReAlloc keeps the *)
(* contents, and nobody's bytes change but through its own pointer.          *)
THEOREM ImplementsContract == Spec => KeepsContract
  <1>1. Init => Contract!Init
    BY RefinesInit
  <1>2. IInv /\ IInv' /\ [Next]_vars => [Contract!Next]_View
    BY RefinesStep
  <1>3. Spec => Contract!Init /\ [][Contract!Next]_View
    BY <1>1, <1>2, InvariantHolds, PTL DEF Spec
  <1> QED BY <1>3, PTL DEF KeepsContract, Contract!Spec, View

-----------------------------------------------------------------------------
(***************************************************************************)
(* Part 3.  The count of free bytes.  It is easier to follow through a     *)
(* method as the count of the bytes in use: joining and splitting free     *)
(* blocks moves no byte into or out of a block in use.                     *)
(***************************************************************************)
Extent(h, n) == h[n].pdata .. h[n].pdata + h[n].size - 1

OtherBytes(h, n) ==
  {a \in Address : \E m \in Node \ {n} : IsBusy(h, m) /\ a \in Extent(h, m)}

BusyBytes(h) == {a \in Address : \E m \in Node : IsBusy(h, m) /\ a \in Extent(h, m)}

LEMMA LessIsWellFounded ==
  \E R : IsWellFoundedOn(R, Nat) /\ \A x, y \in Nat : y < x => <<y, x>> \in R
  <1> DEFINE R == OpToRel(<, Nat)
  <1>1. \A x, y \in Nat : y < x => <<y, x>> \in R
    BY DEF OpToRel
  <1>2. IsWellFoundedOn(R, Nat)
    BY NatLessThanWellFounded
  <1> HIDE DEF R
  <1> QED BY <1>1, <1>2

LEMMA LeastAddress ==
  ASSUME NEW T \in SUBSET Address, T # {}
  PROVE  \E x \in T : \A y \in T : x <= y
  <1>1. PICK R : /\ IsWellFoundedOn(R, Nat)
                 /\ \A x, y \in Nat : y < x => <<y, x>> \in R
    BY LessIsWellFounded
  <1>2. T \in SUBSET Nat
    BY DEF Address
  <1>3. PICK x \in T : \A y \in T : ~ (<<y, x>> \in R)
    BY <1>1, <1>2, WFMin
  <1>4. \A y \in T : ~ (y < x)
    BY <1>1, <1>2, <1>3, Zenon
  <1> QED BY <1>2, <1>4

LEMMA ExtentSize ==
  ASSUME NEW h, WellFormed(h), NEW n \in DOMAIN h
  PROVE  /\ Extent(h, n) \subseteq Address
         /\ IsFiniteSet(Extent(h, n))
         /\ Cardinality(Extent(h, n)) = h[n].size
  <1>1. /\ h[n].size \in 1 .. MemSize /\ h[n].pdata \in 0 .. MemSize
        /\ h[n].pdata + h[n].size <= MemSize /\ MemSize \in Nat
    BY BlockExtent, StoreAssumption
  <1>2. Extent(h, n) \subseteq Address
    BY <1>1 DEF Extent, Address
  <1> DEFINE x == h[n].pdata
             y == h[n].pdata + h[n].size - 1
  <1>3. x \in Int /\ y \in Int /\ x <= y /\ y - x + 1 = h[n].size
    BY <1>1
  <1>4. IsFiniteSet(x .. y) /\ Cardinality(x .. y) = IF x > y THEN 0 ELSE y - x + 1
    <2> HIDE DEF x, y
    <2> QED BY <1>3, FS_Interval
  <1> QED BY <1>2, <1>3, <1>4 DEF Extent

(* Every byte of memory lies in a block: the first byte that did not would *)
(* follow the last byte of a block, and there another block starts.        *)
LEMMA BytesCovered ==
  ASSUME NEW h, WellFormed(h)
  PROVE  \A a \in Address : \E n \in DOMAIN h : a \in Extent(h, n)
  <1> DEFINE T == {a \in Address : \A n \in DOMAIN h : a \notin Extent(h, n)}
  <1> SUFFICES ASSUME T # {} PROVE FALSE
    OBVIOUS
  <1>1. PICK a \in T : \A b \in T : a <= b
    <2>1. T \in SUBSET Address
      OBVIOUS
    <2> HIDE DEF T
    <2> QED BY <2>1, LeastAddress
  <1>2. a \in Nat /\ a < MemSize /\ MemSize \in Nat
    BY StoreAssumption DEF Address
  <1>3. First \in DOMAIN h /\ h[First].pdata = 0 /\ h[First].size \in 1 .. MemSize
    BY BlockExtent DEF WellFormed, TilesMemory
  <1>4. a # 0
    BY <1>2, <1>3 DEF Extent
  <1>5. a - 1 \in Address /\ a - 1 \notin T
    BY <1>1, <1>2, <1>4 DEF Address
  <1>6. PICK n \in DOMAIN h : a - 1 \in Extent(h, n)
    BY <1>5
  <1>7. /\ h[n].size \in 1 .. MemSize /\ h[n].pdata \in 0 .. MemSize
        /\ h[n].next # NULL => h[n].next \in DOMAIN h
                               /\ h[h[n].next].pdata = h[n].pdata + h[n].size
    BY BlockExtent
  <1>8. a = h[n].pdata + h[n].size
    BY <1>1, <1>2, <1>6, <1>7 DEF Extent
  <1>9. h[n].next # NULL
    BY <1>2, <1>8 DEF WellFormed, TilesMemory
  <1>10. h[h[n].next].size \in 1 .. MemSize /\ h[h[n].next].pdata = a
    BY <1>7, <1>8, <1>9, BlockExtent
  <1>11. a \in Extent(h, h[n].next)
    BY <1>2, <1>10 DEF Extent
  <1> QED BY <1>1, <1>7, <1>9, <1>11

LEMMA AddressesCounted == IsFiniteSet(Address) /\ Cardinality(Address) = MemSize
  <1>1. 0 \in Int /\ MemSize - 1 \in Int /\ ~(0 > MemSize - 1)
        /\ MemSize - 1 - 0 + 1 = MemSize
    BY StoreAssumption
  <1>2. /\ IsFiniteSet(0 .. MemSize - 1)
        /\ Cardinality(0 .. MemSize - 1) =
             IF 0 > MemSize - 1 THEN 0 ELSE MemSize - 1 - 0 + 1
    BY <1>1, FS_Interval
  <1> QED BY <1>1, <1>2 DEF Address

(* A byte is free or in use, and never both. *)
LEMMA FreeBytesCounted ==
  ASSUME NEW h, WellFormed(h)
  PROVE  /\ Cardinality(FreeBytes(h)) = MemSize - Cardinality(BusyBytes(h))
         /\ Cardinality(BusyBytes(h)) \in Nat
  <1>1. FreeBytes(h) = Address \ BusyBytes(h)
    <2>1. ASSUME NEW a \in Address, a \notin BusyBytes(h)
          PROVE  a \in FreeBytes(h)
      <3>1. PICK n \in DOMAIN h : a \in Extent(h, n)
        BY BytesCovered
      <3>2. n \in Node /\ h[n].status \in {"free", "busy"}
        BY ListShape DEF TStoreRec, Status
      <3> QED BY <2>1, <3>1, <3>2 DEF BusyBytes, FreeBytes, IsBusy, Extent
    <2>2. ASSUME NEW a \in FreeBytes(h), a \in BusyBytes(h)
          PROVE  FALSE
      <3>1. PICK n \in DOMAIN h : h[n].status = "free" /\ a \in Extent(h, n)
        BY DEF FreeBytes, Extent
      <3>2. PICK m \in DOMAIN h : h[m].status = "busy" /\ a \in Extent(h, m)
        BY <2>2 DEF BusyBytes, IsBusy
      <3>3. m # n
        BY <3>1, <3>2
      <3>4. /\ h[n].size \in Nat /\ h[n].pdata \in Nat
            /\ h[m].size \in Nat /\ h[m].pdata \in Nat /\ a \in Int
        BY BlockExtent, StoreAssumption DEF FreeBytes, Address
      <3>5. /\ h[m].pdata <= a /\ a < h[m].pdata + h[m].size
            /\ h[n].pdata <= a /\ a < h[n].pdata + h[n].size
        BY <3>1, <3>2, <3>4 DEF Extent
      <3> QED BY <3>3, <3>4, <3>5, ExtentsApart
    <2> QED BY <2>1, <2>2 DEF FreeBytes
  <1>2. BusyBytes(h) \in SUBSET Address
    BY DEF BusyBytes
  <1>3. IsFiniteSet(BusyBytes(h)) /\ Cardinality(BusyBytes(h)) \in Nat
    BY <1>2, AddressesCounted, FS_Subset, FS_CardinalityType
  <1>4. Cardinality(Address \ BusyBytes(h)) =
          Cardinality(Address) - Cardinality(Address \cap BusyBytes(h))
    BY AddressesCounted, FS_Difference
  <1>5. Address \cap BusyBytes(h) = BusyBytes(h)
    BY <1>2
  <1> QED BY <1>1, <1>3, <1>4, <1>5, AddressesCounted

(* The bytes in use are those of block n, when it is in use, and the others'. *)
LEMMA BusyBytesCounted ==
  ASSUME NEW h, WellFormed(h), NEW n \in Node
  PROVE  /\ Cardinality(OtherBytes(h, n)) \in Nat
         /\ Cardinality(BusyBytes(h)) =
              Cardinality(OtherBytes(h, n)) + (IF IsBusy(h, n) THEN h[n].size ELSE 0)
  <1>1. OtherBytes(h, n) \in SUBSET Address
    BY DEF OtherBytes
  <1>2. IsFiniteSet(OtherBytes(h, n)) /\ Cardinality(OtherBytes(h, n)) \in Nat
    BY <1>1, AddressesCounted, FS_Subset, FS_CardinalityType
  <1>3. CASE ~IsBusy(h, n)
    <2>1. BusyBytes(h) = OtherBytes(h, n)
      BY <1>3 DEF BusyBytes, OtherBytes
    <2> QED BY <1>2, <1>3, <2>1
  <1>4. CASE IsBusy(h, n)
    <2>1. n \in DOMAIN h /\ h[n].size \in Nat
      BY <1>4, BlockExtent, StoreAssumption DEF IsBusy
    <2>2. /\ Extent(h, n) \subseteq Address /\ IsFiniteSet(Extent(h, n))
          /\ Cardinality(Extent(h, n)) = h[n].size
      BY <2>1, ExtentSize
    <2>3. BusyBytes(h) = OtherBytes(h, n) \cup Extent(h, n)
      BY <1>4, <2>2 DEF BusyBytes, OtherBytes
    <2>4. OtherBytes(h, n) \cap Extent(h, n) = {}
      <3> SUFFICES ASSUME NEW a \in OtherBytes(h, n), a \in Extent(h, n)
                   PROVE  FALSE
        OBVIOUS
      <3>1. PICK m \in DOMAIN h : m # n /\ a \in Extent(h, m)
        BY DEF OtherBytes, IsBusy
      <3>2. /\ h[n].size \in Nat /\ h[n].pdata \in Nat
            /\ h[m].size \in Nat /\ h[m].pdata \in Nat /\ a \in Int
        BY <2>1, BlockExtent, StoreAssumption DEF OtherBytes, Address
      <3>3. /\ h[m].pdata <= a /\ a < h[m].pdata + h[m].size
            /\ h[n].pdata <= a /\ a < h[n].pdata + h[n].size
        BY <3>1, <3>2 DEF Extent
      <3> QED BY <2>1, <3>1, <3>2, <3>3, ExtentsApart
    <2>5. Cardinality(OtherBytes(h, n) \cup Extent(h, n)) =
            Cardinality(OtherBytes(h, n)) + Cardinality(Extent(h, n))
              - Cardinality(OtherBytes(h, n) \cap Extent(h, n))
      BY <1>2, <2>2, FS_Union
    <2>6. Cardinality(OtherBytes(h, n) \cap Extent(h, n)) = 0
      BY <2>4, FS_EmptySet
    <2> QED BY <1>2, <1>4, <2>1, <2>2, <2>3, <2>5, <2>6
  <1> QED BY <1>3, <1>4

(* A method that leaves the busy blocks but n alone leaves their bytes alone. *)
LEMMA OtherBytesSame ==
  ASSUME NEW h, NEW g, NEW n, SameBusyBut(h, g, {n})
  PROVE  OtherBytes(g, n) = OtherBytes(h, n)
  BY DEF SameBusyBut, OtherBytes, Extent

(* Taking, growing, shrinking and releasing a block, in bytes in use. *)
LEMMA BytesResized ==
  ASSUME NEW h, WellFormed(h), NEW g, WellFormed(g), NEW n \in Node, NEW need \in Nat,
         Resized(h, g, n, need)
  PROVE  Cardinality(BusyBytes(g)) =
           Cardinality(BusyBytes(h)) + need - (IF IsBusy(h, n) THEN h[n].size ELSE 0)
  <1>1. IsBusy(g, n) /\ g[n].size = need /\ OtherBytes(g, n) = OtherBytes(h, n)
    BY OtherBytesSame DEF Resized
  <1>2. /\ Cardinality(OtherBytes(h, n)) \in Nat
        /\ Cardinality(BusyBytes(h)) =
             Cardinality(OtherBytes(h, n)) + (IF IsBusy(h, n) THEN h[n].size ELSE 0)
    BY BusyBytesCounted
  <1>3. Cardinality(BusyBytes(g)) = Cardinality(OtherBytes(h, n)) + need
    BY <1>1, BusyBytesCounted
  <1>4. IsBusy(h, n) => h[n].size \in Nat
    BY BlockExtent, StoreAssumption DEF IsBusy
  <1> QED BY <1>2, <1>3, <1>4

LEMMA BytesReleased ==
  ASSUME NEW h, WellFormed(h), NEW g, WellFormed(g), NEW n \in Node,
         IsBusy(h, n), Released(h, g, n)
  PROVE  Cardinality(BusyBytes(g)) = Cardinality(BusyBytes(h)) - h[n].size
  <1>1. ~IsBusy(g, n) /\ OtherBytes(g, n) = OtherBytes(h, n)
    BY OtherBytesSame DEF Released
  <1>2. /\ Cardinality(OtherBytes(h, n)) \in Nat
        /\ Cardinality(BusyBytes(h)) = Cardinality(OtherBytes(h, n)) + h[n].size
    BY BusyBytesCounted
  <1>3. Cardinality(BusyBytes(g)) = Cardinality(OtherBytes(h, n)) + 0
    BY <1>1, BusyBytesCounted
  <1>4. h[n].size \in Nat
    BY BlockExtent, StoreAssumption DEF IsBusy
  <1> QED BY <1>2, <1>3, <1>4

-----------------------------------------------------------------------------
LEMMA ExactByBusyBytes ==
  ASSUME WellFormed(heap)
  PROVE  AvailableExact <=> available_memory = MemSize - Cardinality(BusyBytes(heap))
  BY FreeBytesCounted DEF AvailableExact

LEMMA FreeCounts ==
  ASSUME IInv, IInv', AvailableExact, NEW p \in DOMAIN live, Free(p)
  PROVE  AvailableExact'
  <1> DEFINE n == getPointer(memory, p)
  <1>1. /\ heap' = defragmet(freeMem(heap, n), First)
        /\ available_memory' = available_memory + heap[n].size
    BY DEF Free, FreeBlock
  <1>2. n \in DOMAIN heap /\ n \in Node /\ IsBusy(heap, n) /\ WellFormed(heap)
    BY HeldPointer, ListWellFormed DEF IsBusy
  <1>3. WellFormed(heap') /\ Released(heap, heap', n)
    BY <1>1, <1>2, FreeMemOK
  <1>4. Cardinality(BusyBytes(heap')) = Cardinality(BusyBytes(heap)) - heap[n].size
    BY <1>2, <1>3, BytesReleased
  <1>5. /\ available_memory = MemSize - Cardinality(BusyBytes(heap))
        /\ Cardinality(BusyBytes(heap)) \in Nat
        /\ heap[n].size \in Nat /\ MemSize \in Nat
    BY <1>2, ExactByBusyBytes, FreeBytesCounted, BlockExtent, StoreAssumption
  <1>6. available_memory' = MemSize - Cardinality(BusyBytes(heap'))
    BY <1>1, <1>4, <1>5
  <1>7. Cardinality(FreeBytes(heap')) = MemSize - Cardinality(BusyBytes(heap'))
    BY <1>3, FreeBytesCounted
  <1> QED BY <1>6, <1>7 DEF AvailableExact, FreeBytes

LEMMA ReAllocInPlaceCounts ==
  ASSUME IInv, AvailableExact, NEW p \in DOMAIN live, NEW size \in Size, NEW fresh,
         CanReAllocMem(heap, getPointer(memory, p), Size_block(size)),
         ReAllocSplits(heap, getPointer(memory, p), Size_block(size)) =>
           fresh \in FreshNodes(heap),
         ReAllocInPlace(p, size, fresh)
  PROVE  AvailableExact'
  <1> DEFINE n == getPointer(memory, p)
             need == Size_block(size)
  <1>1. /\ heap' = ReAllocMem(heap, n, need, fresh)
        /\ available_memory' = available_memory + heap[n].size - need
    BY DEF ReAllocInPlace
  <1>2. /\ n \in DOMAIN heap /\ n \in Node /\ heap[n].status = "busy"
        /\ IsBusy(heap, n) /\ WellFormed(heap) /\ need \in Nat \ {0}
    BY HeldPointer, ListWellFormed, NeedIsPositive DEF IsBusy
  <1>3. WellFormed(heap') /\ Resized(heap, heap', n, need)
    BY <1>1, <1>2, ReAllocMemOK DEF FreshNodes
  <1>4. Cardinality(BusyBytes(heap')) =
          Cardinality(BusyBytes(heap)) + need - heap[n].size
    BY <1>2, <1>3, BytesResized
  <1>5. /\ available_memory = MemSize - Cardinality(BusyBytes(heap))
        /\ Cardinality(BusyBytes(heap)) \in Nat
        /\ heap[n].size \in Nat /\ MemSize \in Nat /\ need \in Nat
    BY <1>2, ExactByBusyBytes, FreeBytesCounted, BlockExtent, StoreAssumption
  <1>6. available_memory' = MemSize - Cardinality(BusyBytes(heap'))
    <2> HIDE DEF n, need
    <2> QED BY <1>1, <1>4, <1>5
  <1>7. Cardinality(FreeBytes(heap')) = MemSize - Cardinality(BusyBytes(heap'))
    BY <1>3, FreeBytesCounted
  <1> QED BY <1>6, <1>7 DEF AvailableExact, FreeBytes

LEMMA PlaceCounts ==
  ASSUME IInv, AvailableExact, Place
  PROVE  AvailableExact'
  <1>1. call # NoCall /\ call.op \in {"Alloc", "ReAlloc"}
    BY WalkStands DEF Place
  <1>2. PICK fresh : /\ TakeBlock(fresh)
                     /\ Splits(heap, call.it, Size_block(call.size)) =>
                          fresh \in FreshNodes(heap)
    BY DEF Place
  <1> DEFINE n     == call.it
             need  == Size_block(call.size)
             h     == AllocPartMem(heap, n, need, fresh)
             m     == putPointer(memory, n, heap[n].pdata)
             copy  == memcpy(m, DataOf(heap, n), call.old, OnlyData(h, call.block))
  <1>3. isFree(heap, n, need)
    BY <1>2 DEF TakeBlock
  <1>4. Taken(h, m, n, need)
    BY <1>1, <1>2, <1>3, BlockTaken
  <1>5. /\ WellFormed(heap) /\ n \in DOMAIN heap /\ n \in Node /\ ~IsBusy(heap, n)
        /\ need \in Nat
    BY <1>1, <1>3, WalkStands, ListWellFormed DEF isFree, IsBusy
  <1>6. WellFormed(h) /\ Resized(heap, h, n, need)
    BY <1>4 DEF Taken
  <1>7. Cardinality(BusyBytes(h)) = Cardinality(BusyBytes(heap)) + need - 0
    BY <1>5, <1>6, BytesResized
  <1>8. /\ available_memory = MemSize - Cardinality(BusyBytes(heap))
        /\ Cardinality(BusyBytes(heap)) \in Nat /\ MemSize \in Nat
    BY <1>5, ExactByBusyBytes, FreeBytesCounted, StoreAssumption
  <1>9. available_memory - need = MemSize - Cardinality(BusyBytes(h))
    <2> HIDE DEF n, need, h
    <2> QED BY <1>5, <1>7, <1>8
  <1>10. CASE call.op = "Alloc"
    <2>1. heap' = h /\ available_memory' = available_memory - need
      BY <1>2, <1>10 DEF TakeBlock
    <2>2. Cardinality(FreeBytes(h)) = MemSize - Cardinality(BusyBytes(h))
      BY <1>6, FreeBytesCounted
    <2> QED BY <1>9, <2>1, <2>2 DEF AvailableExact, FreeBytes
  <1>11. CASE call.op = "ReAlloc"
    <2> DEFINE block == call.block
    <2>1. /\ heap' = FreeBlock(h, copy, call.old)
          /\ available_memory' = available_memory - need
                                   + h[getPointer(copy, call.old)].size
      BY <1>2, <1>11 DEF TakeBlock
    <2>2. /\ call.old \in DOMAIN live /\ block = getPointer(memory, call.old)
          /\ getPointer(copy, call.old) = block
      BY <1>1, <1>3, <1>4, <1>11, DataCopied
    <2>3. IsBusy(h, block) /\ block \in Node
      BY <1>1, <1>3, <1>4, <2>2, OthersUntouched
    <2>4. WellFormed(heap') /\ Released(h, heap', block)
      BY <1>6, <2>1, <2>2, <2>3, FreeMemOK DEF FreeBlock, IsBusy
    <2>5. Cardinality(BusyBytes(heap')) = Cardinality(BusyBytes(h)) - h[block].size
      BY <1>6, <2>3, <2>4, BytesReleased
    <2>6. h[block].size \in Nat /\ Cardinality(BusyBytes(h)) \in Nat
      BY <1>6, <2>3, FreeBytesCounted, BlockExtent, StoreAssumption DEF IsBusy
    <2>7. available_memory' = available_memory - need + h[block].size
      BY <2>1, <2>2
    <2>8. available_memory' = MemSize - Cardinality(BusyBytes(heap'))
      <3> HIDE DEF n, need, h, copy, block
      <3> QED BY <1>5, <1>8, <1>9, <2>5, <2>6, <2>7
    <2>9. Cardinality(FreeBytes(heap')) = MemSize - Cardinality(BusyBytes(heap'))
      BY <2>4, FreeBytesCounted
    <2> QED BY <2>8, <2>9 DEF AvailableExact, FreeBytes
  <1> QED BY <1>1, <1>10, <1>11

LEMMA StepCounts ==
  ASSUME IInv, IInv', AvailableExact, [Next]_vars
  PROVE  AvailableExact'
  <1>1. CASE Place
    BY <1>1, PlaceCounts
  <1>2. ASSUME NEW p \in DOMAIN live, Free(p) PROVE AvailableExact'
    BY <1>2, FreeCounts
  <1>3. ASSUME NEW p \in DOMAIN live, NEW size \in Size, ReAlloc(p, size)
        PROVE  AvailableExact'
    <2> DEFINE n == getPointer(memory, p)
               need == Size_block(size)
    <2>1. CASE ~CanReAllocMem(heap, n, need)
      BY <1>3, <2>1 DEF ReAlloc, ReAllocMove, AvailableExact, FreeBytes
    <2>2. CASE CanReAllocMem(heap, n, need)
      <3>1. PICK fresh : /\ ReAllocInPlace(p, size, fresh)
                         /\ ReAllocSplits(heap, n, need) => fresh \in FreshNodes(heap)
        BY <1>3, <2>2 DEF ReAlloc
      <3> QED BY <2>2, <3>1, ReAllocInPlaceCounts
    <2> QED BY <2>1, <2>2
  <1>4. CASE heap' = heap /\ available_memory' = available_memory
    BY <1>4 DEF AvailableExact, FreeBytes
  <1>5. CASE UNCHANGED vars
    BY <1>4, <1>5 DEF vars
  <1>6. CASE Advance \/ ThrowBadAlloc \/ NewThrows
    BY <1>4, <1>6 DEF Advance, ThrowBadAlloc, NewThrows
  <1>7. ASSUME NEW size \in Size, Alloc(size) PROVE AvailableExact'
    BY <1>4, <1>7 DEF Alloc
  <1>8. ASSUME NEW p \in DOMAIN live, NEW i \in Address, NEW v \in Value, Write(p, i, v)
        PROVE  AvailableExact'
    BY <1>4, <1>8 DEF Write
  <1> QED BY <1>1, <1>2, <1>3, <1>5, <1>6, <1>7, <1>8 DEF Next, AllocStep, UserStep

(* available_memory, which Alloc, Free and ReAlloc adjust by hand, is the   *)
(* number of bytes in free blocks: never below zero, never above the whole. *)
THEOREM AvailableCorrect == Spec => []AvailableExact
  <1>1. Init => AvailableExact
    <2> SUFFICES ASSUME Init PROVE AvailableExact
      OBVIOUS
    <2>1. available_memory = MemSize /\ heap = InitFreeMemory
      BY DEF Init
    <2>2. FreeBytes(heap) = Address
      BY <2>1, StoreAssumption DEF FreeBytes, InitFreeMemory, Address
    <2> QED BY <2>1, <2>2, AddressesCounted DEF AvailableExact
  <1>2. IInv /\ IInv' /\ AvailableExact /\ [Next]_vars => AvailableExact'
    BY StepCounts
  <1> QED BY <1>1, <1>2, InvariantHolds, PTL DEF Spec
=============================================================================
