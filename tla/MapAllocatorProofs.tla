------------------------- MODULE MapAllocatorProofs -------------------------
(***************************************************************************)
(* What the bit map allocator keeps for every size of memory, of headers   *)
(* and of blocks, and for every user, although its blocks may come to      *)
(* share cells and their headers to be overwritten: no cell outside memory *)
(* is marked, and no call lets a block reach past memory unless the block  *)
(* had a header that was no longer its own.                                *)
(*                                                                         *)
(* The second part is about a user with a single block, for whom the       *)
(* allocator implements AllocatorContract.  It rests on OneIntact: the     *)
(* cells of the header stay marked, so that nothing is put on top of it.   *)
(***************************************************************************)
EXTENDS MapAllocator, FiniteSetTheorems, TLAPS

(* Whatever is called, the last cell of memory is never marked: isFree asks *)
(* for a free cell behind those it is to hand out.                          *)
LastCellIdle == MemSize - 1 \notin map

(* A pointer that the user holds has a header in front of it, and points    *)
(* into memory.                                                             *)
PointersInMemory == \A p \in DOMAIN live : p - size_info >= 0 /\ p < MemSize

IInv == TypeOK /\ LastCellIdle /\ PointersInMemory

-----------------------------------------------------------------------------
LEMMA Numbers ==
  ASSUME MapAssumption
  PROVE  /\ size_info \in Nat \ {0} /\ MemSize \in Nat /\ MaxCount \in Nat
         /\ \A size \in Size : /\ size \in Nat /\ size + size_info \in 0 .. MaxCount
                              /\ MemSize + size + size_info <= MaxCount
  BY DEF MapAssumption

(* Cells that isFree has found are in memory, and not the last one.         *)
LEMMA FreeCells ==
  ASSUME MapAssumption, NEW start \in Nat, NEW count \in Nat, isFree(start, count)
  PROVE  /\ Cells(start, count) \subseteq Cell
         /\ MemSize - 1 \notin Cells(start, count)
  BY Numbers DEF isFree, Cells, Cell

(* A header written leaves memory well typed.                               *)
LEMMA PutInfoType ==
  ASSUME MapAssumption, NEW m \in [Cell -> Byte],
         NEW start \in Nat, NEW count \in 0 .. MaxCount
  PROVE  putInfo(m, start, count) \in [Cell -> Byte]
  BY Numbers DEF putInfo, Cells, Cell, Byte

(* A copy from a row of bytes in memory leaves memory well typed.           *)
LEMMA MemcpyType ==
  ASSUME MapAssumption, NEW m \in [Cell -> Byte],
         NEW dst \in Nat, NEW src \in Nat, NEW n \in Int, src + n <= MemSize
  PROVE  memcpy(m, dst, src, n) \in [Cell -> Byte]
<1>1. ASSUME NEW c \in Cell, c \in Cells(dst, n)
      PROVE  src + c - dst \in Cell
  BY <1>1, Numbers DEF Cells, Cell
<1> QED
  BY <1>1 DEF memcpy

(* What is read in front of a pointer is a count, whatever lies there.      *)
LEMMA InfoIsCount ==
  ASSUME NEW m, NEW p, NEW count \in Info(m, p)
  PROVE  count \in 0 .. MaxCount
  BY DEF Info

(* The count read in front of a block whose header is intact is its own.    *)
LEMMA InfoOfIntact ==
  ASSUME MapAssumption, NEW m, NEW p \in Int, NEW own \in 0 .. MaxCount, HasInfo(m, p, own)
  PROVE  Info(m, p) = {own}
<1>1. 0 \in 0 .. size_info - 1
  BY Numbers
<1>2. ASSUME NEW count \in 0 .. MaxCount, HasInfo(m, p, count)
      PROVE  count = own
  <2>1. m[p - size_info + 0] = <<count, 0>> /\ m[p - size_info + 0] = <<own, 0>>
    BY <1>1, <1>2 DEF HasInfo
  <2> QED
    BY <2>1
<1> QED
  BY <1>2 DEF Info

-----------------------------------------------------------------------------
(* Before anything is called the invariant holds.                           *)
LEMMA InitOK == MapAssumption /\ Init => IInv
  BY DEF MapAssumption, Init, IInv, TypeOK, LastCellIdle, PointersInMemory, Cell, Byte

(* Alloc takes cells that isFree has found, and puts the data behind its    *)
(* header there.                                                            *)
LEMMA AllocOK ==
  ASSUME MapAssumption, IInv, UNCHANGED most, NEW size \in Size, Alloc(size)
  PROVE  IInv'
<1> DEFINE need == size + size_info
<1>1. need \in 0 .. MaxCount /\ size \in Nat /\ size_info \in Nat \ {0} /\ MemSize \in Nat
  BY Numbers
<1>2. PICK start \in Cell :
        /\ isFree(start, need)
        /\ map' = map \cup Cells(start, need)
        /\ memory' = putInfo(memory, start, need)
        /\ live' = With(live, start + size_info, size)
  BY DEF Alloc, getmem, set_as_busy
<1>3. start \in Nat /\ start + need < MemSize
  BY <1>2 DEF Cell, isFree
<1>4. map' \subseteq Cell /\ LastCellIdle'
  BY <1>1, <1>2, <1>3, FreeCells DEF IInv, TypeOK, LastCellIdle
<1>5. memory' \in [Cell -> Byte]
  BY <1>1, <1>2, <1>3, PutInfoType DEF IInv, TypeOK
<1>6. /\ DOMAIN live' \subseteq 0 .. MemSize
      /\ live' \in [DOMAIN live' -> Size]
      /\ PointersInMemory'
  BY <1>1, <1>2, <1>3 DEF IInv, TypeOK, With, PointersInMemory
<1>7. thrown' = "nothing"
  BY DEF Alloc, Return
<1> QED
  BY <1>4, <1>5, <1>6, <1>7 DEF IInv, TypeOK

(* A block that keeps its size, or shrinks, only gives cells back.          *)
LEMMA ReAllocInPlaceOK ==
  ASSUME MapAssumption, IInv, UNCHANGED most, NEW p \in DOMAIN live, NEW size \in Size,
         NEW count \in Info(memory, p),
         ReAllocSame(p, size, count) \/ ReAllocShrink(p, size, count)
  PROVE  IInv'
<1>1. /\ size + size_info \in 0 .. MaxCount /\ p - size_info \in Nat
  BY Numbers DEF IInv, TypeOK, PointersInMemory
<1>2. map' \subseteq map
  BY DEF ReAllocSame, ReAllocShrink, set_as_free
<1>3. memory' \in [Cell -> Byte]
  BY <1>1, PutInfoType DEF ReAllocSame, ReAllocShrink, IInv, TypeOK
<1>4. live' = live \/ live' = [live EXCEPT ![p] = size]
  BY DEF ReAllocSame, ReAllocShrink
<1>5. /\ DOMAIN live' \subseteq 0 .. MemSize
      /\ live' \in [DOMAIN live' -> Size]
      /\ PointersInMemory'
  BY <1>4 DEF IInv, TypeOK, PointersInMemory
<1>6. thrown' \in {"nothing", "out_of_range"}
  BY DEF ReAllocSame, ReAllocShrink, Return
<1> QED
  BY <1>2, <1>3, <1>5, <1>6 DEF IInv, TypeOK, LastCellIdle

(* A block grows over cells that isFree has found behind it.                *)
LEMMA ReAllocGrowOK ==
  ASSUME MapAssumption, IInv, UNCHANGED most, NEW p \in DOMAIN live, NEW size \in Size,
         NEW count \in Info(memory, p), ReAllocGrow(p, size, count)
  PROVE  IInv' /\ p + size <= MemSize
<1> DEFINE add == size + size_info - count
<1>1. /\ size \in Nat /\ size + size_info \in 0 .. MaxCount /\ size_info \in Nat \ {0}
      /\ MemSize \in Nat /\ p \in Nat /\ p - size_info \in Nat /\ count \in Nat
  BY Numbers, InfoIsCount DEF IInv, TypeOK, PointersInMemory
<1>2. /\ add \in Nat /\ isFree(over_cell(p, count), add)
      /\ map' = map \cup Cells(over_cell(p, count), add)
      /\ memory' = putInfo(memory, p - size_info, size + size_info)
      /\ live' = [live EXCEPT ![p] = size]
  BY <1>1 DEF ReAllocGrow, set_as_busy
<1>3. over_cell(p, count) \in Nat /\ p + size + size_info < MemSize
  BY <1>1, <1>2 DEF over_cell, isFree
<1>4. map' \subseteq Cell /\ LastCellIdle'
  BY <1>2, <1>3, FreeCells DEF IInv, TypeOK, LastCellIdle
<1>5. memory' \in [Cell -> Byte]
  BY <1>1, <1>2, PutInfoType DEF IInv, TypeOK
<1>6. /\ DOMAIN live' \subseteq 0 .. MemSize
      /\ live' \in [DOMAIN live' -> Size]
      /\ PointersInMemory'
  BY <1>2 DEF IInv, TypeOK, PointersInMemory
<1>7. thrown' = "nothing"
  BY DEF ReAllocGrow, Return
<1> QED
  BY <1>1, <1>3, <1>4, <1>5, <1>6, <1>7 DEF IInv, TypeOK

(* What a move does, when the copy stays in memory.                         *)
Moved(p, size, start, old, freed) ==
  LET need   == size + size_info
      q      == start + size_info
      placed == putInfo(memory, start, need)
      n      == old - size_info
      moved  == memcpy(placed, q, p, n)
  IN
  /\ getmem(need, start)
  /\ old \in Info(placed, p)
  /\ n >= 0 /\ InMemory(p, n) /\ InMemory(q, n)
  /\ freed \in Info(moved, p)
  /\ Release(set_as_busy(map, start, need), p, freed)
  /\ memory' = moved
  /\ live' = IF OutOfRange(p, freed) THEN Without(live, p)
             ELSE With(Without(live, p), q, size)

(* A move ends that way, or leads out of memory.                            *)
LEMMA MoveCases ==
  ASSUME MapAssumption, NEW p, NEW size \in Size, NEW count, ReAllocMove(p, size, count)
  PROVE  \/ thrown' = "undefined" /\ UNCHANGED <<map, memory, live>>
         \/ \E start \in Cell, old \in 0 .. MaxCount, freed \in 0 .. MaxCount :
              Moved(p, size, start, old, freed)
<1> DEFINE need          == size + size_info
           placed(start) == putInfo(memory, start, need)
<1>1. PICK start \in Cell :
        /\ getmem(need, start)
        /\ \E old \in Info(placed(start), p) :
             LET n     == old - size_info
                 moved == memcpy(placed(start), start + size_info, p, n)
             IN
             IF n < 0 \/ ~InMemory(p, n) \/ ~InMemory(start + size_info, n)
             THEN /\ thrown' = "undefined"
                  /\ UNCHANGED <<map, memory, live>>
             ELSE \E freed \in Info(moved, p) :
                    /\ Release(set_as_busy(map, start, need), p, freed)
                    /\ memory' = moved
                    /\ live' = IF OutOfRange(p, freed) THEN Without(live, p)
                               ELSE With(Without(live, p), start + size_info, size)
  BY DEF ReAllocMove
<1>2. PICK old \in Info(placed(start), p) :
        \/ thrown' = "undefined" /\ UNCHANGED <<map, memory, live>>
        \/ /\ ~(old - size_info < 0)
           /\ InMemory(p, old - size_info) /\ InMemory(start + size_info, old - size_info)
           /\ \E freed \in Info(memcpy(placed(start), start + size_info, p, old - size_info), p) :
                /\ Release(set_as_busy(map, start, need), p, freed)
                /\ memory' = memcpy(placed(start), start + size_info, p, old - size_info)
                /\ live' = IF OutOfRange(p, freed) THEN Without(live, p)
                           ELSE With(Without(live, p), start + size_info, size)
  BY <1>1
<1>3. old \in 0 .. MaxCount /\ (~(old - size_info < 0) => old - size_info >= 0)
  BY Numbers, InfoIsCount
<1> QED
  BY <1>1, <1>2, <1>3, InfoIsCount DEF Moved

(* A block moves into cells that getmem has found; as many bytes are copied *)
(* as lie in memory.                                                        *)
LEMMA MovedOK ==
  ASSUME MapAssumption, IInv, UNCHANGED most, NEW p \in DOMAIN live, NEW size \in Size,
         NEW start \in Cell, NEW old \in 0 .. MaxCount, NEW freed \in 0 .. MaxCount,
         Moved(p, size, start, old, freed)
  PROVE  IInv' /\ start + size_info + size <= MemSize
<1> DEFINE need == size + size_info
           q    == start + size_info
           n    == old - size_info
<1>1. /\ size \in Nat /\ need \in 0 .. MaxCount /\ p \in Nat
      /\ size_info \in Nat \ {0} /\ MemSize \in Nat
  BY Numbers DEF IInv, TypeOK
<1>2. /\ isFree(start, need)
      /\ map' = (map \cup Cells(start, need)) \ Cells(p, freed)
      /\ memory' = memcpy(putInfo(memory, start, need), q, p, n)
      /\ live' = IF OutOfRange(p, freed) THEN Without(live, p)
                 ELSE With(Without(live, p), q, size)
      /\ thrown' \in {"nothing", "out_of_range"}
      /\ p + n <= MemSize
  BY DEF Moved, getmem, Release, set_as_busy, set_as_free, InMemory
<1>3. start \in Nat /\ start + need < MemSize /\ q \in Nat
  BY <1>1, <1>2 DEF Cell, isFree
<1>4. map' \subseteq Cell /\ LastCellIdle'
  BY <1>1, <1>2, <1>3, FreeCells DEF IInv, TypeOK, LastCellIdle
<1>5. memory' \in [Cell -> Byte]
  <2>1. putInfo(memory, start, need) \in [Cell -> Byte]
    BY <1>1, <1>3, PutInfoType DEF IInv, TypeOK
  <2>2. n \in Int
    BY <1>1
  <2> HIDE DEF n, q
  <2>3. memcpy(putInfo(memory, start, need), q, p, n) \in [Cell -> Byte]
    BY <1>1, <1>2, <1>3, <2>1, <2>2, MemcpyType
  <2> QED
    BY <1>2, <2>3
<1>6. /\ DOMAIN live' \subseteq 0 .. MemSize
      /\ live' \in [DOMAIN live' -> Size]
      /\ PointersInMemory'
  <2>1. CASE live' = Without(live, p)
    BY <2>1 DEF IInv, TypeOK, Without, PointersInMemory
  <2>2. CASE live' = With(Without(live, p), q, size)
    BY <1>1, <1>3, <2>2 DEF IInv, TypeOK, With, Without, PointersInMemory
  <2> QED
    BY <1>2, <2>1, <2>2
<1> QED
  BY <1>1, <1>2, <1>3, <1>4, <1>5, <1>6 DEF IInv, TypeOK

LEMMA ReAllocMoveOK ==
  ASSUME MapAssumption, IInv, UNCHANGED most, NEW p \in DOMAIN live, NEW size \in Size,
         NEW count \in Info(memory, p), ReAllocMove(p, size, count)
  PROVE  IInv'
<1>1. CASE thrown' = "undefined" /\ UNCHANGED <<map, memory, live>>
  BY <1>1 DEF IInv, TypeOK, LastCellIdle, PointersInMemory
<1> QED
  BY <1>1, MoveCases, MovedOK

(* The other calls mark no cell and hand out no pointer.                    *)
LEMMA OtherOK ==
  ASSUME MapAssumption, IInv, UNCHANGED most,
         \/ UNCHANGED vars
         \/ \E size \in Size : AllocThrows(size)
         \/ \E p \in DOMAIN live :
              \/ \E size \in Size, count \in Info(memory, p) : ReAllocThrows(p, size, count)
              \/ Free(p)
              \/ \E i \in Cell, v \in Value : Write(p, i, v)
  PROVE  IInv'
<1>1. CASE UNCHANGED vars
  BY <1>1 DEF vars, IInv, TypeOK, LastCellIdle, PointersInMemory
<1>2. ASSUME NEW size \in Size, AllocThrows(size) PROVE IInv'
  BY <1>2 DEF AllocThrows, IInv, TypeOK, LastCellIdle, PointersInMemory
<1>3. ASSUME NEW p \in DOMAIN live, NEW size \in Size, NEW count, ReAllocThrows(p, size, count)
      PROVE  IInv'
  BY <1>3 DEF ReAllocThrows, IInv, TypeOK, LastCellIdle, PointersInMemory
<1>4. ASSUME NEW p \in DOMAIN live, Free(p) PROVE IInv'
  BY <1>4 DEF Free, Release, set_as_free, Without, IInv, TypeOK, LastCellIdle, PointersInMemory
<1>5. ASSUME NEW p \in DOMAIN live, NEW i \in Cell, NEW v \in Value, Write(p, i, v)
      PROVE  IInv'
  BY <1>5 DEF Write, Return, Byte, IInv, TypeOK, LastCellIdle, PointersInMemory
<1> QED
  BY <1>1, <1>2, <1>3, <1>4, <1>5

(* The invariant holds in every state: one case for each kind of call.      *)
THEOREM InvariantHolds == Spec => []IInv
<1>1. IInv /\ [Next]_vars => IInv'
  <2> SUFFICES ASSUME IInv, [Next]_vars PROVE IInv'
    OBVIOUS
  <2> UNCHANGED most
    BY DEF Next, vars
  <2>1. ASSUME NEW size \in Size, Alloc(size) PROVE IInv'
    BY <2>1, MapAssumption, AllocOK
  <2>2. ASSUME NEW p \in DOMAIN live, NEW size \in Size, NEW count \in Info(memory, p),
               \/ ReAllocSame(p, size, count)  \/ ReAllocShrink(p, size, count)
               \/ ReAllocGrow(p, size, count) \/ ReAllocMove(p, size, count)
        PROVE  IInv'
    BY <2>2, MapAssumption, ReAllocInPlaceOK, ReAllocGrowOK, ReAllocMoveOK
  <2> QED
    BY <2>1, <2>2, MapAssumption, OtherOK DEF Next, ReAlloc
<1>2. Init => IInv
  BY MapAssumption, InitOK
<1> QED
  BY <1>1, <1>2, PTL DEF Spec

(* Types: no cell outside memory is marked, and memory holds bytes,         *)
(* whatever the sizes of memory and header and whatever the user calls.     *)
THEOREM TypeCorrect == Spec => []TypeOK
  BY InvariantHolds, PTL DEF IInv

(* isFree wants one free cell too many, so the last cell is never used.     *)
THEOREM LastCellNeverTaken == Spec => []LastCellIdle
  BY InvariantHolds, PTL DEF IInv

(* A step makes a block reach past memory only if it resizes the block in   *)
(* place by a count that is not its own.                                    *)
LEMMA StaysInMemory ==
  ASSUME MapAssumption, IInv, IInv', [Next]_vars, NEW r \in DOMAIN live'
  PROVE  \/ InMemory(r - size_info, size_info + live'[r])
         \/ /\ r \in DOMAIN live
            /\ ~HeaderIntact(r) \/ ~InMemory(r - size_info, size_info + live[r])
<1> DEFINE Goal == \/ InMemory(r - size_info, size_info + live'[r])
                   \/ /\ r \in DOMAIN live
                      /\ ~HeaderIntact(r) \/ ~InMemory(r - size_info, size_info + live[r])
<1>0. /\ r \in Nat /\ r - size_info >= 0 /\ live'[r] \in Nat
      /\ size_info \in Nat \ {0} /\ MemSize \in Nat
      /\ \A p \in DOMAIN live : p \in Nat /\ live[p] \in Nat /\ live[p] + size_info \in 0 .. MaxCount
  BY Numbers DEF IInv, TypeOK, PointersInMemory
<1>1. ASSUME r \in DOMAIN live, live'[r] = live[r] PROVE Goal
  BY <1>1
<1>2. ASSUME r + live'[r] <= MemSize PROVE Goal
  BY <1>0, <1>2 DEF InMemory
<1>3. ASSUME NEW size \in Size, Alloc(size) PROVE Goal
  <2>1. PICK start \in Cell : /\ isFree(start, size + size_info)
                              /\ live' = With(live, start + size_info, size)
    BY <1>3 DEF Alloc, getmem
  <2>2. start \in Int /\ size \in Int /\ start + size_info + size <= MemSize
    BY <1>0, <2>1, Numbers DEF isFree, Cell
  <2>3. CASE r = start + size_info
    BY <1>2, <2>1, <2>2, <2>3 DEF With
  <2>4. CASE r # start + size_info
    BY <1>1, <2>1, <2>4 DEF With
  <2> QED
    BY <2>3, <2>4
<1>4. ASSUME NEW p \in DOMAIN live, NEW size \in Size, NEW count \in Info(memory, p),
             ReAllocSame(p, size, count) \/ ReAllocShrink(p, size, count)
      PROVE  Goal
  <2>1. live' = live \/ (live' = [live EXCEPT ![p] = size] /\ size + size_info <= count)
    BY <1>0, <1>4, Numbers, InfoIsCount DEF ReAllocSame, ReAllocShrink
  <2>2. CASE live' = live
    BY <1>1, <2>2
  <2>3. CASE live' # live /\ r # p
    BY <1>1, <2>1, <2>3
  <2>4. CASE live' # live /\ r = p
    <3> SUFFICES ASSUME HeaderIntact(p), InMemory(p - size_info, size_info + live[p])
                 PROVE  Goal
      BY <2>4
    <3>1. count = live[p] + size_info
      BY <1>0, MapAssumption, InfoOfIntact DEF HeaderIntact
    <3>2. size <= live[p] /\ live'[r] = size
      BY <1>0, <2>1, <2>4, <3>1, Numbers
    <3> QED
      BY <1>0, <1>2, <2>4, <3>2, Numbers DEF InMemory
  <2> QED
    BY <2>2, <2>3, <2>4
<1>5. ASSUME NEW p \in DOMAIN live, NEW size \in Size, NEW count \in Info(memory, p),
             ReAllocGrow(p, size, count)
      PROVE  Goal
  <2>1. p + size <= MemSize /\ live' = [live EXCEPT ![p] = size]
    <3> UNCHANGED most
      BY DEF Next, vars
    <3> QED
      BY <1>5, MapAssumption, ReAllocGrowOK DEF ReAllocGrow
  <2> QED
    BY <1>1, <1>2, <2>1
<1>6. ASSUME NEW p \in DOMAIN live, NEW size \in Size, NEW count \in Info(memory, p),
             ReAllocMove(p, size, count)
      PROVE  Goal
  <2> UNCHANGED most
    BY DEF Next, vars
  <2>1. CASE UNCHANGED <<map, memory, live>>
    BY <1>1, <2>1
  <2>2. ASSUME NEW start \in Cell, NEW old \in 0 .. MaxCount, NEW freed \in 0 .. MaxCount,
               Moved(p, size, start, old, freed)
        PROVE  Goal
    <3>1. start + size_info + size <= MemSize
      BY <2>2, MapAssumption, MovedOK
    <3>2. \/ live' = Without(live, p)
          \/ live' = With(Without(live, p), start + size_info, size)
      BY <2>2 DEF Moved
    <3>3. CASE live' = Without(live, p)
      BY <1>1, <3>3 DEF Without
    <3>4. CASE live' = With(Without(live, p), start + size_info, size) /\ r = start + size_info
      BY <1>2, <3>1, <3>4 DEF With
    <3>5. CASE live' = With(Without(live, p), start + size_info, size) /\ r # start + size_info
      BY <1>1, <3>5 DEF With, Without
    <3> QED
      BY <3>2, <3>3, <3>4, <3>5
  <2> QED
    BY <1>6, <2>1, <2>2, MapAssumption, MoveCases
<1>7. CASE \/ UNCHANGED vars
           \/ \E size \in Size : AllocThrows(size)
           \/ \E p \in DOMAIN live :
                \/ \E size \in Size, count \in Info(memory, p) : ReAllocThrows(p, size, count)
                \/ Free(p)
                \/ \E i \in Cell, v \in Value : Write(p, i, v)
  <2>1. live' = live \/ \E p \in DOMAIN live : live' = Without(live, p)
    BY <1>7 DEF vars, AllocThrows, ReAllocThrows, Free, Write
  <2> QED
    BY <1>1, <2>1 DEF Without
<1> QED
  BY <1>3, <1>4, <1>5, <1>6, <1>7 DEF Next, ReAlloc

(* No call lets a block reach past memory, however it has been resized and  *)
(* moved over the cells of other blocks, as long as its header has not been *)
(* overwritten when ReAlloc is called for it.                               *)
THEOREM AllDataInMemory == Spec => DataInMemory
<1>1. IInv /\ IInv' /\ [Next]_vars =>
        [\A p \in DOMAIN live' :
           \/ InMemory(p - size_info, size_info + live'[p])
           \/ /\ p \in DOMAIN live
              /\ ~HeaderIntact(p) \/ ~InMemory(p - size_info, size_info + live[p])]_vars
  BY MapAssumption, StaysInMemory
<1> QED
  BY <1>1, InvariantHolds, PTL DEF Spec, DataInMemory

-----------------------------------------------------------------------------
(* The refinement.  For a user with one block at a time the cells that are  *)
(* marked and freed by mistake are at most in the way of its next block.    *)
OneBlock == most = 1 => \A p, q \in DOMAIN live : p = q

(* Nothing but ReAlloc itself writes to the header of that block: its cells *)
(* are marked, so that the block can only move to a place clear of them.    *)
OneIntact ==
  most = 1 => \A p \in DOMAIN live :
                /\ HeaderIntact(p)
                /\ Cells(p - size_info, size_info) \subseteq map
                /\ p + live[p] < MemSize

OneInv == OneBlock /\ OneIntact

(* Alloc is called by a user that holds nothing. *)
LEMMA NothingHeld ==
  ASSUME IInv, most = 1, Cardinality(DOMAIN live) < most
  PROVE  DOMAIN live = {}
<1>1. IsFiniteSet(DOMAIN live)
  <2>1. IsFiniteSet(0 .. MemSize)
    BY MapAssumption, FS_Interval
  <2> QED
    BY <2>1, FS_Subset DEF IInv, TypeOK
<1>2. Cardinality(DOMAIN live) \in Nat
  BY <1>1, FS_CardinalityType
<1>3. Cardinality(DOMAIN live) = 0
  BY <1>2
<1> QED
  BY <1>1, <1>3, FS_EmptySet

LEMMA OneBlockKept ==
  ASSUME IInv, OneBlock, [Next]_vars
  PROVE  OneBlock'
<1> SUFFICES ASSUME most = 1 PROVE \A p, q \in DOMAIN live' : p = q
  BY DEF OneBlock, Next, vars
<1>0. \A p, q \in DOMAIN live : p = q
  BY DEF OneBlock
<1>1. ASSUME NEW size \in Size, Alloc(size)
      PROVE  \A p, q \in DOMAIN live' : p = q
  <2>1. DOMAIN live = {}
    BY <1>1, NothingHeld DEF Alloc
  <2>2. PICK start \in Cell : live' = With(live, start + size_info, size)
    BY <1>1 DEF Alloc
  <2> QED
    BY <2>1, <2>2 DEF With
<1>2. ASSUME NEW p \in DOMAIN live, NEW size \in Size, ReAlloc(p, size)
      PROVE  \A r, q \in DOMAIN live' : r = q
  <2>1. \/ DOMAIN live' = DOMAIN live
        \/ live' = Without(live, p)
        \/ \E start \in Cell : live' = With(Without(live, p), start + size_info, size)
    BY <1>2, MapAssumption, MoveCases DEF Moved, ReAlloc, ReAllocSame, ReAllocShrink, ReAllocGrow, ReAllocThrows
  <2> QED
    BY <1>0, <2>1 DEF With, Without
<1>3. CASE \/ UNCHANGED vars
           \/ \E size \in Size : AllocThrows(size)
           \/ \E p \in DOMAIN live :
                \/ Free(p)
                \/ \E i \in Cell, v \in Value : Write(p, i, v)
  BY <1>0, <1>3 DEF vars, AllocThrows, Free, Write, Without
<1> QED
  BY <1>1, <1>2, <1>3 DEF Next

(* The single block has the count that its header says, and moves, if it    *)
(* does, to cells that have nothing in common with its header or its data.  *)
LEMMA OneReAlloc ==
  ASSUME IInv, OneInv, most = 1, NEW p \in DOMAIN live,
         NEW count \in Info(memory, p)
  PROVE  count = live[p] + size_info
BY Numbers, MapAssumption, InfoOfIntact DEF IInv, TypeOK, PointersInMemory, OneInv, OneIntact, HeaderIntact

LEMMA OneMove ==
  ASSUME IInv, OneInv, most = 1, NEW p \in DOMAIN live, NEW size \in Size,
         ReAllocMove(p, size, live[p] + size_info)
  PROVE  \E start \in Cell :
           LET q == start + size_info
               n == live[p]
           IN
           /\ start + (size + size_info) < p - size_info \/ start > p + (n + size_info)
           /\ size > n /\ start + (size + size_info) < MemSize
           /\ map' = (map \cup Cells(start, size + size_info)) \ Cells(p, n + size_info)
           /\ memory' = memcpy(putInfo(memory, start, size + size_info), q, p, n)
           /\ live' = Without(live, p) \/ live' = With(Without(live, p), q, size)
<1> DEFINE need == size + size_info
           own  == live[p] + size_info
<1>1. /\ size \in Nat /\ need \in 0 .. MaxCount /\ live[p] \in Nat /\ own \in 0 .. MaxCount
      /\ p \in Nat /\ p - size_info >= 0 /\ size_info \in Nat \ {0} /\ MemSize \in Nat
      /\ DOMAIN memory = Cell
  BY Numbers, MapAssumption DEF IInv, TypeOK, PointersInMemory
<1>2. /\ HasInfo(memory, p, own) /\ Cells(p - size_info, size_info) \subseteq map
      /\ p + live[p] < MemSize
  BY DEF OneInv, OneIntact, HeaderIntact
<1>3. need > own /\ ~isFree(p + own, need - own)
  BY <1>1 DEF ReAllocMove, MustMove, over_cell
<1> DEFINE placed(start) == putInfo(memory, start, need)
           n             == live[p]
           moved(start)  == memcpy(placed(start), start + size_info, p, n)
<1>4. ASSUME NEW start \in Cell, getmem(need, start)
      PROVE  /\ start + need < p - size_info \/ start > p + own
             /\ start + need < MemSize
             /\ Info(placed(start), p) = {own} /\ Info(moved(start), p) = {own}
  <2>1. isFree(start, need) /\ start \in Nat /\ start + need < MemSize
    BY <1>1, <1>4 DEF getmem, isFree, Cell
  <2>2. start + need < p - size_info \/ start > p - 1
    <3> SUFFICES ASSUME start + need >= p - size_info, start <= p - 1 PROVE FALSE
      BY <1>1, <2>1
    <3>1. \E c \in Int : /\ p - size_info <= c /\ c <= p - 1
                        /\ start <= c /\ c <= start + need
      <4>1. CASE start >= p - size_info
        BY <1>1, <2>1, <4>1
      <4>2. CASE start < p - size_info
        BY <1>1, <2>1, <4>2
      <4> QED
        BY <1>1, <2>1, <4>1, <4>2
    <3>2. PICK c \in Int : /\ p - size_info <= c /\ c <= p - 1
                          /\ start <= c /\ c <= start + need
      BY <3>1
    <3>3. c \in Cells(p - size_info, size_info) /\ c \in Cells(start, need + 1)
      BY <1>1, <2>1, <3>2 DEF Cells
    <3> QED
      BY <1>2, <2>1, <3>3 DEF isFree
  <2>3. start + need < p - size_info \/ start > p + own
    <3> SUFFICES ASSUME start >= p, start <= p + own PROVE FALSE
      BY <1>1, <2>1, <2>2
    <3>1. (p + own) + (need - own) < MemSize
      <4>1. p + need < MemSize
        BY <1>1, <2>1
      <4> QED
        BY <1>1, <4>1
    <3>2. Cells(p + own, need - own + 1) \subseteq Cells(start, need + 1)
      BY <1>1, <1>3, <2>1 DEF Cells
    <3>3. isFree(p + own, need - own)
      BY <2>1, <3>1, <3>2 DEF isFree
    <3> QED
      BY <1>3, <3>3
  <2>4. HasInfo(placed(start), p, own)
    <3>1. ASSUME NEW k \in 0 .. size_info - 1
          PROVE  placed(start)[p - size_info + k] = memory[p - size_info + k]
      <4>1. p - size_info + k \in Cell
        BY <1>1, <1>2 DEF Cell
      <4>2. p - size_info + k \notin Cells(start, size_info)
        BY <1>1, <2>1, <2>3 DEF Cells
      <4> QED
        BY <1>1, <4>1, <4>2 DEF putInfo
    <3> QED
      BY <1>2, <3>1 DEF HasInfo
  <2>5. HasInfo(moved(start), p, own)
    <3>1. ASSUME NEW k \in 0 .. size_info - 1
          PROVE  moved(start)[p - size_info + k] = placed(start)[p - size_info + k]
      <4>1. /\ p - size_info + k \in Cell
            /\ p - size_info + k \notin Cells(start + size_info, n)
        <5>1. p - size_info + k \in Cell
          BY <1>1, <1>2 DEF Cell
        <5>2. n < size
          BY <1>1, <1>3
        <5>3. p - size_info + k \notin Cells(start + size_info, n)
          BY <1>1, <2>1, <2>3, <5>2 DEF Cells
        <5> QED
          BY <5>1, <5>3
      <4>2. DOMAIN placed(start) = Cell
        BY <1>1 DEF putInfo
      <4> HIDE DEF placed
      <4> QED
        BY <4>1, <4>2 DEF memcpy
    <3> HIDE DEF moved
    <3> QED
      BY <2>4, <3>1 DEF HasInfo
  <2> HIDE DEF placed, moved
  <2> QED
    BY <1>1, <2>1, <2>3, <2>4, <2>5, MapAssumption, InfoOfIntact
<1>5. PICK start \in Cell :
        /\ getmem(need, start)
        /\ \E old \in Info(placed(start), p) :
             LET m == memcpy(placed(start), start + size_info, p, old - size_info)
             IN
             IF old - size_info < 0 \/ ~InMemory(p, old - size_info)
                                   \/ ~InMemory(start + size_info, old - size_info)
             THEN /\ thrown' = "undefined"
                  /\ UNCHANGED <<map, memory, live>>
             ELSE \E freed \in Info(m, p) :
                    /\ Release(set_as_busy(map, start, need), p, freed)
                    /\ memory' = m
                    /\ live' = IF OutOfRange(p, freed) THEN Without(live, p)
                               ELSE With(Without(live, p), start + size_info, size)
  BY DEF ReAllocMove
<1>6. /\ start + need < p - size_info \/ start > p + own
      /\ start + need < MemSize
      /\ Info(placed(start), p) = {own} /\ Info(moved(start), p) = {own}
  BY <1>4, <1>5
<1>7. own - size_info = n /\ start \in Nat
  BY <1>1 DEF Cell
<1>8. ~(n < 0) /\ InMemory(p, n) /\ InMemory(start + size_info, n)
  BY <1>1, <1>2, <1>3, <1>6, <1>7 DEF InMemory
<1>9. \E freed \in {own} :
        /\ Release(set_as_busy(map, start, need), p, freed)
        /\ memory' = moved(start)
        /\ live' = IF OutOfRange(p, freed) THEN Without(live, p)
                   ELSE With(Without(live, p), start + size_info, size)
  BY <1>5, <1>6, <1>7, <1>8
<1>10. /\ map' = (map \cup Cells(start, need)) \ Cells(p, own)
       /\ live' = Without(live, p) \/ live' = With(Without(live, p), start + size_info, size)
       /\ memory' = moved(start)
  BY <1>9 DEF Release, set_as_busy, set_as_free
<1>11. size > n
  BY <1>1, <1>3, <1>7
<1> QED
  BY <1>6, <1>10, <1>11

(* What is written by a call is the header of the block, in place or anew,  *)
(* and never a cell of a header that the user still needs.                  *)
LEMMA OneInPlace ==
  ASSUME IInv, OneInv, most = 1, NEW p \in DOMAIN live, NEW size \in Size,
         \/ ReAllocSame(p, size, live[p] + size_info)
         \/ ReAllocShrink(p, size, live[p] + size_info)
         \/ ReAllocGrow(p, size, live[p] + size_info)
  PROVE  /\ live' = live \/ live' = [live EXCEPT ![p] = size]
         /\ \A i \in Nat : i < live[p] => memory'[p + i] = memory[p + i]
         /\ HasInfo(memory', p, live'[p] + size_info)
         /\ p + live'[p] < MemSize
         /\ \A c \in map : c < p => c \in map'
<1>1. /\ size \in Nat /\ live[p] \in Nat /\ p \in Nat /\ p - size_info >= 0
      /\ size_info \in Nat \ {0} /\ MemSize \in Nat /\ DOMAIN memory = Cell
      /\ map \subseteq Cell
  BY Numbers, MapAssumption DEF IInv, TypeOK, PointersInMemory
<1>2. HasInfo(memory, p, live[p] + size_info) /\ p + live[p] < MemSize
  BY DEF OneInv, OneIntact, HeaderIntact
<1>3. CASE live' = live /\ memory' = memory
  BY <1>1, <1>2, <1>3 DEF ReAllocSame, ReAllocShrink, ReAllocGrow, set_as_free, set_as_busy, Cells, Cell
<1>4. CASE ReAllocSame(p, size, live[p] + size_info)
  <2>1. size = live[p]
    BY <1>1, <1>4 DEF ReAllocSame
  <2>2. live' = [live EXCEPT ![p] = size] /\ live'[p] = size /\ memory' = memory /\ map' = map
    BY <1>4 DEF ReAllocSame
  <2> QED
    BY <1>2, <2>1, <2>2
<1>5. CASE /\ live' = [live EXCEPT ![p] = size]
           /\ memory' = putInfo(memory, p - size_info, size + size_info)
           /\ \/ ReAllocShrink(p, size, live[p] + size_info)
              \/ ReAllocGrow(p, size, live[p] + size_info)
  <2>1. \A i \in Nat : i < live[p] => memory'[p + i] = memory[p + i]
    <3> SUFFICES ASSUME NEW i \in Nat, i < live[p] PROVE memory'[p + i] = memory[p + i]
      OBVIOUS
    <3>1. p + i \in Cell /\ p + i \notin Cells(p - size_info, size_info)
      BY <1>1, <1>2 DEF Cell, Cells
    <3> QED
      BY <1>1, <1>5, <3>1 DEF putInfo
  <2>2. HasInfo(memory', p, size + size_info)
    <3> SUFFICES ASSUME NEW k \in 0 .. size_info - 1
                 PROVE  memory'[p - size_info + k] = <<size + size_info, k>>
      BY DEF HasInfo
    <3>1. /\ p - size_info + k \in Cell /\ p - size_info + k \in Cells(p - size_info, size_info)
          /\ (p - size_info + k) - (p - size_info) = k
      BY <1>1, <1>2 DEF Cell, Cells
    <3> QED
      BY <1>1, <1>5, <3>1 DEF putInfo
  <2>3. p + size < MemSize
    <3>1. CASE ReAllocShrink(p, size, live[p] + size_info)
      BY <1>1, <1>2, <3>1 DEF ReAllocShrink
    <3>2. CASE ReAllocGrow(p, size, live[p] + size_info)
      BY <1>1, <3>2 DEF ReAllocGrow, over_cell, isFree
    <3> QED
      BY <1>5, <3>1, <3>2
  <2>4. \A c \in map : c < p => c \in map'
    BY <1>1, <1>5 DEF ReAllocShrink, ReAllocGrow, set_as_free, set_as_busy, Cells, Cell
  <2> QED
    BY <1>5, <2>1, <2>2, <2>3, <2>4
<1> QED
  BY <1>3, <1>4, <1>5 DEF ReAllocShrink, ReAllocGrow

(* The bytes of a block that moves, and its new header, when the places have *)
(* nothing in common.                                                       *)
LEMMA CopyClear ==
  ASSUME MapAssumption, IInv, NEW p \in Nat, NEW start \in Nat, NEW n \in Nat, NEW size \in Nat,
         start + (size + size_info) < p - size_info \/ start > p + (n + size_info),
         size > n, start + (size + size_info) < MemSize, p + n < MemSize,
         memory' = memcpy(putInfo(memory, start, size + size_info), start + size_info, p, n)
  PROVE  /\ \A i \in Nat : i < n => memory'[start + size_info + i] = memory[p + i]
         /\ HasInfo(memory', start + size_info, size + size_info)
<1> DEFINE placed == putInfo(memory, start, size + size_info)
           q      == start + size_info
<1>1. size_info \in Nat \ {0} /\ MemSize \in Nat /\ DOMAIN memory = Cell /\ q \in Nat
  BY Numbers DEF IInv, TypeOK
<1>2. DOMAIN placed = Cell
  BY <1>1 DEF putInfo
<1>3. ASSUME NEW i \in Nat, i < n PROVE memory'[q + i] = memory[p + i]
  <2>1. p + i \in Cell /\ p + i \notin Cells(start, size_info)
    BY <1>1, <1>3 DEF Cell, Cells
  <2>2. placed[p + i] = memory[p + i]
    BY <1>1, <2>1 DEF putInfo
  <2>3. q + i \in Cell /\ q + i \in Cells(q, n) /\ p + (q + i) - q = p + i
    BY <1>1, <1>3 DEF Cell, Cells
  <2> HIDE DEF placed, q
  <2>4. memory' = memcpy(placed, q, p, n)
    BY DEF placed, q
  <2>5. memory'[q + i] = placed[p + i]
    BY <1>2, <2>3, <2>4 DEF memcpy
  <2> QED
    BY <2>2, <2>5
<1>4. ASSUME NEW k \in 0 .. size_info - 1
      PROVE  memory'[q - size_info + k] = <<size + size_info, k>>
  <2>1. /\ q - size_info + k = start + k /\ start + k \in Cell
        /\ start + k \in Cells(start, size_info) /\ start + k \notin Cells(q, n)
        /\ (start + k) - start = k
    BY <1>1 DEF Cell, Cells
  <2>2. placed[start + k] = <<size + size_info, k>>
    BY <1>1, <2>1 DEF putInfo
  <2> HIDE DEF placed, q
  <2>3. memory' = memcpy(placed, q, p, n)
    BY DEF placed, q
  <2>4. memory'[start + k] = placed[start + k]
    BY <1>2, <2>1, <2>3 DEF memcpy
  <2> QED
    BY <2>1, <2>2, <2>4
<1> QED
  BY <1>3, <1>4 DEF HasInfo

LEMMA OneIntactKept ==
  ASSUME IInv, OneInv, OneBlock', [Next]_vars
  PROVE  OneIntact'
<1> SUFFICES ASSUME most = 1, NEW r \in DOMAIN live'
             PROVE  /\ HasInfo(memory', r, live'[r] + size_info)
                    /\ Cells(r - size_info, size_info) \subseteq map'
                    /\ r + live'[r] < MemSize
  BY DEF OneIntact, HeaderIntact, Next, vars
<1> DEFINE Goal == /\ HasInfo(memory', r, live'[r] + size_info)
                   /\ Cells(r - size_info, size_info) \subseteq map'
                   /\ r + live'[r] < MemSize
<1>0. /\ size_info \in Nat \ {0} /\ MemSize \in Nat /\ DOMAIN memory = Cell /\ map \subseteq Cell
      /\ \A p \in DOMAIN live :
           /\ p \in Nat /\ p - size_info >= 0 /\ live[p] \in Nat
           /\ HasInfo(memory, p, live[p] + size_info)
           /\ Cells(p - size_info, size_info) \subseteq map
           /\ p + live[p] < MemSize
  BY Numbers, MapAssumption
     DEF IInv, TypeOK, PointersInMemory, OneInv, OneIntact, HeaderIntact
<1>1. CASE r \in DOMAIN live /\ live'[r] = live[r] /\ memory' = memory /\ map \subseteq map'
  BY <1>0, <1>1
<1>2. ASSUME NEW size \in Size, Alloc(size) PROVE Goal
  <2>1. PICK start \in Cell :
          /\ isFree(start, size + size_info)
          /\ map' = map \cup Cells(start, size + size_info)
          /\ memory' = putInfo(memory, start, size + size_info)
          /\ live' = With(live, start + size_info, size)
    BY <1>2 DEF Alloc, getmem, set_as_busy
  <2>2. r = start + size_info /\ live'[r] = size
    <3>1. most' = 1
      BY DEF Next, vars
    <3>2. start + size_info \in DOMAIN live' /\ live'[start + size_info] = size
      BY <2>1 DEF With
    <3> QED
      BY <3>1, <3>2 DEF OneBlock
  <2>3. /\ start \in Nat /\ size \in Nat /\ start + size + size_info < MemSize
        /\ r - size_info = start
    BY <1>0, <2>1, <2>2, Numbers, MapAssumption DEF isFree, Cell
  <2>4. Cells(r - size_info, size_info) \subseteq map'
    BY <1>0, <2>1, <2>3 DEF Cells
  <2>5. ASSUME NEW k \in 0 .. size_info - 1
        PROVE  memory'[r - size_info + k] = <<size + size_info, k>>
    <3>1. start + k \in Cell /\ start + k \in Cells(start, size_info) /\ (start + k) - start = k
      BY <1>0, <2>3 DEF Cell, Cells
    <3> QED
      BY <1>0, <2>1, <2>3, <3>1 DEF putInfo
  <2> QED
    BY <1>0, <2>2, <2>3, <2>4, <2>5 DEF HasInfo
<1>3. ASSUME NEW p \in DOMAIN live, NEW size \in Size, NEW count \in Info(memory, p),
             \/ ReAllocSame(p, size, count) \/ ReAllocShrink(p, size, count)
             \/ ReAllocGrow(p, size, count)
      PROVE  Goal
  <2>1. count = live[p] + size_info
    BY OneReAlloc
  <2>2. /\ live' = live \/ live' = [live EXCEPT ![p] = size]
        /\ HasInfo(memory', p, live'[p] + size_info)
        /\ p + live'[p] < MemSize
        /\ \A c \in map : c < p => c \in map'
    BY <1>3, <2>1, OneInPlace
  <2>3. r = p
    BY <2>2 DEF OneInv, OneBlock
  <2>4. Cells(p - size_info, size_info) \subseteq map'
    BY <1>0, <2>2 DEF Cells
  <2> QED
    BY <2>2, <2>3, <2>4
<1>4. ASSUME NEW p \in DOMAIN live, NEW size \in Size, NEW count \in Info(memory, p),
             ReAllocMove(p, size, count)
      PROVE  Goal
  <2>1. ReAllocMove(p, size, live[p] + size_info)
    BY <1>4, OneReAlloc
  <2>2. PICK start \in Cell :
           /\ start + (size + size_info) < p - size_info \/ start > p + (live[p] + size_info)
           /\ size > live[p] /\ start + (size + size_info) < MemSize
           /\ map' = (map \cup Cells(start, size + size_info)) \ Cells(p, live[p] + size_info)
           /\ memory' = memcpy(putInfo(memory, start, size + size_info), start + size_info, p, live[p])
           /\ \/ live' = Without(live, p)
              \/ live' = With(Without(live, p), start + size_info, size)
    BY <2>1, OneMove
  <2>3. r = start + size_info /\ live'[r] = size
    BY <2>2 DEF Without, With, OneInv, OneBlock
  <2>4. start \in Nat /\ size \in Nat /\ r - size_info = start /\ r + size < MemSize
    BY <1>0, <2>2, <2>3, Numbers, MapAssumption DEF Cell
  <2>5. Cells(r - size_info, size_info) \subseteq map'
    BY <1>0, <2>2, <2>4 DEF Cells
  <2>6. HasInfo(memory', r, size + size_info)
    BY <1>0, <2>2, <2>3, <2>4, MapAssumption, CopyClear
  <2> QED
    BY <2>3, <2>4, <2>5, <2>6
<1>5. ASSUME NEW p \in DOMAIN live, NEW i \in Cell, NEW v \in Value, Write(p, i, v)
      PROVE  Goal
  <2>1. r = p /\ live' = live /\ map' = map
    BY <1>5 DEF Write, OneInv, OneBlock
  <2>2. i \in Nat /\ i < live[p] /\ p + i \in Cell
    BY <1>0, <1>5 DEF Write, Cell
  <2>3. memory' = [memory EXCEPT ![p + i] = v]
    BY <1>5, <2>2 DEF Write
  <2>4. \A k \in 0 .. size_info - 1 : memory'[p - size_info + k] = memory[p - size_info + k]
    BY <1>0, <2>2, <2>3
  <2> QED
    BY <1>0, <2>1, <2>4 DEF HasInfo
<1>6. CASE \/ UNCHANGED vars
           \/ \E size \in Size : AllocThrows(size)
           \/ \E p \in DOMAIN live : \E size \in Size, count \in Info(memory, p) :
                 ReAllocThrows(p, size, count)
  BY <1>1, <1>6 DEF vars, AllocThrows, ReAllocThrows
<1>7. ASSUME NEW p \in DOMAIN live, Free(p) PROVE Goal
  BY <1>7 DEF Free, Without, OneInv, OneBlock
<1> QED
  BY <1>2, <1>3, <1>4, <1>5, <1>6, <1>7 DEF Next, ReAlloc

(* What the user sees. *)
View == [p \in {q \in DOMAIN live : most = 1} |-> [i \in 0 .. live[p] - 1 |-> memory[p + i]]]

(* The block is one that the contract may hand out. *)
BlockFits ==
  \A p \in DOMAIN View :
    /\ View[p] \in [0 .. live[p] - 1 -> Byte]
    /\ Contract!Fits(p, View[p], [q \in {} |-> <<>>])

LEMMA BlockDoesFit ==
  ASSUME IInv, OneInv
  PROVE  BlockFits
<1> SUFFICES ASSUME NEW p \in DOMAIN View
             PROVE  /\ View[p] \in [0 .. live[p] - 1 -> Byte]
                    /\ Contract!Fits(p, View[p], [q \in {} |-> <<>>])
  BY DEF BlockFits
<1>1. /\ p \in DOMAIN live /\ most = 1 /\ View[p] = [i \in 0 .. live[p] - 1 |-> memory[p + i]]
  BY DEF View
<1>2. /\ p \in Int /\ live[p] \in Nat /\ p - size_info >= 0 /\ p + live[p] < MemSize
      /\ size_info \in Nat /\ MemSize \in Nat /\ memory \in [Cell -> Byte]
  BY <1>1, Numbers, MapAssumption DEF IInv, TypeOK, PointersInMemory, OneInv, OneIntact
<1>3. \A i \in 0 .. live[p] - 1 : p + i \in 0 .. MemSize - 1
  BY <1>2
<1>4. View[p] \in [0 .. live[p] - 1 -> Byte] /\ DOMAIN View[p] = 0 .. live[p] - 1
  BY <1>1, <1>2, <1>3 DEF Cell
<1>5. Contract!Extent(p, View[p]) \subseteq 0 .. MemSize - 1
  BY <1>3, <1>4 DEF Contract!Extent
<1> QED
  BY <1>4, <1>5 DEF Contract!Fits

LEMMA RefinesAlloc ==
  ASSUME IInv, IInv', OneInv', most = 1, UNCHANGED most, NEW size \in Size, Alloc(size)
  PROVE  Contract!Next
<1>1. DOMAIN live = {}
  BY NothingHeld DEF Alloc
<1>2. PICK p : DOMAIN live' = {p} /\ live'[p] = size
  BY <1>1 DEF Alloc, With
<1>3. View = [q \in {} |-> <<>>] /\ DOMAIN View' = {p} /\ View' = [q \in {p} |-> View'[q]]
  BY <1>1, <1>2 DEF View
<1>4. BlockFits'
  BY BlockDoesFit, PTL
<1>5. View'[p] \in [0 .. size - 1 -> Byte] /\ Contract!Fits(p, View'[p], View)
  BY <1>2, <1>3, <1>4 DEF BlockFits
<1>6. View' = Contract!With(View, p, View'[p])
  BY <1>3 DEF Contract!With
<1>7. Contract!Alloc(size)
  BY <1>3, <1>5, <1>6 DEF Contract!Alloc, View
<1> QED
  BY <1>7 DEF Contract!Next

(* The block at p has become one at q, with the same bytes. *)
LEMMA RefinesReAlloc ==
  ASSUME IInv', OneInv', most = 1, OneBlock, UNCHANGED most, NEW p \in DOMAIN live, NEW size \in Size,
         NEW q, DOMAIN live' = {q}, live'[q] = size,
         \A i \in Nat : i < size /\ i < live[p] => memory'[q + i] = memory[p + i],
         live[p] \in Nat
  PROVE  Contract!Next
<1>1. /\ DOMAIN View = {p} /\ View[p] = [i \in 0 .. live[p] - 1 |-> memory[p + i]]
      /\ DOMAIN View' = {q} /\ View' = [r \in {q} |-> View'[r]]
      /\ View'[q] = [i \in 0 .. size - 1 |-> memory'[q + i]]
  BY DEF View, OneBlock
<1>2. Contract!Without(View, p) = [r \in {} |-> <<>>]
  BY <1>1 DEF Contract!Without
<1>3. BlockFits'
  BY BlockDoesFit, PTL
<1>4. /\ View'[q] \in [0 .. size - 1 -> Byte]
      /\ Contract!Fits(q, View'[q], Contract!Without(View, p))
  BY <1>1, <1>2, <1>3 DEF BlockFits
<1>5. View' = Contract!With(Contract!Without(View, p), q, View'[q])
  BY <1>1, <1>2 DEF Contract!With
<1>6. \A i \in DOMAIN View'[q] \cap DOMAIN View[p] : View'[q][i] = View[p][i]
  <2>1. size \in Nat
    BY Numbers, MapAssumption
  <2> QED
    BY <1>1, <2>1
<1>7. Contract!ReAlloc(p, size)
  BY <1>1, <1>4, <1>5, <1>6 DEF Contract!ReAlloc, View
<1> QED
  BY <1>1, <1>7 DEF Contract!Next, View

(* The block keeps its place: what is written is its header. *)
LEMMA RefinesInPlace ==
  ASSUME IInv, IInv', OneInv, OneInv', most = 1, UNCHANGED most,
         NEW p \in DOMAIN live, NEW size \in Size,
         \/ ReAllocSame(p, size, live[p] + size_info)
         \/ ReAllocShrink(p, size, live[p] + size_info)
         \/ ReAllocGrow(p, size, live[p] + size_info)
  PROVE  Contract!Next \/ View' = View
<1>1. /\ live' = live \/ live' = [live EXCEPT ![p] = size]
      /\ \A i \in Nat : i < live[p] => memory'[p + i] = memory[p + i]
  BY OneInPlace
<1>2. live[p] \in Nat
  BY Numbers, MapAssumption DEF IInv, TypeOK
<1>3. OneBlock /\ DOMAIN live = {p}
  BY DEF OneInv, OneBlock
<1>4. CASE live' = live
  <2>1. /\ DOMAIN View = {p} /\ View = [q \in {p} |-> [i \in 0 .. live[p] - 1 |-> memory[p + i]]]
        /\ View' = [q \in {p} |-> [i \in 0 .. live[p] - 1 |-> memory'[p + i]]]
    BY <1>3, <1>4 DEF View
  <2>2. \A i \in 0 .. live[p] - 1 : memory'[p + i] = memory[p + i]
    BY <1>1, <1>2
  <2> QED
    BY <2>1, <2>2
<1>5. CASE live' = [live EXCEPT ![p] = size]
  <2>1. DOMAIN live' = {p} /\ live'[p] = size
    BY <1>3, <1>5
  <2> QED
    BY <1>1, <1>2, <1>3, <2>1, RefinesReAlloc
<1> QED
  BY <1>1, <1>4, <1>5

(* The block moves, clear of its old place. *)
LEMMA RefinesMove ==
  ASSUME IInv, IInv', OneInv, OneInv', most = 1, UNCHANGED most,
         NEW p \in DOMAIN live, NEW size \in Size,
         ReAllocMove(p, size, live[p] + size_info)
  PROVE  Contract!Next
<1>1. PICK start \in Cell :
         /\ start + (size + size_info) < p - size_info \/ start > p + (live[p] + size_info)
         /\ size > live[p] /\ start + (size + size_info) < MemSize
         /\ memory' = memcpy(putInfo(memory, start, size + size_info), start + size_info, p, live[p])
         /\ \/ live' = Without(live, p)
            \/ live' = With(Without(live, p), start + size_info, size)
  BY OneMove
<1>2. /\ live[p] \in Nat /\ p \in Nat /\ p + live[p] < MemSize /\ start \in Nat /\ size \in Nat
      /\ OneBlock /\ DOMAIN live = {p}
  <2>1. OneBlock /\ DOMAIN live = {p} /\ p + live[p] < MemSize
    BY DEF OneInv, OneIntact, OneBlock
  <2>2. live[p] \in Nat /\ p \in Nat /\ start \in Nat /\ size \in Nat
    BY Numbers, MapAssumption DEF IInv, TypeOK, PointersInMemory, Cell
  <2> QED
    BY <2>1, <2>2
<1>3. CASE live' = Without(live, p)
  <2>1. View' = Contract!Without(View, p)
    BY <1>2, <1>3 DEF View, Without, Contract!Without
  <2> QED
    BY <2>1 DEF Contract!Next, Contract!Free, View
<1>4. CASE live' = With(Without(live, p), start + size_info, size)
  <2>1. DOMAIN live' = {start + size_info} /\ live'[start + size_info] = size
    BY <1>2, <1>4 DEF With, Without
  <2>2. \A i \in Nat : i < live[p] => memory'[start + size_info + i] = memory[p + i]
    <3> DEFINE n == live[p]
    <3>1. n \in Nat /\ p \in Nat /\ start \in Nat /\ size \in Nat
      BY <1>2
    <3>2. /\ start + (size + size_info) < p - size_info \/ start > p + (n + size_info)
          /\ size > n /\ start + (size + size_info) < MemSize /\ p + n < MemSize
          /\ memory' = memcpy(putInfo(memory, start, size + size_info), start + size_info, p, n)
      BY <1>1, <1>2
    <3> HIDE DEF n
    <3>3. \A i \in Nat : i < n => memory'[start + size_info + i] = memory[p + i]
      BY <3>1, <3>2, MapAssumption, CopyClear
    <3> QED
      BY <3>3 DEF n
  <2> QED
    BY <1>2, <2>1, <2>2, RefinesReAlloc
<1> QED
  BY <1>1, <1>3, <1>4

LEMMA RefinesWrite ==
  ASSUME IInv, OneInv, most = 1, UNCHANGED most,
         NEW p \in DOMAIN live, NEW i \in Cell, NEW v \in Value, Write(p, i, v)
  PROVE  Contract!Next
<1>1. /\ i < live[p] /\ live' = live /\ memory' = [memory EXCEPT ![p + i] = v]
      /\ OneBlock /\ p \in Int /\ live[p] \in Nat /\ p - size_info >= 0 /\ p + live[p] < MemSize
      /\ size_info \in Nat /\ MemSize \in Nat /\ DOMAIN memory = Cell
  <2>1. /\ p \in Int /\ live[p] \in Nat /\ p - size_info >= 0 /\ p + live[p] < MemSize
        /\ size_info \in Nat /\ MemSize \in Nat /\ DOMAIN memory = Cell
        /\ OneBlock /\ i \in Nat
    BY Numbers, MapAssumption DEF IInv, TypeOK, PointersInMemory, OneInv, OneIntact, Cell
  <2>2. i < live[p] /\ p + i \in Cell
    BY <2>1 DEF Write, Cell
  <2> QED
    BY <2>1, <2>2 DEF Write
<1>2. i \in 0 .. live[p] - 1 /\ v \in Byte /\ i \in 0 .. MemSize - 1
  BY <1>1 DEF Cell, Byte
<1>3. /\ DOMAIN View = {p} /\ View = [q \in {p} |-> View[q]]
      /\ View[p] = [j \in 0 .. live[p] - 1 |-> memory[p + j]]
      /\ DOMAIN View' = {p} /\ View' = [q \in {p} |-> View'[q]]
      /\ View'[p] = [j \in 0 .. live[p] - 1 |-> memory'[p + j]]
  BY <1>1 DEF View, OneBlock
<1>4. View'[p] = [View[p] EXCEPT ![i] = v]
  <2>1. \A j \in 0 .. live[p] - 1 : memory'[p + j] = IF j = i THEN v ELSE memory[p + j]
    <3>1. \A j \in 0 .. live[p] - 1 : p + j \in Cell /\ (p + j = p + i <=> j = i)
      BY <1>1, <1>2 DEF Cell
    <3> QED
      BY <1>1, <3>1
  <2>2. View'[p] = [j \in 0 .. live[p] - 1 |-> IF j = i THEN v ELSE memory[p + j]]
    BY <1>3, <2>1
  <2>3. [View[p] EXCEPT ![i] = v] =
          [j \in 0 .. live[p] - 1 |-> IF j = i THEN v ELSE memory[p + j]]
    BY <1>3
  <2> QED
    BY <2>2, <2>3
<1>5. View' = [View EXCEPT ![p] = [View[p] EXCEPT ![i] = v]]
  BY <1>3, <1>4
<1>6. Contract!Write(p, i, v)
  <2>1. i \in DOMAIN View[p]
    BY <1>2, <1>3
  <2> QED
    BY <1>5, <2>1 DEF Contract!Write, View
<1> QED
  BY <1>2, <1>3, <1>6 DEF Contract!Next, View

LEMMA RefinesStep ==
  ASSUME IInv, IInv', OneInv, OneInv', [Next]_vars
  PROVE  Contract!Next \/ View' = View
<1>0. UNCHANGED most
  BY DEF Next, vars
<1>1. CASE most # 1
  BY <1>0, <1>1 DEF View
<1>2. ASSUME live' = live, memory' = memory PROVE View' = View
  BY <1>0, <1>2 DEF View
<1>3. CASE most = 1
  <2>1. ASSUME NEW size \in Size, Alloc(size) PROVE Contract!Next
    BY <1>0, <1>3, <2>1, RefinesAlloc
  <2>2. ASSUME NEW p \in DOMAIN live, NEW size \in Size, NEW count \in Info(memory, p),
               \/ ReAllocSame(p, size, count) \/ ReAllocShrink(p, size, count)
               \/ ReAllocGrow(p, size, count) \/ ReAllocMove(p, size, count)
               \/ ReAllocThrows(p, size, count)
        PROVE  Contract!Next \/ View' = View
    <3>0. count = live[p] + size_info
      BY <1>3, OneReAlloc
    <3>1. CASE ReAllocThrows(p, size, count)
      BY <1>2, <3>1 DEF ReAllocThrows
    <3>2. CASE ReAllocMove(p, size, count)
      BY <1>0, <1>3, <3>0, <3>2, RefinesMove
    <3>3. CASE \/ ReAllocSame(p, size, count) \/ ReAllocShrink(p, size, count)
               \/ ReAllocGrow(p, size, count)
      BY <1>0, <1>3, <3>0, <3>3, RefinesInPlace
    <3> QED
      BY <2>2, <3>1, <3>2, <3>3
  <2>3. ASSUME NEW p \in DOMAIN live, Free(p) PROVE Contract!Next
    <3>1. live' = Without(live, p) /\ memory' = memory
      BY <2>3 DEF Free
    <3>2. View' = Contract!Without(View, p)
      BY <1>0, <3>1 DEF View, Without, Contract!Without
    <3> QED
      BY <1>3, <3>2 DEF Contract!Next, Contract!Free, View
  <2>4. ASSUME NEW p \in DOMAIN live, NEW i \in Cell, NEW v \in Value, Write(p, i, v)
        PROVE  Contract!Next
    BY <1>0, <1>3, <2>4, RefinesWrite
  <2>5. CASE UNCHANGED vars \/ \E size \in Size : AllocThrows(size)
    BY <1>2, <2>5 DEF vars, AllocThrows
  <2> QED
    BY <2>1, <2>2, <2>3, <2>4, <2>5 DEF Next, ReAlloc
<1> QED
  BY <1>1, <1>3

(* A user that holds one block at a time gets what the contract promises,   *)
(* for every size of memory, header and block: Alloc, ReAlloc by any of its *)
(* ways, and Free never lose or change a byte that it has stored.           *)
THEOREM ImplementsContract == Spec => KeepsContract
<1>1. Init => OneInv /\ Contract!Init
  <2>1. Init => OneInv
    BY DEF Init, OneInv, OneBlock, OneIntact
  <2>2. ASSUME Init PROVE View = [p \in {} |-> <<>>]
    BY <2>2 DEF Init, View
  <2> QED
    BY <2>1, <2>2 DEF Contract!Init, View
<1>2. IInv /\ OneInv /\ [Next]_vars => OneInv'
  BY OneBlockKept, OneIntactKept DEF OneInv
<1>3. IInv /\ IInv' /\ OneInv /\ OneInv' /\ [Next]_vars => [Contract!Next]_View
  BY RefinesStep
<1>4. Spec => Contract!Init /\ [][Contract!Next]_View
  BY <1>1, <1>2, <1>3, InvariantHolds, PTL DEF Spec
<1> QED
  BY <1>4, PTL DEF KeepsContract, Contract!Spec, View
=============================================================================
