---------------------------- MODULE MapAllocator ----------------------------
(***************************************************************************)
(* SmallAllocator of 2_3/main_map.cpp, and the user that calls it: a bit   *)
(* map says which cells of memory are taken, and the TSize before the data *)
(* of a block (its header) says how many cells the block has, header       *)
(* included.  No call is concurrent with another, so each is one step.     *)
(*                                                                         *)
(* The code marks and frees other cells than those of the block: the       *)
(* operators give the cells it really touches.  Blocks may come to share   *)
(* cells that way, and an address may be handed out twice (the model then  *)
(* follows the younger block).  So headers are overwritten, and ReAlloc    *)
(* and Free go by whatever they then read in front of the pointer.  When a *)
(* copy or a store would leave memory altogether the program is undefined: *)
(* the model stops there.                                                  *)
(***************************************************************************)
EXTENDS Integers, FiniteSets

CONSTANTS
  MemSize,    \* SIZE_MEMORY_ALLOC: cells of memory
  size_info,  \* sizeof(TSize): cells of a header
  MaxCount,   \* the largest TSize
  Size,       \* the sizes the user asks for
  Value,      \* what the user stores in a cell
  Junk,       \* a cell that nobody has written yet
  MaxLive     \* how many blocks a user holds at a time, at most

ASSUME MapAssumption ==
  /\ size_info \in Nat \ {0}
  /\ MemSize \in Nat /\ MemSize >= size_info
  /\ Size \subseteq Nat
  /\ MaxCount \in Nat
  /\ \A size \in Size : MemSize + size + size_info <= MaxCount   \* no sum wraps
  /\ MaxLive \in Nat

VARIABLES
  map,      \* the cells whose bit is set
  memory,   \* char memory[SIZE_MEMORY_ALLOC]
  live,     \* the user's pointers, with the size it asked for
  thrown,   \* the exception that the last call ended with, or "undefined"
  most      \* how many blocks this user holds at a time: one, or MaxLive

vars == <<map, memory, live, thrown, most>>

Cell == 0 .. MemSize - 1

(* A cell holds what the user stored, or the k-th byte of a header's count. *)
Byte == Value \cup {Junk} \cup ((0 .. MaxCount) \X (0 .. size_info - 1))

Cells(start, count) == start .. start + count - 1

Without(f, x) == [y \in DOMAIN f \ {x} |-> f[y]]

With(f, x, v) == [y \in DOMAIN f \cup {x} |-> IF y = x THEN v ELSE f[y]]

-----------------------------------------------------------------------------
isFreePastTheEnd(start, count) == Cells(start, count + 1) \cap map = {}

(* isFree: the loop tests a cell before it looks at the count, so that it  *)
(* wants one free cell more than it is asked for, in the memory.           *)
isFree(start, count) ==
  /\ start + count < MemSize
  /\ Cells(start, count + 1) \cap map = {}

(* getmem: the first cell at which count cells are free. *)
getmem(count, start) ==
  /\ isFree(start, count)
  /\ \A c \in 0 .. start - 1 : ~isFree(c, count)

set_as_busy(m, start, count) == m \cup Cells(start, count)

(* set_as_free: bitset::reset throws out_of_range past the last cell, after *)
(* the cells before have been reset.                                       *)
set_as_free(m, start, count) == m \ Cells(start, count)

OutOfRange(start, count) == start + count > MemSize

(* The header is written in front of the data, and read from there. *)
putInfo(m, start, count) ==
  [c \in DOMAIN m |->
     IF c \in Cells(start, size_info) THEN <<count, c - start>> ELSE m[c]]

HasInfo(m, p, count) ==
  \A k \in 0 .. size_info - 1 : m[p - size_info + k] = <<count, k>>

HeaderIntact(p) == HasInfo(memory, p, live[p] + size_info)

(* *size_block_old, *countFreeCells: the count in front of the data.  Once *)
(* a part of it has been overwritten it is read as any number.             *)
Info(m, p) ==
  LET written == {count \in 0 .. MaxCount : HasInfo(m, p, count)}
  IN IF written = {} THEN 0 .. MaxCount ELSE written

InMemory(start, count) == start >= 0 /\ start + count <= MemSize

memcpy(m, dst, src, n) ==
  [c \in DOMAIN m |-> IF c \in Cells(dst, n) THEN m[src + c - dst] ELSE m[c]]

Init ==
  /\ map = {}
  /\ memory = [c \in Cell |-> Junk]
  /\ live = [p \in {} |-> 0]
  /\ thrown = "nothing"
  /\ most \in {1, MaxLive}

-----------------------------------------------------------------------------
Return == thrown' = "nothing"

Alloc(size) ==
  LET need == size + size_info IN
  /\ Cardinality(DOMAIN live) < most
  /\ \E start \in Cell :
       /\ getmem(need, start)
       /\ map' = set_as_busy(map, start, need)
       /\ memory' = putInfo(memory, start, need)
       /\ live' = With(live, start + size_info, size)
  /\ Return

(* getmem finds nothing: "error alloc", throw bad_alloc. *)
AllocThrows(size) ==
  /\ Cardinality(DOMAIN live) < most
  /\ \A start \in Cell : ~isFree(start, size + size_info)
  /\ thrown' = "bad_alloc"
  /\ UNCHANGED <<map, memory, live>>

(* The block has the size already, by the count read: nothing is done. *)
ReAllocSame(p, size, count) ==
  /\ count = size + size_info
  /\ live' = [live EXCEPT ![p] = size]
  /\ Return
  /\ UNCHANGED <<map, memory>>

(* The block shrinks: as many cells as it loses are freed, from its data on. *)
ReAllocShrink(p, size, count) ==
  LET excess == count - (size + size_info) IN
  /\ excess > 0
  /\ map' = set_as_free(map, p, excess)
  /\ IF OutOfRange(p, excess)
     THEN /\ thrown' = "out_of_range"
          /\ UNCHANGED <<memory, live>>
     ELSE /\ memory' = putInfo(memory, p - size_info, size + size_info)
          /\ live' = [live EXCEPT ![p] = size]
          /\ Return

(* Where ReAlloc looks for the cells to add: as many cells behind the data  *)
(* as the whole block has, header included.                                *)
over_cell(p, count) == p + count

ReAllocGrowHeaderInData(p, size, count) ==
  LET add == size + size_info - count IN
  /\ add > 0
  /\ isFree(over_cell(p, count), add)
  /\ map' = set_as_busy(map, over_cell(p, count), add)
  /\ memory' = putInfo(memory, p, size + size_info)
  /\ live' = [live EXCEPT ![p] = size]
  /\ Return

ReAllocGrowUnmarked(p, size, count) ==
  LET add == size + size_info - count IN
  /\ add > 0
  /\ Cells(over_cell(p, count), add) \cap map = {}
  /\ memory' = putInfo(memory, p - size_info, size + size_info)
  /\ live' = [live EXCEPT ![p] = size]
  /\ Return
  /\ UNCHANGED map

ReAllocGrow(p, size, count) ==
  LET add == size + size_info - count IN
  /\ add > 0
  /\ isFree(over_cell(p, count), add)
  /\ map' = set_as_busy(map, over_cell(p, count), add)
  /\ memory' = putInfo(memory, p - size_info, size + size_info)
  /\ live' = [live EXCEPT ![p] = size]
  /\ Return

(* The block is to be longer, and has no room where it is. *)
MustMove(p, size, count) ==
  LET add == size + size_info - count IN
  add > 0 /\ ~isFree(over_cell(p, count), add)

(* Free's part of the state; the count is read where the data begin. *)
Release(m, p, count) ==
  /\ map' = set_as_free(m, p, count)
  /\ thrown' = IF OutOfRange(p, count) THEN "out_of_range" ELSE "nothing"

(* ReAlloc by Alloc, memcpy and Free.  The count of the old block is read   *)
(* again after Alloc has run, for the copy, and after the copy, by Free.    *)
(* A count smaller than a header makes the number of bytes to copy wrap.    *)
ReAllocMove(p, size, count) ==
  LET need == size + size_info IN
  /\ MustMove(p, size, count)
  /\ \E start \in Cell :
       LET q      == start + size_info
           placed == putInfo(memory, start, need)
       IN
       /\ getmem(need, start)
       /\ \E old \in Info(placed, p) :
            LET n     == old - size_info
                moved == memcpy(placed, q, p, n)
            IN
            IF n < 0 \/ ~InMemory(p, n) \/ ~InMemory(q, n)
            THEN /\ thrown' = "undefined"
                 /\ UNCHANGED <<map, memory, live>>
            ELSE \E freed \in Info(moved, p) :
                   /\ Release(set_as_busy(map, start, need), p, freed)
                   /\ memory' = moved
                   /\ live' = IF OutOfRange(p, freed) THEN Without(live, p)
                              ELSE With(Without(live, p), q, size)

ReAllocThrows(p, size, count) ==
  /\ MustMove(p, size, count)
  /\ \A start \in Cell : ~isFree(start, size + size_info)
  /\ thrown' = "bad_alloc"
  /\ UNCHANGED <<map, memory, live>>

ReAlloc(p, size) ==
  \E count \in Info(memory, p) :
    \/ ReAllocSame(p, size, count)
    \/ ReAllocShrink(p, size, count)
    \/ ReAllocGrow(p, size, count)
    \/ ReAllocMove(p, size, count)
    \/ ReAllocThrows(p, size, count)

Free(p) ==
  /\ \E count \in Info(memory, p) : Release(map, p, count)
  /\ live' = Without(live, p)
  /\ UNCHANGED memory

(* The user stores a byte through a pointer it holds; ReAlloc has let it    *)
(* believe, perhaps, that its block reaches further than memory.            *)
Write(p, i, v) ==
  /\ i < live[p]
  /\ IF p + i \in Cell
     THEN memory' = [memory EXCEPT ![p + i] = v] /\ Return
     ELSE thrown' = "undefined" /\ UNCHANGED memory
  /\ UNCHANGED <<map, live>>

(* Nobody catches std::out_of_range; a caller may go on after bad_alloc. *)
Next ==
  /\ thrown \notin {"out_of_range", "undefined"}
  /\ UNCHANGED most
  /\ \/ \E size \in Size : Alloc(size) \/ AllocThrows(size)
     \/ \E p \in DOMAIN live :
          \/ \E size \in Size : ReAlloc(p, size)
          \/ Free(p)
          \/ \E i \in Cell, v \in Value : Write(p, i, v)

Spec == Init /\ [][Next]_vars

-----------------------------------------------------------------------------
(* The types of the variables; all marked cells are cells of memory. *)
TypeOK ==
  /\ map \subseteq Cell
  /\ memory \in [Cell -> Byte]
  /\ DOMAIN live \subseteq 0 .. MemSize /\ live \in [DOMAIN live -> Size]
  /\ thrown \in {"nothing", "bad_alloc", "out_of_range", "undefined"}
  /\ most \in {1, MaxLive}

(* However the blocks have been resized and moved, and whatever cells were  *)
(* marked for them: no call lets a block reach past memory (header and all  *)
(* the bytes that the user may write) unless, when ReAlloc was called for   *)
(* it, its header had been overwritten.  Then it may: a large number read   *)
(* there makes ReAlloc take the block to be long enough.                    *)
DataInMemory ==
  [][\A p \in DOMAIN live' :
       \/ InMemory(p - size_info, size_info + live'[p])
       \/ /\ p \in DOMAIN live
          /\ ~HeaderIntact(p) \/ ~InMemory(p - size_info, size_info + live[p])]_vars

(* What an allocator promises (AllocatorContract): the user's bytes stay as *)
(* stored, ReAlloc keeps the common prefix, no call moves another block.    *)
(* It is kept for a user that holds one block at a time.                   *)
Contract == INSTANCE AllocatorContract WITH
  blocks <- [p \in {q \in DOMAIN live : most = 1} |-> [i \in 0 .. live[p] - 1 |-> memory[p + i]]]

KeepsContract == Contract!Spec

-----------------------------------------------------------------------------
(* What comments of the source say of it, and what it does not do.         *)

(* "space P2[0:10] is const" (l.144, l.148): what the user stores through   *)
(* one pointer it holds does not change the bytes of another block.         *)
OtherBlockConst ==
  [][\A p \in DOMAIN live, i \in Cell, v \in Value :
       Write(p, i, v)
         => \A q \in DOMAIN live \ {p} :
              \A c \in Cells(q, live[q]) \cap Cell : memory'[c] = memory[c]]_vars

(* "memory lacked" (l.42): Alloc throws only if there is no row of as many  *)
(* free cells as it needs.                                                  *)
ThrowsOnlyIfMemoryLacked ==
  [][\A size \in Size :
       AllocThrows(size)
         => ~\E start \in Cell :
               /\ start + size + size_info <= MemSize
               /\ Cells(start, size + size_info) \cap map = {}]_vars
=============================================================================
