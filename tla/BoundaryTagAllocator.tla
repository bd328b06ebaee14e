------------------------ MODULE BoundaryTagAllocator ------------------------
(***************************************************************************)
(* NS3::SmallAllocator of 2_3/test.cpp, and the user that calls it: memory *)
(* is a row of segments, each with a tag at its start and at its end; the  *)
(* start tags of the free ones are linked, from a tag at address 0 on.     *)
(* The tags lie in the memory that the user writes to.                     *)
(*                                                                         *)
(* A call is a walk along the free list: the loop of Alloc, and that of    *)
(* Free if the segment is to be appended, make one iteration per step.     *)
(* ReAlloc(NULL, n) and Free(NULL) do nothing and are left out.            *)
(***************************************************************************)
EXTENDS Integers

CONSTANTS
  MemSize,    \* sizeof(Memory)
  StartSize,  \* sizeof(StarSegmentStr)
  EndSize,    \* sizeof(EndSegmentStr)
  Size,       \* the sizes the user asks for
  Value,      \* what the user stores in a cell
  Junk,       \* bits that nobody has written yet
  Part        \* a cell of a tag that is not its first one

ASSUME TagAssumption ==
  /\ StartSize \in Nat \ {0} /\ EndSize \in Nat \ {0}
  /\ MemSize \in Nat /\ MemSize >= 2 * StartSize + EndSize
  /\ Size \subseteq Nat

VARIABLES
  memory,  \* char Memory[1000]: the first cell of a tag holds all of it
  live,    \* the user's pointers, with the size it asked for
  call,    \* the call in progress
  stack    \* does the user free the block that it got last, and no other?

vars == <<memory, live, call, stack>>

Address == 0 .. MemSize - 1

(* The list starts at the tag at Head; the first segment lies behind it. *)
Head == 0
FirstSegment == StartSize

(* Address 0 is that of Head: it stands for NULL, and for the end of the list. *)
NULL == 0

StartTag == [isFree : BOOLEAN, size : 0 .. MemSize,
             prev : Address \cup {Junk}, next : Address \cup {Junk}]
EndTag == [isFree : BOOLEAN, size : 0 .. MemSize]

Byte == Value \cup {Junk}

NoCall == [pc |-> "none", at |-> Head, size |-> 0, result |-> NULL, old |-> NULL, block |-> NULL]

Without(f, x) == [y \in DOMAIN f \ {x} |-> f[y]]

With(f, x, v) == [y \in DOMAIN f \cup {x} |-> IF y = x THEN v ELSE f[y]]

-----------------------------------------------------------------------------
DataOf(s) == s + StartSize

(* endSegmentStr: the tag behind the data. *)
EndOf(m, s) == DataOf(s) + m[s].size

Put(m, a, width, tag) ==
  [c \in DOMAIN m |-> IF c = a THEN tag
                      ELSE IF c \in a + 1 .. a + width - 1 THEN Part ELSE m[c]]

PutStart(m, a, tag) == Put(m, a, StartSize, tag)
PutEnd(m, a, tag) == Put(m, a, EndSize, tag)

UnlinkForwardOnly(m, s) == [m EXCEPT ![m[s].prev].next = m[s].next]

(* A segment is taken out of the free list. *)
Unlink(m, s) ==
  LET forward == [m EXCEPT ![m[s].prev].next = m[s].next]
  IN  IF m[s].next = NULL THEN forward
      ELSE [forward EXCEPT ![m[s].next].prev = m[s].prev]

(* Memory that nobody holds: what is left there of data and of tags is not *)
(* kept by the model, as nothing may depend on it.                         *)
Forget(m, from, to) == [c \in DOMAIN m |-> IF c \in from .. to THEN Junk ELSE m[c]]

(* Neighbours become one segment: s grows up to the end tag at e. *)
Grow(m, s, count, e) ==
  LET size == m[s].size + count
  IN  Forget([m EXCEPT ![s].size = size, ![e].size = size], DataOf(s), e - 1)

memcpy(m, dst, src, n) ==
  [c \in DOMAIN m |-> IF c \in dst .. dst + n - 1 THEN m[src + c - dst] ELSE m[c]]

(* The constructor: the head of the list, and one free segment. *)
Init ==
  LET size == MemSize - (2 * StartSize + EndSize)
      empty == [a \in Address |-> Junk]
      head  == PutStart(empty, Head,
                 [isFree |-> TRUE, size |-> MemSize - StartSize,
                  prev |-> NULL, next |-> FirstSegment])
      first == PutStart(head, FirstSegment,
                 [isFree |-> TRUE, size |-> size, prev |-> NULL, next |-> NULL])
  IN
  /\ memory = PutEnd(first, MemSize - EndSize, [isFree |-> TRUE, size |-> size])
  /\ live = [p \in {} |-> 0]
  /\ call = NoCall
  /\ stack \in BOOLEAN

-----------------------------------------------------------------------------
Alloc(size) ==
  /\ call = NoCall
  /\ call' = [NoCall EXCEPT !.pc = "alloc", !.size = size]
  /\ UNCHANGED <<memory, live, stack>>

(* The loop of Alloc comes to free segment s. *)
Visits(s) == call.pc = "alloc" /\ s = memory[call.at].next /\ s # NULL

FitsStrictly(s, size) == memory[s].size > size

Fits(s, size) == memory[s].size >= size

(* At least a minimal free block can be left. *)
LeavesFree(s, size) == memory[s].size >= size + StartSize + EndSize + 1

Pass(s) ==
  /\ Visits(s) /\ ~Fits(s, call.size)
  /\ call' = [call EXCEPT !.at = s]
  /\ UNCHANGED <<memory, live, stack>>

TakePartOldEnd(s) ==
  LET OffsetForAlloc == memory[s].size - (call.size + StartSize)
      NewFreeSize    == OffsetForAlloc - EndSize
      start          == DataOf(s) + OffsetForAlloc
      taken == PutStart(memory, start,
                 [isFree |-> FALSE, size |-> call.size, prev |-> Junk, next |-> Junk])
      left  == PutEnd(taken, DataOf(s) + NewFreeSize,
                 [isFree |-> TRUE, size |-> NewFreeSize])
  IN
  /\ Visits(s) /\ LeavesFree(s, call.size)
  /\ memory' = [left EXCEPT ![s].size = NewFreeSize,
                            ![EndOf(memory, s)].isFree = FALSE]
  /\ call' = [call EXCEPT !.at = s, !.result = DataOf(start)]
  /\ UNCHANGED <<live, stack>>

(* The end of s is taken.  There is no break: the loop goes on, takes of    *)
(* every other segment that fits as well, and returns the last.            *)
TakePart(s) ==
  LET OffsetForAlloc == memory[s].size - (call.size + StartSize)
      NewFreeSize    == OffsetForAlloc - EndSize
      start          == DataOf(s) + OffsetForAlloc
      taken == PutStart(memory, start,
                 [isFree |-> FALSE, size |-> call.size, prev |-> Junk, next |-> Junk])
      ended == PutEnd(taken, EndOf(memory, s), [isFree |-> FALSE, size |-> call.size])
      left  == PutEnd(ended, DataOf(s) + NewFreeSize,
                 [isFree |-> TRUE, size |-> NewFreeSize])
  IN
  /\ Visits(s) /\ LeavesFree(s, call.size)
  /\ memory' = [left EXCEPT ![s].size = NewFreeSize]
  /\ call' = [call EXCEPT !.at = s, !.result = DataOf(start)]
  /\ UNCHANGED <<live, stack>>

(* The whole of s is given away, with what is too much of it. *)
TakeWhole(s) ==
  LET ended == [memory EXCEPT ![EndOf(memory, s)].isFree = FALSE] IN
  /\ Visits(s) /\ Fits(s, call.size) /\ ~LeavesFree(s, call.size)
  /\ memory' = [Unlink(ended, s) EXCEPT ![s].isFree = FALSE]
  /\ call' = [call EXCEPT !.at = s, !.result = DataOf(s)]
  /\ UNCHANGED <<live, stack>>

-----------------------------------------------------------------------------
HasRight(e) == MemSize - e >= EndSize + StartSize

(* The segment behind the end tag at e is joined to s if it is free. *)
JoinRight(m, s, e) ==
  LET right == e + EndSize IN
  IF HasRight(e) /\ m[right].isFree
  THEN Grow(Unlink(m, right), s, EndSize + StartSize + m[right].size, EndOf(m, right))
  ELSE m

HasFreeLeft(m, s) == s # FirstSegment /\ m[s - EndSize].isFree

LeftOf(m, s) == s - EndSize - m[s - EndSize].size - StartSize

(* Free on the memory m: the segment is joined to a free one on its left,   *)
(* or else must be appended to the list.                                   *)
StartFreeKeepsEndTag(m, p) ==
  LET s      == p - StartSize
      e      == EndOf(m, s)
      marked == Forget([m EXCEPT ![s].isFree = TRUE], p, e - 1)
      left   == LeftOf(marked, s)
  IN  IF HasFreeLeft(marked, s)
      THEN /\ memory' = JoinRight(Grow(marked, left, m[s].size + EndSize + StartSize, e), left, e)
           /\ call' = NoCall
      ELSE /\ memory' = marked
           /\ call' = [NoCall EXCEPT !.pc = "free", !.block = s]

StartFree(m, p) ==
  LET s      == p - StartSize
      e      == EndOf(m, s)
      marked == Forget([m EXCEPT ![s].isFree = TRUE, ![e].isFree = TRUE], p, e - 1)
      left   == LeftOf(marked, s)
  IN  IF HasFreeLeft(marked, s)
      THEN /\ memory' = JoinRight(Grow(marked, left, m[s].size + EndSize + StartSize, e), left, e)
           /\ call' = NoCall
      ELSE /\ memory' = marked
           /\ call' = [NoCall EXCEPT !.pc = "free", !.block = s]

WalkRestarts ==
  /\ call.pc = "free" /\ memory[call.at].next # NULL
  /\ call' = [call EXCEPT !.at = memory[Head].next]
  /\ UNCHANGED <<memory, live, stack>>

(* Free looks for the end of the list ... *)
Walk ==
  /\ call.pc = "free" /\ memory[call.at].next # NULL
  /\ call' = [call EXCEPT !.at = memory[call.at].next]
  /\ UNCHANGED <<memory, live, stack>>

AppendWithoutJoin ==
  /\ call.pc = "free" /\ memory[call.at].next = NULL
  /\ memory' = [memory EXCEPT ![call.at].next = call.block,
                              ![call.block].prev = call.at, ![call.block].next = NULL]
  /\ call' = NoCall
  /\ UNCHANGED <<live, stack>>

(* ... appends the segment, and joins the one on its right. *)
Append ==
  LET linked == [memory EXCEPT ![call.at].next = call.block,
                               ![call.block].prev = call.at, ![call.block].next = NULL]
  IN
  /\ call.pc = "free" /\ memory[call.at].next = NULL
  /\ memory' = JoinRight(linked, call.block, EndOf(memory, call.block))
  /\ call' = NoCall
  /\ UNCHANGED <<live, stack>>

Free(p) ==
  /\ call = NoCall
  /\ stack => \A q \in DOMAIN live : p <= q
  /\ StartFree(memory, p)
  /\ live' = Without(live, p)
  /\ UNCHANGED stack

(* ReAlloc(p, 0) is Free. *)
ReAlloc(p, size) ==
  /\ call = NoCall /\ ~stack
  /\ IF size > 0
     THEN /\ call' = [NoCall EXCEPT !.pc = "alloc", !.size = size, !.old = p]
          /\ UNCHANGED <<memory, live>>
     ELSE /\ StartFree(memory, p)
          /\ live' = Without(live, p)
  /\ UNCHANGED stack

AllocEnds == call.pc = "alloc" /\ memory[call.at].next = NULL

(* NULL; ReAlloc then leaves the old block alone. *)
ReturnNull ==
  /\ AllocEnds /\ call.result = NULL
  /\ call' = NoCall
  /\ UNCHANGED <<memory, live, stack>>

ReturnResult ==
  /\ AllocEnds /\ call.result # NULL /\ call.old = NULL
  /\ live' = With(live, call.result, call.size)
  /\ call' = NoCall
  /\ UNCHANGED <<memory, stack>>

CopyButLast ==
  LET old      == memory[call.old - StartSize].size
      CopySize == IF call.size <= old THEN call.size ELSE old
  IN
  /\ AllocEnds /\ call.result # NULL /\ call.old # NULL
  /\ StartFree(memcpy(memory, call.result, call.old, CopySize - 1), call.old)
  /\ live' = With(Without(live, call.old), call.result, call.size)
  /\ UNCHANGED stack

(* ReAlloc copies what both blocks can hold, and frees the old one. *)
Copy ==
  LET old      == memory[call.old - StartSize].size
      CopySize == IF call.size <= old THEN call.size ELSE old
  IN
  /\ AllocEnds /\ call.result # NULL /\ call.old # NULL
  /\ StartFree(memcpy(memory, call.result, call.old, CopySize), call.old)
  /\ live' = With(Without(live, call.old), call.result, call.size)
  /\ UNCHANGED stack

(* The user stores a byte through a pointer it holds. *)
Write(p, i, v) ==
  /\ call = NoCall
  /\ i < live[p]
  /\ memory' = [memory EXCEPT ![p + i] = v]
  /\ UNCHANGED <<live, call, stack>>

-----------------------------------------------------------------------------
CallStep ==
  \/ \E s \in Address : Pass(s) \/ TakePart(s) \/ TakeWhole(s)
  \/ ReturnNull \/ ReturnResult \/ Copy
  \/ Walk \/ Append

UserStep ==
  \/ \E size \in Size : Alloc(size)
  \/ \E p \in DOMAIN live :
       \/ \E size \in Size : ReAlloc(p, size)
       \/ Free(p)
       \/ \E i \in Address, v \in Value : Write(p, i, v)

Next == CallStep \/ UserStep

Spec == Init /\ [][Next]_vars

(* A call runs until it returns; the user owes nothing. *)
FairSpec == Spec /\ WF_call(CallStep)

-----------------------------------------------------------------------------
IsStart(s) == s \in Address /\ memory[s] \in StartTag

(* The segments, from the first one on, each behind the end tag of another. *)
Segments ==
  LET from[a \in 0 .. 3 * MemSize] ==
        IF IsStart(a) THEN {a} \cup from[EndOf(memory, a) + EndSize] ELSE {}
  IN from[FirstSegment]

FreeSegments == {s \in Segments : memory[s].isFree}

(* However often segments are cut and joined, and whatever the user writes, *)
(* from tag to tag one comes to the end of memory, and the two tags of a    *)
(* segment agree: this is what Free finds its neighbours by.                *)
TagsAgree ==
  /\ \E s \in Segments : EndOf(memory, s) + EndSize = MemSize
  /\ \A s \in Segments :
       memory[EndOf(memory, s)] = [isFree |-> memory[s].isFree, size |-> memory[s].size]

(* The list links exactly the segments marked free, but for the one that    *)
(* Free is about to append, and its links mirror each other.                *)
FreeListOK ==
  LET listed == FreeSegments \ (IF call.pc = "free" THEN {call.block} ELSE {}) IN
  /\ \A s \in listed : memory[memory[s].prev].next = s
  /\ \A s \in listed \cup {Head} :
       memory[s].next # NULL =>
         memory[s].next \in listed /\ memory[memory[s].next].prev = s

(* Between calls no two neighbours are both free: Free joins on both sides, *)
(* whatever order blocks are freed in.                                      *)
FreeMemoryCoalesced ==
  call = NoCall => \A s \in FreeSegments : EndOf(memory, s) + EndSize \notin FreeSegments

(* Alloc returns NULL only if no free segment is large enough.              *)
FailsOnlyWhenNothingFits ==
  [][ReturnNull => \A s \in FreeSegments : memory[s].size < call.size]_vars

(* A user that frees its blocks in the reverse order, and does not call     *)
(* ReAlloc, loses no memory, although the loop of Alloc has no break: all   *)
(* segments are its blocks, but for one that is free.  (Other users lose    *)
(* what Alloc takes before the segment that it returns.)                    *)
NoLeak ==
  stack /\ call = NoCall =>
    /\ \A s \in Segments : memory[s].isFree \/ DataOf(s) \in DOMAIN live
    /\ \A s, t \in FreeSegments : s = t

(* Every call returns: the free list has an end. *)
CallReturns == (call # NoCall) ~> (call = NoCall)

(* What the user sees: the pointers it holds, and what it has stored there. *)
Contract == INSTANCE AllocatorContract WITH
  blocks <- [p \in DOMAIN live |->
               [i \in 0 .. live[p] - 1 |->
                  IF memory[p + i] \in Value THEN memory[p + i] ELSE Junk]]

(* The allocator promises what the other two do (AllocatorContract), though *)
(* it loses memory.                                                         *)
KeepsContract == Contract!Spec
=============================================================================
