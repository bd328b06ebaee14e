------------------------------ MODULE MergeOps ------------------------------
(***************************************************************************)
(* What the merge sorts of the repository have in common: the arrays, the  *)
(* halves of a segment and merge() itself (sort_merge_pthread.cpp, which   *)
(* sort_merge_OpenMP.cpp and sort_merge.cpp repeat).  An array is a        *)
(* function on 0 .. N - 1, a segment [lo, size] the size ints from lo on.  *)
(***************************************************************************)
EXTENDS Integers, Sequences, SequencesExt, FiniteSets

Cells(s) == s.lo .. s.lo + s.size - 1

left_size(s) == s.size \div 2

RightHalfAsLarge(s) == [lo |-> s.lo + left_size(s), size |-> s.size - left_size(s) + 1]

LeftHalf(s)  == [lo |-> s.lo, size |-> left_size(s)]
RightHalf(s) == [lo |-> s.lo + left_size(s), size |-> s.size - left_size(s)]

(* What array a holds in segment s, as a sequence. *)
Content(a, s) == [k \in 1 .. s.size |-> a[s.lo + k - 1]]

(* Array a with the sequence c put into segment s. *)
Put(a, s, c) == [k \in DOMAIN a |-> IF k \in Cells(s) THEN c[k - s.lo + 1] ELSE a[k]]

TakesGreater(l, r, i, j) == i < Len(l) /\ (j < Len(r) => l[i + 1] >= r[j + 1])

(* When i ints of the left half and j of the right one have been written:   *)
(* is the next one from the left?  The lesser one is, the left one if they  *)
(* are equal, and what is left when the other half is used up.              *)
TakesLeft(l, r, i, j) == i < Len(l) /\ (j < Len(r) => l[i + 1] <= r[j + 1])

(* merge: left_taken[k] of the first k ints written are from the left half. *)
merge(l, r) ==
  LET left_taken[k \in 0 .. Len(l) + Len(r)] ==
        IF k = 0 THEN 0
        ELSE IF TakesLeft(l, r, left_taken[k - 1], k - 1 - left_taken[k - 1])
             THEN left_taken[k - 1] + 1
             ELSE left_taken[k - 1]
  IN [k \in 1 .. Len(l) + Len(r) |->
        IF left_taken[k] > left_taken[k - 1] THEN l[left_taken[k]] ELSE r[k - left_taken[k]]]

(* The segments of an array of n ints. *)
SegmentsOf(n) == {s \in [lo : 0 .. n, size : 0 .. n] : s.lo + s.size <= n}

(* mergeSort without threads (sort_merge.cpp), of an array a of n ints: for *)
(* every segment, what result holds there when the call for it returns.  No *)
(* call touches what lies outside its segment, so that a half is what its   *)
(* own call has left there.                                                 *)
mergeSort(a, n) ==
  LET sort[s \in SegmentsOf(n)] ==
        IF s.size = 0 THEN <<>>
        ELSE IF s.size = 1 THEN <<a[s.lo]>>
        ELSE merge(sort[LeftHalf(s)], sort[RightHalf(s)])
  IN sort

-----------------------------------------------------------------------------
(* How often v is in sequence c. *)
Occurrences(c, v) == Cardinality({k \in 1 .. Len(c) : c[k] = v})

(* The reference: segment s of a holds the ints of b's segment, in order.   *)
Sorts(a, b, s) ==
  /\ \A k \in 1 .. s.size - 1 : Content(a, s)[k] <= Content(a, s)[k + 1]
  /\ \A v \in Range(Content(a, s)) \cup Range(Content(b, s)) :
       Occurrences(Content(a, s), v) = Occurrences(Content(b, s), v)
=============================================================================
