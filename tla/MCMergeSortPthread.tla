------------------------- MODULE MCMergeSortPthread -------------------------
(* Instances of MergeSortPthread for TLC: up to four ints of two values in *)
(* every order, and six, where a thread starts a thread, in some orders.   *)
EXTENDS MergeSortPthread

FewInts == UNION {[0 .. n - 1 -> {1, 2}] : n \in 0 .. 4}

SixInts == {[k \in 0 .. 5 |-> 6 - k],               \* the reverse order
            [k \in 0 .. 5 |-> 1 + (k % 2)],           \* with duplicates
            [k \in 0 .. 5 |-> 1 + ((k + 3) % 6)]}     \* halves exchanged

SomeInputs == FewInts \cup SixInts
=============================================================================
