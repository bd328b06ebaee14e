-------------------------- MODULE MergeSortPthread --------------------------
(***************************************************************************)
(* mergeSort of sort_merge_pthread.cpp.  A call on more than Threshold     *)
(* ints gives the left half to a new thread, sorts the right half itself   *)
(* and joins the thread; smaller calls sort both halves.  Then the call    *)
(* copies its segment of result back to origin and merges the halves.      *)
(*                                                                         *)
(* The new thread is given a pointer to `data', whose block ends before    *)
(* the thread need have read it.  Where the call for the right half is     *)
(* inlined into its caller its `data' may take the same place on the stack *)
(* (`shared'), so that the thread reads what was put there last, or a part *)
(* of it.  What the program does with an argument read in parts, or when it *)
(* joins a thread that could not be started, the language leaves open: the *)
(* model stops there (`astray'), or goes on as if pthread_join had          *)
(* returned.                                                               *)
(*                                                                         *)
(* A memcpy and a merge are one step each: NoRace says that no other       *)
(* thread can be at a step on the same ints meanwhile.                     *)
(***************************************************************************)
EXTENDS MergeOps

CONSTANTS
  N,            \* how many ints are read from std::cin, at most
  Input,        \* what may be read
  Threshold,    \* 500000 in the code: larger calls start a thread
  ThreadLimit   \* how many threads pthread_create can start

ASSUME SortAssumption ==
  /\ N \in Nat
  /\ \A ints \in Input : \E n \in 0 .. N : ints \in [0 .. n - 1 -> Int]
  /\ Threshold \in Nat \ {0}
  /\ ThreadLimit \in Nat

main == 0

(* The threads, in the order in which they are started. *)
Thread == 1 .. ThreadLimit

(* No thread: pthread_create has failed, or the call has started none. *)
None == -1

VARIABLES
  input,    \* what was read: origin before the sort
  origin,
  result,
  stack,    \* of each thread, its calls of mergeSort, the innermost first
  data,     \* of each thread started, what its argument points at
  state,    \* of each thread: "new", "created", "running" or "ended"
  sound,    \* has every thread been started, and its `data' left alone?
  astray    \* has the program gone where the model does not follow it?

vars == <<input, origin, result, stack, data, state, sound, astray>>

(* The segments of the arrays. *)
Segment == SegmentsOf(N)

(* The whole of the arrays. *)
All == [lo |-> 0, size |-> Cardinality(DOMAIN input)]

(* A call: its segment, the next thing it does, the thread it has started, *)
(* and the threads whose `data' lie where its own would.                   *)
Call(s, shared) ==
  [seg |-> s, pc |-> "left", thread |-> None, shared |-> shared]

(* main calls mergeSort(&origin[0], &ordered[0], origin.size()). *)
Init ==
  /\ input \in Input
  /\ origin = input
  /\ result = [k \in DOMAIN input |-> 0]
  /\ stack = [t \in {main} \cup Thread |->
                IF t = main THEN <<Call(All, {})>> ELSE <<>>]
  /\ data = [t \in Thread |-> [lo |-> 0, size |-> 0]]
  /\ state = [t \in {main} \cup Thread |-> IF t = main THEN "running" ELSE "new"]
  /\ sound = TRUE
  /\ astray = FALSE

-----------------------------------------------------------------------------
top(t) == Head(stack[t])

(* The innermost call of t goes on at pc. *)
goto(t, pc) == <<[top(t) EXCEPT !.pc = pc]>> \o Tail(stack[t])

(* Thread t is in a call, at pc. *)
At(t, pc) == state[t] = "running" /\ stack[t] # <<>> /\ top(t).pc = pc

(* thread_func reads its argument, as it was given or as it was put there   *)
(* last, and calls mergeSort.                                              *)
thread_func(t) ==
  /\ state[t] = "created"
  /\ state' = [state EXCEPT ![t] = "running"]
  /\ stack' = [stack EXCEPT ![t] = <<Call(data[t], {})>>]
  /\ UNCHANGED <<input, origin, result, data, sound, astray>>

(* What the call that started t gave it has been written over meanwhile: of *)
(* origin, result and size t may read some before and some after.           *)
TornRead(t) ==
  /\ state[t] = "created"
  /\ \E u \in {main} \cup Thread : \E f \in ToSet(stack[u]) :
       f.thread = t /\ data[t] # LeftHalf(f.seg)
  /\ astray' = TRUE
  /\ UNCHANGED <<input, origin, result, stack, data, state, sound>>

(* No ints: return.  One int: it is copied. *)
ReturnSmall(t) ==
  /\ At(t, "left") /\ top(t).seg.size <= 1
  /\ result' = IF top(t).seg.size = 1
               THEN [result EXCEPT ![top(t).seg.lo] = origin[top(t).seg.lo]]
               ELSE result
  /\ stack' = [stack EXCEPT ![t] = Tail(@)]
  /\ UNCHANGED <<input, origin, data, state, sound, astray>>

CallLeft(t) ==
  /\ At(t, "left") /\ top(t).seg.size \in 2 .. Threshold
  /\ stack' = [stack EXCEPT ![t] = <<Call(LeftHalf(top(t).seg), {})>> \o goto(t, "right")]
  /\ UNCHANGED <<input, origin, result, data, state, sound, astray>>

(* `data' is filled and its address given to a new thread. *)
StartThread(t) ==
  LET s      == top(t).seg
      shared == top(t).shared
  IN
  /\ At(t, "left") /\ s.size > 1 /\ s.size > Threshold
  /\ \E u \in Thread :
       /\ \A w \in Thread : state[w] = "new" <=> w >= u
       /\ state' = [state EXCEPT ![u] = "created"]
       /\ data' = [w \in Thread |->
                     IF w \in shared \cup {u} THEN LeftHalf(s) ELSE data[w]]
       /\ stack' = [stack EXCEPT ![t] =
                      <<[Head(goto(t, "right")) EXCEPT
                            !.thread = u, !.shared = shared \cup {u}]>> \o Tail(@)]
       /\ sound' = (sound /\ \A w \in shared : state[w] # "created")
  /\ UNCHANGED <<input, origin, result, astray>>

(* pthread_create fails, and nobody looks at what it returns. *)
StartFails(t) ==
  /\ At(t, "left") /\ top(t).seg.size > 1 /\ top(t).seg.size > Threshold
  /\ sound' = FALSE
  /\ data' = [w \in Thread |->
                IF w \in top(t).shared THEN LeftHalf(top(t).seg) ELSE data[w]]
  /\ stack' = [stack EXCEPT ![t] = goto(t, "right")]
  /\ UNCHANGED <<input, origin, result, state, astray>>

CallRightNoJoin(t) ==
  /\ At(t, "right")
  /\ stack' = [stack EXCEPT ![t] = <<Call(RightHalf(top(t).seg), {})>> \o goto(t, "memcpy")]
  /\ UNCHANGED <<input, origin, result, data, state, sound, astray>>

CallRight(t) ==
  /\ At(t, "right")
  /\ \E shared \in {{}, top(t).shared} :
       stack' = [stack EXCEPT ![t] = <<Call(RightHalf(top(t).seg), shared)>> \o goto(t, "join")]
  /\ UNCHANGED <<input, origin, result, data, state, sound, astray>>

(* The innermost call of t is to join a thread, and could not start one. *)
JoinsNobody(t) ==
  At(t, "join") /\ top(t).seg.size > Threshold /\ top(t).thread = None

JoinAll(t) ==
  /\ At(t, "join") /\ ~JoinsNobody(t)
  /\ top(t).thread # None => \A u \in Thread : state[u] \in {"new", "ended"}
  /\ stack' = [stack EXCEPT ![t] = goto(t, "memcpy")]
  /\ UNCHANGED <<input, origin, result, data, state, sound, astray>>

(* Wait for the thread, if the call was to start one. *)
Join(t) ==
  /\ At(t, "join") /\ ~JoinsNobody(t)
  /\ top(t).thread # None => state[top(t).thread] = "ended"
  /\ stack' = [stack EXCEPT ![t] = goto(t, "memcpy")]
  /\ UNCHANGED <<input, origin, result, data, state, sound, astray>>

(* pthread_join with an id that pthread_create has not written: it returns, *)
(* or waits (this is not a step of Step, which is fair), or does something  *)
(* else, such as taking the end of another thread.                          *)
JoinNobody(t) ==
  /\ JoinsNobody(t)
  /\ \/ stack' = [stack EXCEPT ![t] = goto(t, "memcpy")] /\ UNCHANGED astray
     \/ astray' = TRUE /\ UNCHANGED stack
  /\ UNCHANGED <<input, origin, result, data, state, sound>>

Memcpy(t) ==
  /\ At(t, "memcpy")
  /\ origin' = Put(origin, top(t).seg, Content(result, top(t).seg))
  /\ stack' = [stack EXCEPT ![t] = goto(t, "merge")]
  /\ UNCHANGED <<input, result, data, state, sound, astray>>

Merge(t) ==
  LET s == top(t).seg IN
  /\ At(t, "merge")
  /\ result' = Put(result, s, merge(Content(origin, LeftHalf(s)), Content(origin, RightHalf(s))))
  /\ stack' = [stack EXCEPT ![t] = Tail(@)]
  /\ UNCHANGED <<input, origin, data, state, sound, astray>>

(* The outermost call has returned: thread_func returns, main prints. *)
End(t) ==
  /\ state[t] = "running" /\ stack[t] = <<>>
  /\ state' = [state EXCEPT ![t] = "ended"]
  /\ UNCHANGED <<input, origin, result, stack, data, sound, astray>>

Step(t) ==
  \/ ReturnSmall(t) \/ CallLeft(t) \/ StartThread(t) \/ StartFails(t) \/ CallRight(t)
  \/ Join(t) \/ Memcpy(t) \/ Merge(t) \/ End(t)

Next ==
  /\ ~astray
  /\ \/ \E t \in {main} \cup Thread : Step(t) \/ JoinNobody(t)
     \/ \E t \in Thread : thread_func(t) \/ TornRead(t)

Spec == Init /\ [][Next]_vars

(* The system schedules every thread; it need not let a call of            *)
(* pthread_join return that has no thread to wait for.                      *)
FairSpec ==
  /\ Spec
  /\ \A t \in {main} \cup Thread : WF_<<stack, state>>(~astray /\ Step(t))
  /\ \A t \in Thread : WF_state(~astray /\ thread_func(t))

-----------------------------------------------------------------------------
(* The types of the variables; whichever argument a thread has found, as    *)
(* long as it is one, and whichever threads could not be started, no call   *)
(* reaches past the arrays.                                                 *)
TypeOK ==
  /\ input \in Input
  /\ origin \in [DOMAIN input -> Range(input) \cup {0}]
  /\ result \in [DOMAIN input -> Range(input) \cup {0}]
  /\ \A t \in {main} \cup Thread : \A f \in ToSet(stack[t]) :
       /\ f.seg \in Segment /\ Cells(f.seg) \subseteq DOMAIN input
       /\ f.pc \in {"left", "right", "join", "memcpy", "merge"}
       /\ f.thread \in {None} \cup Thread
       /\ f.shared \subseteq Thread
  /\ data \in [Thread -> Segment]
  /\ state \in [{main} \cup Thread -> {"new", "created", "running", "ended"}]
  /\ sound \in BOOLEAN /\ astray \in BOOLEAN

(* The ints that the next step of a thread reads or writes, in origin and   *)
(* in result.                                                               *)
Touches(t) ==
  IF At(t, "memcpy") \/ At(t, "merge") \/ (At(t, "left") /\ top(t).seg.size = 1)
  THEN Cells(top(t).seg)
  ELSE {}

(* No data race, as long as every thread has been started and nothing has   *)
(* been put where a thread has still to read its argument: then no thread   *)
(* reads other data than it was given, no call joins a thread that is not   *)
(* there, and two threads are never at a copy or a merge of the same ints,  *)
(* though no lock protects the arrays.                                      *)
NoRace ==
  sound =>
    /\ ~astray
    /\ \A t, u \in {main} \cup Thread : t # u => Touches(t) \cap Touches(u) = {}

(* main prints the ints it has read, in order, as the program without       *)
(* threads would, and no thread is left.                                    *)
SortedAtEnd ==
  sound /\ state[main] = "ended" =>
    /\ Sorts(result, input, All)
    /\ Content(result, All) = mergeSort(input, All.size)[All]
    /\ \A t \in Thread : state[t] \in {"new", "ended"}

(* The program ends: no call waits for ever for a thread that waits for it  *)
(* or has found other data than it was given, unless the call waits for a   *)
(* thread that could not be started.                                        *)
Ends ==
  \/ <>(state[main] = "ended" \/ astray)
  \/ <>[](\E t \in {main} \cup Thread : JoinsNobody(t))
=============================================================================
