------------------------------ MODULE Pthreads ------------------------------
(***************************************************************************)
(* The threads of a program of PthreadPrograms: what each call of the      *)
(* library does, and when it makes the caller wait.  Threads run in any    *)
(* order; sleep(4) gives no promise that another thread has run meanwhile. *)
(* A spin lock, a mutex and a read-write lock taken for writing differ in  *)
(* how they wait, not in when.                                             *)
(***************************************************************************)
EXTENDS PthreadPrograms, FiniteSets

CONSTANTS
  Programs,    \* the programs, one of which runs
  Object,      \* the locks, condition variables and barriers they use
  MaxThreads   \* threads that a program has besides main, at most

Operation == {"writepid", "create", "join", "join_checked", "sleep", "lock", "rdlock", "unlock",
              "spin_init", "cond_wait", "signal", "barrier_init", "barrier_wait", "destroy"}

ASSUME PthreadsAssumption ==
  /\ MaxThreads \in Nat
  /\ \A p \in Programs :
       \E n \in 0 .. MaxThreads :
         /\ DOMAIN p = 0 .. n
         /\ p \in [0 .. n -> Seq([op : Operation, on : Object \cup {None},
                                 with : Object \cup {None}, n : 0 .. n])]
         /\ \A t \in 0 .. n : \A k \in 1 .. Len(p[t]) :
              /\ p[t][k].op \in {"lock", "rdlock", "unlock"} => p[t][k].on \in Object
              /\ p[t][k].op = "cond_wait" => p[t][k].with \in Object

VARIABLES
  code,       \* the program that runs
  pc,         \* of each thread: the number of its next call
  created,    \* the threads that exist or have existed
  holds,      \* of each lock: who holds it, for reading or writing
  waiting,    \* the threads that wait for a condition variable
  woken,      \* the threads that wait for the mutex to return with
  lost,       \* has a signal found nobody waiting?
  arrived,    \* the threads that have come to the barrier
  room,       \* how many threads the barrier waits for
  destroyed,  \* the objects destroyed
  returned    \* has main returned, and ended all threads?

vars == <<code, pc, created, holds, waiting, woken, lost, arrived, room, destroyed, returned>>

main == 0
Thread == DOMAIN code

Init ==
  /\ code \in Programs
  /\ pc = [t \in Thread |-> 1]
  /\ created = {main}
  /\ holds = [l \in Object |-> {}]
  /\ waiting = {} /\ woken = {} /\ lost = FALSE
  /\ arrived = {} /\ room = 0
  /\ destroyed = {}
  /\ returned = FALSE

-----------------------------------------------------------------------------
Running(t) == ~returned /\ t \in created /\ pc[t] <= Len(code[t])

Ended(t) == t \in created /\ pc[t] > Len(code[t])

Current(t) == code[t][pc[t]]

At(t, op) == Running(t) /\ Current(t).op = op

return(t) == pc' = [pc EXCEPT ![t] = @ + 1]

(* A mutex, a spin lock, a lock for writing: nobody else holds it. *)
Lock(t) ==
  /\ At(t, "lock") /\ holds[Current(t).on] = {}
  /\ holds' = [holds EXCEPT ![Current(t).on] = {<<t, "write">>}]
  /\ return(t)
  /\ UNCHANGED <<code, created, waiting, woken, lost, arrived, room, destroyed, returned>>

(* A lock for reading: nobody holds it for writing. *)
ReadLock(t) ==
  /\ At(t, "rdlock") /\ \A u \in Thread : <<u, "write">> \notin holds[Current(t).on]
  /\ holds' = [holds EXCEPT ![Current(t).on] = @ \cup {<<t, "read">>}]
  /\ return(t)
  /\ UNCHANGED <<code, created, waiting, woken, lost, arrived, room, destroyed, returned>>

Unlock(t) ==
  /\ At(t, "unlock")
  /\ holds' = [holds EXCEPT ![Current(t).on] = @ \ {<<t, "write">>, <<t, "read">>}]
  /\ return(t)
  /\ UNCHANGED <<code, created, waiting, woken, lost, arrived, room, destroyed, returned>>

(* The mutex is released, whoever holds it, and if nobody does. *)
CondWait(t) ==
  /\ At(t, "cond_wait") /\ t \notin waiting \cup woken
  /\ waiting' = waiting \cup {t}
  /\ holds' = [holds EXCEPT ![Current(t).with] = {}]
  /\ UNCHANGED <<code, pc, created, woken, lost, arrived, room, destroyed, returned>>

WakeUp(t) == waiting' = waiting \ {t} /\ woken' = woken \cup {t}

(* pthread_cond_wait may return without a signal. *)
WakeSpuriously(t) ==
  /\ t \in waiting /\ ~returned
  /\ WakeUp(t)
  /\ UNCHANGED <<code, pc, created, holds, lost, arrived, room, destroyed, returned>>

(* It returns with the mutex locked. *)
CondReturn(t) ==
  /\ t \in woken /\ ~returned /\ holds[Current(t).with] = {}
  /\ woken' = woken \ {t}
  /\ holds' = [holds EXCEPT ![Current(t).with] = {<<t, "write">>}]
  /\ return(t)
  /\ UNCHANGED <<code, created, waiting, lost, arrived, room, destroyed, returned>>

(* A signal wakes one of those that wait at this moment. *)
Signal(t) ==
  /\ At(t, "signal") /\ \E u \in waiting : WakeUp(u)
  /\ return(t)
  /\ UNCHANGED <<code, created, holds, lost, arrived, room, destroyed, returned>>

SignalNobody(t) ==
  /\ At(t, "signal") /\ waiting = {}
  /\ lost' = TRUE
  /\ return(t)
  /\ UNCHANGED <<code, created, holds, waiting, woken, arrived, room, destroyed, returned>>

BarrierInit(t) ==
  /\ At(t, "barrier_init")
  /\ room' = Current(t).n
  /\ return(t)
  /\ UNCHANGED <<code, created, holds, waiting, woken, lost, arrived, destroyed, returned>>

Arrive(t) ==
  /\ At(t, "barrier_wait") /\ t \notin arrived
  /\ arrived' = arrived \cup {t}
  /\ UNCHANGED <<code, pc, created, holds, waiting, woken, lost, room, destroyed, returned>>

PassBarrier(t) ==
  /\ At(t, "barrier_wait") /\ t \in arrived /\ Cardinality(arrived) >= room
  /\ return(t)
  /\ UNCHANGED <<code, created, holds, waiting, woken, lost, arrived, room, destroyed, returned>>

Create(t) ==
  /\ At(t, "create")
  /\ created' = created \cup {Current(t).n}
  /\ return(t)
  /\ UNCHANGED <<code, holds, waiting, woken, lost, arrived, room, destroyed, returned>>

Join(t) ==
  /\ At(t, "join") \/ At(t, "join_checked")
  /\ Ended(Current(t).n)
  /\ return(t)
  /\ UNCHANGED <<code, created, holds, waiting, woken, lost, arrived, room, destroyed, returned>>

Destroy(t) ==
  /\ At(t, "destroy")
  /\ destroyed' = destroyed \cup {Current(t).on}
  /\ return(t)
  /\ UNCHANGED <<code, created, holds, waiting, woken, lost, arrived, room, returned>>

(* Nothing that another thread could see. *)
Proceed(t) ==
  /\ At(t, "writepid") \/ At(t, "spin_init") \/ At(t, "sleep")
  /\ return(t)
  /\ UNCHANGED <<code, created, holds, waiting, woken, lost, arrived, room, destroyed, returned>>

(* The file is not open, or a thread, a spin lock or a barrier cannot be    *)
(* made, or a join fails whose result is looked at: main returns 1, whatever *)
(* it holds and whoever waits.                                              *)
Fail(t) ==
  /\ \/ At(t, "writepid") \/ At(t, "spin_init") \/ At(t, "barrier_init")
     \/ At(t, "create") \/ At(t, "join_checked")
  /\ returned' = TRUE
  /\ UNCHANGED <<code, pc, created, holds, waiting, woken, lost, arrived, room, destroyed>>

(* main has done all: the process ends, with the threads that are left. *)
Return ==
  /\ ~returned /\ Ended(main)
  /\ returned' = TRUE
  /\ UNCHANGED <<code, pc, created, holds, waiting, woken, lost, arrived, room, destroyed>>

Step(t) ==
  \/ Lock(t) \/ ReadLock(t) \/ Unlock(t) \/ CondWait(t) \/ CondReturn(t)
  \/ Signal(t) \/ SignalNobody(t) \/ BarrierInit(t) \/ Arrive(t) \/ PassBarrier(t)
  \/ Create(t) \/ Join(t) \/ Destroy(t) \/ Proceed(t)

Next ==
  \/ \E t \in Thread : Step(t) \/ WakeSpuriously(t) \/ Fail(t)
  \/ Return

Spec == Init /\ [][Next]_vars

(* The system schedules every thread; a lock is asked for once by each, so  *)
(* that one which is free in the end is got.  Nothing makes a wait return   *)
(* that was not signalled.                                                  *)
FairSpec ==
  /\ Spec
  /\ WF_vars(Return)
  /\ \A t \in 0 .. MaxThreads : WF_vars(t \in Thread /\ Step(t))

-----------------------------------------------------------------------------
(* The calls that touch object l. *)
Uses(call, l) == call.op # "destroy" /\ l \in {call.on, call.with}

(* No lock, condition variable or barrier is destroyed while a thread may   *)
(* still come to use it: no thread has such a call before it.               *)
DestroyedUnused ==
  \A l \in destroyed, t \in Thread :
    \A i \in pc[t] .. Len(code[t]) : ~Uses(code[t][i], l)

(* Thread t wants a lock that u holds. *)
WaitsFor(t, u) ==
  \/ At(t, "lock") /\ \E mode \in {"read", "write"} : <<u, mode>> \in holds[Current(t).on]
  \/ At(t, "rdlock") /\ <<u, "write">> \in holds[Current(t).on]
  \/ t \in woken /\ ~returned /\ <<u, "write">> \in holds[Current(t).with]

(* The calls in which a thread may wait for more than a lock. *)
Waits == {"join", "join_checked", "barrier_wait", "cond_wait"}

(* Whoever holds a lock that another thread wants goes on to release it: it *)
(* has not ended and waits for nothing but a lock, and no threads wait for  *)
(* each other all round, so that one of them has what it needs.             *)
HoldersGoOn ==
  /\ \A t, u \in Thread : WaitsFor(t, u) => Running(u) /\ Current(u).op \notin Waits
  /\ \A T \in (SUBSET Thread) \ {{}} : \E t \in T : \A u \in T : ~WaitsFor(t, u)

(* Whatever fails and in whatever order the threads run, the program ends;  *)
(* except that the thread of pthread_cond.cpp may come to wait after the    *)
(* signal, and then main waits for it for ever.                             *)
EndsUnlessSignalLost == <>[]returned \/ <>[](lost /\ waiting # {})
=============================================================================
