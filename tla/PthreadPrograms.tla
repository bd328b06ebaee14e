-------------------------- MODULE PthreadPrograms --------------------------
(***************************************************************************)
(* The programs that show how threads wait: pthread_mutex.cpp,             *)
(* pthread_cond.cpp and pthread_main.cpp, each as the calls that main (0)  *)
(* and its threads (1, 2, ...) make one after the other.  Module Pthreads  *)
(* says what a call does.  There are no branches but those of a call that  *)
(* fails, on which main returns 1.                                         *)
(***************************************************************************)
EXTENDS Naturals, Sequences

None == "none"

(* A call: what it is, the object it is given, the mutex that goes with it, *)
(* and a number: a thread, or how many threads a barrier waits for.         *)
Instr(op, object, mutex, n) == [op |-> op, on |-> object, with |-> mutex, n |-> n]

Call(op, object) == Instr(op, object, None, 0)

create_thread(t) == Instr("create", None, None, t)
joinButTheLast(t) ==
  IF t = 4 THEN Call("sleep", None) ELSE Instr("join", None, None, t)

join(t) == Instr("join", None, None, t)

(* What the threads of a program run: main and the functions of the others. *)
Program(main, functions) ==
  [t \in 0 .. Len(functions) |-> IF t = 0 THEN main ELSE functions[t]]

(* The program writes its number to a file, which it may not be able to open.*)
writepid == Call("writepid", None)

-----------------------------------------------------------------------------
(* pthread_mutex.cpp: main takes a lock of each kind and creates a thread    *)
(* that wants it.                                                            *)
f_wait_mutex    == <<Call("lock", "mutex"), Call("unlock", "mutex")>>
f_wait_spinlock == <<Call("lock", "spinlock"), Call("unlock", "spinlock")>>
f_wait_rlock    == <<Call("rdlock", "rlock"), Call("unlock", "rlock")>>
f_wait_wlock    == <<Call("lock", "wlock"), Call("unlock", "wlock")>>

spinlock_init == Call("spin_init", "spinlock")

unlock_wlockNot == Call("unlock", "rlock")

unlock_wlock == Call("unlock", "wlock")

main_mutex ==
  <<writepid,
    Call("lock", "mutex"), create_thread(1),
    spinlock_init, Call("lock", "spinlock"), create_thread(2),
    Call("rdlock", "rlock"), create_thread(3),
    Call("lock", "wlock"), create_thread(4),
    Call("sleep", None),
    Call("unlock", "mutex"), Call("unlock", "spinlock"), Call("unlock", "rlock"), unlock_wlock,
    join(1), join(2), join(3), join(4),
    Call("destroy", "wlock"), Call("destroy", "rlock"),
    Call("destroy", "spinlock"), Call("destroy", "mutex")>>

MutexProgram ==
  Program(main_mutex, <<f_wait_mutex, f_wait_spinlock, f_wait_rlock, f_wait_wlock>>)

-----------------------------------------------------------------------------
(* pthread_cond.cpp: one thread waits for a signal, without the mutex and    *)
(* without a condition to look at, another one at a barrier.                 *)
f_wait_cond    == <<Instr("cond_wait", "cond", "mutex", 0)>>
f_wait_barrier == <<Call("barrier_wait", "barrier")>>

barrier_initForBoth == Instr("barrier_init", "barrier", None, 2)

barrier_init == Instr("barrier_init", "barrier", None, 1)

main_cond ==
  <<writepid, create_thread(1), barrier_init, create_thread(2), Call("sleep", None),
    Call("signal", "cond"), join(1), join(2),
    Call("destroy", "barrier"), Call("destroy", "mutex"), Call("destroy", "cond")>>

CondProgram == Program(main_cond, <<f_wait_cond, f_wait_barrier>>)

-----------------------------------------------------------------------------
(* pthread_main.cpp: a thread that does nothing; here main looks at what      *)
(* pthread_join returns.                                                     *)
thread_func == <<>>

main_create == <<writepid, create_thread(1), Instr("join_checked", None, None, 1)>>

CreateProgram == Program(main_create, <<thread_func>>)
=============================================================================
