--------------------------- MODULE PthreadsProofs ---------------------------
(***************************************************************************)
(* For every program of which four things can be read off its text         *)
(* (Disciplined), in whatever order its threads run and whatever fails:    *)
(* nothing is destroyed while a thread may still use it, and who holds a   *)
(* lock that somebody wants goes on to release it: it waits for no more    *)
(* than a lock, and the threads that wait for locks do not wait for each   *)
(* other all round.  The three programs of the repository are such.        *)
(***************************************************************************)
EXTENDS Pthreads, WellFoundedInduction, TLAPS

(* Only main destroys, after it has joined the threads that use the object, *)
(* and it does not use the object itself any more.                         *)
JoinsBeforeDestroy(c) ==
  /\ \A t \in DOMAIN c \ {main} : \A k \in 1 .. Len(c[t]) : c[t][k].op # "destroy"
  /\ \A i \in 1 .. Len(c[main]) : c[main][i].op = "destroy" =>
       /\ \A t \in DOMAIN c \ {main} : \A k \in 1 .. Len(c[t]) :
            Uses(c[t][k], c[main][i].on) =>
              \E j \in 1 .. i - 1 : c[main][j].op = "join" /\ c[main][j].n = t
       /\ \A j \in i + 1 .. Len(c[main]) : ~Uses(c[main][j], c[main][i].on)

(* The calls that take lock l, but for the end of a wait. *)
Acquires(call, l) == call.op \in {"lock", "rdlock"} /\ call.on = l

(* A lock that is taken is released by the same thread, which before that    *)
(* waits for nothing but locks.                                            *)
Releases(c) ==
  \A t \in DOMAIN c : \A j \in 1 .. Len(c[t]) :
    c[t][j].op \in {"lock", "rdlock"} =>
      \E k \in j + 1 .. Len(c[t]) :
        /\ c[t][k].op = "unlock" /\ c[t][k].on = c[t][j].on
        /\ \A m \in j + 1 .. k - 1 : c[t][m].op \notin Waits

(* Call i of thread t takes a lock that the thread still has at call j.     *)
Keeps(c, t, i, j) ==
  /\ c[t][i].op \in {"lock", "rdlock"}
  /\ \A k \in i + 1 .. j - 1 : ~(c[t][k].op = "unlock" /\ c[t][k].on = c[t][i].on)

(* The locks have an order: a thread that has one takes only lower ones.     *)
LocksInOrder(c) ==
  \E rank \in [Object -> Nat] :
    \A t \in DOMAIN c : \A j \in 1 .. Len(c[t]) : \A i \in 1 .. j - 1 :
      c[t][j].op \in {"lock", "rdlock"} /\ Keeps(c, t, i, j) => rank[c[t][j].on] < rank[c[t][i].on]

(* Nobody else takes the mutex with which a thread waits for a condition. *)
CondMutexPrivate(c) ==
  \A t, u \in DOMAIN c : \A j \in 1 .. Len(c[t]) : \A k \in 1 .. Len(c[u]) :
    c[t][j].op = "cond_wait" =>
      /\ ~Acquires(c[u][k], c[t][j].with)
      /\ c[u][k].op = "cond_wait" /\ c[u][k].with = c[t][j].with => u = t /\ k = j

Disciplined(c) ==
  JoinsBeforeDestroy(c) /\ Releases(c) /\ LocksInOrder(c) /\ CondMutexPrivate(c)

-----------------------------------------------------------------------------
(* What the assumption says of a program: main is there, calls name threads  *)
(* and objects that exist.                                                  *)
LEMMA ProgramShape ==
  ASSUME NEW p \in Programs
  PROVE  /\ main \in DOMAIN p
         /\ \A t \in DOMAIN p : Len(p[t]) \in Nat
         /\ \A t \in DOMAIN p : \A k \in 1 .. Len(p[t]) :
              /\ p[t][k].n \in DOMAIN p
              /\ p[t][k].op \in {"lock", "rdlock"} => p[t][k].on \in Object
              /\ p[t][k].op = "cond_wait" => p[t][k].with \in Object
<1>1. PICK n \in 0 .. MaxThreads :
         /\ DOMAIN p = 0 .. n
         /\ p \in [0 .. n -> Seq([op : Operation, on : Object \cup {None},
                                 with : Object \cup {None}, n : 0 .. n])]
         /\ \A t \in 0 .. n : \A k \in 1 .. Len(p[t]) :
              /\ p[t][k].op \in {"lock", "rdlock", "unlock"} => p[t][k].on \in Object
              /\ p[t][k].op = "cond_wait" => p[t][k].with \in Object
  BY PthreadsAssumption
<1>2. MaxThreads \in Nat
  BY PthreadsAssumption
<1>3. \A t \in 0 .. n : Len(p[t]) \in Nat /\ \A k \in 1 .. Len(p[t]) : p[t][k].n \in 0 .. n
  <2> DEFINE R == [op : Operation, on : Object \cup {None}, with : Object \cup {None}, n : 0 .. n]
  <2>1. ASSUME NEW t \in 0 .. n PROVE p[t] \in Seq(R)
    BY <1>1, <2>1
  <2>2. ASSUME NEW s \in Seq(R) PROVE Len(s) \in Nat /\ \A k \in 1 .. Len(s) : s[k].n \in 0 .. n
    <3>1. \A k \in 1 .. Len(s) : s[k] \in R
      <4> HIDE DEF R
      <4> QED BY <2>2
    <3> QED BY <2>2, <3>1
  <2> QED BY <2>1, <2>2
<1> QED BY <1>1, <1>2, <1>3, SMTT(30) DEF main

(* What main of pthread_mutex.cpp does where. *)
LEMMA MutexMain ==
  /\ Len(main_mutex) = 23
  /\ \A i \in 1 .. 23 :
       /\ main_mutex[i].op \in {"lock", "rdlock"} => i \in {2, 5, 7, 9}
       /\ main_mutex[i].op = "join" <=> i \in 16 .. 19
       /\ main_mutex[i].op = "destroy" <=> i \in 20 .. 23
       /\ main_mutex[i].op \notin {"cond_wait", "barrier_wait", "join_checked"}
  /\ \A i \in 12 .. 15 : main_mutex[i].op = "unlock"
  /\ main_mutex[2].on = "mutex" /\ main_mutex[12].on = "mutex"
  /\ main_mutex[5].on = "spinlock" /\ main_mutex[13].on = "spinlock"
  /\ main_mutex[7].on = "rlock" /\ main_mutex[14].on = "rlock"
  /\ main_mutex[9].on = "wlock" /\ main_mutex[15].on = "wlock"
  /\ \A t \in 1 .. 4 : main_mutex[15 + t].n = t
  BY SMTT(60) DEF main_mutex, Call, Instr, join, create_thread, writepid,
     spinlock_init, unlock_wlock, None

(* Its four threads are alike: they take a lock and release it. *)
LEMMA MutexThreads ==
  /\ DOMAIN MutexProgram = 0 .. 4
  /\ MutexProgram[0] = main_mutex
  /\ \A t \in 1 .. 4 :
       /\ Len(MutexProgram[t]) = 2
       /\ MutexProgram[t][1].op \in {"lock", "rdlock"}
       /\ MutexProgram[t][2].op = "unlock"
       /\ MutexProgram[t][1].on = MutexProgram[t][2].on
  BY SMTT(60) DEF MutexProgram, Program, f_wait_mutex, f_wait_spinlock, f_wait_rlock, f_wait_wlock, Call, Instr

(* pthread_mutex.cpp is disciplined. *)
LEMMA MutexDisciplined ==
  ASSUME MutexProgram \in Programs
  PROVE  Disciplined(MutexProgram)
<1>1. JoinsBeforeDestroy(MutexProgram)
  <2>1. ASSUME NEW i \in 1 .. 23, main_mutex[i].op = "destroy", NEW t \in 1 .. 4
        PROVE  \E j \in 1 .. i - 1 : main_mutex[j].op = "join" /\ main_mutex[j].n = t
    <3>1. 15 + t \in 1 .. i - 1 /\ 15 + t \in 16 .. 19 /\ 15 + t \in 1 .. 23
      BY <2>1, MutexMain
    <3>2. main_mutex[15 + t].op = "join" /\ main_mutex[15 + t].n = t
      BY <3>1, MutexMain
    <3> QED BY <3>1, <3>2
  <2>2. ASSUME NEW i \in 1 .. 23, main_mutex[i].op = "destroy", NEW j \in i + 1 .. 23
        PROVE  main_mutex[j].op = "destroy"
    BY <2>2, MutexMain
  <2>3. \A t \in 1 .. 4 : \A k \in 1 .. 2 : MutexProgram[t][k].op # "destroy"
    BY MutexThreads
  <2>5. DOMAIN MutexProgram \ {main} = 1 .. 4 /\ MutexProgram[main] = main_mutex
    BY MutexThreads DEF main
  <2>6. \A t \in 1 .. 4 : Len(MutexProgram[t]) = 2
    BY MutexThreads
  <2>8. Len(MutexProgram[main]) = 23
    BY <2>5, MutexMain
  <2>9. \A t \in DOMAIN MutexProgram \ {main} : \A k \in 1 .. Len(MutexProgram[t]) :
           MutexProgram[t][k].op # "destroy"
    BY <2>3, <2>5, <2>6
  <2>10. ASSUME NEW i \in 1 .. Len(MutexProgram[main]), MutexProgram[main][i].op = "destroy"
         PROVE  /\ \A t \in DOMAIN MutexProgram \ {main} :
                     \E j \in 1 .. i - 1 :
                       MutexProgram[main][j].op = "join" /\ MutexProgram[main][j].n = t
                /\ \A j \in i + 1 .. Len(MutexProgram[main]) :
                     ~Uses(MutexProgram[main][j], MutexProgram[main][i].on)
    <3>1. i \in 1 .. 23 /\ main_mutex[i].op = "destroy"
      BY <2>5, <2>8, <2>10
    <3>2. \A t \in 1 .. 4 :
             \E j \in 1 .. i - 1 : main_mutex[j].op = "join" /\ main_mutex[j].n = t
      BY <2>1, <3>1
    <3>3. \A j \in i + 1 .. 23 : ~Uses(main_mutex[j], main_mutex[i].on)
      <4> SUFFICES ASSUME NEW j \in i + 1 .. 23 PROVE ~Uses(main_mutex[j], main_mutex[i].on)
        OBVIOUS
      <4>1. main_mutex[j].op = "destroy"
        BY <2>2, <3>1
      <4> QED BY <4>1 DEF Uses
    <3> QED BY <2>5, <2>8, <3>2, <3>3
  <2> QED BY <2>9, <2>10 DEF JoinsBeforeDestroy
<1>2. Releases(MutexProgram)
  <2>1. ASSUME NEW j \in 1 .. 23, main_mutex[j].op \in {"lock", "rdlock"}
        PROVE  \E k \in j + 1 .. 23 :
                 /\ main_mutex[k].op = "unlock" /\ main_mutex[k].on = main_mutex[j].on
                 /\ \A m \in j + 1 .. k - 1 : main_mutex[m].op \notin Waits
    <3>1. CASE j = 2
      <4>1. 12 \in j + 1 .. 23 /\ main_mutex[12].op = "unlock" /\ main_mutex[12].on = main_mutex[j].on
        BY <3>1, MutexMain
      <4>2. ASSUME NEW m \in j + 1 .. 12 - 1
            PROVE  main_mutex[m].op \notin Waits
        BY <3>1, MutexMain DEF Waits
      <4> QED BY <4>1, <4>2
    <3>2. CASE j = 5
      <4>1. 13 \in j + 1 .. 23 /\ main_mutex[13].op = "unlock" /\ main_mutex[13].on = main_mutex[j].on
        BY <3>2, MutexMain
      <4>2. ASSUME NEW m \in j + 1 .. 13 - 1
            PROVE  main_mutex[m].op \notin Waits
        BY <3>2, MutexMain DEF Waits
      <4> QED BY <4>1, <4>2
    <3>3. CASE j = 7
      <4>1. 14 \in j + 1 .. 23 /\ main_mutex[14].op = "unlock" /\ main_mutex[14].on = main_mutex[j].on
        BY <3>3, MutexMain
      <4>2. ASSUME NEW m \in j + 1 .. 14 - 1
            PROVE  main_mutex[m].op \notin Waits
        BY <3>3, MutexMain DEF Waits
      <4> QED BY <4>1, <4>2
    <3>4. CASE j = 9
      <4>1. 15 \in j + 1 .. 23 /\ main_mutex[15].op = "unlock" /\ main_mutex[15].on = main_mutex[j].on
        BY <3>4, MutexMain
      <4>2. ASSUME NEW m \in j + 1 .. 15 - 1
            PROVE  main_mutex[m].op \notin Waits
        BY <3>4, MutexMain DEF Waits
      <4> QED BY <4>1, <4>2
    <3> QED BY <2>1, <3>1, <3>2, <3>3, <3>4, MutexMain
  <2>2. ASSUME NEW t \in 1 .. 4, NEW j \in 1 .. 2, MutexProgram[t][j].op \in {"lock", "rdlock"}
        PROVE  \E k \in j + 1 .. 2 :
                 /\ MutexProgram[t][k].op = "unlock"
                 /\ MutexProgram[t][k].on = MutexProgram[t][j].on
                 /\ \A m \in j + 1 .. k - 1 : MutexProgram[t][m].op \notin Waits
    BY <2>2, MutexThreads
  <2>3. \A t \in 1 .. 4 : Len(MutexProgram[t]) = 2
    BY MutexThreads
  <2> SUFFICES ASSUME NEW t \in 0 .. 4, NEW j \in 1 .. Len(MutexProgram[t]),
                      MutexProgram[t][j].op \in {"lock", "rdlock"}
               PROVE  \E k \in j + 1 .. Len(MutexProgram[t]) :
                        /\ MutexProgram[t][k].op = "unlock"
                        /\ MutexProgram[t][k].on = MutexProgram[t][j].on
                        /\ \A m \in j + 1 .. k - 1 : MutexProgram[t][m].op \notin Waits
    BY MutexThreads DEF Releases
  <2>4. CASE t = 0
    <3>1. MutexProgram[t] = main_mutex /\ Len(MutexProgram[t]) = 23
      BY <2>4, MutexThreads, MutexMain
    <3> QED BY <2>1, <3>1
  <2>5. CASE t \in 1 .. 4
    BY <2>2, <2>3, <2>5
  <2> QED BY <2>4, <2>5
<1>3. LocksInOrder(MutexProgram)
  <2> DEFINE rank == [l \in Object |-> IF l = "mutex" THEN 4 ELSE IF l = "spinlock" THEN 3
                                       ELSE IF l = "rlock" THEN 2 ELSE 1]
  <2>1. rank \in [Object -> Nat]
    OBVIOUS
  <2>2. \A i \in {2, 5, 7, 9} : main_mutex[i].op \in {"lock", "rdlock"} => main_mutex[i].on \in Object
    <3>1. \A k \in 1 .. Len(MutexProgram[0]) :
             MutexProgram[0][k].op \in {"lock", "rdlock"} => MutexProgram[0][k].on \in Object
      <4>1. \A t \in DOMAIN MutexProgram : \A k \in 1 .. Len(MutexProgram[t]) :
               MutexProgram[t][k].op \in {"lock", "rdlock"} => MutexProgram[t][k].on \in Object
        BY ProgramShape, Zenon
      <4>2. 0 \in DOMAIN MutexProgram
        BY MutexThreads
      <4> QED BY <4>1, <4>2
    <3>2. MutexProgram[0] = main_mutex /\ Len(main_mutex) = 23 /\ {2, 5, 7, 9} \subseteq 1 .. 23
      BY MutexMain, MutexThreads
    <3> QED BY <3>1, <3>2
  <2>3. ASSUME NEW i \in {2, 5, 7, 9}, NEW j \in {2, 5, 7, 9}, i < j,
               main_mutex[i].op \in {"lock", "rdlock"}, main_mutex[j].op \in {"lock", "rdlock"}
        PROVE  rank[main_mutex[j].on] < rank[main_mutex[i].on]
    <3>1. main_mutex[i].on \in Object /\ main_mutex[j].on \in Object
      BY <2>2, <2>3
    <3> QED BY <2>3, <3>1, MutexMain
  <2> HIDE DEF rank
  <2>4. ASSUME NEW t \in 0 .. 4, NEW j \in 1 .. Len(MutexProgram[t]), NEW i \in 1 .. j - 1,
               MutexProgram[t][j].op \in {"lock", "rdlock"}, MutexProgram[t][i].op \in {"lock", "rdlock"}
        PROVE  rank[MutexProgram[t][j].on] < rank[MutexProgram[t][i].on]
    <3>1. CASE t = 0
      <4>1. MutexProgram[t] = main_mutex /\ i \in 1 .. 23 /\ j \in 1 .. 23 /\ i < j
        BY <2>4, <3>1, MutexThreads, MutexMain
      <4>2. i \in {2, 5, 7, 9} /\ j \in {2, 5, 7, 9}
        BY <2>4, <4>1, MutexMain
      <4> QED BY <2>3, <2>4, <4>1, <4>2
    <3>2. CASE t \in 1 .. 4
      <4>1. Len(MutexProgram[t]) = 2 /\ MutexProgram[t][2].op = "unlock"
        BY <3>2, MutexThreads
      <4>2. i = 1 /\ j = 2
        BY <4>1
      <4> QED BY <2>4, <4>1, <4>2
    <3> QED BY <3>1, <3>2
  <2> QED BY <2>1, <2>4, MutexThreads DEF LocksInOrder, Keeps
<1>4. CondMutexPrivate(MutexProgram)
  <2>1. \A t \in 0 .. 4 : \A j \in 1 .. Len(MutexProgram[t]) : MutexProgram[t][j].op # "cond_wait"
    <3>1. \A t \in 1 .. 4 : \A j \in 1 .. 2 : MutexProgram[t][j].op # "cond_wait"
      BY MutexThreads
    <3>2. \A j \in 1 .. Len(MutexProgram[0]) : MutexProgram[0][j].op # "cond_wait"
      BY MutexMain, MutexThreads
    <3>3. \A t \in 1 .. 4 : Len(MutexProgram[t]) = 2
      BY MutexThreads
    <3> SUFFICES ASSUME NEW t \in 0 .. 4
                 PROVE  \A j \in 1 .. Len(MutexProgram[t]) : MutexProgram[t][j].op # "cond_wait"
      OBVIOUS
    <3>4. CASE t = 0
      BY <3>2, <3>4
    <3>5. CASE t \in 1 .. 4
      BY <3>1, <3>3, <3>5
    <3> QED BY <3>4, <3>5
  <2> QED BY <2>1, MutexThreads DEF CondMutexPrivate
<1> QED BY <1>1, <1>2, <1>3, <1>4 DEF Disciplined

(* So is pthread_cond.cpp. *)
LEMMA CondDisciplined == Disciplined(CondProgram)
<1> USE DEF CondProgram, main_cond, f_wait_cond, f_wait_barrier, Program, Call, Instr,
            join, create_thread, writepid, barrier_init, None
<1>1. JoinsBeforeDestroy(CondProgram)
  BY SMTT(60) DEF JoinsBeforeDestroy, Uses, main
<1>2. Releases(CondProgram) /\ LocksInOrder(CondProgram)
  <2>1. \A j \in 1 .. Len(main_cond) : main_cond[j].op \notin {"lock", "rdlock"}
    OBVIOUS
  <2>2. DOMAIN CondProgram = 0 .. 2 /\ CondProgram[0] = main_cond
    OBVIOUS
  <2>3. \A t \in 1 .. 2 : \A j \in 1 .. Len(CondProgram[t]) :
           CondProgram[t][j].op \notin {"lock", "rdlock"}
    OBVIOUS
  <2>4. \A t \in DOMAIN CondProgram : \A j \in 1 .. Len(CondProgram[t]) :
           CondProgram[t][j].op \notin {"lock", "rdlock"}
    <3> HIDE DEF CondProgram, main_cond
    <3> QED BY <2>1, <2>2, <2>3
  <2> HIDE DEF CondProgram, main_cond
  <2>5. LocksInOrder(CondProgram)
    <3>1. [l \in Object |-> 0] \in [Object -> Nat]
      OBVIOUS
    <3> QED BY <2>4, <3>1 DEF LocksInOrder
  <2> QED BY <2>4, <2>5 DEF Releases
<1>3. CondMutexPrivate(CondProgram)
  BY SMTT(60) DEF CondMutexPrivate, Acquires
<1> QED BY <1>1, <1>2, <1>3 DEF Disciplined

(* So is pthread_main.cpp, which has no locks. *)
LEMMA CreateDisciplined == Disciplined(CreateProgram)
<1> USE DEF CreateProgram, main_create, thread_func, Program, Call, Instr,
            join, create_thread, writepid, None
<1>1. JoinsBeforeDestroy(CreateProgram)
  BY SMTT(60) DEF JoinsBeforeDestroy, Uses, main
<1>2. Releases(CreateProgram) /\ LocksInOrder(CreateProgram)
  <2>1. \A t \in DOMAIN CreateProgram : \A j \in 1 .. Len(CreateProgram[t]) :
           CreateProgram[t][j].op \notin {"lock", "rdlock"}
    BY SMTT(60)
  <2>2. [l \in Object |-> 0] \in [Object -> Nat]
    OBVIOUS
  <2> HIDE DEF CreateProgram
  <2> QED BY <2>1, <2>2 DEF Releases, LocksInOrder
<1>3. CondMutexPrivate(CreateProgram)
  BY SMTT(60) DEF CondMutexPrivate, Acquires
<1> QED BY <1>1, <1>2, <1>3 DEF Disciplined

-----------------------------------------------------------------------------
(* The types of the variables. *)
TypeInv ==
  /\ code \in Programs
  /\ pc \in [Thread -> Nat \ {0}]
  /\ created \subseteq Thread
  /\ holds \in [Object -> SUBSET (Thread \X {"read", "write"})]
  /\ waiting \cup woken \subseteq Thread
  /\ waiting \cap woken = {}

(* Whom main has joined has ended. *)
JoinedEnded ==
  \A j \in 1 .. Len(code[main]) :
    code[main][j].op = "join" /\ j < pc[main]
      => pc[code[main][j].n] > Len(code[code[main][j].n])

(* What is destroyed is what main has destroyed so far. *)
DestroyedByMain ==
  \A l \in destroyed :
    \E i \in 1 .. Len(code[main]) :
      i < pc[main] /\ code[main][i].op = "destroy" /\ code[main][i].on = l

(* Who waits for a condition is at the call that waits. *)
AtCondWait ==
  \A t \in waiting \cup woken :
    t \in created /\ pc[t] <= Len(code[t]) /\ Current(t).op = "cond_wait"

(* Thread t has got lock l with its j-th call, and not released it. *)
HasSince(t, l, j) ==
  /\ j < pc[t]
  /\ \/ /\ Acquires(code[t][j], l)
        /\ \A k \in j + 1 .. pc[t] - 1 : ~(code[t][k].op = "unlock" /\ code[t][k].on = l)
     \/ code[t][j].op = "cond_wait" /\ code[t][j].with = l

(* Who holds a lock has got it with an earlier call, and not released it. *)
HeldSince ==
  \A l \in Object, t \in Thread, mode \in {"read", "write"} :
    <<t, mode>> \in holds[l] =>
      t \in created /\ \E j \in 1 .. Len(code[t]) : HasSince(t, l, j)

(* The inductive invariant. *)
Inv == TypeInv /\ JoinedEnded /\ DestroyedByMain /\ AtCondWait /\ HeldSince

(* The invariant holds when the program starts. *)
LEMMA InitInv == Init => Inv
<1> SUFFICES ASSUME Init PROVE Inv
  OBVIOUS
<1>1. main \in Thread /\ \A t \in Thread : Len(code[t]) \in Nat
  BY ProgramShape DEF Init, Thread
<1>2. TypeInv
  BY <1>1 DEF Init, TypeInv, Thread
<1>3. JoinedEnded
  BY <1>1 DEF Init, JoinedEnded
<1>4. DestroyedByMain /\ AtCondWait /\ HeldSince
  BY DEF Init, DestroyedByMain, AtCondWait, HeldSince
<1> QED BY <1>2, <1>3, <1>4 DEF Inv

(* What all steps of a thread have in common: the program stays, nobody goes *)
(* back, and only the thread that takes the step goes on.                    *)
LEMMA StepShape ==
  ASSUME Inv, [Next]_vars
  PROVE  /\ code' = code /\ Thread' = Thread
         /\ created \subseteq created'
         /\ \/ pc' = pc
            \/ \E t \in Thread : Running(t) /\ return(t)
<1> USE DEF Thread
<1>1. CASE UNCHANGED vars
  BY <1>1 DEF vars
<1>2. ASSUME NEW t \in Thread, Step(t) \/ WakeSpuriously(t) \/ Fail(t)
      PROVE  /\ code' = code /\ created \subseteq created'
             /\ pc' = pc \/ (Running(t) /\ return(t))
  <2>1. CASE CondReturn(t)
    BY <2>1 DEF CondReturn, Inv, AtCondWait, Running
  <2>2. CASE WakeSpuriously(t) \/ Fail(t) \/ Arrive(t) \/ CondWait(t)
    BY <2>2 DEF WakeSpuriously, Fail, Arrive, CondWait
  <2>3. CASE Lock(t) \/ ReadLock(t) \/ Unlock(t) \/ Signal(t) \/ SignalNobody(t)
    BY <2>3 DEF Lock, ReadLock, Unlock, Signal, SignalNobody, At
  <2>4. CASE BarrierInit(t) \/ PassBarrier(t) \/ Create(t) \/ Join(t) \/ Destroy(t) \/ Proceed(t)
    BY <2>4 DEF BarrierInit, PassBarrier, Create, Join, Destroy, Proceed, At
  <2> QED BY <1>2, <2>1, <2>2, <2>3, <2>4 DEF Step
<1>3. CASE Return
  BY <1>3 DEF Return
<1> QED BY <1>1, <1>2, <1>3 DEF Next

(* A step keeps the types. *)
LEMMA TypeStep == Inv /\ [Next]_vars => TypeInv'
<1> SUFFICES ASSUME Inv, [Next]_vars PROVE TypeInv'
  OBVIOUS
<1>1. code \in Programs /\ code' = code /\ Thread' = Thread
  BY StepShape DEF Inv, TypeInv
<1>2. pc' \in [Thread -> Nat \ {0}]
  BY StepShape DEF Inv, TypeInv, return
<1>3. CASE UNCHANGED vars
  BY <1>1, <1>3 DEF vars, Inv, TypeInv
<1>4. ASSUME NEW t \in Thread, Step(t) \/ WakeSpuriously(t) \/ Fail(t)
      PROVE  /\ created' \subseteq Thread
             /\ holds' \in [Object -> SUBSET (Thread \X {"read", "write"})]
             /\ waiting' \cup woken' \subseteq Thread
             /\ waiting' \cap woken' = {}
  <2> USE DEF Inv, TypeInv
  <2>0. {<<t, "write">>} \in SUBSET (Thread \X {"read", "write"})
        /\ {<<t, "read">>} \in SUBSET (Thread \X {"read", "write"})
    BY <1>4
  <2>1. CASE Lock(t)
    BY <2>0, <2>1 DEF Lock
  <2>2. CASE ReadLock(t)
    <3>1. CASE Current(t).on \in Object
      <4>1. holds[Current(t).on] \cup {<<t, "read">>} \in SUBSET (Thread \X {"read", "write"})
        BY <2>0, <3>1
      <4> QED BY <2>2, <4>1 DEF ReadLock
    <3>2. CASE Current(t).on \notin Object
      BY <2>2, <3>2 DEF ReadLock
    <3> QED BY <3>1, <3>2
  <2>3. CASE Unlock(t)
    BY <1>4, <2>3 DEF Unlock
  <2>4. CASE CondWait(t)
    BY <1>4, <2>4 DEF CondWait
  <2>5. CASE CondReturn(t)
    BY <2>0, <2>5 DEF CondReturn
  <2>6. CASE Create(t)
    <3>1. Current(t).n \in Thread
      BY <1>1, <1>4, <2>6, ProgramShape DEF Create, At, Running, Current, Thread
    <3> QED BY <2>6, <3>1 DEF Create
  <2>7. CASE WakeSpuriously(t) \/ Fail(t) \/ Arrive(t) \/ Signal(t) \/ SignalNobody(t)
    BY <2>7 DEF WakeSpuriously, WakeUp, Fail, Arrive, Signal, SignalNobody
  <2>8. CASE BarrierInit(t) \/ PassBarrier(t) \/ Join(t) \/ Destroy(t) \/ Proceed(t)
    BY <2>8 DEF BarrierInit, PassBarrier, Join, Destroy, Proceed
  <2> QED BY <1>4, <2>1, <2>2, <2>3, <2>4, <2>5, <2>6, <2>7, <2>8 DEF Step
<1>5. CASE Return
  BY <1>1, <1>5 DEF Return, Inv, TypeInv
<1> QED BY <1>1, <1>2, <1>3, <1>4, <1>5 DEF Next, TypeInv

(* A step keeps JoinedEnded: main passes a join only by Join. *)
LEMMA JoinedStep == Inv /\ [Next]_vars => JoinedEnded'
<1> SUFFICES ASSUME Inv, [Next]_vars,
                    NEW j \in 1 .. Len(code[main]), code[main][j].op = "join", j < pc'[main]
             PROVE  pc'[code[main][j].n] > Len(code[code[main][j].n])
  BY StepShape DEF JoinedEnded
<1> DEFINE u == code[main][j].n
<1>1. /\ u \in Thread /\ main \in Thread /\ pc \in [Thread -> Nat \ {0}]
      /\ \A t \in Thread : Len(code[t]) \in Nat
  BY ProgramShape DEF Inv, TypeInv, Thread
<1>2. \A t \in Thread : pc'[t] \in Nat /\ pc'[t] >= pc[t]
  BY <1>1, StepShape DEF return
<1>3. CASE j < pc[main]
  BY <1>1, <1>2, <1>3 DEF Inv, JoinedEnded
<1>4. CASE j >= pc[main]
  <2>1. pc[main] = j /\ Current(main).op = "join" /\ pc' # pc
    BY <1>1, <1>4, StepShape DEF return, Current
  <2>2. pc'[main] # pc[main]
    BY <1>1, <2>1
  <2>3. PICK t \in Thread : Running(t) /\ return(t)
    BY <2>1, StepShape
  <2>4. t = main
    BY <1>1, <2>2, <2>3 DEF return
  <2>5. Join(main)
    <3>1. \E v \in Thread : Step(v)
      BY <2>1 DEF Next, vars, WakeSpuriously, Fail, Return
    <3>2. PICK v \in Thread : Step(v)
      BY <3>1
    <3>3. v = main
      BY <1>1, <2>2, <3>2 DEF Step, Lock, ReadLock, Unlock, CondWait, CondReturn, Signal,
         SignalNobody, BarrierInit, Arrive, PassBarrier, Create, Join, Destroy, Proceed, return
    <3>4. ~CondReturn(main)
      BY <2>1 DEF CondReturn, Inv, AtCondWait
    <3> QED BY <2>1, <3>2, <3>3, <3>4 DEF Step, Lock, ReadLock, Unlock, CondWait, Signal,
            SignalNobody, BarrierInit, Arrive, PassBarrier, Create, Destroy, Proceed, At
  <2> QED BY <1>1, <1>2, <2>1, <2>5 DEF Join, Ended, Current
<1> QED BY <1>1, <1>3, <1>4

(* A step keeps DestroyedByMain: only Destroy destroys. *)
LEMMA DestroyedStep ==
  ASSUME \A p \in Programs : Disciplined(p)
  PROVE  Inv /\ [Next]_vars => DestroyedByMain'
<1> SUFFICES ASSUME Inv, [Next]_vars, NEW l \in destroyed'
             PROVE  \E i \in 1 .. Len(code[main]) :
                      i < pc'[main] /\ code[main][i].op = "destroy" /\ code[main][i].on = l
  BY StepShape DEF DestroyedByMain
<1>1. /\ main \in Thread /\ pc \in [Thread -> Nat \ {0}]
      /\ \A t \in Thread : Len(code[t]) \in Nat
  BY ProgramShape DEF Inv, TypeInv, Thread
<1>2. \A t \in Thread : pc'[t] \in Nat /\ pc'[t] >= pc[t]
  BY <1>1, StepShape DEF return
<1>3. CASE l \in destroyed
  BY <1>1, <1>2, <1>3 DEF Inv, DestroyedByMain
<1>4. CASE l \notin destroyed
  <2>1. PICK t \in Thread : Destroy(t)
    BY <1>4 DEF Next, vars, Step, Lock, ReadLock, Unlock, CondWait, CondReturn, Signal,
       SignalNobody, BarrierInit, Arrive, PassBarrier, Create, Join, Proceed,
       WakeSpuriously, Fail, Return
  <2>2. pc[t] \in 1 .. Len(code[t]) /\ code[t][pc[t]].op = "destroy" /\ code[t][pc[t]].on = l
    BY <1>1, <1>4, <2>1 DEF Destroy, At, Running, Current
  <2>3. t = main
    <3>1. JoinsBeforeDestroy(code) /\ t \in DOMAIN code
      BY DEF Inv, TypeInv, Disciplined, Thread
    <3> QED BY <2>2, <3>1 DEF JoinsBeforeDestroy
  <2>4. pc[main] < pc'[main]
    BY <1>1, <2>1, <2>3 DEF Destroy, return
  <2> QED BY <2>2, <2>3, <2>4
<1> QED BY <1>3, <1>4

(* A step keeps AtCondWait: who waits goes on only by CondReturn. *)
LEMMA AtCondWaitStep == Inv /\ [Next]_vars => AtCondWait'
<1> SUFFICES ASSUME Inv, [Next]_vars, NEW u \in waiting' \cup woken'
             PROVE  u \in created' /\ pc'[u] <= Len(code[u]) /\ code[u][pc'[u]].op = "cond_wait"
  BY StepShape DEF AtCondWait, Current
<1>1. pc \in [Thread -> Nat \ {0}] /\ created \subseteq created' /\ waiting \cup woken \subseteq Thread
  BY StepShape DEF Inv, TypeInv
<1>2. CASE u \notin waiting \cup woken
  <2>1. PICK t \in Thread : CondWait(t)
    BY <1>2 DEF Next, vars, Step, Lock, ReadLock, Unlock, WakeUp, CondReturn, Signal,
       SignalNobody, BarrierInit, Arrive, PassBarrier, Create, Join, Destroy, Proceed,
       WakeSpuriously, Fail, Return
  <2>2. u = t
    BY <1>2, <2>1 DEF CondWait
  <2> QED BY <1>1, <2>1, <2>2 DEF CondWait, At, Running, Current
<1>3. CASE u \in waiting \cup woken
  <2>1. u \in created /\ pc[u] <= Len(code[u]) /\ Current(u).op = "cond_wait"
    BY <1>3 DEF Inv, AtCondWait
  <2>2. pc'[u] = pc[u]
    <3>1. ASSUME NEW t \in Thread, Step(t), t # u PROVE pc'[u] = pc[u]
      BY <1>1, <1>3, <3>1 DEF Step, Lock, ReadLock, Unlock, CondWait, CondReturn, Signal,
         SignalNobody, BarrierInit, Arrive, PassBarrier, Create, Join, Destroy, Proceed, return
    <3>2. CASE Step(u)
      <4>1. CASE CondWait(u) \/ Arrive(u)
        BY <4>1 DEF CondWait, Arrive
      <4>2. CASE CondReturn(u)
        <5>1. u \notin woken' /\ waiting' = waiting /\ u \in woken
          BY <4>2 DEF CondReturn
        <5>2. u \in waiting
          BY <5>1
        <5> QED BY <5>1, <5>2 DEF Inv, TypeInv
      <4> QED BY <2>1, <3>2, <4>1, <4>2 DEF Step, Lock, ReadLock, Unlock, Signal,
              SignalNobody, BarrierInit, PassBarrier, Create, Join, Destroy, Proceed, At
    <3>3. CASE UNCHANGED pc
      BY <3>3
    <3> QED BY <3>1, <3>2, <3>3 DEF Next, vars, WakeSpuriously, Fail, Return
  <2> QED BY <1>1, <2>1, <2>2 DEF Current
<1> QED BY <1>2, <1>3

(* A thread that goes on keeps what it has got, if its call does not give it *)
(* back.                                                                     *)
LEMMA KeepsWhatItHas ==
  ASSUME Inv, [Next]_vars, NEW t \in Thread, NEW l \in Object, NEW j \in 1 .. Len(code[t]),
         HasSince(t, l, j),
         pc'[t] # pc[t] => ~(Current(t).op = "unlock" /\ Current(t).on = l)
  PROVE  HasSince(t, l, j)'
<1>1. /\ pc \in [Thread -> Nat \ {0}] /\ pc' \in [Thread -> Nat \ {0}] /\ code' = code
      /\ \A u \in Thread : Len(code[u]) \in Nat
  BY ProgramShape, StepShape, TypeStep DEF Inv, TypeInv, Thread
<1>2. pc'[t] = pc[t] \/ pc'[t] = pc[t] + 1
  BY <1>1, StepShape DEF return
<1>3. j < pc'[t]
  BY <1>1, <1>2 DEF HasSince
<1>4. CASE pc'[t] = pc[t]
  BY <1>1, <1>4 DEF HasSince
<1>5. CASE pc'[t] = pc[t] + 1
  <2>1. ~(code[t][pc[t]].op = "unlock" /\ code[t][pc[t]].on = l)
    BY <1>1, <1>5 DEF Current
  <2>2. ASSUME NEW k \in j + 1 .. pc'[t] - 1 PROVE k \in j + 1 .. pc[t] - 1 \/ k = pc[t]
    BY <1>1, <1>5
  <2> QED BY <1>1, <1>3, <2>1, <2>2 DEF HasSince
<1> QED BY <1>2, <1>4, <1>5

(* A step keeps HeldSince. *)
LEMMA HeldStep == Inv /\ [Next]_vars => HeldSince'
<1> SUFFICES ASSUME Inv, [Next]_vars,
                    NEW l \in Object, NEW u \in Thread, NEW mode \in {"read", "write"},
                    <<u, mode>> \in holds'[l]
             PROVE  u \in created' /\ \E j \in 1 .. Len(code[u]) : HasSince(u, l, j)'
  BY StepShape DEF HeldSince
<1>1. /\ pc \in [Thread -> Nat \ {0}] /\ created \subseteq created' /\ code' = code
      /\ \A t \in Thread : Len(code[t]) \in Nat
      /\ holds \in [Object -> SUBSET (Thread \X {"read", "write"})]
  BY ProgramShape, StepShape DEF Inv, TypeInv, Thread
<1>2. CASE <<u, mode>> \in holds[l]
  <2>1. PICK j \in 1 .. Len(code[u]) : HasSince(u, l, j)
    BY <1>2 DEF Inv, HeldSince
  <2>2. u \in created'
    BY <1>1, <1>2 DEF Inv, HeldSince
  <2>3. ASSUME pc'[u] # pc[u] PROVE ~(Current(u).op = "unlock" /\ Current(u).on = l)
    <3> SUFFICES ASSUME Current(u).op = "unlock", Current(u).on = l PROVE FALSE
      OBVIOUS
    <3>1. PICK t \in Thread : Step(t)
      BY <2>3 DEF Next, vars, WakeSpuriously, Fail, Return
    <3>2. t = u
      BY <1>1, <2>3, <3>1 DEF Step, Lock, ReadLock, Unlock, CondWait, CondReturn, Signal,
         SignalNobody, BarrierInit, Arrive, PassBarrier, Create, Join, Destroy, Proceed, return
    <3>3. ~CondReturn(u)
      BY DEF CondReturn, Inv, AtCondWait
    <3>4. Unlock(u)
      BY <3>1, <3>2, <3>3 DEF Step, Lock, ReadLock, CondWait, Signal, SignalNobody,
         BarrierInit, Arrive, PassBarrier, Create, Join, Destroy, Proceed, At
    <3> QED BY <1>1, <3>4 DEF Unlock
  <2> QED BY <2>1, <2>2, <2>3, KeepsWhatItHas
<1>3. CASE <<u, mode>> \notin holds[l]
  <2>1. PICK t \in Thread : Lock(t) \/ ReadLock(t) \/ CondReturn(t)
    <3>1. ASSUME NEW t \in Thread, Unlock(t) \/ CondWait(t) PROVE FALSE
      BY <1>1, <1>3, <3>1 DEF Unlock, CondWait
    <3>2. holds' # holds
      BY <1>3
    <3> QED BY <3>1, <3>2 DEF Next, vars, Step, Signal,
       SignalNobody, BarrierInit, Arrive, PassBarrier, Create, Join, Destroy, Proceed,
       WakeSpuriously, Fail, Return
  <2>2. t = u /\ (Current(t).on = l \/ (CondReturn(t) /\ Current(t).with = l))
    BY <1>1, <1>3, <2>1 DEF Lock, ReadLock, CondReturn
  <2>3. t \in created /\ pc[t] \in 1 .. Len(code[t]) /\ pc'[t] = pc[t] + 1
    BY <1>1, <2>1 DEF Lock, ReadLock, CondReturn, At, Running, return, Inv, AtCondWait
  <2>4. CASE Lock(t) \/ ReadLock(t)
    <3>1. Current(t).op \in {"lock", "rdlock"}
      BY <2>4 DEF Lock, ReadLock, At
    <3>2. ~CondReturn(t)
      BY <3>1 DEF CondReturn, Inv, AtCondWait
    <3>3. Acquires(code[t][pc[t]], l)
      BY <2>2, <3>1, <3>2 DEF Acquires, Current
    <3> QED BY <1>1, <2>2, <2>3, <3>3 DEF HasSince
  <2>5. CASE CondReturn(t)
    <3>1. Current(t).op = "cond_wait" /\ Current(t).with = l
      BY <1>1, <1>3, <2>2, <2>5 DEF CondReturn, Inv, AtCondWait
    <3> QED BY <1>1, <2>2, <2>3, <3>1 DEF Current, HasSince
  <2> QED BY <2>1, <2>4, <2>5
<1> QED BY <1>2, <1>3

-----------------------------------------------------------------------------
(* The inductive invariant holds of every disciplined program: types, whom   *)
(* main has joined, what it has destroyed, who waits, who holds since when.  *)
THEOREM InvariantHolds ==
  ASSUME \A p \in Programs : Disciplined(p)
  PROVE  Spec => []Inv
<1>1. Inv /\ [Next]_vars => Inv'
  BY TypeStep, JoinedStep, DestroyedStep, AtCondWaitStep, HeldStep DEF Inv
<1> QED BY InitInv, <1>1, PTL DEF Spec

(* No object is destroyed while a thread may still come to use it.           *)
THEOREM NothingDestroyedInUse ==
  ASSUME \A p \in Programs : Disciplined(p)
  PROVE  Spec => []DestroyedUnused
<1>1. ASSUME Inv PROVE DestroyedUnused
  <2> SUFFICES ASSUME NEW l \in destroyed, NEW t \in Thread, NEW k \in pc[t] .. Len(code[t]),
                      Uses(code[t][k], l)
               PROVE  FALSE
    BY DEF DestroyedUnused
  <2>1. /\ main \in Thread /\ pc \in [Thread -> Nat \ {0}]
        /\ \A u \in Thread : Len(code[u]) \in Nat
    BY <1>1, ProgramShape DEF Inv, TypeInv, Thread
  <2>2. PICK i \in 1 .. Len(code[main]) :
          i < pc[main] /\ code[main][i].op = "destroy" /\ code[main][i].on = l
    BY <1>1 DEF Inv, DestroyedByMain
  <2>3. JoinsBeforeDestroy(code) /\ k \in 1 .. Len(code[t])
    BY <1>1, <2>1 DEF Inv, TypeInv, Disciplined
  <2>4. CASE t = main
    <3>1. k \in i + 1 .. Len(code[main])
      BY <2>1, <2>2, <2>3, <2>4
    <3> QED BY <2>2, <2>3, <2>4, <3>1 DEF JoinsBeforeDestroy
  <2>5. CASE t # main
    <3>1. PICK j \in 1 .. i - 1 : code[main][j].op = "join" /\ code[main][j].n = t
      BY <2>2, <2>3, <2>5 DEF JoinsBeforeDestroy, Thread
    <3>2. j \in 1 .. Len(code[main]) /\ j < pc[main]
      BY <2>1, <2>2, <3>1
    <3>3. pc[t] > Len(code[t])
      BY <1>1, <3>1, <3>2 DEF Inv, JoinedEnded
    <3> QED BY <2>1, <2>3, <3>3
  <2> QED BY <2>4, <2>5
<1> QED BY <1>1, InvariantHolds, PTL

(* A set of natural numbers that is not empty has a smallest one.            *)
LEMMA Smallest ==
  ASSUME NEW S \in SUBSET Nat, S # {}
  PROVE  \E x \in S : \A y \in S : ~(y < x)
<1> DEFINE R == OpToRel(<, Nat)
<1>1. IsWellFoundedOn(R, Nat)
  BY NatLessThanWellFounded
<1>2. \A x, y \in Nat : y < x => <<y, x>> \in R
  BY DEF OpToRel
<1> HIDE DEF R
<1>3. \E x \in S : \A y \in S : ~(<<y, x>> \in R)
  BY <1>1, WFMin
<1> QED BY <1>2, <1>3

(* Thread t wants a lock that u holds: it is at a call that takes the lock,  *)
(* and u has it since an earlier call, and is at one that waits for no more  *)
(* than a lock.                                                              *)
LEMMA HeldBy ==
  ASSUME Inv, \A p \in Programs : Disciplined(p),
         NEW t \in Thread, NEW u \in Thread, WaitsFor(t, u)
  PROVE  /\ pc[t] \in 1 .. Len(code[t]) /\ Current(t).op \in {"lock", "rdlock"} /\ Current(t).on \in Object
         /\ Running(u) /\ pc[u] \in 1 .. Len(code[u]) /\ Current(u).op \notin Waits
         /\ \E j \in 1 .. pc[u] - 1 : code[u][j].on = Current(t).on /\ Keeps(code, u, j, pc[u])
<1>1. /\ pc \in [Thread -> Nat \ {0}]
      /\ \A v \in Thread : Len(code[v]) \in Nat
      /\ holds \in [Object -> SUBSET (Thread \X {"read", "write"})]
      /\ Releases(code) /\ CondMutexPrivate(code)
  BY ProgramShape DEF Inv, TypeInv, Thread, Disciplined
<1>2. CASE At(t, "lock") \/ At(t, "rdlock")
  <2>1. /\ pc[t] \in 1 .. Len(code[t]) /\ ~returned /\ Current(t).op \in {"lock", "rdlock"}
        /\ Acquires(code[t][pc[t]], Current(t).on)
    BY <1>1, <1>2 DEF At, Running, Current, Acquires
  <2>2. Current(t).on \in Object
    BY <2>1, ProgramShape DEF Inv, TypeInv, Thread, Acquires, Current
  <2>3. t \notin woken
    BY <1>2 DEF Inv, AtCondWait, At
  <2> DEFINE l == Current(t).on
  <2>4. PICK mode \in {"read", "write"} : <<u, mode>> \in holds[l]
    BY <2>3 DEF WaitsFor
  <2>5. PICK j \in 1 .. Len(code[u]) : u \in created /\ HasSince(u, l, j)
    BY <2>2, <2>4 DEF Inv, HeldSince
  <2>6. code[u][j].op = "cond_wait" => code[u][j].with # l
    BY <1>1, <2>1 DEF CondMutexPrivate, Thread
  <2>7. /\ j < pc[u] /\ Acquires(code[u][j], l)
        /\ \A k \in j + 1 .. pc[u] - 1 : ~(code[u][k].op = "unlock" /\ code[u][k].on = l)
    BY <2>5, <2>6 DEF HasSince
  <2>8. PICK k \in j + 1 .. Len(code[u]) :
          /\ code[u][k].op = "unlock" /\ code[u][k].on = l
          /\ \A m \in j + 1 .. k - 1 : code[u][m].op \notin Waits
    BY <1>1, <2>7, SMTT(30) DEF Releases, Acquires, Thread
  <2>9. pc[u] \in j + 1 .. k /\ pc[u] <= Len(code[u])
    BY <1>1, <2>7, <2>8
  <2>10. code[u][pc[u]].op \notin Waits
    <3>1. CASE pc[u] = k
      BY <2>8, <3>1 DEF Waits
    <3>2. CASE pc[u] # k
      BY <1>1, <2>8, <2>9, <3>2
    <3> QED BY <3>1, <3>2
  <2>11. j \in 1 .. pc[u] - 1 /\ code[u][j].on = l /\ Keeps(code, u, j, pc[u])
    BY <1>1, <2>7 DEF Keeps, Acquires
  <2> QED BY <1>1, <2>1, <2>2, <2>5, <2>9, <2>10, <2>11 DEF Running, Current
<1>3. CASE t \in woken /\ <<u, "write">> \in holds[Current(t).with]
  <2>1. pc[t] \in 1 .. Len(code[t]) /\ Current(t).op = "cond_wait"
    BY <1>1, <1>3 DEF Inv, AtCondWait
  <2>2. Current(t).with \in Object
    BY <2>1, ProgramShape DEF Inv, TypeInv, Thread, Current
  <2>3. PICK j \in 1 .. Len(code[u]) : HasSince(u, Current(t).with, j)
    BY <1>3, <2>2 DEF Inv, HeldSince
  <2>4. /\ ~Acquires(code[u][j], code[t][pc[t]].with)
        /\ code[u][j].op = "cond_wait" /\ code[u][j].with = code[t][pc[t]].with
             => u = t /\ j = pc[t]
    BY <1>1, <2>1 DEF CondMutexPrivate, Current, Thread
  <2>5. j < pc[u] /\ u = t /\ j = pc[t]
    BY <2>3, <2>4 DEF HasSince, Current
  <2> QED BY <1>1, <2>5
<1> QED BY <1>2, <1>3 DEF WaitsFor

(* Who holds a lock that another thread wants goes on to release it: it has  *)
(* not ended and waits for nothing but a lock, and among threads that wait   *)
(* for locks one, whose lock is the lowest, waits for none of the others.    *)
THEOREM NobodyWaitsInVain ==
  ASSUME \A p \in Programs : Disciplined(p)
  PROVE  Spec => []HoldersGoOn
<1>1. ASSUME Inv, NEW T \in (SUBSET Thread) \ {{}}, \A t \in T : \E u \in T : WaitsFor(t, u)
      PROVE  FALSE
  <2>1. PICK rank \in [Object -> Nat] :
          \A t \in Thread : \A j \in 1 .. Len(code[t]) : \A i \in 1 .. j - 1 :
            code[t][j].op \in {"lock", "rdlock"} /\ Keeps(code, t, i, j) => rank[code[t][j].on] < rank[code[t][i].on]
    BY <1>1 DEF Inv, TypeInv, Disciplined, LocksInOrder, Thread
  <2>2. ASSUME NEW t \in T
        PROVE  Current(t).on \in Object /\ Current(t).op \in {"lock", "rdlock"} /\ pc[t] \in 1 .. Len(code[t])
    BY <1>1, HeldBy
  <2> DEFINE S == {rank[Current(t).on] : t \in T}
  <2>3. S \in SUBSET Nat /\ S # {}
    BY <1>1, <2>2
  <2>4. PICK x \in S : \A y \in S : ~(y < x)
    <3> HIDE DEF S
    <3> QED BY <2>3, Smallest
  <2>5. PICK t \in T : x = rank[Current(t).on]
    BY <2>4
  <2>6. PICK u \in T : WaitsFor(t, u)
    BY <1>1
  <2>7. PICK j \in 1 .. pc[u] - 1 : code[u][j].on = Current(t).on /\ Keeps(code, u, j, pc[u])
    BY <1>1, <2>6, HeldBy
  <2>8. rank[Current(u).on] < rank[Current(t).on]
    BY <2>1, <2>2, <2>7 DEF Current
  <2> QED BY <2>4, <2>5, <2>8
<1>2. ASSUME Inv
      PROVE  HoldersGoOn
  <2>1. ASSUME NEW t \in Thread, NEW u \in Thread, WaitsFor(t, u)
        PROVE  Running(u) /\ Current(u).op \notin Waits
    BY <1>2, <2>1, HeldBy
  <2>2. \A T \in (SUBSET Thread) \ {{}} : \E t \in T : \A u \in T : ~WaitsFor(t, u)
    BY <1>1, <1>2
  <2> QED BY <2>1, <2>2 DEF HoldersGoOn
<1> QED BY <1>2, InvariantHolds, PTL

(* Both hold of the programs of the repository.                              *)
THEOREM RepositoryPrograms ==
  ASSUME Programs \subseteq {MutexProgram, CondProgram, CreateProgram}
  PROVE  Spec => [](DestroyedUnused /\ HoldersGoOn)
<1>1. \A p \in Programs : Disciplined(p)
  BY MutexDisciplined, CondDisciplined, CreateDisciplined
<1>2. Spec => []DestroyedUnused
  BY <1>1, NothingDestroyedInUse
<1>3. Spec => []HoldersGoOn
  BY <1>1, NobodyWaitsInVain
<1> QED BY <1>2, <1>3, PTL
=============================================================================
