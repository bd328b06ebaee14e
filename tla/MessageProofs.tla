--------------------------- MODULE MessageProofs ---------------------------
(***************************************************************************)
(* However many descriptors a process may have, and whatever the program   *)
(* is started with: whenever the child waits for a message it holds its    *)
(* own socket and what the program was started with, and nothing else.     *)
(*                                                                         *)
(* By itself that is not inductive: it has to be known, for each line that *)
(* the child can be at, what it holds there, and before the fork what its  *)
(* parent holds.                                                           *)
(*                                                                         *)
(* And the line that the child writes is written once, wherever it goes:   *)
(* the one message that passes a descriptor is followed from the parent    *)
(* through the socket to the child.                                        *)
(*                                                                         *)
(* From MqInv on it is the message queue that is meant, whose              *)
(* specification is MqSpec: however many runs there are, all share one     *)
(* queue, as nobody comes to mq_unlink unless the messages of another      *)
(* program are too large; and if they are, the name is removed once for    *)
(* each run that fails on them (NameRemoved).                              *)
(***************************************************************************)
EXTENDS SockPair2, PosixMq, FiniteSetTheorems, TLAPS

(* What the child holds in the end, and what the fork gives it. *)
Own  == [started EXCEPT ![sv[2]] = Socket(1)]
Both == [[started EXCEPT ![sv[1]] = Socket(0)] EXCEPT ![sv[2]] = Socket(1)]

(* sv[0] and sv[1] are two descriptors, closed before. *)
Fresh == sv[1] # sv[2] /\ started[sv[1]] = Closed /\ started[sv[2]] = Closed

(* Before the fork. *)
ParentStage ==
  /\ pc["parent"] = "socketpair" => pc["child"] = "none"
  /\ pc["parent"] = "fork" => Fresh /\ fds["parent"] = Both

(* After the fork: for a while there is one descriptor more, that fd names. *)
ChildStage ==
  /\ pc["child"] = "close" => Fresh /\ fds["child"] = Both
  /\ pc["child"] = "read" => fds["child"] = Own
  /\ pc["child"] \in {"write", "closefd"} =>
       /\ fd \in Fd /\ Own[fd] = Closed
       /\ \E file : fds["child"] = [Own EXCEPT ![fd] = file]

Tables ==
  /\ DOMAIN pc = Process /\ DOMAIN fds = Process
  /\ DOMAIN started = Fd /\ started = [f \in Fd |-> started[f]]
  /\ sv \in Fd \X Fd

IInv == Tables /\ ParentStage /\ ChildStage

-----------------------------------------------------------------------------
(* A step of the parent after the fork, or one with which it ends.          *)
LEMMA ParentGoesOn ==
  ASSUME IInv, NEW label, goto("parent", label), label \notin {"socketpair", "fork"},
         UNCHANGED <<started, sv, fd>>,
         DOMAIN fds' = Process, fds'["child"] = fds["child"]
  PROVE  IInv'
  BY DEF IInv, Tables, ParentStage, ChildStage, goto, Process, Own, Both, Fresh

(* A step of the child: what has to be shown is what it holds afterwards.   *)
LEMMA ChildGoesOn ==
  ASSUME IInv, NEW label, goto("child", label), pc["child"] # "none",
         UNCHANGED <<started, sv>>,
         DOMAIN fds' = Process, fds'["parent"] = fds["parent"],
         ChildStage'
  PROVE  IInv'
  BY DEF IInv, Tables, ParentStage, goto, Process, Both, Fresh

(* A process that ends leaves the other one's descriptors alone.            *)
LEMMA Ends ==
  ASSUME IInv, NEW p \in Process, NEW texts, End(p, texts), pc[p] # "none"
  PROVE  IInv'
<1>1. /\ goto(p, "ended") /\ fds' = [fds EXCEPT ![p] = AllClosed]
      /\ UNCHANGED <<started, sv, fd>>
  BY DEF End, Become
<1>2. CASE p = "parent"
  BY <1>1, <1>2, ParentGoesOn DEF IInv, Tables, Process
<1>3. CASE p = "child"
  <2>1. ChildStage'
    BY <1>1, <1>3 DEF ChildStage, goto, IInv, Tables, Process
  <2> QED
    BY <1>1, <1>3, <2>1, ChildGoesOn DEF IInv, Tables, Process
<1> QED
  BY <1>2, <1>3 DEF Process

(* The parent makes the sockets, on the two lowest descriptors.             *)
LEMMA SocketPairOK == ASSUME IInv, SocketPair PROVE IInv'
<1>1. PICK a \in Fd, b \in Fd :
        /\ started[a] = Closed
        /\ [started EXCEPT ![a] = Socket(0)][b] = Closed
        /\ sv' = <<a, b>>
        /\ fds' = [fds EXCEPT !["parent"] =
                     [[started EXCEPT ![a] = Socket(0)] EXCEPT ![b] = Socket(1)]]
  BY DEF SocketPair, Lowest
<1>2. Socket(0) # Closed
  BY DEF Socket, Closed
<1>3. a # b /\ started[b] = Closed
  BY <1>1, <1>2 DEF IInv, Tables
<1>4. pc["parent"] = "socketpair" /\ pc["child"] = "none" /\ goto("parent", "fork")
  BY DEF SocketPair, IInv, ParentStage
<1>5. UNCHANGED <<started, fd>>
  BY DEF SocketPair
<1>6. Tables'
  BY <1>1, <1>4, <1>5 DEF IInv, Tables, goto
<1>7. ParentStage'
  BY <1>1, <1>3, <1>4, <1>5 DEF IInv, Tables, ParentStage, Fresh, Both, goto, Process
<1>8. ChildStage'
  BY <1>4 DEF ChildStage, goto, IInv, Tables, Process
<1> QED
  BY <1>6, <1>7, <1>8 DEF IInv

(* The child starts with what its parent holds.                             *)
LEMMA ForkOK == ASSUME IInv, Fork PROVE IInv'
<1>1. /\ pc' = [parent |-> "close", child |-> "close"]
      /\ fds' = [fds EXCEPT !["child"] = fds["parent"]]
      /\ UNCHANGED <<started, sv, fd>>
      /\ Fresh /\ fds["parent"] = Both
  BY DEF Fork, IInv, ParentStage
<1>2. pc'["parent"] = "close" /\ pc'["child"] = "close" /\ DOMAIN pc' = Process
  BY <1>1 DEF Process
<1>3. Tables'
  BY <1>1, <1>2 DEF IInv, Tables
<1>4. ParentStage'
  BY <1>2 DEF ParentStage
<1>5. ChildStage'
  BY <1>1, <1>2 DEF IInv, Tables, ChildStage, Fresh, Both, Process
<1> QED
  BY <1>3, <1>4, <1>5 DEF IInv

(* The child closes the parent's socket, and has its own left. *)
LEMMA ChildCloseOK == ASSUME IInv, ChildClose PROVE IInv'
<1>1. /\ pc["child"] = "close" /\ goto("child", "read")
      /\ fds' = [fds EXCEPT !["child"][sv[1]] = Closed]
      /\ UNCHANGED <<started, sv, fd>>
      /\ Fresh /\ fds["child"] = Both
  BY DEF ChildClose, Close, Become, IInv, ChildStage
<1>2. sv[1] \in Fd /\ sv[2] \in Fd
  BY DEF IInv, Tables
<1>3. fds'["child"] = [Both EXCEPT ![sv[1]] = Closed]
  BY <1>1 DEF IInv, Tables, Process
<1>4. [Both EXCEPT ![sv[1]] = Closed] = Own
  BY <1>1, <1>2 DEF Both, Own, Fresh, IInv, Tables
<1>5. ChildStage'
  BY <1>1, <1>3, <1>4 DEF ChildStage, Own, goto, IInv, Tables, Process
<1> QED
  BY <1>1, <1>5, ChildGoesOn DEF IInv, Tables, Process

(* A message may bring a descriptor, which takes a number that was free.    *)
LEMMA ReadOK == ASSUME IInv, sock_fd_read PROVE IInv'
<1>1. pc["child"] = "read" /\ fds["child"] = Own /\ UNCHANGED <<started, sv>> /\ Own' = Own
  BY DEF sock_fd_read, IInv, ChildStage, Own
<1>2. CASE Head(queue) = Closed
  <2>1. goto("child", "read") /\ fds' = fds
    BY <1>2 DEF sock_fd_read, Become
  <2>2. ChildStage'
    BY <1>1, <2>1 DEF ChildStage, goto, IInv, Tables, Process
  <2> QED
    BY <1>1, <2>1, <2>2, ChildGoesOn DEF IInv, Tables, Process
<1>3. CASE Head(queue) # Closed
  <2>1. PICK f \in Fd :
          /\ Own[f] = Closed /\ fd' = f /\ goto("child", "write")
          /\ fds' = [fds EXCEPT !["child"][f] = Head(queue)]
    BY <1>1, <1>3 DEF sock_fd_read, Become, Lowest
  <2>2. fds'["child"] = [Own EXCEPT ![f] = Head(queue)]
    BY <1>1, <2>1 DEF IInv, Tables, Process
  <2>3. ChildStage'
    BY <1>1, <2>1, <2>2 DEF ChildStage, goto, IInv, Tables, Process
  <2> QED
    BY <1>1, <2>1, <2>3, ChildGoesOn DEF IInv, Tables, Process
<1> QED
  BY <1>2, <1>3

(* Writing changes no descriptor. *)
LEMMA ChildWriteOK == ASSUME IInv, ChildWrite PROVE IInv'
<1>1. /\ pc["child"] = "write" /\ goto("child", "closefd")
      /\ UNCHANGED <<started, sv, fd, fds>> /\ Own' = Own
  BY DEF ChildWrite, Own
<1>2. ChildStage'
  BY <1>1 DEF ChildStage, goto, IInv, Tables, Process
<1> QED
  BY <1>1, <1>2, ChildGoesOn DEF IInv, Tables, Process

(* The child closes what it was passed: what it had before is left.         *)
LEMMA ChildCloseFdOK == ASSUME IInv, ChildCloseFd PROVE IInv'
<1>1. /\ pc["child"] = "closefd" /\ goto("child", "read")
      /\ fds' = [fds EXCEPT !["child"][fd] = Closed]
      /\ UNCHANGED <<started, sv>> /\ Own' = Own
  BY DEF ChildCloseFd, Close, Become, Own
<1>2. PICK file : fds["child"] = [Own EXCEPT ![fd] = file]
  BY <1>1 DEF IInv, ChildStage
<1>3. fd \in Fd /\ Own[fd] = Closed
  BY <1>1 DEF IInv, ChildStage
<1>4. fds'["child"] = [[Own EXCEPT ![fd] = file] EXCEPT ![fd] = Closed]
  BY <1>1, <1>2 DEF IInv, Tables, Process
<1>5. [[Own EXCEPT ![fd] = file] EXCEPT ![fd] = Closed] = Own
  BY <1>3 DEF Own
<1>6. ChildStage'
  BY <1>1, <1>4, <1>5 DEF ChildStage, goto, IInv, Tables, Process
<1> QED
  BY <1>1, <1>6, ChildGoesOn DEF IInv, Tables, Process

-----------------------------------------------------------------------------
(* Every step of either process, every failure and every signal. *)
LEMMA StepOK == ASSUME IInv, Next PROVE IInv'
<1>1. CASE SocketPair
  BY <1>1, SocketPairOK
<1>2. CASE Fork
  BY <1>2, ForkOK
<1>3. CASE ParentClose
  BY <1>3, ParentGoesOn DEF ParentClose, Close, Become, IInv, Tables, Process
<1>4. CASE parent \/ parentBadDescriptor
  BY <1>4, ParentGoesOn DEF parent, parentBadDescriptor, IInv, Tables
<1>5. CASE parentBrokenPipe \/ ParentReturn \/ Fails
  <2>1. "parent" \in Process /\ pc["parent"] # "none" /\ \E m : End("parent", m)
    BY <1>5 DEF parentBrokenPipe, ParentReturn, Fails, Process
  <2> QED
    BY <2>1, Ends
<1>6. CASE ChildClose
  BY <1>6, ChildCloseOK
<1>7. CASE sock_fd_read
  BY <1>7, ReadOK
<1>8. CASE EndOfInput \/ sock_fd_readFails
  <2>1. "child" \in Process /\ pc["child"] # "none" /\ End("child", queue)
    BY <1>8 DEF EndOfInput, sock_fd_readFails, Process
  <2> QED
    BY <2>1, Ends
<1>9. CASE ChildWrite
  BY <1>9, ChildWriteOK
<1>10. CASE ChildCloseFd
  BY <1>10, ChildCloseFdOK
<1>11. ASSUME NEW p \in Process, Kill(p) PROVE IInv'
  BY <1>11, Ends DEF Kill
<1> QED
  BY <1>1, <1>2, <1>3, <1>4, <1>5, <1>6, <1>7, <1>8, <1>9, <1>10, <1>11
  DEF Next, Parent, Child

(* At every line each process holds what the code has left it there.        *)
THEOREM InvariantHolds == Spec => []IInv
<1>1. Init => IInv
  <2> SUFFICES ASSUME Init PROVE IInv
    OBVIOUS
  <2>1. started \in [Fd -> {Closed} \cup {Std(k) : k \in 0 .. 2}]
    BY DEF Init
  <2>2. 0 \in Fd
    BY MaxFdAssumption DEF MaxFdAssumption, Fd
  <2>3. Tables
    <3>1. DOMAIN started = Fd /\ started = [f \in Fd |-> started[f]]
      BY <2>1
    <3>2. sv = <<0, 0>> /\ <<0, 0>> \in Fd \X Fd
      BY <2>2 DEF Init
    <3>3. DOMAIN pc = Process /\ DOMAIN fds = Process
      BY DEF Init
    <3> QED
      BY <3>1, <3>2, <3>3 DEF Tables
  <2>4. pc["parent"] = "socketpair" /\ pc["child"] = "none"
    BY DEF Init, Process
  <2> QED
    BY <2>3, <2>4 DEF IInv, ParentStage, ChildStage
<1>2. IInv /\ [Next]_vars => IInv'
  <2>1. ASSUME IInv, UNCHANGED vars PROVE IInv'
    <3>1. UNCHANGED <<pc, fds, started, sv, fd>> /\ Own' = Own /\ Both' = Both
      BY <2>1 DEF vars, Own, Both
    <3>2. Tables'
      BY <2>1, <3>1 DEF IInv, Tables
    <3>3. ParentStage' /\ ChildStage'
      BY <2>1, <3>1 DEF IInv, ParentStage, ChildStage, Fresh
    <3> QED
      BY <3>2, <3>3 DEF IInv
  <2> QED
    BY <2>1, StepOK
<1> QED
  BY <1>1, <1>2, PTL DEF Spec

(* Whenever the child waits for a message it holds its own socket and what  *)
(* the program was started with: neither the other socket nor anything it   *)
(* has been passed.                                                         *)
THEOREM ChildKeepsNothing == Spec => []NoDescriptorLeft
<1>1. IInv => NoDescriptorLeft
  BY DEF IInv, ChildStage, NoDescriptorLeft, Own
<1> QED
  BY <1>1, InvariantHolds, PTL

-----------------------------------------------------------------------------
(***************************************************************************)
(* The line that the child writes.  Of all messages one at most passes a   *)
(* descriptor, and whoever has it -- the parent, the socket, the child --  *)
(* nobody else has, and the line is not yet written.                       *)
(***************************************************************************)
Passable == {Closed, Socket(0)} \cup {Std(k) : k \in 0 .. 2}

NothingPassed(q) == \A i \in 1 .. Len(q) : q[i] = Closed
OnePassed(q) == \A i, j \in 1 .. Len(q) : q[i] # Closed /\ q[j] # Closed => i = j

NotSent == pc["parent"] \in {"socketpair", "fork", "close", "write"}

(* What the parent holds until it has sent its message and ends. *)
ParentHolds ==
  /\ pc["parent"] \in {"close", "write", "return"} => Fresh
  /\ pc["parent"] = "close" => fds["parent"] = Both
  /\ pc["parent"] \in {"write", "return"} => fds["parent"] = [Both EXCEPT ![sv[2]] = Closed]

Labels ==
  /\ pc["parent"] \in {"socketpair", "fork", "close", "write", "return", "ended"}
  /\ pc["child"] \in {"none", "close", "read", "write", "closefd", "ended"}
  /\ pc["parent"] \in {"socketpair", "fork"} => pc["child"] = "none"
  /\ pc["child"] = "none" => pc["parent"] \in {"socketpair", "fork", "ended"}
  /\ pc["child"] = "none" /\ pc["parent"] = "ended" => failed # {}

PassedOnce ==
  /\ queue \in Seq(Passable) /\ hello \in {0, 1}
  /\ OnePassed(queue)
  /\ NotSent => NothingPassed(queue) /\ pc["child"] # "write" /\ hello = 0
  /\ ~NothingPassed(queue) => pc["child"] # "write" /\ hello = 0
  /\ pc["child"] = "write" => hello = 0

(* If the program has a standard output, it is what is passed, and nobody   *)
(* who does not fail loses it.                                              *)
Delivered ==
  started[STDOUT_FILENO] # Closed =>
    /\ queue \in Seq({Closed, started[STDOUT_FILENO]})
    /\ pc["child"] = "write" => fds["child"][fd] = started[STDOUT_FILENO]
    /\ failed = {} /\ pc["child"] = "ended" => pc["parent"] = "ended"
    /\ failed = {} /\ ~NotSent => ~NothingPassed(queue) \/ pc["child"] = "write" \/ hello = 1
    /\ pc["child"] = "ended" /\ ~NothingPassed(queue) => failed # {}

HInv == ParentHolds /\ Labels /\ PassedOnce /\ Delivered

(* What is known of a queue when a message is added or taken. *)
LEMMA MessageAdded ==
  ASSUME NEW S, NEW q \in Seq(S), NEW m \in S
  PROVE  /\ Append(q, m) \in Seq(S)
         /\ NothingPassed(q) => OnePassed(Append(q, m))
         /\ m # Closed => ~NothingPassed(Append(q, m))
         /\ ~NothingPassed(q) => ~NothingPassed(Append(q, m))
         /\ m = Closed /\ NothingPassed(q) => NothingPassed(Append(q, m))
         /\ m = Closed /\ OnePassed(q) => OnePassed(Append(q, m))
<1> DEFINE p == Append(q, m)
<1>1. /\ p \in Seq(S) /\ Len(p) = Len(q) + 1 /\ Len(q) \in Nat
      /\ p[Len(q) + 1] = m
      /\ \A i \in 1 .. Len(q) : p[i] = q[i]
  OBVIOUS
<1> HIDE DEF p
<1>2. \A i \in 1 .. Len(p) : i = Len(q) + 1 \/ i \in 1 .. Len(q)
  BY <1>1
<1>3. \A i \in 1 .. Len(q) : i \in 1 .. Len(p)
  BY <1>1
<1>4. Len(q) + 1 \in 1 .. Len(p)
  BY <1>1
<1>5. m # Closed => ~NothingPassed(p)
  BY <1>1, <1>4 DEF NothingPassed
<1>6. ~NothingPassed(q) => ~NothingPassed(p)
  BY <1>1, <1>3 DEF NothingPassed
<1>7. m = Closed /\ NothingPassed(q) => NothingPassed(p)
  BY <1>1, <1>2 DEF NothingPassed
<1>8. NothingPassed(q) => OnePassed(p)
  BY <1>1, <1>2 DEF NothingPassed, OnePassed
<1>9. m = Closed /\ OnePassed(q) => OnePassed(p)
  BY <1>1, <1>2 DEF OnePassed
<1> QED
  BY <1>1, <1>5, <1>6, <1>7, <1>8, <1>9 DEF p

LEMMA MessageTaken ==
  ASSUME NEW S, NEW q \in Seq(S), q # <<>>, OnePassed(q)
  PROVE  /\ Head(q) \in S /\ Tail(q) \in Seq(S)
         /\ OnePassed(Tail(q))
         /\ NothingPassed(q) => NothingPassed(Tail(q)) /\ Head(q) = Closed
         /\ Head(q) # Closed => NothingPassed(Tail(q)) /\ ~NothingPassed(q)
         /\ Head(q) = Closed /\ ~NothingPassed(q) => ~NothingPassed(Tail(q))
<1> DEFINE p == Tail(q)
<1>1. /\ p \in Seq(S) /\ Len(p) = Len(q) - 1 /\ Len(q) \in Nat \ {0}
      /\ Head(q) = q[1] /\ q[1] \in S
      /\ \A i \in 1 .. Len(p) : p[i] = q[i + 1]
  OBVIOUS
<1> HIDE DEF p
<1>2. \A i \in 1 .. Len(p) : i + 1 \in 1 .. Len(q) /\ i + 1 # 1 /\ i \in Int
  BY <1>1
<1>3. 1 \in 1 .. Len(q)
  BY <1>1
<1>4. OnePassed(p)
  <2> SUFFICES ASSUME NEW i \in 1 .. Len(p), NEW j \in 1 .. Len(p), p[i] # Closed, p[j] # Closed
               PROVE  i = j
    BY DEF OnePassed
  <2>1. i + 1 = j + 1
    BY <1>1, <1>2 DEF OnePassed
  <2> QED
    BY <1>2, <2>1
<1>5. NothingPassed(q) => NothingPassed(p) /\ q[1] = Closed
  BY <1>1, <1>2, <1>3 DEF NothingPassed
<1>6. q[1] # Closed => NothingPassed(p) /\ ~NothingPassed(q)
  BY <1>1, <1>2, <1>3 DEF NothingPassed, OnePassed
<1>7. q[1] = Closed /\ ~NothingPassed(q) => ~NothingPassed(p)
  <2> SUFFICES ASSUME q[1] = Closed, NothingPassed(p) PROVE NothingPassed(q)
    OBVIOUS
  <2> SUFFICES ASSUME NEW i \in 1 .. Len(q), i # 1 PROVE q[i] = Closed
    BY DEF NothingPassed
  <2>1. i - 1 \in 1 .. Len(p) /\ i = (i - 1) + 1
    BY <1>1
  <2> QED
    BY <1>1, <2>1 DEF NothingPassed
<1> QED
  BY <1>1, <1>4, <1>5, <1>6, <1>7 DEF p

(* Files are of different kinds. *)
LEMMA FilesDiffer ==
  /\ \A e : Socket(e) # Closed
  /\ \A k : Std(k) # Closed
  /\ \A e, k : Std(k) # Socket(e)
  BY DEF Socket, Closed, Std

(* As long as the child is there it can read: no message is lost. *)
LEMMA ChildCanRead ==
  ASSUME IInv, pc["child"] \in {"close", "read", "write", "closefd"}
  PROVE  fds["child"][sv[2]] = Socket(1) /\ sv[2] \in Fd
<1>1. sv[2] \in Fd /\ sv[1] \in Fd /\ DOMAIN started = Fd
  BY DEF IInv, Tables
<1>2. Own[sv[2]] = Socket(1) /\ Both[sv[2]] = Socket(1)
  BY <1>1 DEF Own, Both
<1>3. CASE pc["child"] = "close"
  BY <1>1, <1>2, <1>3 DEF IInv, ChildStage
<1>4. CASE pc["child"] = "read"
  BY <1>1, <1>2, <1>4 DEF IInv, ChildStage
<1>5. CASE pc["child"] \in {"write", "closefd"}
  <2>1. PICK file : fds["child"] = [Own EXCEPT ![fd] = file]
    BY <1>5 DEF IInv, ChildStage
  <2>2. Own[fd] = Closed
    BY <1>5 DEF IInv, ChildStage
  <2>3. fd # sv[2]
    BY <1>2, <2>2, FilesDiffer
  <2> QED
    BY <1>1, <1>2, <2>1, <2>3 DEF Own
<1> QED
  BY <1>3, <1>4, <1>5

(* What the program was started with stays what it is. *)
StartedOK == started \in [Fd -> {Closed} \cup {Std(k) : k \in 0 .. 2}]

LEMMA StartedStays == Spec => []StartedOK
<1>1. Init => StartedOK
  BY DEF Init, StartedOK
<1>2. StartedOK /\ [Next]_vars => StartedOK'
  <2> SUFFICES ASSUME StartedOK, [Next]_vars PROVE StartedOK'
    OBVIOUS
  <2>1. started' = started
    BY DEF Next, Parent, Child, vars, SocketPair, Fork, Fails, End, ParentClose, parent,
           parentBadDescriptor, parentBrokenPipe, ParentReturn, ChildClose, sock_fd_read,
           EndOfInput, ChildWrite, ChildCloseFd, sock_fd_readFails, Kill
  <2> QED
    BY <2>1 DEF StartedOK
<1> QED
  BY <1>1, <1>2, PTL DEF Spec

ChildReads ==
  pc["child"] \in {"close", "read", "write", "closefd"} =>
    fds["child"][sv[2]] = Socket(1) /\ sv[2] \in Fd

LEMMA ChildReadsOK == IInv => ChildReads
  BY ChildCanRead DEF ChildReads

LEMMA QueueKept ==
  ASSUME IInv', NEW texts, Become(fds', texts)
  PROVE  /\ queue' \in {texts, <<>>}
         /\ pc'["child"] \in {"close", "read", "write", "closefd"} => queue' = texts
<1>1. ChildReads'
  BY ChildReadsOK, PTL
<1>2. ASSUME pc'["child"] \in {"close", "read", "write", "closefd"}
      PROVE  Open(fds', 1)
  BY <1>1, <1>2 DEF ChildReads, Open, Has, Process
<1> QED
  BY <1>2 DEF Become

(* What may be left of a queue that nobody can read. *)
LEMMA NothingLeft ==
  /\ NothingPassed(<<>>) /\ OnePassed(<<>>)
  /\ \A S : <<>> \in Seq(S)
  BY DEF NothingPassed, OnePassed

-----------------------------------------------------------------------------
Inv == IInv /\ StartedOK /\ HInv

(* The labels that a step may go to. *)
LEMMA ParentLabels ==
  ASSUME Inv, NEW label, goto("parent", label)
  PROVE  pc'["parent"] = label /\ pc'["child"] = pc["child"]
  BY DEF Inv, IInv, Tables, goto, Process

LEMMA ChildLabels ==
  ASSUME Inv, NEW label, goto("child", label)
  PROVE  pc'["child"] = label /\ pc'["parent"] = pc["parent"]
  BY DEF Inv, IInv, Tables, goto, Process

LEMMA SocketPairPasses == ASSUME Inv, SocketPair PROVE HInv'
<1>1. /\ pc["parent"] = "socketpair" /\ pc'["parent"] = "fork" /\ pc'["child"] = pc["child"]
      /\ UNCHANGED <<started, fd, queue, hello, failed>>
  BY ParentLabels DEF SocketPair
<1>2. pc["child"] = "none" /\ NotSent /\ NotSent'
  BY <1>1 DEF Inv, HInv, Labels, NotSent
<1> QED
  BY <1>1, <1>2 DEF Inv, HInv, ParentHolds, Labels, PassedOnce, Delivered

LEMMA ForkPasses == ASSUME Inv, Fork PROVE HInv'
<1>1. /\ pc["parent"] = "fork" /\ pc'["parent"] = "close" /\ pc'["child"] = "close"
      /\ fds' = [fds EXCEPT !["child"] = fds["parent"]]
      /\ UNCHANGED <<started, sv, fd, queue, hello, failed>>
  BY DEF Fork
<1>2. pc["child"] = "none" /\ NotSent /\ NotSent' /\ Fresh /\ fds["parent"] = Both
  BY <1>1 DEF Inv, HInv, Labels, NotSent, IInv, ParentStage
<1>3. fds'["parent"] = fds["parent"] /\ Both' = Both /\ Fresh'
  BY <1>1, <1>2 DEF Inv, IInv, Tables, Process, Both, Fresh
<1> QED
  BY <1>1, <1>2, <1>3 DEF Inv, HInv, ParentHolds, Labels, PassedOnce, Delivered

LEMMA ParentClosePasses == ASSUME Inv, IInv', ParentClose PROVE HInv'
<1>1. /\ pc["parent"] = "close" /\ pc'["parent"] = "write" /\ pc'["child"] = pc["child"]
      /\ Become([fds EXCEPT !["parent"][sv[2]] = Closed], queue)
      /\ UNCHANGED <<started, sv, fd, hello, failed>>
  BY ParentLabels DEF ParentClose, Close
<1>2. /\ NotSent /\ NotSent' /\ Fresh /\ fds["parent"] = Both
      /\ pc["child"] \notin {"none", "write"}
  BY <1>1 DEF Inv, HInv, Labels, NotSent, ParentHolds, PassedOnce
<1>3. fds' = [fds EXCEPT !["parent"][sv[2]] = Closed]
  BY <1>1 DEF Become
<1>4. /\ fds'["parent"] = [Both EXCEPT ![sv[2]] = Closed] /\ fds'["child"] = fds["child"]
      /\ Both' = Both /\ Fresh'
  BY <1>1, <1>2, <1>3 DEF Inv, IInv, Tables, Process, Both, Fresh
<1>5. queue' \in {queue, <<>>}
  BY <1>1, <1>3, QueueKept
<1>6. NothingPassed(queue) /\ OnePassed(queue) /\ hello = 0
  BY <1>2 DEF Inv, HInv, PassedOnce
<1>7. NothingPassed(queue') /\ OnePassed(queue') /\ \A S : queue \in Seq(S) => queue' \in Seq(S)
  BY <1>5, <1>6, NothingLeft
<1>8. ParentHolds'
  BY <1>1, <1>4 DEF ParentHolds
<1>9. Labels'
  BY <1>1, <1>2 DEF Inv, HInv, Labels
<1>10. PassedOnce'
  BY <1>1, <1>2, <1>6, <1>7 DEF Inv, HInv, PassedOnce
<1>11. Delivered'
  BY <1>1, <1>2, <1>4, <1>6, <1>7 DEF Inv, HInv, Delivered
<1> QED
  BY <1>8, <1>9, <1>10, <1>11 DEF HInv

(* What descriptor 1 of the parent is for, when it sends its message. *)
LEMMA ParentOutput ==
  ASSUME Inv, pc["parent"] \in {"write", "return"}
  PROVE  LET m == fds["parent"][STDOUT_FILENO] IN
         /\ m \in Passable
         /\ started[STDOUT_FILENO] # Closed => m = started[STDOUT_FILENO] /\ m # Socket(0)
<1>1. /\ fds["parent"] = [Both EXCEPT ![sv[2]] = Closed] /\ Fresh
      /\ sv[1] \in Fd /\ sv[2] \in Fd /\ STDOUT_FILENO \in Fd
      /\ started \in [Fd -> {Closed} \cup {Std(k) : k \in 0 .. 2}]
  BY MaxFdAssumption DEF Inv, HInv, ParentHolds, IInv, Tables, StartedOK, Fd, STDOUT_FILENO
<1>2. fds["parent"][STDOUT_FILENO] =
        IF STDOUT_FILENO = sv[2] THEN Closed
        ELSE IF STDOUT_FILENO = sv[1] THEN Socket(0) ELSE started[STDOUT_FILENO]
  BY <1>1 DEF Both
<1>3. started[STDOUT_FILENO] \in {Closed} \cup {Std(k) : k \in 0 .. 2}
  BY <1>1
<1>4. fds["parent"][STDOUT_FILENO] \in Passable
  BY <1>2, <1>3 DEF Passable
<1>5. started[STDOUT_FILENO] # Closed => STDOUT_FILENO # sv[1] /\ STDOUT_FILENO # sv[2]
  BY <1>1 DEF Fresh
<1> QED
  BY <1>2, <1>3, <1>4, <1>5, FilesDiffer

LEMMA ParentPasses == ASSUME Inv, parent \/ parentBadDescriptor PROVE HInv'
<1> DEFINE m == fds["parent"][STDOUT_FILENO]
<1>1. /\ pc["parent"] = "write" /\ pc'["parent"] = "return" /\ pc'["child"] = pc["child"]
      /\ UNCHANGED <<started, fds, sv, fd, hello, failed>>
  BY ParentLabels DEF parent, parentBadDescriptor
<1>2. /\ m \in Passable
      /\ started[STDOUT_FILENO] # Closed => m = started[STDOUT_FILENO]
  BY <1>1, ParentOutput
<1>3. /\ NotSent /\ ~NotSent' /\ NothingPassed(queue) /\ hello = 0
      /\ pc["child"] \notin {"none", "write"} /\ queue \in Seq(Passable)
  BY <1>1 DEF Inv, HInv, NotSent, PassedOnce, Labels
<1>4. \/ m # Closed /\ queue' = Append(queue, m)
      \/ m = Closed /\ queue' = queue
  BY DEF parent, parentBadDescriptor
<1> HIDE DEF m
<1>5. queue' \in Seq(Passable) /\ OnePassed(queue') /\ (m # Closed => ~NothingPassed(queue'))
  <2>1. m \in Passable /\ queue \in Seq(Passable) /\ NothingPassed(queue)
    BY <1>2, <1>3
  <2>2. /\ Append(queue, m) \in Seq(Passable)
        /\ NothingPassed(queue) => OnePassed(Append(queue, m))
        /\ m # Closed => ~NothingPassed(Append(queue, m))
    BY <2>1, MessageAdded, Zenon
  <2>3. OnePassed(queue)
    BY DEF Inv, HInv, PassedOnce
  <2> QED
    BY <1>4, <2>1, <2>2, <2>3
<1>6. m # Closed => ~NothingPassed(queue')
  BY <1>5
<1>7. started[STDOUT_FILENO] # Closed => queue' \in Seq({Closed, started[STDOUT_FILENO]})
  BY <1>2, <1>4, MessageAdded DEF Inv, HInv, Delivered
<1>8. ParentHolds' /\ Labels'
  BY <1>1, <1>3 DEF Inv, HInv, ParentHolds, Labels, Fresh, Both
<1>9. PassedOnce'
  BY <1>1, <1>3, <1>5 DEF Inv, HInv, PassedOnce
<1>10. started[STDOUT_FILENO] # Closed /\ failed = {} => pc["child"] # "ended"
  BY <1>1 DEF Inv, HInv, Delivered
<1>11. Delivered'
  BY <1>1, <1>2, <1>3, <1>6, <1>7, <1>10 DEF Delivered
<1> QED
  BY <1>8, <1>9, <1>11 DEF HInv

LEMMA EndFailedPasses ==
  ASSUME Inv, IInv', NEW p \in Process, pc[p] \notin {"none", "ended"},
         End(p, queue), failed' = failed \cup {p}
  PROVE  HInv'
<1>1. /\ goto(p, "ended") /\ fds' = [fds EXCEPT ![p] = AllClosed]
      /\ Become(fds', queue)
      /\ UNCHANGED <<started, sv, fd, hello>>
  BY DEF End, Become
<1>2. queue' \in {queue, <<>>}
  BY <1>1, QueueKept
<1>3. /\ NothingPassed(queue) => NothingPassed(queue')
      /\ OnePassed(queue) => OnePassed(queue')
      /\ \A S : queue \in Seq(S) => queue' \in Seq(S)
  BY <1>2, NothingLeft
<1>4. failed' # {}
  BY <1>1
<1>5. OnePassed(queue) /\ queue \in Seq(Passable)
  BY DEF Inv, HInv, PassedOnce
<1>6. CASE p = "parent"
  <2>1. /\ pc'["parent"] = "ended" /\ pc'["child"] = pc["child"]
        /\ fds'["child"] = fds["child"]
    BY <1>1, <1>6, ParentLabels DEF Inv, IInv, Tables, Process
  <2>2. ~NotSent'
    BY <2>1 DEF NotSent
  <2>3. ParentHolds' /\ Labels'
    BY <1>4, <2>1 DEF Inv, HInv, ParentHolds, Labels
  <2>4. PassedOnce'
    BY <1>1, <1>3, <1>5, <2>1, <2>2 DEF Inv, HInv, PassedOnce
  <2>5. Delivered'
    BY <1>1, <1>3, <1>4, <2>1, <2>2 DEF Inv, HInv, Delivered
  <2> QED
    BY <2>3, <2>4, <2>5 DEF HInv
<1>7. CASE p = "child"
  <2>1. /\ pc'["child"] = "ended" /\ pc'["parent"] = pc["parent"]
        /\ fds'["parent"] = fds["parent"] /\ pc["child"] # "none"
    BY <1>1, <1>7, ChildLabels DEF Inv, IInv, Tables, Process
  <2>2. NotSent' = NotSent /\ Both' = Both /\ Fresh' = Fresh
    BY <1>1, <2>1 DEF NotSent, Both, Fresh
  <2>3. ParentHolds' /\ Labels'
    BY <1>1, <1>4, <2>1, <2>2 DEF Inv, HInv, ParentHolds, Labels
  <2>4. PassedOnce'
    BY <1>1, <1>3, <1>5, <2>1, <2>2 DEF Inv, HInv, PassedOnce
  <2>5. Delivered'
    BY <1>1, <1>3, <1>4, <2>1, <2>2 DEF Inv, HInv, Delivered
  <2> QED
    BY <2>3, <2>4, <2>5 DEF HInv
<1> QED
  BY <1>6, <1>7 DEF Process

LEMMA ParentReturnPasses == ASSUME Inv, IInv', ParentReturn PROVE HInv'
<1> DEFINE texts == IF fds["parent"][STDOUT_FILENO] = Socket(0)
                       THEN Append(queue, Closed) ELSE queue
<1>1. /\ pc["parent"] = "return" /\ pc'["parent"] = "ended" /\ pc'["child"] = pc["child"]
      /\ Become([fds EXCEPT !["parent"] = AllClosed], texts)
      /\ UNCHANGED <<started, sv, fd, hello, failed>>
  BY ParentLabels DEF ParentReturn, End
<1>2. fds' = [fds EXCEPT !["parent"] = AllClosed] /\ fds'["child"] = fds["child"]
  BY <1>1 DEF Become, Inv, IInv, Tables, Process
<1>3. ~NotSent /\ ~NotSent' /\ pc["child"] # "none"
  BY <1>1 DEF NotSent, Inv, HInv, Labels
<1>4. /\ queue' \in {texts, <<>>}
      /\ pc["child"] \in {"close", "read", "write", "closefd"} => queue' = texts
  BY <1>1, <1>2, QueueKept
<1>5. OnePassed(queue) /\ queue \in Seq(Passable) /\ Closed \in Passable
  BY DEF Inv, HInv, PassedOnce, Passable
<1>6. /\ OnePassed(texts) /\ texts \in Seq(Passable)
      /\ NothingPassed(queue) <=> NothingPassed(texts)
  <2>1. /\ Append(queue, Closed) \in Seq(Passable)
        /\ ~NothingPassed(queue) => ~NothingPassed(Append(queue, Closed))
        /\ NothingPassed(queue) => NothingPassed(Append(queue, Closed))
        /\ OnePassed(queue) => OnePassed(Append(queue, Closed))
    BY <1>5, MessageAdded
  <2> QED
    BY <1>5, <2>1
<1>7. started[STDOUT_FILENO] # Closed => texts = queue
  BY <1>1, ParentOutput
<1> HIDE DEF texts
<1>8. /\ OnePassed(queue') /\ queue' \in Seq(Passable)
      /\ NothingPassed(queue) => NothingPassed(queue')
  BY <1>4, <1>6, NothingLeft
<1>9. ParentHolds' /\ Labels'
  BY <1>1, <1>3 DEF Inv, HInv, ParentHolds, Labels
<1>10. PassedOnce'
  BY <1>1, <1>3, <1>8 DEF Inv, HInv, PassedOnce
<1>11. Delivered'
  <2> SUFFICES ASSUME started[STDOUT_FILENO] # Closed
               PROVE  Delivered'
    BY <1>1 DEF Delivered
  <2>1. queue' \in Seq({Closed, started[STDOUT_FILENO]})
    BY <1>4, <1>7, NothingLeft DEF Inv, HInv, Delivered
  <2>2. failed = {} => pc["child"] # "ended"
    BY <1>1 DEF Inv, HInv, Delivered
  <2>3. pc["child"] \in {"close", "read", "write", "closefd", "ended"}
    BY <1>3 DEF Inv, HInv, Labels
  <2>4. failed = {} => queue' = queue
    BY <1>4, <1>7, <2>2, <2>3
  <2> QED
    BY <1>1, <1>2, <1>3, <1>8, <2>1, <2>2, <2>4 DEF Inv, HInv, Delivered
<1> QED
  BY <1>9, <1>10, <1>11 DEF HInv

-----------------------------------------------------------------------------
(* The child's steps that leave the message where it is. *)
LEMMA ChildGoesOnPasses ==
  ASSUME Inv, goto("child", "read"),
         pc["child"] \in {"close", "closefd"}, fds'["parent"] = fds["parent"],
         UNCHANGED <<started, sv, hello, failed, queue>>
  PROVE  HInv'
<1>1. /\ pc'["child"] = "read" /\ pc'["parent"] = pc["parent"]
      /\ NotSent' = NotSent /\ Both' = Both /\ Fresh' = Fresh
  BY ChildLabels DEF NotSent, Both, Fresh
<1>2. ParentHolds' /\ Labels'
  BY <1>1 DEF Inv, HInv, ParentHolds, Labels
<1>3. PassedOnce'
  BY <1>1 DEF Inv, HInv, PassedOnce
<1>4. Delivered'
  BY <1>1 DEF Inv, HInv, Delivered
<1> QED
  BY <1>2, <1>3, <1>4 DEF HInv

LEMMA ChildClosePasses == ASSUME Inv, IInv', ChildClose \/ ChildCloseFd PROVE HInv'
<1>1. PICK f : /\ pc["child"] \in {"close", "closefd"} /\ goto("child", "read")
               /\ Become([fds EXCEPT !["child"][f] = Closed], queue)
               /\ UNCHANGED <<started, sv, hello, failed>>
  BY DEF ChildClose, ChildCloseFd, Close
<1>2. fds' = [fds EXCEPT !["child"][f] = Closed] /\ fds'["parent"] = fds["parent"]
  BY <1>1 DEF Become, Inv, IInv, Tables, Process
<1>3. pc'["child"] = "read"
  BY <1>1, ChildLabels
<1>4. queue' = queue
  BY <1>1, <1>2, <1>3, QueueKept
<1> QED
  BY <1>1, <1>2, <1>4, ChildGoesOnPasses

(* The end of the input: the parent has ended, for it would hold the other  *)
(* socket, and what it has sent has been read.                              *)
LEMMA EndOfInputPasses == ASSUME Inv, IInv', EndOfInput PROVE HInv'
<1>1. /\ pc["child"] = "read" /\ queue = <<>> /\ ~Open(fds, 0)
      /\ pc'["child"] = "ended" /\ pc'["parent"] = pc["parent"]
      /\ Become([fds EXCEPT !["child"] = AllClosed], queue)
      /\ UNCHANGED <<started, sv, fd, hello, failed>>
  BY ChildLabels DEF EndOfInput, End
<1>2. fds' = [fds EXCEPT !["child"] = AllClosed] /\ fds'["parent"] = fds["parent"]
  BY <1>1 DEF Become, Inv, IInv, Tables, Process
<1>3. queue' = <<>>
  BY <1>1 DEF Become
<1>4. pc["parent"] = "ended"
  <2>1. pc["parent"] \in {"close", "write", "return", "ended"}
    BY <1>1 DEF Inv, HInv, Labels
  <2>2. ASSUME pc["parent"] \in {"close", "write", "return"} PROVE FALSE
    <3>1. /\ Fresh /\ sv[1] \in Fd /\ sv[2] \in Fd /\ DOMAIN started = Fd
          /\ fds["parent"] \in {Both, [Both EXCEPT ![sv[2]] = Closed]}
      BY <2>2 DEF Inv, HInv, ParentHolds, IInv, Tables
    <3>2. fds["parent"][sv[1]] = Socket(0)
      BY <3>1 DEF Both, Fresh
    <3> QED
      BY <1>1, <3>1, <3>2 DEF Open, Has, Process
  <2> QED
    BY <2>1, <2>2
<1>5. ~NotSent /\ ~NotSent' /\ NothingPassed(queue)
  BY <1>1, <1>4, NothingLeft DEF NotSent
<1>6. ParentHolds' /\ Labels'
  BY <1>1, <1>4 DEF Inv, HInv, ParentHolds, Labels
<1>7. PassedOnce'
  BY <1>1, <1>3, <1>5, NothingLeft DEF Inv, HInv, PassedOnce
<1>8. Delivered'
  BY <1>1, <1>3, <1>4, <1>5, NothingLeft DEF Inv, HInv, Delivered
<1> QED
  BY <1>6, <1>7, <1>8 DEF HInv

LEMMA ReadPasses == ASSUME Inv, IInv', sock_fd_read PROVE HInv'
<1>1. pc["child"] = "read" /\ queue # <<>> /\ UNCHANGED <<started, sv, hello, failed>>
  BY DEF sock_fd_read
<1>2. queue \in Seq(Passable) /\ OnePassed(queue)
  BY DEF Inv, HInv, PassedOnce
<1>3. /\ Head(queue) \in Passable /\ Tail(queue) \in Seq(Passable)
      /\ OnePassed(Tail(queue))
      /\ NothingPassed(queue) => NothingPassed(Tail(queue)) /\ Head(queue) = Closed
      /\ Head(queue) # Closed => NothingPassed(Tail(queue)) /\ ~NothingPassed(queue)
      /\ Head(queue) = Closed /\ ~NothingPassed(queue) => ~NothingPassed(Tail(queue))
  BY <1>1, <1>2, MessageTaken, Zenon
<1>4. started[STDOUT_FILENO] # Closed =>
        /\ Head(queue) \in {Closed, started[STDOUT_FILENO]}
        /\ Tail(queue) \in Seq({Closed, started[STDOUT_FILENO]})
  <2> SUFFICES ASSUME started[STDOUT_FILENO] # Closed
               PROVE  /\ Head(queue) \in {Closed, started[STDOUT_FILENO]}
                      /\ Tail(queue) \in Seq({Closed, started[STDOUT_FILENO]})
    OBVIOUS
  <2>1. queue \in Seq({Closed, started[STDOUT_FILENO]})
    BY DEF Inv, HInv, Delivered
  <2> QED
    BY <1>1, <1>2, <2>1, MessageTaken, Zenon
<1>5. Become(fds', Tail(queue))
  BY DEF sock_fd_read, Become
<1>6. CASE Head(queue) = Closed
  <2>1. /\ pc'["child"] = "read" /\ pc'["parent"] = pc["parent"] /\ fds' = fds
    BY <1>6, ChildLabels DEF sock_fd_read, Become
  <2>2. queue' = Tail(queue)
    BY <1>5, <2>1, QueueKept
  <2>3. NotSent' = NotSent /\ Both' = Both /\ Fresh' = Fresh
    BY <1>1, <2>1 DEF NotSent, Both, Fresh
  <2>4. ParentHolds' /\ Labels'
    BY <1>1, <2>1, <2>3 DEF Inv, HInv, ParentHolds, Labels
  <2>5. PassedOnce'
    BY <1>1, <1>3, <1>6, <2>1, <2>2, <2>3 DEF Inv, HInv, PassedOnce
  <2>6. Delivered'
    BY <1>1, <1>3, <1>4, <1>6, <2>1, <2>2, <2>3 DEF Inv, HInv, Delivered
  <2> QED
    BY <2>4, <2>5, <2>6 DEF HInv
<1>7. CASE Head(queue) # Closed
  <2>1. PICK f \in Fd :
          /\ Lowest(fds["child"], f) /\ fd' = f /\ goto("child", "write")
          /\ fds' = [fds EXCEPT !["child"][f] = Head(queue)]
    BY <1>7 DEF sock_fd_read, Become
  <2>2. pc'["child"] = "write" /\ pc'["parent"] = pc["parent"]
    BY <2>1, ChildLabels
  <2>3. queue' = Tail(queue)
    BY <1>5, <2>2, QueueKept
  <2>4. fds["child"] = Own /\ DOMAIN started = Fd
    BY <1>1 DEF Inv, IInv, ChildStage, Tables
  <2>5. fds'["parent"] = fds["parent"] /\ fds'["child"][fd'] = Head(queue)
    BY <2>1, <2>4 DEF Inv, IInv, Tables, Process, Own
  <2>6. NotSent' = NotSent /\ Both' = Both /\ Fresh' = Fresh
    BY <1>1, <2>2 DEF NotSent, Both, Fresh
  <2>7. ~NotSent /\ hello = 0 /\ NothingPassed(queue')
    BY <1>3, <1>7, <2>3 DEF Inv, HInv, PassedOnce
  <2>8. ParentHolds' /\ Labels'
    BY <1>1, <2>2, <2>5, <2>6 DEF Inv, HInv, ParentHolds, Labels
  <2>9. PassedOnce'
    BY <1>1, <1>3, <2>2, <2>3, <2>6, <2>7 DEF Inv, HInv, PassedOnce
  <2>10. Delivered'
    BY <1>1, <1>4, <1>7, <2>2, <2>3, <2>5, <2>7 DEF Inv, HInv, Delivered
  <2> QED
    BY <2>8, <2>9, <2>10 DEF HInv
<1> QED
  BY <1>6, <1>7

LEMMA ChildWritePasses == ASSUME Inv, ChildWrite PROVE HInv'
<1>1. /\ pc["child"] = "write" /\ pc'["child"] = "closefd" /\ pc'["parent"] = pc["parent"]
      /\ UNCHANGED <<started, fds, sv, fd, failed>>
  BY ChildLabels DEF ChildWrite
<1>2. NotSent' = NotSent /\ Both' = Both /\ Fresh' = Fresh
  BY <1>1 DEF NotSent, Both, Fresh
<1>3. ~NotSent /\ hello = 0 /\ NothingPassed(queue) /\ OnePassed(queue) /\ queue \in Seq(Passable)
  BY <1>1 DEF Inv, HInv, PassedOnce
<1>4. ParentHolds' /\ Labels'
  BY <1>1, <1>2 DEF Inv, HInv, ParentHolds, Labels
<1>5. CASE fds["child"][fd] = Socket(0)
  <2>1. queue' = Append(queue, Closed) /\ hello' = hello
    BY <1>5 DEF ChildWrite
  <2>2. Closed \in Passable
    BY DEF Passable
  <2>3. /\ Append(queue, Closed) \in Seq(Passable)
        /\ NothingPassed(queue) => NothingPassed(Append(queue, Closed))
        /\ OnePassed(queue) => OnePassed(Append(queue, Closed))
    BY <1>3, <2>2, MessageAdded, Zenon
  <2>4. PassedOnce'
    BY <1>1, <1>2, <1>3, <2>1, <2>3 DEF PassedOnce
  <2>5. started[STDOUT_FILENO] = Closed
    <3>1. STDOUT_FILENO \in Fd
      BY MaxFdAssumption DEF Fd, STDOUT_FILENO
    <3>2. started[STDOUT_FILENO] \in {Closed} \cup {Std(k) : k \in 0 .. 2}
      BY <3>1 DEF Inv, StartedOK
    <3> QED
      BY <1>1, <1>5, <3>2, FilesDiffer DEF Inv, HInv, Delivered
  <2> QED
    BY <1>1, <1>4, <2>4, <2>5 DEF HInv, Delivered
<1>6. CASE fds["child"][fd] # Socket(0)
  <2>1. queue' = queue /\ hello' = 1
    BY <1>3, <1>6 DEF ChildWrite
  <2>2. PassedOnce'
    BY <1>1, <1>2, <1>3, <2>1 DEF PassedOnce
  <2>3. Delivered'
    BY <1>1, <1>2, <1>3, <2>1 DEF Inv, HInv, Delivered
  <2> QED
    BY <1>4, <2>2, <2>3 DEF HInv
<1> QED
  BY <1>5, <1>6

LEMMA StepPasses == ASSUME Inv, IInv', Next PROVE HInv'
<1>1. CASE SocketPair \/ Fork \/ ParentClose
  BY <1>1, SocketPairPasses, ForkPasses, ParentClosePasses
<1>2. CASE parent \/ parentBadDescriptor
  BY <1>2, ParentPasses
<1>3. CASE ParentReturn
  BY <1>3, ParentReturnPasses
<1>4. CASE parentBrokenPipe \/ Fails
  <2>1. /\ "parent" \in Process /\ pc["parent"] \notin {"none", "ended"}
        /\ End("parent", queue) /\ failed' = failed \cup {"parent"}
    BY <1>4 DEF parentBrokenPipe, Fails, Process
  <2> QED
    BY <2>1, EndFailedPasses
<1>5. CASE sock_fd_readFails
  <2>1. /\ "child" \in Process /\ pc["child"] \notin {"none", "ended"}
        /\ End("child", queue) /\ failed' = failed \cup {"child"}
    BY <1>5 DEF sock_fd_readFails, Process
  <2> QED
    BY <2>1, EndFailedPasses
<1>6. CASE ChildClose \/ ChildCloseFd
  BY <1>6, ChildClosePasses
<1>7. CASE sock_fd_read \/ EndOfInput \/ ChildWrite
  BY <1>7, ReadPasses, EndOfInputPasses, ChildWritePasses
<1>8. ASSUME NEW p \in Process, Kill(p) PROVE HInv'
  BY <1>8, EndFailedPasses DEF Kill
<1> QED
  BY <1>1, <1>2, <1>3, <1>4, <1>5, <1>6, <1>7, <1>8 DEF Next, Parent, Child

LEMMA InitPasses == Init => HInv
<1> SUFFICES ASSUME Init PROVE HInv
  OBVIOUS
<1>1. /\ pc["parent"] = "socketpair" /\ pc["child"] = "none"
      /\ queue = <<>> /\ hello = 0
  BY DEF Init, Process
<1> QED
  BY <1>1, NothingLeft DEF HInv, ParentHolds, Labels, PassedOnce, Delivered, NotSent

(* The child writes its line once at most, and if neither process fails it  *)
(* does write it to the standard output that it has been passed: the        *)
(* message is never lost, though the parent may have ended long before.     *)
THEOREM LineWrittenOnce == Spec => []HelloOnce
<1>1. Inv /\ IInv' /\ [Next]_vars => HInv'
  <2>1. ASSUME Inv, UNCHANGED vars PROVE HInv'
    BY <2>1 DEF vars, Inv, HInv, ParentHolds, Labels, PassedOnce, Delivered,
                NotSent, Fresh, Both
  <2> QED
    BY <2>1, StepPasses
<1>2. Spec => []HInv
  BY <1>1, InitPasses, InvariantHolds, StartedStays, PTL DEF Spec, Inv
<1>3. HInv => HelloOnce
  <2> SUFFICES ASSUME HInv PROVE HelloOnce
    OBVIOUS
  <2>1. hello <= 1
    BY DEF HInv, PassedOnce
  <2>2. ASSUME \A p \in Process : Ended(p), failed = {}, started[STDOUT_FILENO] # Closed
        PROVE  hello = 1
    <3>1. pc["parent"] \in {"none", "ended"} /\ pc["child"] \in {"none", "ended"}
      BY <2>2 DEF Ended, Process
    <3>2. pc["parent"] = "ended" /\ pc["child"] = "ended" /\ ~NotSent
      BY <2>2, <3>1 DEF HInv, Labels, NotSent
    <3> QED
      BY <2>2, <3>2 DEF HInv, Delivered
  <2> QED
    BY <2>1, <2>2 DEF HelloOnce
<1> QED
  BY <1>2, <1>3, PTL

-----------------------------------------------------------------------------
(* The queue that a run has opened is the one that has the name now, and    *)
(* nobody is about to remove it: if no program was there whose messages are *)
(* too large.                                                              *)
NameKept ==
  foreign # "large" =>
    \A r \in Run : at[r] # "mq_unlink" /\ mqd[r] \in {NoQueue, name}

(* If there was one, only who has failed on its queue comes to mq_unlink,   *)
(* and each time that the name is removed one more run has.                 *)
NameRemoved ==
  foreign = "large" =>
    /\ \A r \in Run : at[r] = "mq_unlink" => mqd[r] = 0
    /\ last + (IF name = NoQueue THEN 1 ELSE 0) <= Cardinality(Failed)

MqTypes ==
  /\ DOMAIN at = Run /\ DOMAIN mqd = Run
  /\ last \in Nat
  /\ name \in Int /\ name <= last
  /\ \A r \in Run : mqd[r] \in Int /\ mqd[r] <= last
  /\ \A r \in killed : at[r] = "ended"
  /\ killed \subseteq Run

MqInv == MqTypes /\ NameKept /\ NameRemoved

(* Run r goes on to label: who has failed so far stays counted.             *)
LEMMA FailedStay ==
  ASSUME MqInv, NEW r \in Run, at[r] # "ended", NEW label, goes(r, label),
         \A s \in Run \ {r} : mqd'[s] = mqd[s],
         killed' \subseteq killed \cup {r}
  PROVE  /\ IsFiniteSet(Failed') /\ IsFiniteSet(Failed)
         /\ Cardinality(Failed) \in Nat /\ Cardinality(Failed') \in Nat
         /\ Failed \subseteq Failed' /\ Cardinality(Failed) <= Cardinality(Failed')
<1>1. IsFiniteSet(Run)
  BY FS_Interval, MqAssumption DEF Run
<1>2. Failed \in SUBSET Run /\ Failed' \in SUBSET Run
  BY DEF Failed
<1>3. IsFiniteSet(Failed) /\ IsFiniteSet(Failed')
  BY <1>1, <1>2, FS_Subset
<1>4. Failed \subseteq Failed'
  BY DEF Failed, goes, MqInv, MqTypes
<1>5. Failed \in SUBSET (Failed')
  BY <1>4
<1> QED
  BY <1>3, <1>4, <1>5, FS_Subset, FS_CardinalityType

(* A step in which r does not come to mq_unlink but from another program's  *)
(* queue, and the queues that are open stay so.                             *)
LEMMA MqKeeps ==
  ASSUME MqInv, NEW r \in Run, at[r] # "ended", NEW label,
         goes(r, label),
         label = "mq_unlink" => foreign = "large" /\ mqd[r] = 0,
         killed' = killed \/ (killed' = killed \cup {r} /\ label = "ended"),
         UNCHANGED <<foreign, name, last, mqd>>
  PROVE  MqInv'
<1>1. Cardinality(Failed) <= Cardinality(Failed') /\ Cardinality(Failed) \in Nat /\ Cardinality(Failed') \in Nat
  BY FailedStay
<1>2. MqTypes'
  BY DEF MqInv, MqTypes, goes
<1>3. NameKept'
  BY DEF MqInv, MqTypes, NameKept, goes
<1>4. ASSUME foreign = "large"
      PROVE  /\ \A s \in Run : at'[s] = "mq_unlink" => mqd'[s] = 0
             /\ last' + (IF name' = NoQueue THEN 1 ELSE 0) <= Cardinality(Failed')
  <2>1. \A s \in Run : at'[s] = "mq_unlink" => mqd'[s] = 0
    BY <1>4 DEF MqInv, MqTypes, NameRemoved, goes
  <2>2. last + (IF name = NoQueue THEN 1 ELSE 0) <= Cardinality(Failed)
    BY <1>4 DEF MqInv, NameRemoved
  <2>3. last + (IF name = NoQueue THEN 1 ELSE 0) \in Nat /\ name' = name /\ last' = last
    BY DEF MqInv, MqTypes
  <2> QED
    BY <1>1, <2>1, <2>2, <2>3
<1> QED
  BY <1>2, <1>3, <1>4 DEF MqInv, NameRemoved

(* A run opens the queue that has the name, or makes one.                   *)
LEMMA MqOpens ==
  ASSUME MqInv, NEW r \in Run, mq_open(r) \/ mq_openCreates(r)
  PROVE  MqInv'
<1>1. /\ at[r] = "mq_open" /\ goes(r, "open") /\ UNCHANGED <<foreign, killed>>
      /\ mqd' = [mqd EXCEPT ![r] = name'] /\ last' \in Nat /\ last <= last'
      /\ name' \in Int /\ name' # NoQueue /\ name' <= last'
  BY DEF mq_open, mq_openCreates, MqInv, MqTypes, NoQueue
<1>2. Cardinality(Failed) <= Cardinality(Failed') /\ Cardinality(Failed) \in Nat /\ Cardinality(Failed') \in Nat
  <2>1. at[r] # "ended" /\ killed' \subseteq killed \cup {r} /\ \A s \in Run \ {r} : mqd'[s] = mqd[s]
    BY <1>1 DEF MqInv, MqTypes
  <2> QED
    BY <1>1, <2>1, FailedStay
<1>3. MqTypes'
  BY <1>1 DEF MqInv, MqTypes, goes
<1>4. NameKept'
  BY <1>1 DEF MqInv, MqTypes, NameKept, goes, mq_open, mq_openCreates
<1>5. ASSUME foreign = "large"
      PROVE  /\ \A s \in Run : at'[s] = "mq_unlink" => mqd'[s] = 0
             /\ last' <= Cardinality(Failed')
  <2>1. \A s \in Run : at'[s] = "mq_unlink" => mqd'[s] = 0
    BY <1>1, <1>5 DEF MqInv, MqTypes, NameRemoved, goes
  <2>2. last' = last + (IF name = NoQueue THEN 1 ELSE 0)
    BY DEF mq_open, mq_openCreates, MqInv, MqTypes
  <2>3. last + (IF name = NoQueue THEN 1 ELSE 0) <= Cardinality(Failed)
    BY <1>5 DEF MqInv, NameRemoved
  <2> QED
    BY <1>1, <1>2, <2>1, <2>2, <2>3
<1> QED
  BY <1>1, <1>3, <1>4, <1>5 DEF MqInv, NameRemoved

(* The name is removed: one more run has failed on another program's queue. *)
LEMMA MqUnlinks ==
  ASSUME MqInv, NEW r \in Run, mq_unlink(r)
  PROVE  MqInv'
<1>1. /\ at[r] = "mq_unlink" /\ goes(r, "ended") /\ name' = NoQueue
      /\ UNCHANGED <<foreign, last, mqd, killed>>
  BY DEF mq_unlink
<1>2. foreign = "large" /\ mqd[r] = 0 /\ r \notin killed
  BY <1>1 DEF MqInv, MqTypes, NameKept, NameRemoved
<1>3. /\ IsFiniteSet(Failed) /\ IsFiniteSet(Failed')
      /\ Cardinality(Failed) \in Nat /\ Cardinality(Failed') \in Nat /\ Failed \subseteq Failed'
  <2>1. at[r] # "ended" /\ killed' \subseteq killed \cup {r} /\ \A s \in Run \ {r} : mqd'[s] = mqd[s]
    BY <1>1
  <2> QED
    BY <1>1, <2>1, FailedStay
<1>4. r \in Failed' /\ r \notin Failed
  BY <1>1, <1>2 DEF Failed, goes, MqInv, MqTypes
<1>5. Cardinality(Failed) + 1 <= Cardinality(Failed')
  <2>1. IsFiniteSet(Failed \cup {r}) /\ Cardinality(Failed \cup {r}) = Cardinality(Failed) + 1
    BY <1>3, <1>4, FS_AddElement
  <2>2. (Failed \cup {r}) \in SUBSET (Failed')
    BY <1>3, <1>4
  <2>3. Cardinality(Failed \cup {r}) <= Cardinality(Failed')
    BY <1>3, <2>2, FS_Subset
  <2> QED
    BY <2>1, <2>3
<1>6. last <= Cardinality(Failed)
  <2>1. last + (IF name = NoQueue THEN 1 ELSE 0) <= Cardinality(Failed) /\ last \in Nat
    BY <1>2 DEF MqInv, MqTypes, NameRemoved
  <2> QED
    BY <1>3, <2>1
<1>7. last' + 1 <= Cardinality(Failed')
  BY <1>1, <1>3, <1>5, <1>6 DEF MqInv, MqTypes
<1>8. MqTypes'
  BY <1>1 DEF MqInv, MqTypes, goes, NoQueue
<1>9. NameKept' /\ (\A s \in Run : at'[s] = "mq_unlink" => mqd'[s] = 0)
  BY <1>1, <1>2 DEF MqInv, MqTypes, NameKept, NameRemoved, goes
<1> QED
  BY <1>1, <1>7, <1>8, <1>9 DEF MqInv, NameRemoved

(* Every call keeps the invariant. *)
LEMMA MqStepKeeps == ASSUME MqInv, MqNext PROVE MqInv'
<1>1. PICK r \in Run : Step(r) \/ OpenFails(r) \/ KillRun(r)
  BY DEF MqNext
<1>2. CASE mq_open(r) \/ mq_openCreates(r)
  BY <1>2, MqOpens
<1>3. CASE open(r)
  BY <1>3, MqKeeps DEF open
<1>4. CASE OpenFails(r)
  BY <1>4, MqKeeps DEF OpenFails
<1>5. CASE mq_send(r)
  BY <1>5, MqKeeps DEF mq_send
<1>6. CASE mq_sendFails(r)
  BY <1>6, MqKeeps DEF mq_sendFails
<1>7. CASE mq_receive(r)
  BY <1>7, MqKeeps DEF mq_receive
<1>8. CASE mq_receiveFails(r)
  BY <1>8, MqKeeps DEF mq_receiveFails, Large
<1>9. CASE write(r)
  BY <1>9, MqKeeps DEF write
<1>10. CASE mq_unlink(r)
  BY <1>10, MqUnlinks
<1>11. CASE KillRun(r)
  BY <1>11, MqKeeps DEF KillRun
<1> QED
  BY <1>1, <1>2, <1>3, <1>4, <1>5, <1>6, <1>7, <1>8, <1>9, <1>10, <1>11 DEF Step

(* What is known of the name at any time: the queue that runs have opened    *)
(* keeps it, or another program's large messages were there, and then it    *)
(* has been removed at most as often as runs have failed on them.           *)
THEOREM MqInvHolds == MqSpec => []MqInv
<1>1. ASSUME MqInit
      PROVE  MqInv
  <2>1. Failed = {}
    BY <1>1 DEF MqInit, Failed
  <2>2. Cardinality(Failed) = 0
    BY <2>1, FS_EmptySet
  <2>3. MqTypes /\ NameKept
    BY <1>1 DEF MqInit, MqTypes, NameKept, NoQueue
  <2>4. NameRemoved
    BY <1>1, <2>2 DEF MqInit, NameRemoved, NoQueue
  <2> QED
    BY <2>3, <2>4 DEF MqInv
<1>2. MqInv /\ UNCHANGED mqVars => MqInv'
  BY DEF mqVars, MqInv, MqTypes, NameKept, NameRemoved, Failed
<1>3. MqInv /\ [MqNext]_mqVars => MqInv'
  BY <1>2, MqStepKeeps
<1> QED
  BY <1>1, <1>3, PTL DEF MqSpec

(* Two runs have opened different queues only if the messages of another    *)
(* program are too large, and then each queue more has cost a run that      *)
(* failed on them.                                                          *)
THEOREM AllShareOneQueue == MqSpec => []OneQueue
<1>1. ASSUME MqInv, NEW r \in Run, NEW s \in Run, NoQueue < mqd[r], mqd[r] < mqd[s]
      PROVE  foreign = "large" /\ mqd[s] <= Cardinality(Failed)
  <2>1. mqd[r] \in Int /\ mqd[s] \in Int /\ mqd[s] <= last /\ last \in Nat
    BY <1>1 DEF MqInv, MqTypes
  <2>2. foreign = "large"
    BY <1>1, <2>1 DEF MqInv, NameKept, NoQueue
  <2>3. last + (IF name = NoQueue THEN 1 ELSE 0) <= Cardinality(Failed)
    BY <1>1, <2>2 DEF MqInv, NameRemoved
  <2>4. Cardinality(Failed) \in Nat
    <3>1. IsFiniteSet(Run) /\ Failed \in SUBSET Run
      BY FS_Interval, MqAssumption DEF Run, Failed
    <3> QED
      BY <3>1, FS_Subset, FS_CardinalityType
  <2> QED
    BY <2>1, <2>2, <2>3, <2>4
<1>2. MqInv => OneQueue
  BY <1>1 DEF OneQueue
<1> QED
  BY <1>2, MqInvHolds, PTL
=============================================================================
