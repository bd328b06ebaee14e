----------------------------- MODULE SockPair2 -----------------------------
(***************************************************************************)
(* sockPair2.cpp: main makes a pair of sockets and forks.  The parent      *)
(* sends one message, with its descriptor 1, and ends; the child reads     *)
(* messages until the end of its input, writes a line to each descriptor   *)
(* that comes with one, and closes it.  Nobody waits for anybody: the      *)
(* parent may have ended before the child reads, and the child's input     *)
(* ends when nobody holds the other socket, itself included.               *)
(*                                                                         *)
(* The program may be started with any of its standard descriptors closed: *)
(* the sockets then take their numbers, and what the parent has printed    *)
(* goes to its socket when it ends.  How many reads a text takes is left   *)
(* out.                                                                    *)
(***************************************************************************)
EXTENDS Integers, Sequences

CONSTANT MaxFd  \* descriptors that a process can have open: 0 .. MaxFd

ASSUME MaxFdAssumption == MaxFd \in Nat /\ MaxFd >= 5

Process == {"parent", "child"}
Fd == 0 .. MaxFd
STDOUT_FILENO == 1

(* What a descriptor is for: nothing, what the program was started with,    *)
(* or an end of the socket pair.                                            *)
Closed == <<"closed", 0>>
Std(k) == <<"std", k>>
Socket(end) == <<"socket", end>>

VARIABLES
  started,  \* the descriptors with which the program was started
  pc,       \* of each process: what it does next
  fds,      \* of each process: its descriptors
  sv,       \* int sv[2]
  fd,       \* the child's int fd, -1 for none
  queue,    \* the messages that socket 1 has to read, each what it passes
  hello,    \* lines written to the program's standard output
  failed    \* the processes that were killed, or could not do something

vars == <<started, pc, fds, sv, fd, queue, hello, failed>>

AllClosed == [f \in Fd |-> Closed]

Init ==
  /\ started \in {[f \in Fd |-> IF f \in open THEN Std(f) ELSE Closed] : open \in SUBSET (0 .. 2)}
  /\ pc = [p \in Process |-> IF p = "parent" THEN "socketpair" ELSE "none"]
  /\ fds = [p \in Process |-> IF p = "parent" THEN started ELSE AllClosed]
  /\ sv = <<0, 0>> /\ fd = -1
  /\ queue = <<>>
  /\ hello = 0
  /\ failed = {}

-----------------------------------------------------------------------------
Lowest(t, f) == t[f] = Closed /\ \A g \in Fd : g < f => t[g] # Closed

goto(p, label) == pc' = [pc EXCEPT ![p] = label]

Has(t, file) == \E f \in Fd : t[f] = file

Open(table, end) == \E p \in Process : Has(table[p], Socket(end))

(* With the last descriptor of socket 1 go the messages it has to read.     *)
Become(table, messages) ==
  /\ fds' = table
  /\ queue' = IF Open(table, 1) THEN messages ELSE <<>>

End(p, messages) ==
  /\ goto(p, "ended")
  /\ Become([fds EXCEPT ![p] = AllClosed], messages)
  /\ UNCHANGED <<started, sv, fd, hello>>

Close(p, f) == Become([fds EXCEPT ![p][f] = Closed], queue)

-----------------------------------------------------------------------------
SocketPair ==
  /\ pc["parent"] = "socketpair"
  /\ \E a, b \in Fd :
       LET t == [started EXCEPT ![a] = Socket(0)] IN
       /\ Lowest(started, a) /\ Lowest(t, b)
       /\ sv' = <<a, b>>
       /\ fds' = [fds EXCEPT !["parent"] = [t EXCEPT ![b] = Socket(1)]]
  /\ goto("parent", "fork")
  /\ UNCHANGED <<started, fd, queue, hello, failed>>

Fork ==
  /\ pc["parent"] = "fork"
  /\ fds' = [fds EXCEPT !["child"] = fds["parent"]]
  /\ pc' = [parent |-> "close", child |-> "close"]
  /\ UNCHANGED <<started, sv, fd, queue, hello, failed>>

(* socketpair or fork fails: exit(1). *)
Fails ==
  /\ pc["parent"] \in {"socketpair", "fork"}
  /\ End("parent", queue)
  /\ failed' = failed \cup {"parent"}

ParentClose ==
  /\ pc["parent"] = "close"
  /\ Close("parent", sv[2])
  /\ goto("parent", "write")
  /\ UNCHANGED <<started, sv, fd, hello, failed>>

parentNoDescriptor ==
  /\ pc["parent"] = "write"
  /\ queue' = Append(queue, Closed)
  /\ goto("parent", "return")
  /\ UNCHANGED <<started, fds, sv, fd, hello, failed>>

(* sock_fd_write: the message goes with what descriptor 1 is for. *)
parent ==
  /\ pc["parent"] = "write"
  /\ fds["parent"][STDOUT_FILENO] # Closed /\ Open(fds, 1)
  /\ queue' = Append(queue, fds["parent"][STDOUT_FILENO])
  /\ goto("parent", "return")
  /\ UNCHANGED <<started, fds, sv, fd, hello, failed>>

(* "sendmsg": descriptor 1 is not open.  The parent goes on. *)
parentBadDescriptor ==
  /\ pc["parent"] = "write"
  /\ fds["parent"][STDOUT_FILENO] = Closed
  /\ goto("parent", "return")
  /\ UNCHANGED <<started, fds, sv, fd, queue, hello, failed>>

(* SIGPIPE: nobody can read the message any more. *)
parentBrokenPipe ==
  /\ pc["parent"] = "write"
  /\ fds["parent"][STDOUT_FILENO] # Closed /\ ~Open(fds, 1)
  /\ End("parent", queue)
  /\ failed' = failed \cup {"parent"}

(* The parent ends, and with it what it has printed goes to descriptor 1.   *)
ParentReturn ==
  /\ pc["parent"] = "return"
  /\ End("parent", IF fds["parent"][STDOUT_FILENO] = Socket(0)
                   THEN Append(queue, Closed) ELSE queue)
  /\ UNCHANGED failed

ChildKeepsSocket ==
  /\ pc["child"] = "close"
  /\ goto("child", "read")
  /\ UNCHANGED <<started, fds, sv, fd, queue, hello, failed>>

ChildClose ==
  /\ pc["child"] = "close"
  /\ Close("child", sv[1])
  /\ goto("child", "read")
  /\ UNCHANGED <<started, sv, fd, hello, failed>>

(* sock_fd_read: a message, with the lowest descriptor free for what it     *)
(* passes; *fd = -1 if it passes nothing.                                   *)
sock_fd_read ==
  /\ pc["child"] = "read" /\ queue # <<>>
  /\ IF Head(queue) = Closed
     THEN fd' = -1 /\ goto("child", "read") /\ Become(fds, Tail(queue))
     ELSE \E f \in Fd :
            /\ Lowest(fds["child"], f)
            /\ fd' = f
            /\ goto("child", "write")
            /\ Become([fds EXCEPT !["child"][f] = Head(queue)], Tail(queue))
  /\ UNCHANGED <<started, sv, hello, failed>>

(* "recvmsg": exit(1). *)
sock_fd_readFails ==
  /\ pc["child"] = "read"
  /\ End("child", queue)
  /\ failed' = failed \cup {"child"}

(* The end of the input, as no process has the other socket, nor does a     *)
(* message on its way: child and main return.                               *)
EndOfInput ==
  /\ pc["child"] = "read" /\ queue = <<>> /\ ~Open(fds, 0)
  /\ End("child", queue)
  /\ UNCHANGED failed

(* write(fd, "hello, world\n", 13): into the child's own input, if what it  *)
(* has been passed is the other socket.                                     *)
ChildWrite ==
  /\ pc["child"] = "write"
  /\ IF fds["child"][fd] = Socket(0)
     THEN queue' = Append(queue, Closed) /\ UNCHANGED hello
     ELSE hello' = hello + 1 /\ UNCHANGED queue
  /\ goto("child", "closefd")
  /\ UNCHANGED <<started, fds, sv, fd, failed>>

ChildKeepsFd ==
  /\ pc["child"] = "closefd"
  /\ goto("child", "read")
  /\ UNCHANGED <<started, fds, sv, fd, queue, hello, failed>>

ChildCloseFd ==
  /\ pc["child"] = "closefd"
  /\ Close("child", fd)
  /\ goto("child", "read")
  /\ UNCHANGED <<started, sv, fd, hello, failed>>

(* A signal from outside. *)
Kill(p) ==
  /\ pc[p] \notin {"none", "ended"}
  /\ End(p, queue)
  /\ failed' = failed \cup {p}

Parent == SocketPair \/ Fork \/ ParentClose \/ parent \/ parentBadDescriptor
            \/ parentBrokenPipe \/ ParentReturn

Child == ChildClose \/ sock_fd_read \/ EndOfInput \/ ChildWrite \/ ChildCloseFd

Next == Parent \/ Child \/ Fails \/ sock_fd_readFails \/ \E p \in Process : Kill(p)

Spec == Init /\ [][Next]_vars

(* The system runs both processes. *)
FairSpec == Spec /\ WF_vars(Parent) /\ WF_vars(Child)

-----------------------------------------------------------------------------
(* Whenever the child waits for a message it has the descriptors it was     *)
(* started with and its socket, and no other: not the parent's socket,      *)
(* which would keep its own input open, and none that it has been passed.   *)
NoDescriptorLeft ==
  pc["child"] = "read" => fds["child"] = [started EXCEPT ![sv[2]] = Socket(1)]

Ended(p) == pc[p] \in {"none", "ended"}

(* The child writes its line to the standard output that it has been        *)
(* passed, though the parent may have ended long before, and writes it once. *)
HelloOnce ==
  /\ hello <= 1
  /\ (\A p \in Process : Ended(p)) /\ failed = {} /\ started[STDOUT_FILENO] # Closed
       => hello = 1

(* Both processes end, whatever they were started with and whoever is       *)
(* killed: the child too, which waits for the end of its input, even if it  *)
(* has been passed the very socket that keeps its input open.               *)
BothEnd == <>[](\A p \in Process : Ended(p))
=============================================================================
