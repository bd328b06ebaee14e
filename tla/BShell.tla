------------------------------- MODULE BShell -------------------------------
(***************************************************************************)
(* bshell.cpp: a pipeline command_1 | ... | command_n, its output in a     *)
(* file.  The shell itself becomes the last command.  Before it does, it   *)
(* makes a pipe and forks a process for the command to the left, which     *)
(* does the same.  Nobody waits for anybody: what keeps the pipeline going *)
(* and lets it end is which process holds which end of which pipe.         *)
(*                                                                         *)
(* Processes are numbered as their commands: process i has forked process  *)
(* i - 1 and made pipe i between them.  A system call is a step; the three *)
(* of ChangeFD are one, as nobody else can see what is between them.  The  *)
(* commands are programs of the system: they copy items from descriptor 0  *)
(* to descriptor 1, and the first makes them.                              *)
(***************************************************************************)
EXTENDS Integers, Sequences, SequencesExt

CONSTANTS
  NumCommands,  \* commands on the line
  Items,        \* what the first command writes
  Capacity,     \* items that a pipe can hold
  MaxFd,        \* descriptors that a process can have open: 0 .. MaxFd
  Below         \* how far below argv[0] a process may follow argv

ASSUME ShellAssumption ==
  /\ NumCommands \in Nat \ {0}
  /\ Items \in Nat
  /\ Capacity \in Nat \ {0}
  /\ MaxFd \in Nat /\ MaxFd >= 3
  /\ Below \in Nat

Command == 1 .. NumCommands

(* If the first command cannot be executed there are more processes, for   *)
(* argv[0], which is NULL, and for what lies before argv.                  *)
Process == -Below .. NumCommands

LastCommand == NumCommands

Fd == 0 .. MaxFd
STDIN_FILENO  == 0
STDOUT_FILENO == 1

Closed == <<"closed", 0>>
ReadEnd(k)  == <<"read", k>>
WriteEnd(k) == <<"write", k>>
ResultFile  == <<"file", 0>>
Terminal(k) == <<"terminal", k>>

File == {Closed, ResultFile} \cup {Terminal(k) : k \in 0 .. 2}
          \cup {ReadEnd(k) : k \in Process} \cup {WriteEnd(k) : k \in Process}

(* What was in the file before. *)
Old == 0

VARIABLES
  missing,   \* the commands that execvp does not find
  started,   \* the descriptors with which the shell was started
  pc,        \* of each process: where it is
  fds,       \* of each process: its descriptors
  pfd,       \* of each process: int pfd[2]
  buffer,    \* of each pipe: the items in it
  hand,      \* of each process: the items it has read and not written
  result,    \* what is in the file
  failed     \* the processes that ended without having copied everything

vars == <<missing, started, pc, fds, pfd, buffer, hand, result, failed>>

AllClosed == [f \in Fd |-> Closed]

(* The shell may be started without standard output or standard error; the *)
(* command line is read from its standard input.                           *)
Init ==
  /\ missing \in SUBSET Command
  /\ started \in {[AllClosed EXCEPT ![0] = Terminal(0), ![1] = o, ![2] = e] :
                    o \in {Closed, Terminal(1)}, e \in {Closed, Terminal(2)}}
  /\ pc = [i \in Process |-> IF i = LastCommand THEN "settings" ELSE "none"]
  /\ fds = [i \in Process |-> IF i = LastCommand THEN started ELSE AllClosed]
  /\ pfd = [i \in Process |-> <<0, 0>>]
  /\ buffer = [i \in Process |-> <<>>]
  /\ hand = [i \in Process |-> <<>>]
  /\ result = <<Old>>
  /\ failed = {}

-----------------------------------------------------------------------------
(* The kernel gives out the lowest closed descriptor.                      *)
Lowest(t, fd) == t[fd] = Closed /\ \A f \in Fd : f < fd => t[f] # Closed

Holds(i, file) == \E f \in Fd : fds[i][f] = file

(* exit, or a signal: all descriptors are closed. *)
Exit(i) ==
  /\ pc' = [pc EXCEPT ![i] = "ended"]
  /\ fds' = [fds EXCEPT ![i] = AllClosed]

ExitFailed(i) ==
  /\ Exit(i)
  /\ failed' = failed \cup {i}
  /\ UNCHANGED <<missing, started, pfd, buffer, hand, result>>

goto(i, label) == pc' = [pc EXCEPT ![i] = label]

(* ChangeFD: close the one, dup2 the other to it, close that. *)
ChangeFD(t, old_fd, new_fd) == [t EXCEPT ![new_fd] = t[old_fd], ![old_fd] = Closed]

(* dup2 fails if the close before has closed the descriptor to be copied.  *)
(* This is the file's if the shell was started without standard output; a  *)
(* pipe's is never 0 or 1.                                                 *)
ChangeFDFails(old_fd, new_fd) == old_fd = new_fd

-----------------------------------------------------------------------------
OpenAs(t, fd, file) == [t EXCEPT ![fd] = file]

SettingsNotEmptied ==
  /\ pc[LastCommand] = "settings"
  /\ \E fd \in Fd :
       /\ Lowest(fds[LastCommand], fd)
       /\ ~ChangeFDFails(fd, STDOUT_FILENO)
       /\ fds' = [fds EXCEPT ![LastCommand] =
                     ChangeFD(OpenAs(@, fd, ResultFile), fd, STDOUT_FILENO)]
  /\ goto(LastCommand, "forkback")
  /\ UNCHANGED <<missing, started, pfd, buffer, hand, result, failed>>

(* The file is opened, emptied, and becomes the standard output. *)
SettingsLastCommand ==
  /\ pc[LastCommand] = "settings"
  /\ \E fd \in Fd :
       /\ Lowest(fds[LastCommand], fd)
       /\ ~ChangeFDFails(fd, STDOUT_FILENO)
       /\ fds' = [fds EXCEPT ![LastCommand] =
                     ChangeFD(OpenAs(@, fd, ResultFile), fd, STDOUT_FILENO)]
  /\ result' = <<>>
  /\ goto(LastCommand, "forkback")
  /\ UNCHANGED <<missing, started, pfd, buffer, hand, failed>>

(* "ERROR: dup", with the file emptied. *)
SettingsFail ==
  /\ pc[LastCommand] = "settings"
  /\ \E fd \in Fd : Lowest(fds[LastCommand], fd) /\ ChangeFDFails(fd, STDOUT_FILENO)
  /\ result' = <<>>
  /\ Exit(LastCommand)
  /\ failed' = failed \cup {LastCommand}
  /\ UNCHANGED <<missing, started, pfd, buffer, hand>>

(* "ERROR: file not open" *)
OpenFails == pc[LastCommand] = "settings" /\ ExitFailed(LastCommand)

(* commands[-1] == NULL: the first command is executed as it is.           *)
ExecFirst(i) ==
  /\ pc[i] = "forkback" /\ i = 1 /\ i \notin missing
  /\ goto(i, "running")
  /\ hand' = [hand EXCEPT ![i] = [k \in 1 .. Items |-> k]]
  /\ UNCHANGED <<missing, started, fds, pfd, buffer, result, failed>>

(* Not the first command; or execvp has failed, and returned; or this is   *)
(* what comes below argv[1], and what lies before it is not NULL.          *)
Pipe(i) ==
  /\ pc[i] = "forkback" /\ (i = 1 => i \in missing) /\ i > -Below
  /\ \E r, w \in Fd :
       LET t == OpenAs(fds[i], r, ReadEnd(i)) IN
       /\ Lowest(fds[i], r)
       /\ Lowest(t, w)
       /\ pfd' = [pfd EXCEPT ![i] = <<r, w>>]
       /\ fds' = [fds EXCEPT ![i] = OpenAs(t, w, WriteEnd(i))]
  /\ goto(i, "fork")
  /\ UNCHANGED <<missing, started, buffer, hand, result, failed>>

(* "ERROR: not created pipe" *)
PipeFails(i) ==
  /\ pc[i] = "forkback" /\ (i = 1 => i \in missing) /\ i > -Below
  /\ ExitFailed(i)

Fork(i) ==
  /\ pc[i] = "fork"
  /\ fds' = [fds EXCEPT ![i - 1] = fds[i]]
  /\ pfd' = [pfd EXCEPT ![i - 1] = pfd[i]]
  /\ pc' = [pc EXCEPT ![i] = "parent", ![i - 1] = "child"]
  /\ UNCHANGED <<missing, started, buffer, hand, result, failed>>

(* "ERROR: forking child process failed" *)
ForkFails(i) == pc[i] = "fork" /\ ExitFailed(i)

ParentClosesReadEnd(i) ==
  /\ pc[i] = "parent"
  /\ fds' = [fds EXCEPT ![i][pfd[i][1]] = Closed]
  /\ goto(i, "parent_close")
  /\ UNCHANGED <<missing, started, pfd, buffer, hand, result, failed>>

(* The parent: its standard input is the pipe. *)
ParentChangeFD(i) ==
  /\ pc[i] = "parent"
  /\ fds' = [fds EXCEPT ![i] = ChangeFD(fds[i], pfd[i][1], STDIN_FILENO)]
  /\ goto(i, "parent_close")
  /\ UNCHANGED <<missing, started, pfd, buffer, hand, result, failed>>

ParentKeepsWriteEnd(i) ==
  /\ pc[i] = "parent_close"
  /\ goto(i, "exec")
  /\ UNCHANGED <<missing, started, fds, pfd, buffer, hand, result, failed>>

ParentClose(i) ==
  /\ pc[i] = "parent_close"
  /\ fds' = [fds EXCEPT ![i][pfd[i][2]] = Closed]
  /\ goto(i, "exec")
  /\ UNCHANGED <<missing, started, pfd, buffer, hand, result, failed>>

Exec(i) ==
  /\ pc[i] = "exec" /\ i \in Command \ missing
  /\ goto(i, "running")
  /\ UNCHANGED <<missing, started, fds, pfd, buffer, hand, result, failed>>

(* execvp returns; ForkBack and main return. *)
ExecFails(i) == pc[i] = "exec" /\ i \in missing /\ ExitFailed(i)

(* SplitString reads the line it is given through NULL, or what lies there. *)
SplitStringFaults(i) ==
  /\ pc[i] \in {"forkback", "exec"} /\ i <= 0
  /\ ExitFailed(i)

(* The child: its standard output is the pipe, then ForkBack(&commands[-1]). *)
ChildChangeFD(i) ==
  /\ pc[i] = "child"
  /\ fds' = [fds EXCEPT ![i] = ChangeFD(fds[i], pfd[i][2], STDOUT_FILENO)]
  /\ goto(i, "child_close")
  /\ UNCHANGED <<missing, started, pfd, buffer, hand, result, failed>>

ChildKeepsReadEnd(i) ==
  /\ pc[i] = "child_close"
  /\ goto(i, "forkback")
  /\ UNCHANGED <<missing, started, fds, pfd, buffer, hand, result, failed>>

ChildClose(i) ==
  /\ pc[i] = "child_close"
  /\ fds' = [fds EXCEPT ![i][pfd[i][1]] = Closed]
  /\ goto(i, "forkback")
  /\ UNCHANGED <<missing, started, pfd, buffer, hand, result, failed>>

ForkBack(i) ==
  \/ ExecFirst(i) \/ Pipe(i) \/ PipeFails(i) \/ Fork(i) \/ ForkFails(i)
  \/ ParentChangeFD(i) \/ ParentClose(i) \/ Exec(i) \/ ExecFails(i)
  \/ SplitStringFaults(i) \/ ChildChangeFD(i) \/ ChildClose(i)

-----------------------------------------------------------------------------
(* The programs: they read an item from descriptor 0 and write it to 1.     *)
Read(i) ==
  /\ pc[i] = "running" /\ i > 1 /\ hand[i] = <<>>
  /\ \E k \in Process :
       /\ fds[i][STDIN_FILENO] = ReadEnd(k)
       /\ buffer[k] # <<>>
       /\ hand' = [hand EXCEPT ![i] = <<Head(buffer[k])>>]
       /\ buffer' = [buffer EXCEPT ![k] = Tail(@)]
  /\ UNCHANGED <<missing, started, pc, fds, pfd, result, failed>>

(* A pipe that is full makes the writer wait. *)
Write(i) ==
  /\ pc[i] = "running" /\ hand[i] # <<>>
  /\ hand' = [hand EXCEPT ![i] = Tail(@)]
  /\ \/ \E k \in Process :
            /\ fds[i][STDOUT_FILENO] = WriteEnd(k)
            /\ \E j \in Process : Holds(j, ReadEnd(k))
            /\ Len(buffer[k]) < Capacity
            /\ buffer' = [buffer EXCEPT ![k] = Append(@, Head(hand[i]))]
            /\ UNCHANGED result
     \/ /\ fds[i][STDOUT_FILENO] = ResultFile
        /\ result' = Append(result, Head(hand[i]))
        /\ UNCHANGED buffer
  /\ UNCHANGED <<missing, started, pc, fds, pfd, failed>>

(* SIGPIPE: nobody can read the pipe any more. *)
BrokenPipe(i) ==
  /\ pc[i] = "running" /\ hand[i] # <<>>
  /\ \E k \in Process :
       /\ fds[i][STDOUT_FILENO] = WriteEnd(k)
       /\ \A j \in Process : ~Holds(j, ReadEnd(k))
  /\ ExitFailed(i)

(* All is copied: the pipe is empty and nobody can write to it any more. *)
Finish(i) ==
  /\ pc[i] = "running" /\ hand[i] = <<>>
  /\ i > 1 => \E k \in Process :
                /\ fds[i][STDIN_FILENO] = ReadEnd(k)
                /\ buffer[k] = <<>>
                /\ \A j \in Process : ~Holds(j, WriteEnd(k))
  /\ Exit(i)
  /\ UNCHANGED <<missing, started, pfd, buffer, hand, result, failed>>

Program(i) == Read(i) \/ Write(i) \/ BrokenPipe(i) \/ Finish(i)

(* A program may also end before its input does. *)
Quit(i) == pc[i] = "running" /\ ExitFailed(i)

Next ==
  \/ SettingsLastCommand \/ SettingsFail \/ OpenFails
  \/ \E i \in Process : ForkBack(i) \/ Program(i) \/ Quit(i)

Spec == Init /\ [][Next]_vars

(* The system runs every process, and no program stops for ever. *)
FairSpec ==
  /\ Spec
  /\ WF_vars(SettingsLastCommand \/ SettingsFail \/ OpenFails)
  /\ \A i \in Process : WF_vars(ForkBack(i)) /\ WF_vars(Program(i))

-----------------------------------------------------------------------------
(* A command runs with its input from the command to the left, its output   *)
(* to the one to the right, the last one's to the file, and with no other   *)
(* end of a pipe: a write end too many, and a reader would never see the    *)
(* end of its input; a read end too many, and a writer would not be told.   *)
RunsWithItsPipes ==
  \A i \in Process :
    pc[i] = "running" =>
      fds[i] = [started EXCEPT
                  ![STDOUT_FILENO] = IF i = LastCommand THEN ResultFile ELSE WriteEnd(i + 1),
                  ![STDIN_FILENO]  = IF i = 1 THEN Terminal(0) ELSE ReadEnd(i)]

AllEnded == \A i \in Process : pc[i] \in {"none", "ended"}

(* The file holds what the first command wrote, in order, and nothing of    *)
(* what was in it; all of it, if every command copied all its input.        *)
ResultInOrder ==
  /\ result = <<Old>> \/ IsPrefix(result, [k \in 1 .. Items |-> k])
  /\ AllEnded /\ failed = {} => result = [k \in 1 .. Items |-> k]

(* However fast the commands start, none is killed for writing to a pipe    *)
(* unless the one to the right has ended, before its input did.             *)
KilledOnlyByReader ==
  [][\A i \in Command : BrokenPipe(i) => i + 1 \in failed]_vars

(* Nobody waits for ever, whatever fails: every process that was started    *)
(* ends, as its input ends and as there is room in its pipe.                *)
EveryProcessEnds == <>[]AllEnded
=============================================================================
