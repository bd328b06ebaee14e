---------------------------- MODULE BShellProofs ----------------------------
(***************************************************************************)
(* For a line of any length, with any number of descriptors, whatever      *)
(* fails and whichever process is ahead: a command runs with its own pipes *)
(* and with no other end of a pipe (RunsWithItsPipes), none is killed for  *)
(* writing but by a reader that failed (KilledOnlyByReader), and the file  *)
(* holds what the first command wrote, in order (ResultInOrder).           *)
(*                                                                         *)
(* None of them is inductive.  IInv says what a process holds at each      *)
(* place of ForkBack; it refers to no other process, so that a step        *)
(* preserves it for the processes that it does not run.  Order says which  *)
(* processes exist and which have ended when one is at some place.         *)
(* FlowInv says which items are in the hands, in the pipes and in the      *)
(* file.                                                                   *)
(*                                                                         *)
(* The second part is about the line itself: whatever its length, the      *)
(* commands and words that CommandLine makes of it are those written in it *)
(* (LinesAsWritten).  Both loops go from left to right and make a list as  *)
(* they go; what the list of a place is follows from that of a later one.  *)
(***************************************************************************)
EXTENDS BShell, CommandLine, FiniteSetTheorems, SequenceTheorems, WellFoundedInduction, TLAPS

(* What process i starts ForkBack with: its standard output is set.         *)
Output(i) ==
  [started EXCEPT ![STDOUT_FILENO] = IF i = LastCommand THEN ResultFile ELSE WriteEnd(i + 1)]

(* t is what process i holds when pipe i is open at p. *)
HasPipe(t, i, p) ==
  /\ p[1] \in Fd \ {0, 1} /\ p[2] \in Fd \ {0, 1} /\ p[1] # p[2]
  /\ started[p[1]] = Closed /\ started[p[2]] = Closed
  /\ t = [Output(i) EXCEPT ![p[1]] = ReadEnd(i), ![p[2]] = WriteEnd(i)]

(* After ChangeFD in the parent, and in the child i. *)
ParentHasInput(t, i, p) ==
  /\ p[2] \in Fd \ {0, 1} /\ started[p[2]] = Closed
  /\ t = [Output(i) EXCEPT ![STDIN_FILENO] = ReadEnd(i), ![p[2]] = WriteEnd(i)]

ChildHasOutput(t, i, p) ==
  /\ p[1] \in Fd \ {0, 1} /\ started[p[1]] = Closed
  /\ t = [Output(i) EXCEPT ![p[1]] = ReadEnd(i + 1)]

Stage(i, at, t, p) ==
  /\ at = "settings" => i = LastCommand /\ t = started
  /\ at = "forkback" => t = Output(i)
  /\ at \in {"fork", "parent"} => HasPipe(t, i, p)
  /\ at = "fork" => i - 1 \in Process
  /\ at = "parent_close" => ParentHasInput(t, i, p)
  /\ at = "exec" => t = [Output(i) EXCEPT ![STDIN_FILENO] = ReadEnd(i)]
  /\ at \in {"fork", "parent", "parent_close", "exec"} /\ i = 1 => i \in missing
  /\ at = "child" => i < LastCommand /\ HasPipe(t, i + 1, p)
  /\ at = "child_close" => i < LastCommand /\ ChildHasOutput(t, i, p)
  /\ at = "running" =>
       /\ i \in Command
       /\ t = [Output(i) EXCEPT ![STDIN_FILENO] = IF i = 1 THEN Terminal(0) ELSE ReadEnd(i)]

Typed ==
  /\ started \in [Fd -> File]
  /\ started[STDIN_FILENO] = Terminal(0)
  /\ DOMAIN pc = Process /\ DOMAIN fds = Process /\ DOMAIN pfd = Process

Staged == \A i \in Process : Stage(i, pc[i], fds[i], pfd[i])

IInv == Typed /\ Staged

(* Process i makes a step: no other one is touched.                         *)
OnlyOf(i) ==
  /\ UNCHANGED <<started, missing>>
  /\ DOMAIN pc' = Process /\ DOMAIN fds' = Process /\ DOMAIN pfd' = Process
  /\ \A j \in Process \ {i} : pc'[j] = pc[j] /\ fds'[j] = fds[j] /\ pfd'[j] = pfd[j]

(* It is enough that the process that makes a step is where it should be.   *)
LEMMA OneProcess ==
  ASSUME IInv, NEW i \in Process, OnlyOf(i), Stage(i, pc'[i], fds'[i], pfd'[i])
  PROVE  IInv'
<1>1. \A j \in Process : Stage(j, pc'[j], fds'[j], pfd'[j])
  BY DEF IInv, Staged, OnlyOf
<1>2. ASSUME NEW j \in Process PROVE Stage(j, pc[j], fds[j], pfd[j])'
  BY <1>1 DEF OnlyOf, Stage, Output, HasPipe, ParentHasInput, ChildHasOutput
<1>3. Typed'
  BY DEF OnlyOf, Typed, IInv
<1> QED
  BY <1>2, <1>3 DEF IInv, Staged

LEMMA NothingMoved ==
  ASSUME IInv, UNCHANGED <<started, missing, pc, fds, pfd>>
  PROVE  IInv'
<1>1. Typed'
  BY DEF IInv, Typed
<1>2. ASSUME NEW j \in Process PROVE Stage(j, pc[j], fds[j], pfd[j])'
  <2>1. Stage(j, pc[j], fds[j], pfd[j])
    BY DEF IInv, Staged
  <2> QED
    BY <2>1 DEF Stage, Output, HasPipe, ParentHasInput, ChildHasOutput
<1> QED
  BY <1>1, <1>2 DEF IInv, Staged

(* A process that ends, or goes on at another place.                        *)
LEMMA StepOnly ==
  ASSUME IInv, NEW i \in Process, UNCHANGED <<started, missing, pfd>>, NEW label, NEW t,
         pc' = [pc EXCEPT ![i] = label], fds' = [fds EXCEPT ![i] = t]
  PROVE  OnlyOf(i) /\ pc'[i] = label /\ fds'[i] = t /\ pfd'[i] = pfd[i]
  BY DEF IInv, Typed, OnlyOf

LEMMA ExitOK ==
  ASSUME IInv, NEW i \in Process, Exit(i), UNCHANGED <<started, missing, pfd>>
  PROVE  IInv'
<1>1. OnlyOf(i) /\ pc'[i] = "ended"
  BY StepOnly DEF Exit
<1>2. Stage(i, pc'[i], fds'[i], pfd'[i])
  BY <1>1 DEF Stage
<1> QED
  BY <1>1, <1>2, OneProcess

-----------------------------------------------------------------------------
(* The invariant holds at the start.                                        *)
LEMMA InitOK == ShellAssumption /\ Init => IInv
<1> SUFFICES ASSUME ShellAssumption, Init PROVE IInv
  OBVIOUS
<1>1. Typed
  <2>1. PICK o \in {Closed, Terminal(1)}, e \in {Closed, Terminal(2)} :
          started = [AllClosed EXCEPT ![0] = Terminal(0), ![1] = o, ![2] = e]
    BY DEF Init
  <2>2. Closed \in File /\ \A k \in 0 .. 2 : Terminal(k) \in File
    BY DEF File
  <2>3. o \in File /\ e \in File /\ Terminal(0) \in File
    BY <2>1, <2>2
  <2>4. AllClosed \in [Fd -> File]
    BY <2>2 DEF AllClosed
  <2>5. started \in [Fd -> File]
    BY <2>1, <2>3, <2>4
  <2>6. started[STDIN_FILENO] = Terminal(0)
    BY <2>1, <2>4 DEF STDIN_FILENO, Fd, ShellAssumption
  <2> QED
    BY <2>5, <2>6 DEF Init, Typed
<1>2. Staged
  BY DEF Init, Staged, Stage
<1> QED
  BY <1>1, <1>2 DEF IInv

(* The file gets the lowest descriptor and is moved to 1.                   *)
LEMMA SettingsOK ==
  ASSUME ShellAssumption, IInv, SettingsLastCommand
  PROVE  IInv'
<1> DEFINE i == LastCommand
<1>1. i \in Process
  BY DEF ShellAssumption, LastCommand, Process
<1>2. fds[i] = started
  BY <1>1 DEF IInv, Staged, Stage, SettingsLastCommand
<1>3. PICK fd \in Fd :
        /\ started[fd] = Closed /\ fd # STDOUT_FILENO
        /\ fds' = [fds EXCEPT ![i] = ChangeFD(OpenAs(started, fd, ResultFile), fd, STDOUT_FILENO)]
  BY <1>1, <1>2 DEF SettingsLastCommand, Lowest, ChangeFDFails, IInv, Typed
<1>4. ChangeFD(OpenAs(started, fd, ResultFile), fd, STDOUT_FILENO) = Output(i)
  BY <1>3, ShellAssumption DEF ChangeFD, OpenAs, Output, IInv, Typed, STDOUT_FILENO, Fd, ShellAssumption
<1>5. OnlyOf(i) /\ pc'[i] = "forkback" /\ fds'[i] = Output(i)
  BY <1>1, <1>3, <1>4, StepOnly DEF SettingsLastCommand, goto
<1>6. Stage(i, pc'[i], fds'[i], pfd'[i])
  BY <1>5 DEF Stage
<1> QED
  BY <1>1, <1>5, <1>6, OneProcess

(* pipe() gives two descriptors that are closed in `started', so not 0;     *)
(* nor 1, which is open.                                                    *)
LEMMA PipeOK ==
  ASSUME ShellAssumption, IInv, NEW i \in Process, Pipe(i)
  PROVE  IInv'
<1>1. fds[i] = Output(i)
  BY DEF IInv, Staged, Stage, Pipe
<1>2. PICK r \in Fd, w \in Fd :
        /\ Lowest(fds[i], r) /\ Lowest(OpenAs(fds[i], r, ReadEnd(i)), w)
        /\ pfd' = [pfd EXCEPT ![i] = <<r, w>>]
        /\ fds' = [fds EXCEPT ![i] = OpenAs(OpenAs(fds[i], r, ReadEnd(i)), w, WriteEnd(i))]
  BY DEF Pipe
<1>3. Output(i)[0] = Terminal(0) /\ Output(i)[1] # Closed
  BY DEF Output, IInv, Typed, STDIN_FILENO, STDOUT_FILENO, Fd, ShellAssumption,
         ResultFile, WriteEnd, Closed
<1>4. r \notin {0, 1} /\ started[r] = Closed
  BY <1>1, <1>2, <1>3 DEF Lowest, Terminal, Closed, Output, STDOUT_FILENO, IInv, Typed
<1>5. w \notin {0, 1} /\ w # r /\ started[w] = Closed
  BY <1>1, <1>2, <1>3, <1>4
     DEF Lowest, OpenAs, Terminal, ReadEnd, Closed, Output, STDOUT_FILENO, IInv, Typed
<1>6. HasPipe(OpenAs(OpenAs(fds[i], r, ReadEnd(i)), w, WriteEnd(i)), i, <<r, w>>)
  BY <1>1, <1>4, <1>5 DEF HasPipe, OpenAs, Output
<1>7. OnlyOf(i)
  BY <1>2 DEF Pipe, goto, IInv, Typed, OnlyOf
<1>8. /\ pc'[i] = "fork" /\ pfd'[i] = <<r, w>>
      /\ fds'[i] = OpenAs(OpenAs(fds[i], r, ReadEnd(i)), w, WriteEnd(i))
  BY <1>2 DEF Pipe, goto, IInv, Typed
<1>9. i = 1 => i \in missing
  BY DEF Pipe
<1>10. Stage(i, pc'[i], fds'[i], pfd'[i])
  <2>1. i - 1 \in Process
    BY DEF Pipe, Process, ShellAssumption
  <2> QED
    BY <1>6, <1>8, <1>9, <2>1 DEF Stage
<1> QED
  BY <1>7, <1>10, OneProcess

(* fork: the child holds what its parent holds.                             *)
LEMMA ForkOK ==
  ASSUME ShellAssumption, IInv, NEW i \in Process, i - 1 \in Process, Fork(i)
  PROVE  IInv'
<1>1. HasPipe(fds[i], i, pfd[i]) /\ (i = 1 => i \in missing)
  BY DEF IInv, Staged, Stage, Fork
<1>2. i \in Int /\ i - 1 + 1 = i /\ i - 1 # i /\ i - 1 < LastCommand
  BY DEF ShellAssumption, Process, LastCommand
<1>3. /\ pc'[i] = "parent" /\ pc'[i - 1] = "child"
      /\ fds'[i] = fds[i] /\ fds'[i - 1] = fds[i]
      /\ pfd'[i] = pfd[i] /\ pfd'[i - 1] = pfd[i]
      /\ \A j \in Process \ {i, i - 1} : pc'[j] = pc[j] /\ fds'[j] = fds[j] /\ pfd'[j] = pfd[j]
      /\ DOMAIN pc' = Process /\ DOMAIN fds' = Process /\ DOMAIN pfd' = Process
      /\ UNCHANGED <<started, missing>>
  BY <1>2 DEF Fork, IInv, Typed
<1>4. Stage(i, pc'[i], fds'[i], pfd'[i])
  BY <1>1, <1>3 DEF Stage
<1>5. Stage(i - 1, pc'[i - 1], fds'[i - 1], pfd'[i - 1])
  BY <1>1, <1>2, <1>3 DEF Stage
<1>6. \A j \in Process : Stage(j, pc'[j], fds'[j], pfd'[j])
  BY <1>3, <1>4, <1>5 DEF IInv, Staged
<1>7. ASSUME NEW j \in Process PROVE Stage(j, pc[j], fds[j], pfd[j])'
  BY <1>3, <1>6 DEF Stage, Output, HasPipe, ParentHasInput, ChildHasOutput
<1>8. Typed'
  BY <1>3 DEF Typed, IInv
<1> QED
  BY <1>7, <1>8 DEF IInv, Staged

(* The parent turns the read end into its standard input, and closes the    *)
(* write end.                                                               *)
LEMMA ParentOK ==
  ASSUME ShellAssumption, IInv, NEW i \in Process, ParentChangeFD(i) \/ ParentClose(i)
  PROVE  IInv'
<1>1. CASE ParentChangeFD(i)
  <2> DEFINE t == ChangeFD(fds[i], pfd[i][1], STDIN_FILENO)
  <2>1. HasPipe(fds[i], i, pfd[i]) /\ (i = 1 => i \in missing)
    BY <1>1 DEF IInv, Staged, Stage, ParentChangeFD
  <2>2. ParentHasInput(t, i, pfd[i])
    BY <2>1 DEF HasPipe, ParentHasInput, ChangeFD, Output, STDIN_FILENO, STDOUT_FILENO,
                IInv, Typed, Fd, ShellAssumption
  <2> HIDE DEF t
  <2>3. OnlyOf(i) /\ pc'[i] = "parent_close" /\ fds'[i] = t /\ pfd'[i] = pfd[i]
    BY <1>1, StepOnly DEF ParentChangeFD, goto, t
  <2>4. Stage(i, pc'[i], fds'[i], pfd'[i])
    BY <2>1, <2>2, <2>3 DEF Stage
  <2> QED
    BY <2>3, <2>4, OneProcess
<1>2. CASE ParentClose(i)
  <2> DEFINE t == [fds[i] EXCEPT ![pfd[i][2]] = Closed]
  <2>1. ParentHasInput(fds[i], i, pfd[i]) /\ (i = 1 => i \in missing)
    BY <1>2 DEF IInv, Staged, Stage, ParentClose
  <2>2. t = [Output(i) EXCEPT ![STDIN_FILENO] = ReadEnd(i)]
    BY <2>1 DEF ParentHasInput, Output, STDIN_FILENO, STDOUT_FILENO,
                IInv, Typed, Fd, ShellAssumption
  <2>3. fds' = [fds EXCEPT ![i] = t]
    BY <1>2 DEF ParentClose
  <2> HIDE DEF t
  <2>4. OnlyOf(i) /\ pc'[i] = "exec" /\ fds'[i] = t
    BY <1>2, <2>3, StepOnly DEF ParentClose, goto
  <2>5. Stage(i, pc'[i], fds'[i], pfd'[i])
    BY <2>1, <2>2, <2>4 DEF Stage
  <2> QED
    BY <2>4, <2>5, OneProcess
<1> QED
  BY <1>1, <1>2

(* The child turns the write end into its standard output, and closes the   *)
(* read end: it is at the beginning of ForkBack, as its parent was.         *)
LEMMA ChildOK ==
  ASSUME ShellAssumption, IInv, NEW i \in Process, ChildChangeFD(i) \/ ChildClose(i)
  PROVE  IInv'
<1>1. CASE ChildChangeFD(i)
  <2> DEFINE t == ChangeFD(fds[i], pfd[i][2], STDOUT_FILENO)
  <2>1. i < LastCommand /\ HasPipe(fds[i], i + 1, pfd[i])
    BY <1>1 DEF IInv, Staged, Stage, ChildChangeFD
  <2>2. i # LastCommand
    BY <2>1 DEF LastCommand, ShellAssumption, Process
  <2>3. ChildHasOutput(t, i, pfd[i])
    BY <2>1, <2>2 DEF HasPipe, ChildHasOutput, ChangeFD, Output, STDIN_FILENO, STDOUT_FILENO,
                IInv, Typed, Fd, ShellAssumption
  <2> HIDE DEF t
  <2>4. OnlyOf(i) /\ pc'[i] = "child_close" /\ fds'[i] = t /\ pfd'[i] = pfd[i]
    BY <1>1, StepOnly DEF ChildChangeFD, goto, t
  <2>5. Stage(i, pc'[i], fds'[i], pfd'[i])
    BY <2>1, <2>3, <2>4 DEF Stage
  <2> QED
    BY <2>4, <2>5, OneProcess
<1>2. CASE ChildClose(i)
  <2> DEFINE t == [fds[i] EXCEPT ![pfd[i][1]] = Closed]
  <2>1. i < LastCommand /\ ChildHasOutput(fds[i], i, pfd[i])
    BY <1>2 DEF IInv, Staged, Stage, ChildClose
  <2>2. t = Output(i)
    BY <2>1 DEF ChildHasOutput, Output, STDIN_FILENO, STDOUT_FILENO,
                IInv, Typed, Fd, ShellAssumption
  <2>3. fds' = [fds EXCEPT ![i] = t]
    BY <1>2 DEF ChildClose
  <2> HIDE DEF t
  <2>4. OnlyOf(i) /\ pc'[i] = "forkback" /\ fds'[i] = t
    BY <1>2, <2>3, StepOnly DEF ChildClose, goto
  <2>5. Stage(i, pc'[i], fds'[i], pfd'[i])
    BY <2>2, <2>4 DEF Stage
  <2> QED
    BY <2>4, <2>5, OneProcess
<1> QED
  BY <1>1, <1>2

(* A command is executed with what its process holds.                       *)
LEMMA ExecOK ==
  ASSUME ShellAssumption, IInv, NEW i \in Process, ExecFirst(i) \/ Exec(i)
  PROVE  IInv'
<1> DEFINE t == [Output(i) EXCEPT ![STDIN_FILENO] = IF i = 1 THEN Terminal(0) ELSE ReadEnd(i)]
<1>1. CASE ExecFirst(i)
  <2>1. fds[i] = Output(i) /\ i = 1
    BY <1>1 DEF IInv, Staged, Stage, ExecFirst
  <2>2. Output(i) = t
    <3>1. started \in [Fd -> File] /\ started[0] = Terminal(0)
      BY DEF IInv, Typed, STDIN_FILENO
    <3> DEFINE y == IF i = LastCommand THEN ResultFile ELSE WriteEnd(i + 1)
    <3> HIDE DEF y
    <3> DEFINE f == [started EXCEPT ![1] = y]
               g == [f EXCEPT ![0] = Terminal(0)]
    <3>2. f = g
      <4>1. DOMAIN f = Fd /\ DOMAIN g = Fd
        BY <3>1
      <4>2. ASSUME NEW d \in Fd PROVE f[d] = g[d]
        BY <3>1
      <4>3. f = [d \in Fd |-> f[d]] /\ g = [d \in Fd |-> g[d]]
        BY <3>1
      <4> HIDE DEF f, g
      <4> QED
        BY <4>2, <4>3
    <3> QED
      BY <2>1, <3>2 DEF Output, y, STDIN_FILENO, STDOUT_FILENO
  <2>3. i \in Command
    BY <2>1 DEF Command, ShellAssumption
  <2> HIDE DEF t
  <2>4. OnlyOf(i) /\ pc'[i] = "running" /\ fds'[i] = t
    BY <1>1, <2>1, <2>2 DEF ExecFirst, goto, OnlyOf, IInv, Typed
  <2>5. Stage(i, pc'[i], fds'[i], pfd'[i])
    BY <2>3, <2>4 DEF Stage, t
  <2> QED
    BY <2>4, <2>5, OneProcess
<1>2. CASE Exec(i)
  <2>1. fds[i] = t /\ i \in Command
    BY <1>2 DEF IInv, Staged, Stage, Exec
  <2> HIDE DEF t
  <2>2. OnlyOf(i) /\ pc'[i] = "running" /\ fds'[i] = t
    BY <1>2, <2>1 DEF Exec, goto, OnlyOf, IInv, Typed
  <2>3. Stage(i, pc'[i], fds'[i], pfd'[i])
    BY <2>1, <2>2 DEF Stage, t
  <2> QED
    BY <2>2, <2>3, OneProcess
<1> QED
  BY <1>1, <1>2

(* The programs open and close nothing until they end.                      *)
LEMMA ProgramOK ==
  ASSUME IInv, NEW i \in Process, Program(i) \/ Quit(i)
  PROVE  IInv'
<1>1. CASE Read(i) \/ Write(i)
  BY <1>1, NothingMoved DEF Read, Write
<1>2. CASE BrokenPipe(i) \/ Finish(i) \/ Quit(i)
  BY <1>2, ExitOK DEF BrokenPipe, Finish, Quit, ExitFailed
<1> QED
  BY <1>1, <1>2 DEF Program

-----------------------------------------------------------------------------
(* The invariant holds in every state.                                      *)
THEOREM InvariantHolds == Spec => []IInv
<1>1. IInv /\ [Next]_vars => IInv'
  <2> SUFFICES ASSUME IInv, [Next]_vars PROVE IInv'
    OBVIOUS
  <2>1. LastCommand \in Process
    BY ShellAssumption DEF ShellAssumption, LastCommand, Process
  <2>2. CASE SettingsLastCommand
    BY <2>2, ShellAssumption, SettingsOK
  <2>3. CASE SettingsFail \/ OpenFails
    BY <2>1, <2>3, ExitOK DEF SettingsFail, OpenFails, ExitFailed
  <2>4. ASSUME NEW i \in Process, Fork(i) PROVE IInv'
    <3>1. i - 1 \in Process
      BY <2>4 DEF Fork, IInv, Staged, Stage
    <3> QED
      BY <2>4, <3>1, ShellAssumption, ForkOK
  <2>5. ASSUME NEW i \in Process, ForkBack(i), ~Fork(i) PROVE IInv'
    <3>1. CASE PipeFails(i) \/ ForkFails(i) \/ ExecFails(i) \/ SplitStringFaults(i)
      BY <3>1, ExitOK DEF PipeFails, ForkFails, ExecFails, SplitStringFaults, ExitFailed
    <3> QED
      BY <2>5, <3>1, ShellAssumption, PipeOK, ParentOK, ChildOK, ExecOK DEF ForkBack
  <2>6. CASE UNCHANGED vars
    BY <2>6, NothingMoved DEF vars
  <2> QED
    BY <2>2, <2>3, <2>4, <2>5, <2>6, ProgramOK DEF Next
<1>2. Init => IInv
  BY ShellAssumption, InitOK
<1> QED
  BY <1>1, <1>2, PTL DEF Spec

(* A command of a line of any length runs with its input from the command   *)
(* to the left and its output to the one to the right, and holds no other   *)
(* end of a pipe, whatever failed in the processes around it.               *)
THEOREM RunsWithItsPipesOnly == Spec => []RunsWithItsPipes
<1>1. IInv => RunsWithItsPipes
  BY DEF IInv, Staged, Stage, Output, RunsWithItsPipes
<1> QED
  BY <1>1, InvariantHolds, PTL

-----------------------------------------------------------------------------
(***************************************************************************)
(* In which order the processes come and go.  A process exists only after  *)
(* the one to its right has forked it, and who has come to the end of its  *)
(* input -- and has not failed -- outlives the one to its left, which      *)
(* would still hold the pipe.                                              *)
(***************************************************************************)
Labels == {"none", "settings", "forkback", "fork", "parent", "parent_close", "exec",
           "child", "child_close", "running", "ended"}

(* Where a process is when it has forked the one to its left. *)
HasForked == {"parent", "parent_close", "exec", "running", "ended"}

Order ==
  /\ pc \in [Process -> Labels]
  /\ pc[LastCommand] # "none"
  /\ \A i \in Process \ {LastCommand} : pc[i] # "none" => pc[i + 1] \in HasForked
  /\ \A i \in Command \ {1} : pc[i] \in HasForked \ {"ended"} => pc[i - 1] # "none"
  /\ \A i \in Command \ {1} : pc[i] = "ended" /\ i \notin failed => pc[i - 1] = "ended"

(***************************************************************************)
(* Where the items are.  What command i has read and what it has written   *)
(* are the first r[i] and the first w[i] of them; in its hand is what is   *)
(* between, in the pipe to its right what it has written and the next      *)
(* command has not read, in the file what the last command has written.    *)
(***************************************************************************)
Between(a, b) == [k \in 1 .. b - a |-> a + k]

InPipes(r, w) ==
  /\ DOMAIN hand = Process /\ DOMAIN buffer = Process
  /\ r \in [Command -> 0 .. Items] /\ w \in [Command -> 0 .. Items]
  /\ \A i \in Command : w[i] <= r[i] /\ hand[i] = Between(w[i], r[i])
  /\ \A i \in Command \ {1} : r[i] <= w[i - 1] /\ buffer[i] = Between(r[i], w[i - 1])

InFile(w) ==
  \/ result = Between(0, w[LastCommand])
  \/ /\ result = <<Old>> /\ w[LastCommand] = 0
     /\ pc[LastCommand] = "settings" \/ (pc[LastCommand] = "ended" /\ LastCommand \in failed)

(* Nothing is read before the command runs, and all is written in the end,  *)
(* unless something has failed.                                             *)
Done(r, w) ==
  /\ \A i \in Command : pc[i] \notin {"running", "ended"} => r[i] = 0
  /\ pc[1] = "running" => r[1] = Items
  /\ \A i \in Command : pc[i] = "ended" /\ failed = {} => w[i] = Items

Flow(r, w) == InPipes(r, w) /\ InFile(w) /\ Done(r, w)

FlowInv == \E r, w : Flow(r, w)

-----------------------------------------------------------------------------
LEMMA ProcessNumbers ==
  /\ Process \subseteq Int /\ Command \subseteq Process
  /\ LastCommand \in Command /\ 1 \in Command
  /\ \A i \in Process \ {LastCommand} : i + 1 \in Process /\ i + 1 # i
  /\ \A i \in Command \ {1} : i - 1 \in Command /\ i # i - 1 /\ i - 1 # LastCommand
  /\ \A i \in Command \ {LastCommand} : i + 1 \in Command \ {1} /\ i + 1 # i
  BY ShellAssumption DEF ShellAssumption, Process, Command, LastCommand

(* A step of process i alone, to `label'. *)
MovesTo(i, label) == pc' = [pc EXCEPT ![i] = label] /\ failed \subseteq failed'

LEMMA MoveKeepsOrder ==
  ASSUME Order, NEW i \in Process, NEW label \in Labels \ {"none"}, MovesTo(i, label),
         pc[i] \notin {"none", "ended"},
         pc[i] \in HasForked => label \in HasForked,
         label \in HasForked \ {"ended"} /\ i # 1 => pc[i] \in HasForked,
         label = "ended" /\ i \in Command \ {1} => i \in failed' \/ pc[i - 1] = "ended"
  PROVE  Order'
<1>1. /\ pc \in [Process -> Labels]
      /\ pc'[i] = label /\ \A j \in Process \ {i} : pc'[j] = pc[j]
      /\ pc' \in [Process -> Labels]
      /\ failed \subseteq failed'
  BY DEF Order, MovesTo
<1>2. \A j \in Process : pc'[j] = "none" <=> pc[j] = "none"
  BY <1>1
<1>3. \A j \in Process : pc[j] \in HasForked => pc'[j] \in HasForked
  BY <1>1
<1>4. pc'[LastCommand] # "none"
  BY <1>2, ProcessNumbers DEF Order
<1>5. \A j \in Process \ {LastCommand} : pc'[j] # "none" => pc'[j + 1] \in HasForked
  BY <1>2, <1>3, ProcessNumbers DEF Order
<1>6. ASSUME NEW j \in Command \ {1}, pc'[j] \in HasForked \ {"ended"}
      PROVE  pc'[j - 1] # "none"
  <2>1. pc[j] \in HasForked \ {"ended"}
    BY <1>1, <1>6, ProcessNumbers
  <2> QED
    BY <1>2, <2>1, ProcessNumbers DEF Order
<1>7. ASSUME NEW j \in Command \ {1}, pc'[j] = "ended", j \notin failed'
      PROVE  pc'[j - 1] = "ended"
  <2>1. pc[j - 1] = "ended"
    <3>1. CASE j = i
      BY <1>1, <1>7, <3>1
    <3>2. CASE j # i
      BY <1>1, <1>7, <3>2, ProcessNumbers DEF Order
    <3> QED
      BY <3>1, <3>2
  <2> QED
    BY <1>1, <2>1, ProcessNumbers
<1> QED
  BY <1>1, <1>4, <1>5, <1>6, <1>7 DEF Order

(* Fork: the parent goes on, and the child begins.                          *)
LEMMA ForkKeepsOrder ==
  ASSUME Order, NEW i \in Process, i - 1 \in Process, Fork(i)
  PROVE  Order'
<1>1. /\ pc \in [Process -> Labels] /\ pc[i] = "fork"
      /\ i \in Int /\ i - 1 # i /\ i - 1 + 1 = i /\ i - 1 # LastCommand
      /\ pc'[i] = "parent" /\ pc'[i - 1] = "child" /\ failed' = failed
      /\ \A j \in Process \ {i, i - 1} : pc'[j] = pc[j]
      /\ pc' \in [Process -> Labels]
  BY ProcessNumbers, ShellAssumption, SMTT(30) DEF Order, Fork, Process, LastCommand, ShellAssumption, Labels
<1>2. pc[i - 1] = "none"
  BY <1>1 DEF Order, HasForked
<1>3. pc'[LastCommand] # "none"
  BY <1>1, ProcessNumbers DEF Order
<1>4. ASSUME NEW j \in Process \ {LastCommand}, pc'[j] # "none"
      PROVE  pc'[j + 1] \in HasForked
  <2>1. CASE j = i - 1
    BY <1>1, <2>1 DEF HasForked
  <2>2. CASE j # i - 1
    <3>1. pc[j] # "none"
      BY <1>1, <1>4, <2>2
    <3>2. pc[j + 1] \in HasForked /\ j + 1 \in Process
      BY <3>1, ProcessNumbers DEF Order
    <3>3. j + 1 # i - 1 /\ j + 1 # i
      BY <1>1, <1>2, <3>2 DEF HasForked
    <3> QED
      BY <1>1, <3>2, <3>3
  <2> QED
    BY <2>1, <2>2
<1>5. ASSUME NEW j \in Command \ {1}, pc'[j] \in HasForked \ {"ended"}
      PROVE  pc'[j - 1] # "none"
  <2>1. CASE j = i
    BY <1>1, <2>1
  <2>2. CASE j # i
    <3>1. j # i - 1
      BY <1>1, <1>5 DEF HasForked
    <3>2. pc[j - 1] # "none" /\ j - 1 \in Process
      BY <1>1, <1>5, <2>2, <3>1, ProcessNumbers DEF Order
    <3> QED
      BY <1>1, <3>2
  <2> QED
    BY <2>1, <2>2
<1>6. ASSUME NEW j \in Command \ {1}, pc'[j] = "ended", j \notin failed'
      PROVE  pc'[j - 1] = "ended"
  <2>1. j # i /\ j # i - 1
    BY <1>1, <1>6
  <2>2. pc[j - 1] = "ended" /\ j - 1 \in Process
    BY <1>1, <1>6, <2>1, ProcessNumbers DEF Order
  <2> QED
    BY <1>1, <1>2, <2>2
<1> QED
  BY <1>1, <1>3, <1>4, <1>5, <1>6 DEF Order

(* Whoever has not ended holds the write end of the pipe to its right, and, *)
(* once it has a pipe to its left, the read end of that.                    *)
LEMMA HoldsPipes ==
  ASSUME IInv, NEW i \in Process, pc[i] \in Labels \ {"none", "ended"}
  PROVE  /\ i # LastCommand => Holds(i, WriteEnd(i + 1))
         /\ i # 1 /\ pc[i] \in HasForked => Holds(i, ReadEnd(i))
<1>1. Stage(i, pc[i], fds[i], pfd[i]) /\ DOMAIN started = Fd /\ 0 \in Fd /\ 1 \in Fd
  BY ShellAssumption DEF IInv, Staged, Typed, Fd, ShellAssumption
<1>2. ASSUME i # LastCommand PROVE Holds(i, WriteEnd(i + 1))
  <2>1. Output(i)[1] = WriteEnd(i + 1)
    BY <1>1, <1>2 DEF Output, STDOUT_FILENO
  <2>2. CASE pc[i] \in {"forkback", "fork", "parent", "parent_close", "exec", "child_close",
                        "running"}
    <3>1. DOMAIN Output(i) = Fd
      BY <1>1 DEF Output
    <3>2. fds[i][1] = WriteEnd(i + 1)
      <4>1. CASE pc[i] = "forkback"
        BY <1>1, <2>1, <4>1 DEF Stage
      <4>2. CASE pc[i] \in {"fork", "parent"}
        BY <1>1, <2>1, <3>1, <4>2 DEF Stage, HasPipe
      <4>3. CASE pc[i] = "parent_close"
        <5>1. ParentHasInput(fds[i], i, pfd[i])
          BY <1>1, <4>3 DEF Stage
        <5>2. /\ pfd[i][2] # 1 /\ 0 # 1
              /\ fds[i] = [Output(i) EXCEPT ![0] = ReadEnd(i), ![pfd[i][2]] = WriteEnd(i)]
          BY <5>1 DEF ParentHasInput, STDIN_FILENO
        <5> QED
          BY <1>1, <2>1, <3>1, <5>2
      <4>4. CASE pc[i] = "exec"
        <5>1. fds[i] = [Output(i) EXCEPT ![0] = ReadEnd(i)] /\ 0 # 1
          BY <1>1, <4>4 DEF Stage, STDIN_FILENO
        <5> QED
          BY <1>1, <2>1, <3>1, <5>1
      <4>5. CASE pc[i] = "running"
        <5>1. 0 # 1 /\ fds[i] = [Output(i) EXCEPT ![0] = IF i = 1 THEN Terminal(0) ELSE ReadEnd(i)]
          BY <1>1, <4>5 DEF Stage, STDIN_FILENO
        <5> QED
          BY <1>1, <2>1, <3>1, <5>1
      <4>6. CASE pc[i] = "child_close"
        BY <1>1, <2>1, <3>1, <4>6 DEF Stage, ChildHasOutput
      <4> QED
        BY <2>2, <4>1, <4>2, <4>3, <4>4, <4>5, <4>6
    <3> QED
      BY <1>1, <3>2 DEF Holds
  <2>3. CASE pc[i] = "child"
    <3>1. HasPipe(fds[i], i + 1, pfd[i])
      BY <1>1, <2>3 DEF Stage
    <3>2. /\ pfd[i][2] \in Fd /\ pfd[i][1] # pfd[i][2] /\ DOMAIN Output(i + 1) = Fd
          /\ fds[i] = [Output(i + 1) EXCEPT ![pfd[i][1]] = ReadEnd(i + 1),
                                            ![pfd[i][2]] = WriteEnd(i + 1)]
      BY <1>1, <3>1 DEF HasPipe, Output
    <3> QED
      BY <3>2 DEF Holds
  <2>4. pc[i] # "settings"
    BY <1>1, <1>2 DEF Stage
  <2> QED
    BY <2>2, <2>3, <2>4 DEF Labels
<1>3. ASSUME i # 1, pc[i] \in HasForked PROVE Holds(i, ReadEnd(i))
  <2>1. CASE pc[i] = "parent"
    <3>1. HasPipe(fds[i], i, pfd[i])
      BY <1>1, <2>1 DEF Stage
    <3>2. /\ pfd[i][1] \in Fd /\ pfd[i][1] # pfd[i][2] /\ DOMAIN Output(i) = Fd
          /\ fds[i] = [Output(i) EXCEPT ![pfd[i][1]] = ReadEnd(i),
                                        ![pfd[i][2]] = WriteEnd(i)]
      BY <1>1, <3>1 DEF HasPipe, Output
    <3> QED
      BY <3>2 DEF Holds
  <2>2. CASE pc[i] \in {"parent_close", "exec", "running"}
    <3>1. fds[i][0] = ReadEnd(i)
      BY <1>1, <1>3, <2>2 DEF Stage, ParentHasInput, Output, STDIN_FILENO, STDOUT_FILENO
    <3> QED
      BY <1>1, <3>1 DEF Holds
  <2> QED
    BY <1>3, <2>1, <2>2 DEF HasForked
<1> QED
  BY <1>2, <1>3

LEMMA FailureKeepsOrder ==
  ASSUME Order, NEW i \in Process, Exit(i), failed' = failed \cup {i},
         pc[i] \notin {"none", "ended"}
  PROVE  Order'
<1>1. MovesTo(i, "ended") /\ i \in failed'
  BY DEF Exit, MovesTo
<1>2. "ended" \in Labels \ {"none"} /\ "ended" \in HasForked
  BY DEF Labels, HasForked
<1> QED
  BY <1>1, <1>2, MoveKeepsOrder

(* A command comes to the end of its input only when nobody holds the write *)
(* end of its pipe any more; the command to its left held one until it      *)
(* ended.                                                                   *)
LEMMA FinishKeepsOrder ==
  ASSUME IInv, Order, NEW i \in Process, Finish(i)
  PROVE  Order' /\ i \in Command /\ (i # 1 => pc[i - 1] = "ended")
<1>1. pc[i] = "running" /\ MovesTo(i, "ended")
  BY DEF Finish, Exit, MovesTo
<1>2. /\ i \in Command
      /\ fds[i] = [Output(i) EXCEPT ![STDIN_FILENO] = IF i = 1 THEN Terminal(0) ELSE ReadEnd(i)]
  BY <1>1 DEF IInv, Staged, Stage
<1>3. ASSUME i # 1 PROVE pc[i - 1] = "ended"
  <2>1. i > 1 /\ i - 1 \in Process /\ i - 1 # LastCommand /\ i - 1 + 1 = i
    BY <1>2, <1>3, ProcessNumbers DEF Command
  <2>2. PICK k \in Process : /\ fds[i][STDIN_FILENO] = ReadEnd(k)
                             /\ \A j \in Process : ~Holds(j, WriteEnd(k))
    BY <2>1 DEF Finish
  <2>3. fds[i][0] = ReadEnd(i)
    <3>1. DOMAIN Output(i) = Fd /\ 0 \in Fd
      BY ShellAssumption DEF IInv, Typed, Output, Fd, ShellAssumption
    <3> QED
      BY <1>2, <1>3, <3>1 DEF STDIN_FILENO
  <2>4. ~Holds(i - 1, WriteEnd(i))
    BY <2>1, <2>2, <2>3 DEF ReadEnd, STDIN_FILENO
  <2>5. pc[i - 1] \in {"none", "ended"}
    <3>1. pc[i - 1] \in Labels
      BY <2>1 DEF Order
    <3> QED
      BY <2>1, <2>4, <3>1, HoldsPipes
  <2>6. pc[i - 1] # "none"
    BY <1>1, <1>2, <1>3 DEF Order, HasForked
  <2> QED
    BY <2>5, <2>6
<1>4. "ended" \in Labels \ {"none"} /\ "ended" \in HasForked /\ pc[i] \in HasForked
  BY <1>1 DEF Labels, HasForked
<1>5. Order'
  BY <1>1, <1>3, <1>4, MoveKeepsOrder
<1> QED
  BY <1>2, <1>3, <1>5

LEMMA ForkBackKeepsOrder ==
  ASSUME IInv, Order, NEW i \in Process, ForkBack(i)
  PROVE  Order'
<1>1. CASE ExecFirst(i)
  <2>1. MovesTo(i, "running") /\ pc[i] = "forkback" /\ i = 1
    BY <1>1 DEF ExecFirst, goto, MovesTo
  <2>2. "running" \in Labels \ {"none"} /\ pc[i] \notin HasForked
    BY <2>1 DEF Labels, HasForked
  <2> QED
    BY <2>1, <2>2, MoveKeepsOrder
<1>2. CASE Pipe(i)
  <2>1. MovesTo(i, "fork") /\ pc[i] = "forkback"
    BY <1>2 DEF Pipe, goto, MovesTo
  <2>2. "fork" \in Labels \ {"none"} /\ pc[i] \notin HasForked /\ "fork" \notin HasForked
    BY <2>1 DEF Labels, HasForked
  <2> QED
    BY <2>1, <2>2, MoveKeepsOrder
<1>3. CASE PipeFails(i) \/ ForkFails(i) \/ ExecFails(i) \/ SplitStringFaults(i)
  <2>1. Exit(i) /\ failed' = failed \cup {i} /\ pc[i] \notin {"none", "ended"}
    BY <1>3 DEF PipeFails, ForkFails, ExecFails, SplitStringFaults, ExitFailed
  <2> QED
    BY <2>1, FailureKeepsOrder
<1>4. CASE Fork(i)
  <2>1. i - 1 \in Process
    BY <1>4 DEF Fork, IInv, Staged, Stage
  <2> QED
    BY <1>4, <2>1, ForkKeepsOrder
<1>5. CASE ParentChangeFD(i)
  <2>1. MovesTo(i, "parent_close") /\ pc[i] = "parent"
    BY <1>5 DEF ParentChangeFD, goto, MovesTo
  <2>2. "parent_close" \in Labels \ {"none"} /\ pc[i] \in HasForked /\ "parent_close" \in HasForked
    BY <2>1 DEF Labels, HasForked
  <2> QED
    BY <2>1, <2>2, MoveKeepsOrder
<1>6. CASE ParentClose(i)
  <2>1. MovesTo(i, "exec") /\ pc[i] = "parent_close"
    BY <1>6 DEF ParentClose, goto, MovesTo
  <2>2. "exec" \in Labels \ {"none"} /\ pc[i] \in HasForked /\ "exec" \in HasForked
    BY <2>1 DEF Labels, HasForked
  <2> QED
    BY <2>1, <2>2, MoveKeepsOrder
<1>7. CASE Exec(i)
  <2>1. MovesTo(i, "running") /\ pc[i] = "exec"
    BY <1>7 DEF Exec, goto, MovesTo
  <2>2. "running" \in Labels \ {"none"} /\ pc[i] \in HasForked /\ "running" \in HasForked
    BY <2>1 DEF Labels, HasForked
  <2> QED
    BY <2>1, <2>2, MoveKeepsOrder
<1>8. CASE ChildChangeFD(i)
  <2>1. MovesTo(i, "child_close") /\ pc[i] = "child"
    BY <1>8 DEF ChildChangeFD, goto, MovesTo
  <2>2. "child_close" \in Labels \ {"none"} /\ pc[i] \notin HasForked /\ "child_close" \notin HasForked
    BY <2>1 DEF Labels, HasForked
  <2> QED
    BY <2>1, <2>2, MoveKeepsOrder
<1>9. CASE ChildClose(i)
  <2>1. MovesTo(i, "forkback") /\ pc[i] = "child_close"
    BY <1>9 DEF ChildClose, goto, MovesTo
  <2>2. "forkback" \in Labels \ {"none"} /\ pc[i] \notin HasForked /\ "forkback" \notin HasForked
    BY <2>1 DEF Labels, HasForked
  <2> QED
    BY <2>1, <2>2, MoveKeepsOrder
<1> QED
  BY <1>1, <1>2, <1>3, <1>4, <1>5, <1>6, <1>7, <1>8, <1>9 DEF ForkBack

(* The order holds at the start.                                            *)
LEMMA InitOrder == Init => Order
<1> SUFFICES ASSUME Init PROVE Order
  OBVIOUS
<1>1. /\ pc \in [Process -> Labels] /\ pc[LastCommand] = "settings"
      /\ \A i \in Process \ {LastCommand} : pc[i] = "none"
  BY ProcessNumbers DEF Init, Labels
<1>2. \A i \in Command \ {1} : pc[i] \in {"settings", "none"}
  BY <1>1, ProcessNumbers
<1> QED
  BY <1>1, <1>2 DEF Order, HasForked

(* The order is kept whatever happens. *)
LEMMA OrderHolds == Spec => [](IInv /\ Order)
<1>1. ASSUME IInv, Order, [Next]_vars PROVE Order'
  <2>1. LastCommand \in Process
    BY ProcessNumbers
  <2>2. CASE SettingsLastCommand
    <3>1. MovesTo(LastCommand, "forkback") /\ pc[LastCommand] = "settings"
      BY <2>2 DEF SettingsLastCommand, goto, MovesTo
    <3>2. /\ "forkback" \in Labels \ {"none"} /\ pc[LastCommand] \notin HasForked
          /\ "forkback" \notin HasForked
      BY <3>1 DEF Labels, HasForked
    <3> QED
      BY <1>1, <2>1, <3>1, <3>2, MoveKeepsOrder
  <2>3. CASE SettingsFail \/ OpenFails
    <3>1. /\ Exit(LastCommand) /\ failed' = failed \cup {LastCommand}
          /\ pc[LastCommand] \notin {"none", "ended"}
      BY <2>3 DEF SettingsFail, OpenFails, ExitFailed
    <3> QED
      BY <1>1, <2>1, <3>1, FailureKeepsOrder
  <2>4. ASSUME NEW i \in Process, BrokenPipe(i) \/ Quit(i) PROVE Order'
    <3>1. Exit(i) /\ failed' = failed \cup {i} /\ pc[i] \notin {"none", "ended"}
      BY <2>4 DEF BrokenPipe, Quit, ExitFailed
    <3> QED
      BY <1>1, <3>1, FailureKeepsOrder
  <2>5. CASE UNCHANGED <<pc, failed>>
    BY <1>1, <2>5 DEF Order
  <2>6. ASSUME NEW i \in Process, Read(i) \/ Write(i) PROVE Order'
    BY <2>5, <2>6 DEF Read, Write
  <2>7. CASE UNCHANGED vars
    BY <2>5, <2>7 DEF vars
  <2> QED
    BY <1>1, <2>2, <2>3, <2>4, <2>6, <2>7, ForkBackKeepsOrder, FinishKeepsOrder DEF Next, Program
<1>2. Init => Order
  BY InitOrder
<1> QED
  BY <1>1, <1>2, InvariantHolds, PTL DEF Spec

(* A program is killed for writing to a pipe only when the command to its   *)
(* right has ended before its input did: nobody else ever closes the last   *)
(* read end, however the processes race.                                    *)
THEOREM KilledOnlyByItsReader == Spec => KilledOnlyByReader
<1>1. ASSUME IInv, Order, NEW i \in Command, BrokenPipe(i)
      PROVE  i + 1 \in failed
  <2>1. i \in Process /\ pc[i] = "running"
    BY <1>1, ProcessNumbers DEF BrokenPipe
  <2>2. /\ DOMAIN Output(i) = Fd /\ 0 # 1 /\ 1 \in Fd
        /\ fds[i] = [Output(i) EXCEPT ![0] = IF i = 1 THEN Terminal(0) ELSE ReadEnd(i)]
        /\ Output(i)[1] = IF i = LastCommand THEN ResultFile ELSE WriteEnd(i + 1)
    BY <1>1, <2>1, ShellAssumption
       DEF IInv, Staged, Stage, Typed, Output, Fd, ShellAssumption, STDIN_FILENO, STDOUT_FILENO
  <2>3. fds[i][1] = IF i = LastCommand THEN ResultFile ELSE WriteEnd(i + 1)
    BY <2>2
  <2>4. PICK k \in Process : fds[i][1] = WriteEnd(k) /\ \A j \in Process : ~Holds(j, ReadEnd(k))
    BY <1>1 DEF BrokenPipe, STDOUT_FILENO
  <2>5. i # LastCommand /\ k = i + 1
    BY <2>3, <2>4 DEF ResultFile, WriteEnd
  <2>6. /\ i + 1 \in Command \ {1} /\ i + 1 \in Process /\ i + 1 - 1 = i
        /\ i \in Process \ {LastCommand}
    BY <1>1, <2>5, ProcessNumbers
  <2>7. pc[i + 1] \in HasForked /\ pc[i + 1] \in Labels
    BY <1>1, <2>1, <2>6 DEF Order
  <2>8. pc[i + 1] = "ended"
    <3>1. ~Holds(i + 1, ReadEnd(i + 1))
      BY <2>4, <2>5, <2>6
    <3> QED
      BY <1>1, <2>6, <2>7, <3>1, HoldsPipes DEF HasForked
  <2>9. i + 1 \notin failed => pc[i] = "ended"
    <3>1. ASSUME NEW j \in Command \ {1}, pc[j] = "ended", j \notin failed
          PROVE  pc[j - 1] = "ended"
      BY <1>1, <3>1 DEF Order
    <3>2. PICK j \in Command \ {1} : j = i + 1 /\ j - 1 = i
      <4>1. i \in Int
        BY <2>1, ProcessNumbers
      <4> QED
        BY <2>6, <4>1
    <3>3. pc[j] = "ended" /\ j \notin failed => pc[j - 1] = "ended"
      BY <3>1
    <3> QED
      BY <2>8, <3>2, <3>3
  <2> QED
    BY <2>1, <2>9
<1>2. IInv /\ Order /\ [Next]_vars => [\A i \in Command : BrokenPipe(i) => i + 1 \in failed]_vars
  BY <1>1
<1> QED
  BY <1>2, OrderHolds, PTL DEF Spec, KilledOnlyByReader

-----------------------------------------------------------------------------
(* Consecutive items: one is taken from the front, one is added at the end. *)
LEMMA BetweenIsSequence ==
  ASSUME NEW a \in Nat, NEW b \in Nat, a <= b
  PROVE  /\ Between(a, b) \in Seq(Int) /\ Len(Between(a, b)) = b - a
         /\ \A k \in 1 .. b - a : Between(a, b)[k] = a + k
         /\ Between(a, b) = <<>> <=> a = b
<1>1. b - a \in Nat
  OBVIOUS
<1>2. Between(a, b) \in [1 .. b - a -> Int]
  BY DEF Between
<1>3. Between(a, b) \in Seq(Int) /\ Len(Between(a, b)) = b - a
  BY <1>1, <1>2
<1>4. Between(a, b) = <<>> <=> Len(Between(a, b)) = 0
  BY <1>3
<1> QED
  BY <1>3, <1>4 DEF Between

LEMMA BetweenEmpty ==
  ASSUME NEW a \in Nat, NEW b \in Nat, a <= b
  PROVE  Between(a, b) = <<>> <=> a = b
  BY BetweenIsSequence

(* Two sequences of the same length with the same members are equal.        *)
LEMMA SameSequence ==
  ASSUME NEW s \in Seq(Int), NEW t \in Seq(Int), Len(s) = Len(t),
         \A k \in 1 .. Len(s) : s[k] = t[k]
  PROVE  s = t
<1>1. s = [k \in 1 .. Len(s) |-> s[k]] /\ t = [k \in 1 .. Len(t) |-> t[k]]
  OBVIOUS
<1> QED
  BY <1>1

LEMMA BetweenTaken ==
  ASSUME NEW a \in Nat, NEW b \in Nat, a < b
  PROVE  Head(Between(a, b)) = a + 1 /\ Tail(Between(a, b)) = Between(a + 1, b)
<1> DEFINE s == Between(a, b)
           t == Between(a + 1, b)
<1>1. /\ s \in Seq(Int) /\ Len(s) = b - a /\ \A k \in 1 .. b - a : s[k] = a + k
      /\ s # <<>>
  BY BetweenIsSequence
<1>2. t \in Seq(Int) /\ Len(t) = b - a - 1 /\ \A k \in 1 .. b - a - 1 : t[k] = a + 1 + k
  BY BetweenIsSequence
<1> HIDE DEF s, t
<1>3. Head(s) = s[1] /\ 1 \in 1 .. b - a
  BY <1>1
<1>4. Head(s) = a + 1
  BY <1>1, <1>3
<1>5. /\ Tail(s) \in Seq(Int) /\ Len(Tail(s)) = b - a - 1
      /\ \A k \in 1 .. b - a - 1 : Tail(s)[k] = s[k + 1]
  BY <1>1
<1>6. ASSUME NEW k \in 1 .. b - a - 1 PROVE Tail(s)[k] = t[k]
  <2>1. k + 1 \in 1 .. b - a
    OBVIOUS
  <2>2. s[k + 1] = a + (k + 1)
    BY <1>1, <2>1
  <2> QED
    BY <1>2, <1>5, <2>2
<1>7. Tail(s) = t
  BY <1>2, <1>5, <1>6, SameSequence
<1> QED
  BY <1>4, <1>7 DEF s, t

LEMMA BetweenAdded ==
  ASSUME NEW a \in Nat, NEW b \in Nat, a <= b
  PROVE  Append(Between(a, b), b + 1) = Between(a, b + 1)
<1> DEFINE s == Between(a, b)
           t == Between(a, b + 1)
<1>1. s \in Seq(Int) /\ Len(s) = b - a /\ \A k \in 1 .. b - a : s[k] = a + k
  BY BetweenIsSequence
<1>2. t \in Seq(Int) /\ Len(t) = b + 1 - a /\ \A k \in 1 .. b + 1 - a : t[k] = a + k
  BY BetweenIsSequence
<1> HIDE DEF s, t
<1>3. /\ Append(s, b + 1) \in Seq(Int) /\ Len(Append(s, b + 1)) = b - a + 1
      /\ Append(s, b + 1)[b - a + 1] = b + 1
      /\ \A k \in 1 .. b - a : Append(s, b + 1)[k] = s[k]
  BY <1>1
<1>4. ASSUME NEW k \in 1 .. b + 1 - a PROVE Append(s, b + 1)[k] = t[k]
  <2>1. CASE k = b - a + 1
    BY <1>2, <1>3, <2>1
  <2>2. CASE k # b - a + 1
    <3>1. k \in 1 .. b - a
      BY <2>2
    <3> QED
      BY <1>1, <1>2, <1>3, <3>1
  <2> QED
    BY <2>1, <2>2
<1>5. Append(s, b + 1) = t
  BY <1>2, <1>3, <1>4, SameSequence, SMTT(30)
<1> QED
  BY <1>5 DEF s, t

LEMMA BetweenOne ==
  ASSUME NEW a \in Nat
  PROVE  <<a + 1>> = Between(a, a + 1)
<1>1. a <= a
  OBVIOUS
<1>2. Append(Between(a, a), a + 1) = Between(a, a + 1)
  BY <1>1, BetweenAdded
<1>3. Between(a, a) = <<>>
  BY <1>1, BetweenIsSequence
<1> QED
  BY <1>2, <1>3

LEMMA BetweenIsPrefix ==
  ASSUME NEW a \in Nat, NEW b \in Nat, a <= b
  PROVE  IsPrefix(Between(0, a), [k \in 1 .. b |-> k])
<1> DEFINE s == Between(0, a)
           t == [k \in 1 .. b |-> k]
<1>1. s \in Seq(Int) /\ Len(s) = a /\ \A k \in 1 .. a : s[k] = k
  <2>1. 0 \in Nat /\ 0 <= a /\ a - 0 = a /\ \A k \in 1 .. a : 0 + k = k
    OBVIOUS
  <2>2. s \in Seq(Int) /\ Len(s) = a - 0 /\ \A k \in 1 .. a - 0 : s[k] = 0 + k
    BY <2>1, BetweenIsSequence
  <2> QED
    BY <2>1, <2>2
<1>2. t \in Seq(Int) /\ Len(t) = b /\ \A k \in 1 .. b : t[k] = k
  OBVIOUS
<1> HIDE DEF s, t
<1>3. SubSeq(s, 1, a) = [k \in 1 .. a |-> s[k]] /\ SubSeq(t, 1, a) = [k \in 1 .. a |-> t[k]]
  BY <1>1, <1>2
<1>4. \A k \in 1 .. a : s[k] = t[k]
  BY <1>1, <1>2
<1>5. IsPrefix(s, t)
  BY <1>1, <1>2, <1>3, <1>4 DEF IsPrefix
<1> QED
  BY <1>5 DEF s, t

-----------------------------------------------------------------------------
(* What a running command reads from and writes to. *)
LEMMA RunsBetween ==
  ASSUME IInv, NEW i \in Process, pc[i] = "running"
  PROVE  /\ i \in Command
         /\ fds[i][0] = IF i = 1 THEN Terminal(0) ELSE ReadEnd(i)
         /\ fds[i][1] = IF i = LastCommand THEN ResultFile ELSE WriteEnd(i + 1)
<1>1. /\ i \in Command /\ DOMAIN Output(i) = Fd /\ 0 # 1 /\ 0 \in Fd /\ 1 \in Fd
      /\ fds[i] = [Output(i) EXCEPT ![0] = IF i = 1 THEN Terminal(0) ELSE ReadEnd(i)]
      /\ Output(i)[1] = IF i = LastCommand THEN ResultFile ELSE WriteEnd(i + 1)
  BY ShellAssumption
     DEF IInv, Staged, Stage, Typed, Output, Fd, ShellAssumption, STDIN_FILENO, STDOUT_FILENO
<1> QED
  BY <1>1

(* A step that reads and writes nothing. *)
LEMMA NoDataMoves ==
  ASSUME NEW r, NEW w, Flow(r, w), UNCHANGED <<hand, buffer, result>>, Done(r, w)',
         pc[LastCommand] = "settings" =>
           pc'[LastCommand] = "settings" \/ (pc'[LastCommand] = "ended" /\ LastCommand \in failed'),
         pc[LastCommand] = "ended" /\ LastCommand \in failed =>
           pc'[LastCommand] = "ended" /\ LastCommand \in failed'
  PROVE  Flow(r, w)'
<1>1. InPipes(r, w)'
  BY DEF Flow, InPipes
<1>2. InFile(w)'
  BY DEF Flow, InFile
<1> QED
  BY <1>1, <1>2 DEF Flow

LEMMA MoveKeepsFlow ==
  ASSUME Order, NEW r, NEW w, Flow(r, w), UNCHANGED <<hand, buffer, result>>,
         NEW i \in Process, NEW label, MovesTo(i, label), pc[i] # "ended",
         label = "running" => i # 1,
         label = "ended" => i \in failed',
         label \notin {"running", "ended"} => pc[i] # "running",
         pc[i] = "settings" => label = "ended"
  PROVE  Flow(r, w)'
<1>1. /\ pc'[i] = label /\ \A j \in Process \ {i} : pc'[j] = pc[j]
      /\ failed \subseteq failed'
  BY DEF Order, MovesTo
<1>2. Done(r, w)
  BY DEF Flow
<1>3. \A j \in Command : pc'[j] \notin {"running", "ended"} => r[j] = 0
  BY <1>1, <1>2, ProcessNumbers DEF Done
<1>4. pc'[1] = "running" => r[1] = Items
  BY <1>1, <1>2, ProcessNumbers DEF Done
<1>5. ASSUME NEW j \in Command, pc'[j] = "ended", failed' = {} PROVE w[j] = Items
  <2>1. j # i /\ failed = {} /\ j \in Process
    BY <1>1, <1>5, ProcessNumbers
  <2> QED
    BY <1>1, <1>2, <1>5, <2>1 DEF Done
<1>6. Done(r, w)'
  BY <1>3, <1>4, <1>5 DEF Done
<1>7. pc[LastCommand] = "settings" =>
           pc'[LastCommand] = "settings" \/ (pc'[LastCommand] = "ended" /\ LastCommand \in failed')
  BY <1>1, ProcessNumbers
<1>8. pc[LastCommand] = "ended" /\ LastCommand \in failed =>
           pc'[LastCommand] = "ended" /\ LastCommand \in failed'
  BY <1>1, ProcessNumbers
<1> QED
  BY <1>6, <1>7, <1>8, NoDataMoves

LEMMA FailureKeepsFlow ==
  ASSUME Order, NEW r, NEW w, Flow(r, w), NEW i \in Process, ExitFailed(i), pc[i] # "ended"
  PROVE  Flow(r, w)'
<1>1. MovesTo(i, "ended") /\ i \in failed' /\ UNCHANGED <<hand, buffer, result>>
  BY DEF ExitFailed, Exit, MovesTo
<1> QED
  BY <1>1, MoveKeepsFlow

LEMMA ForkKeepsFlow ==
  ASSUME Order, NEW r, NEW w, Flow(r, w), NEW i \in Process, i - 1 \in Process, Fork(i)
  PROVE  Flow(r, w)'
<1>1. /\ i \in Int /\ i - 1 # i /\ i - 1 # LastCommand /\ i - 1 + 1 = i
      /\ pc[i] = "fork" /\ pc'[i] = "parent" /\ pc'[i - 1] = "child" /\ failed' = failed
      /\ \A j \in Process \ {i, i - 1} : pc'[j] = pc[j]
      /\ UNCHANGED <<hand, buffer, result>>
  BY ShellAssumption DEF Order, Fork, Process, LastCommand, ShellAssumption
<1>2. pc[i - 1] = "none"
  <2>1. pc[i - 1] # "none" => pc[i - 1 + 1] \in HasForked
    BY <1>1 DEF Order
  <2> QED
    BY <1>1, <2>1 DEF HasForked
<1>3. Done(r, w)
  BY DEF Flow
<1>4. \A j \in Command : pc'[j] \notin {"running", "ended"} => r[j] = 0
  <2>1. ASSUME NEW j \in Command, pc'[j] \notin {"running", "ended"} PROVE r[j] = 0
    <3>1. pc[j] \notin {"running", "ended"}
      BY <1>1, <1>2, <2>1, ProcessNumbers
    <3> QED
      BY <1>3, <3>1 DEF Done
  <2> QED
    BY <2>1
<1>5. pc'[1] = "running" => r[1] = Items
  BY <1>1, <1>3, ProcessNumbers DEF Done
<1>6. \A j \in Command : pc'[j] = "ended" /\ failed' = {} => w[j] = Items
  BY <1>1, <1>3, ProcessNumbers DEF Done
<1>7. Done(r, w)'
  BY <1>4, <1>5, <1>6 DEF Done
<1>8. pc[LastCommand] \in {"settings", "ended"} => pc'[LastCommand] = pc[LastCommand]
  BY <1>1, ProcessNumbers
<1> QED
  BY <1>1, <1>7, <1>8, NoDataMoves

(* What Flow says of the numbers of items.                                  *)
LEMMA FlowTyped ==
  ASSUME NEW r, NEW w, Flow(r, w)
  PROVE  /\ DOMAIN hand = Process /\ DOMAIN buffer = Process
         /\ r \in [Command -> 0 .. Items] /\ w \in [Command -> 0 .. Items]
         /\ \A i \in Command : /\ r[i] \in 0 .. Items /\ w[i] \in 0 .. Items
                               /\ r[i] \in Nat /\ w[i] \in Nat
                               /\ w[i] <= r[i] /\ hand[i] = Between(w[i], r[i])
         /\ \A i \in Command \ {1} : r[i] <= w[i - 1] /\ buffer[i] = Between(r[i], w[i - 1])
         /\ Items \in Nat
  BY ShellAssumption DEF Flow, InPipes, ShellAssumption

(* The first command makes all its items at once. *)
LEMMA ExecFirstKeepsFlow ==
  ASSUME Order, NEW r, NEW w, Flow(r, w), ExecFirst(1)
  PROVE  FlowInv'
<1> DEFINE s == [r EXCEPT ![1] = Items]
<1>1. /\ 1 \in Command /\ 1 \in Process /\ pc[1] = "forkback"
      /\ pc'[1] = "running" /\ \A j \in Process \ {1} : pc'[j] = pc[j]
      /\ hand'[1] = [k \in 1 .. Items |-> k] /\ \A j \in Process \ {1} : hand'[j] = hand[j]
      /\ DOMAIN hand' = Process /\ DOMAIN buffer' = Process
      /\ UNCHANGED <<buffer, result, failed>>
  BY ProcessNumbers, FlowTyped DEF Order, ExecFirst, goto
<1>2. r[1] = 0 /\ w[1] = 0 /\ w[1] <= r[1] /\ Items \in Nat
  <2>1. r[1] = 0
    BY <1>1 DEF Flow, Done
  <2>2. w[1] <= r[1] /\ w[1] \in Nat /\ Items \in Nat
    BY <1>1, FlowTyped
  <2> QED
    BY <2>1, <2>2
<1>3. /\ s \in [Command -> 0 .. Items] /\ s[1] = Items
      /\ \A j \in Command \ {1} : s[j] = r[j]
  BY <1>1, <1>2, FlowTyped
<1> HIDE DEF s
<1>4. InPipes(s, w)'
  <2>1. [k \in 1 .. Items |-> k] = Between(0, Items)
    BY <1>2 DEF Between
  <2>2. ASSUME NEW j \in Command PROVE w[j] <= s[j] /\ hand'[j] = Between(w[j], s[j])
    <3>1. CASE j = 1
      BY <1>1, <1>2, <1>3, <2>1, <3>1
    <3>2. CASE j # 1
      BY <1>1, <1>3, <3>2, ProcessNumbers, FlowTyped
    <3> QED
      BY <3>1, <3>2
  <2>3. \A j \in Command \ {1} : s[j] <= w[j - 1] /\ buffer'[j] = Between(s[j], w[j - 1])
    BY <1>1, <1>3, FlowTyped
  <2> QED
    BY <1>1, <1>3, <2>2, <2>3, FlowTyped DEF InPipes
<1>5. InFile(w)'
  <2>1. LastCommand \in Process
    BY ProcessNumbers
  <2> QED
    BY <1>1, <2>1 DEF Flow, InFile
<1>6. Done(s, w)'
  <2>1. Done(r, w)
    BY DEF Flow
  <2>2. \A j \in Command : pc'[j] \notin {"running", "ended"} => s[j] = 0
    BY <1>1, <1>3, <2>1, ProcessNumbers DEF Done
  <2>3. \A j \in Command : pc'[j] = "ended" /\ failed' = {} => w[j] = Items
    BY <1>1, <2>1, ProcessNumbers DEF Done
  <2> QED
    BY <1>3, <2>2, <2>3 DEF Done
<1> QED
  BY <1>4, <1>5, <1>6 DEF Flow, FlowInv

LEMMA SettingsKeepFlow ==
  ASSUME Order, NEW r, NEW w, Flow(r, w), SettingsLastCommand \/ SettingsFail
  PROVE  FlowInv'
<1>1. /\ LastCommand \in Command /\ LastCommand \in Process /\ 1 \in Process
      /\ pc[LastCommand] = "settings" /\ result' = <<>> /\ UNCHANGED <<hand, buffer>>
      /\ \A j \in Process \ {LastCommand} : pc'[j] = pc[j]
      /\ pc'[LastCommand] \in {"forkback", "ended"} /\ failed \subseteq failed'
      /\ pc'[LastCommand] = "ended" => failed' # {}
  BY ProcessNumbers DEF Order, SettingsLastCommand, SettingsFail, Exit, goto
<1>2. r[LastCommand] = 0 /\ w[LastCommand] = 0
  <2>1. r[LastCommand] = 0
    BY <1>1 DEF Flow, Done
  <2>2. w[LastCommand] <= r[LastCommand] /\ w[LastCommand] \in Nat
    BY <1>1, FlowTyped
  <2> QED
    BY <2>1, <2>2
<1>3. InPipes(r, w)'
  BY <1>1 DEF Flow, InPipes
<1>4. InFile(w)'
  <2>1. Between(0, 0) = <<>>
    <3>1. 0 <= 0 /\ 0 \in Nat
      OBVIOUS
    <3> QED
      BY <3>1, BetweenIsSequence
  <2> QED
    BY <1>1, <1>2, <2>1 DEF InFile
<1>5. Done(r, w)'
  <2>1. Done(r, w)
    BY DEF Flow
  <2>2. \A j \in Command : pc'[j] \notin {"running", "ended"} => r[j] = 0
    BY <1>1, <1>2, <2>1, ProcessNumbers DEF Done
  <2>3. pc'[1] = "running" => r[1] = Items
    BY <1>1, <2>1 DEF Done
  <2>4. \A j \in Command : pc'[j] = "ended" /\ failed' = {} => w[j] = Items
    BY <1>1, <2>1, ProcessNumbers DEF Done
  <2> QED
    BY <2>2, <2>3, <2>4 DEF Done
<1> QED
  BY <1>3, <1>4, <1>5 DEF Flow, FlowInv

(* An item goes from the pipe to the left into the hand of the command. *)
LEMMA ReadKeepsFlow ==
  ASSUME IInv, Order, NEW r, NEW w, Flow(r, w), NEW i \in Process, Read(i)
  PROVE  FlowInv'
<1> DEFINE s == [r EXCEPT ![i] = @ + 1]
<1>1. /\ i \in Command \ {1} /\ i - 1 \in Command /\ fds[i][0] = ReadEnd(i)
      /\ pc[i] = "running" /\ hand[i] = <<>> /\ i # i - 1
  BY RunsBetween, ProcessNumbers DEF Read
<1>2. PICK k \in Process :
        /\ fds[i][0] = ReadEnd(k) /\ buffer[k] # <<>>
        /\ hand' = [hand EXCEPT ![i] = <<Head(buffer[k])>>]
        /\ buffer' = [buffer EXCEPT ![k] = Tail(@)]
  BY DEF Read, STDIN_FILENO
<1>3. k = i
  BY <1>1, <1>2 DEF ReadEnd
<1>4. /\ w[i] = r[i] /\ r[i] < w[i - 1] /\ w[i - 1] <= Items
      /\ r[i] \in Nat /\ w[i - 1] \in Nat /\ Items \in Nat
      /\ buffer[i] = Between(r[i], w[i - 1])
  <2>1. /\ hand[i] = Between(w[i], r[i]) /\ w[i] <= r[i] /\ w[i] \in Nat /\ r[i] \in Nat
        /\ buffer[i] = Between(r[i], w[i - 1]) /\ r[i] <= w[i - 1] /\ w[i - 1] \in 0 .. Items
        /\ w[i - 1] \in Nat /\ Items \in Nat
    BY <1>1, FlowTyped
  <2>2. w[i] = r[i]
    BY <1>1, <2>1, BetweenEmpty
  <2>3. r[i] # w[i - 1]
    BY <1>2, <1>3, <2>1, BetweenEmpty
  <2> QED
    BY <2>1, <2>2, <2>3
<1>5. Head(buffer[i]) = r[i] + 1 /\ Tail(buffer[i]) = Between(r[i] + 1, w[i - 1])
  BY <1>4, BetweenTaken
<1>6. /\ DOMAIN hand' = Process /\ DOMAIN buffer' = Process
      /\ hand'[i] = Between(r[i], r[i] + 1) /\ \A j \in Process \ {i} : hand'[j] = hand[j]
      /\ buffer'[i] = Between(r[i] + 1, w[i - 1])
      /\ \A j \in Process \ {i} : buffer'[j] = buffer[j]
  <2>1. <<r[i] + 1>> = Between(r[i], r[i] + 1)
    BY <1>4, BetweenOne
  <2> QED
    BY <1>2, <1>3, <1>5, <2>1, FlowTyped
<1>7. /\ s \in [Command -> 0 .. Items] /\ s[i] = r[i] + 1
      /\ \A j \in Command \ {i} : s[j] = r[j]
  BY <1>1, <1>4, FlowTyped
<1> HIDE DEF s
<1>8. InPipes(s, w)'
  <2>1. ASSUME NEW j \in Command PROVE w[j] <= s[j] /\ hand'[j] = Between(w[j], s[j])
    <3>1. CASE j = i
      BY <1>4, <1>6, <1>7, <3>1
    <3>2. CASE j # i
      BY <1>6, <1>7, <3>2, ProcessNumbers, FlowTyped
    <3> QED
      BY <3>1, <3>2
  <2>2. ASSUME NEW j \in Command \ {1}
        PROVE  s[j] <= w[j - 1] /\ buffer'[j] = Between(s[j], w[j - 1])
    <3>1. CASE j = i
      BY <1>4, <1>6, <1>7, <3>1
    <3>2. CASE j # i
      BY <1>6, <1>7, <3>2, ProcessNumbers, FlowTyped
    <3> QED
      BY <3>1, <3>2
  <2> QED
    BY <1>6, <1>7, <2>1, <2>2, FlowTyped DEF InPipes
<1>9. UNCHANGED <<pc, result, failed>>
  BY DEF Read
<1>10. InFile(w)'
  BY <1>9 DEF Flow, InFile
<1>11. Done(s, w)'
  BY <1>1, <1>7, <1>9, ProcessNumbers DEF Flow, Done
<1> QED
  BY <1>8, <1>10, <1>11 DEF Flow, FlowInv

(* An item goes from the hand of the command to the pipe to the right, or,  *)
(* from the last command, to the file.                                      *)
LEMMA WriteKeepsFlow ==
  ASSUME IInv, Order, NEW r, NEW w, Flow(r, w), NEW i \in Process, Write(i)
  PROVE  FlowInv'
<1> DEFINE s == [w EXCEPT ![i] = @ + 1]
<1>1. /\ i \in Command /\ pc[i] = "running" /\ hand[i] # <<>>
      /\ fds[i][1] = IF i = LastCommand THEN ResultFile ELSE WriteEnd(i + 1)
      /\ hand' = [hand EXCEPT ![i] = Tail(@)] /\ UNCHANGED <<pc, failed>>
  <2>1. pc[i] = "running"
    BY DEF Write
  <2> QED
    BY <2>1, RunsBetween DEF Write
<1>2. /\ w[i] < r[i] /\ r[i] <= Items /\ w[i] \in Nat /\ r[i] \in Nat /\ Items \in Nat
      /\ hand[i] = Between(w[i], r[i])
  <2>1. /\ hand[i] = Between(w[i], r[i]) /\ w[i] <= r[i] /\ w[i] \in Nat /\ r[i] \in Nat
        /\ r[i] \in 0 .. Items /\ Items \in Nat
    BY <1>1, FlowTyped
  <2>2. w[i] # r[i]
    BY <1>1, <2>1, BetweenEmpty
  <2> QED
    BY <2>1, <2>2
<1>3. Head(hand[i]) = w[i] + 1 /\ Tail(hand[i]) = Between(w[i] + 1, r[i])
  BY <1>2, BetweenTaken
<1>4. /\ DOMAIN hand' = Process /\ hand'[i] = Between(w[i] + 1, r[i])
      /\ \A j \in Process \ {i} : hand'[j] = hand[j]
  BY <1>1, <1>3, FlowTyped
<1>5. /\ s \in [Command -> 0 .. Items] /\ s[i] = w[i] + 1
      /\ \A j \in Command \ {i} : s[j] = w[j]
  BY <1>1, <1>2, FlowTyped
<1> HIDE DEF s
<1>6. ASSUME NEW j \in Command PROVE s[j] <= r[j] /\ hand'[j] = Between(s[j], r[j])
  <2>1. CASE j = i
    BY <1>2, <1>4, <1>5, <2>1
  <2>2. CASE j # i
    <3>1. j \in Process /\ w[j] <= r[j] /\ hand[j] = Between(w[j], r[j])
      BY ProcessNumbers, FlowTyped
    <3>2. hand'[j] = hand[j] /\ s[j] = w[j]
      BY <1>4, <1>5, <2>2, <3>1
    <3> QED
      BY <3>1, <3>2
  <2> QED
    BY <2>1, <2>2
<1>7. Done(r, s)'
  BY <1>1, <1>5, ProcessNumbers DEF Flow, Done
<1>8. CASE i # LastCommand
  <2>1. PICK k \in Process :
          /\ fds[i][1] = WriteEnd(k)
          /\ buffer' = [buffer EXCEPT ![k] = Append(@, Head(hand[i]))]
          /\ UNCHANGED result
    BY <1>1, <1>8 DEF Write, STDOUT_FILENO, ResultFile, WriteEnd
  <2>2. k = i + 1 /\ i + 1 \in Command \ {1} /\ i + 1 - 1 = i /\ i \in Int
    BY <1>1, <1>8, <2>1, ProcessNumbers DEF WriteEnd
  <2>3. /\ buffer[k] = Between(r[k], w[i]) /\ r[k] <= w[i] /\ r[k] \in Nat
    <3>1. k \in Command \ {1} /\ k - 1 = i
      BY <2>2
    <3> QED
      BY <3>1, FlowTyped
  <2>4. Append(buffer[k], Head(hand[i])) = Between(r[k], w[i] + 1)
    BY <1>2, <1>3, <2>3, BetweenAdded
  <2>5. /\ DOMAIN buffer' = Process /\ buffer'[k] = Between(r[k], w[i] + 1)
        /\ \A j \in Process \ {k} : buffer'[j] = buffer[j]
    BY <2>1, <2>4, FlowTyped
  <2>6. ASSUME NEW j \in Command \ {1}
        PROVE  r[j] <= s[j - 1] /\ buffer'[j] = Between(r[j], s[j - 1])
    <3>1. CASE j = k
      <4>1. j - 1 = i
        BY <2>2, <3>1
      <4> QED
        BY <1>2, <1>5, <2>3, <2>5, <3>1, <4>1
    <3>2. CASE j # k
      <4>1. j - 1 # i /\ j - 1 \in Command
        BY <2>2, <3>2, ProcessNumbers
      <4>2. s[j - 1] = w[j - 1] /\ buffer'[j] = buffer[j]
        BY <1>5, <2>5, <3>2, <4>1, ProcessNumbers
      <4> QED
        BY <4>2, FlowTyped
    <3> QED
      BY <3>1, <3>2
  <2>7. InPipes(r, s)'
    BY <1>4, <1>5, <1>6, <2>5, <2>6, FlowTyped DEF InPipes
  <2>8. InFile(s)'
    BY <1>1, <1>5, <1>8, <2>1, ProcessNumbers DEF Flow, InFile
  <2> QED
    BY <1>7, <2>7, <2>8 DEF Flow, FlowInv
<1>9. CASE i = LastCommand
  <2>1. result' = Append(result, Head(hand[i])) /\ UNCHANGED buffer
    BY <1>1, <1>9 DEF Write, STDOUT_FILENO, ResultFile, WriteEnd
  <2>2. result = Between(0, w[i])
    BY <1>1, <1>9 DEF Flow, InFile
  <2>3. result' = Between(0, w[i] + 1)
    <3>1. 0 \in Nat /\ w[i] \in Nat /\ 0 <= w[i]
      BY <1>2
    <3>2. Append(Between(0, w[i]), w[i] + 1) = Between(0, w[i] + 1)
      BY <3>1, BetweenAdded
    <3> QED
      BY <1>3, <2>1, <2>2, <3>2
  <2>4. ASSUME NEW j \in Command \ {1}
        PROVE  r[j] <= s[j - 1] /\ buffer'[j] = Between(r[j], s[j - 1])
    <3>1. j - 1 # i /\ j - 1 \in Command
      BY <1>9, ProcessNumbers
    <3>2. s[j - 1] = w[j - 1]
      BY <1>5, <3>1
    <3> QED
      BY <2>1, <3>2, FlowTyped
  <2>5. InPipes(r, s)'
    BY <1>4, <1>5, <1>6, <2>1, <2>4, FlowTyped DEF InPipes
  <2>6. InFile(s)'
    BY <1>5, <1>9, <2>3 DEF InFile
  <2> QED
    BY <1>7, <2>5, <2>6 DEF Flow, FlowInv
<1> QED
  BY <1>8, <1>9

(* A command that comes to the end of its input when nothing has failed has *)
(* written all of it: the one to its left has ended, and had written all.   *)
LEMMA FinishKeepsFlow ==
  ASSUME IInv, Order, NEW r, NEW w, Flow(r, w), NEW i \in Process, Finish(i)
  PROVE  Flow(r, w)'
<1>1. /\ i \in Command /\ pc[i] = "running" /\ hand[i] = <<>>
      /\ i # 1 => pc[i - 1] = "ended" /\ i - 1 \in Command /\ fds[i][0] = ReadEnd(i)
      /\ pc'[i] = "ended" /\ \A j \in Process \ {i} : pc'[j] = pc[j]
      /\ UNCHANGED <<hand, buffer, result, failed>>
  <2>1. pc[i] = "running"
    BY DEF Finish
  <2>2. i \in Command /\ (i # 1 => pc[i - 1] = "ended")
    BY FinishKeepsOrder
  <2> QED
    BY <2>1, <2>2, RunsBetween, ProcessNumbers DEF Finish, Exit, Order
<1>2. Done(r, w)
  BY DEF Flow
<1>3. w[i] = r[i]
  <2>1. hand[i] = Between(w[i], r[i]) /\ w[i] <= r[i] /\ w[i] \in Nat /\ r[i] \in Nat
    BY <1>1, FlowTyped
  <2> QED
    BY <1>1, <2>1, BetweenEmpty
<1>4. ASSUME failed = {} PROVE w[i] = Items
  <2>1. CASE i = 1
    BY <1>1, <1>2, <1>3, <2>1 DEF Done
  <2>2. CASE i # 1
    <3>1. i > 1
      BY <1>1, <2>2 DEF Command
    <3>2. PICK k \in Process : fds[i][0] = ReadEnd(k) /\ buffer[k] = <<>>
      BY <3>1 DEF Finish, STDIN_FILENO
    <3>3. buffer[i] = <<>>
      BY <1>1, <2>2, <3>2 DEF ReadEnd
    <3>4. /\ buffer[i] = Between(r[i], w[i - 1]) /\ r[i] <= w[i - 1] /\ w[i - 1] \in Nat
          /\ r[i] \in Nat
      BY <1>1, <2>2, FlowTyped
    <3>5. r[i] = w[i - 1]
      BY <3>3, <3>4, BetweenEmpty
    <3>6. w[i - 1] = Items
      BY <1>1, <1>2, <1>4, <2>2 DEF Done
    <3> QED
      BY <1>3, <3>5, <3>6
  <2> QED
    BY <2>1, <2>2
<1>5. \A j \in Command : pc'[j] \notin {"running", "ended"} => r[j] = 0
  BY <1>1, <1>2, ProcessNumbers DEF Done
<1>6. pc'[1] = "running" => r[1] = Items
  BY <1>1, <1>2, ProcessNumbers DEF Done
<1>7. ASSUME NEW j \in Command, pc'[j] = "ended", failed' = {} PROVE w[j] = Items
  <2>1. CASE j = i
    BY <1>1, <1>4, <1>7, <2>1
  <2>2. CASE j # i
    BY <1>1, <1>2, <1>7, <2>2, ProcessNumbers DEF Done
  <2> QED
    BY <2>1, <2>2
<1>8. Done(r, w)'
  BY <1>5, <1>6, <1>7 DEF Done
<1>9. pc[LastCommand] \in {"settings", "ended"} => pc'[LastCommand] = pc[LastCommand]
  BY <1>1, ProcessNumbers
<1> QED
  BY <1>1, <1>8, <1>9, NoDataMoves

LEMMA ForkBackKeepsFlow ==
  ASSUME IInv, Order, NEW r, NEW w, Flow(r, w), NEW i \in Process, ForkBack(i)
  PROVE  FlowInv'
<1>1. CASE ExecFirst(i)
  <2>1. i = 1
    BY <1>1 DEF ExecFirst
  <2> QED
    BY <1>1, <2>1, ExecFirstKeepsFlow
<1>2. CASE Fork(i)
  <2>1. i - 1 \in Process
    BY <1>2 DEF Fork, IInv, Staged, Stage
  <2>2. Flow(r, w)'
    BY <1>2, <2>1, ForkKeepsFlow
  <2> QED
    BY <2>2 DEF FlowInv
<1>3. CASE PipeFails(i) \/ ForkFails(i) \/ ExecFails(i) \/ SplitStringFaults(i)
  <2>1. ExitFailed(i) /\ pc[i] # "ended"
    BY <1>3 DEF PipeFails, ForkFails, ExecFails, SplitStringFaults
  <2>2. Flow(r, w)'
    BY <2>1, FailureKeepsFlow
  <2> QED
    BY <2>2 DEF FlowInv
<1>4. CASE Exec(i)
  <2>1. MovesTo(i, "running") /\ pc[i] = "exec" /\ UNCHANGED <<hand, buffer, result>>
    BY <1>4 DEF Exec, goto, MovesTo
  <2>2. i # 1
    <3>1. i = 1 => i \in missing
      BY <2>1 DEF IInv, Staged, Stage
    <3> QED
      BY <1>4, <3>1 DEF Exec
  <2>3. Flow(r, w)'
    BY <2>1, <2>2, MoveKeepsFlow
  <2> QED
    BY <2>3 DEF FlowInv
<1>5. ASSUME NEW label, MovesTo(i, label), label \notin {"running", "ended"},
             UNCHANGED <<hand, buffer, result>>, pc[i] \notin {"settings", "running", "ended"}
      PROVE  FlowInv'
  <2>1. Flow(r, w)'
    BY <1>5, MoveKeepsFlow
  <2> QED
    BY <2>1 DEF FlowInv
<1>6. CASE Pipe(i)
  <2>1. MovesTo(i, "fork") /\ pc[i] = "forkback" /\ UNCHANGED <<hand, buffer, result>>
    BY <1>6 DEF Pipe, goto, MovesTo
  <2> QED
    BY <1>5, <2>1
<1>7. CASE ParentChangeFD(i)
  <2>1. MovesTo(i, "parent_close") /\ pc[i] = "parent" /\ UNCHANGED <<hand, buffer, result>>
    BY <1>7 DEF ParentChangeFD, goto, MovesTo
  <2> QED
    BY <1>5, <2>1
<1>8. CASE ParentClose(i)
  <2>1. MovesTo(i, "exec") /\ pc[i] = "parent_close" /\ UNCHANGED <<hand, buffer, result>>
    BY <1>8 DEF ParentClose, goto, MovesTo
  <2> QED
    BY <1>5, <2>1
<1>9. CASE ChildChangeFD(i)
  <2>1. MovesTo(i, "child_close") /\ pc[i] = "child" /\ UNCHANGED <<hand, buffer, result>>
    BY <1>9 DEF ChildChangeFD, goto, MovesTo
  <2> QED
    BY <1>5, <2>1
<1>10. CASE ChildClose(i)
  <2>1. MovesTo(i, "forkback") /\ pc[i] = "child_close" /\ UNCHANGED <<hand, buffer, result>>
    BY <1>10 DEF ChildClose, goto, MovesTo
  <2> QED
    BY <1>5, <2>1
<1> QED
  BY <1>1, <1>2, <1>3, <1>4, <1>6, <1>7, <1>8, <1>9, <1>10 DEF ForkBack

(* The flow holds at the start.                                             *)
LEMMA InitFlow == Init => FlowInv
<1> SUFFICES ASSUME Init PROVE FlowInv
  OBVIOUS
<1> DEFINE r == [i \in Command |-> 0]
<1>1. Items \in Nat /\ 1 \in Process /\ LastCommand \in Process
  BY ProcessNumbers, ShellAssumption DEF ShellAssumption
<1>2. r \in [Command -> 0 .. Items] /\ \A i \in Command : r[i] = 0
  BY <1>1
<1> HIDE DEF r
<1>3. Between(0, 0) = <<>>
  <2>1. 0 <= 0 /\ 0 \in Nat
    OBVIOUS
  <2> QED
    BY <2>1, BetweenEmpty
<1>4. InPipes(r, r)
  BY <1>2, <1>3, ProcessNumbers DEF Init, InPipes
<1>5. InFile(r)
  BY <1>1, <1>2, ProcessNumbers DEF Init, InFile
<1>6. Done(r, r)
  <2>1. \A i \in Process : pc[i] \notin {"running", "ended"}
    BY DEF Init
  <2> QED
    BY <1>1, <1>2, <2>1, ProcessNumbers DEF Done
<1> QED
  BY <1>4, <1>5, <1>6 DEF Flow, FlowInv

LEMMA FlowHolds == Spec => [](Order /\ FlowInv)
<1>1. ASSUME IInv, Order, FlowInv, [Next]_vars PROVE FlowInv'
  <2>1. PICK r, w : Flow(r, w)
    BY <1>1 DEF FlowInv
  <2>2. CASE SettingsLastCommand \/ SettingsFail
    BY <1>1, <2>1, <2>2, SettingsKeepFlow
  <2>3. CASE OpenFails
    <3>1. LastCommand \in Process /\ ExitFailed(LastCommand) /\ pc[LastCommand] # "ended"
      BY <2>3, ProcessNumbers DEF OpenFails
    <3>2. Flow(r, w)'
      BY <1>1, <2>1, <3>1, FailureKeepsFlow
    <3> QED
      BY <3>2 DEF FlowInv
  <2>4. ASSUME NEW i \in Process, ForkBack(i) PROVE FlowInv'
    BY <1>1, <2>1, <2>4, ForkBackKeepsFlow
  <2>5. ASSUME NEW i \in Process, Read(i) PROVE FlowInv'
    BY <1>1, <2>1, <2>5, ReadKeepsFlow
  <2>6. ASSUME NEW i \in Process, Write(i) PROVE FlowInv'
    BY <1>1, <2>1, <2>6, WriteKeepsFlow
  <2>7. ASSUME NEW i \in Process, BrokenPipe(i) \/ Quit(i) PROVE FlowInv'
    <3>1. ExitFailed(i) /\ pc[i] # "ended"
      BY <2>7 DEF BrokenPipe, Quit
    <3>2. Flow(r, w)'
      BY <1>1, <2>1, <3>1, FailureKeepsFlow
    <3> QED
      BY <3>2 DEF FlowInv
  <2>8. ASSUME NEW i \in Process, Finish(i) PROVE FlowInv'
    <3>1. Flow(r, w)'
      BY <1>1, <2>1, <2>8, FinishKeepsFlow
    <3> QED
      BY <3>1 DEF FlowInv
  <2>9. CASE UNCHANGED vars
    <3>1. Flow(r, w)'
      BY <2>1, <2>9 DEF vars, Flow, InPipes, InFile, Done
    <3> QED
      BY <3>1 DEF FlowInv
  <2> QED
    BY <1>1, <2>2, <2>3, <2>4, <2>5, <2>6, <2>7, <2>8, <2>9 DEF Next, Program
<1>2. Init => FlowInv
  BY InitFlow
<1> QED
  BY <1>1, <1>2, OrderHolds, PTL DEF Spec

(* The file holds what the first command wrote, in order, and nothing else; *)
(* all of it when every process has ended and none has failed, however long *)
(* the line is and whatever the pipes can hold.                             *)
THEOREM ResultIsInOrder == Spec => []ResultInOrder
<1>1. ASSUME Order, FlowInv PROVE ResultInOrder
  <2>1. PICK r, w : Flow(r, w)
    BY <1>1 DEF FlowInv
  <2>2. /\ LastCommand \in Command /\ LastCommand \in Process
        /\ w[LastCommand] \in Nat /\ w[LastCommand] <= Items /\ Items \in Nat
    <3>1. LastCommand \in Command /\ LastCommand \in Process
      BY ProcessNumbers
    <3>2. w[LastCommand] \in 0 .. Items /\ Items \in Nat
      BY <2>1, <3>1, FlowTyped
    <3> QED
      BY <3>1, <3>2
  <2>3. result = <<Old>> \/ result = Between(0, w[LastCommand])
    BY <2>1 DEF Flow, InFile
  <2>4. IsPrefix(Between(0, w[LastCommand]), [k \in 1 .. Items |-> k])
    BY <2>2, BetweenIsPrefix
  <2>5. ASSUME AllEnded, failed = {} PROVE result = [k \in 1 .. Items |-> k]
    <3>1. pc[LastCommand] = "ended"
      BY <1>1, <2>2, <2>5 DEF AllEnded, Order
    <3>2. w[LastCommand] = Items
      BY <2>1, <2>2, <2>5, <3>1 DEF Flow, Done
    <3>3. result = Between(0, Items)
      BY <2>1, <2>5, <3>1, <3>2 DEF Flow, InFile
    <3>4. Between(0, Items) = [k \in 1 .. Items |-> k]
      BY <2>2 DEF Between
    <3> QED
      BY <3>3, <3>4
  <2> QED
    BY <2>3, <2>4, <2>5 DEF ResultInOrder
<1> QED
  BY <1>1, FlowHolds, PTL
-----------------------------------------------------------------------------
(* How a line is taken apart: the theorem on CommandLine, whose lines have  *)
(* at most MaxLine characters.                                              *)

(* Less than, as a relation that the library has facts about.               *)
LEMMA LessIsWellFounded ==
  \E R : IsWellFoundedOn(R, Nat) /\ \A x, y \in Nat : y < x => <<y, x>> \in R
<1> DEFINE R == OpToRel(<, Nat)
<1>1. \A x, y \in Nat : y < x => <<y, x>> \in R
  BY DEF OpToRel
<1>2. IsWellFoundedOn(R, Nat)
  BY NatLessThanWellFounded
<1> HIDE DEF R
<1> QED
  BY <1>1, <1>2

(* A set of natural numbers has a least element.                            *)
LEMMA Least ==
  ASSUME NEW T \in SUBSET Nat, T # {}
  PROVE  \E x \in T : \A y \in T : x <= y
<1>1. PICK R : /\ IsWellFoundedOn(R, Nat)
               /\ \A x, y \in Nat : y < x => <<y, x>> \in R
  BY LessIsWellFounded
<1>2. \E x \in T : \A y \in T : ~ (<<y, x>> \in R)
  BY <1>1, WFMin
<1>3. PICK x \in T : \A y \in T : ~ (<<y, x>> \in R)
  BY <1>2
<1>4. \A y \in T : ~ (y < x)
  BY <1>1, <1>3, Zenon
<1> QED
  BY <1>4

-----------------------------------------------------------------------------
(* Both loops go through a string from left to right: at a place k they     *)
(* stop, or go on at next[k], with or without an item for the list.         *)
Rest(f, k, stop, emits, item, next) ==
  IF stop[k] THEN <<>>
  ELSE IF emits[k] THEN <<item[k]>> \o f[next[k]]
  ELSE f[next[k]]

Loop(M, stop, emits, item, next) ==
  \A k \in 1 .. M : ~stop[k] => next[k] \in k + 1 .. M

(* f has the list of every place. *)
Listing(f, M, stop, emits, item, next) ==
  f = [k \in 1 .. M |-> Rest(f, k, stop, emits, item, next)]

(* There is a list for every place.                                         *)
LEMMA RestExists ==
  ASSUME NEW M \in Nat, NEW stop, NEW emits, NEW item, NEW next,
         Loop(M, stop, emits, item, next)
  PROVE  \E f : Listing(f, M, stop, emits, item, next)
<1> DEFINE R(f, k) == Rest(f, k, stop, emits, item, next)
           From(d) == M - d + 1 .. M
           P(d) == \E f : f = [k \in From(d) |-> R(f, k)]
           Bad == {d \in 0 .. M : ~P(d)}
<1> SUFFICES ASSUME Bad # {} PROVE FALSE
  <2>1. M \in 0 .. M /\ From(M) = 1 .. M
    OBVIOUS
  <2>2. CASE Bad = {}
    <3> HIDE DEF From, R
    <3>1. P(M)
      BY <2>1, <2>2
    <3> QED
      BY <2>1, <3>1 DEF R, Listing
  <2> QED
    BY <2>2
<1>1. PICK d \in Bad : \A e \in Bad : d <= e
  <2>1. Bad \in SUBSET Nat
    OBVIOUS
  <2> HIDE DEF Bad
  <2> QED
    BY <2>1, Least
<1>2. d \in 0 .. M /\ ~P(d)
  OBVIOUS
<1>3. P(0)
  <2> DEFINE f == [k \in {} |-> <<>>]
  <2>1. From(0) = {}
    OBVIOUS
  <2> HIDE DEF From, R
  <2>2. f = [k \in From(0) |-> R(f, k)]
    BY <2>1
  <2> QED
    BY <2>2
<1>4. d \in 1 .. M
  <2>1. d # 0
    <3> HIDE DEF P
    <3> QED
      BY <1>2, <1>3
  <2> QED
    BY <1>2, <2>1
<1>5. P(d - 1)
  <2>1. d - 1 \in 0 .. M /\ ~(d <= d - 1)
    BY <1>4
  <2> HIDE DEF P
  <2> QED
    BY <1>1, <2>1
<1>6. PICK f : f = [k \in From(d - 1) |-> R(f, k)]
  BY <1>5
<1> DEFINE p == M - d + 1
           g == [k \in From(d) |-> IF k = p THEN R(f, p) ELSE f[k]]
<1>7. /\ p \in From(d) /\ p \in 1 .. M
      /\ \A k \in From(d) : k # p => k \in From(d - 1)
      /\ \A k \in From(d - 1) : k \in From(d) /\ k # p /\ k \in 1 .. M
      /\ \A k \in From(d) : k \in 1 .. M /\ k + 1 .. M \subseteq From(d - 1)
  BY <1>4
<1>8. \A k \in From(d - 1) : g[k] = f[k]
  BY <1>7
<1>9. \A k \in From(d) : R(g, k) = R(f, k)
  <2> SUFFICES ASSUME NEW k \in From(d)
               PROVE  R(g, k) = R(f, k)
    OBVIOUS
  <2>1. CASE stop[k]
    BY <2>1 DEF Rest
  <2>2. CASE ~stop[k]
    <3>1. next[k] \in From(d - 1)
      BY <1>7, <2>2 DEF Loop
    <3> HIDE DEF From, g
    <3>2. g[next[k]] = f[next[k]]
      BY <1>8, <3>1
    <3> QED
      BY <3>2 DEF Rest
  <2> QED
    BY <2>1, <2>2
<1>10. g = [k \in From(d) |-> R(g, k)]
  <2> HIDE DEF R, From, p
  <2>1. \A k \in From(d) : g[k] = R(f, k)
    <3> SUFFICES ASSUME NEW k \in From(d) PROVE g[k] = R(f, k)
      OBVIOUS
    <3>1. CASE k = p
      BY <3>1
    <3>2. CASE k # p
      <4>1. k \in From(d - 1)
        BY <1>7, <3>2
      <4>2. f[k] = R(f, k)
        BY <1>6, <4>1
      <4> QED
        BY <3>2, <4>2
    <3> QED
      BY <3>1, <3>2
  <2>2. g = [k \in From(d) |-> g[k]]
    OBVIOUS
  <2> HIDE DEF g
  <2> QED
    BY <1>9, <2>1, <2>2
<1> QED
  <2> HIDE DEF R, From, g, p
  <2> QED
    BY <1>2, <1>10
-----------------------------------------------------------------------------
(* What BarsFound computes, place by place.                                 *)
BarsFrom(s, f) ==
  \A k \in 1 .. Len(s) + 2 :
    f[k] = IF k > Len(s) THEN <<>>
           ELSE IF s[k] = Bar THEN <<k>> \o f[k + 2]
           ELSE f[k + 1]

(* BarsFound is what such a walk gives from the first character on.         *)
LEMMA BarsFoundFrom ==
  ASSUME NEW s \in Seq(Char)
  PROVE  \E f : BarsFrom(s, f) /\ BarsFound(s) = f[1]
<1> DEFINE M == Len(s) + 2
           from[k \in 1 .. M] ==
             IF k > Len(s) THEN <<>>
             ELSE IF s[k] = Bar THEN <<k>> \o from[k + 2]
             ELSE from[k + 1]
           stop == [k \in 1 .. M |-> k > Len(s)]
           emits == [k \in 1 .. M |-> s[k] = Bar]
           item == [k \in 1 .. M |-> k]
           next == [k \in 1 .. M |-> IF s[k] = Bar THEN k + 2 ELSE k + 1]
           Eq(f, k) == IF k > Len(s) THEN <<>>
                       ELSE IF s[k] = Bar THEN <<k>> \o f[k + 2]
                       ELSE f[k + 1]
<1>1. Len(s) \in Nat /\ M \in Nat
  OBVIOUS
<1>2. Loop(M, stop, emits, item, next)
  <2> SUFFICES ASSUME NEW k \in 1 .. M, ~stop[k]
               PROVE  next[k] \in k + 1 .. M
    BY DEF Loop
  <2> HIDE DEF M
  <2>1. /\ stop[k] = (k > Len(s))
        /\ next[k] = IF s[k] = Bar THEN k + 2 ELSE k + 1
    OBVIOUS
  <2> HIDE DEF stop, next
  <2>2. ~(k > Len(s))
    BY <2>1, Zenon
  <2>3. next[k] = k + 1 \/ next[k] = k + 2
    BY <2>1
  <2> QED
    BY <1>1, <2>2, <2>3 DEF M
<1>3. PICK f : Listing(f, M, stop, emits, item, next)
  <2> HIDE DEF M, stop, emits, item, next
  <2> QED
    BY <1>1, <1>2, RestExists
<1>4. \A k \in 1 .. M : Rest(f, k, stop, emits, item, next) = Eq(f, k)
  <2> SUFFICES ASSUME NEW k \in 1 .. M
               PROVE  Rest(f, k, stop, emits, item, next) = Eq(f, k)
    OBVIOUS
  <2> HIDE DEF M
  <2>1. /\ stop[k] = (k > Len(s)) /\ emits[k] = (s[k] = Bar) /\ item[k] = k
        /\ next[k] = IF s[k] = Bar THEN k + 2 ELSE k + 1
    OBVIOUS
  <2> HIDE DEF stop, emits, item, next
  <2> QED
    BY <2>1 DEF Rest
<1>5. f = [k \in 1 .. M |-> Eq(f, k)]
  <2> HIDE DEF M, Eq, stop, emits, item, next
  <2> QED
    BY <1>3, <1>4 DEF Listing
<1>6. from = [k \in 1 .. M |-> Eq(from, k)]
  <2> HIDE DEF M
  <2> QED
    BY <1>5
<1>7. BarsFound(s) = from[1]
  BY DEF BarsFound
<1>8. \A k \in 1 .. M : from[k] = Eq(from, k)
  <2> HIDE DEF M, Eq, from
  <2> QED
    BY <1>6
<1>9. BarsFrom(s, from)
  <2> HIDE DEF from
  <2> QED
    BY <1>8 DEF BarsFrom
<1> HIDE DEF from
<1> QED
  BY <1>7, <1>9

(* b has bars of s from k on, from left to right; all of them, if no        *)
(* command is empty.                                                        *)
BarsIn(s, k, b) ==
  /\ b \in Seq(Nat)
  /\ \A n \in 1 .. Len(b) : b[n] \in k .. Len(s) /\ s[b[n]] = Bar
  /\ \A m, n \in 1 .. Len(b) : m < n => b[m] < b[n]

AllBars(s, k, b) ==
  \A j \in k .. Len(s) : s[j] = Bar => \E n \in 1 .. Len(b) : b[n] = j

(* A bar in front of those that are found behind the character after it.    *)
LEMMA BarInFront ==
  ASSUME NEW s \in Seq(Char), NEW k \in 1 .. Len(s), NEW b, BarsIn(s, k + 2, b),
         s[k] = Bar
  PROVE  /\ BarsIn(s, k, <<k>> \o b)
         /\ ~EmptyCommand(s) /\ AllBars(s, k + 2, b) => AllBars(s, k, <<k>> \o b)
<1> DEFINE c == <<k>> \o b
<1>1. Len(s) \in Nat /\ k \in Nat /\ k <= Len(s) /\ b \in Seq(Nat) /\ Len(b) \in Nat
  BY DEF BarsIn
<1>2. /\ c \in Seq(Nat) /\ Len(c) = Len(b) + 1 /\ c[1] = k
      /\ \A n \in 1 .. Len(b) : c[n + 1] = b[n]
  BY <1>1
<1> HIDE DEF c
<1>3. ASSUME NEW n \in 1 .. Len(c), n # 1
      PROVE  n - 1 \in 1 .. Len(b) /\ c[n] = b[n - 1] /\ c[n] \in k + 2 .. Len(s)
  <2>1. n - 1 \in 1 .. Len(b) /\ (n - 1) + 1 = n
    BY <1>1, <1>2, <1>3
  <2>2. c[n] = b[n - 1]
    BY <1>2, <2>1
  <2> QED
    BY <2>1, <2>2 DEF BarsIn
<1>4. BarsIn(s, k, c)
  <2>1. ASSUME NEW n \in 1 .. Len(c)
        PROVE  c[n] \in k .. Len(s) /\ s[c[n]] = Bar
    <3>1. CASE n = 1
      BY <1>1, <1>2, <3>1
    <3>2. CASE n # 1
      <4>1. n - 1 \in 1 .. Len(b) /\ c[n] = b[n - 1] /\ c[n] \in k + 2 .. Len(s)
        BY <1>3, <3>2
      <4>2. s[c[n]] = Bar
        BY <4>1 DEF BarsIn
      <4> QED
        BY <1>1, <4>1, <4>2
    <3> QED
      BY <3>1, <3>2
  <2>2. ASSUME NEW m \in 1 .. Len(c), NEW n \in 1 .. Len(c), m < n
        PROVE  c[m] < c[n]
    <3>1. n # 1 /\ Len(c) \in Nat
      BY <1>1, <1>2, <2>2
    <3>2. n - 1 \in 1 .. Len(b) /\ c[n] = b[n - 1] /\ c[n] \in k + 2 .. Len(s)
      BY <1>3, <3>1
    <3>3. CASE m = 1
      <4>1. c[m] = k
        BY <1>2, <3>3
      <4> QED
        BY <1>1, <3>2, <4>1, SMTT(30)
    <3>4. CASE m # 1
      <4>1. m - 1 \in 1 .. Len(b) /\ c[m] = b[m - 1]
        BY <1>3, <3>4
      <4>2. m - 1 < n - 1
        BY <2>2, <3>1
      <4> QED
        BY <3>2, <4>1, <4>2 DEF BarsIn
    <3> QED
      BY <3>3, <3>4
  <2> QED
    BY <1>2, <2>1, <2>2 DEF BarsIn
<1>5. ASSUME ~EmptyCommand(s), AllBars(s, k + 2, b)
      PROVE  AllBars(s, k, c)
  <2> SUFFICES ASSUME NEW j \in k .. Len(s), s[j] = Bar
               PROVE  \E n \in 1 .. Len(c) : c[n] = j
    BY DEF AllBars
  <2>1. j # k + 1
    <3>1. j = k + 1 => k # Len(s) /\ s[k + 1] = Bar
      BY <1>1
    <3> QED
      BY <1>5, <3>1 DEF EmptyCommand
  <2>2. CASE j = k
    <3>1. 1 \in 1 .. Len(c)
      BY <1>1, <1>2
    <3> QED
      BY <1>2, <2>2, <3>1
  <2>3. CASE j # k
    <3>1. j \in k + 2 .. Len(s)
      BY <1>1, <2>1, <2>3
    <3>2. PICK n \in 1 .. Len(b) : b[n] = j
      BY <1>5, <3>1 DEF AllBars
    <3>3. n + 1 \in 1 .. Len(c) /\ c[n + 1] = j
      <4>1. n + 1 \in 1 .. Len(c)
        BY <1>1, <1>2
      <4>2. c[n + 1] = b[n]
        BY <1>2
      <4> QED
        BY <3>2, <4>1, <4>2
    <3> QED
      BY <3>3
  <2> QED
    BY <2>2, <2>3
<1> QED
  BY <1>4, <1>5 DEF c

(* The loop finds bars only, and all of them if no command is empty.        *)
LEMMA BarsAreFound ==
  ASSUME NEW s \in Seq(Char)
  PROVE  /\ BarsIn(s, 1, BarsFound(s))
         /\ ~EmptyCommand(s) => AllBars(s, 1, BarsFound(s))
<1>1. PICK f : BarsFrom(s, f) /\ BarsFound(s) = f[1]
  BY BarsFoundFrom
<1> DEFINE Good(k) == /\ BarsIn(s, k, f[k])
                      /\ ~EmptyCommand(s) => AllBars(s, k, f[k])
           M == Len(s) + 2
           Bad == {i \in 0 .. M - 1 : ~Good(M - i)}
<1>2. Len(s) \in Nat /\ M \in Nat /\ M - 1 \in Nat
  OBVIOUS
<1>3. ASSUME Bad # {} PROVE FALSE
  <2>1. Bad \in SUBSET Nat
    BY <1>2
  <2>2. PICK i \in Bad : \A j \in Bad : i <= j
    <3> HIDE DEF Bad
    <3> QED
      BY <1>3, <2>1, Least
  <2> DEFINE k == M - i
  <2>3. i \in 0 .. M - 1 /\ ~Good(k) /\ k \in 1 .. M
    BY <1>2
  <2>4. \A j \in k + 1 .. M : Good(j)
    <3> SUFFICES ASSUME NEW j \in k + 1 .. M PROVE Good(j)
      OBVIOUS
    <3> DEFINE h == M - j
    <3>1. h \in 0 .. M - 1 /\ ~(i <= h) /\ M - h = j
      BY <1>2, <2>3
    <3>2. h \notin Bad
      <4> HIDE DEF Bad, h
      <4> QED
        BY <2>2, <3>1
    <3> HIDE DEF Good, h
    <3> QED
      BY <3>1, <3>2
  <2> HIDE DEF k
  <2>5. f[k] = IF k > Len(s) THEN <<>>
               ELSE IF s[k] = Bar THEN <<k>> \o f[k + 2]
               ELSE f[k + 1]
    BY <1>1, <2>3 DEF BarsFrom
  <2>6. CASE k > Len(s)
    <3>1. f[k] = <<>> /\ k .. Len(s) = {}
      BY <1>2, <2>3, <2>5, <2>6
    <3>2. BarsIn(s, k, f[k]) /\ AllBars(s, k, f[k])
      BY <3>1 DEF BarsIn, AllBars
    <3> QED
      BY <2>3, <3>2
  <2>7. CASE k <= Len(s) /\ s[k] = Bar
    <3>1. k \in 1 .. Len(s) /\ k + 2 \in k + 1 .. M /\ f[k] = <<k>> \o f[k + 2]
      <4>1. k \in 1 .. Len(s) /\ k + 2 \in k + 1 .. M
        BY <1>2, <2>3, <2>7
      <4>2. f[k] = <<k>> \o f[k + 2]
        BY <2>5, <2>7, <4>1, SMTT(30)
      <4> QED
        BY <4>1, <4>2
    <3>2. Good(k + 2)
      BY <2>4, <3>1
    <3>3. /\ BarsIn(s, k, <<k>> \o f[k + 2])
          /\ ~EmptyCommand(s) /\ AllBars(s, k + 2, f[k + 2]) => AllBars(s, k, <<k>> \o f[k + 2])
      BY <2>7, <3>1, <3>2, BarInFront
    <3> QED
      BY <2>3, <3>1, <3>2, <3>3
  <2>8. CASE k <= Len(s) /\ s[k] # Bar
    <3>1. k + 1 \in k + 1 .. M /\ f[k] = f[k + 1]
      BY <1>2, <2>3, <2>5, <2>8
    <3>2. Good(k + 1)
      BY <2>4, <3>1
    <3>3. BarsIn(s, k, f[k])
      <4>1. PICK b : b = f[k]
        OBVIOUS
      <4>2. BarsIn(s, k + 1, b)
        BY <3>1, <3>2, <4>1
      <4>3. k + 1 .. Len(s) \subseteq k .. Len(s)
        BY <1>2, <2>3
      <4>4. BarsIn(s, k, b)
        BY <4>2, <4>3 DEF BarsIn
      <4> QED
        BY <4>1, <4>4
    <3>4. AllBars(s, k + 1, f[k]) => AllBars(s, k, f[k])
      <4>1. \A j \in k .. Len(s) : j = k \/ j \in k + 1 .. Len(s)
        BY <1>2, <2>3
      <4> QED
        BY <2>8, <4>1 DEF AllBars
    <3> QED
      BY <2>3, <3>1, <3>2, <3>3, <3>4
  <2> QED
    BY <1>2, <2>3, <2>6, <2>7, <2>8
<1>4. Good(1)
  <2>1. M - 1 \in 0 .. M - 1 /\ M - (M - 1) = 1
    BY <1>2
  <2>2. Bad = {}
    BY <1>3
  <2> HIDE DEF Good, M
  <2> QED
    BY <2>1, <2>2
<1> QED
  BY <1>1, <1>4

-----------------------------------------------------------------------------
(* Where the line is cut: before its first character, at bars, at its end.  *)
Cuts(s, c) ==
  /\ c \in Seq(Nat) /\ Len(c) >= 2 /\ c[1] = 0 /\ c[Len(c)] = Len(s) + 1
  /\ \A n \in 2 .. Len(c) - 1 : c[n] \in 1 .. Len(s) /\ s[c[n]] = Bar
  /\ \A m, n \in 1 .. Len(c) : m < n => c[m] < c[n]

CutsAll(s, c) ==
  \A j \in 1 .. Len(s) : s[j] = Bar => \E n \in 2 .. Len(c) - 1 : c[n] = j

CutAt(s) == <<0>> \o BarsFound(s) \o <<Len(s) + 1>>

(* The commands are what is between the cuts.                               *)
LEMMA LineIsCut ==
  ASSUME NEW s \in Seq(Char)
  PROVE  /\ Cuts(s, CutAt(s)) /\ (~EmptyCommand(s) => CutsAll(s, CutAt(s)))
         /\ GetLastCommands(s)
              = [n \in 1 .. Len(CutAt(s)) - 1 |-> SubSeq(s, CutAt(s)[n] + 1, CutAt(s)[n + 1] - 1)]
<1>1. PICK b : b = BarsFound(s)
  OBVIOUS
<1>2. PICK c : c = CutAt(s)
  OBVIOUS
<1>3. BarsIn(s, 1, b) /\ (~EmptyCommand(s) => AllBars(s, 1, b))
  BY <1>1, BarsAreFound
<1>4. b \in Seq(Nat) /\ Len(b) \in Nat /\ Len(s) \in Nat /\ c = <<0>> \o b \o <<Len(s) + 1>>
  BY <1>1, <1>2, <1>3 DEF BarsIn, CutAt
<1>5. /\ c \in Seq(Nat) /\ Len(c) = Len(b) + 2 /\ c[1] = 0 /\ c[Len(c)] = Len(s) + 1
      /\ \A n \in 1 .. Len(b) : c[n + 1] = b[n]
  BY <1>4
<1>6. \A n \in 2 .. Len(c) - 1 : n - 1 \in 1 .. Len(b) /\ c[n] = b[n - 1]
  <2> SUFFICES ASSUME NEW n \in 2 .. Len(c) - 1
               PROVE  n - 1 \in 1 .. Len(b) /\ c[n] = b[n - 1]
    OBVIOUS
  <2>1. n - 1 \in 1 .. Len(b) /\ (n - 1) + 1 = n
    BY <1>4, <1>5
  <2> QED
    BY <1>5, <2>1
<1>7. \A n \in 2 .. Len(c) - 1 : c[n] \in 1 .. Len(s) /\ s[c[n]] = Bar
  BY <1>3, <1>6 DEF BarsIn
<1>8. ASSUME NEW m \in 1 .. Len(c), NEW n \in 1 .. Len(c), m < n
      PROVE  c[m] < c[n]
  <2>1. /\ m # Len(c) /\ n # 1 /\ m \in Int /\ n \in Int
        /\ (m = 1 \/ m \in 2 .. Len(c) - 1) /\ (n = Len(c) \/ n \in 2 .. Len(c) - 1)
    BY <1>4, <1>5, <1>8
  <2>2. CASE m = 1
    BY <1>4, <1>5, <1>7, <2>1, <2>2
  <2>3. CASE m # 1 /\ n = Len(c)
    BY <1>4, <1>5, <1>7, <2>1, <2>3
  <2>4. CASE m # 1 /\ n # Len(c)
    <3>1. /\ m - 1 \in 1 .. Len(b) /\ c[m] = b[m - 1]
          /\ n - 1 \in 1 .. Len(b) /\ c[n] = b[n - 1]
      BY <1>6, <2>1, <2>4
    <3>2. m - 1 < n - 1
      BY <1>8, <2>1
    <3> QED
      BY <1>3, <3>1, <3>2 DEF BarsIn
  <2> QED
    BY <2>2, <2>3, <2>4
<1>9. Cuts(s, c)
  <2>1. Len(c) >= 2
    BY <1>4, <1>5
  <2> QED
    BY <1>5, <1>7, <1>8, <2>1 DEF Cuts
<1>10. ASSUME AllBars(s, 1, b)
       PROVE  CutsAll(s, c)
  <2> SUFFICES ASSUME NEW j \in 1 .. Len(s), s[j] = Bar
               PROVE  \E n \in 2 .. Len(c) - 1 : c[n] = j
    BY DEF CutsAll
  <2>1. PICK n \in 1 .. Len(b) : b[n] = j
    BY <1>10 DEF AllBars
  <2>2. n + 1 \in 2 .. Len(c) - 1 /\ c[n + 1] = j
    BY <1>4, <1>5, <2>1
  <2> QED
    BY <2>2
<1>11. GetLastCommands(s)
         = [n \in 1 .. Len(CutAt(s)) - 1 |-> SubSeq(s, CutAt(s)[n] + 1, CutAt(s)[n + 1] - 1)]
  BY DEF GetLastCommands, CutAt
<1> QED
  BY <1>2, <1>3, <1>9, <1>10, <1>11

(* What is between a cut and the next one. *)
PartOf(c, n) == <<c[n] + 1, c[n + 1] - 1>>

(* Cuts lie in the line, or before or behind it, and go from left to right. *)
LEMMA CutsWithin ==
  ASSUME NEW s \in Seq(Char), NEW c, Cuts(s, c), NEW n \in 1 .. Len(c) - 1
  PROVE  /\ n \in 1 .. Len(c) /\ n + 1 \in 1 .. Len(c) /\ n + 1 \in 2 .. Len(c)
         /\ c[n] \in 0 .. Len(s) /\ c[n + 1] \in 1 .. Len(s) + 1 /\ c[n] < c[n + 1]
<1>1. Len(s) \in Nat /\ Len(c) \in Nat /\ c \in Seq(Nat) /\ Len(c) >= 2 /\ n \in Nat
  BY DEF Cuts
<1>2. n \in 1 .. Len(c) /\ n + 1 \in 1 .. Len(c) /\ n + 1 \in 2 .. Len(c) /\ n < n + 1
  BY <1>1
<1>3. c[n] < c[n + 1]
  BY <1>2 DEF Cuts
<1>4. c[n] \in 0 .. Len(s)
  <2>1. n = 1 \/ n \in 2 .. Len(c) - 1
    BY <1>1
  <2> QED
    BY <1>1, <2>1 DEF Cuts
<1>5. c[n + 1] \in 1 .. Len(s) + 1
  <2>1. n + 1 = Len(c) \/ n + 1 \in 2 .. Len(c) - 1
    BY <1>1
  <2> QED
    BY <1>1, <2>1 DEF Cuts
<1> QED
  BY <1>2, <1>3, <1>4, <1>5

(* Each part between two cuts is a stretch, and each stretch is one.        *)
LEMMA PartIsStretch ==
  ASSUME NEW s \in Seq(Char), NEW c, Cuts(s, c), CutsAll(s, c), NEW n \in 1 .. Len(c) - 1
  PROVE  PartOf(c, n) \in Stretches(s, {Bar}, TRUE)
<1> DEFINE i == c[n] + 1
           j == c[n + 1] - 1
<1>1. /\ n \in 1 .. Len(c) /\ n + 1 \in 1 .. Len(c) /\ n + 1 \in 2 .. Len(c)
      /\ c[n] \in 0 .. Len(s) /\ c[n + 1] \in 1 .. Len(s) + 1 /\ c[n] < c[n + 1]
  BY CutsWithin
<1>2. Len(s) \in Nat /\ Len(c) \in Nat /\ c \in Seq(Nat) /\ n \in Nat
  BY DEF Cuts
<1>3. i \in 1 .. Len(s) + 1 /\ j \in 0 .. Len(s) /\ i <= j + 1 /\ i - 1 = c[n] /\ j + 1 = c[n + 1]
  BY <1>1, <1>2, SMTT(30)
<1>4. ASSUME NEW k \in i .. j, s[k] = Bar
      PROVE  FALSE
  <2>1. k \in 1 .. Len(s) /\ c[n] < k /\ k < c[n + 1]
    <3>1. PICK x \in 0 .. Len(s), y \in 1 .. Len(s) + 1 : x = c[n] /\ y = c[n + 1]
      BY <1>1
    <3>2. k \in x + 1 .. y - 1
      BY <3>1
    <3>3. k \in 1 .. Len(s) /\ x < k /\ k < y
      BY <1>2, <3>2
    <3> QED
      BY <3>1, <3>3
  <2>2. PICK m \in 2 .. Len(c) - 1 : c[m] = k
    BY <1>4, <2>1 DEF CutsAll
  <2>3. m \in 1 .. Len(c) /\ m \in Int /\ n \in Int
    BY <1>2
  <2>4. CASE m <= n
    <3>1. m = n \/ m < n
      BY <2>3, <2>4
    <3>2. c[m] = c[n] \/ c[m] < c[n]
      BY <1>1, <2>3, <3>1 DEF Cuts
    <3> QED
      BY <1>1, <2>1, <2>2, <3>2
  <2>5. CASE m > n
    <3>1. m = n + 1 \/ n + 1 < m
      BY <2>3, <2>5
    <3>2. c[n + 1] = c[m] \/ c[n + 1] < c[m]
      BY <1>1, <2>3, <3>1 DEF Cuts
    <3> QED
      BY <1>1, <2>1, <2>2, <3>2
  <2> QED
    BY <2>3, <2>4, <2>5
<1>5. i > 1 => s[i - 1] \in {Bar}
  <2>1. CASE n = 1
    BY <1>3, <2>1 DEF Cuts
  <2>2. CASE n # 1
    <3>1. n \in 2 .. Len(c) - 1
      BY <1>2, <2>2
    <3> QED
      BY <1>3, <3>1 DEF Cuts
  <2> QED
    BY <2>1, <2>2
<1>6. j < Len(s) => s[j + 1] \in {Bar}
  <2>1. CASE n + 1 = Len(c)
    BY <1>2, <1>3, <2>1, SMTT(30) DEF Cuts
  <2>2. CASE n + 1 # Len(c)
    <3>1. n + 1 \in 2 .. Len(c) - 1
      BY <1>2, <2>2
    <3> QED
      BY <1>3, <3>1 DEF Cuts
  <2> QED
    BY <2>1, <2>2
<1> HIDE DEF i, j
<1>7. <<i, j>> \in Stretches(s, {Bar}, TRUE)
  BY <1>3, <1>4, <1>5, <1>6 DEF Stretches
<1> QED
  BY <1>7 DEF i, j, PartOf

(* And each stretch lies between two cuts, one behind the other.            *)
LEMMA StretchIsPart ==
  ASSUME NEW s \in Seq(Char), NEW c, Cuts(s, c), CutsAll(s, c),
         NEW u \in Stretches(s, {Bar}, TRUE)
  PROVE  \E n \in 1 .. Len(c) - 1 : u = PartOf(c, n)
<1> DEFINE i == u[1]
           j == u[2]
<1>1. /\ u = <<i, j>> /\ i \in 1 .. Len(s) + 1 /\ j \in 0 .. Len(s) /\ i <= j + 1
      /\ \A k \in i .. j : s[k] # Bar
      /\ i > 1 => s[i - 1] = Bar
      /\ j < Len(s) => s[j + 1] = Bar
  BY DEF Stretches
<1> HIDE DEF i, j
<1>2. Len(s) \in Nat /\ Len(c) \in Nat /\ c \in Seq(Nat) /\ Len(c) >= 2
  BY DEF Cuts
<1>3. PICK n \in 1 .. Len(c) - 1 : c[n] = i - 1
  <2>1. CASE i = 1
    <3>1. 1 \in 1 .. Len(c) - 1 /\ c[1] = i - 1
      BY <1>2, <2>1 DEF Cuts
    <3> QED
      BY <3>1
  <2>2. CASE i # 1
    <3>1. i > 1 /\ i - 1 \in 1 .. Len(s)
      BY <1>1, <1>2, <2>2
    <3>2. PICK n \in 2 .. Len(c) - 1 : c[n] = i - 1
      BY <1>1, <3>1 DEF CutsAll
    <3>3. n \in 1 .. Len(c) - 1
      BY <1>2
    <3> QED
      BY <3>2, <3>3
  <2> QED
    BY <2>1, <2>2
<1>4. PICK m \in 2 .. Len(c) : c[m] = j + 1
  <2>1. CASE j = Len(s)
    <3>1. Len(c) \in 2 .. Len(c) /\ c[Len(c)] = j + 1
      BY <1>2, <2>1 DEF Cuts
    <3> QED
      BY <3>1
  <2>2. CASE j # Len(s)
    <3>1. j < Len(s) /\ j + 1 \in 1 .. Len(s)
      BY <1>1, <1>2, <2>2
    <3>2. PICK m \in 2 .. Len(c) - 1 : c[m] = j + 1
      BY <1>1, <3>1 DEF CutsAll
    <3>3. m \in 2 .. Len(c)
      BY <1>2
    <3> QED
      BY <3>2, <3>3
  <2> QED
    BY <2>1, <2>2
<1>5. /\ n \in 1 .. Len(c) /\ n + 1 \in 1 .. Len(c) /\ n + 1 \in 2 .. Len(c)
      /\ c[n] \in 0 .. Len(s) /\ c[n + 1] \in 1 .. Len(s) + 1 /\ c[n] < c[n + 1]
  BY CutsWithin
<1>6. m \in 1 .. Len(c) /\ m \in Int /\ n \in Int /\ c[n] < c[m]
  BY <1>1, <1>2, <1>3, <1>4, <1>5
<1>7. m > n
  <2>1. SUFFICES ASSUME m < n \/ m = n PROVE FALSE
    BY <1>6
  <2>2. c[m] < c[n] \/ c[m] = c[n]
    BY <1>5, <1>6, <2>1 DEF Cuts
  <2>3. c[m] \in Int /\ c[n] \in Int
    BY <1>2, <1>5, <1>6, SMTT(30)
  <2> QED
    BY <1>6, <2>2, <2>3
<1>8. m = n + 1
  <2>1. SUFFICES ASSUME n + 1 < m PROVE FALSE
    BY <1>6, <1>7
  <2>2. c[n + 1] < c[m]
    BY <1>5, <1>6, <2>1 DEF Cuts
  <2>3. c[n + 1] \in i .. j
    <3>1. PICK x \in 0 .. Len(s), y \in 1 .. Len(s) + 1 : x = c[n] /\ y = c[n + 1]
      BY <1>5
    <3>2. x = i - 1 /\ x < y /\ y < j + 1
      BY <1>3, <1>4, <1>5, <2>2, <3>1
    <3>3. y \in i .. j
      BY <1>1, <1>2, <3>2
    <3> QED
      BY <3>1, <3>3
  <2>4. n + 1 \in 2 .. Len(c) - 1
    BY <1>2, <1>5, <1>6, <2>1
  <2> QED
    BY <1>1, <2>3, <2>4 DEF Cuts
<1>9. i = c[n] + 1 /\ j = c[n + 1] - 1
  BY <1>1, <1>3, <1>4, <1>8, SMTT(30)
<1> QED
  BY <1>1, <1>9 DEF PartOf

(* n different things are n.                                                *)
Entries(g, n) == {g[i] : i \in 1 .. n}

Distinct(g, n) == \A i, j \in 1 .. n : g[i] = g[j] => i = j

(* A list without repetition has as many members as places.                 *)
LEMMA Different ==
  ASSUME NEW n \in Nat, NEW g, Distinct(g, n)
  PROVE  Cardinality(Entries(g, n)) = n
<1> DEFINE D == Entries(g, n)
           f == [i \in 1 .. n |-> g[i]]
<1>1. f \in [1 .. n -> D] /\ \A i \in 1 .. n : f[i] = g[i]
  BY DEF Entries
<1>2. \A d \in D : \E i \in 1 .. n : f[i] = d
  BY DEF Entries
<1> HIDE DEF f, D
<1>3. f \in Bijection(1 .. n, D)
  BY <1>1, <1>2 DEF Bijection, Injection, Surjection, IsInjective, Distinct
<1>4. ExistsBijection(1 .. n, D)
  BY <1>3 DEF ExistsBijection
<1>5. Cardinality(D) = n
  BY <1>4, FS_CountingElements
<1> QED
  BY <1>5 DEF D

(* The stretches up to a part between two cuts.                             *)
LEMMA PartsUpTo ==
  ASSUME NEW s \in Seq(Char), NEW c, Cuts(s, c), CutsAll(s, c), NEW n \in 1 .. Len(c) - 1
  PROVE  Cardinality({u \in Stretches(s, {Bar}, TRUE) : u[1] <= PartOf(c, n)[1]}) = n
<1> DEFINE T == Stretches(s, {Bar}, TRUE)
           g == [i \in 1 .. n |-> PartOf(c, i)]
           U == {u \in T : u[1] <= PartOf(c, n)[1]}
<1>1. Len(c) \in Nat /\ n \in Nat /\ \A i \in 1 .. Len(c) - 1 : c[i] \in Int
  <2>1. c \in Seq(Nat) /\ Len(c) >= 2
    BY DEF Cuts
  <2>2. Len(c) \in Nat /\ \A i \in 1 .. Len(c) : c[i] \in Nat
    BY <2>1
  <2>3. n \in Nat /\ \A i \in 1 .. Len(c) - 1 : i \in 1 .. Len(c)
    BY <2>2
  <2> QED
    BY <2>2, <2>3
<1>2. \A i \in 1 .. n : i \in 1 .. Len(c) - 1
  BY <1>1
<1>3. ASSUME NEW i \in 1 .. Len(c) - 1, NEW j \in 1 .. Len(c) - 1
      PROVE  c[i] <= c[j] <=> i <= j
  <2>1. i \in 1 .. Len(c) /\ j \in 1 .. Len(c) /\ i \in Int /\ j \in Int
    BY <1>1
  <2>2. (i < j => c[i] < c[j]) /\ (j < i => c[j] < c[i])
    BY <2>1 DEF Cuts
  <2>3. c[i] \in Int /\ c[j] \in Int
    BY <1>1
  <2> QED
    BY <2>1, <2>2, <2>3
<1>4. ASSUME NEW i \in 1 .. Len(c) - 1, NEW j \in 1 .. Len(c) - 1
      PROVE  PartOf(c, i)[1] <= PartOf(c, j)[1] <=> i <= j
  <2>1. PartOf(c, i)[1] = c[i] + 1 /\ PartOf(c, j)[1] = c[j] + 1
    BY DEF PartOf
  <2>2. c[i] \in Int /\ c[j] \in Int
    BY <1>1
  <2> QED
    BY <1>3, <2>1, <2>2
<1>5. U = Entries(g, n)
  <2>1. ASSUME NEW i \in 1 .. n PROVE g[i] \in U
    <3>1. PartOf(c, i) \in T
      BY <1>2, PartIsStretch
    <3>2. i <= n /\ i \in 1 .. Len(c) - 1
      BY <1>1
    <3>3. PartOf(c, i)[1] <= PartOf(c, n)[1]
      BY <1>4, <3>2
    <3> QED
      BY <3>1, <3>3
  <2>2. ASSUME NEW u \in U PROVE \E i \in 1 .. n : u = g[i]
    <3>1. PICK i \in 1 .. Len(c) - 1 : u = PartOf(c, i)
      BY StretchIsPart
    <3>2. PartOf(c, i)[1] <= PartOf(c, n)[1]
      BY <3>1
    <3>3. i <= n
      BY <1>4, <3>2
    <3>4. i \in 1 .. n
      BY <1>1, <3>3
    <3> QED
      BY <3>1, <3>4
  <2> HIDE DEF g, U
  <2> QED
    BY <2>1, <2>2 DEF Entries
<1>6. ASSUME NEW i \in 1 .. n, NEW j \in 1 .. n, g[i] = g[j]
      PROVE  i = j
  <2>1. PartOf(c, i) = PartOf(c, j)
    BY <1>6
  <2>2. c[i] + 1 = c[j] + 1 /\ c[i] \in Int /\ c[j] \in Int
    BY <1>1, <1>2, <2>1 DEF PartOf
  <2>3. i <= j /\ j <= i
    <3>1. c[i] <= c[j] /\ c[j] <= c[i]
      BY <2>2
    <3> QED
      BY <1>2, <1>3, <3>1
  <2> QED
    BY <1>1, <2>3
<1> HIDE DEF g, U
<1>7. Cardinality(U) = n
  <2>1. Distinct(g, n)
    BY <1>6 DEF Distinct
  <2> QED
    BY <1>1, <1>5, <2>1, Different
<1> QED
  BY <1>7 DEF U

(* Whatever the line, each command is a string.                             *)
LEMMA CommandsAreStrings ==
  ASSUME NEW s \in Seq(Char)
  PROVE  /\ GetLastCommands(s) \in Seq(Seq(Char))
         /\ Len(GetLastCommands(s)) = Len(CutAt(s)) - 1
<1>1. PICK c : c = CutAt(s)
  OBVIOUS
<1>2. /\ Cuts(s, c)
      /\ GetLastCommands(s) = [n \in 1 .. Len(c) - 1 |-> SubSeq(s, c[n] + 1, c[n + 1] - 1)]
  BY <1>1, LineIsCut
<1>3. Len(c) - 1 \in Nat /\ Len(s) \in Nat
  BY <1>2 DEF Cuts
<1>4. ASSUME NEW n \in 1 .. Len(c) - 1
      PROVE  SubSeq(s, c[n] + 1, c[n + 1] - 1) \in Seq(Char)
  <2>1. PICK x \in 0 .. Len(s), y \in 1 .. Len(s) + 1 : x = c[n] /\ y = c[n + 1]
    BY <1>2, CutsWithin
  <2>2. x + 1 \in Int /\ y - 1 \in Int /\ \A k \in x + 1 .. y - 1 : k \in 1 .. Len(s)
    BY <1>3
  <2>3. \A k \in x + 1 .. y - 1 : s[k] \in Char
    BY <2>2
  <2>4. SubSeq(s, x + 1, y - 1) \in Seq(Char)
    BY <2>2, <2>3, SubSeqProperties
  <2> QED
    BY <2>1, <2>4
<1>5. PICK N \in Nat : N = Len(c) - 1
  BY <1>3
<1>6. PICK q : q = GetLastCommands(s)
  OBVIOUS
<1>7. q \in [1 .. N -> Seq(Char)]
  BY <1>2, <1>4, <1>5, <1>6
<1>8. q \in Seq(Seq(Char)) /\ Len(q) = N
  BY <1>7
<1> QED
  BY <1>1, <1>5, <1>6, <1>8

(* A line without an empty command is cut into what is written in it.       *)
LEMMA CommandsListed ==
  ASSUME NEW s \in Seq(Char), ~EmptyCommand(s)
  PROVE  Lists(GetLastCommands(s), s, Stretches(s, {Bar}, TRUE))
<1> DEFINE T == Stretches(s, {Bar}, TRUE)
<1>1. PICK c : c = CutAt(s)
  OBVIOUS
<1>2. /\ Cuts(s, c) /\ CutsAll(s, c)
      /\ GetLastCommands(s) = [n \in 1 .. Len(c) - 1 |-> SubSeq(s, c[n] + 1, c[n + 1] - 1)]
  BY <1>1, LineIsCut
<1>3. PICK q : q = GetLastCommands(s)
  OBVIOUS
<1>4. Len(c) \in Nat /\ Len(c) >= 2 /\ Len(c) - 1 \in Nat
  BY <1>2 DEF Cuts
<1>5. Len(q) = Len(c) - 1 /\ \A n \in 1 .. Len(c) - 1 : q[n] = SubSeq(s, c[n] + 1, c[n + 1] - 1)
  <2>1. PICK N \in Nat : N = Len(c) - 1
    BY <1>4
  <2>2. q = [n \in 1 .. N |-> SubSeq(s, c[n] + 1, c[n + 1] - 1)]
    BY <1>2, <1>3, <2>1
  <2>3. \A n \in 1 .. N : q[n] = SubSeq(s, c[n] + 1, c[n + 1] - 1)
    BY <2>2
  <2>4. Len(q) = Len(c) - 1
    BY <1>1, <1>3, CommandsAreStrings
  <2> QED
    BY <2>1, <2>3, <2>4
<1>6. ASSUME NEW u \in T
      PROVE  q[Cardinality({v \in T : v[1] <= u[1]})] = SubSeq(s, u[1], u[2])
  <2>1. PICK n \in 1 .. Len(c) - 1 : u = PartOf(c, n)
    BY <1>2, StretchIsPart
  <2> HIDE DEF T
  <2>2. Cardinality({v \in T : v[1] <= u[1]}) = n
    BY <1>2, <2>1, PartsUpTo DEF T
  <2>3. u[1] = c[n] + 1 /\ u[2] = c[n + 1] - 1
    BY <2>1 DEF PartOf
  <2> QED
    BY <1>5, <2>2, <2>3
<1>7. Len(q) = Cardinality(T)
  <2> DEFINE N == Len(c) - 1
  <2>1. N \in 1 .. Len(c) - 1
    BY <1>4
  <2>2. Cardinality({v \in T : v[1] <= PartOf(c, N)[1]}) = N
    BY <1>2, <2>1, PartsUpTo
  <2>3. ASSUME NEW v \in T PROVE v[1] <= PartOf(c, N)[1]
    <3>1. PICK n \in 1 .. N : v = PartOf(c, n)
      BY <1>2, StretchIsPart
    <3>2. v[1] = c[n] + 1 /\ PartOf(c, N)[1] = c[N] + 1
      BY <3>1 DEF PartOf
    <3>3. n \in 1 .. Len(c) /\ N \in 1 .. Len(c) /\ (n = N \/ n < N)
      BY <1>4, <2>1
    <3>4. c[n] = c[N] \/ c[n] < c[N]
      BY <1>2, <3>3 DEF Cuts
    <3>5. c[n] \in Int /\ c[N] \in Int
      <4>1. c[n] \in 0 .. Len(s) /\ c[N] \in 0 .. Len(s) /\ Len(s) \in Nat
        BY <1>2, <2>1, CutsWithin
      <4> QED
        BY <4>1
    <3> QED
      BY <3>2, <3>4, <3>5
  <2>4. {v \in T : v[1] <= PartOf(c, N)[1]} = T
    BY <2>3
  <2> QED
    BY <1>5, <2>2, <2>4
<1> HIDE DEF T
<1>8. Lists(q, s, T)
  BY <1>6, <1>7 DEF Lists
<1> QED
  BY <1>3, <1>8 DEF T

(* Then the loop does not leave the line.                                   *)
LEMMA StaysInLine ==
  ASSUME NEW s \in Seq(Char), ~EmptyCommand(s)
  PROVE  ~LeavesLine(s)
<1> SUFFICES ASSUME NEW n \in 1 .. Len(BarsFound(s)), BarsFound(s)[n] = Len(s)
             PROVE  FALSE
  BY DEF LeavesLine
<1>1. PICK b : b = BarsFound(s)
  OBVIOUS
<1>2. b[n] \in 1 .. Len(s) /\ s[b[n]] = Bar /\ b[n] = Len(s)
  BY <1>1, BarsAreFound DEF BarsIn
<1> QED
  BY <1>2 DEF EmptyCommand

-----------------------------------------------------------------------------
(* The words of a command.                                                  *)
LEMMA RowEnds ==
  ASSUME NEW s \in Seq(Char), NEW k \in 1 .. Len(s) + 1, NEW C
  PROVE  /\ RowEnd(s, k, C) \in k .. Len(s) + 1
         /\ \A j \in k .. RowEnd(s, k, C) - 1 : s[j] \in C
         /\ RowEnd(s, k, C) <= Len(s) => s[RowEnd(s, k, C)] \notin C
<1> DEFINE Other == {j \in k .. Len(s) + 1 : j = Len(s) + 1 \/ s[j] \notin C}
           Ends(e) == (\A j \in k .. e - 1 : s[j] \in C) /\ (e <= Len(s) => s[e] \notin C)
<1>1. Len(s) \in Nat /\ k \in Nat
  OBVIOUS
<1>2. Other \in SUBSET Nat /\ Len(s) + 1 \in Other
  BY <1>1
<1>3. PICK e \in Other : \A j \in Other : e <= j
  <2> HIDE DEF Other
  <2> QED
    BY <1>2, Least
<1>4. e \in k .. Len(s) + 1 /\ e \in Nat /\ (e = Len(s) + 1 \/ s[e] \notin C)
  BY <1>1
<1>5. ASSUME NEW j \in k .. e - 1 PROVE s[j] \in C
  <2>1. j \in k .. Len(s) + 1 /\ j # Len(s) + 1 /\ ~(e <= j)
    BY <1>1, <1>4
  <2>2. j \notin Other
    <3> HIDE DEF Other
    <3> QED
      BY <1>3, <2>1
  <2> QED
    BY <2>1, <2>2
<1>6. Ends(e)
  <2>1. e <= Len(s) => s[e] \notin C
    BY <1>1, <1>4
  <2> QED
    BY <1>5, <2>1
<1>7. RowEnd(s, k, C) = CHOOSE x \in k .. Len(s) + 1 : Ends(x)
  BY DEF RowEnd
<1> HIDE DEF Ends
<1>8. RowEnd(s, k, C) \in k .. Len(s) + 1 /\ Ends(RowEnd(s, k, C))
  BY <1>4, <1>6, <1>7
<1> QED
  BY <1>8 DEF Ends

(* Where the word begins that is found from k on, and where it ends.        *)
WordAt(s, k) == RowEnd(s, k, {Blank})

WordEnd(s, k) == RowEnd(s, WordAt(s, k), Char \ {Blank})

(* The word is not empty, and stands between blanks.                        *)
LEMMA WordFound ==
  ASSUME NEW s \in Seq(Char), NEW k \in 1 .. Len(s) + 1
  PROVE  /\ WordAt(s, k) \in k .. Len(s) + 1
         /\ \A j \in k .. WordAt(s, k) - 1 : s[j] = Blank
         /\ WordAt(s, k) # Len(s) + 1 =>
              /\ WordAt(s, k) \in 1 .. Len(s) /\ WordEnd(s, k) \in WordAt(s, k) + 1 .. Len(s) + 1
              /\ \A j \in WordAt(s, k) .. WordEnd(s, k) - 1 : s[j] # Blank
              /\ WordEnd(s, k) <= Len(s) => s[WordEnd(s, k)] = Blank
<1>1. PICK b : b = WordAt(s, k)
  OBVIOUS
<1>2. PICK e : e = WordEnd(s, k)
  OBVIOUS
<1>3. Len(s) \in Nat /\ k \in Nat /\ \A j \in 1 .. Len(s) : s[j] \in Char
  OBVIOUS
<1>4. /\ b \in k .. Len(s) + 1
      /\ \A j \in k .. b - 1 : s[j] \in {Blank}
      /\ b <= Len(s) => s[b] \notin {Blank}
  BY <1>1, RowEnds DEF WordAt
<1>5. ASSUME b # Len(s) + 1
      PROVE  /\ b \in 1 .. Len(s) /\ e \in b + 1 .. Len(s) + 1
             /\ \A j \in b .. e - 1 : s[j] # Blank
             /\ e <= Len(s) => s[e] = Blank
  <2>1. b \in 1 .. Len(s) + 1 /\ b \in 1 .. Len(s)
    BY <1>3, <1>4, <1>5
  <2>2. /\ e \in b .. Len(s) + 1
        /\ \A j \in b .. e - 1 : s[j] \in Char \ {Blank}
        /\ e <= Len(s) => s[e] \notin Char \ {Blank}
    BY <1>1, <1>2, <2>1, RowEnds DEF WordEnd
  <2>3. s[b] \in Char \ {Blank}
    BY <1>3, <1>4, <2>1
  <2>4. e # b
    BY <1>3, <2>1, <2>2, <2>3
  <2>5. e \in b + 1 .. Len(s) + 1
    BY <1>3, <2>1, <2>2, <2>4
  <2>6. e <= Len(s) => s[e] = Blank
    <3>1. e <= Len(s) => e \in 1 .. Len(s)
      BY <1>3, <2>1, <2>5
    <3> QED
      BY <1>3, <2>2, <3>1
  <2> QED
    BY <2>1, <2>2, <2>5, <2>6
<1> QED
  BY <1>1, <1>2, <1>4, <1>5

(* What SplitString computes, place by place.                               *)
WordsFrom(s, f) ==
  \A k \in 1 .. Len(s) + 1 :
    f[k] = IF WordAt(s, k) = Len(s) + 1 THEN <<>>
           ELSE <<SubSeq(s, WordAt(s, k), WordEnd(s, k) - 1)>> \o f[WordEnd(s, k)]

(* SplitString is what such a walk gives from the first character on.       *)
LEMMA SplitStringFrom ==
  ASSUME NEW s \in Seq(Char)
  PROVE  \E f : WordsFrom(s, f) /\ SplitString(s) = f[1]
<1> DEFINE M == Len(s) + 1
           from[k \in 1 .. M] ==
             IF WordAt(s, k) = M THEN <<>>
             ELSE <<SubSeq(s, WordAt(s, k), WordEnd(s, k) - 1)>> \o from[WordEnd(s, k)]
           stop == [k \in 1 .. M |-> WordAt(s, k) = M]
           emits == [k \in 1 .. M |-> TRUE]
           item == [k \in 1 .. M |-> SubSeq(s, WordAt(s, k), WordEnd(s, k) - 1)]
           next == [k \in 1 .. M |-> WordEnd(s, k)]
           Eq(f, k) == IF WordAt(s, k) = M THEN <<>>
                       ELSE <<SubSeq(s, WordAt(s, k), WordEnd(s, k) - 1)>> \o f[WordEnd(s, k)]
<1>1. Len(s) \in Nat /\ M \in Nat
  OBVIOUS
<1>2. Loop(M, stop, emits, item, next)
  <2> SUFFICES ASSUME NEW k \in 1 .. M, ~stop[k]
               PROVE  next[k] \in k + 1 .. M
    BY DEF Loop
  <2> HIDE DEF M
  <2>1. stop[k] = (WordAt(s, k) = M) /\ next[k] = WordEnd(s, k)
    OBVIOUS
  <2> HIDE DEF stop, next
  <2>2. WordAt(s, k) # M
    BY <2>1, Zenon
  <2>3. WordAt(s, k) \in k .. M /\ WordEnd(s, k) \in WordAt(s, k) + 1 .. M
    BY <2>2, WordFound DEF M
  <2>4. WordEnd(s, k) \in k + 1 .. M
    BY <1>1, <2>3
  <2> QED
    BY <2>1, <2>4
<1>3. PICK f : Listing(f, M, stop, emits, item, next)
  <2> HIDE DEF M, stop, emits, item, next
  <2> QED
    BY <1>1, <1>2, RestExists
<1>4. \A k \in 1 .. M : Rest(f, k, stop, emits, item, next) = Eq(f, k)
  <2> SUFFICES ASSUME NEW k \in 1 .. M
               PROVE  Rest(f, k, stop, emits, item, next) = Eq(f, k)
    OBVIOUS
  <2> HIDE DEF M
  <2>1. /\ stop[k] = (WordAt(s, k) = M) /\ emits[k] = TRUE
        /\ item[k] = SubSeq(s, WordAt(s, k), WordEnd(s, k) - 1)
        /\ next[k] = WordEnd(s, k)
    OBVIOUS
  <2> HIDE DEF stop, emits, item, next
  <2> QED
    BY <2>1 DEF Rest
<1>5. f = [k \in 1 .. M |-> Eq(f, k)]
  <2> HIDE DEF M, Eq, stop, emits, item, next
  <2> QED
    BY <1>3, <1>4 DEF Listing
<1>6. from = [k \in 1 .. M |-> Eq(from, k)]
  <2> HIDE DEF M
  <2> QED
    BY <1>5
<1>7. SplitString(s) = from[1]
  BY DEF SplitString, WordAt, WordEnd
<1>8. \A k \in 1 .. M : from[k] = Eq(from, k)
  <2> HIDE DEF M, Eq, from
  <2> QED
    BY <1>6
<1>9. WordsFrom(s, from)
  <2> HIDE DEF from
  <2> QED
    BY <1>8 DEF WordsFrom
<1> HIDE DEF from
<1> QED
  BY <1>7, <1>9

-----------------------------------------------------------------------------
(* The list f names the stretches T of s, from left to right.               *)
Names(f, s, T) ==
  /\ f \in Seq(Seq(Char)) /\ IsFiniteSet(T) /\ Lists(f, s, T)
  /\ \A u \in T : u[1] \in Int

(* With a stretch in front of them. *)
LEMMA NameInFront ==
  ASSUME NEW f, NEW s, NEW T, Names(f, s, T), NEW p, p[1] \in Int,
         \A u \in T : p[1] < u[1],
         SubSeq(s, p[1], p[2]) \in Seq(Char)
  PROVE  Names(<<SubSeq(s, p[1], p[2])>> \o f, s, T \cup {p})
<1> DEFINE w == SubSeq(s, p[1], p[2])
           g == <<w>> \o f
           U == T \cup {p}
           UpTo(V, u) == {v \in V : v[1] <= u[1]}
<1>1. /\ f \in Seq(Seq(Char)) /\ IsFiniteSet(T) /\ \A u \in T : u[1] \in Int
      /\ Len(f) = Cardinality(T)
      /\ \A u \in T : f[Cardinality(UpTo(T, u))] = SubSeq(s, u[1], u[2])
  BY DEF Names, Lists
<1>2. /\ g \in Seq(Seq(Char)) /\ Len(g) = Len(f) + 1 /\ g[1] = w
      /\ \A i \in 1 .. Len(f) : g[i + 1] = f[i]
  <2> HIDE DEF w
  <2>1. w \in Seq(Char)
    BY DEF w
  <2> QED
    BY <1>1, <2>1
<1>3. p \notin T
  <2> SUFFICES ASSUME p \in T PROVE FALSE
    OBVIOUS
  <2>1. p[1] < p[1]
    OBVIOUS
  <2> QED
    BY <2>1
<1>4. IsFiniteSet(U) /\ Cardinality(U) = Cardinality(T) + 1
  BY <1>1, <1>3, FS_AddElement
<1>5. \A u \in U : u[1] \in Int
  BY <1>1
<1>6. ASSUME NEW u \in T
      PROVE  g[Cardinality(UpTo(U, u))] = SubSeq(s, u[1], u[2])
  <2> DEFINE A == UpTo(T, u)
             i == Cardinality(A)
  <2>1. UpTo(U, u) = A \cup {p}
    <3>1. p[1] < u[1] /\ u[1] \in Int
      BY <1>1
    <3>2. p[1] <= u[1]
      BY <3>1
    <3> QED
      BY <3>2
  <2>2. A \in SUBSET T /\ u \in A /\ p \notin A
    <3>1. u[1] <= u[1]
      BY <1>1
    <3> QED
      BY <1>3, <3>1
  <2> HIDE DEF A
  <2>3. IsFiniteSet(A) /\ i <= Cardinality(T)
    BY <1>1, <2>2, FS_Subset
  <2>4. i \in Nat /\ Cardinality(T) \in Nat /\ i # 0
    BY <1>1, <2>2, <2>3, FS_CardinalityType, FS_EmptySet
  <2>5. i \in 1 .. Len(f)
    BY <1>1, <2>3, <2>4
  <2>6. Cardinality(A \cup {p}) = i + 1
    BY <2>2, <2>3, FS_AddElement
  <2>7. g[i + 1] = f[i] /\ f[i] = SubSeq(s, u[1], u[2])
    <3>1. g[i + 1] = f[i]
      BY <1>2, <2>5
    <3> QED
      BY <1>1, <3>1 DEF A
  <2> QED
    BY <2>1, <2>6, <2>7
<1>7. g[Cardinality(UpTo(U, p))] = w
  <2>1. UpTo(U, p) = {p}
    <3>1. \A u \in T : ~(u[1] <= p[1])
      BY <1>1
    <3>2. p[1] <= p[1]
      OBVIOUS
    <3> QED
      BY <3>1, <3>2
  <2>2. Cardinality({p}) = 1
    BY FS_Singleton
  <2> QED
    BY <1>2, <2>1, <2>2
<1>8. \A u \in U : g[Cardinality(UpTo(U, u))] = SubSeq(s, u[1], u[2])
  BY <1>6, <1>7
<1>9. Len(g) = Cardinality(U)
  BY <1>1, <1>2, <1>4
<1> HIDE DEF g, U
<1>10. Lists(g, s, U)
  BY <1>8, <1>9 DEF Lists
<1>11. Names(g, s, U)
  BY <1>2, <1>4, <1>5, <1>10 DEF Names
<1> QED
  BY <1>11 DEF g, U

(* The words from k on, where k does not lie within one.                    *)
WordsOf(s) == Stretches(s, {Blank}, FALSE)

WordsBehind(s, k) == {u \in WordsOf(s) : u[1] >= k}

AtWord(s, k) == k = 1 \/ k = Len(s) + 1 \/ s[k] = Blank

(* What a word is, spelled out.                                             *)
LEMMA WordIs ==
  ASSUME NEW s \in Seq(Char), NEW u
  PROVE  u \in WordsOf(s) <=>
           /\ u = <<u[1], u[2]>> /\ u[1] \in 1 .. Len(s) /\ u[2] \in 1 .. Len(s) /\ u[1] <= u[2]
           /\ \A j \in u[1] .. u[2] : s[j] # Blank
           /\ u[1] > 1 => s[u[1] - 1] = Blank
           /\ u[2] < Len(s) => s[u[2] + 1] = Blank
<1>1. Len(s) \in Nat
  OBVIOUS
<1>2. ASSUME u \in WordsOf(s)
      PROVE  /\ u = <<u[1], u[2]>> /\ u[1] \in 1 .. Len(s) /\ u[2] \in 1 .. Len(s) /\ u[1] <= u[2]
             /\ \A j \in u[1] .. u[2] : s[j] # Blank
             /\ u[1] > 1 => s[u[1] - 1] = Blank
             /\ u[2] < Len(s) => s[u[2] + 1] = Blank
  <2>1. /\ u \in (1 .. Len(s) + 1) \X (0 .. Len(s))
        /\ u[1] <= u[2] + 1 /\ u[1] <= u[2]
        /\ \A j \in u[1] .. u[2] : s[j] \notin {Blank}
        /\ u[1] > 1 => s[u[1] - 1] \in {Blank}
        /\ u[2] < Len(s) => s[u[2] + 1] \in {Blank}
    BY <1>2 DEF WordsOf, Stretches
  <2>2. u = <<u[1], u[2]>> /\ u[1] \in 1 .. Len(s) + 1 /\ u[2] \in 0 .. Len(s)
    BY <2>1
  <2>3. u[1] \in 1 .. Len(s) /\ u[2] \in 1 .. Len(s)
    BY <1>1, <2>1, <2>2
  <2> QED
    BY <2>1, <2>2, <2>3
<1>3. ASSUME u = <<u[1], u[2]>>, u[1] \in 1 .. Len(s), u[2] \in 1 .. Len(s), u[1] <= u[2],
             \A j \in u[1] .. u[2] : s[j] # Blank,
             u[1] > 1 => s[u[1] - 1] = Blank,
             u[2] < Len(s) => s[u[2] + 1] = Blank
      PROVE  u \in WordsOf(s)
  <2>1. PICK i, j : i = u[1] /\ j = u[2]
    OBVIOUS
  <2>2. i \in 1 .. Len(s) + 1 /\ j \in 0 .. Len(s) /\ i <= j + 1 /\ i <= j
    BY <1>1, <1>3, <2>1
  <2>3. u \in (1 .. Len(s) + 1) \X (0 .. Len(s))
    BY <1>3, <2>1, <2>2
  <2> QED
    BY <1>3, <2>1, <2>2, <2>3 DEF WordsOf, Stretches
<1> QED
  BY <1>2, <1>3

(* They are the one that is found, and those behind it.                     *)
LEMMA NextWord ==
  ASSUME NEW s \in Seq(Char), NEW k \in 1 .. Len(s) + 1, AtWord(s, k)
  PROVE  IF WordAt(s, k) = Len(s) + 1 THEN WordsBehind(s, k) = {}
         ELSE WordsBehind(s, k)
                = WordsBehind(s, WordEnd(s, k)) \cup {<<WordAt(s, k), WordEnd(s, k) - 1>>}
<1>1. PICK b : b = WordAt(s, k)
  OBVIOUS
<1>2. PICK e : e = WordEnd(s, k)
  OBVIOUS
<1>3. Len(s) \in Nat /\ k \in Nat
  OBVIOUS
<1>4. /\ b \in k .. Len(s) + 1
      /\ \A j \in k .. b - 1 : s[j] = Blank
      /\ b # Len(s) + 1 =>
           /\ b \in 1 .. Len(s) /\ e \in b + 1 .. Len(s) + 1
           /\ \A j \in b .. e - 1 : s[j] # Blank
           /\ e <= Len(s) => s[e] = Blank
  BY <1>1, <1>2, WordFound
<1>5. ASSUME NEW u \in WordsBehind(s, k)
      PROVE  /\ u = <<u[1], u[2]>> /\ u[1] \in 1 .. Len(s) /\ u[2] \in 1 .. Len(s) /\ u[1] <= u[2]
             /\ \A j \in u[1] .. u[2] : s[j] # Blank
             /\ u[1] > 1 => s[u[1] - 1] = Blank
             /\ u[2] < Len(s) => s[u[2] + 1] = Blank
             /\ u[1] >= b
  <2>1. u \in WordsOf(s) /\ u[1] >= k
    BY DEF WordsBehind
  <2>2. /\ u = <<u[1], u[2]>> /\ u[1] \in 1 .. Len(s) /\ u[2] \in 1 .. Len(s) /\ u[1] <= u[2]
        /\ \A j \in u[1] .. u[2] : s[j] # Blank
        /\ u[1] > 1 => s[u[1] - 1] = Blank
        /\ u[2] < Len(s) => s[u[2] + 1] = Blank
    BY <2>1, WordIs
  <2>3. s[u[1]] # Blank
    <3>1. u[1] \in u[1] .. u[2]
      BY <1>3, <2>2
    <3> QED
      BY <2>2, <3>1
  <2>4. u[1] >= b
    <3> SUFFICES ASSUME u[1] < b PROVE FALSE
      BY <1>3, <1>4, <2>2
    <3>1. u[1] \in k .. b - 1
      BY <1>3, <1>4, <2>1, <2>2
    <3> QED
      BY <1>4, <2>3, <3>1
  <2> QED
    BY <2>2, <2>4
<1>6. CASE b = Len(s) + 1
  <2>1. \A u \in WordsBehind(s, k) : FALSE
    <3> SUFFICES ASSUME NEW u \in WordsBehind(s, k) PROVE FALSE
      OBVIOUS
    <3>1. u[1] \in 1 .. Len(s) /\ u[1] >= b
      BY <1>5
    <3> QED
      BY <1>3, <1>6, <3>1
  <2> QED
    BY <1>1, <1>6, <2>1
<1>7. CASE b # Len(s) + 1
  <2>1. /\ b \in 1 .. Len(s) /\ e \in b + 1 .. Len(s) + 1 /\ b \in Nat /\ e \in Nat
        /\ \A j \in b .. e - 1 : s[j] # Blank
        /\ e <= Len(s) => s[e] = Blank
    BY <1>3, <1>4, <1>7
  <2>2. <<b, e - 1>> \in WordsBehind(s, k)
    <3>1. b > 1 => s[b - 1] = Blank
      <4>1. CASE b = k
        <5>1. s[b] # Blank
          <6>1. b \in b .. e - 1
            BY <2>1
          <6> QED
            BY <2>1, <6>1
        <5> QED
          BY <1>3, <1>7, <2>1, <4>1, <5>1 DEF AtWord
      <4>2. CASE b # k
        <5>1. b - 1 \in k .. b - 1
          BY <1>3, <1>4, <2>1, <4>2
        <5> QED
          BY <1>4, <5>1
      <4> QED
        BY <4>1, <4>2
    <3>2. e - 1 \in 1 .. Len(s) /\ b <= e - 1 /\ (e - 1) + 1 = e /\ b >= k
      BY <1>3, <1>4, <2>1
    <3>3. PICK x : x = e - 1
      OBVIOUS
    <3>4. x < Len(s) => s[x + 1] = Blank
      BY <1>3, <2>1, <3>2, <3>3
    <3>5. PICK u : u = <<b, x>>
      OBVIOUS
    <3>6. /\ u[1] = b /\ u[2] = x /\ u = <<u[1], u[2]>>
      BY <3>5
    <3>7. u \in WordsOf(s)
      BY <2>1, <3>1, <3>2, <3>3, <3>4, <3>6, WordIs
    <3>8. u \in WordsBehind(s, k)
      BY <3>2, <3>6, <3>7 DEF WordsBehind
    <3> QED
      BY <3>3, <3>5, <3>8
  <2>3. WordsBehind(s, e) \subseteq WordsBehind(s, k)
    <3> SUFFICES ASSUME NEW u \in WordsOf(s), u[1] >= e
                 PROVE  u[1] >= k
      BY DEF WordsBehind
    <3>1. u[1] \in 1 .. Len(s)
      BY WordIs
    <3> QED
      BY <1>3, <1>4, <2>1, <3>1
  <2>4. ASSUME NEW u \in WordsBehind(s, k), u \notin WordsBehind(s, e)
        PROVE  u = <<b, e - 1>>
    <3>1. /\ u = <<u[1], u[2]>> /\ u[1] \in 1 .. Len(s) /\ u[2] \in 1 .. Len(s) /\ u[1] <= u[2]
          /\ \A j \in u[1] .. u[2] : s[j] # Blank
          /\ u[1] > 1 => s[u[1] - 1] = Blank
          /\ u[2] < Len(s) => s[u[2] + 1] = Blank
          /\ u[1] >= b
      BY <1>5
    <3>2. PICK i \in 1 .. Len(s), j \in 1 .. Len(s) : i = u[1] /\ j = u[2]
      BY <3>1
    <3>3. i < e
      <4>1. u \in WordsOf(s)
        BY DEF WordsBehind
      <4>2. ~(u[1] >= e)
        BY <2>4, <4>1 DEF WordsBehind
      <4> QED
        BY <2>1, <3>2, <4>2
    <3>4. i = b
      <4> SUFFICES ASSUME i # b PROVE FALSE
        OBVIOUS
      <4>1. i > 1 /\ i - 1 \in b .. e - 1
        BY <2>1, <3>1, <3>2, <3>3
      <4> QED
        BY <2>1, <3>1, <3>2, <4>1
    <3>5. ~(j > e - 1)
      <4> SUFFICES ASSUME j > e - 1 PROVE FALSE
        OBVIOUS
      <4>1. e \in i .. j /\ e <= Len(s)
        BY <1>3, <2>1, <3>2, <3>3
      <4> QED
        BY <2>1, <3>1, <3>2, <4>1
    <3>6. ~(j < e - 1)
      <4> SUFFICES ASSUME j < e - 1 PROVE FALSE
        OBVIOUS
      <4>1. j < Len(s) /\ j + 1 \in b .. e - 1
        BY <1>3, <2>1, <3>1, <3>2
      <4> QED
        BY <2>1, <3>1, <3>2, <4>1
    <3>7. j = e - 1
      BY <2>1, <3>5, <3>6
    <3> QED
      BY <3>1, <3>2, <3>4, <3>7
  <2>5. WordsBehind(s, k) = WordsBehind(s, e) \cup {<<b, e - 1>>}
    BY <2>2, <2>3, <2>4
  <2> QED
    BY <1>1, <1>2, <1>7, <2>5
<1> QED
  BY <1>6, <1>7

(* SplitString gives the words of any string.                               *)
LEMMA WordsListed ==
  ASSUME NEW s \in Seq(Char)
  PROVE  Lists(SplitString(s), s, Stretches(s, {Blank}, FALSE))
<1>1. PICK f : WordsFrom(s, f) /\ SplitString(s) = f[1]
  BY SplitStringFrom
<1> DEFINE M == Len(s) + 1
           Good(k) == AtWord(s, k) => Names(f[k], s, WordsBehind(s, k))
           Bad == {i \in 0 .. M - 1 : ~Good(M - i)}
<1>2. Len(s) \in Nat /\ M \in Nat /\ M - 1 \in Nat
  OBVIOUS
<1>3. ASSUME Bad # {} PROVE FALSE
  <2>1. Bad \in SUBSET Nat
    BY <1>2
  <2>2. PICK i \in Bad : \A j \in Bad : i <= j
    <3> HIDE DEF Bad
    <3> QED
      BY <1>3, <2>1, Least
  <2> DEFINE k == M - i
             b == WordAt(s, k)
             e == WordEnd(s, k)
  <2>3. i \in 0 .. M - 1 /\ ~Good(k) /\ k \in 1 .. M
    BY <1>2
  <2>4. \A j \in k + 1 .. M : Good(j)
    <3> SUFFICES ASSUME NEW j \in k + 1 .. M PROVE Good(j)
      OBVIOUS
    <3> DEFINE h == M - j
    <3>1. h \in 0 .. M - 1 /\ ~(i <= h) /\ M - h = j
      BY <1>2, <2>3
    <3>2. h \notin Bad
      <4> HIDE DEF Bad, h
      <4> QED
        BY <2>2, <3>1
    <3> HIDE DEF Good, h
    <3> QED
      BY <3>1, <3>2
  <2> HIDE DEF k
  <2>5. k \in 1 .. Len(s) + 1 /\ AtWord(s, k) /\ ~Names(f[k], s, WordsBehind(s, k))
    BY <2>3
  <2>6. CASE b = M
    <3>1. f[k] = <<>> /\ WordsBehind(s, k) = {}
      BY <1>1, <2>5, <2>6, NextWord DEF WordsFrom
    <3>2. IsFiniteSet({}) /\ Cardinality({}) = 0
      BY FS_EmptySet
    <3>3. Lists(<<>>, s, {})
      BY <3>2 DEF Lists
    <3>4. Names(<<>>, s, {})
      BY <3>2, <3>3 DEF Names
    <3> QED
      BY <2>5, <3>1, <3>4
  <2>7. CASE b # M
    <3>1. /\ b \in k .. M /\ b \in 1 .. Len(s) /\ e \in b + 1 .. Len(s) + 1
          /\ e <= Len(s) => s[e] = Blank
      BY <2>5, <2>7, WordFound
    <3>2. f[k] = <<SubSeq(s, b, e - 1)>> \o f[e]
      BY <1>1, <2>5, <2>7 DEF WordsFrom
    <3>3. WordsBehind(s, k) = WordsBehind(s, e) \cup {<<b, e - 1>>}
      BY <2>5, <2>7, NextWord
    <3> HIDE DEF b, e
    <3>4. e \in k + 1 .. M /\ b \in Nat /\ e \in Nat
      BY <1>2, <2>5, <3>1
    <3>5. AtWord(s, e)
      BY <1>2, <3>1, <3>4 DEF AtWord
    <3>6. Names(f[e], s, WordsBehind(s, e))
      BY <2>4, <3>4, <3>5
    <3>7. \A u \in WordsBehind(s, e) : b < u[1]
      <4> SUFFICES ASSUME NEW u \in WordsBehind(s, e) PROVE b < u[1]
        OBVIOUS
      <4>1. u[1] >= e /\ u[1] \in Int
        BY <3>6 DEF Names, WordsBehind
      <4> QED
        BY <3>1, <3>4, <4>1
    <3>8. SubSeq(s, b, e - 1) \in Seq(Char)
      <4>1. \A j \in b .. e - 1 : j \in 1 .. Len(s)
        BY <1>2, <3>1, <3>4
      <4>2. \A j \in b .. e - 1 : s[j] \in Char
        BY <4>1
      <4>3. b \in Int /\ e - 1 \in Int
        BY <3>4
      <4> QED
        BY <4>2, <4>3, SubSeqProperties
    <3>9. PICK p : p = <<b, e - 1>>
      OBVIOUS
    <3>10. p[1] = b /\ p[2] = e - 1 /\ p[1] \in Int
      BY <3>4, <3>9
    <3>11. Names(<<SubSeq(s, p[1], p[2])>> \o f[e], s, WordsBehind(s, e) \cup {p})
      <4>1. \A u \in WordsBehind(s, e) : p[1] < u[1]
        BY <3>7, <3>10
      <4>2. SubSeq(s, p[1], p[2]) \in Seq(Char)
        BY <3>8, <3>10
      <4> QED
        BY <3>6, <3>10, <4>1, <4>2, NameInFront
    <3>12. Names(f[k], s, WordsBehind(s, k))
      BY <3>2, <3>3, <3>9, <3>10, <3>11
    <3> QED
      BY <2>5, <3>12
  <2> QED
    BY <2>6, <2>7
<1>4. Names(f[1], s, WordsBehind(s, 1))
  <2>1. M - 1 \in 0 .. M - 1 /\ M - (M - 1) = 1
    BY <1>2
  <2>2. Bad = {}
    BY <1>3
  <2>3. Good(1)
    <3> HIDE DEF Good, M
    <3> QED
      BY <2>1, <2>2
  <2> QED
    BY <2>3 DEF AtWord
<1>5. WordsBehind(s, 1) = WordsOf(s)
  <2>1. \A u \in WordsOf(s) : u[1] >= 1
    <3> SUFFICES ASSUME NEW u \in WordsOf(s) PROVE u[1] >= 1
      OBVIOUS
    <3>1. u[1] \in 1 .. Len(s)
      BY WordIs
    <3> QED
      BY <3>1
  <2> QED
    BY <2>1 DEF WordsBehind
<1> QED
  BY <1>1, <1>4, <1>5 DEF Names, WordsOf

-----------------------------------------------------------------------------
(* What is known of a line at each place.                                   *)
LineInv ==
  /\ line \in Seq(Char)
  /\ place \in {"commands", "words", "undefined", "done"}
  /\ place # "commands" =>
       /\ commands = GetLastCommands(line)
       /\ place = "undefined" => LeavesLine(line)
  /\ place = "done" => words = [n \in 1 .. Len(commands) |-> SplitString(commands[n])]

(* These facts always hold.                                                 *)
LEMMA LineInvHolds == LineSpec => []LineInv
<1>1. LineInit => LineInv
  <2> SUFFICES ASSUME LineInit PROVE LineInv
    OBVIOUS
  <2>1. PICK n \in 0 .. MaxLine : line \in [1 .. n -> Char]
    BY DEF LineInit
  <2>2. n \in Nat
    BY LineAssumption DEF LineAssumption
  <2>3. line \in Seq(Char)
    BY <2>1, <2>2
  <2> QED
    BY <2>3 DEF LineInit, LineInv
<1>2. LineInv /\ [LineNext]_lineVars => LineInv'
  <2> SUFFICES ASSUME LineInv, [LineNext]_lineVars
               PROVE  LineInv'
    OBVIOUS
  <2>1. CASE Commands
    BY <2>1 DEF LineInv, Commands
  <2>2. CASE Words
    BY <2>2 DEF LineInv, Words
  <2>3. CASE UNCHANGED lineVars
    BY <2>3 DEF LineInv, lineVars
  <2> QED
    BY <2>1, <2>2, <2>3 DEF LineNext
<1> QED
  BY <1>1, <1>2, PTL DEF LineSpec

(* Lines of any length: what the user has written is what is executed, as   *)
(* far as the line is one that the shell can run (LineAsWritten).           *)
THEOREM LinesAsWritten == LineSpec => []LineAsWritten
<1>1. LineInv => CommandsAsWritten
  <2> SUFFICES ASSUME LineInv, place # "commands", ~EmptyCommand(line)
               PROVE  /\ place # "undefined"
                      /\ Lists(commands, line, Stretches(line, {Bar}, TRUE))
    BY DEF CommandsAsWritten
  <2>1. line \in Seq(Char) /\ commands = GetLastCommands(line)
    BY DEF LineInv
  <2>2. ~LeavesLine(line)
    BY <2>1, StaysInLine
  <2>3. Lists(GetLastCommands(line), line, Stretches(line, {Bar}, TRUE))
    BY <2>1, CommandsListed
  <2> QED
    BY <2>1, <2>2, <2>3 DEF LineInv
<1>2. LineInv => WordsAsWritten
  <2> SUFFICES ASSUME LineInv, place = "done", NEW n \in 1 .. Len(commands)
               PROVE  Lists(words[n], commands[n], Stretches(commands[n], {Blank}, FALSE))
    BY DEF WordsAsWritten
  <2>1. line \in Seq(Char) /\ commands = GetLastCommands(line)
    BY DEF LineInv
  <2>2. words[n] = SplitString(commands[n])
    BY DEF LineInv
  <2>3. commands[n] \in Seq(Char)
    <3>1. commands \in Seq(Seq(Char))
      BY <2>1, CommandsAreStrings
    <3> QED
      BY <3>1
  <2> QED
    BY <2>2, <2>3, WordsListed
<1> QED
  BY <1>1, <1>2, LineInvHolds, PTL DEF LineAsWritten
=============================================================================
