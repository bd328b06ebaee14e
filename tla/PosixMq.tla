------------------------------ MODULE PosixMq ------------------------------
(***************************************************************************)
(* POSIX_mq.cpp, run several times, also at the same time.  A run opens    *)
(* the queue /test.mq, or creates it, empties message.txt, sends one       *)
(* message and then receives messages for ever and writes them to the      *)
(* file.  Nothing ends it but a signal, and the queue outlives it, with    *)
(* what is in it.                                                          *)
(*                                                                         *)
(* If another program has created the queue before, its messages may be    *)
(* too small for the one that is sent, or larger than what is received.    *)
(***************************************************************************)
EXTENDS Integers, Sequences, FiniteSets

CONSTANTS
  Runs,    \* how often the program is run
  MaxMsg   \* attr.mq_maxmsg, 10 in the code

ASSUME MqAssumption == Runs \in Nat \ {0} /\ MaxMsg \in Nat \ {0}

Run == 1 .. Runs

(* Queues in the order of their creation; 0 is one that was there before.   *)
Queue == 0 .. Runs
NoQueue == -1
NoMessage == 0

VARIABLES
  foreign,   \* the messages of queue 0: "none" (no such queue), "small", "large"
  name,      \* the queue that /test.mq names
  last,      \* the queue created last
  at,        \* of each run: the call it is at
  mqd,       \* of each run: the queue it has opened
  messages,  \* of each queue: the runs whose messages are in it
  hand,      \* of each run: the message it has received and not written
  killed     \* the runs that were ended by a signal

mqVars == <<foreign, name, last, at, mqd, messages, hand, killed>>

MqInit ==
  /\ foreign \in {"none", "small", "large"}
  /\ name = IF foreign = "none" THEN NoQueue ELSE 0
  /\ last = 0
  /\ at = [r \in Run |-> "mq_open"]
  /\ mqd = [r \in Run |-> NoQueue]
  /\ messages = [q \in Queue |-> <<>>]
  /\ hand = [r \in Run |-> NoMessage]
  /\ killed = {}

-----------------------------------------------------------------------------
Small(q) == q = 0 /\ foreign = "small"
Large(q) == q = 0 /\ foreign = "large"

goes(r, label) == at' = [at EXCEPT ![r] = label]

mq_open(r) ==
  /\ at[r] = "mq_open" /\ name # NoQueue
  /\ mqd' = [mqd EXCEPT ![r] = name]
  /\ goes(r, "open")
  /\ UNCHANGED <<foreign, name, last, messages, hand, killed>>

mq_openCreates(r) ==
  /\ at[r] = "mq_open" /\ name = NoQueue
  /\ last' = last + 1 /\ name' = last + 1
  /\ mqd' = [mqd EXCEPT ![r] = last + 1]
  /\ goes(r, "open")
  /\ UNCHANGED <<foreign, messages, hand, killed>>

(* The file is opened, and emptied. *)
open(r) ==
  /\ at[r] = "open"
  /\ goes(r, "mq_send")
  /\ UNCHANGED <<foreign, name, last, mqd, messages, hand, killed>>

(* The queue or the file cannot be opened: the run ends. *)
OpenFails(r) ==
  /\ at[r] \in {"mq_open", "open"}
  /\ goes(r, "ended")
  /\ UNCHANGED <<foreign, name, last, mqd, messages, hand, killed>>

(* The run waits as long as the queue is full. *)
mq_send(r) ==
  /\ at[r] = "mq_send" /\ ~Small(mqd[r])
  /\ Len(messages[mqd[r]]) < MaxMsg
  /\ messages' = [messages EXCEPT ![mqd[r]] = Append(@, r)]
  /\ goes(r, "mq_receive")
  /\ UNCHANGED <<foreign, name, last, mqd, hand, killed>>

mq_sendFails(r) ==
  /\ at[r] = "mq_send" /\ Small(mqd[r])
  /\ goes(r, "ended")
  /\ UNCHANGED <<foreign, name, last, mqd, messages, hand, killed>>

(* The oldest message: all have the same priority. *)
mq_receive(r) ==
  /\ at[r] = "mq_receive" /\ ~Large(mqd[r])
  /\ messages[mqd[r]] # <<>>
  /\ hand' = [hand EXCEPT ![r] = Head(messages[mqd[r]])]
  /\ messages' = [messages EXCEPT ![mqd[r]] = Tail(@)]
  /\ goes(r, "write")
  /\ UNCHANGED <<foreign, name, last, mqd, killed>>

(* The loop is left only so: "recive", and the queue is closed. *)
mq_receiveFails(r) ==
  /\ at[r] = "mq_receive" /\ Large(mqd[r])
  /\ goes(r, "mq_unlink")
  /\ UNCHANGED <<foreign, name, last, mqd, messages, hand, killed>>

writeOnce(r) ==
  /\ at[r] = "write"
  /\ hand' = [hand EXCEPT ![r] = NoMessage]
  /\ goes(r, "mq_unlink")
  /\ UNCHANGED <<foreign, name, last, mqd, messages, killed>>

write(r) ==
  /\ at[r] = "write"
  /\ hand' = [hand EXCEPT ![r] = NoMessage]
  /\ goes(r, "mq_receive")
  /\ UNCHANGED <<foreign, name, last, mqd, messages, killed>>

(* Whatever queue has the name by now loses it. *)
mq_unlink(r) ==
  /\ at[r] = "mq_unlink"
  /\ name' = NoQueue
  /\ goes(r, "ended")
  /\ UNCHANGED <<foreign, last, mqd, messages, hand, killed>>

(* SIGINT, say: the only end of a run that has got as far as its loop, and *)
(* what it has in hand is written nowhere.                                 *)
KillRun(r) ==
  /\ at[r] # "ended"
  /\ goes(r, "ended")
  /\ killed' = killed \cup {r}
  /\ UNCHANGED <<foreign, name, last, mqd, messages, hand>>

Step(r) ==
  \/ mq_open(r) \/ mq_openCreates(r) \/ open(r) \/ mq_send(r) \/ mq_sendFails(r)
  \/ mq_receive(r) \/ mq_receiveFails(r) \/ write(r) \/ mq_unlink(r)

MqNext == \E r \in Run : Step(r) \/ OpenFails(r) \/ KillRun(r)

MqSpec == MqInit /\ [][MqNext]_mqVars

(* The system runs every run that does not wait; files can be opened.       *)
MqFairSpec == MqSpec /\ \A r \in Run : WF_mqVars(Step(r))

-----------------------------------------------------------------------------
Receives(r, q) == mqd[r] = q /\ at[r] \in {"mq_receive", "write"}

(* The runs that have opened another program's queue and have left it again *)
(* by themselves: for its messages, or as they could not open the file.     *)
Failed == {r \in Run : mqd[r] = 0 /\ at[r] = "ended" /\ r \notin killed}

(* All runs share one queue, whoever of them created it and however many    *)
(* have come and gone.  Only where the messages of another program are too  *)
(* large, do runs unlink what has the name by then, which may be the queue  *)
(* of other runs; even so a new queue is made only after one more run has   *)
(* failed on the queue of the other program.                                *)
OneQueue ==
  \A r, s \in Run :
    NoQueue < mqd[r] /\ mqd[r] < mqd[s] => foreign = "large" /\ mqd[s] <= Cardinality(Failed)

(* A run that has come to its loop takes what is in the queue, the messages *)
(* of runs that were killed included, until the queue is empty: unless it   *)
(* is killed, or the messages may be larger than its buffer.                *)
QueueDrained ==
  \A r \in Run, q \in Queue :
    Receives(r, q) ~> (messages[q] = <<>> \/ Large(q) \/ r \in killed)

(* A run waits for ever to send its message only if the queue is full of    *)
(* messages of runs that were killed, and nobody is left who receives.      *)
StuckBehindKilled ==
  \A r \in Run :
    \/ <>[](at[r] # "mq_send")
    \/ <>[](\E q \in Queue :
             /\ mqd[r] = q
             /\ Len(messages[q]) = MaxMsg
             /\ \A s \in Run : ~Receives(s, q)
             /\ \A i \in 1 .. MaxMsg : messages[q][i] \in killed \/ Large(q))
=============================================================================
