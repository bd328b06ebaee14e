---------------------------- MODULE CommandLine ----------------------------
(***************************************************************************)
(* How bshell.cpp takes a line apart, in place: GetLastCommands ends each  *)
(* command at its bar, SplitString each word at the blanks behind it.  A   *)
(* line is a sequence of characters, of which it matters whether they are  *)
(* a bar, a blank or anything else; position Len(line) + 1 holds its '\0'. *)
(***************************************************************************)
EXTENDS Integers, Sequences, FiniteSets

CONSTANT MaxLine   \* length of the lines

ASSUME LineAssumption == MaxLine \in Nat

Bar == "|"
Blank == " "     \* ' ', '\t' or '\n'
Letter == "a"
Char == {Bar, Blank, Letter}

VARIABLES
  line,      \* what std::getline has read
  commands,  \* where argv points to after GetLastCommands, as strings
  words,     \* of each command, what SplitString makes of it
  place

lineVars == <<line, commands, words, place>>

-----------------------------------------------------------------------------
BarsFoundNotLast(s) ==
  LET from[k \in 1 .. Len(s) + 2] ==
        IF k > Len(s) THEN <<>>
        ELSE IF s[k] = Bar /\ k + 1 < Len(s) THEN <<k>> \o from[k + 2]
        ELSE from[k + 1]
  IN from[1]

(* The positions at which the loop of GetLastCommands finds a bar.  From a *)
(* bar it goes on two characters further on: the one behind is not looked  *)
(* at.                                                                     *)
BarsFound(s) ==
  LET from[k \in 1 .. Len(s) + 2] ==
        IF k > Len(s) THEN <<>>
        ELSE IF s[k] = Bar THEN <<k>> \o from[k + 2]
        ELSE from[k + 1]
  IN from[1]

(* From a bar that is the last character the loop goes on behind the '\0'. *)
LeavesLine(s) == \E n \in 1 .. Len(BarsFound(s)) : BarsFound(s)[n] = Len(s)

(* The commands: what is between a bar found and the next one, or the end. *)
GetLastCommands(s) ==
  LET cut == <<0>> \o BarsFound(s) \o <<Len(s) + 1>>
  IN [n \in 1 .. Len(cut) - 1 |-> SubSeq(s, cut[n] + 1, cut[n + 1] - 1)]

(* Where the characters of C that stand at k, if any, end.                  *)
RowEnd(s, k, C) ==
  CHOOSE e \in k .. Len(s) + 1 :
    /\ \A j \in k .. e - 1 : s[j] \in C
    /\ e <= Len(s) => s[e] \notin C

SplitStringKeepsLast(s) ==
  LET from[k \in 1 .. Len(s) + 1] ==
        LET b == RowEnd(s, k, {Blank})
            e == RowEnd(s, b, Char \ {Blank})
        IN IF k = Len(s) + 1 THEN <<>> ELSE <<SubSeq(s, b, e - 1)>> \o from[e]
  IN from[1]

(* The words, as argv for execvp: blanks are skipped, then a word is one   *)
(* argument, unless it is the end of the command that has been reached.    *)
SplitString(s) ==
  LET from[k \in 1 .. Len(s) + 1] ==
        LET b == RowEnd(s, k, {Blank})
            e == RowEnd(s, b, Char \ {Blank})
        IN IF b = Len(s) + 1 THEN <<>> ELSE <<SubSeq(s, b, e - 1)>> \o from[e]
  IN from[1]

-----------------------------------------------------------------------------
LineInit ==
  /\ line \in UNION {[1 .. n -> Char] : n \in 0 .. MaxLine}
  /\ commands = <<>> /\ words = <<>>
  /\ place = "commands"

(* main: the line is taken apart. *)
Commands ==
  /\ place = "commands"
  /\ commands' = GetLastCommands(line)
  /\ place' = IF LeavesLine(line) THEN "undefined" ELSE "words"
  /\ UNCHANGED <<line, words>>

(* Each process of ForkBack takes its own command apart. *)
Words ==
  /\ place = "words"
  /\ words' = [n \in 1 .. Len(commands) |-> SplitString(commands[n])]
  /\ place' = "done"
  /\ UNCHANGED <<line, commands>>

LineNext == Commands \/ Words

LineSpec == LineInit /\ [][LineNext]_lineVars

-----------------------------------------------------------------------------
(* The reference: the maximal stretches of s without a character of Sep, of *)
(* which the empty ones count if `empty'.                                   *)
Stretches(s, Sep, empty) ==
  {st \in (1 .. Len(s) + 1) \X (0 .. Len(s)) :
     /\ st[1] <= st[2] + 1 /\ (~empty => st[1] <= st[2])
     /\ \A k \in st[1] .. st[2] : s[k] \notin Sep
     /\ st[1] > 1 => s[st[1] - 1] \in Sep
     /\ st[2] < Len(s) => s[st[2] + 1] \in Sep}

(* seq lists the stretches, from left to right. *)
Lists(seq, s, stretches) ==
  /\ Len(seq) = Cardinality(stretches)
  /\ \A st \in stretches :
       seq[Cardinality({u \in stretches : u[1] <= st[1]})] = SubSeq(s, st[1], st[2])

(* A bar with nothing behind it, or another bar. *)
EmptyCommand(s) == \E k \in 1 .. Len(s) : s[k] = Bar /\ (k = Len(s) \/ s[k + 1] = Bar)

(* A line without an empty command behind a bar becomes the commands that   *)
(* are written in it, in order, and no character behind its end is read.    *)
CommandsAsWritten ==
  place # "commands" /\ ~EmptyCommand(line) =>
    /\ place # "undefined"
    /\ Lists(commands, line, Stretches(line, {Bar}, TRUE))

(* Whatever the line, a command that gets as far as execvp has its words as *)
(* arguments, and no empty one, with blanks before, between and behind them.*)
WordsAsWritten ==
  place = "done" =>
    \A n \in 1 .. Len(commands) :
      Lists(words[n], commands[n], Stretches(commands[n], {Blank}, FALSE))

(* What the user has written is what is executed, as far as the line is one *)
(* that the shell can run.                                                  *)
LineAsWritten == CommandsAsWritten /\ WordsAsWritten
=============================================================================
