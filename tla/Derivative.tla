----------------------------- MODULE Derivative -----------------------------
(***************************************************************************)
(* derivative() of 2_1/derivative.cpp: a line is cut in front of its signs *)
(* and at its end; get() reads a coefficient and an exponent from each     *)
(* piece, put() adds them up in a map, and bd_to_string() writes the       *)
(* derivative of what the map holds.  One step is one piece.               *)
(*                                                                         *)
(* Integers have the width of the constant IntMax, and wrap.               *)
(***************************************************************************)
EXTENDS Integers, Sequences, SequencesExt, FiniteSetsExt

CONSTANTS
  IntMax,  \* the largest int
  Other,   \* characters that mean nothing to derivative()
  Lines,   \* lines, whatever they say
  Terms    \* lists of terms, as a user may mean to write them

ASSUME DerivativeAssumption == IntMax \in Nat \ {0}

Blank == " "
NewLine == "\n"
Sign == {"+", "-"}
Digits == <<"0", "1", "2", "3", "4", "5", "6", "7", "8", "9">>
Numeric == ToSet(Digits)
Alpha == {"x", "y"}
Char == Numeric \cup Alpha \cup Sign \cup {Blank, NewLine, "*", "^"} \cup Other

ASSUME LinesAssumption == \A s \in Lines : s \in Seq(Char)

(* What is read at the end of a piece: no character. *)
End == "end"

NoTerms == <<>>
NoKoefs == [e \in {} |-> 0]

VARIABLES
  line,     \* polynomial, with the '\n' appended
  written,  \* the terms that the user has written, or NoTerms
  istart,   \* where the piece begins that is read next
  i,        \* from where on the next sign is looked for
  db,       \* from an exponent to its coefficient
  output,   \* the string returned
  pc

vars == <<line, written, istart, i, db, output, pc>>

TheInts == -IntMax - 1 .. IntMax

Wrap(n) == ((n + IntMax + 1) % (2 * (IntMax + 1))) - (IntMax + 1)

-----------------------------------------------------------------------------
CharAt(s, p) == IF p <= Len(s) THEN s[p] ELSE End

(* The first position from p on that holds a character of C, or the end.   *)
Find(s, p, C) ==
  CHOOSE q \in p .. Len(s) + 1 :
    /\ \A j \in p .. q - 1 : s[j] \notin C
    /\ q <= Len(s) => s[q] \in C

(* The first position from p on that does not hold a character of C.       *)
Skip(s, p, C) ==
  CHOOSE q \in p .. Len(s) + 1 :
    /\ \A j \in p .. q - 1 : s[j] \in C
    /\ q <= Len(s) => s[q] \notin C

DigitValue(c) == (CHOOSE k \in 1 .. 10 : Digits[k] = c) - 1

(* The loop of stoi over the digits. *)
ValueOf(digits) ==
  LET result[k \in 0 .. Len(digits)] ==
        IF k = 0 THEN 0 ELSE Wrap(10 * result[k - 1] + DigitValue(digits[k]))
  IN result[Len(digits)]

stoiSignAlone(s, p) ==
  LET sign  == Skip(s, p, {Blank})
      begin == Skip(s, IF CharAt(s, sign) \in Sign THEN sign + 1 ELSE sign, {Blank})
      end   == Skip(s, begin, Numeric)
      size  == ValueOf(SubSeq(s, begin, end - 1))
  IN [number |-> end > begin, pos |-> end,
      value  |-> IF CharAt(s, sign) = "-" THEN Wrap(-size) ELSE size]

(* stoi: blanks, a sign, blanks, digits.  A sign with something else behind *)
(* it counts as 1 or -1, but not as a number.                              *)
stoi(s, p) ==
  LET sign  == Skip(s, p, {Blank})
      begin == Skip(s, IF CharAt(s, sign) \in Sign THEN sign + 1 ELSE sign, {Blank})
      end   == Skip(s, begin, Numeric)
      size  == IF end > begin THEN ValueOf(SubSeq(s, begin, end - 1))
               ELSE IF CharAt(s, sign) \in Sign /\ begin <= Len(s) THEN 1 ELSE 0
  IN [number |-> end > begin, pos |-> end,
      value  |-> IF CharAt(s, sign) = "-" THEN Wrap(-size) ELSE size]

OnlyBlanksUnchecked(s, p) == p >= 1

(* remain only space *)
OnlyBlanks(s, p) == Skip(s, p, {Blank, NewLine}) > Len(s)

(* get: a coefficient, '*', a variable, '^' and an exponent, of which all    *)
(* but a coefficient or a variable may be missing, and nothing else.       *)
get(s) ==
  LET koef  == stoi(s, 1)
      star  == Skip(s, koef.pos, {Blank})
      var   == Skip(s, IF koef.number /\ CharAt(s, star) = "*" THEN star + 1 ELSE koef.pos, {Blank})
      after == Skip(s, var, Alpha)
      power == Skip(s, after, {Blank})
      exp   == stoi(s, IF CharAt(s, power) = "^" THEN power + 1 ELSE power)
      exist_var == after > var
  IN [ok   |-> /\ OnlyBlanks(s, IF exist_var THEN exp.pos ELSE var)
               /\ IF exist_var THEN CharAt(s, power) = "^" => exp.number ELSE koef.number,
      koef |-> IF exist_var /\ ~koef.number /\ koef.value = 0 THEN 1 ELSE koef.value,
      exp  |-> IF ~exist_var THEN 0 ELSE IF exp.number THEN exp.value ELSE 1]

put(d, term) ==
  [e \in DOMAIN d \cup {term.exp} |->
     IF e # term.exp THEN d[e]
     ELSE IF e \in DOMAIN d THEN Wrap(d[e] + term.koef) ELSE term.koef]

-----------------------------------------------------------------------------
(* What << writes for an int. *)
Decimal(n) ==
  LET of[m \in 0 .. IntMax + 1] ==
        IF m < 10 THEN <<Digits[m + 1]>> ELSE Append(of[m \div 10], Digits[(m % 10) + 1])
  IN IF n < 0 THEN <<"-">> \o of[-n] ELSE of[n]

If(condition, s) == IF condition THEN s ELSE <<>>

MonomialOneOmitted(d, e, is_first_element) ==
  LET new_exp  == Wrap(e - 1)
      new_koef == Wrap(e * d[e])
      putKoeff == new_koef \notin {1, -1}
      putX     == new_exp >= 1
  IN If(new_koef >= 0 /\ ~is_first_element, <<"+">>) \o If(putKoeff, Decimal(new_koef))
       \o If(putKoeff /\ putX, <<"*">>) \o If(putX, <<"x">>)
       \o If(new_exp > 1, <<"^">> \o Decimal(new_exp))

(* A term of the derivative: a coefficient of 1 or -1 is left out in front  *)
(* of x, an exponent of 1 behind it.                                       *)
Monomial(d, e, is_first_element) ==
  LET new_exp  == Wrap(e - 1)
      new_koef == Wrap(e * d[e])
      putKoeff == new_koef \notin {1, -1}
      putX     == new_exp >= 1
  IN If(new_koef >= 0 /\ ~is_first_element, <<"+">>) \o If(putKoeff \/ ~putX, Decimal(new_koef))
       \o If(putKoeff /\ putX, <<"*">>) \o If(putX, <<"x">>)
       \o If(new_exp > 1, <<"^">> \o Decimal(new_exp))

(* The loop of bd_to_string: from the largest exponent on, without those    *)
(* whose term has the derivative 0.                                        *)
Descending(E) ==
  CHOOSE q \in [1 .. Cardinality(E) -> E] :
    \A j, k \in 1 .. Cardinality(E) : j < k => q[j] > q[k]

bd_to_string(d) ==
  LET exps == Descending({e \in DOMAIN d : e # 0 /\ d[e] # 0})
  IN FlattenSeq([k \in 1 .. Len(exps) |-> Monomial(d, exps[k], k = 1)])

-----------------------------------------------------------------------------
(* The reference for a line: a list of terms, each with the parts that the  *)
(* user writes (None if it does not), with or without blanks between them. *)
None == -1

Numbers == {None} \cup 0 .. IntMax + 1

(* One term at least, each with a coefficient or the variable, and all but  *)
(* the first with a sign.                                                  *)
ASSUME TermsAssumption ==
  \A terms \in Terms :
    /\ terms # NoTerms
    /\ terms \in Seq([sign : Sign \cup {""}, koef : Numbers, var : BOOLEAN, exp : Numbers, gap : BOOLEAN])
    /\ \A k \in 1 .. Len(terms) :
         (terms[k].var \/ terms[k].koef # None) /\ (k > 1 => terms[k].sign # "")

Spelling(term) ==
  LET gap == If(term.gap, <<Blank>>) IN
  If(term.sign # "", <<term.sign>> \o gap)
    \o If(term.koef # None, Decimal(term.koef) \o gap)
    \o If(term.koef # None /\ term.var, <<"*">> \o gap)
    \o If(term.var, <<"x">> \o gap)
    \o If(term.var /\ term.exp # None, <<"^">> \o gap \o Decimal(term.exp) \o gap)

Spell(terms) == FlattenSeq([k \in 1 .. Len(terms) |-> Spelling(terms[k])])

KoefOf(term) ==
  (IF term.sign = "-" THEN -1 ELSE 1) * (IF term.koef = None THEN 1 ELSE term.koef)

ExpOf(term) == IF ~term.var THEN 0 ELSE IF term.exp = None THEN 1 ELSE term.exp

(* The terms with exponent e, added up. *)
Sum(terms, e) ==
  LET upto[k \in 0 .. Len(terms)] ==
        IF k = 0 THEN 0
        ELSE upto[k - 1] + (IF ExpOf(terms[k]) = e THEN KoefOf(terms[k]) ELSE 0)
  IN upto[Len(terms)]

-----------------------------------------------------------------------------
(* Leading blanks and a first sign do not cut the line. *)
Init ==
  /\ \/ written = NoTerms /\ \E s \in Lines : line = s \o <<NewLine>>
     \/ written \in Terms /\ line = Spell(written) \o <<NewLine>>
  /\ istart = Skip(line, 1, {Blank})
  /\ i = IF line[istart] \in Sign THEN istart + 1 ELSE istart
  /\ db = NoKoefs
  /\ output = <<>>
  /\ pc = "split"

(* Where the next piece ends. *)
Cut == Find(line, i, Sign \cup {NewLine})

Piece == SubSeq(line, istart, Cut - 1)

PutTerm ==
  /\ pc = "split" /\ Cut <= Len(line)
  /\ get(Piece).ok
  /\ db' = put(db, get(Piece))
  /\ istart' = Cut /\ i' = Cut + 1
  /\ UNCHANGED <<line, written, output, pc>>

(* What is no term makes the answer empty. *)
Reject ==
  /\ pc = "split" /\ Cut <= Len(line)
  /\ ~get(Piece).ok
  /\ pc' = "rejected"
  /\ UNCHANGED <<line, written, istart, i, db, output>>

Finish ==
  /\ pc = "split" /\ Cut > Len(line)
  /\ output' = bd_to_string(db)
  /\ pc' = "done"
  /\ UNCHANGED <<line, written, istart, i, db>>

Next == PutTerm \/ Reject \/ Finish

Spec == Init /\ [][Next]_vars

-----------------------------------------------------------------------------
(* A line made of terms, with blanks or without, with coefficients, '*' and *)
(* exponents written or left out, is accepted, and the map holds the sum of *)
(* the coefficients of each exponent.                                       *)
ReadAsWritten ==
  LET exps == {ExpOf(written[k]) : k \in 1 .. Len(written)} IN
  written # NoTerms =>
    /\ pc # "rejected"
    /\ pc = "done" /\ (\A e \in exps : e <= IntMax /\ Sum(written, e) \in TheInts)
         => db = [e \in exps |-> Sum(written, e)]

(* What derivative() reads from a string, after so many pieces.             *)
ReadBack(s, pieces) ==
  LET read[n \in 0 .. pieces] ==
        IF n = 0 THEN [istart |-> 1, ok |-> TRUE, db |-> NoKoefs]
        ELSE LET before == read[n - 1]
                 cut    == Find(s, before.istart + 1, Sign)
                 term   == get(SubSeq(s, before.istart, cut - 1))
             IN IF before.istart > Len(s) THEN before
                ELSE [istart |-> cut, ok |-> before.ok /\ term.ok, db |-> put(before.db, term)]
  IN read[pieces]

(* Whatever line has been accepted, the output is again a polynomial, and   *)
(* what is read from it is the derivative of what was read from the line,   *)
(* if the products of coefficients and exponents are ints.                  *)
WritesDerivative ==
  LET exps == {e \in DOMAIN db : e # 0 /\ db[e] # 0} IN
  pc = "done" /\ (\A e \in exps : e > 0 /\ e * db[e] \in TheInts) =>
    IF exps = {} THEN output = <<>>
    ELSE ReadBack(output, Len(output)) =
           [istart |-> Len(output) + 1, ok |-> TRUE,
            db |-> [e \in {d - 1 : d \in exps} |-> (e + 1) * db[e + 1]]]

(* The tests "+9*^2 ", "*x^2 ", "x*^2 ", "+- ", "-+x ", "x^-5" and "x^x" of  *)
(* main, for every line: a sign stands before a digit or the variable, '*'  *)
(* behind a number, '^' behind the variable and before a digit, or else the *)
(* answer is empty.                                                         *)
Malformed(s) ==
  \E p \in 1 .. Len(s) :
    LET next == CharAt(s, Skip(s, p + 1, {Blank}))
        back == {q \in 1 .. p - 1 : s[q] # Blank}
        Prev(C) == back # {} /\ s[Max(back)] \in C
    IN \/ s[p] \in Sign /\ next \notin Numeric \cup Alpha
       \/ s[p] = "*" /\ ~Prev(Numeric)
       \/ s[p] = "^" /\ (~Prev(Alpha) \/ next \notin Numeric)

MalformedRejected == pc = "done" => ~Malformed(line)
=============================================================================
