-------------------------- MODULE DerivativeProofs --------------------------
(***************************************************************************)
(* What derivative() does with any line, any list of terms, any alphabet   *)
(* and any width of the integers.                                          *)
(*                                                                         *)
(* MalformedIsRejected: a piece that get accepts is well-formed at every   *)
(* place, so all that has been cut off so far is (CutInv).                 *)
(*                                                                         *)
(* IsReadAsWritten: a spelling is laid out (Laid) such that get finds      *)
(* exactly its parts, and no sign stands in it but in front.  After k      *)
(* pieces the map holds the exponents of the first k terms, and for each a *)
(* number congruent to the sum (HasRead): both wrap, so they are equal as  *)
(* soon as the sum is an int.                                              *)
(*                                                                         *)
(* IsDerivative: the map holds ints (MapInv), what is written for one of   *)
(* its exponents is the spelling of a term, and the pieces of the output   *)
(* are read back as these terms (ReadState).                               *)
(*                                                                         *)
(* The functions of Derivative that are recursive exist by a recursion     *)
(* over a set of numbers (RecursionExists), and induction runs over such   *)
(* a set too (UpTo).                                                       *)
(***************************************************************************)
EXTENDS Derivative, SequenceTheorems, FiniteSetTheorems, WellFoundedInduction, TLAPS

(* Less than, as a relation that the library has facts about.               *)
LEMMA LessIsWellFounded ==
  \E R : IsWellFoundedOn(R, Nat) /\ \A x, y \in Nat : y < x => <<y, x>> \in R
<1> DEFINE R == OpToRel(<, Nat)
<1>1. \A x, y \in Nat : y < x => <<y, x>> \in R
  BY DEF OpToRel
<1>2. IsWellFoundedOn(R, Nat)
  BY NatLessThanWellFounded
<1> HIDE DEF R
<1> QED
  BY <1>1, <1>2

(* A set of natural numbers has a least element.                            *)
LEMMA Least ==
  ASSUME NEW T \in SUBSET Nat, T # {}
  PROVE  \E x \in T : \A y \in T : x <= y
<1>1. PICK R : /\ IsWellFoundedOn(R, Nat)
               /\ \A x, y \in Nat : y < x => <<y, x>> \in R
  BY LessIsWellFounded
<1>2. \E x \in T : \A y \in T : ~ (<<y, x>> \in R)
  BY <1>1, WFMin
<1>3. PICK x \in T : \A y \in T : ~ (<<y, x>> \in R)
  BY <1>2
<1>4. \A y \in T : ~ (y < x)
  BY <1>1, <1>3, Zenon
<1> QED
  BY <1>4

(* Induction, for a set of numbers: what holds at the first and goes on     *)
(* from each to the next holds up to the last.                              *)
LEMMA UpTo ==
  ASSUME NEW N \in Nat, NEW T, 0 \in T, \A k \in 0 .. N - 1 : k \in T => k + 1 \in T
  PROVE  \A k \in 0 .. N : k \in T
<1> DEFINE Bad == {k \in 0 .. N : k \notin T}
<1> SUFFICES ASSUME Bad # {} PROVE FALSE
  OBVIOUS
<1>1. Bad \in SUBSET Nat
  OBVIOUS
<1>2. PICK k \in Bad : \A j \in Bad : k <= j
  <2> HIDE DEF Bad
  <2> QED
    BY <1>1, Least
<1>3. k \in 0 .. N /\ k \notin T /\ k # 0
  OBVIOUS
<1>4. k - 1 \in 0 .. N - 1 /\ ~(k <= k - 1)
  BY <1>3
<1>5. k - 1 \in T
  BY <1>2, <1>4
<1> QED
  BY <1>3, <1>4, <1>5

-----------------------------------------------------------------------------
(* A function on lo .. N whose value at k is b[k] for k in B, and otherwise *)
(* what g makes of its value at an earlier place, prev[k].                  *)
Recursive(f, lo, N, B, b, g, prev) ==
  f = [k \in lo .. N |-> IF k \in B THEN b[k] ELSE g[<<f[prev[k]], k>>]]

Backwards(lo, N, B, prev) == \A k \in lo .. N : k \notin B => prev[k] \in lo .. k - 1

(* There is such a function.                                                *)
LEMMA RecursionExists ==
  ASSUME NEW lo \in Nat, NEW N \in Nat, NEW V, NEW B, NEW b, NEW g, NEW prev,
         \A k \in lo .. N : b[k] \in V,
         \A v \in V, k \in lo .. N : g[<<v, k>>] \in V,
         Backwards(lo, N, B, prev)
  PROVE  \E f \in [lo .. N -> V] : Recursive(f, lo, N, B, b, g, prev)
<1> DEFINE R(f, k) == IF k \in B THEN b[k] ELSE g[<<f[prev[k]], k>>]
           P(n) == \E f \in [lo .. n -> V] : f = [k \in lo .. n |-> R(f, k)]
           T == {n \in 0 .. N : P(n)}
<1>1. ASSUME NEW n \in -1 .. N, NEW f \in [lo .. n -> V], NEW k \in lo .. N, k <= n + 1
      PROVE  R(f, k) \in V
  <2>1. CASE k \in B
    BY <2>1
  <2>2. CASE k \notin B
    <3>1. prev[k] \in lo .. k - 1
      BY <2>2 DEF Backwards
    <3>2. prev[k] \in lo .. n
      BY <1>1, <3>1
    <3>3. f[prev[k]] \in V
      BY <3>2
    <3> QED
      BY <2>2, <3>3
  <2> QED
    BY <2>1, <2>2
<1>2. ASSUME NEW n \in -1 .. N - 1, P(n) PROVE P(n + 1)
  <2>1. PICK f \in [lo .. n -> V] : f = [k \in lo .. n |-> R(f, k)]
    BY <1>2
  <2> DEFINE g2 == [k \in lo .. n + 1 |-> IF k <= n THEN f[k] ELSE R(f, k)]
  <2>2. \A k \in lo .. n + 1 : k \in lo .. N /\ k <= n + 1 /\ (~(k <= n) => k = n + 1)
                               /\ (k <= n => k \in lo .. n)
    OBVIOUS
  <2>3. \A k \in lo .. n + 1 : R(f, k) \in V
    <3> HIDE DEF R
    <3> QED
      BY <1>1, <2>2
  <2>4. g2 \in [lo .. n + 1 -> V]
    <3> HIDE DEF R
    <3> QED
      BY <2>2, <2>3
  <2>5. ASSUME NEW k \in lo .. n + 1 PROVE R(g2, k) = R(f, k)
    <3>1. CASE k \in B
      BY <3>1
    <3>2. CASE k \notin B
      <4>1. prev[k] \in lo .. k - 1
        BY <2>2, <3>2 DEF Backwards
      <4>2. prev[k] \in lo .. n /\ prev[k] \in lo .. n + 1 /\ prev[k] <= n
        BY <4>1
      <4>3. g2[prev[k]] = f[prev[k]]
        <5> HIDE DEF R
        <5> QED
          BY <4>2
      <4> HIDE DEF g2
      <4> QED
        BY <3>2, <4>3
    <3> QED
      BY <3>1, <3>2
  <2>6. \A k \in lo .. n + 1 : g2[k] = R(f, k)
    <3> HIDE DEF R
    <3>1. \A k \in lo .. n : f[k] = R(f, k)
      BY <2>1
    <3> QED
      BY <2>2, <3>1
  <2>7. g2 = [k \in lo .. n + 1 |-> g2[k]]
    OBVIOUS
  <2> HIDE DEF g2, R
  <2>8. g2 = [k \in lo .. n + 1 |-> R(g2, k)]
    BY <2>5, <2>6, <2>7
  <2> QED
    BY <2>4, <2>8
<1>3. P(-1)
  <2> DEFINE f == [k \in {} |-> k]
  <2>1. lo .. -1 = {}
    OBVIOUS
  <2>2. f \in [lo .. -1 -> V] /\ f = [k \in lo .. -1 |-> R(f, k)]
    BY <2>1
  <2> QED
    BY <2>2
<1> HIDE DEF P
<1>4. P(0)
  <2>1. -1 \in -1 .. N - 1 /\ -1 + 1 = 0
    OBVIOUS
  <2> QED
    BY <1>2, <1>3, <2>1
<1>5. \A n \in 0 .. N : n \in T
  <2>1. 0 \in T /\ \A k \in 0 .. N - 1 : k \in T => k + 1 \in T
    BY <1>2, <1>4
  <2> HIDE DEF T
  <2> QED
    BY <2>1, UpTo
<1>6. P(N)
  BY <1>5
<1> QED
  BY <1>6 DEF P, Recursive

-----------------------------------------------------------------------------
(* Where a row of characters of C that begins at p ends, and where the next *)
(* one begins.                                                              *)
Row(s, p, C, q) ==
  /\ q \in p .. Len(s) + 1
  /\ \A j \in p .. q - 1 : s[j] \in C
  /\ q <= Len(s) => s[q] \notin C

Gap(s, p, C, q) ==
  /\ q \in p .. Len(s) + 1
  /\ \A j \in p .. q - 1 : s[j] \notin C
  /\ q <= Len(s) => s[q] \in C

(* The first place with a property, or the end.                             *)
LEMMA FirstPlace ==
  ASSUME NEW n \in Nat, NEW p \in 1 .. n + 1, NEW T
  PROVE  \E q \in p .. n + 1 : (\A j \in p .. q - 1 : j \notin T) /\ (q <= n => q \in T)
<1> DEFINE U == {j \in p .. n + 1 : j = n + 1 \/ j \in T}
<1>1. U \in SUBSET Nat /\ n + 1 \in U
  OBVIOUS
<1>2. PICK q \in U : \A j \in U : q <= j
  <2> HIDE DEF U
  <2> QED
    BY <1>1, Least
<1>3. ASSUME NEW j \in p .. q - 1 PROVE j \notin T
  <2>1. j \in p .. n + 1 /\ ~(q <= j)
    OBVIOUS
  <2>2. j \notin U
    <3> HIDE DEF U
    <3> QED
      BY <1>2, <2>1
  <2> QED
    BY <2>1, <2>2
<1> QED
  BY <1>3

(* Skip finds the end of the row.                                           *)
LEMMA SkipRow ==
  ASSUME NEW s, Len(s) \in Nat, NEW p \in 1 .. Len(s) + 1, NEW C
  PROVE  Row(s, p, C, Skip(s, p, C))
<1>1. PICK n \in Nat : n = Len(s)
  OBVIOUS
<1> DEFINE T == {j \in 1 .. n : s[j] \notin C}
           Ends(q) == (\A j \in p .. q - 1 : s[j] \in C) /\ (q <= n => s[q] \notin C)
<1>2. PICK q \in p .. n + 1 : (\A j \in p .. q - 1 : j \notin T) /\ (q <= n => q \in T)
  <2> HIDE DEF T
  <2> QED
    BY <1>1, FirstPlace
<1>3. \A j \in p .. q - 1 : j \in 1 .. n
  BY <1>1
<1>4. Ends(q)
  BY <1>2, <1>3
<1>5. Skip(s, p, C) = CHOOSE x \in p .. n + 1 : Ends(x)
  BY <1>1 DEF Skip
<1> HIDE DEF Ends
<1>6. Skip(s, p, C) \in p .. n + 1 /\ Ends(Skip(s, p, C))
  BY <1>4, <1>5
<1> QED
  BY <1>1, <1>6 DEF Ends, Row

(* Find finds the end of the gap.                                           *)
LEMMA FindGap ==
  ASSUME NEW s, Len(s) \in Nat, NEW p \in 1 .. Len(s) + 1, NEW C
  PROVE  Gap(s, p, C, Find(s, p, C))
<1>1. PICK n \in Nat : n = Len(s)
  OBVIOUS
<1> DEFINE T == {j \in 1 .. n : s[j] \in C}
           Ends(q) == (\A j \in p .. q - 1 : s[j] \notin C) /\ (q <= n => s[q] \in C)
<1>2. PICK q \in p .. n + 1 : (\A j \in p .. q - 1 : j \notin T) /\ (q <= n => q \in T)
  <2> HIDE DEF T
  <2> QED
    BY <1>1, FirstPlace
<1>3. \A j \in p .. q - 1 : j \in 1 .. n
  BY <1>1
<1>4. Ends(q)
  BY <1>2, <1>3
<1>5. Find(s, p, C) = CHOOSE x \in p .. n + 1 : Ends(x)
  BY <1>1 DEF Find
<1> HIDE DEF Ends
<1>6. Find(s, p, C) \in p .. n + 1 /\ Ends(Find(s, p, C))
  BY <1>4, <1>5
<1> QED
  BY <1>1, <1>6 DEF Ends, Gap

(* There is only one such place.                                            *)
LEMMA RowIs ==
  ASSUME NEW s, Len(s) \in Nat, NEW p \in 1 .. Len(s) + 1, NEW C, NEW q, Row(s, p, C, q)
  PROVE  Skip(s, p, C) = q
<1>1. PICK x : x = Skip(s, p, C)
  OBVIOUS
<1>2. Row(s, p, C, x)
  BY <1>1, SkipRow
<1>3. x \in p .. Len(s) + 1 /\ q \in p .. Len(s) + 1
  BY <1>2 DEF Row
<1>4. ~(x < q)
  BY <1>2, <1>3 DEF Row
<1>5. ~(q < x)
  BY <1>2, <1>3 DEF Row
<1> QED
  BY <1>1, <1>3, <1>4, <1>5

(* And one end of a gap.                                                    *)
LEMMA GapIs ==
  ASSUME NEW s, Len(s) \in Nat, NEW p \in 1 .. Len(s) + 1, NEW C, NEW q, Gap(s, p, C, q)
  PROVE  Find(s, p, C) = q
<1>1. PICK x : x = Find(s, p, C)
  OBVIOUS
<1>2. Gap(s, p, C, x)
  BY <1>1, FindGap
<1>3. x \in p .. Len(s) + 1 /\ q \in p .. Len(s) + 1
  BY <1>2 DEF Gap
<1>4. ~(x < q)
  BY <1>2, <1>3 DEF Gap
<1>5. ~(q < x)
  BY <1>2, <1>3 DEF Gap
<1> QED
  BY <1>1, <1>3, <1>4, <1>5

-----------------------------------------------------------------------------
(* The digits, as a set.                                                    *)
LEMMA NumericIs == Numeric = {"0", "1", "2", "3", "4", "5", "6", "7", "8", "9"}
<1>1. DOMAIN Digits = 1 .. 10
  BY DEF Digits
<1>2. \A k \in 1 .. 10 : k = 1 \/ k = 2 \/ k = 3 \/ k = 4 \/ k = 5 \/ k = 6 \/ k = 7 \/ k = 8 \/ k = 9 \/ k = 10
  OBVIOUS
<1> QED
  BY <1>1, <1>2 DEF Numeric, ToSet, Digits

(* No two kinds of characters have one in common.                           *)
LEMMA Kinds ==
  /\ Blank \notin Numeric /\ Blank \notin Alpha /\ Blank \notin Sign
  /\ NewLine \notin Numeric /\ NewLine \notin Alpha /\ NewLine \notin Sign /\ NewLine # Blank
  /\ End \notin Numeric /\ End \notin Alpha /\ End \notin Sign /\ End # "*" /\ End # "^"
  /\ \A c \in Sign : c \notin Numeric /\ c \notin Alpha /\ c # Blank /\ c # NewLine /\ c # "*" /\ c # "^"
  /\ \A c \in {"*", "^"} : c \notin Numeric /\ c \notin Alpha /\ c \notin Sign /\ c # Blank /\ c # NewLine
  /\ \A c \in Numeric : c \notin Alpha
BY NumericIs DEF Blank, NewLine, Alpha, Sign, End

(* Where to go on, if there may be a character of C at p.                   *)
Behind(s, p, C) == IF CharAt(s, p) \in C THEN p + 1 ELSE p

(* Where that is.                                                           *)
LEMMA BehindIs ==
  ASSUME NEW s, Len(s) \in Nat, NEW p \in 1 .. Len(s) + 1, NEW C, End \notin C
  PROVE  /\ Behind(s, p, C) \in p .. Len(s) + 1 /\ Behind(s, p, C) <= p + 1
         /\ Behind(s, p, C) # p => p \in 1 .. Len(s) /\ s[p] \in C /\ Behind(s, p, C) = p + 1
         /\ p <= Len(s) /\ s[p] \in C => Behind(s, p, C) = p + 1
BY DEF Behind, CharAt

(* What stoi finds from p on: blanks, a sign, blanks, digits.               *)
StoiAt(s, p, sign, begin, end) ==
  /\ Row(s, p, {Blank}, sign)
  /\ Row(s, Behind(s, sign, Sign), {Blank}, begin)
  /\ Row(s, begin, Numeric, end)

(* What stoi returns, if it finds these.                                    *)
StoiResult(s, sign, begin, end) ==
  LET size == IF end > begin THEN ValueOf(SubSeq(s, begin, end - 1))
              ELSE IF CharAt(s, sign) \in Sign /\ begin <= Len(s) THEN 1 ELSE 0
  IN [number |-> end > begin, pos |-> end,
      value  |-> IF CharAt(s, sign) = "-" THEN Wrap(-size) ELSE size]

(* stoi does find them.                                                     *)
LEMMA StoiParts ==
  ASSUME NEW s, Len(s) \in Nat, NEW p \in 1 .. Len(s) + 1
  PROVE  \E sign, begin, end : StoiAt(s, p, sign, begin, end)
                               /\ stoi(s, p) = StoiResult(s, sign, begin, end)
<1>1. PICK sign : sign = Skip(s, p, {Blank})
  OBVIOUS
<1>2. PICK begin : begin = Skip(s, Behind(s, sign, Sign), {Blank})
  OBVIOUS
<1>3. PICK end : end = Skip(s, begin, Numeric)
  OBVIOUS
<1>4. Row(s, p, {Blank}, sign) /\ sign \in 1 .. Len(s) + 1
  <2>1. Row(s, p, {Blank}, sign)
    BY <1>1, SkipRow
  <2> QED
    BY <2>1 DEF Row
<1>5. Behind(s, sign, Sign) \in 1 .. Len(s) + 1
  <2>1. Behind(s, sign, Sign) \in sign .. Len(s) + 1
    BY <1>4, BehindIs, Kinds
  <2> QED
    BY <1>4, <2>1
<1>6. Row(s, Behind(s, sign, Sign), {Blank}, begin) /\ begin \in 1 .. Len(s) + 1
  <2>1. Row(s, Behind(s, sign, Sign), {Blank}, begin)
    BY <1>2, <1>5, SkipRow
  <2> QED
    BY <1>5, <2>1 DEF Row
<1>7. Row(s, begin, Numeric, end)
  BY <1>3, <1>6, SkipRow, SMTT(30)
<1>8. stoi(s, p) = StoiResult(s, sign, begin, end)
  BY <1>1, <1>2, <1>3 DEF stoi, StoiResult, Behind
<1> QED
  BY <1>4, <1>6, <1>7, <1>8 DEF StoiAt

(* What get finds in s: a coefficient, a star, a variable, '^' and an       *)
(* exponent.                                                                *)
GetAt(s, sign, begin, end, star, var, after, power, sign2, begin2, end2) ==
  /\ StoiAt(s, 1, sign, begin, end)
  /\ Row(s, end, {Blank}, star)
  /\ Row(s, IF end > begin /\ CharAt(s, star) = "*" THEN star + 1 ELSE end, {Blank}, var)
  /\ Row(s, var, Alpha, after)
  /\ Row(s, after, {Blank}, power)
  /\ StoiAt(s, Behind(s, power, {"^"}), sign2, begin2, end2)

(* What get returns, if it finds these.                                     *)
GetResult(s, sign, begin, end, var, after, power, sign2, begin2, end2) ==
  LET koef == StoiResult(s, sign, begin, end)
      exp  == StoiResult(s, sign2, begin2, end2)
      exist_var == after > var
  IN [ok   |-> /\ OnlyBlanks(s, IF exist_var THEN exp.pos ELSE var)
               /\ IF exist_var THEN CharAt(s, power) = "^" => exp.number ELSE koef.number,
      koef |-> IF exist_var /\ ~koef.number /\ koef.value = 0 THEN 1 ELSE koef.value,
      exp  |-> IF ~exist_var THEN 0 ELSE IF exp.number THEN exp.value ELSE 1]

(* They follow one another, within the string.                              *)
LEMMA StoiWithin ==
  ASSUME NEW s, Len(s) \in Nat, NEW p \in 1 .. Len(s) + 1, NEW sign, NEW begin, NEW end,
         StoiAt(s, p, sign, begin, end)
  PROVE  /\ sign \in p .. Len(s) + 1 /\ begin \in sign .. Len(s) + 1 /\ end \in begin .. Len(s) + 1
         /\ Behind(s, sign, Sign) \in sign .. begin
<1>1. sign \in p .. Len(s) + 1 /\ sign \in 1 .. Len(s) + 1
  BY DEF StoiAt, Row
<1>2. Behind(s, sign, Sign) \in sign .. Len(s) + 1
  BY <1>1, BehindIs, Kinds
<1>3. begin \in Behind(s, sign, Sign) .. Len(s) + 1 /\ end \in begin .. Len(s) + 1
  BY DEF StoiAt, Row
<1> QED
  BY <1>1, <1>2, <1>3

(* get does find its places.                                                *)
LEMMA GetParts ==
  ASSUME NEW s, Len(s) \in Nat
  PROVE  \E sign, begin, end, star, var, after, power, sign2, begin2, end2 :
           /\ GetAt(s, sign, begin, end, star, var, after, power, sign2, begin2, end2)
           /\ get(s) = GetResult(s, sign, begin, end, var, after, power, sign2, begin2, end2)
<1>1. PICK sign, begin, end : StoiAt(s, 1, sign, begin, end) /\ stoi(s, 1) = StoiResult(s, sign, begin, end)
  <2>1. 1 \in 1 .. Len(s) + 1
    OBVIOUS
  <2> QED
    BY <2>1, StoiParts
<1>2. PICK koef : koef = stoi(s, 1)
  OBVIOUS
<1>3. end \in 1 .. Len(s) + 1 /\ koef.pos = end /\ koef.number = (end > begin)
  <2>1. 1 \in 1 .. Len(s) + 1
    OBVIOUS
  <2>2. sign \in 1 .. Len(s) + 1 /\ begin \in sign .. Len(s) + 1 /\ end \in begin .. Len(s) + 1
    BY <1>1, <2>1, StoiWithin
  <2> QED
    BY <1>1, <1>2, <2>2 DEF StoiResult
<1>4. PICK star : star = Skip(s, end, {Blank})
  OBVIOUS
<1>5. Row(s, end, {Blank}, star) /\ star \in 1 .. Len(s) + 1
  <2>1. Row(s, end, {Blank}, star)
    BY <1>3, <1>4, SkipRow
  <2> QED
    BY <1>3, <2>1 DEF Row
<1>6. PICK p : p = IF end > begin /\ CharAt(s, star) = "*" THEN star + 1 ELSE end
  OBVIOUS
<1>7. p \in 1 .. Len(s) + 1
  <2>1. CharAt(s, star) = "*" => star <= Len(s)
    BY Kinds DEF CharAt
  <2> QED
    BY <1>3, <1>5, <1>6, <2>1
<1>8. PICK var : var = Skip(s, p, {Blank})
  OBVIOUS
<1>9. Row(s, p, {Blank}, var) /\ var \in 1 .. Len(s) + 1
  <2>1. Row(s, p, {Blank}, var)
    BY <1>7, <1>8, SkipRow
  <2> QED
    BY <1>7, <2>1 DEF Row
<1>10. PICK after : after = Skip(s, var, Alpha)
  OBVIOUS
<1>11. Row(s, var, Alpha, after) /\ after \in 1 .. Len(s) + 1
  <2>1. Row(s, var, Alpha, after)
    BY <1>9, <1>10, SkipRow
  <2> QED
    BY <1>9, <2>1 DEF Row
<1>12. PICK power : power = Skip(s, after, {Blank})
  OBVIOUS
<1>13. Row(s, after, {Blank}, power) /\ power \in 1 .. Len(s) + 1
  <2>1. Row(s, after, {Blank}, power)
    BY <1>11, <1>12, SkipRow
  <2> QED
    BY <1>11, <2>1 DEF Row
<1>14. PICK p2 : p2 = Behind(s, power, {"^"})
  OBVIOUS
<1>15. p2 \in 1 .. Len(s) + 1 /\ p2 = IF CharAt(s, power) = "^" THEN power + 1 ELSE power
  <2>1. p2 \in power .. Len(s) + 1
    <3>1. End \notin {"^"}
      BY Kinds
    <3> QED
      BY <1>13, <1>14, <3>1, BehindIs
  <2> QED
    BY <1>13, <1>14, <2>1 DEF Behind
<1>16. PICK sign2, begin2, end2 : StoiAt(s, p2, sign2, begin2, end2)
                                  /\ stoi(s, p2) = StoiResult(s, sign2, begin2, end2)
  BY <1>15, StoiParts
<1>17. PICK exp : exp = stoi(s, p2)
  OBVIOUS
<1>18. GetAt(s, sign, begin, end, star, var, after, power, sign2, begin2, end2)
  BY <1>1, <1>5, <1>6, <1>9, <1>11, <1>13, <1>14, <1>16, SMTT(30) DEF GetAt
<1>19. get(s) =
         [ok   |-> /\ OnlyBlanks(s, IF after > var THEN exp.pos ELSE var)
                   /\ IF after > var THEN CharAt(s, power) = "^" => exp.number ELSE koef.number,
          koef |-> IF after > var /\ ~koef.number /\ koef.value = 0 THEN 1 ELSE koef.value,
          exp  |-> IF ~(after > var) THEN 0 ELSE IF exp.number THEN exp.value ELSE 1]
  <2>1. star = Skip(s, koef.pos, {Blank})
    BY <1>3, <1>4
  <2>2. p = IF koef.number /\ CharAt(s, star) = "*" THEN star + 1 ELSE koef.pos
    BY <1>3, <1>6
  <2>3. exp = stoi(s, IF CharAt(s, power) = "^" THEN power + 1 ELSE power)
    BY <1>15, <1>17
  <2> QED
    BY <1>2, <2>1, <2>2, <1>8, <1>10, <1>12, <2>3 DEF get
<1>20. koef = StoiResult(s, sign, begin, end) /\ exp = StoiResult(s, sign2, begin2, end2)
  BY <1>1, <1>2, <1>16, <1>17
<1>21. get(s) = GetResult(s, sign, begin, end, var, after, power, sign2, begin2, end2)
  BY <1>19, <1>20 DEF GetResult
<1> QED
  BY <1>18, <1>21

(* The places are in this order.                                            *)
LEMMA GetWithin ==
  ASSUME NEW s, Len(s) \in Nat, NEW sign, NEW begin, NEW end, NEW star, NEW var,
         NEW after, NEW power, NEW sign2, NEW begin2, NEW end2,
         GetAt(s, sign, begin, end, star, var, after, power, sign2, begin2, end2)
  PROVE  /\ sign \in 1 .. Len(s) + 1 /\ Behind(s, sign, Sign) \in sign .. Len(s) + 1
         /\ begin \in sign .. Len(s) + 1 /\ end \in begin .. Len(s) + 1
         /\ star \in end .. Len(s) + 1 /\ var \in end .. Len(s) + 1 /\ after \in var .. Len(s) + 1
         /\ power \in after .. Len(s) + 1 /\ Behind(s, power, {"^"}) \in power .. Len(s) + 1
         /\ sign2 \in Behind(s, power, {"^"}) .. Len(s) + 1
         /\ Behind(s, sign2, Sign) \in sign2 .. Len(s) + 1
         /\ begin2 \in sign2 .. Len(s) + 1 /\ end2 \in begin2 .. Len(s) + 1
<1>1. /\ sign \in 1 .. Len(s) + 1 /\ Behind(s, sign, Sign) \in sign .. Len(s) + 1
      /\ begin \in sign .. Len(s) + 1 /\ end \in begin .. Len(s) + 1
  <2>1. StoiAt(s, 1, sign, begin, end) /\ 1 \in 1 .. Len(s) + 1
    BY DEF GetAt
  <2>2. /\ sign \in 1 .. Len(s) + 1 /\ begin \in sign .. Len(s) + 1 /\ end \in begin .. Len(s) + 1
        /\ Behind(s, sign, Sign) \in sign .. begin
    BY <2>1, StoiWithin
  <2> QED
    BY <2>2
<1>2. /\ star \in end .. Len(s) + 1 /\ var \in end .. Len(s) + 1 /\ after \in var .. Len(s) + 1
      /\ power \in after .. Len(s) + 1
  <2>1. star \in end .. Len(s) + 1
    BY DEF GetAt, Row
  <2>2. var \in (IF end > begin /\ CharAt(s, star) = "*" THEN star + 1 ELSE end) .. Len(s) + 1
    BY DEF GetAt, Row
  <2>3. after \in var .. Len(s) + 1 /\ power \in after .. Len(s) + 1
    BY DEF GetAt, Row
  <2> QED
    BY <1>1, <2>1, <2>2, <2>3
<1>3. power \in 1 .. Len(s) + 1
  BY <1>1, <1>2
<1>4. Behind(s, power, {"^"}) \in power .. Len(s) + 1
  <2>1. End \notin {"^"}
    BY Kinds
  <2> QED
    BY <1>3, <2>1, BehindIs
<1>5. PICK p2 : p2 = Behind(s, power, {"^"})
  OBVIOUS
<1>6. p2 \in 1 .. Len(s) + 1 /\ StoiAt(s, p2, sign2, begin2, end2)
  BY <1>3, <1>4, <1>5 DEF GetAt
<1>7. /\ sign2 \in p2 .. Len(s) + 1 /\ begin2 \in sign2 .. Len(s) + 1 /\ end2 \in begin2 .. Len(s) + 1
      /\ Behind(s, sign2, Sign) \in sign2 .. begin2
  BY <1>6, StoiWithin
<1>8. Behind(s, sign2, Sign) \in sign2 .. Len(s) + 1
  BY <1>6, <1>7
<1> QED
  BY <1>1, <1>2, <1>4, <1>5, <1>7, <1>8

(* What remains is blank.                                                   *)
LEMMA OnlyBlanksAre ==
  ASSUME NEW s, Len(s) \in Nat, NEW p \in 1 .. Len(s) + 1
  PROVE  OnlyBlanks(s, p) <=> \A j \in p .. Len(s) : s[j] \in {Blank, NewLine}
<1>1. PICK q : q = Skip(s, p, {Blank, NewLine})
  OBVIOUS
<1>2. Row(s, p, {Blank, NewLine}, q)
  BY <1>1, SkipRow
<1>3. q \in p .. Len(s) + 1 /\ (q \in 1 .. Len(s) \/ q = Len(s) + 1)
  BY <1>2 DEF Row
<1>4. q > Len(s) => \A j \in p .. Len(s) : s[j] \in {Blank, NewLine}
  BY <1>2, <1>3 DEF Row
<1>5. ~(q > Len(s)) => q \in p .. Len(s) /\ s[q] \notin {Blank, NewLine}
  BY <1>2, <1>3 DEF Row
<1> QED
  BY <1>1, <1>4, <1>5 DEF OnlyBlanks

(* What stands on the places that stoi has gone over.                       *)
LEMMA StoiCharacters ==
  ASSUME NEW s, Len(s) \in Nat, NEW p \in 1 .. Len(s) + 1, NEW sign, NEW begin, NEW end,
         StoiAt(s, p, sign, begin, end), NEW j \in p .. end - 1
  PROVE  s[j] = Blank \/ s[j] \in Numeric \/ (j = sign /\ s[j] \in Sign)
<1>1. /\ sign \in p .. Len(s) + 1 /\ begin \in sign .. Len(s) + 1 /\ end \in begin .. Len(s) + 1
  BY StoiWithin
<1>2. Behind(s, sign, Sign) = sign \/ (s[sign] \in Sign /\ Behind(s, sign, Sign) = sign + 1)
  <2>1. sign \in 1 .. Len(s) + 1
    BY <1>1
  <2> QED
    BY <2>1, BehindIs, Kinds
<1>3. CASE j < sign
  <2>1. j \in p .. sign - 1
    BY <1>1, <1>3
  <2> QED
    BY <2>1 DEF StoiAt, Row
<1>4. CASE j >= sign /\ j < begin
  <2>1. j \in Behind(s, sign, Sign) .. begin - 1 => s[j] = Blank
    BY DEF StoiAt, Row
  <2>2. j = sign \/ j \in sign + 1 .. begin - 1
    BY <1>1, <1>4
  <2>3. j \in sign .. begin - 1
    BY <1>1, <1>4
  <2> QED
    BY <1>2, <2>1, <2>2, <2>3
<1>5. CASE j >= begin
  <2>1. j \in begin .. end - 1
    BY <1>1, <1>5
  <2> QED
    BY <2>1 DEF StoiAt, Row
<1> QED
  BY <1>1, <1>3, <1>4, <1>5

-----------------------------------------------------------------------------
(* What Malformed asks of a place.                                          *)
FollowedBy(s, p, C) ==
  \E q \in p + 1 .. Len(s) : s[q] \in C /\ \A j \in p + 1 .. q - 1 : s[j] = Blank

PrecededBy(s, p, C) ==
  \E q \in 1 .. p - 1 : s[q] \in C /\ \A j \in q + 1 .. p - 1 : s[j] = Blank

(* What a place has to be so as not to be malformed.                        *)
WellFormedAt(s, p) ==
  /\ s[p] \in Sign => FollowedBy(s, p, Numeric \cup Alpha)
  /\ s[p] = "*" => PrecededBy(s, p, Numeric)
  /\ s[p] = "^" => PrecededBy(s, p, Alpha) /\ FollowedBy(s, p, Numeric)

(* What a piece looks like: signs stand only in front.                      *)
NoSignBehind(s) == \A j \in 2 .. Len(s) : s[j] \notin Sign

(* Where the characters stand that are not digits, letters or blanks.       *)
LEMMA GetCharacters ==
  ASSUME NEW s, Len(s) \in Nat, NEW sign, NEW begin, NEW end, NEW star, NEW var,
         NEW after, NEW power, NEW sign2, NEW begin2, NEW end2,
         GetAt(s, sign, begin, end, star, var, after, power, sign2, begin2, end2),
         GetResult(s, sign, begin, end, var, after, power, sign2, begin2, end2).ok,
         NEW p \in 1 .. Len(s)
  PROVE  \/ s[p] \in {Blank, NewLine} \cup Numeric \cup Alpha
         \/ p = sign /\ s[p] \in Sign
         \/ p = star /\ s[p] = "*" /\ end > begin
         \/ p = power /\ s[p] = "^" /\ after > var
         \/ p = sign2 /\ s[p] \in Sign /\ after > var
<1> DEFINE p2 == Behind(s, power, {"^"})
<1>1. /\ sign \in 1 .. Len(s) + 1
      /\ begin \in sign .. Len(s) + 1 /\ end \in begin .. Len(s) + 1
      /\ star \in end .. Len(s) + 1 /\ var \in end .. Len(s) + 1 /\ after \in var .. Len(s) + 1
      /\ power \in after .. Len(s) + 1 /\ p2 \in power .. Len(s) + 1
      /\ sign2 \in p2 .. Len(s) + 1
      /\ begin2 \in sign2 .. Len(s) + 1 /\ end2 \in begin2 .. Len(s) + 1
  BY GetWithin
<1>2. OnlyBlanks(s, IF after > var THEN end2 ELSE var)
  BY DEF GetResult, StoiResult
<1>3. p2 \in 1 .. Len(s) + 1 /\ power \in 1 .. Len(s) + 1
  BY <1>1
<1>4. CASE p < end
  <2>1. StoiAt(s, 1, sign, begin, end) /\ 1 \in 1 .. Len(s) + 1 /\ p \in 1 .. end - 1
    BY <1>1, <1>4 DEF GetAt
  <2> QED
    BY <2>1, StoiCharacters
<1>5. CASE p >= end /\ p < var
  <2>1. PICK x : x = IF end > begin /\ CharAt(s, star) = "*" THEN star + 1 ELSE end
    OBVIOUS
  <2>2. Row(s, x, {Blank}, var) /\ Row(s, end, {Blank}, star)
    BY <2>1 DEF GetAt
  <2>3. CASE p >= x
    <3>1. p \in x .. var - 1
      BY <1>1, <1>5, <2>1, <2>3
    <3> QED
      BY <2>2, <3>1 DEF Row
  <2>4. CASE p < x
    <3>1. end > begin /\ CharAt(s, star) = "*" /\ x = star + 1
      BY <1>1, <1>5, <2>1, <2>4
    <3>2. p = star \/ p \in end .. star - 1
      BY <1>1, <1>5, <2>4, <3>1
    <3>3. p \in end .. star - 1 => s[p] = Blank
      BY <2>2 DEF Row
    <3>4. p = star => s[p] = "*"
      BY <3>1 DEF CharAt
    <3> QED
      BY <3>1, <3>2, <3>3, <3>4
  <2> QED
    BY <1>1, <2>1, <2>3, <2>4
<1>6. CASE p >= var /\ p < after
  <2>1. p \in var .. after - 1
    BY <1>1, <1>6
  <2> QED
    BY <2>1 DEF GetAt, Row
<1>7. CASE after > var /\ p >= after /\ p < p2
  <2>1. Row(s, after, {Blank}, power)
    BY DEF GetAt
  <2>2. p \in after .. power - 1 => s[p] = Blank
    BY <2>1 DEF Row
  <2>3. p2 = power \/ (s[power] = "^" /\ p2 = power + 1)
    <3>1. End \notin {"^"}
      BY Kinds
    <3>2. p2 # power => s[power] \in {"^"} /\ p2 = power + 1
      BY <1>3, <3>1, BehindIs
    <3> QED
      BY <3>2
  <2> HIDE DEF p2
  <2> QED
    BY <1>1, <1>7, <2>2, <2>3
<1>8. CASE after > var /\ p >= p2 /\ p < end2
  <2>1. StoiAt(s, p2, sign2, begin2, end2)
    BY DEF GetAt
  <2>2. p \in p2 .. end2 - 1
    BY <1>1, <1>8
  <2>3. s[p] = Blank \/ s[p] \in Numeric \/ (p = sign2 /\ s[p] \in Sign)
    <3> HIDE DEF p2
    <3> QED
      BY <1>3, <2>1, <2>2, StoiCharacters
  <2> QED
    BY <1>8, <2>3
<1>9. CASE p >= (IF after > var THEN end2 ELSE var)
  <2>1. PICK x : x = IF after > var THEN end2 ELSE var
    OBVIOUS
  <2>2. x \in 1 .. Len(s) + 1 /\ OnlyBlanks(s, x) /\ p \in x .. Len(s)
    BY <1>1, <1>2, <1>9, <2>1
  <2>3. s[p] \in {Blank, NewLine}
    BY <2>2, OnlyBlanksAre
  <2> QED
    BY <2>3
<1> HIDE DEF p2
<1> QED
  BY <1>1, <1>4, <1>5, <1>6, <1>7, <1>8, <1>9

(* A piece that get accepts is well-formed.                                 *)
LEMMA PieceWellFormed ==
  ASSUME NEW s, Len(s) \in Nat, NoSignBehind(s), get(s).ok, NEW p \in 1 .. Len(s)
  PROVE  WellFormedAt(s, p)
<1>1. PICK sign, begin, end, star, var, after, power, sign2, begin2, end2 :
        /\ GetAt(s, sign, begin, end, star, var, after, power, sign2, begin2, end2)
        /\ get(s) = GetResult(s, sign, begin, end, var, after, power, sign2, begin2, end2)
  BY GetParts
<1> DEFINE p2 == Behind(s, power, {"^"})
<1>2. /\ sign \in 1 .. Len(s) + 1
      /\ begin \in sign .. Len(s) + 1 /\ end \in begin .. Len(s) + 1
      /\ star \in end .. Len(s) + 1 /\ var \in end .. Len(s) + 1 /\ after \in var .. Len(s) + 1
      /\ power \in after .. Len(s) + 1 /\ p2 \in power .. Len(s) + 1
      /\ sign2 \in p2 .. Len(s) + 1
      /\ begin2 \in sign2 .. Len(s) + 1 /\ end2 \in begin2 .. Len(s) + 1
  BY <1>1, GetWithin
<1>3. GetResult(s, sign, begin, end, var, after, power, sign2, begin2, end2).ok
  BY <1>1
<1>4. IF after > var THEN CharAt(s, power) = "^" => end2 > begin2 ELSE end > begin
  BY <1>3 DEF GetResult, StoiResult
<1>5. \/ s[p] \in {Blank, NewLine} \cup Numeric \cup Alpha
      \/ p = sign /\ s[p] \in Sign
      \/ p = star /\ s[p] = "*" /\ end > begin
      \/ p = power /\ s[p] = "^" /\ after > var
      \/ p = sign2 /\ s[p] \in Sign /\ after > var
  BY <1>1, <1>3, GetCharacters
<1>6. ASSUME after > var PROVE sign2 \in 2 .. Len(s) + 1 /\ (sign2 <= Len(s) => s[sign2] \notin Sign)
  BY <1>2, <1>6 DEF NoSignBehind
<1>7. CASE s[p] \in Sign
  <2>1. p = sign
    <3>1. s[p] \notin {Blank, NewLine} \cup Numeric \cup Alpha /\ s[p] # "*" /\ s[p] # "^"
      BY <1>7, Kinds
    <3> QED
      BY <1>5, <1>6, <3>1
  <2>2. Row(s, p + 1, {Blank}, begin) /\ Row(s, begin, Numeric, end)
    <3>1. Behind(s, sign, Sign) = p + 1
      <4>1. CharAt(s, sign) \in Sign
        BY <1>7, <2>1 DEF CharAt
      <4> QED
        BY <2>1, <4>1 DEF Behind
    <3> QED
      BY <1>1, <3>1 DEF GetAt, StoiAt
  <2>3. begin \in p + 1 .. Len(s) + 1
    BY <2>2 DEF Row
  <2>4. begin <= Len(s) /\ s[begin] \in Numeric \cup Alpha
    <3>1. CASE end > begin
      <4>1. begin \in begin .. end - 1 /\ begin <= Len(s)
        BY <1>2, <3>1
      <4> QED
        BY <2>2, <4>1 DEF Row
    <3>2. CASE ~(end > begin)
      <4>1. end = begin /\ after > var
        BY <1>2, <1>4, <3>2
      <4>2. Row(s, begin, {Blank}, var) /\ Row(s, var, Alpha, after)
        BY <1>1, <3>2, <4>1 DEF GetAt
      <4>3. var = begin
        <5>1. CASE begin > Len(s)
          BY <1>2, <4>1, <5>1
        <5>2. CASE begin <= Len(s)
          <6>1. s[begin] # Blank
            BY <2>2, <5>2 DEF Row
          <6>2. begin \notin begin .. var - 1
            BY <4>2, <6>1 DEF Row
          <6> QED
            BY <1>2, <4>1, <6>2
        <5> QED
          BY <1>2, <5>1, <5>2
      <4>4. var \in var .. after - 1 /\ begin <= Len(s)
        BY <1>2, <4>1, <4>3
      <4> QED
        BY <4>2, <4>3, <4>4 DEF Row
    <3> QED
      BY <3>1, <3>2
  <2>5. FollowedBy(s, p, Numeric \cup Alpha)
    <3>1. begin \in p + 1 .. Len(s)
      BY <2>3, <2>4
    <3>2. \A j \in p + 1 .. begin - 1 : s[j] = Blank
      BY <2>2 DEF Row
    <3> QED
      BY <2>4, <3>1, <3>2 DEF FollowedBy
  <2>6. s[p] # "*" /\ s[p] # "^"
    BY <1>7, Kinds
  <2> QED
    BY <2>5, <2>6 DEF WellFormedAt
<1>8. CASE s[p] = "*"
  <2>1. p = star /\ end > begin
    <3>1. s[p] \notin {Blank, NewLine} \cup Numeric \cup Alpha /\ s[p] \notin Sign /\ s[p] # "^"
      BY <1>8, Kinds
    <3> QED
      BY <1>5, <3>1
  <2>2. Row(s, begin, Numeric, end) /\ Row(s, end, {Blank}, star)
    BY <1>1 DEF GetAt, StoiAt
  <2>3. end - 1 \in begin .. end - 1 /\ end - 1 \in 1 .. p - 1
    BY <1>2, <2>1
  <2>4. s[end - 1] \in Numeric
    BY <2>2, <2>3 DEF Row
  <2>5. \A j \in end - 1 + 1 .. p - 1 : s[j] = Blank
    <3>1. \A j \in end - 1 + 1 .. p - 1 : j \in end .. star - 1
      BY <1>2, <2>1
    <3> QED
      BY <2>2, <3>1 DEF Row
  <2>6. PrecededBy(s, p, Numeric)
    BY <2>3, <2>4, <2>5 DEF PrecededBy
  <2> QED
    BY <1>8, <2>6 DEF WellFormedAt, Sign
<1>9. CASE s[p] = "^"
  <2>1. p = power /\ after > var
    <3>1. s[p] \notin {Blank, NewLine} \cup Numeric \cup Alpha /\ s[p] \notin Sign /\ s[p] # "*"
      BY <1>9, Kinds
    <3> QED
      BY <1>5, <3>1
  <2>2. Row(s, var, Alpha, after) /\ Row(s, after, {Blank}, power)
    BY <1>1 DEF GetAt
  <2>3. after - 1 \in var .. after - 1 /\ after - 1 \in 1 .. p - 1
    BY <1>2, <2>1
  <2>4. s[after - 1] \in Alpha
    BY <2>2, <2>3 DEF Row
  <2>5. \A j \in after - 1 + 1 .. p - 1 : s[j] = Blank
    <3>1. \A j \in after - 1 + 1 .. p - 1 : j \in after .. power - 1
      BY <1>2, <2>1
    <3> QED
      BY <2>2, <3>1 DEF Row
  <2>6. PrecededBy(s, p, Alpha)
    BY <2>3, <2>4, <2>5 DEF PrecededBy
  <2>7. p2 = p + 1 /\ end2 > begin2
    <3>1. CharAt(s, power) = "^"
      BY <1>9, <2>1 DEF CharAt
    <3> QED
      BY <1>4, <2>1, <3>1 DEF Behind
  <2>8. Behind(s, sign2, Sign) = sign2
    <3>1. sign2 \in 1 .. Len(s) + 1
      BY <1>6, <2>1
    <3>2. Behind(s, sign2, Sign) # sign2 => sign2 \in 1 .. Len(s) /\ s[sign2] \in Sign
      BY <3>1, BehindIs, Kinds
    <3> QED
      BY <1>6, <2>1, <3>2
  <2>9. Row(s, p + 1, {Blank}, sign2) /\ Row(s, sign2, {Blank}, begin2) /\ Row(s, begin2, Numeric, end2)
    BY <1>1, <2>7, <2>8 DEF GetAt, StoiAt
  <2>10. begin2 \in begin2 .. end2 - 1 /\ begin2 \in p + 1 .. Len(s)
    BY <1>2, <2>7
  <2>11. s[begin2] \in Numeric
    BY <2>9, <2>10 DEF Row
  <2>12. \A j \in p + 1 .. begin2 - 1 : s[j] = Blank
    <3>1. \A j \in p + 1 .. begin2 - 1 : j \in p + 1 .. sign2 - 1 \/ j \in sign2 .. begin2 - 1
      BY <1>2, <2>7
    <3> QED
      BY <2>9, <3>1 DEF Row
  <2>13. FollowedBy(s, p, Numeric)
    BY <2>10, <2>11, <2>12 DEF FollowedBy
  <2> QED
    BY <1>9, <2>6, <2>13 DEF WellFormedAt, Sign
<1> QED
  BY <1>7, <1>8, <1>9 DEF WellFormedAt

-----------------------------------------------------------------------------
(* f has what the first k parts of a text make, for every k.                *)
Text(f, S, parts) ==
  /\ f \in [0 .. Len(parts) -> Seq(S)]
  /\ f[0] = <<>>
  /\ \A k \in 1 .. Len(parts) : f[k] = f[k - 1] \o parts[k]

(* FlattenSeq joins the parts one after the other.                          *)
LEMMA FlattenIs ==
  ASSUME NEW S, NEW parts \in Seq(Seq(S))
  PROVE  \E f : Text(f, S, parts) /\ FlattenSeq(parts) = f[Len(parts)]
<1>1. PICK n \in Nat : n = Len(parts)
  OBVIOUS
<1>2. parts \in [1 .. n -> Seq(S)]
  BY <1>1
<1>3. CASE n = 0
  <2> DEFINE f == [k \in 0 .. n |-> <<>>]
  <2>1. f \in [0 .. n -> Seq(S)] /\ f[0] = <<>> /\ f[n] = <<>> /\ 1 .. n = {}
    BY <1>3
  <2>2. FlattenSeq(parts) = <<>>
    <3>1. parts = <<>>
      BY <1>1, <1>3, EmptySeq
    <3>2. Len(parts) = 0
      BY <1>1, <1>3
    <3> QED
      BY <3>1, <3>2, Zenon DEF FlattenSeq
  <2> HIDE DEF f
  <2> QED
    BY <1>1, <2>1, <2>2 DEF Text
<1>4. CASE n # 0
  <2> DEFINE prev == [k \in 1 .. n |-> k - 1]
             step == [x \in Seq(S) \X (1 .. n) |-> x[1] \o parts[x[2]]]
  <2>1. \A v \in Seq(S), k \in 1 .. n : step[<<v, k>>] = v \o parts[k] /\ v \o parts[k] \in Seq(S)
    <3> SUFFICES ASSUME NEW v \in Seq(S), NEW k \in 1 .. n
                 PROVE  step[<<v, k>>] = v \o parts[k] /\ v \o parts[k] \in Seq(S)
      OBVIOUS
    <3>1. parts[k] \in Seq(S)
      BY <1>2
    <3>2. step[<<v, k>>] = v \o parts[k]
      OBVIOUS
    <3> QED
      BY <3>1, <3>2, ConcatProperties
  <2>2. Backwards(1, n, {1}, prev)
    BY DEF Backwards
  <2>3. \A k \in 1 .. n : parts[k] \in Seq(S)
    BY <1>2
  <2>4. \E h \in [1 .. n -> Seq(S)] : Recursive(h, 1, n, {1}, parts, step, prev)
    <3>1. \A v \in Seq(S), k \in 1 .. n : step[<<v, k>>] \in Seq(S)
      BY <2>1
    <3> HIDE DEF step, prev
    <3> QED
      BY <2>2, <2>3, <3>1, RecursionExists
  <2>5. PICK h \in [1 .. n -> Seq(S)] : Recursive(h, 1, n, {1}, parts, step, prev)
    BY <2>4
  <2>6. h = [k \in 1 .. n |-> IF k = 1 THEN parts[k] ELSE h[k - 1] \o parts[k]]
    <3>1. ASSUME NEW k \in 1 .. n, k # 1 PROVE step[<<h[prev[k]], k>>] = h[k - 1] \o parts[k]
      <4>1. prev[k] = k - 1 /\ k - 1 \in 1 .. n
        BY <3>1
      <4>2. h[k - 1] \in Seq(S)
        BY <4>1
      <4> HIDE DEF step, prev
      <4> QED
        BY <2>1, <4>1, <4>2
    <3> HIDE DEF step, prev
    <3> QED
      BY <2>5, <3>1 DEF Recursive
  <2> DEFINE W(x) == x = [k \in 1 .. n |-> IF k = 1 THEN parts[k] ELSE x[k - 1] \o parts[k]]
  <2>7. PICK c : W(c) /\ FlattenSeq(parts) = c[n]
    <3>1. W(h)
      BY <2>6
    <3>2. FlattenSeq(parts) = (CHOOSE x : W(x))[n]
      BY <1>1, <1>4 DEF FlattenSeq
    <3> HIDE DEF W
    <3>3. W(CHOOSE x : W(x))
      BY <3>1
    <3> QED
      BY <3>2, <3>3
  <2>8. FlattenSeq(parts) = c[n]
    BY <2>7
  <2>9. c[1] = parts[1] /\ \A k \in 2 .. n : c[k] = c[k - 1] \o parts[k]
    <3>1. 1 \in 1 .. n /\ \A k \in 2 .. n : k \in 1 .. n /\ k # 1
      BY <1>4
    <3>2. c = [k \in 1 .. n |-> IF k = 1 THEN parts[k] ELSE c[k - 1] \o parts[k]]
      BY <2>7
    <3> HIDE DEF W
    <3>3. c[1] = parts[1]
      BY <3>1, <3>2
    <3>4. ASSUME NEW k \in 2 .. n PROVE c[k] = c[k - 1] \o parts[k]
      BY <3>1, <3>2
    <3> QED
      BY <3>3, <3>4
  <2> HIDE DEF W
  <2>10. \A k \in 1 .. n : c[k] \in Seq(S)
    <3> DEFINE T == {k \in 0 .. n : k = 0 \/ c[k] \in Seq(S)}
    <3>1. 0 \in T
      OBVIOUS
    <3>2. ASSUME NEW k \in 0 .. n - 1, k \in T PROVE k + 1 \in T
      <4>1. PICK j \in 1 .. n : j = k + 1
        OBVIOUS
      <4>2. CASE k = 0
        <5>1. j = 1 /\ c[j] \in Seq(S)
          BY <2>3, <2>9, <4>1, <4>2
        <5> QED
          BY <4>1, <5>1
      <4>3. CASE k # 0
        <5>1. j \in 2 .. n /\ j - 1 = k
          BY <4>1, <4>3
        <5>2. c[j] = c[k] \o parts[j]
          BY <2>9, <5>1
        <5>3. c[k] \in Seq(S) /\ parts[j] \in Seq(S)
          BY <2>3, <3>2, <4>3
        <5>4. c[j] \in Seq(S)
          BY <5>2, <5>3, ConcatProperties
        <5> QED
          BY <4>1, <5>4
      <4> QED
        BY <4>2, <4>3
    <3>3. \A k \in 0 .. n : k \in T
      <4> HIDE DEF T
      <4> QED
        BY <3>1, <3>2, UpTo
    <3>4. \A k \in 1 .. n : k \in 0 .. n /\ k # 0
      OBVIOUS
    <3> QED
      BY <3>3, <3>4
  <2> DEFINE f == [k \in 0 .. n |-> IF k = 0 THEN <<>> ELSE c[k]]
  <2>11. f \in [0 .. n -> Seq(S)]
    <3>1. <<>> \in Seq(S) /\ \A k \in 0 .. n : k # 0 => k \in 1 .. n
      OBVIOUS
    <3> QED
      BY <2>10, <3>1
  <2>12. f[0] = <<>> /\ f[n] = c[n]
    BY <1>4
  <2>13. \A k \in 1 .. n : f[k] = f[k - 1] \o parts[k]
    <3> SUFFICES ASSUME NEW k \in 1 .. n PROVE f[k] = f[k - 1] \o parts[k]
      OBVIOUS
    <3>1. f[k] = c[k] /\ f[k - 1] = IF k = 1 THEN <<>> ELSE c[k - 1]
      OBVIOUS
    <3>2. CASE k = 1
      <4>1. parts[1] \in Seq(S)
        BY <2>3, <3>2
      <4>2. <<>> \o parts[1] = parts[1]
        BY <4>1
      <4> QED
        BY <2>9, <3>1, <3>2, <4>2
    <3>3. CASE k # 1
      <4>1. k \in 2 .. n
        BY <3>3
      <4> QED
        BY <2>9, <3>1, <3>3, <4>1
    <3> QED
      BY <3>2, <3>3
  <2> HIDE DEF f
  <2> QED
    BY <1>1, <2>8, <2>11, <2>12, <2>13 DEF Text
<1> QED
  BY <1>3, <1>4

(* What << writes for a number that is not negative.                        *)
DigitsOf(f) ==
  f = [m \in 0 .. IntMax + 1 |->
         IF m < 10 THEN <<Digits[m + 1]>> ELSE Append(f[m \div 10], Digits[(m % 10) + 1])]

(* Digits for every number up to the largest coefficient.                   *)
Plain == CHOOSE f : DigitsOf(f)

(* Each of the ten is a digit.                                              *)
LEMMA DigitIs == \A k \in 0 .. 9 : Digits[k + 1] \in Numeric
<1>1. DOMAIN Digits = 1 .. 10
  BY DEF Digits
<1>2. \A k \in 0 .. 9 : k + 1 \in DOMAIN Digits
  BY <1>1
<1> QED
  BY <1>2 DEF Numeric, ToSet

(* A number of one digit.                                                   *)
LEMMA Below10 == \A m \in Nat : m < 10 => m % 10 = m /\ m \div 10 = 0
  OBVIOUS

(* There is such a function, as m \div 10 is below m: Decimal, without the  *)
(* minus, gives digits.                                                     *)
LEMMA PlainIs == DigitsOf(Plain) /\ Plain \in [0 .. IntMax + 1 -> Seq(Numeric)]
<1>1. PICK N \in Nat : N = IntMax + 1
  BY DerivativeAssumption
<1> DEFINE B == {m \in 0 .. N : m < 10}
           b == [m \in 0 .. N |-> <<Digits[(m % 10) + 1]>>]
           prev == [m \in 0 .. N |-> m \div 10]
           step == [x \in Seq(Numeric) \X (0 .. N) |-> Append(x[1], Digits[(x[2] % 10) + 1])]
<1>2. \A m \in 0 .. N : m % 10 \in 0 .. 9 /\ Digits[(m % 10) + 1] \in Numeric
  <2>1. \A m \in 0 .. N : m % 10 \in 0 .. 9
    OBVIOUS
  <2> QED
    BY <2>1, DigitIs
<1>3. /\ \A v \in Seq(Numeric), m \in 0 .. N : step[<<v, m>>] = Append(v, Digits[(m % 10) + 1])
      /\ \A v \in Seq(Numeric), m \in 0 .. N : step[<<v, m>>] \in Seq(Numeric)
      /\ \A m \in 0 .. N : b[m] \in Seq(Numeric)
  <2>1. \A v \in Seq(Numeric), m \in 0 .. N : Append(v, Digits[(m % 10) + 1]) \in Seq(Numeric)
    BY <1>2
  <2>2. \A v \in Seq(Numeric), m \in 0 .. N : step[<<v, m>>] = Append(v, Digits[(m % 10) + 1])
    OBVIOUS
  <2>3. \A m \in 0 .. N : b[m] = <<Digits[(m % 10) + 1]>>
    OBVIOUS
  <2> HIDE DEF step, b
  <2>4. \A m \in 0 .. N : b[m] \in Seq(Numeric)
    <3> SUFFICES ASSUME NEW m \in 0 .. N PROVE b[m] \in Seq(Numeric)
      OBVIOUS
    <3>1. PICK c \in Numeric : c = Digits[(m % 10) + 1]
      BY <1>2
    <3>2. b[m] = <<c>>
      BY <2>3, <3>1
    <3>3. <<c>> \in Seq(Numeric)
      OBVIOUS
    <3> QED
      BY <3>2, <3>3
  <2>5. \A v \in Seq(Numeric), m \in 0 .. N : step[<<v, m>>] \in Seq(Numeric)
    BY <2>1, <2>2, Zenon
  <2> QED
    BY <2>2, <2>4, <2>5
<1>4. Backwards(0, N, B, prev)
  <2>1. \A m \in 0 .. N : m \notin B => m >= 10
    OBVIOUS
  <2>2. \A m \in 0 .. N : m >= 10 => m \div 10 \in 0 .. m - 1
    OBVIOUS
  <2> QED
    BY <2>1, <2>2 DEF Backwards
<1>5. PICK h \in [0 .. N -> Seq(Numeric)] : Recursive(h, 0, N, B, b, step, prev)
  <2> HIDE DEF B, b, prev, step
  <2> QED
    BY <1>3, <1>4, RecursionExists
<1>6. DigitsOf(h)
  <2>1. ASSUME NEW m \in 0 .. N
        PROVE  (IF m \in B THEN b[m] ELSE step[<<h[prev[m]], m>>])
                 = IF m < 10 THEN <<Digits[m + 1]>> ELSE Append(h[m \div 10], Digits[(m % 10) + 1])
    <3>1. CASE m < 10
      <4>1. m % 10 = m
        BY <3>1, Below10
      <4>2. m \in B
        BY <3>1
      <4>3. b[m] = <<Digits[m + 1]>>
        BY <4>1
      <4> HIDE DEF prev, step, B, b
      <4> QED
        BY <3>1, <4>2, <4>3
    <3>2. CASE ~(m < 10)
      <4>1. prev[m] = m \div 10 /\ m \notin B /\ m \div 10 \in 0 .. N
        BY <3>2
      <4>2. h[m \div 10] \in Seq(Numeric)
        BY <4>1
      <4> HIDE DEF prev, step, B, b
      <4> QED
        BY <1>3, <3>2, <4>1, <4>2
    <3> QED
      BY <3>1, <3>2
  <2>2. h = [m \in 0 .. N |-> IF m \in B THEN b[m] ELSE step[<<h[prev[m]], m>>]]
    BY <1>5 DEF Recursive
  <2> HIDE DEF B, b, prev, step
  <2>3. h = [m \in 0 .. N |->
               IF m < 10 THEN <<Digits[m + 1]>> ELSE Append(h[m \div 10], Digits[(m % 10) + 1])]
    BY <2>1, <2>2
  <2> QED
    BY <1>1, <2>3 DEF DigitsOf
<1>7. DigitsOf(Plain)
  BY <1>6 DEF Plain
<1>8. PICK f : f = Plain
  OBVIOUS
<1>9. f = [m \in 0 .. N |->
             IF m < 10 THEN <<Digits[m + 1]>> ELSE Append(f[m \div 10], Digits[(m % 10) + 1])]
  BY <1>1, <1>7, <1>8 DEF DigitsOf
<1>10. \A m \in 0 .. N : f[m] \in Seq(Numeric)
  <2> DEFINE Bad == {m \in 0 .. N : f[m] \notin Seq(Numeric)}
  <2> SUFFICES ASSUME Bad # {} PROVE FALSE
    OBVIOUS
  <2>1. Bad \in SUBSET Nat
    OBVIOUS
  <2>2. PICK m \in Bad : \A k \in Bad : m <= k
    <3> HIDE DEF Bad
    <3> QED
      BY <2>1, Least
  <2>3. m \in 0 .. N /\ f[m] \notin Seq(Numeric)
    OBVIOUS
  <2>4. CASE m < 10
    <3>1. f[m] = <<Digits[m + 1]>>
      BY <1>9, <2>3, <2>4
    <3>2. m \in 0 .. 9
      BY <2>3, <2>4
    <3>3. PICK c \in Numeric : c = Digits[m + 1]
      BY <3>2, DigitIs
    <3>4. <<c>> \in Seq(Numeric)
      OBVIOUS
    <3> QED
      BY <2>3, <3>1, <3>3, <3>4
  <2>5. CASE ~(m < 10)
    <3>1. m \div 10 \in 0 .. N /\ ~(m <= m \div 10)
      BY <2>3, <2>5
    <3>2. f[m \div 10] \in Seq(Numeric)
      BY <2>2, <3>1
    <3>3. f[m] = Append(f[m \div 10], Digits[(m % 10) + 1])
      BY <1>9, <2>3, <2>5
    <3> QED
      BY <1>2, <2>3, <3>2, <3>3
  <2> QED
    BY <2>4, <2>5
<1>11. f = [m \in 0 .. N |-> f[m]]
  BY <1>9
<1>12. f \in [0 .. N -> Seq(Numeric)]
  BY <1>10, <1>11
<1> QED
  BY <1>1, <1>7, <1>8, <1>12

(* The characters that a program or a user writes.                          *)
LEMMA Characters ==
  /\ Numeric \subseteq Char /\ Sign \subseteq Char
  /\ Blank \in Char /\ NewLine \in Char /\ "*" \in Char /\ "x" \in Char /\ "^" \in Char
  /\ "-" \in Char /\ "+" \in Char
BY DEF Char, Sign, Alpha

(* A text of one character.                                                 *)
LEMMA OneCharacter ==
  ASSUME NEW S, NEW c \in S
  PROVE  <<c>> \in Seq(S) /\ Len(<<c>>) = 1 /\ <<c>>[1] = c
OBVIOUS

(* Decimal writes a minus and digits, or digits only, for every int and for *)
(* the one number beyond.                                                   *)
LEMMA DecimalIs ==
  ASSUME NEW n \in Int, -(IntMax + 1) <= n, n <= IntMax + 1
  PROVE  /\ Decimal(n) = IF n < 0 THEN <<"-">> \o Plain[-n] ELSE Plain[n]
         /\ n >= 0 => Plain[n] \in Seq(Numeric)
         /\ n < 0 => Plain[-n] \in Seq(Numeric)
         /\ Decimal(n) \in Seq(Char)
<1>1. PICK f : f = Plain
  OBVIOUS
<1>2. Decimal(n) = IF n < 0 THEN <<"-">> \o f[-n] ELSE f[n]
  BY <1>1 DEF Decimal, Plain, DigitsOf
<1>3. f \in [0 .. IntMax + 1 -> Seq(Numeric)]
  BY <1>1, PlainIs
<1>4. IntMax \in Nat
  BY DerivativeAssumption
<1>5. CASE n >= 0
  <2>1. n \in 0 .. IntMax + 1
    BY <1>4, <1>5
  <2>2. f[n] \in Seq(Numeric)
    BY <1>3, <2>1
  <2>3. f[n] \in Seq(Char)
    BY <2>2, Characters, SeqMonotonic
  <2> QED
    BY <1>1, <1>2, <1>5, <2>2, <2>3
<1>6. CASE n < 0
  <2>1. -n \in 0 .. IntMax + 1
    BY <1>4, <1>6
  <2>2. f[-n] \in Seq(Numeric)
    BY <1>3, <2>1
  <2>3. f[-n] \in Seq(Char)
    BY <2>2, Characters, SeqMonotonic
  <2>4. <<"-">> \in Seq(Char)
    BY Characters
  <2>5. <<"-">> \o f[-n] \in Seq(Char)
    BY <2>3, <2>4, ConcatProperties
  <2> QED
    BY <1>1, <1>2, <1>6, <2>2, <2>5
<1> QED
  BY <1>5, <1>6

(* The terms that a user may write.                                         *)
Term == [sign : Sign \cup {""}, koef : Numbers, var : BOOLEAN, exp : Numbers, gap : BOOLEAN]

(* A part that is written only sometimes is a text.                         *)
LEMMA IfIs ==
  ASSUME NEW condition \in BOOLEAN, NEW S, NEW v, condition => v \in Seq(S)
  PROVE  If(condition, v) \in Seq(S)
BY DEF If

(* A number of a term is written as digits.                                 *)
LEMMA NumberWritten ==
  ASSUME NEW n \in Numbers, n # None
  PROVE  n \in Nat /\ n <= IntMax + 1 /\ Decimal(n) \in Seq(Char) /\ Decimal(n) = Plain[n]
         /\ Plain[n] \in Seq(Numeric)
<1>1. n \in Nat /\ n <= IntMax + 1 /\ IntMax \in Nat
  BY DerivativeAssumption DEF Numbers
<1>2. n \in Int /\ -(IntMax + 1) <= n /\ n >= 0 /\ ~(n < 0)
  BY <1>1
<1>3. Decimal(n) \in Seq(Char) /\ Decimal(n) = Plain[n] /\ Plain[n] \in Seq(Numeric)
  BY <1>1, <1>2, DecimalIs
<1> QED
  BY <1>1, <1>3

(* The five parts of a spelling: sign, coefficient, star, variable and      *)
(* exponent, each with the blank behind it.                                 *)
Gap1(term) == If(term.gap, <<Blank>>)
SignPart(term) == If(term.sign # "", <<term.sign>> \o Gap1(term))
KoefPart(term) == If(term.koef # None, Decimal(term.koef) \o Gap1(term))
StarPart(term) == If(term.koef # None /\ term.var, <<"*">> \o Gap1(term))
VarPart(term) == If(term.var, <<"x">> \o Gap1(term))
ExpPart(term) ==
  If(term.var /\ term.exp # None, <<"^">> \o Gap1(term) \o Decimal(term.exp) \o Gap1(term))

(* A spelling is made of the five.                                          *)
LEMMA SpellingParts ==
  ASSUME NEW term
  PROVE  Spelling(term) = SignPart(term) \o KoefPart(term) \o StarPart(term) \o VarPart(term) \o ExpPart(term)
BY DEF Spelling, SignPart, KoefPart, StarPart, VarPart, ExpPart, Gap1

(* All of them are texts.                                                   *)
LEMMA SpellingTyped ==
  ASSUME NEW term \in Term
  PROVE  /\ Gap1(term) \in Seq(Char) /\ SignPart(term) \in Seq(Char)
         /\ KoefPart(term) \in Seq(Char) /\ StarPart(term) \in Seq(Char)
         /\ VarPart(term) \in Seq(Char) /\ ExpPart(term) \in Seq(Char)
         /\ Spelling(term) \in Seq(Char)
<1>1. /\ term.sign \in Sign \cup {""} /\ term.koef \in Numbers /\ term.var \in BOOLEAN
      /\ term.exp \in Numbers /\ term.gap \in BOOLEAN
  BY DEF Term
<1>2. /\ <<Blank>> \in Seq(Char) /\ <<"*">> \in Seq(Char) /\ <<"x">> \in Seq(Char)
      /\ <<"^">> \in Seq(Char) /\ (term.sign # "" => <<term.sign>> \in Seq(Char))
  <2>1. term.sign # "" => term.sign \in Char
    BY <1>1, Characters
  <2>2. term.sign # "" => <<term.sign>> \in Seq(Char)
    BY <2>1, OneCharacter
  <2> QED
    BY <2>2, Characters, OneCharacter
<1>3. PICK g : g = Gap1(term)
  OBVIOUS
<1>4. g \in Seq(Char)
  BY <1>1, <1>2, <1>3, IfIs DEF Gap1
<1>5. SignPart(term) \in Seq(Char)
  <2>1. term.sign # "" => <<term.sign>> \o g \in Seq(Char)
    BY <1>2, <1>4, ConcatProperties
  <2> QED
    BY <1>3, <2>1, IfIs DEF SignPart
<1>6. KoefPart(term) \in Seq(Char)
  <2>1. term.koef # None => Decimal(term.koef) \o g \in Seq(Char)
    BY <1>1, <1>4, NumberWritten, ConcatProperties
  <2> QED
    BY <1>3, <2>1, IfIs DEF KoefPart
<1>7. StarPart(term) \in Seq(Char)
  <2>1. <<"*">> \o g \in Seq(Char)
    BY <1>2, <1>4, ConcatProperties
  <2> QED
    BY <1>1, <1>3, <2>1, IfIs DEF StarPart
<1>8. VarPart(term) \in Seq(Char)
  <2>1. <<"x">> \o g \in Seq(Char)
    BY <1>2, <1>4, ConcatProperties
  <2> QED
    BY <1>1, <1>3, <2>1, IfIs DEF VarPart
<1>9. ExpPart(term) \in Seq(Char)
  <2>1. <<"^">> \o g \in Seq(Char)
    BY <1>2, <1>4, ConcatProperties
  <2>2. term.exp # None => <<"^">> \o g \o Decimal(term.exp) \in Seq(Char)
    BY <1>1, <2>1, NumberWritten, ConcatProperties
  <2>3. term.exp # None => <<"^">> \o g \o Decimal(term.exp) \o g \in Seq(Char)
    BY <1>4, <2>2, ConcatProperties
  <2> QED
    BY <1>1, <1>3, <2>3, IfIs DEF ExpPart
<1>10. Spelling(term) \in Seq(Char)
  <2>1. SignPart(term) \o KoefPart(term) \in Seq(Char)
    BY <1>5, <1>6, ConcatProperties
  <2>2. SignPart(term) \o KoefPart(term) \o StarPart(term) \in Seq(Char)
    BY <1>7, <2>1, ConcatProperties
  <2>3. SignPart(term) \o KoefPart(term) \o StarPart(term) \o VarPart(term) \in Seq(Char)
    BY <1>8, <2>2, ConcatProperties
  <2>4. SignPart(term) \o KoefPart(term) \o StarPart(term) \o VarPart(term) \o ExpPart(term) \in Seq(Char)
    BY <1>9, <2>3, ConcatProperties
  <2> QED
    BY <2>4, SpellingParts
<1> QED
  BY <1>3, <1>4, <1>5, <1>6, <1>7, <1>8, <1>9, <1>10

-----------------------------------------------------------------------------
(* A list of terms, each spelled.                                           *)
SpelledParts(terms) == [k \in 1 .. Len(terms) |-> Spelling(terms[k])]

(* A list of terms is written as a text, a part for each term.              *)
LEMMA SpellTyped ==
  ASSUME NEW terms \in Seq(Term)
  PROVE  /\ SpelledParts(terms) \in Seq(Seq(Char)) /\ Len(SpelledParts(terms)) = Len(terms)
         /\ Spell(terms) \in Seq(Char)
<1>1. PICK n \in Nat : n = Len(terms)
  OBVIOUS
<1>2. \A k \in 1 .. n : terms[k] \in Term
  BY <1>1
<1>3. PICK parts : parts = SpelledParts(terms)
  OBVIOUS
<1>4. parts = [k \in 1 .. n |-> Spelling(terms[k])]
  BY <1>1, <1>3 DEF SpelledParts
<1>5. parts \in [1 .. n -> Seq(Char)]
  BY <1>2, <1>4, SpellingTyped
<1>6. parts \in Seq(Seq(Char)) /\ Len(parts) = n
  BY <1>5
<1>7. PICK f : Text(f, Char, parts) /\ FlattenSeq(parts) = f[Len(parts)]
  BY <1>6, FlattenIs
<1>8. Len(parts) \in 0 .. Len(parts) /\ f \in [0 .. Len(parts) -> Seq(Char)]
  BY <1>6, <1>7 DEF Text
<1>9. f[Len(parts)] \in Seq(Char)
  BY <1>8
<1>10. Spell(terms) = FlattenSeq(parts)
  BY <1>3 DEF Spell, SpelledParts
<1> QED
  BY <1>1, <1>3, <1>6, <1>7, <1>9, <1>10

(* What the assumption says of the constant Terms.                          *)
LEMMA TermsTyped ==
  ASSUME NEW terms \in Terms
  PROVE  /\ terms \in Seq(Term) /\ Len(terms) \in Nat \ {0}
         /\ \A k \in 1 .. Len(terms) :
              /\ terms[k] \in Term /\ (terms[k].var \/ terms[k].koef # None)
              /\ (k > 1 => terms[k].sign # "")
<1>1. terms \in Seq(Term) /\ terms # <<>>
  BY TermsAssumption DEF Term, NoTerms
<1>2. Len(terms) \in Nat \ {0}
  BY <1>1, EmptySeq
<1>3. \A k \in 1 .. Len(terms) : terms[k] \in Term
  BY <1>1
<1>4. \A k \in 1 .. Len(terms) :
        (terms[k].var \/ terms[k].koef # None) /\ (k > 1 => terms[k].sign # "")
  BY TermsAssumption
<1> QED
  BY <1>1, <1>2, <1>3, <1>4

(* A line is a string that ends with '\n'.                                  *)
IsLine(s) == s \in Seq(Char) /\ Len(s) \in Nat \ {0} /\ s[Len(s)] = NewLine

(* derivative() appends the '\n' to what it has been given.                 *)
LEMMA WithNewLine ==
  ASSUME NEW s \in Seq(Char)
  PROVE  /\ IsLine(s \o <<NewLine>>) /\ Len(s \o <<NewLine>>) = Len(s) + 1
         /\ \A k \in 1 .. Len(s) : (s \o <<NewLine>>)[k] = s[k]
<1>1. <<NewLine>> \in Seq(Char) /\ Len(<<NewLine>>) = 1 /\ <<NewLine>>[1] = NewLine
  BY Characters, OneCharacter
<1>2. PICK c : c = s \o <<NewLine>>
  OBVIOUS
<1>3. PICK t \in Seq(Char) : t = <<NewLine>>
  BY <1>1
<1>4. /\ c \in Seq(Char) /\ Len(c) = Len(s) + 1
      /\ \A k \in 1 .. Len(s) + 1 : c[k] = IF k <= Len(s) THEN s[k] ELSE t[k - Len(s)]
  BY <1>1, <1>2, <1>3, ConcatProperties
<1>5. Len(s) + 1 - Len(s) = 1 /\ Len(s) + 1 \in 1 .. Len(s) + 1 /\ ~(Len(s) + 1 <= Len(s)) /\ Len(s) \in Nat
  OBVIOUS
<1>6. c[Len(s) + 1] = NewLine
  BY <1>1, <1>3, <1>4, <1>5
<1> QED
  BY <1>2, <1>4, <1>5, <1>6 DEF IsLine

(* The line is such a string, whether it is spelled from terms or not.      *)
LEMMA LineTyped == Init => IsLine(line)
<1> SUFFICES ASSUME Init PROVE IsLine(line)
  OBVIOUS
<1>1. CASE \E s \in Lines : line = s \o <<NewLine>>
  BY <1>1, LinesAssumption, WithNewLine
<1>2. CASE written \in Terms /\ line = Spell(written) \o <<NewLine>>
  BY <1>2, TermsTyped, SpellTyped, WithNewLine
<1> QED
  BY <1>1, <1>2 DEF Init

-----------------------------------------------------------------------------
(* A piece of a string, place by place.                                     *)
LEMMA PieceIs ==
  ASSUME NEW s \in Seq(Char), NEW a \in 1 .. Len(s) + 1, NEW b \in a - 1 .. Len(s)
  PROVE  /\ SubSeq(s, a, b) \in Seq(Char) /\ Len(SubSeq(s, a, b)) = b - a + 1
         /\ \A k \in 1 .. b - a + 1 : SubSeq(s, a, b)[k] = s[a + k - 1] /\ a + k - 1 \in a .. b
         /\ \A j \in a .. b : SubSeq(s, a, b)[j - a + 1] = s[j] /\ j - a + 1 \in 1 .. b - a + 1
<1>1. Len(s) \in Nat /\ a \in Int /\ b \in Int /\ \A k \in a .. b : k \in 1 .. Len(s)
  OBVIOUS
<1>2. \A k \in a .. b : s[k] \in Char
  BY <1>1
<1>3. PICK c : c = SubSeq(s, a, b)
  OBVIOUS
<1>4. /\ c \in Seq(Char) /\ Len(c) = (IF a <= b THEN b - a + 1 ELSE 0)
      /\ \A k \in 1 .. b - a + 1 : c[k] = s[a + k - 1]
  BY <1>1, <1>2, <1>3, SubSeqProperties
<1>5. Len(c) = b - a + 1
  BY <1>4
<1>6. \A k \in 1 .. b - a + 1 : a + k - 1 \in a .. b
  BY <1>1
<1>7. ASSUME NEW j \in a .. b PROVE c[j - a + 1] = s[j] /\ j - a + 1 \in 1 .. b - a + 1
  <2>1. PICK k \in 1 .. b - a + 1 : k = j - a + 1
    BY <1>1
  <2>2. a + k - 1 = j
    BY <1>1, <2>1
  <2> QED
    BY <1>4, <2>1, <2>2
<1> QED
  BY <1>3, <1>4, <1>5, <1>6, <1>7

(* What is well-formed in a piece is so in the string.                      *)
LEMMA PieceInLine ==
  ASSUME NEW s \in Seq(Char), NEW a \in 1 .. Len(s) + 1, NEW b \in a - 1 .. Len(s), NEW p \in a .. b,
         WellFormedAt(SubSeq(s, a, b), p - a + 1)
  PROVE  WellFormedAt(s, p)
<1>1. PICK c : c = SubSeq(s, a, b)
  OBVIOUS
<1>2. /\ Len(c) = b - a + 1
      /\ \A k \in 1 .. b - a + 1 : c[k] = s[a + k - 1] /\ a + k - 1 \in a .. b
      /\ \A j \in a .. b : c[j - a + 1] = s[j] /\ j - a + 1 \in 1 .. b - a + 1
  BY <1>1, PieceIs
<1>3. Len(s) \in Nat /\ a \in Nat /\ b \in Int /\ p \in Int /\ b <= Len(s) /\ a >= 1
  OBVIOUS
<1>4. PICK k \in 1 .. b - a + 1 : k = p - a + 1
  BY <1>3
<1>5. c[k] = s[p]
  BY <1>2, <1>4
<1>6. ASSUME NEW C, FollowedBy(c, k, C) PROVE FollowedBy(s, p, C)
  <2>1. PICK q \in k + 1 .. Len(c) : c[q] \in C /\ \A j \in k + 1 .. q - 1 : c[j] = Blank
    BY <1>6 DEF FollowedBy
  <2>2. PICK r \in p + 1 .. Len(s) : r = a + q - 1
    BY <1>2, <1>3, <1>4, <2>1
  <2>3. s[r] \in C
    <3>1. q \in 1 .. b - a + 1
      BY <1>2, <2>1
    <3> QED
      BY <1>2, <2>1, <2>2, <3>1
  <2>4. ASSUME NEW j \in p + 1 .. r - 1 PROVE s[j] = Blank
    <3>1. j \in a .. b /\ j - a + 1 \in k + 1 .. q - 1
      BY <1>2, <1>3, <1>4, <2>1, <2>2
    <3> QED
      BY <1>2, <2>1, <3>1
  <2> QED
    BY <2>3, <2>4 DEF FollowedBy
<1>7. ASSUME NEW C, PrecededBy(c, k, C) PROVE PrecededBy(s, p, C)
  <2>1. PICK q \in 1 .. k - 1 : c[q] \in C /\ \A j \in q + 1 .. k - 1 : c[j] = Blank
    BY <1>7 DEF PrecededBy
  <2>2. PICK r \in 1 .. p - 1 : r = a + q - 1
    BY <1>2, <1>3, <1>4, <2>1
  <2>3. s[r] \in C
    <3>1. q \in 1 .. b - a + 1
      BY <1>2, <2>1
    <3> QED
      BY <1>2, <2>1, <2>2, <3>1
  <2>4. ASSUME NEW j \in r + 1 .. p - 1 PROVE s[j] = Blank
    <3>1. j \in a .. b /\ j - a + 1 \in q + 1 .. k - 1
      BY <1>2, <1>3, <1>4, <2>1, <2>2
    <3> QED
      BY <1>2, <2>1, <3>1
  <2> QED
    BY <2>3, <2>4 DEF PrecededBy
<1>8. WellFormedAt(c, k)
  BY <1>1, <1>4
<1> QED
  BY <1>5, <1>6, <1>7, <1>8 DEF WellFormedAt

(* What is well-formed everywhere is not Malformed.                         *)
LEMMA NextIs ==
  ASSUME NEW s, Len(s) \in Nat, NEW p \in 1 .. Len(s), NEW C, Blank \notin C, FollowedBy(s, p, C)
  PROVE  CharAt(s, Skip(s, p + 1, {Blank})) \in C
<1>1. PICK q \in p + 1 .. Len(s) : s[q] \in C /\ \A j \in p + 1 .. q - 1 : s[j] = Blank
  BY DEF FollowedBy
<1>2. p + 1 \in 1 .. Len(s) + 1 /\ q \in p + 1 .. Len(s) + 1 /\ q <= Len(s)
  OBVIOUS
<1>3. Row(s, p + 1, {Blank}, q)
  BY <1>1, <1>2 DEF Row
<1>4. Skip(s, p + 1, {Blank}) = q
  BY <1>2, <1>3, RowIs
<1> QED
  BY <1>1, <1>2, <1>4 DEF CharAt

(* The same backwards.                                                      *)
LEMMA PrevIs ==
  ASSUME NEW s, Len(s) \in Nat, NEW p \in 1 .. Len(s), NEW C, Blank \notin C, PrecededBy(s, p, C)
  PROVE  LET back == {q \in 1 .. p - 1 : s[q] # Blank} IN back # {} /\ s[Max(back)] \in C
<1> DEFINE back == {q \in 1 .. p - 1 : s[q] # Blank}
<1>1. PICK q \in 1 .. p - 1 : s[q] \in C /\ \A j \in q + 1 .. p - 1 : s[j] = Blank
  BY DEF PrecededBy
<1>2. q \in back
  BY <1>1
<1>3. \A r \in back : q >= r /\ r \in Int
  <2> SUFFICES ASSUME NEW r \in back PROVE q >= r /\ r \in Int
    OBVIOUS
  <2>1. r \in 1 .. p - 1 /\ r \notin q + 1 .. p - 1
    BY <1>1
  <2> QED
    BY <2>1
<1> HIDE DEF back
<1>4. PICK m : m = Max(back)
  OBVIOUS
<1>5. m \in back /\ \A r \in back : m >= r
  BY <1>2, <1>3, <1>4 DEF Max
<1>6. m = q
  <2>1. m \in Int /\ q \in Int /\ m >= q /\ q >= m
    BY <1>2, <1>3, <1>5
  <2> QED
    BY <2>1
<1> QED
  BY <1>1, <1>2, <1>4, <1>6 DEF back

(* A string that is well-formed at every place is not malformed.            *)
LEMMA NotMalformed ==
  ASSUME NEW s, Len(s) \in Nat, \A p \in 1 .. Len(s) : WellFormedAt(s, p)
  PROVE  ~Malformed(s)
<1>1. Blank \notin Numeric /\ Blank \notin Alpha /\ Blank \notin Numeric \cup Alpha
  BY Kinds
<1>2. ASSUME NEW p \in 1 .. Len(s)
      PROVE  LET next == CharAt(s, Skip(s, p + 1, {Blank}))
                 back == {q \in 1 .. p - 1 : s[q] # Blank}
                 Prev(C) == back # {} /\ s[Max(back)] \in C
             IN ~ \/ s[p] \in Sign /\ next \notin Numeric \cup Alpha
                  \/ s[p] = "*" /\ ~Prev(Numeric)
                  \/ s[p] = "^" /\ (~Prev(Alpha) \/ next \notin Numeric)
  <2> DEFINE next == CharAt(s, Skip(s, p + 1, {Blank}))
             back == {q \in 1 .. p - 1 : s[q] # Blank}
             Prev(C) == back # {} /\ s[Max(back)] \in C
  <2>1. WellFormedAt(s, p)
    OBVIOUS
  <2>2. ASSUME NEW C, Blank \notin C, FollowedBy(s, p, C) PROVE next \in C
    BY <2>2, NextIs
  <2>3. ASSUME NEW C, Blank \notin C, PrecededBy(s, p, C) PROVE Prev(C)
    BY <2>3, PrevIs
  <2> HIDE DEF next, back, Prev
  <2>4. s[p] \in Sign => next \in Numeric \cup Alpha
    BY <1>1, <2>1, <2>2 DEF WellFormedAt
  <2>5. s[p] = "*" => Prev(Numeric)
    BY <1>1, <2>1, <2>3 DEF WellFormedAt
  <2>6. s[p] = "^" => Prev(Alpha) /\ next \in Numeric
    BY <1>1, <2>1, <2>2, <2>3 DEF WellFormedAt
  <2> USE DEF next, back, Prev
  <2> QED
    BY <2>4, <2>5, <2>6
<1> QED
  BY <1>2 DEF Malformed

-----------------------------------------------------------------------------
(* What has been cut off is well-formed.                                    *)
CutInv ==
  /\ IsLine(line)
  /\ pc = "split" =>
       /\ istart \in 1 .. Len(line) /\ i \in {istart, istart + 1}
       /\ i = istart => line[istart] \notin Sign
       /\ \A p \in 1 .. istart - 1 : WellFormedAt(line, p)
  /\ pc = "done" => \A p \in 1 .. Len(line) : WellFormedAt(line, p)

(* Blanks are always well-formed.                                           *)
LEMMA BlankWellFormed ==
  ASSUME NEW s, NEW p, s[p] \in {Blank, NewLine}
  PROVE  WellFormedAt(s, p)
<1>1. s[p] \notin Sign /\ s[p] # "*" /\ s[p] # "^"
  BY Kinds
<1> QED
  BY <1>1 DEF WellFormedAt

(* Where the next piece ends.                                               *)
LEMMA CutIs ==
  ASSUME IsLine(line), istart \in 1 .. Len(line), i \in {istart, istart + 1},
         i = istart => line[istart] \notin Sign
  PROVE  /\ Cut \in i .. Len(line) + 1
         /\ Cut <= Len(line) => line[Cut] \in Sign \cup {NewLine}
         /\ Cut > Len(line) => istart = Len(line)
         /\ Piece \in Seq(Char) /\ Len(Piece) = Cut - istart /\ NoSignBehind(Piece)
<1>1. line \in Seq(Char) /\ Len(line) \in Nat \ {0} /\ line[Len(line)] = NewLine
  BY DEF IsLine
<1>2. i \in 1 .. Len(line) + 1
  BY <1>1
<1>3. PICK c : c = Cut
  OBVIOUS
<1>4. Gap(line, i, Sign \cup {NewLine}, c)
  BY <1>1, <1>2, <1>3, FindGap DEF Cut
<1>5. c \in i .. Len(line) + 1 /\ (c <= Len(line) => line[c] \in Sign \cup {NewLine})
  BY <1>4 DEF Gap
<1>6. c > Len(line) => istart = Len(line)
  <2>1. Len(line) \notin i .. c - 1
    BY <1>1, <1>4 DEF Gap
  <2> QED
    BY <1>1, <1>2, <1>5, <2>1
<1>7. PICK piece : piece = Piece
  OBVIOUS
<1>8. /\ piece \in Seq(Char) /\ Len(piece) = c - istart
      /\ \A k \in 1 .. c - istart : piece[k] = line[istart + k - 1] /\ istart + k - 1 \in istart .. c - 1
  <2>1. PICK b : b = c - 1
    OBVIOUS
  <2>2. istart \in 1 .. Len(line) + 1 /\ b \in istart - 1 .. Len(line) /\ b - istart + 1 = c - istart
    BY <1>1, <1>2, <1>5, <2>1
  <2>3. piece = SubSeq(line, istart, b)
    BY <1>3, <1>7, <2>1 DEF Piece
  <2> QED
    BY <1>1, <2>1, <2>2, <2>3, PieceIs
<1>9. NoSignBehind(piece)
  <2> SUFFICES ASSUME NEW k \in 2 .. Len(piece) PROVE piece[k] \notin Sign
    BY DEF NoSignBehind
  <2>1. k \in 1 .. c - istart /\ istart + k - 1 \in i .. c - 1
    BY <1>1, <1>2, <1>5, <1>8
  <2>2. line[istart + k - 1] \notin Sign
    BY <1>4, <2>1 DEF Gap
  <2> QED
    BY <1>8, <2>1, <2>2
<1> QED
  BY <1>3, <1>5, <1>6, <1>7, <1>8, <1>9

(* A piece that get accepts is well-formed, so is what has been cut off.    *)
LEMMA CutInvHolds == Spec => []CutInv
<1>1. Init => CutInv
  <2> SUFFICES ASSUME Init PROVE CutInv
    OBVIOUS
  <2>1. IsLine(line) /\ Len(line) \in Nat \ {0} /\ line[Len(line)] = NewLine
    BY LineTyped DEF IsLine
  <2>2. 1 \in 1 .. Len(line) + 1 /\ istart = Skip(line, 1, {Blank})
    BY <2>1 DEF Init
  <2>3. Row(line, 1, {Blank}, istart)
    BY <2>1, <2>2, SkipRow
  <2>4. istart \in 1 .. Len(line)
    <3>1. Len(line) \notin 1 .. istart - 1
      BY <2>1, <2>3, Kinds DEF Row
    <3> QED
      BY <2>1, <2>3, <3>1 DEF Row
  <2>5. i \in {istart, istart + 1} /\ (i = istart => line[istart] \notin Sign)
    <3>1. i = IF line[istart] \in Sign THEN istart + 1 ELSE istart
      BY DEF Init
    <3> QED
      BY <2>4, <3>1
  <2>6. \A p \in 1 .. istart - 1 : WellFormedAt(line, p)
    BY <2>3, BlankWellFormed DEF Row
  <2> QED
    BY <2>1, <2>4, <2>5, <2>6 DEF Init, CutInv
<1>2. CutInv /\ [Next]_vars => CutInv'
  <2> SUFFICES ASSUME CutInv, [Next]_vars PROVE CutInv'
    OBVIOUS
  <2>1. CASE PutTerm
    <3>1. /\ IsLine(line) /\ istart \in 1 .. Len(line) /\ i \in {istart, istart + 1}
          /\ i = istart => line[istart] \notin Sign
      BY <2>1 DEF CutInv, PutTerm
    <3>2. Cut \in i .. Len(line) /\ NoSignBehind(Piece) /\ Len(Piece) = Cut - istart /\ Len(line) \in Nat
      <4>1. Cut \in i .. Len(line) + 1 /\ NoSignBehind(Piece) /\ Len(Piece) = Cut - istart
        BY <3>1, CutIs
      <4> QED
        BY <2>1, <3>1, <4>1 DEF PutTerm, IsLine
    <3>3. PICK c \in Nat : c = Cut /\ istart' = c /\ i' = c + 1 /\ line' = line /\ pc' = pc /\ pc = "split"
      BY <2>1, <3>1, <3>2 DEF PutTerm
    <3>4. c \in 1 .. Len(line)
      BY <3>1, <3>2, <3>3
    <3>5. ASSUME NEW p \in 1 .. c - 1 PROVE WellFormedAt(line, p)
      <4>1. CASE p < istart
        <5>1. p \in 1 .. istart - 1
          BY <3>1, <4>1
        <5> QED
          BY <3>3, <5>1 DEF CutInv
      <4>2. CASE p >= istart
        <5>1. p \in istart .. c - 1 /\ istart \in 1 .. Len(line) + 1 /\ c - 1 \in istart - 1 .. Len(line)
          BY <3>1, <3>2, <3>3, <4>2
        <5>2. p - istart + 1 \in 1 .. Len(Piece) /\ Len(Piece) \in Nat
          BY <3>1, <3>2, <3>3, <5>1
        <5>3. get(Piece).ok
          BY <2>1 DEF PutTerm
        <5>4. WellFormedAt(Piece, p - istart + 1)
          BY <3>2, <5>2, <5>3, PieceWellFormed
        <5>5. Piece = SubSeq(line, istart, c - 1) /\ line \in Seq(Char)
          BY <3>1, <3>3 DEF Piece, IsLine
        <5> QED
          BY <5>1, <5>4, <5>5, PieceInLine
      <4> QED
        BY <3>1, <4>1, <4>2
    <3>6. i' \in {istart', istart' + 1} /\ i' # istart'
      BY <3>3
    <3> QED
      BY <3>1, <3>3, <3>4, <3>5, <3>6 DEF CutInv
  <2>2. CASE Reject
    BY <2>2 DEF CutInv, Reject
  <2>3. CASE Finish
    <3>1. /\ IsLine(line) /\ istart \in 1 .. Len(line) /\ i \in {istart, istart + 1}
          /\ i = istart => line[istart] \notin Sign
      BY <2>3 DEF CutInv, Finish
    <3>2. istart = Len(line) /\ line[Len(line)] = NewLine /\ Len(line) \in Nat
      BY <2>3, <3>1, CutIs DEF Finish, IsLine
    <3>3. ASSUME NEW p \in 1 .. Len(line) PROVE WellFormedAt(line, p)
      <4>1. CASE p = Len(line)
        BY <3>2, <4>1, BlankWellFormed
      <4>2. CASE p # Len(line)
        <5>1. p \in 1 .. istart - 1
          BY <3>2, <4>2
        <5> QED
          BY <2>3, <5>1 DEF CutInv, Finish
      <4> QED
        BY <4>1, <4>2
    <3>4. line' = line /\ pc' = "done"
      BY <2>3 DEF Finish
    <3> QED
      BY <3>1, <3>3, <3>4 DEF CutInv
  <2>4. CASE UNCHANGED vars
    BY <2>4 DEF CutInv, vars
  <2> QED
    BY <2>1, <2>2, <2>3, <2>4 DEF Next
<1> QED
  BY <1>1, <1>2, PTL DEF Spec

(* A line is accepted only if every sign stands before a number or the      *)
(* variable, every star behind a number, and every '^' behind the variable  *)
(* and before a number.                                                     *)
THEOREM MalformedIsRejected == Spec => []MalformedRejected
<1>1. CutInv => MalformedRejected
  BY NotMalformed DEF CutInv, MalformedRejected, IsLine
<1> QED
  BY <1>1, CutInvHolds, PTL

-----------------------------------------------------------------------------
(* Numbers.  Width is how many ints there are; Wrap leaves an int as it is, *)
(* and otherwise adds a multiple of Width.                                  *)
Width == 2 * (IntMax + 1)

Congruent(a, b) == \E c \in Int : a = b + c * Width

(* There is an int beside 0.                                                *)
LEMMA WidthIs == IntMax \in Nat \ {0} /\ Width \in Nat \ {0} /\ Width = 2 * (IntMax + 1)
BY DerivativeAssumption DEF Width

(* Wrap gives an int, congruent to the number.                              *)
LEMMA WrapIs ==
  ASSUME NEW n \in Int
  PROVE  Wrap(n) \in TheInts /\ Wrap(n) \in Int /\ Congruent(Wrap(n), n)
<1>1. PICK W \in Nat \ {0} : W = Width
  BY WidthIs
<1>2. IntMax \in Nat \ {0} /\ W = 2 * (IntMax + 1)
  BY <1>1, WidthIs
<1>3. PICK m \in Int : m = n + IntMax + 1
  BY <1>2
<1>4. m % W \in 0 .. W - 1 /\ m \div W \in Int /\ m = W * (m \div W) + (m % W)
  OBVIOUS
<1>5. Wrap(n) = (m % W) - (IntMax + 1)
  BY <1>1, <1>3 DEF Wrap, Width
<1>6. PICK r \in 0 .. W - 1 : r = m % W
  BY <1>4
<1>7. PICK c \in Int : c = m \div W
  BY <1>4
<1>8. Wrap(n) = r - (IntMax + 1) /\ m = W * c + r
  BY <1>4, <1>5, <1>6, <1>7
<1>9. Wrap(n) = n + (-c) * W /\ -c \in Int
  <2>1. W * c = -((-c) * W)
    OBVIOUS
  <2>2. (-c) * W \in Int
    OBVIOUS
  <2>3. PICK d \in Int : d = (-c) * W
    BY <2>2
  <2>4. m = -d + r
    BY <1>8, <2>1, <2>3
  <2> QED
    BY <1>2, <1>3, <1>8, <2>3, <2>4
<1>10. Wrap(n) \in TheInts
  BY <1>2, <1>8 DEF TheInts
<1>11. Wrap(n) \in Int
  BY <1>2, <1>8
<1>12. PICK d \in Int : d = -c
  OBVIOUS
<1>13. Wrap(n) = n + d * W
  BY <1>9, <1>12
<1>14. \E x \in Int : Wrap(n) = n + x * W
  BY <1>12, <1>13
<1>15. Congruent(Wrap(n), n)
  BY <1>1, <1>14 DEF Congruent
<1> QED
  BY <1>10, <1>11, <1>15

(* Two ints that are congruent are equal.                                   *)
LEMMA IntsCongruent ==
  ASSUME NEW a \in TheInts, NEW b \in TheInts, Congruent(a, b)
  PROVE  a = b
<1>1. PICK W \in Nat \ {0} : W = Width
  BY WidthIs
<1>2. PICK c \in Int : a = b + c * W
  BY <1>1 DEF Congruent
<1>3. IntMax \in Nat \ {0} /\ W = 2 * (IntMax + 1)
  BY <1>1, WidthIs
<1>4. a \in Int /\ b \in Int /\ a - b < W /\ b - a < W
  BY <1>3 DEF TheInts
<1>5. CASE c = 0
  BY <1>2, <1>4, <1>5
<1>6. CASE c >= 1
  <2>1. c * W >= W
    BY <1>6
  <2>2. c * W \in Int
    OBVIOUS
  <2> QED
    BY <1>2, <1>4, <2>1, <2>2
<1>7. CASE c <= -1
  <2>1. c * W <= -W
    BY <1>7
  <2>2. c * W \in Int
    OBVIOUS
  <2> QED
    BY <1>2, <1>4, <2>1, <2>2
<1> QED
  BY <1>5, <1>6, <1>7

(* Congruent numbers may be added,                                          *)
LEMMA CongruentSum ==
  ASSUME NEW a \in Int, NEW b \in Int, NEW c \in Int, NEW d \in Int, Congruent(a, b), Congruent(c, d)
  PROVE  Congruent(a + c, b + d)
<1>1. PICK W \in Nat \ {0} : W = Width
  BY WidthIs
<1>2. PICK x \in Int : a = b + x * W
  BY <1>1 DEF Congruent
<1>3. PICK y \in Int : c = d + y * W
  BY <1>1 DEF Congruent
<1>4. (x + y) * W = x * W + y * W
  OBVIOUS
<1>5. x * W \in Int /\ y * W \in Int /\ x + y \in Int
  OBVIOUS
<1>6. PICK u \in Int, v \in Int : u = x * W /\ v = y * W
  BY <1>5
<1>7. a + c = b + d + (u + v) /\ u + v = (x + y) * W
  BY <1>2, <1>3, <1>4, <1>6
<1> QED
  BY <1>1, <1>5, <1>7 DEF Congruent

(* taken one after the other,                                               *)
LEMMA CongruentTrans ==
  ASSUME NEW a \in Int, NEW b \in Int, NEW c \in Int, Congruent(a, b), Congruent(b, c)
  PROVE  Congruent(a, c)
<1>1. PICK W \in Nat \ {0} : W = Width
  BY WidthIs
<1>2. PICK x \in Int : a = b + x * W
  BY <1>1 DEF Congruent
<1>3. PICK y \in Int : b = c + y * W
  BY <1>1 DEF Congruent
<1>4. (x + y) * W = x * W + y * W
  OBVIOUS
<1>5. x * W \in Int /\ y * W \in Int /\ x + y \in Int
  OBVIOUS
<1>6. PICK u \in Int, v \in Int : u = x * W /\ v = y * W
  BY <1>5
<1>7. a = c + (u + v) /\ u + v = (x + y) * W
  BY <1>2, <1>3, <1>4, <1>6
<1> QED
  BY <1>1, <1>5, <1>7 DEF Congruent

(* compared with themselves,                                                *)
LEMMA CongruentSelf ==
  ASSUME NEW a \in Int
  PROVE  Congruent(a, a)
<1>1. a = a + 0 * Width /\ 0 \in Int
  BY WidthIs
<1> QED
  BY <1>1 DEF Congruent

(* turned round,                                                            *)
LEMMA CongruentSym ==
  ASSUME NEW a \in Int, NEW b \in Int, Congruent(a, b)
  PROVE  Congruent(b, a)
<1>1. PICK W \in Nat \ {0} : W = Width
  BY WidthIs
<1>2. PICK x \in Int : a = b + x * W
  BY <1>1 DEF Congruent
<1>3. (-x) * W = -(x * W) /\ x * W \in Int /\ -x \in Int
  OBVIOUS
<1>4. PICK u \in Int : u = x * W
  BY <1>3
<1>5. b = a + (-u) /\ -u = (-x) * W
  BY <1>2, <1>3, <1>4
<1> QED
  BY <1>1, <1>3, <1>5 DEF Congruent

(* An int stays what it is.                                                 *)
LEMMA WrapInt ==
  ASSUME NEW n \in TheInts
  PROVE  Wrap(n) = n
<1>1. n \in Int
  BY WidthIs DEF TheInts
<1> QED
  BY <1>1, WrapIs, IntsCongruent

(* Congruent numbers wrap to the same int.                                  *)
LEMMA WrapCongruent ==
  ASSUME NEW a \in Int, NEW b \in Int, Congruent(a, b)
  PROVE  Wrap(a) = Wrap(b)
<1>1. Wrap(a) \in TheInts /\ Wrap(a) \in Int /\ Congruent(Wrap(a), a)
  BY WrapIs
<1>2. Wrap(b) \in TheInts /\ Wrap(b) \in Int /\ Congruent(b, Wrap(b))
  BY WrapIs, CongruentSym
<1>3. Congruent(Wrap(a), b)
  BY <1>1, CongruentTrans
<1>4. Congruent(Wrap(a), Wrap(b))
  BY <1>1, <1>2, <1>3, CongruentTrans
<1> QED
  BY <1>1, <1>2, <1>4, IntsCongruent

(* and negated.                                                             *)
LEMMA CongruentMinus ==
  ASSUME NEW a \in Int, NEW b \in Int, Congruent(a, b)
  PROVE  Congruent(-a, -b)
<1>1. PICK W \in Nat \ {0} : W = Width
  BY WidthIs
<1>2. PICK x \in Int : a = b + x * W
  BY <1>1 DEF Congruent
<1>3. (-x) * W = -(x * W) /\ x * W \in Int /\ -x \in Int
  OBVIOUS
<1>4. PICK u \in Int : u = x * W
  BY <1>3
<1>5. -a = -b + (-u) /\ -u = (-x) * W
  BY <1>2, <1>3, <1>4
<1> QED
  BY <1>1, <1>3, <1>5 DEF Congruent

(* It does not matter whether a number wraps before it is negated.          *)
LEMMA WrapMinus ==
  ASSUME NEW n \in Int
  PROVE  Wrap(-Wrap(n)) = Wrap(-n)
<1>1. Wrap(n) \in Int /\ Congruent(Wrap(n), n)
  BY WrapIs
<1>2. Congruent(-Wrap(n), -n) /\ -Wrap(n) \in Int /\ -n \in Int
  BY <1>1, CongruentMinus
<1> QED
  BY <1>2, WrapCongruent

(* The value of a string of digits, digit by digit.                         *)
ValuesOf(f, d) ==
  f = [k \in 0 .. Len(d) |-> IF k = 0 THEN 0 ELSE Wrap(10 * f[k - 1] + DigitValue(d[k]))]

(* No digit stands for two numbers.                                         *)
LEMMA DigitsDiffer == \A j, k \in 1 .. 10 : Digits[j] = Digits[k] => j = k
<1>1. \A k \in 1 .. 10 : k = 1 \/ k = 2 \/ k = 3 \/ k = 4 \/ k = 5 \/ k = 6 \/ k = 7 \/ k = 8 \/ k = 9 \/ k = 10
  OBVIOUS
<1> QED
  BY <1>1 DEF Digits

(* The value of a digit is its place.                                       *)
LEMMA DigitValueIs ==
  /\ \A c \in Numeric : DigitValue(c) \in 0 .. 9
  /\ \A k \in 0 .. 9 : DigitValue(Digits[k + 1]) = k
<1>1. DOMAIN Digits = 1 .. 10
  BY DEF Digits
<1>2. ASSUME NEW c \in Numeric PROVE DigitValue(c) \in 0 .. 9
  <2>1. \E k \in 1 .. 10 : Digits[k] = c
    BY <1>1 DEF Numeric, ToSet
  <2>2. (CHOOSE k \in 1 .. 10 : Digits[k] = c) \in 1 .. 10
    BY <2>1
  <2> QED
    BY <2>2 DEF DigitValue
<1>3. ASSUME NEW k \in 0 .. 9 PROVE DigitValue(Digits[k + 1]) = k
  <2>1. PICK j \in 1 .. 10 : j = k + 1
    OBVIOUS
  <2>2. PICK c : c = Digits[j]
    OBVIOUS
  <2>3. (CHOOSE x \in 1 .. 10 : Digits[x] = c) = j
    BY <2>2, DigitsDiffer
  <2>4. DigitValue(c) = j - 1
    BY <2>3 DEF DigitValue
  <2> QED
    BY <2>1, <2>2, <2>4
<1> QED
  BY <1>2, <1>3

(* One step of the loop of stoi gives an int.                               *)
LEMMA WrapStep ==
  ASSUME NEW v \in TheInts, NEW c \in Numeric
  PROVE  Wrap(10 * v + DigitValue(c)) \in TheInts
<1>1. v \in Int /\ DigitValue(c) \in 0 .. 9
  BY WidthIs, DigitValueIs DEF TheInts
<1>2. PICK n \in Int : n = 10 * v + DigitValue(c)
  BY <1>1
<1> QED
  BY <1>2, WrapIs

(* 0 and 1 are ints.                                                        *)
LEMMA ZeroIs == 0 \in TheInts /\ 1 \in TheInts
BY WidthIs DEF TheInts

(* There is such a function, and ValueOf is its last value.                 *)
LEMMA ValueIs ==
  ASSUME NEW d \in Seq(Numeric)
  PROVE  \E f \in [0 .. Len(d) -> TheInts] : ValuesOf(f, d) /\ ValueOf(d) = f[Len(d)]
<1>1. PICK n \in Nat : n = Len(d)
  OBVIOUS
<1>2. \A k \in 1 .. n : d[k] \in Numeric
  BY <1>1
<1> DEFINE b == [k \in 0 .. n |-> 0]
           prev == [k \in 0 .. n |-> k - 1]
           step == [x \in TheInts \X (0 .. n) |-> IF x[2] = 0 THEN 0 ELSE Wrap(10 * x[1] + DigitValue(d[x[2]]))]
<1>3. /\ \A v \in TheInts, k \in 0 .. n : step[<<v, k>>] = IF k = 0 THEN 0 ELSE Wrap(10 * v + DigitValue(d[k]))
      /\ \A k \in 0 .. n : b[k] = 0 /\ prev[k] = k - 1
  OBVIOUS
<1> HIDE DEF b, prev, step
<1>4. ASSUME NEW v \in TheInts, NEW k \in 0 .. n PROVE step[<<v, k>>] \in TheInts
  <2>1. CASE k = 0
    BY <1>3, <2>1, ZeroIs
  <2>2. CASE k # 0
    <3>1. step[<<v, k>>] = Wrap(10 * v + DigitValue(d[k]))
      BY <1>3, <2>2
    <3>2. PICK c \in Numeric : c = d[k]
      BY <1>2, <2>2
    <3> QED
      BY <3>1, <3>2, WrapStep
  <2> QED
    BY <2>1, <2>2
<1>5. \A k \in 0 .. n : b[k] \in TheInts
  BY <1>3, ZeroIs
<1>6. Backwards(0, n, {0}, prev)
  BY <1>3 DEF Backwards
<1>7. PICK h \in [0 .. n -> TheInts] : Recursive(h, 0, n, {0}, b, step, prev)
  BY <1>4, <1>5, <1>6, RecursionExists
<1>8. h = [k \in 0 .. n |-> IF k \in {0} THEN b[k] ELSE step[<<h[prev[k]], k>>]]
  BY <1>7 DEF Recursive
<1>9. ASSUME NEW k \in 0 .. n
      PROVE  (IF k \in {0} THEN b[k] ELSE step[<<h[prev[k]], k>>])
               = IF k = 0 THEN 0 ELSE Wrap(10 * h[k - 1] + DigitValue(d[k]))
  <2>1. CASE k = 0
    BY <1>3, <2>1
  <2>2. CASE k # 0
    <3>1. k - 1 \in 0 .. n /\ prev[k] = k - 1
      BY <1>3, <2>2
    <3>2. PICK v \in TheInts : v = h[k - 1]
      BY <3>1
    <3> QED
      BY <1>3, <2>2, <3>1, <3>2
  <2> QED
    BY <2>1, <2>2
<1>10. ValuesOf(h, d)
  BY <1>1, <1>8, <1>9, ZenonT(30) DEF ValuesOf
<1>11. PICK f : f = CHOOSE g : ValuesOf(g, d)
  OBVIOUS
<1>12. ValuesOf(f, d)
  BY <1>10, <1>11
<1>13. ValueOf(d) = f[n]
  BY <1>1, <1>11 DEF ValueOf, ValuesOf
<1>14. f = [k \in 0 .. n |-> IF k = 0 THEN 0 ELSE Wrap(10 * f[k - 1] + DigitValue(d[k]))]
  BY <1>1, <1>12 DEF ValuesOf
<1>15. \A k \in 0 .. n : f[k] \in TheInts
  <2> DEFINE T == {k \in 0 .. n : f[k] \in TheInts}
  <2>1. 0 \in T
    BY <1>14, ZeroIs
  <2>2. ASSUME NEW k \in 0 .. n - 1, k \in T PROVE k + 1 \in T
    <3>1. PICK j \in 1 .. n : j = k + 1
      OBVIOUS
    <3>2. PICK v \in TheInts : v = f[k]
      BY <2>2
    <3>3. PICK c \in Numeric : c = d[j]
      BY <1>2
    <3>4. f[j] = Wrap(10 * v + DigitValue(c))
      BY <1>14, <3>1, <3>2, <3>3
    <3>5. f[j] \in TheInts
      BY <3>4, WrapStep
    <3> QED
      BY <3>1, <3>5
  <2> HIDE DEF T
  <2>3. \A k \in 0 .. n : k \in T
    BY <2>1, <2>2, UpTo
  <2> QED
    BY <2>3 DEF T
<1>16. f = [k \in 0 .. n |-> f[k]]
  BY <1>14
<1>17. f \in [0 .. n -> TheInts]
  BY <1>15, <1>16
<1> QED
  BY <1>1, <1>12, <1>13, <1>17

(* What stoi reads is an int.                                               *)
LEMMA ValueTyped ==
  ASSUME NEW d \in Seq(Numeric)
  PROVE  ValueOf(d) \in TheInts
<1>1. PICK f \in [0 .. Len(d) -> TheInts] : ValuesOf(f, d) /\ ValueOf(d) = f[Len(d)]
  BY ValueIs
<1>2. Len(d) \in 0 .. Len(d)
  OBVIOUS
<1> QED
  BY <1>1, <1>2

(* One digit more.                                                          *)
LEMMA ValueAppend ==
  ASSUME NEW d \in Seq(Numeric), NEW c \in Numeric
  PROVE  ValueOf(Append(d, c)) = Wrap(10 * ValueOf(d) + DigitValue(c))
<1>1. PICK n \in Nat : n = Len(d)
  OBVIOUS
<1>2. PICK a : a = Append(d, c)
  OBVIOUS
<1>3. a \in Seq(Numeric) /\ Len(a) = n + 1 /\ a[n + 1] = c /\ \A k \in 1 .. n : a[k] = d[k]
  BY <1>1, <1>2, AppendProperties
<1>4. PICK f \in [0 .. Len(d) -> TheInts] : ValuesOf(f, d) /\ ValueOf(d) = f[Len(d)]
  BY ValueIs
<1>5. PICK g \in [0 .. Len(a) -> TheInts] : ValuesOf(g, a) /\ ValueOf(a) = g[Len(a)]
  BY <1>3, ValueIs
<1>6. f = [k \in 0 .. n |-> IF k = 0 THEN 0 ELSE Wrap(10 * f[k - 1] + DigitValue(d[k]))]
  BY <1>1, <1>4 DEF ValuesOf
<1>7. g = [k \in 0 .. n + 1 |-> IF k = 0 THEN 0 ELSE Wrap(10 * g[k - 1] + DigitValue(a[k]))]
  BY <1>3, <1>5 DEF ValuesOf
<1>8. \A k \in 0 .. n : f[k] = g[k]
  <2> DEFINE T == {k \in 0 .. n : f[k] = g[k]}
  <2>1. 0 \in T
    <3>1. f[0] = 0
      BY <1>6
    <3>2. g[0] = 0
      BY <1>7
    <3> QED
      BY <3>1, <3>2
  <2>2. ASSUME NEW k \in 0 .. n - 1, k \in T PROVE k + 1 \in T
    <3>1. PICK j \in 1 .. n : j = k + 1
      OBVIOUS
    <3>2. f[j] = Wrap(10 * f[k] + DigitValue(d[j]))
      BY <1>6, <3>1
    <3>3. g[j] = Wrap(10 * g[k] + DigitValue(a[j]))
      BY <1>7, <3>1
    <3>4. f[j] = g[j]
      BY <1>3, <2>2, <3>2, <3>3
    <3> QED
      BY <3>1, <3>4
  <2> HIDE DEF T
  <2>3. \A k \in 0 .. n : k \in T
    BY <2>1, <2>2, UpTo
  <2> QED
    BY <2>3 DEF T
<1>9. g[n + 1] = Wrap(10 * g[n] + DigitValue(c))
  BY <1>3, <1>7
<1>10. f[n] = g[n]
  BY <1>8
<1> QED
  BY <1>1, <1>2, <1>3, <1>4, <1>5, <1>9, <1>10

(* No digits are worth 0.                                                   *)
LEMMA ValueEmpty == ValueOf(<<>>) = 0
<1>1. PICK e \in Seq(Numeric) : e = <<>> /\ Len(e) = 0
  BY EmptySeq
<1>2. PICK f \in [0 .. Len(e) -> TheInts] : ValuesOf(f, e) /\ ValueOf(e) = f[Len(e)]
  BY ValueIs
<1>3. f[0] = 0
  BY <1>1, <1>2 DEF ValuesOf
<1> QED
  BY <1>1, <1>2, <1>3

(* What << has written reads as the same number.                            *)
LEMMA PlainValue ==
  ASSUME NEW m \in 0 .. IntMax + 1
  PROVE  Plain[m] \in Seq(Numeric) /\ Len(Plain[m]) \in Nat \ {0} /\ ValueOf(Plain[m]) = Wrap(m)
<1>1. PICK N \in Nat : N = IntMax + 1 /\ N >= 2
  BY WidthIs
<1>2. PICK f : f = Plain
  OBVIOUS
<1>3. f \in [0 .. N -> Seq(Numeric)]
  BY <1>1, <1>2, PlainIs
<1>4. f = [k \in 0 .. N |->
             IF k < 10 THEN <<Digits[k + 1]>> ELSE Append(f[k \div 10], Digits[(k % 10) + 1])]
  BY <1>1, <1>2, PlainIs DEF DigitsOf
<1> DEFINE Good(k) == Len(f[k]) \in Nat \ {0} /\ ValueOf(f[k]) = Wrap(k)
           Bad == {k \in 0 .. N : ~Good(k)}
<1>5. ASSUME NEW k \in 0 .. N, \A j \in 0 .. k - 1 : Good(j) PROVE Good(k)
  <2>1. CASE k < 10
    <3>1. k \in 0 .. 9
      BY <2>1
    <3>2. PICK c \in Numeric : c = Digits[k + 1]
      BY <3>1, DigitIs
    <3>3. f[k] = <<c>>
      BY <1>4, <2>1, <3>2
    <3>4. PICK e \in Seq(Numeric) : e = <<>> /\ Len(e) = 0
      BY EmptySeq
    <3>5. Append(e, c) = <<c>>
      BY <3>4
    <3>6. DigitValue(c) = k
      BY <3>1, <3>2, DigitValueIs
    <3>7. ValueOf(<<c>>) = Wrap(10 * 0 + k)
      BY <3>4, <3>5, <3>6, ValueAppend, ValueEmpty
    <3>8. 10 * 0 + k = k
      OBVIOUS
    <3>9. Len(<<c>>) = 1
      OBVIOUS
    <3> QED
      BY <3>3, <3>7, <3>8, <3>9
  <2>2. CASE ~(k < 10)
    <3>1. PICK q \in Int : q = k \div 10
      OBVIOUS
    <3>2. PICK r \in 0 .. 9 : r = k % 10
      OBVIOUS
    <3>3. k = 10 * q + r /\ q \in 0 .. k - 1
      <4>1. k \div 10 \in 0 .. k - 1
        BY <2>2
      <4>2. k = 10 * (k \div 10) + (k % 10)
        OBVIOUS
      <4> QED
        BY <3>1, <3>2, <4>1, <4>2
    <3>4. q \in 0 .. N /\ q < N
      BY <3>3
    <3>5. Len(f[q]) \in Nat \ {0} /\ ValueOf(f[q]) = Wrap(q)
      BY <1>5, <3>3
    <3>6. Wrap(q) = q
      <4>1. q \in TheInts
        BY <1>1, <3>3, <3>4, WidthIs DEF TheInts
      <4> QED
        BY <4>1, WrapInt
    <3>7. PICK c \in Numeric : c = Digits[r + 1]
      BY DigitIs
    <3>8. DigitValue(c) = r
      BY <3>7, DigitValueIs
    <3>9. f[k] = Append(f[q], c)
      BY <1>4, <2>2, <3>1, <3>2, <3>7
    <3>10. PICK d \in Seq(Numeric) : d = f[q]
      BY <1>3, <3>4
    <3>11. ValueOf(f[k]) = Wrap(10 * q + r)
      BY <3>5, <3>6, <3>8, <3>9, <3>10, ValueAppend
    <3>12. Len(f[k]) = Len(d) + 1 /\ Len(d) \in Nat
      BY <3>9, <3>10, AppendProperties
    <3> QED
      BY <3>3, <3>11, <3>12
  <2> QED
    BY <2>1, <2>2
<1>6. Bad = {}
  <2> SUFFICES ASSUME Bad # {} PROVE FALSE
    OBVIOUS
  <2>1. Bad \in SUBSET Nat
    OBVIOUS
  <2>2. PICK k \in Bad : \A j \in Bad : k <= j
    <3> HIDE DEF Bad
    <3> QED
      BY <2>1, Least
  <2>3. k \in 0 .. N /\ ~Good(k)
    OBVIOUS
  <2>4. ASSUME NEW j \in 0 .. k - 1 PROVE Good(j)
    <3>1. j \in 0 .. N /\ ~(k <= j)
      BY <2>3
    <3> QED
      BY <2>2, <3>1
  <2> HIDE DEF Good, Bad
  <2> QED
    BY <1>5, <2>3, <2>4
<1>7. m \in 0 .. N /\ Good(m)
  BY <1>1, <1>6
<1> QED
  BY <1>2, <1>3, <1>7

-----------------------------------------------------------------------------
(* v stands in s from p on.                                                 *)
At(s, p, v) ==
  /\ p \in Nat \ {0} /\ p + Len(v) <= Len(s) + 1
  /\ \A k \in 1 .. Len(v) : s[p + k - 1] = v[k]

(* Two texts one behind the other.                                          *)
LEMMA AtConcat ==
  ASSUME NEW s \in Seq(Char), NEW p, NEW u \in Seq(Char), NEW v \in Seq(Char), At(s, p, u \o v)
  PROVE  At(s, p, u) /\ At(s, p + Len(u), v) /\ Len(u \o v) = Len(u) + Len(v)
<1>1. PICK c : c = u \o v
  OBVIOUS
<1>2. /\ Len(c) = Len(u) + Len(v)
      /\ \A k \in 1 .. Len(u) + Len(v) : c[k] = IF k <= Len(u) THEN u[k] ELSE v[k - Len(u)]
  BY <1>1, ConcatProperties
<1>3. PICK a \in Nat, b \in Nat, n \in Nat : a = Len(u) /\ b = Len(v) /\ n = Len(s)
  OBVIOUS
<1>4. p \in Nat \ {0} /\ p + (a + b) <= n + 1 /\ \A k \in 1 .. a + b : s[p + k - 1] = c[k]
  BY <1>1, <1>2, <1>3 DEF At
<1>5. \A k \in 1 .. a : s[p + k - 1] = u[k]
  BY <1>2, <1>3, <1>4
<1>6. ASSUME NEW k \in 1 .. b PROVE s[(p + a) + k - 1] = v[k]
  <2>1. PICK j \in 1 .. a + b : j = a + k
    OBVIOUS
  <2>2. ~(j <= a) /\ j - a = k /\ p + j - 1 = (p + a) + k - 1
    BY <1>4, <2>1
  <2>3. c[j] = v[k]
    BY <1>2, <1>3, <2>2
  <2> QED
    BY <1>4, <2>2, <2>3
<1>7. p + a <= n + 1 /\ (p + a) + b <= n + 1 /\ p + a \in Nat \ {0}
  BY <1>4
<1> QED
  BY <1>1, <1>2, <1>3, <1>4, <1>5, <1>6, <1>7 DEF At

(* What stands at p can be cut out.                                         *)
LEMMA AtIs ==
  ASSUME NEW s \in Seq(Char), NEW p, NEW v \in Seq(Char), At(s, p, v)
  PROVE  SubSeq(s, p, p + Len(v) - 1) = v
<1>1. PICK n \in Nat, m \in Nat : n = Len(s) /\ m = Len(v)
  OBVIOUS
<1>2. p \in Nat \ {0} /\ p + m <= n + 1 /\ \A k \in 1 .. m : s[p + k - 1] = v[k]
  BY <1>1 DEF At
<1>3. PICK b \in Int : b = p + m - 1
  BY <1>2
<1>4. p \in 1 .. Len(s) + 1 /\ b \in p - 1 .. Len(s) /\ b - p + 1 = m
  BY <1>1, <1>2, <1>3
<1>5. PICK t : t = SubSeq(s, p, b)
  OBVIOUS
<1>6. t \in Seq(Char) /\ Len(t) = m /\ \A k \in 1 .. m : t[k] = s[p + k - 1]
  BY <1>4, <1>5, PieceIs
<1>7. \A k \in 1 .. Len(t) : t[k] = v[k]
  BY <1>2, <1>6
<1>8. t = v
  BY <1>1, <1>6, <1>7, SeqEqual
<1> QED
  BY <1>1, <1>3, <1>5, <1>8

(* A character, or the digits of m up to e, with blanks behind, up to q.    *)
Marked(s, p, q, c) ==
  /\ p \in 1 .. Len(s) /\ q \in p + 1 .. Len(s) + 1
  /\ s[p] = c
  /\ \A j \in p + 1 .. q - 1 : s[j] = Blank

(* A number m stands from p to e, with blanks up to q.                      *)
Numbered(s, p, q, e, m) ==
  /\ p \in 1 .. Len(s) /\ q \in p + 1 .. Len(s) + 1 /\ e \in p + 1 .. q
  /\ SubSeq(s, p, e - 1) = Plain[m]
  /\ \A j \in p .. e - 1 : s[j] \in Numeric
  /\ \A j \in e .. q - 1 : s[j] = Blank

(* The blank behind a part, or none.                                        *)
LEMMA GapBlank ==
  ASSUME NEW term \in Term, NEW s \in Seq(Char), NEW p, At(s, p, Gap1(term))
  PROVE  /\ Gap1(term) \in Seq(Char) /\ p \in Nat \ {0} /\ p + Len(Gap1(term)) <= Len(s) + 1
         /\ \A j \in p .. p + Len(Gap1(term)) - 1 : s[j] = Blank
<1>1. PICK g \in Seq(Char) : g = Gap1(term)
  BY SpellingTyped
<1>2. g = IF term.gap THEN <<Blank>> ELSE <<>>
  BY <1>1 DEF Gap1, If
<1>3. Len(<<Blank>>) = 1 /\ <<Blank>>[1] = Blank /\ Len(<<>>) = 0
  OBVIOUS
<1>4. Len(g) \in {0, 1} /\ (Len(g) = 1 => g[1] = Blank)
  BY <1>2, <1>3
<1>5. p \in Nat \ {0} /\ p + Len(g) <= Len(s) + 1 /\ \A k \in 1 .. Len(g) : s[p + k - 1] = g[k]
  BY <1>1 DEF At
<1>6. ASSUME NEW j \in p .. p + Len(g) - 1 PROVE s[j] = Blank
  <2>1. Len(g) = 1 /\ j = p + 1 - 1 /\ 1 \in 1 .. Len(g)
    BY <1>4, <1>5, SMTT(30)
  <2> QED
    BY <1>4, <1>5, <2>1
<1> QED
  BY <1>1, <1>5, <1>6

(* A sign, star, variable or '^' with its blank,                            *)
LEMMA MarkAt ==
  ASSUME NEW term \in Term, NEW s \in Seq(Char), NEW p, NEW c \in Char,
         At(s, p, <<c>> \o Gap1(term))
  PROVE  Marked(s, p, p + Len(<<c>> \o Gap1(term)), c) /\ <<c>> \o Gap1(term) \in Seq(Char)
<1>1. PICK g \in Seq(Char) : g = Gap1(term)
  BY SpellingTyped
<1>2. PICK u \in Seq(Char) : u = <<c>> /\ Len(u) = 1 /\ u[1] = c
  BY OneCharacter
<1>3. At(s, p, u \o g)
  BY <1>1, <1>2
<1>4. At(s, p, u) /\ At(s, p + Len(u), g) /\ Len(u \o g) = Len(u) + Len(g)
  BY <1>3, AtConcat
<1>5. PICK r : r = p + 1
  OBVIOUS
<1>6. At(s, r, g)
  BY <1>2, <1>4, <1>5
<1>7. r \in Nat \ {0} /\ r + Len(g) <= Len(s) + 1 /\ \A j \in r .. r + Len(g) - 1 : s[j] = Blank
  BY <1>1, <1>6, GapBlank
<1>8. p \in Nat \ {0} /\ \A k \in 1 .. 1 : s[p + k - 1] = u[k]
  BY <1>2, <1>4 DEF At
<1>9. s[p] = c
  <2>1. 1 \in 1 .. 1 /\ p + 1 - 1 = p
    BY <1>8
  <2> QED
    BY <1>2, <1>8, <2>1
<1>10. PICK q : q = p + Len(u \o g)
  OBVIOUS
<1>11. PICK n \in Nat : n = Len(g)
  OBVIOUS
<1>12. q = p + (1 + n)
  BY <1>2, <1>4, <1>10, <1>11
<1>13. q = r + n /\ q \in p + 1 .. Len(s) + 1 /\ p \in 1 .. Len(s)
  BY <1>5, <1>7, <1>8, <1>11, <1>12
<1>14. Marked(s, p, q, c)
  BY <1>5, <1>7, <1>9, <1>11, <1>13 DEF Marked
<1>15. u \o g \in Seq(Char)
  BY ConcatProperties
<1> QED
  BY <1>1, <1>2, <1>10, <1>14, <1>15

(* and a number with its blank.                                             *)
LEMMA NumberAt ==
  ASSUME NEW term \in Term, NEW s \in Seq(Char), NEW p, NEW m \in Numbers, m # None,
         At(s, p, Decimal(m) \o Gap1(term))
  PROVE  \E e : Numbered(s, p, p + Len(Decimal(m) \o Gap1(term)), e, m)
<1>1. PICK g \in Seq(Char) : g = Gap1(term)
  BY SpellingTyped
<1>2. PICK u \in Seq(Char) : u = Decimal(m) /\ u = Plain[m] /\ u \in Seq(Numeric)
  BY NumberWritten
<1>3. Len(u) \in Nat \ {0}
  <2>1. m \in 0 .. IntMax + 1
    BY NumberWritten
  <2> QED
    BY <1>2, <2>1, PlainValue
<1>4. At(s, p, u \o g)
  BY <1>1, <1>2
<1>5. At(s, p, u) /\ At(s, p + Len(u), g) /\ Len(u \o g) = Len(u) + Len(g)
  BY <1>4, AtConcat
<1>6. PICK e : e = p + Len(u)
  OBVIOUS
<1>7. At(s, e, g)
  BY <1>5, <1>6
<1>8. e \in Nat \ {0} /\ e + Len(g) <= Len(s) + 1 /\ \A j \in e .. e + Len(g) - 1 : s[j] = Blank
  BY <1>1, <1>7, GapBlank
<1>9. p \in Nat \ {0} /\ \A k \in 1 .. Len(u) : s[p + k - 1] = u[k]
  BY <1>5 DEF At
<1>10. SubSeq(s, p, e - 1) = Plain[m]
  <2>1. SubSeq(s, p, p + Len(u) - 1) = u
    BY <1>5, AtIs
  <2>2. e - 1 = p + Len(u) - 1
    BY <1>6, <1>9
  <2> QED
    BY <1>2, <2>1, <2>2
<1>11. ASSUME NEW j \in p .. e - 1 PROVE s[j] \in Numeric
  <2>1. PICK k \in 1 .. Len(u) : k = j - p + 1
    BY <1>3, <1>6, <1>9
  <2>2. p + k - 1 = j
    BY <1>9, <2>1
  <2>3. u[k] \in Numeric
    BY <1>2
  <2> QED
    BY <1>9, <2>2, <2>3
<1>12. PICK q : q = p + Len(u \o g)
  OBVIOUS
<1>13. PICK n \in Nat, l \in Nat : n = Len(g) /\ l = Len(u)
  OBVIOUS
<1>14. q = p + (l + n) /\ e = p + l /\ l > 0
  BY <1>3, <1>5, <1>6, <1>12, <1>13
<1>15. q = e + n /\ q \in p + 1 .. Len(s) + 1 /\ p \in 1 .. Len(s) /\ e \in p + 1 .. q
  BY <1>8, <1>9, <1>13, <1>14
<1>16. Numbered(s, p, q, e, m)
  BY <1>8, <1>10, <1>11, <1>13, <1>15 DEF Numbered
<1> QED
  BY <1>1, <1>2, <1>12, <1>16

(* Where the parts of a spelling stand: the sign up to b, the coefficient   *)
(* up to st, its digits up to e, the star up to v, the variable up to pw,   *)
(* '^' up to d, and the digits of the exponent up to e2.                    *)
HasSign(term) == term.sign # ""

(* A term in a spelling: sign, coefficient, star, variable, '^' and         *)
(* exponent, at their places.                                               *)
Laid(s, term, b, st, e, v, pw, d, e2) ==
  /\ IF HasSign(term) THEN Marked(s, 1, b, term.sign) ELSE b = 1
  /\ IF term.koef # None THEN Numbered(s, b, st, e, term.koef) ELSE st = b /\ e = b
  /\ IF term.koef # None /\ term.var THEN Marked(s, st, v, "*") ELSE v = st
  /\ IF term.var THEN Marked(s, v, pw, "x") ELSE pw = v
  /\ IF term.var /\ term.exp # None
     THEN Marked(s, pw, d, "^") /\ Numbered(s, d, Len(s) + 1, e2, term.exp)
     ELSE pw = Len(s) + 1 /\ d = Len(s) + 1 /\ e2 = Len(s) + 1

(* Joining is associative.                                                  *)
Joins(u, v, w) == (u \o v) \o w = u \o (v \o w)

(* Texts may be joined in either order.                                     *)
LEMMA JoinTwice ==
  ASSUME NEW u \in Seq(Char), NEW v \in Seq(Char), NEW w \in Seq(Char)
  PROVE  Joins(u, v, w)
<1>1. PICK a \in Nat, b \in Nat, c \in Nat : a = Len(u) /\ b = Len(v) /\ c = Len(w)
  OBVIOUS
<1>2. PICK uv \in Seq(Char) : uv = u \o v /\ Len(uv) = a + b
                              /\ \A k \in 1 .. a + b : uv[k] = IF k <= a THEN u[k] ELSE v[k - a]
  <2>1. PICK t : t = u \o v
    OBVIOUS
  <2>2. /\ t \in Seq(Char) /\ Len(t) = Len(u) + Len(v)
        /\ \A k \in 1 .. Len(u) + Len(v) : t[k] = IF k <= Len(u) THEN u[k] ELSE v[k - Len(u)]
    BY <2>1, ConcatProperties
  <2> QED
    BY <1>1, <2>1, <2>2
<1>3. PICK vw \in Seq(Char) : vw = v \o w /\ Len(vw) = b + c
                              /\ \A k \in 1 .. b + c : vw[k] = IF k <= b THEN v[k] ELSE w[k - b]
  <2>1. PICK t : t = v \o w
    OBVIOUS
  <2>2. /\ t \in Seq(Char) /\ Len(t) = Len(v) + Len(w)
        /\ \A k \in 1 .. Len(v) + Len(w) : t[k] = IF k <= Len(v) THEN v[k] ELSE w[k - Len(v)]
    BY <2>1, ConcatProperties
  <2> QED
    BY <1>1, <2>1, <2>2
<1>9. PICK ab \in Nat, bc \in Nat : ab = a + b /\ bc = b + c /\ Len(uv) = ab /\ Len(vw) = bc
  BY <1>2, <1>3
<1>4. PICK l \in Seq(Char) : l = uv \o w /\ Len(l) = ab + c
                              /\ \A k \in 1 .. ab + c : l[k] = IF k <= ab THEN uv[k] ELSE w[k - ab]
  <2>1. PICK t : t = uv \o w
    OBVIOUS
  <2>2. /\ t \in Seq(Char) /\ Len(t) = Len(uv) + Len(w)
        /\ \A k \in 1 .. Len(uv) + Len(w) : t[k] = IF k <= Len(uv) THEN uv[k] ELSE w[k - Len(uv)]
    BY <2>1, ConcatProperties
  <2>3. Len(t) = ab + c /\ \A k \in 1 .. ab + c : t[k] = IF k <= ab THEN uv[k] ELSE w[k - ab]
    BY <1>1, <1>9, <2>2
  <2> QED
    BY <2>1, <2>2, <2>3
<1>5. PICK r \in Seq(Char) : r = u \o vw /\ Len(r) = a + bc
                              /\ \A k \in 1 .. a + bc : r[k] = IF k <= a THEN u[k] ELSE vw[k - a]
  <2>1. PICK t : t = u \o vw
    OBVIOUS
  <2>2. /\ t \in Seq(Char) /\ Len(t) = Len(u) + Len(vw)
        /\ \A k \in 1 .. Len(u) + Len(vw) : t[k] = IF k <= Len(u) THEN u[k] ELSE vw[k - Len(u)]
    BY <2>1, ConcatProperties
  <2> QED
    BY <1>1, <1>9, <2>1, <2>2
<1>6. ASSUME NEW k \in 1 .. Len(l) PROVE l[k] = r[k]
  <2>1. k \in 1 .. ab + c /\ k \in 1 .. a + bc
    BY <1>4, <1>9
  <2>2. CASE k <= a
    <3>1. k <= ab /\ k \in 1 .. ab
      BY <1>9, <2>1, <2>2
    <3> QED
      BY <1>2, <1>4, <1>5, <1>9, <2>1, <2>2, <3>1
  <2>3. CASE ~(k <= a) /\ k <= ab
    <3>1. PICK j \in 1 .. bc : j = k - a
      BY <1>9, <2>1, <2>3
    <3>2. j <= b /\ k \in 1 .. ab
      BY <1>9, <2>1, <2>3, <3>1
    <3>3. l[k] = v[j]
      BY <1>2, <1>4, <1>9, <2>1, <2>3, <3>1, <3>2
    <3>4. r[k] = vw[j]
      BY <1>5, <2>1, <2>3, <3>1
    <3> QED
      BY <1>3, <1>9, <3>2, <3>3, <3>4
  <2>4. CASE ~(k <= ab)
    <3>1. PICK j \in 1 .. bc : j = k - a
      BY <1>9, <2>1, <2>4
    <3>2. ~(k <= a) /\ ~(j <= b) /\ j - b = k - ab
      BY <1>9, <2>1, <2>4, <3>1
    <3>3. l[k] = w[k - ab]
      BY <1>4, <2>1, <2>4
    <3>4. r[k] = vw[j]
      BY <1>5, <2>1, <3>1, <3>2
    <3> QED
      BY <1>3, <1>9, <3>2, <3>3, <3>4
  <2> QED
    BY <2>2, <2>3, <2>4
<1>7. Len(l) = Len(r)
  BY <1>4, <1>5, <1>9
<1>8. l = r
  BY <1>6, <1>7, SeqEqual
<1> QED
  BY <1>2, <1>3, <1>4, <1>5, <1>8 DEF Joins

(* Every spelling is laid so.                                               *)
LEMMA SpellingLaid ==
  ASSUME NEW term \in Term
  PROVE  \E b, st, e, v, pw, d, e2 : Laid(Spelling(term), term, b, st, e, v, pw, d, e2)
<1>1. PICK s \in Seq(Char) : s = Spelling(term)
  BY SpellingTyped
<1>2. PICK A \in Seq(Char), B \in Seq(Char), C \in Seq(Char), D \in Seq(Char), E \in Seq(Char) :
        A = SignPart(term) /\ B = KoefPart(term) /\ C = StarPart(term) /\ D = VarPart(term) /\ E = ExpPart(term)
  BY SpellingTyped
<1>3. s = A \o B \o C \o D \o E
  BY <1>1, <1>2, SpellingParts
<1>4. PICK AB \in Seq(Char), ABC \in Seq(Char), ABCD \in Seq(Char) :
        AB = A \o B /\ ABC = AB \o C /\ ABCD = ABC \o D
  BY ConcatProperties
<1>5. s = ABCD \o E
  BY <1>3, <1>4
<1>0. PICK o : o = 1
  OBVIOUS
<1>6. At(s, o, ABCD \o E)
  BY <1>0, <1>5 DEF At
<1>7. At(s, o, ABCD) /\ At(s, o + Len(ABCD), E) /\ Len(ABCD \o E) = Len(ABCD) + Len(E)
  BY <1>6, AtConcat
<1>8. At(s, o, ABC) /\ At(s, o + Len(ABC), D) /\ Len(ABC \o D) = Len(ABC) + Len(D)
  <2>1. At(s, o, ABC \o D)
    BY <1>4, <1>7
  <2> QED
    BY <2>1, AtConcat
<1>9. At(s, o, AB) /\ At(s, o + Len(AB), C) /\ Len(AB \o C) = Len(AB) + Len(C)
  <2>1. At(s, o, AB \o C)
    BY <1>4, <1>8
  <2> QED
    BY <2>1, AtConcat
<1>10. At(s, o, A) /\ At(s, o + Len(A), B) /\ Len(A \o B) = Len(A) + Len(B)
  <2>1. At(s, o, A \o B)
    BY <1>4, <1>9
  <2> QED
    BY <2>1, AtConcat
<1>11. PICK b, st, v, pw :
         b = o + Len(A) /\ st = o + Len(AB) /\ v = o + Len(ABC) /\ pw = o + Len(ABCD)
  OBVIOUS
<1>12. /\ st = b + Len(B) /\ v = st + Len(C) /\ pw = v + Len(D) /\ Len(s) + 1 = pw + Len(E)
       /\ b \in Nat /\ st \in Nat /\ v \in Nat /\ pw \in Nat
  <2>1. Len(A) \in Nat /\ Len(B) \in Nat /\ Len(C) \in Nat /\ Len(D) \in Nat /\ Len(E) \in Nat
    OBVIOUS
  <2>2. /\ Len(AB) = Len(A) + Len(B) /\ Len(ABC) = Len(AB) + Len(C)
        /\ Len(ABCD) = Len(ABC) + Len(D) /\ Len(s) = Len(ABCD) + Len(E)
    BY <1>4, <1>5, <1>7, <1>8, <1>9, <1>10
  <2>3. PICK la \in Nat, lb \in Nat, lc \in Nat, ld \in Nat, le \in Nat :
          la = Len(A) /\ lb = Len(B) /\ lc = Len(C) /\ ld = Len(D) /\ le = Len(E)
    BY <2>1
  <2>4. b = 1 + la /\ st = 1 + (la + lb) /\ v = 1 + (la + lb + lc) /\ pw = 1 + (la + lb + lc + ld)
    BY <1>0, <1>11, <2>2, <2>3
  <2>5. Len(s) = la + lb + lc + ld + le
    BY <2>2, <2>3
  <2> QED
    BY <2>3, <2>4, <2>5, SMTT(30)
<1>13. At(s, o, A) /\ At(s, b, B) /\ At(s, st, C) /\ At(s, v, D) /\ At(s, pw, E)
  BY <1>7, <1>8, <1>9, <1>10, <1>11
<1>14. /\ term.sign \in Sign \cup {""} /\ term.koef \in Numbers /\ term.var \in BOOLEAN
       /\ term.exp \in Numbers /\ term.gap \in BOOLEAN
  BY DEF Term
<1>15. IF HasSign(term) THEN Marked(s, 1, b, term.sign) ELSE b = 1
  <2>1. CASE HasSign(term)
    <3>1. term.sign \in Char /\ A = <<term.sign>> \o Gap1(term)
      BY <1>2, <1>14, <2>1, Characters DEF SignPart, If, HasSign
    <3>2. At(s, o, <<term.sign>> \o Gap1(term))
      BY <1>13, <3>1
    <3>3. Marked(s, o, o + Len(A), term.sign)
      BY <3>1, <3>2, MarkAt
    <3> QED
      BY <1>0, <1>11, <2>1, <3>3
  <2>2. CASE ~HasSign(term)
    <3>1. A = <<>> /\ Len(<<>>) = 0
      BY <1>2, <2>2 DEF SignPart, If, HasSign
    <3>2. b = 1
      BY <1>0, <1>11, <1>12, <3>1
    <3> QED
      BY <2>2, <3>2
  <2> QED
    BY <2>1, <2>2
<1>16. \E e : IF term.koef # None THEN Numbered(s, b, st, e, term.koef) ELSE st = b /\ e = b
  <2>1. CASE term.koef # None
    <3>1. B = Decimal(term.koef) \o Gap1(term)
      BY <1>2, <2>1 DEF KoefPart, If
    <3>2. At(s, b, Decimal(term.koef) \o Gap1(term))
      BY <1>13, <3>1
    <3>3. \E e : Numbered(s, b, b + Len(B), e, term.koef)
      BY <1>14, <2>1, <3>1, <3>2, NumberAt
    <3> QED
      BY <1>12, <2>1, <3>3
  <2>2. CASE term.koef = None
    <3>1. B = <<>> /\ Len(<<>>) = 0
      BY <1>2, <2>2 DEF KoefPart, If
    <3>2. st = b
      BY <1>12, <3>1
    <3> QED
      BY <2>2, <3>2
  <2> QED
    BY <2>1, <2>2
<1>17. IF term.koef # None /\ term.var THEN Marked(s, st, v, "*") ELSE v = st
  <2>1. CASE term.koef # None /\ term.var
    <3>1. C = <<"*">> \o Gap1(term)
      BY <1>2, <2>1 DEF StarPart, If
    <3>2. At(s, st, <<"*">> \o Gap1(term)) /\ "*" \in Char
      BY <1>13, <3>1, Characters
    <3>3. Marked(s, st, st + Len(C), "*")
      BY <3>1, <3>2, MarkAt
    <3> QED
      BY <1>12, <2>1, <3>3
  <2>2. CASE ~(term.koef # None /\ term.var)
    <3>1. C = <<>> /\ Len(<<>>) = 0
      BY <1>2, <2>2 DEF StarPart, If
    <3>2. v = st
      BY <1>12, <3>1
    <3> QED
      BY <2>2, <3>2
  <2> QED
    BY <2>1, <2>2
<1>18. IF term.var THEN Marked(s, v, pw, "x") ELSE pw = v
  <2>1. CASE term.var
    <3>1. D = <<"x">> \o Gap1(term)
      BY <1>2, <2>1 DEF VarPart, If
    <3>2. At(s, v, <<"x">> \o Gap1(term)) /\ "x" \in Char
      BY <1>13, <3>1, Characters
    <3>3. Marked(s, v, v + Len(D), "x")
      BY <3>1, <3>2, MarkAt
    <3> QED
      BY <1>12, <2>1, <3>3
  <2>2. CASE ~term.var
    <3>1. D = <<>> /\ Len(<<>>) = 0
      BY <1>2, <2>2 DEF VarPart, If
    <3>2. pw = v
      BY <1>12, <3>1
    <3> QED
      BY <2>2, <3>2
  <2> QED
    BY <2>1, <2>2
<1>19. \E d, e2 : IF term.var /\ term.exp # None
                  THEN Marked(s, pw, d, "^") /\ Numbered(s, d, Len(s) + 1, e2, term.exp)
                  ELSE pw = Len(s) + 1 /\ d = Len(s) + 1 /\ e2 = Len(s) + 1
  <2>1. CASE term.var /\ term.exp # None
    <3>1. PICK g \in Seq(Char), x \in Seq(Char), u \in Seq(Char) :
            g = Gap1(term) /\ x = Decimal(term.exp) /\ u = <<"^">>
      BY <1>14, <2>1, NumberWritten, SpellingTyped, Characters, OneCharacter
    <3>2. E = u \o g \o x \o g
      BY <1>2, <2>1, <3>1 DEF ExpPart, If
    <3>3. PICK ug \in Seq(Char), xg \in Seq(Char) : ug = u \o g /\ xg = x \o g
      BY ConcatProperties
    <3>4. E = ug \o xg
      <4>1. Joins(ug, x, g)
        BY JoinTwice
      <4> QED
        BY <3>2, <3>3, <4>1 DEF Joins
    <3>5. At(s, pw, ug) /\ At(s, pw + Len(ug), xg) /\ Len(E) = Len(ug) + Len(xg)
      BY <1>13, <3>4, AtConcat
    <3>6. PICK d : d = pw + Len(ug)
      OBVIOUS
    <3>7. Marked(s, pw, pw + Len(ug), "^")
      <4>1. ug = <<"^">> \o Gap1(term) /\ "^" \in Char
        BY <3>1, <3>3, Characters
      <4>2. At(s, pw, <<"^">> \o Gap1(term))
        BY <3>5, <4>1
      <4> QED
        BY <4>1, <4>2, MarkAt
    <3>8. \E e2 : Numbered(s, d, d + Len(xg), e2, term.exp)
      <4>1. xg = Decimal(term.exp) \o Gap1(term)
        BY <3>1, <3>3
      <4>2. At(s, d, Decimal(term.exp) \o Gap1(term))
        BY <3>5, <3>6, <4>1
      <4> QED
        BY <1>14, <2>1, <4>1, <4>2, NumberAt
    <3>9. d + Len(xg) = Len(s) + 1
      <4>1. PICK m \in Nat, n \in Nat : m = Len(ug) /\ n = Len(xg)
        OBVIOUS
      <4>2. Len(E) = m + n /\ d = pw + m
        BY <3>5, <3>6, <4>1
      <4>3. Len(s) + 1 = pw + (m + n)
        BY <1>12, <4>2
      <4> QED
        BY <1>12, <4>1, <4>2, <4>3
    <3>10. \E e2 : Numbered(s, d, Len(s) + 1, e2, term.exp)
      BY <3>8, <3>9
    <3>11. Marked(s, pw, d, "^")
      BY <3>6, <3>7
    <3> QED
      BY <2>1, <3>10, <3>11
  <2>2. CASE ~(term.var /\ term.exp # None)
    <3>1. E = <<>> /\ Len(<<>>) = 0
      BY <1>2, <2>2 DEF ExpPart, If
    <3>2. pw = Len(s) + 1
      BY <1>12, <3>1
    <3> QED
      BY <2>2, <3>2
  <2> QED
    BY <2>1, <2>2
<1>20. PICK e : IF term.koef # None THEN Numbered(s, b, st, e, term.koef) ELSE st = b /\ e = b
  BY <1>16
<1>21. PICK d, e2 : IF term.var /\ term.exp # None
                    THEN Marked(s, pw, d, "^") /\ Numbered(s, d, Len(s) + 1, e2, term.exp)
                    ELSE pw = Len(s) + 1 /\ d = Len(s) + 1 /\ e2 = Len(s) + 1
  BY <1>19
<1>22. Laid(s, term, b, st, e, v, pw, d, e2)
  BY <1>15, <1>17, <1>18, <1>20, <1>21 DEF Laid
<1> QED
  BY <1>1, <1>22

(* The parts come one behind the other, with no sign but the first.         *)
LEMMA LaidPlaces ==
  ASSUME NEW s \in Seq(Char), NEW term \in Term, term.var \/ term.koef # None,
         NEW b, NEW st, NEW e, NEW v, NEW pw, NEW d, NEW e2, Laid(s, term, b, st, e, v, pw, d, e2)
  PROVE  /\ Len(s) \in Nat \ {0}
         /\ b \in 1 .. Len(s) /\ st \in b .. Len(s) + 1 /\ e \in b .. st /\ v \in st .. Len(s) + 1
         /\ pw \in v .. Len(s) + 1 /\ d \in pw .. Len(s) + 1 /\ e2 \in d .. Len(s) + 1
<1>1. PICK n \in Nat : n = Len(s)
  OBVIOUS
<1>2. (HasSign(term) /\ 1 \in 1 .. n /\ b \in 2 .. n + 1) \/ b = 1
  <2>1. CASE HasSign(term)
    <3>1. Marked(s, 1, b, term.sign)
      BY <2>1 DEF Laid
    <3> QED
      BY <1>1, <2>1, <3>1 DEF Marked
  <2>2. CASE ~HasSign(term)
    BY <2>2 DEF Laid
  <2> QED
    BY <2>1, <2>2
<1>3. /\ b \in 1 .. n + 1
      /\ (term.koef # None /\ b \in 1 .. n /\ st \in b + 1 .. n + 1 /\ e \in b + 1 .. st)
         \/ (term.koef = None /\ st = b /\ e = b)
  <2>1. b \in 1 .. n + 1
    BY <1>2
  <2>2. CASE term.koef # None
    <3>1. Numbered(s, b, st, e, term.koef)
      BY <2>2 DEF Laid
    <3> QED
      BY <1>1, <2>1, <2>2, <3>1 DEF Numbered
  <2>3. CASE term.koef = None
    BY <2>1, <2>3 DEF Laid
  <2> QED
    BY <2>2, <2>3
<1>4. st \in b .. n + 1 /\ e \in b .. st /\ ((st \in 1 .. n /\ v \in st + 1 .. n + 1) \/ v = st)
  <2>1. st \in b .. n + 1 /\ e \in b .. st
    BY <1>3
  <2>2. CASE term.koef # None /\ term.var
    <3>1. Marked(s, st, v, "*")
      BY <2>2 DEF Laid
    <3> QED
      BY <1>1, <2>1, <3>1 DEF Marked
  <2>3. CASE ~(term.koef # None /\ term.var)
    BY <2>1, <2>3 DEF Laid
  <2> QED
    BY <2>2, <2>3
<1>5. v \in st .. n + 1 /\ ((term.var /\ v \in 1 .. n /\ pw \in v + 1 .. n + 1) \/ (~term.var /\ pw = v))
  <2>1. v \in st .. n + 1
    BY <1>3, <1>4
  <2>2. CASE term.var
    <3>1. Marked(s, v, pw, "x")
      BY <2>2 DEF Laid
    <3> QED
      BY <1>1, <2>1, <2>2, <3>1 DEF Marked
  <2>3. CASE ~term.var
    BY <2>1, <2>3 DEF Laid
  <2> QED
    BY <2>2, <2>3
<1>6. pw \in v .. n + 1 /\ d \in pw .. n + 1 /\ e2 \in d .. n + 1
  <2>1. pw \in v .. n + 1
    BY <1>3, <1>4, <1>5
  <2>2. CASE term.var /\ term.exp # None
    <3>1. Marked(s, pw, d, "^") /\ Numbered(s, d, n + 1, e2, term.exp)
      BY <1>1, <2>2 DEF Laid
    <3> QED
      BY <1>1, <2>1, <3>1 DEF Marked, Numbered
  <2>3. CASE ~(term.var /\ term.exp # None)
    BY <1>1, <2>1, <2>3 DEF Laid
  <2> QED
    BY <2>2, <2>3
<1>7. b \in 1 .. n
  BY <1>3, <1>4, <1>5
<1> QED
  BY <1>1, <1>4, <1>5, <1>6, <1>7

(* A sign can only stand in front, and nothing else can be cut at.          *)
LEMMA LaidCharacters ==
  ASSUME NEW s \in Seq(Char), NEW term \in Term, term.var \/ term.koef # None,
         NEW b, NEW st, NEW e, NEW v, NEW pw, NEW d, NEW e2, Laid(s, term, b, st, e, v, pw, d, e2)
  PROVE  /\ s[1] \notin {Blank, NewLine} /\ (s[1] \in Sign <=> HasSign(term))
         /\ HasSign(term) => s[1] = term.sign
         /\ \A j \in 2 .. Len(s) : s[j] \notin Sign \cup {NewLine}
<1>1. PICK n \in Nat \ {0} : n = Len(s)
  BY LaidPlaces
<1>2. /\ b \in 1 .. n /\ st \in b .. n + 1 /\ e \in b .. st /\ v \in st .. n + 1
      /\ pw \in v .. n + 1 /\ d \in pw .. n + 1 /\ e2 \in d .. n + 1
  BY <1>1, LaidPlaces
<1> DEFINE Inner(j) == s[j] \in Numeric \cup {Blank, "*", "x", "^"}
<1>3. \A c \in Numeric \cup {Blank, "*", "x", "^"} : c \notin Sign \cup {NewLine}
  BY NumericIs DEF Blank, Sign, NewLine
<1>4. ASSUME NEW j \in b .. n PROVE Inner(j)
  <2>1. CASE j < st
    <3>1. Numbered(s, b, st, e, term.koef)
      BY <1>2, <2>1 DEF Laid
    <3>2. j \in b .. e - 1 \/ j \in e .. st - 1
      BY <1>2, <2>1
    <3> QED
      BY <3>1, <3>2 DEF Numbered
  <2>2. CASE j >= st /\ j < v
    <3>1. Marked(s, st, v, "*")
      BY <1>2, <2>2 DEF Laid
    <3>2. j = st \/ j \in st + 1 .. v - 1
      BY <1>2, <2>2
    <3> QED
      BY <3>1, <3>2 DEF Marked
  <2>3. CASE j >= v /\ j < pw
    <3>1. Marked(s, v, pw, "x")
      BY <1>2, <2>3 DEF Laid
    <3>2. j = v \/ j \in v + 1 .. pw - 1
      BY <1>2, <2>3
    <3> QED
      BY <3>1, <3>2 DEF Marked
  <2>4. CASE j >= pw /\ j < d
    <3>1. Marked(s, pw, d, "^")
      BY <1>1, <1>2, <2>4 DEF Laid
    <3>2. j = pw \/ j \in pw + 1 .. d - 1
      BY <1>2, <2>4
    <3> QED
      BY <3>1, <3>2 DEF Marked
  <2>5. CASE j >= d
    <3>1. Numbered(s, d, n + 1, e2, term.exp)
      BY <1>1, <1>2, <2>5 DEF Laid
    <3>2. j \in d .. e2 - 1 \/ j \in e2 .. (n + 1) - 1
      BY <1>2, <2>5
    <3> QED
      BY <3>1, <3>2 DEF Numbered
  <2> QED
    BY <1>2, <2>1, <2>2, <2>3, <2>4, <2>5
<1>5. s[b] \in Numeric \cup {"x"}
  <2>1. CASE term.koef # None
    <3>1. Numbered(s, b, st, e, term.koef)
      BY <2>1 DEF Laid
    <3>2. b \in b .. e - 1
      BY <1>2, <3>1 DEF Numbered
    <3> QED
      BY <3>1, <3>2 DEF Numbered
  <2>2. CASE term.koef = None /\ term.var
    <3>1. Marked(s, v, pw, "x") /\ v = b
      BY <2>2 DEF Laid
    <3> QED
      BY <3>1 DEF Marked
  <2> QED
    BY <2>1, <2>2
<1>6. CASE HasSign(term)
  <2>1. Marked(s, 1, b, term.sign)
    BY <1>6 DEF Laid
  <2>2. s[1] = term.sign /\ \A j \in 2 .. b - 1 : s[j] = Blank
    BY <2>1 DEF Marked
  <2>3. term.sign \in Sign
    BY <1>6 DEF Term, HasSign
  <2>4. s[1] \in Sign /\ s[1] \notin {Blank, NewLine}
    BY <2>2, <2>3, Kinds
  <2>5. ASSUME NEW j \in 2 .. n PROVE s[j] \notin Sign \cup {NewLine}
    <3>1. CASE j < b
      <4>1. s[j] = Blank
        BY <1>2, <2>2, <3>1
      <4> QED
        BY <1>3, <4>1
    <3>2. CASE j >= b
      <4>1. Inner(j)
        BY <1>2, <1>4, <3>2
      <4> QED
        BY <1>3, <4>1
    <3> QED
      BY <1>2, <3>1, <3>2
  <2> QED
    BY <1>1, <1>6, <2>2, <2>4, <2>5
<1>7. CASE ~HasSign(term)
  <2>1. b = 1
    BY <1>7 DEF Laid
  <2>2. s[1] \notin Sign /\ s[1] \notin {Blank, NewLine}
    BY <1>5, <2>1, NumericIs DEF Sign, Blank, NewLine
  <2>3. \A j \in 2 .. n : Inner(j)
    BY <1>4, <2>1, SMTT(30)
  <2> QED
    BY <1>1, <1>3, <1>7, <2>2, <2>3
<1> QED
  BY <1>6, <1>7

-----------------------------------------------------------------------------
(* stoi and get find the only places there are.                             *)
LEMMA StoiIs ==
  ASSUME NEW s, Len(s) \in Nat, NEW p \in 1 .. Len(s) + 1, NEW sign, NEW begin, NEW end,
         StoiAt(s, p, sign, begin, end)
  PROVE  stoi(s, p) = StoiResult(s, sign, begin, end)
<1>1. /\ sign \in p .. Len(s) + 1 /\ begin \in sign .. Len(s) + 1 /\ end \in begin .. Len(s) + 1
      /\ Behind(s, sign, Sign) \in sign .. begin
  BY StoiWithin
<1>2. Skip(s, p, {Blank}) = sign
  BY RowIs DEF StoiAt
<1>3. PICK r : r = Behind(s, sign, Sign)
  OBVIOUS
<1>4. r \in 1 .. Len(s) + 1 /\ begin \in 1 .. Len(s) + 1
  BY <1>1, <1>3
<1>5. Row(s, r, {Blank}, begin) /\ Row(s, begin, Numeric, end)
  BY <1>3 DEF StoiAt
<1>6. Skip(s, r, {Blank}) = begin
  BY <1>4, <1>5, RowIs
<1>7. Skip(s, begin, Numeric) = end
  BY <1>4, <1>5, RowIs
<1> QED
  BY <1>2, <1>3, <1>6, <1>7 DEF stoi, StoiResult, Behind

(* Any places that fit are the ones get finds.                              *)
LEMMA GetIs ==
  ASSUME NEW s, Len(s) \in Nat, NEW sign, NEW begin, NEW end, NEW star, NEW var,
         NEW after, NEW power, NEW sign2, NEW begin2, NEW end2,
         GetAt(s, sign, begin, end, star, var, after, power, sign2, begin2, end2)
  PROVE  get(s) = GetResult(s, sign, begin, end, var, after, power, sign2, begin2, end2)
<1>1. PICK koef : koef = stoi(s, 1)
  OBVIOUS
<1>2. koef = StoiResult(s, sign, begin, end) /\ koef.pos = end /\ koef.number = (end > begin)
  <2>1. 1 \in 1 .. Len(s) + 1 /\ StoiAt(s, 1, sign, begin, end)
    BY DEF GetAt
  <2>2. koef = StoiResult(s, sign, begin, end)
    BY <1>1, <2>1, StoiIs
  <2> QED
    BY <2>2 DEF StoiResult
<1>3. /\ end \in 1 .. Len(s) + 1 /\ star \in end .. Len(s) + 1 /\ var \in end .. Len(s) + 1
      /\ after \in var .. Len(s) + 1 /\ power \in after .. Len(s) + 1
      /\ Behind(s, power, {"^"}) \in power .. Len(s) + 1
  <2>1. /\ sign \in 1 .. Len(s) + 1 /\ begin \in sign .. Len(s) + 1 /\ end \in begin .. Len(s) + 1
        /\ star \in end .. Len(s) + 1 /\ var \in end .. Len(s) + 1 /\ after \in var .. Len(s) + 1
        /\ power \in after .. Len(s) + 1 /\ Behind(s, power, {"^"}) \in power .. Len(s) + 1
    BY GetWithin
  <2> QED
    BY <2>1
<1>4. star = Skip(s, end, {Blank})
  <2>1. Row(s, end, {Blank}, star)
    BY DEF GetAt
  <2> QED
    BY <1>3, <2>1, RowIs
<1>5. PICK p : p = IF end > begin /\ CharAt(s, star) = "*" THEN star + 1 ELSE end
  OBVIOUS
<1>6. var = Skip(s, p, {Blank})
  <2>1. Row(s, p, {Blank}, var)
    BY <1>5 DEF GetAt
  <2>2. p \in 1 .. Len(s) + 1
    <3>1. CharAt(s, star) = "*" => star <= Len(s)
      BY Kinds DEF CharAt
    <3> QED
      BY <1>3, <1>5, <3>1
  <2> QED
    BY <2>1, <2>2, RowIs
<1>7. after = Skip(s, var, Alpha)
  <2>1. Row(s, var, Alpha, after) /\ var \in 1 .. Len(s) + 1
    BY <1>3 DEF GetAt
  <2> QED
    BY <2>1, RowIs
<1>8. power = Skip(s, after, {Blank})
  <2>1. Row(s, after, {Blank}, power) /\ after \in 1 .. Len(s) + 1
    BY <1>3 DEF GetAt
  <2> QED
    BY <2>1, RowIs
<1>9. PICK p2 : p2 = Behind(s, power, {"^"})
  OBVIOUS
<1>10. stoi(s, p2) = StoiResult(s, sign2, begin2, end2)
  <2>1. p2 \in 1 .. Len(s) + 1 /\ StoiAt(s, p2, sign2, begin2, end2)
    BY <1>3, <1>9 DEF GetAt
  <2> QED
    BY <2>1, StoiIs
<1>11. p2 = IF CharAt(s, power) = "^" THEN power + 1 ELSE power
  BY <1>9 DEF Behind
<1>12. PICK exp : exp = stoi(s, p2)
  OBVIOUS
<1>13. get(s) =
         [ok   |-> /\ OnlyBlanks(s, IF after > var THEN exp.pos ELSE var)
                   /\ IF after > var THEN CharAt(s, power) = "^" => exp.number ELSE koef.number,
          koef |-> IF after > var /\ ~koef.number /\ koef.value = 0 THEN 1 ELSE koef.value,
          exp  |-> IF ~(after > var) THEN 0 ELSE IF exp.number THEN exp.value ELSE 1]
  <2>1. star = Skip(s, koef.pos, {Blank})
    BY <1>2, <1>4
  <2>2. p = IF koef.number /\ CharAt(s, star) = "*" THEN star + 1 ELSE koef.pos
    BY <1>2, <1>5
  <2>3. exp = stoi(s, IF CharAt(s, power) = "^" THEN power + 1 ELSE power)
    BY <1>11, <1>12
  <2> QED
    BY <1>1, <2>1, <2>2, <1>6, <1>7, <1>8, <2>3 DEF get
<1> QED
  BY <1>2, <1>10, <1>12, <1>13 DEF GetResult

(* get finds the parts of a spelling where they are laid.                   *)
LEMMA LaidAt ==
  ASSUME NEW s \in Seq(Char), NEW term \in Term, term.var \/ term.koef # None,
         NEW b, NEW st, NEW e, NEW v, NEW pw, NEW d, NEW e2, Laid(s, term, b, st, e, v, pw, d, e2)
  PROVE  /\ GetAt(s, 1, b, e, st, v, IF term.var THEN v + 1 ELSE v, pw, d, d, e2)
         /\ (e > b) = (term.koef # None)
         /\ term.var => v <= Len(s)
         /\ ~term.var => v = Len(s) + 1
         /\ (CharAt(s, pw) = "^") = (term.var /\ term.exp # None)
         /\ (e2 > d) = (term.var /\ term.exp # None)
         /\ CharAt(s, d) \notin Sign
         /\ \A j \in e2 .. Len(s) : s[j] = Blank
<1>1. PICK n \in Nat \ {0} : n = Len(s)
  BY LaidPlaces
<1>2. /\ b \in 1 .. n /\ st \in b .. n + 1 /\ e \in b .. st /\ v \in st .. n + 1
      /\ pw \in v .. n + 1 /\ d \in pw .. n + 1 /\ e2 \in d .. n + 1
  BY <1>1, LaidPlaces
<1>3. PICK K \in BOOLEAN, X \in BOOLEAN, P \in BOOLEAN :
        K = (term.koef # None) /\ X = term.var /\ P = (term.var /\ term.exp # None)
  BY DEF Term
<1>4. K \/ X
  BY <1>3
<1>5. /\ K => /\ e \in b + 1 .. st /\ \A j \in b .. e - 1 : s[j] \in Numeric
              /\ \A j \in e .. st - 1 : s[j] = Blank
      /\ ~K => st = b /\ e = b
  <2>1. CASE K
    <3>1. Numbered(s, b, st, e, term.koef)
      BY <1>3, <2>1 DEF Laid
    <3> QED
      BY <2>1, <3>1 DEF Numbered
  <2>2. CASE ~K
    BY <1>3, <2>2 DEF Laid
  <2> QED
    BY <2>1, <2>2
<1>6. /\ K /\ X => st <= n /\ v \in st + 1 .. n + 1 /\ s[st] = "*" /\ \A j \in st + 1 .. v - 1 : s[j] = Blank
      /\ ~(K /\ X) => v = st
  <2>1. CASE K /\ X
    <3>1. Marked(s, st, v, "*")
      BY <1>3, <2>1 DEF Laid
    <3> QED
      BY <1>1, <2>1, <3>1 DEF Marked
  <2>2. CASE ~(K /\ X)
    BY <1>3, <2>2 DEF Laid
  <2> QED
    BY <2>1, <2>2
<1>7. /\ X => v <= n /\ pw \in v + 1 .. n + 1 /\ s[v] = "x" /\ \A j \in v + 1 .. pw - 1 : s[j] = Blank
      /\ ~X => pw = v
  <2>1. CASE X
    <3>1. Marked(s, v, pw, "x")
      BY <1>3, <2>1 DEF Laid
    <3> QED
      BY <1>1, <2>1, <3>1 DEF Marked
  <2>2. CASE ~X
    BY <1>3, <2>2 DEF Laid
  <2> QED
    BY <2>1, <2>2
<1>8. /\ P => /\ pw <= n /\ d \in pw + 1 .. n /\ s[pw] = "^" /\ \A j \in pw + 1 .. d - 1 : s[j] = Blank
              /\ e2 \in d + 1 .. n + 1 /\ \A j \in d .. e2 - 1 : s[j] \in Numeric
              /\ \A j \in e2 .. n : s[j] = Blank
      /\ ~P => pw = n + 1 /\ d = n + 1 /\ e2 = n + 1
  <2>1. CASE P
    <3>1. Marked(s, pw, d, "^") /\ Numbered(s, d, n + 1, e2, term.exp)
      BY <1>1, <1>3, <2>1 DEF Laid
    <3>2. pw <= n /\ d \in pw + 1 .. n /\ s[pw] = "^" /\ \A j \in pw + 1 .. d - 1 : s[j] = Blank
      BY <1>1, <1>2, <3>1 DEF Marked, Numbered
    <3>3. e2 \in d + 1 .. n + 1 /\ \A j \in d .. e2 - 1 : s[j] \in Numeric
      BY <1>1, <3>1 DEF Numbered
    <3>4. \A j \in e2 .. (n + 1) - 1 : s[j] = Blank
      BY <3>1 DEF Numbered
    <3>5. (n + 1) - 1 = n
      OBVIOUS
    <3> QED
      BY <2>1, <3>2, <3>3, <3>4, <3>5
  <2>2. CASE ~P
    BY <1>1, <1>3, <2>2 DEF Laid
  <2> QED
    BY <2>1, <2>2
<1>9. /\ \A c \in Numeric : c # Blank /\ c \notin Sign /\ c \notin Alpha /\ c # "*" /\ c # "^"
      /\ "x" \in Alpha /\ "x" \notin Numeric /\ "x" \notin Sign /\ "x" # Blank
      /\ "*" \notin Numeric /\ "*" # Blank /\ "^" # Blank /\ "^" \notin Alpha /\ "^" \notin Numeric
      /\ Blank \notin Numeric /\ Blank \notin Alpha
      /\ End \notin Sign /\ End # "*" /\ End # "^"
  BY NumericIs DEF Blank, Alpha, Sign, End
<1>10. StoiAt(s, 1, 1, b, e)
  <2>1. s[1] # Blank /\ (s[1] \in Sign <=> HasSign(term))
    BY LaidCharacters
  <2>2. Row(s, 1, {Blank}, 1)
    BY <1>1, <2>1 DEF Row
  <2>3. s[b] # Blank
    <3>1. CASE K
      BY <1>2, <1>5, <1>9, <3>1
    <3>2. CASE ~K
      BY <1>4, <1>5, <1>6, <1>7, <1>9, <3>2
    <3> QED
      BY <3>1, <3>2
  <2>4. Row(s, Behind(s, 1, Sign), {Blank}, b)
    <3>2. CharAt(s, 1) = s[1]
      BY <1>1 DEF CharAt
    <3>3. CASE HasSign(term)
      <4>1. Behind(s, 1, Sign) = 2
        BY <2>1, <3>2, <3>3 DEF Behind
      <4>2. Marked(s, 1, b, term.sign)
        BY <3>3 DEF Laid
      <4>3. b \in 2 .. Len(s) + 1 /\ \A j \in 2 .. b - 1 : s[j] = Blank
        BY <4>2 DEF Marked
      <4> QED
        BY <1>1, <2>3, <4>1, <4>3 DEF Row
    <3>4. CASE ~HasSign(term)
      <4>1. Behind(s, 1, Sign) = 1 /\ b = 1
        BY <2>1, <3>2, <3>4 DEF Behind, Laid
      <4> QED
        BY <1>1, <2>3, <4>1 DEF Row
    <3> QED
      BY <3>3, <3>4
  <2>5. Row(s, b, Numeric, e)
    <3>1. e \in b .. n + 1 /\ \A j \in b .. e - 1 : s[j] \in Numeric
      BY <1>2, <1>5
    <3>2. e <= n => s[e] \notin Numeric
      <4>1. CASE K /\ e < st
        BY <1>2, <1>5, <1>9, <4>1
      <4>2. CASE K /\ X /\ e = st
        BY <1>6, <1>9, <4>2
      <4>3. CASE ~X
        <5>1. st = n + 1
          BY <1>3, <1>6, <1>7, <1>8, <4>3
        <5>2. e < st \/ e = st
          BY <1>2
        <5> QED
          BY <1>2, <1>4, <4>1, <4>3, <5>1, <5>2
      <4>4. CASE ~K
        BY <1>4, <1>5, <1>6, <1>7, <1>9, <4>4
      <4> QED
        BY <1>2, <4>1, <4>2, <4>3, <4>4
    <3> QED
      BY <1>1, <3>1, <3>2 DEF Row
  <2> QED
    BY <2>2, <2>4, <2>5 DEF StoiAt
<1>11. Row(s, e, {Blank}, st)
  <2>1. st \in e .. n + 1 /\ \A j \in e .. st - 1 : s[j] = Blank
    BY <1>2, <1>5
  <2>2. st <= n => s[st] # Blank
    <3>1. CASE K /\ X
      BY <1>6, <1>9, <3>1
    <3>2. CASE ~K
      BY <1>4, <1>6, <1>7, <1>9, <3>2
    <3>3. CASE ~X
      BY <1>2, <1>3, <1>6, <1>7, <1>8, <3>3
    <3> QED
      BY <3>1, <3>2, <3>3
  <2> QED
    BY <1>1, <2>1, <2>2 DEF Row
<1>12. (e > b) = K
  BY <1>2, <1>5
<1>13. Row(s, IF e > b /\ CharAt(s, st) = "*" THEN st + 1 ELSE e, {Blank}, v)
  <2>1. CASE K /\ X
    <3>1. e > b /\ CharAt(s, st) = "*"
      BY <1>1, <1>6, <1>12, <2>1 DEF CharAt
    <3>2. Row(s, st + 1, {Blank}, v)
      BY <1>1, <1>6, <1>7, <1>9, <2>1 DEF Row
    <3> QED
      BY <3>1, <3>2
  <2>2. CASE K /\ ~X
    <3>1. st = n + 1 /\ v = n + 1
      BY <1>3, <1>6, <1>7, <1>8, <2>2
    <3>2. CharAt(s, st) # "*"
      BY <1>1, <1>9, <3>1 DEF CharAt
    <3> QED
      BY <1>11, <3>1, <3>2
  <2>3. CASE ~K
    <3>1. ~(e > b) /\ e = v /\ v <= n /\ s[v] # Blank
      BY <1>2, <1>4, <1>5, <1>6, <1>7, <1>9, <2>3
    <3>2. Row(s, e, {Blank}, v)
      BY <1>1, <1>2, <3>1 DEF Row
    <3> QED
      BY <3>1, <3>2
  <2> QED
    BY <2>1, <2>2, <2>3
<1>14. PICK af : af = IF term.var THEN v + 1 ELSE v
  OBVIOUS
<1>15. Row(s, v, Alpha, af) /\ Row(s, af, {Blank}, pw)
  <2>1. pw <= n => s[pw] = "^"
    BY <1>8
  <2>2. CASE X
    <3>1. af = v + 1 /\ af \in v .. n + 1 /\ pw \in af .. n + 1
      BY <1>2, <1>3, <1>7, <1>14, <2>2
    <3>2. \A j \in af .. pw - 1 : s[j] = Blank
      BY <1>7, <2>2, <3>1
    <3>3. af <= n => s[af] \notin Alpha
      <4>1. CASE af < pw
        BY <1>9, <3>1, <3>2, <4>1
      <4>2. CASE af = pw
        BY <1>9, <2>1, <4>2
      <4> QED
        BY <1>2, <3>1, <4>1, <4>2
    <3>4. \A j \in v .. af - 1 : s[j] \in Alpha
      BY <1>2, <1>7, <1>9, <2>2, <3>1
    <3> QED
      BY <1>1, <1>9, <2>1, <3>1, <3>2, <3>3, <3>4 DEF Row
  <2>3. CASE ~X
    <3>1. af = v /\ pw = v /\ v = n + 1
      BY <1>3, <1>7, <1>8, <1>14, <2>3
    <3> QED
      BY <1>1, <3>1 DEF Row
  <2> QED
    BY <2>2, <2>3
<1>16. CharAt(s, d) \notin Sign /\ CharAt(s, d) # Blank
  <2>1. CASE P
    <3>1. d \in d .. e2 - 1 /\ d <= n
      BY <1>2, <1>8, <2>1
    <3> QED
      BY <1>1, <1>8, <1>9, <2>1, <3>1 DEF CharAt
  <2>2. CASE ~P
    <3>1. d = n + 1
      BY <1>8, <2>2
    <3>2. CharAt(s, d) = End
      BY <1>1, <3>1 DEF CharAt
    <3> QED
      BY <3>2 DEF End, Sign, Blank
  <2> QED
    BY <2>1, <2>2
<1>17. (CharAt(s, pw) = "^") = P
  <2>1. CASE P
    BY <1>1, <1>8, <2>1 DEF CharAt
  <2>2. CASE ~P
    BY <1>1, <1>8, <1>9, <2>2 DEF CharAt
  <2> QED
    BY <2>1, <2>2
<1>18. StoiAt(s, Behind(s, pw, {"^"}), d, d, e2)
  <2>1. Behind(s, pw, {"^"}) = IF P THEN pw + 1 ELSE pw
    BY <1>17 DEF Behind
  <2>2. d <= n => s[d] # Blank
    BY <1>1, <1>2, <1>16 DEF CharAt
  <2>3. Row(s, Behind(s, pw, {"^"}), {Blank}, d)
    <3>1. CASE P
      BY <1>1, <1>2, <1>8, <2>1, <2>2, <3>1 DEF Row
    <3>2. CASE ~P
      BY <1>1, <1>2, <1>8, <2>1, <2>2, <3>2 DEF Row
    <3> QED
      BY <3>1, <3>2
  <2>4. Behind(s, d, Sign) = d
    BY <1>16 DEF Behind
  <2>5. Row(s, d, {Blank}, d)
    BY <1>1, <1>2, <2>2 DEF Row
  <2>6. Row(s, d, Numeric, e2)
    <3>1. e2 \in d .. n + 1 /\ \A j \in d .. e2 - 1 : s[j] \in Numeric
      BY <1>2, <1>8
    <3>2. e2 <= n => s[e2] \notin Numeric
      BY <1>2, <1>8, <1>9
    <3> QED
      BY <1>1, <3>1, <3>2 DEF Row
  <2> QED
    BY <2>3, <2>4, <2>5, <2>6 DEF StoiAt
<1>19. GetAt(s, 1, b, e, st, v, af, pw, d, d, e2)
  BY <1>10, <1>11, <1>13, <1>15, <1>18 DEF GetAt
<1>20. (e2 > d) = P /\ (\A j \in e2 .. n : s[j] = Blank) /\ (X => v <= n) /\ (~X => v = n + 1)
  <2>1. (e2 > d) = P
    BY <1>2, <1>8
  <2>2. \A j \in e2 .. n : s[j] = Blank
    BY <1>2, <1>8
  <2>3. (X => v <= n) /\ (~X => v = n + 1)
    BY <1>3, <1>7, <1>8
  <2> QED
    BY <2>1, <2>2, <2>3
<1> QED
  BY <1>1, <1>3, <1>12, <1>14, <1>16, <1>17, <1>19, <1>20

(* What get reads from a spelling: the coefficient and the exponent that    *)
(* are meant, as ints.                                                      *)
LEMMA TermNumbers ==
  ASSUME NEW term \in Term
  PROVE  /\ KoefOf(term) \in Int /\ ExpOf(term) \in Nat
         /\ KoefOf(term) = IF term.sign = "-" THEN (IF term.koef = None THEN -1 ELSE -term.koef)
                           ELSE (IF term.koef = None THEN 1 ELSE term.koef)
         /\ term.koef # None => term.koef \in 0 .. IntMax + 1
         /\ term.exp # None => term.exp \in 0 .. IntMax + 1
<1>1. term.koef \in Numbers /\ term.exp \in Numbers /\ IntMax \in Nat
  BY WidthIs DEF Term
<1>2. PICK k : k = IF term.koef = None THEN 1 ELSE term.koef
  OBVIOUS
<1>3. /\ term.koef # None => term.koef \in 0 .. IntMax + 1
      /\ term.exp # None => term.exp \in 0 .. IntMax + 1
  BY <1>1 DEF Numbers
<1>4. k \in Int
  BY <1>1, <1>2, <1>3
<1>5. PICK sgn \in {-1, 1} : sgn = IF term.sign = "-" THEN -1 ELSE 1
  OBVIOUS
<1>6. KoefOf(term) = sgn * k
  BY <1>2, <1>5 DEF KoefOf
<1>7. sgn * k = IF sgn = -1 THEN -k ELSE k
  BY <1>4
<1>8. ExpOf(term) \in Nat
  BY <1>1, <1>3 DEF ExpOf
<1>9. KoefOf(term) = IF term.sign = "-" THEN -k ELSE k
  BY <1>5, <1>6, <1>7
<1>10. KoefOf(term) \in Int
  BY <1>4, <1>9
<1> QED
  BY <1>2, <1>3, <1>8, <1>9, <1>10

(* get reads a term as it was meant, in every spelling, but for the numbers *)
(* that are no ints, which wrap.                                            *)
LEMMA SpellingRead ==
  ASSUME NEW term \in Term, term.var \/ term.koef # None
  PROVE  get(Spelling(term)) = [ok |-> TRUE, koef |-> Wrap(KoefOf(term)), exp |-> Wrap(ExpOf(term))]
<1>1. PICK s \in Seq(Char) : s = Spelling(term)
  BY SpellingTyped
<1>2. PICK b, st, e, v, pw, d, e2 : Laid(s, term, b, st, e, v, pw, d, e2)
  BY <1>1, SpellingLaid
<1>3. PICK n \in Nat \ {0} : n = Len(s)
  BY <1>2, LaidPlaces
<1>4. /\ b \in 1 .. n /\ st \in b .. n + 1 /\ e \in b .. st /\ v \in st .. n + 1
      /\ pw \in v .. n + 1 /\ d \in pw .. n + 1 /\ e2 \in d .. n + 1
  BY <1>2, <1>3, LaidPlaces
<1>5. PICK af : af = IF term.var THEN v + 1 ELSE v
  OBVIOUS
<1>6. /\ GetAt(s, 1, b, e, st, v, af, pw, d, d, e2)
      /\ (e > b) = (term.koef # None)
      /\ term.var => v <= n
      /\ ~term.var => v = n + 1
      /\ (CharAt(s, pw) = "^") = (term.var /\ term.exp # None)
      /\ (e2 > d) = (term.var /\ term.exp # None)
      /\ CharAt(s, d) \notin Sign
      /\ \A j \in e2 .. n : s[j] = Blank
  BY <1>2, <1>3, <1>5, LaidAt
<1>7. get(s) = GetResult(s, 1, b, e, v, af, pw, d, d, e2)
  BY <1>3, <1>6, GetIs
<1>8. (af > v) = term.var /\ term.var \in BOOLEAN
  <2>1. v \in Int
    BY <1>4
  <2>2. term.var \in BOOLEAN
    BY DEF Term
  <2> QED
    BY <1>5, <2>1, <2>2
<1>9. PICK koef : koef = StoiResult(s, 1, b, e)
  OBVIOUS
<1>10. PICK exp : exp = StoiResult(s, d, d, e2)
  OBVIOUS
<1>11. /\ koef.number = (term.koef # None)
       /\ exp.number = (term.var /\ term.exp # None) /\ exp.pos = e2
  BY <1>6, <1>9, <1>10 DEF StoiResult
<1>12. CharAt(s, 1) = s[1] /\ (s[1] \in Sign <=> HasSign(term)) /\ (HasSign(term) => s[1] = term.sign)
  <2>1. CharAt(s, 1) = s[1]
    BY <1>3 DEF CharAt
  <2> QED
    BY <1>2, <2>1, LaidCharacters
<1>13. (CharAt(s, 1) = "-") = (term.sign = "-")
  <2>1. "-" \in Sign /\ (term.sign = "-" => HasSign(term))
    BY DEF Sign, HasSign
  <2> QED
    BY <1>12, <2>1
<1>14. /\ KoefOf(term) \in Int /\ ExpOf(term) \in Nat
       /\ KoefOf(term) = IF term.sign = "-" THEN (IF term.koef = None THEN -1 ELSE -term.koef)
                         ELSE (IF term.koef = None THEN 1 ELSE term.koef)
       /\ term.koef # None => term.koef \in 0 .. IntMax + 1
       /\ term.exp # None => term.exp \in 0 .. IntMax + 1
  BY TermNumbers
<1>15. -1 \in TheInts /\ 0 \in TheInts /\ 1 \in TheInts
  BY WidthIs DEF TheInts
<1>16. Wrap(-1) = -1 /\ Wrap(0) = 0 /\ Wrap(1) = 1
  BY <1>15, WrapInt
<1>17. (IF term.var /\ ~koef.number /\ koef.value = 0 THEN 1 ELSE koef.value) = Wrap(KoefOf(term))
  <2>1. CASE term.koef # None
    <3>1. Numbered(s, b, st, e, term.koef)
      BY <1>2, <2>1 DEF Laid
    <3>2. SubSeq(s, b, e - 1) = Plain[term.koef] /\ e > b
      BY <1>6, <2>1, <3>1 DEF Numbered
    <3>3. ValueOf(SubSeq(s, b, e - 1)) = Wrap(term.koef)
      BY <1>14, <2>1, <3>2, PlainValue
    <3>4. koef.value = IF term.sign = "-" THEN Wrap(-Wrap(term.koef)) ELSE Wrap(term.koef)
      BY <1>9, <1>13, <3>2, <3>3 DEF StoiResult
    <3>5. term.koef \in Int
      BY <1>14, <2>1
    <3>6. Wrap(-Wrap(term.koef)) = Wrap(-term.koef)
      BY <3>5, WrapMinus
    <3>7. koef.value = Wrap(KoefOf(term))
      <4>1. CASE term.sign = "-"
        BY <1>14, <2>1, <3>4, <3>6, <4>1
      <4>2. CASE term.sign # "-"
        BY <1>14, <2>1, <3>4, <4>2
      <4> QED
        BY <4>1, <4>2
    <3> QED
      BY <1>11, <2>1, <3>7
  <2>2. CASE term.koef = None
    <3>1. ~(e > b) /\ b <= n /\ term.var
      BY <1>4, <1>6, <2>2
    <3>2. PICK size : size = IF CharAt(s, 1) \in Sign THEN 1 ELSE 0
      OBVIOUS
    <3>3. koef.value = IF CharAt(s, 1) = "-" THEN Wrap(-size) ELSE size
      BY <1>3, <1>9, <3>1, <3>2 DEF StoiResult
    <3>4. CASE term.sign = "-"
      <4>1. KoefOf(term) = -1
        BY <1>14, <2>2, <3>4
      <4>2. size = 1
        BY <1>13, <3>2, <3>4 DEF Sign
      <4>3. koef.value = -1
        BY <1>13, <1>16, <3>3, <3>4, <4>2
      <4> QED
        BY <1>16, <4>1, <4>3
    <3>5. CASE term.sign # "-"
      <4>1. KoefOf(term) = 1
        BY <1>14, <2>2, <3>5
      <4>2. koef.value = size /\ size \in {0, 1}
        BY <1>13, <3>2, <3>3, <3>5
      <4>3. ~koef.number
        BY <1>11, <2>2
      <4> QED
        BY <1>16, <3>1, <4>1, <4>2, <4>3
    <3> QED
      BY <3>4, <3>5
  <2> QED
    BY <2>1, <2>2
<1>18. (IF ~term.var THEN 0 ELSE IF exp.number THEN exp.value ELSE 1) = Wrap(ExpOf(term))
  <2>1. CASE ~term.var
    BY <1>16, <2>1 DEF ExpOf
  <2>2. CASE term.var /\ term.exp = None
    <3>1. ExpOf(term) = 1 /\ ~exp.number
      BY <1>11, <2>2 DEF ExpOf
    <3> QED
      BY <1>16, <2>2, <3>1
  <2>3. CASE term.var /\ term.exp # None
    <3>1. Numbered(s, d, Len(s) + 1, e2, term.exp)
      BY <1>2, <2>3 DEF Laid
    <3>2. SubSeq(s, d, e2 - 1) = Plain[term.exp] /\ e2 > d
      BY <1>6, <2>3, <3>1 DEF Numbered
    <3>3. ValueOf(SubSeq(s, d, e2 - 1)) = Wrap(term.exp)
      BY <1>14, <2>3, <3>2, PlainValue
    <3>4. CharAt(s, d) # "-"
      BY <1>6 DEF Sign
    <3>5. exp.value = Wrap(term.exp)
      BY <1>10, <3>2, <3>3, <3>4 DEF StoiResult
    <3>6. ExpOf(term) = term.exp /\ exp.number
      BY <1>11, <2>3 DEF ExpOf
    <3> QED
      BY <2>3, <3>5, <3>6
  <2> QED
    BY <2>1, <2>2, <2>3
<1>19. OnlyBlanks(s, IF term.var THEN exp.pos ELSE v)
  <2>1. PICK p : p = IF term.var THEN exp.pos ELSE v
    OBVIOUS
  <2>2. p \in 1 .. n + 1 /\ \A j \in p .. n : s[j] \in {Blank, NewLine}
    <3>1. CASE term.var
      BY <1>4, <1>6, <1>11, <2>1, <3>1
    <3>2. CASE ~term.var
      BY <1>6, <2>1, <3>2
    <3> QED
      BY <3>1, <3>2
  <2> QED
    BY <1>3, <2>1, <2>2, OnlyBlanksAre
<1>20. IF term.var THEN CharAt(s, pw) = "^" => exp.number ELSE koef.number
  BY <1>6, <1>11
<1>21. get(s) =
         [ok   |-> /\ OnlyBlanks(s, IF term.var THEN exp.pos ELSE v)
                   /\ IF term.var THEN CharAt(s, pw) = "^" => exp.number ELSE koef.number,
          koef |-> IF term.var /\ ~koef.number /\ koef.value = 0 THEN 1 ELSE koef.value,
          exp  |-> IF ~term.var THEN 0 ELSE IF exp.number THEN exp.value ELSE 1]
  BY <1>7, <1>8, <1>9, <1>10 DEF GetResult
<1>22. (/\ OnlyBlanks(s, IF term.var THEN exp.pos ELSE v)
        /\ IF term.var THEN CharAt(s, pw) = "^" => exp.number ELSE koef.number) = TRUE
  BY <1>19, <1>20
<1> QED
  BY <1>1, <1>17, <1>18, <1>21, <1>22

(* What a spelling begins with, and what it does not hold.                  *)
LEMMA SpellingCharacters ==
  ASSUME NEW term \in Term, term.var \/ term.koef # None
  PROVE  /\ Spelling(term) \in Seq(Char) /\ Len(Spelling(term)) \in Nat \ {0}
         /\ Spelling(term)[1] \notin {Blank, NewLine} /\ (Spelling(term)[1] \in Sign <=> HasSign(term))
         /\ \A j \in 2 .. Len(Spelling(term)) : Spelling(term)[j] \notin Sign \cup {NewLine}
<1>1. PICK s \in Seq(Char) : s = Spelling(term)
  BY SpellingTyped
<1>2. PICK b, st, e, v, pw, d, e2 : Laid(s, term, b, st, e, v, pw, d, e2)
  BY <1>1, SpellingLaid
<1>3. Len(s) \in Nat \ {0}
  BY <1>2, LaidPlaces
<1>4. /\ s[1] \notin {Blank, NewLine} /\ (s[1] \in Sign <=> HasSign(term))
      /\ \A j \in 2 .. Len(s) : s[j] \notin Sign \cup {NewLine}
  BY <1>2, LaidCharacters
<1> QED
  BY <1>1, <1>3, <1>4

-----------------------------------------------------------------------------
(* Where each part of a text begins.                                        *)
Starts(o, s, parts) ==
  /\ o \in [1 .. Len(parts) + 1 -> Nat \ {0}]
  /\ o[1] = 1 /\ o[Len(parts) + 1] = Len(s) + 1
  /\ \A k \in 1 .. Len(parts) : At(s, o[k], parts[k]) /\ o[k + 1] = o[k] + Len(parts[k])

(* What stands in a text stands there still when more is appended.          *)
LEMMA AtPrefix ==
  ASSUME NEW s \in Seq(Char), NEW t \in Seq(Char), NEW p, NEW v \in Seq(Char), At(s, p, v)
  PROVE  At(s \o t, p, v)
<1>1. PICK l \in Nat, m \in Nat, n \in Nat : l = Len(s) /\ m = Len(t) /\ n = Len(v)
  OBVIOUS
<1>2. p \in Nat \ {0} /\ p + n <= l + 1 /\ \A k \in 1 .. n : s[p + k - 1] = v[k]
  BY <1>1 DEF At
<1>3. PICK c : c = s \o t
  OBVIOUS
<1>4. Len(c) = l + m /\ \A k \in 1 .. l + m : c[k] = IF k <= l THEN s[k] ELSE t[k - l]
  BY <1>1, <1>3, ConcatProperties
<1>5. ASSUME NEW k \in 1 .. n PROVE c[p + k - 1] = v[k]
  <2>1. PICK j \in 1 .. l : j = p + k - 1
    BY <1>2
  <2>2. c[j] = s[j]
    BY <1>4, <2>1
  <2> QED
    BY <1>2, <2>1, <2>2
<1>6. p + n <= Len(c) + 1
  BY <1>2, <1>4
<1> QED
  BY <1>1, <1>2, <1>3, <1>5, <1>6 DEF At

(* A text that is made of parts has such places.                            *)
LEMMA FlattenStarts ==
  ASSUME NEW parts \in Seq(Seq(Char))
  PROVE  /\ FlattenSeq(parts) \in Seq(Char)
         /\ \E o : Starts(o, FlattenSeq(parts), parts)
<1>1. PICK n \in Nat : n = Len(parts)
  OBVIOUS
<1>2. PICK f : Text(f, Char, parts) /\ FlattenSeq(parts) = f[n]
  BY <1>1, FlattenIs
<1>3. /\ f \in [0 .. n -> Seq(Char)] /\ f[0] = <<>>
      /\ \A k \in 1 .. n : f[k] = f[k - 1] \o parts[k]
  BY <1>1, <1>2 DEF Text
<1>4. \A k \in 1 .. n : parts[k] \in Seq(Char)
  BY <1>1
<1> DEFINE o == [k \in 1 .. n + 1 |-> Len(f[k - 1]) + 1]
           Placed(j) == \A k \in 1 .. j : At(f[j], o[k], parts[k])
           T == {j \in 0 .. n : Placed(j)}
<1>5. \A k \in 1 .. n + 1 : o[k] = Len(f[k - 1]) + 1 /\ o[k] \in Nat \ {0} /\ f[k - 1] \in Seq(Char)
  <2> SUFFICES ASSUME NEW k \in 1 .. n + 1
               PROVE  o[k] = Len(f[k - 1]) + 1 /\ o[k] \in Nat \ {0} /\ f[k - 1] \in Seq(Char)
    OBVIOUS
  <2>1. PICK j \in 0 .. n : j = k - 1
    OBVIOUS
  <2>2. f[j] \in Seq(Char)
    BY <1>3
  <2>3. Len(f[j]) \in Nat
    BY <2>2
  <2>4. o[k] = Len(f[j]) + 1
    BY <2>1
  <2> QED
    BY <2>1, <2>2, <2>3, <2>4
<1>6. o \in [1 .. n + 1 -> Nat \ {0}]
  BY <1>5
<1> HIDE DEF o
<1>7. 0 \in T
  OBVIOUS
<1>8. ASSUME NEW j \in 0 .. n - 1, j \in T PROVE j + 1 \in T
  <2>1. PICK l \in 1 .. n : l = j + 1
    OBVIOUS
  <2>2. PICK u \in Seq(Char), v \in Seq(Char), w \in Seq(Char) : u = f[j] /\ v = parts[l] /\ w = f[l]
    BY <1>3, <1>4
  <2>3. w = u \o v
    <3>1. l - 1 = j
      BY <2>1
    <3>2. f[l] = f[l - 1] \o parts[l]
      BY <1>3
    <3> QED
      BY <2>2, <3>1, <3>2
  <2>4. ASSUME NEW k \in 1 .. j PROVE At(w, o[k], parts[k])
    <3>1. At(u, o[k], parts[k]) /\ parts[k] \in Seq(Char)
      BY <1>4, <1>8, <2>2
    <3>2. PICK q, x : q = o[k] /\ x = parts[k]
      OBVIOUS
    <3>3. At(u, q, x) /\ x \in Seq(Char)
      BY <3>1, <3>2
    <3>4. At(u \o v, q, x)
      BY <3>3, AtPrefix
    <3> QED
      BY <2>3, <3>2, <3>4
  <2>5. At(w, o[l], v)
    <3>1. PICK one : one = 1
      OBVIOUS
    <3>2. At(w, one, u \o v)
      BY <2>3, <3>1 DEF At
    <3>3. At(w, one + Len(u), v)
      BY <3>2, AtConcat
    <3>4. o[l] = Len(u) + 1 /\ Len(u) \in Nat
      BY <1>5, <2>1, <2>2
    <3>5. one + Len(u) = o[l]
      BY <3>1, <3>4
    <3> QED
      BY <3>3, <3>5
  <2>6. Placed(l)
    <3> SUFFICES ASSUME NEW k \in 1 .. l PROVE At(f[l], o[k], parts[k])
      OBVIOUS
    <3>1. k \in 1 .. j \/ k = l
      BY <2>1
    <3> QED
      BY <2>2, <2>4, <2>5, <3>1
  <2> QED
    BY <2>1, <2>6
<1>9. Placed(n)
  <2> HIDE DEF T
  <2>1. \A j \in 0 .. n : j \in T
    BY <1>7, <1>8, UpTo
  <2> QED
    BY <2>1 DEF T
<1>10. ASSUME NEW k \in 1 .. n PROVE o[k + 1] = o[k] + Len(parts[k])
  <2>1. PICK l \in 2 .. n + 1 : l = k + 1
    OBVIOUS
  <2>2. PICK u \in Seq(Char), v \in Seq(Char) : u = f[k - 1] /\ v = parts[k]
    BY <1>4, <1>5
  <2>3. f[k] = u \o v
    BY <1>3, <2>2
  <2>4. Len(u \o v) = Len(u) + Len(v) /\ Len(u) \in Nat /\ Len(v) \in Nat
    BY ConcatProperties
  <2>5. l \in 1 .. n + 1 /\ l - 1 = k
    BY <2>1
  <2>6. o[l] = Len(f[k]) + 1
    BY <1>5, <2>5
  <2>7. o[k] = Len(u) + 1
    BY <1>5, <2>2
  <2>8. o[l] = o[k] + Len(v)
    BY <2>3, <2>4, <2>6, <2>7
  <2> QED
    BY <2>1, <2>2, <2>8
<1>11. o[1] = 1
  <2>1. 1 \in 1 .. n + 1 /\ 1 - 1 = 0
    OBVIOUS
  <2>2. o[1] = Len(f[0]) + 1
    BY <1>5, <2>1
  <2>3. Len(f[0]) = 0
    BY <1>3
  <2> QED
    BY <2>2, <2>3
<1>12. o[n + 1] = Len(f[n]) + 1
  <2>1. PICK l \in 1 .. n + 1 : l = n + 1
    OBVIOUS
  <2>2. l - 1 = n
    BY <2>1
  <2> QED
    BY <1>5, <2>1, <2>2
<1>13. Starts(o, FlattenSeq(parts), parts)
  BY <1>1, <1>2, <1>6, <1>9, <1>10, <1>11, <1>12 DEF Starts
<1>14. f[n] \in Seq(Char)
  BY <1>3
<1> QED
  BY <1>2, <1>13, <1>14

(* What stands where a part is.                                             *)
Between(s, p, q, part) ==
  /\ p \in 1 .. Len(s) + 1 /\ q = p + Len(part) /\ q \in p .. Len(s) + 1 /\ Len(part) \in Nat
  /\ SubSeq(s, p, q - 1) = part
  /\ \A j \in p .. q - 1 : j - p + 1 \in 1 .. Len(part) /\ s[j] = part[j - p + 1]

(* A part, cut out of the text.                                             *)
LEMMA PartAt ==
  ASSUME NEW s \in Seq(Char), NEW parts \in Seq(Seq(Char)), NEW o, Starts(o, s, parts),
         NEW k \in 1 .. Len(parts)
  PROVE  Between(s, o[k], o[k + 1], parts[k])
<1>0. PICK p, q : p = o[k] /\ q = o[k + 1]
  OBVIOUS
<1>1. PICK n \in Nat, part \in Seq(Char) : n = Len(s) /\ part = parts[k]
  <2>1. parts[k] \in Seq(Char) /\ Len(s) \in Nat
    OBVIOUS
  <2> QED
    BY <2>1
<1>2. PICK l \in Nat : l = Len(part)
  OBVIOUS
<1>3. At(s, p, part) /\ q = p + l
  BY <1>0, <1>1, <1>2 DEF Starts
<1>4. p \in Nat \ {0} /\ p + l <= n + 1 /\ \A j \in 1 .. l : s[p + j - 1] = part[j]
  BY <1>1, <1>2, <1>3 DEF At
<1>5. p \in 1 .. n + 1 /\ q \in p .. n + 1
  BY <1>3, <1>4
<1>6. SubSeq(s, p, p + Len(part) - 1) = part
  BY <1>3, AtIs
<1>7. p + Len(part) - 1 = q - 1
  BY <1>2, <1>3, <1>4
<1>8. ASSUME NEW j \in p .. q - 1 PROVE j - p + 1 \in 1 .. l /\ s[j] = part[j - p + 1]
  <2>1. PICK m \in 1 .. l : m = j - p + 1
    BY <1>3, <1>4
  <2>2. p + m - 1 = j
    BY <1>4, <2>1, SMTT(30)
  <2> QED
    BY <1>4, <2>1, <2>2
<1> QED
  BY <1>0, <1>1, <1>2, <1>3, <1>5, <1>6, <1>7, <1>8 DEF Between

(* Terms that may be spelled one behind the other.                          *)
Proper(terms) ==
  /\ terms \in Seq(Term)
  /\ \A k \in 1 .. Len(terms) :
       (terms[k].var \/ terms[k].koef # None) /\ (k > 1 => HasSign(terms[k]))

(* The lists of the constant Terms are proper.                              *)
LEMMA TermsProper ==
  ASSUME NEW terms \in Terms
  PROVE  Proper(terms) /\ Len(terms) \in Nat \ {0}
<1>1. terms \in Seq(Term) /\ Len(terms) \in Nat \ {0}
  BY TermsTyped
<1>2. \A k \in 1 .. Len(terms) :
        (terms[k].var \/ terms[k].koef # None) /\ (k > 1 => terms[k].sign # "")
  BY TermsTyped
<1>3. \A k \in 1 .. Len(terms) : HasSign(terms[k]) = (terms[k].sign # "")
  BY DEF HasSign
<1>4. \A k \in 1 .. Len(terms) :
        (terms[k].var \/ terms[k].koef # None) /\ (k > 1 => HasSign(terms[k]))
  BY <1>2, <1>3, Zenon
<1> QED
  BY <1>1, <1>4 DEF Proper

(* Where the terms stand in what Spell makes of them.                       *)
LEMMA SpellStarts ==
  ASSUME NEW terms, Proper(terms)
  PROVE  /\ Spell(terms) \in Seq(Char) /\ SpelledParts(terms) \in Seq(Seq(Char))
         /\ Len(SpelledParts(terms)) = Len(terms) /\ Len(terms) \in Nat
         /\ \A k \in 1 .. Len(terms) : SpelledParts(terms)[k] = Spelling(terms[k])
         /\ \E o : Starts(o, Spell(terms), SpelledParts(terms))
<1>1. PICK parts : parts = SpelledParts(terms)
  OBVIOUS
<1>2. terms \in Seq(Term)
  BY DEF Proper
<1>3. parts \in Seq(Seq(Char)) /\ Len(parts) = Len(terms) /\ Spell(terms) \in Seq(Char)
  BY <1>1, <1>2, SpellTyped
<1>4. Spell(terms) = FlattenSeq(parts)
  BY <1>1 DEF Spell, SpelledParts
<1>5. \E o : Starts(o, FlattenSeq(parts), parts)
  BY <1>3, FlattenStarts
<1>6. \A k \in 1 .. Len(terms) : parts[k] = Spelling(terms[k])
  BY <1>1 DEF SpelledParts
<1>7. Len(terms) \in Nat
  BY <1>2
<1> QED
  BY <1>1, <1>3, <1>4, <1>5, <1>6, <1>7

(* A term in the text of a list: nothing in it can be cut at but its sign.  *)
LEMMA TermAt ==
  ASSUME NEW terms, Proper(terms), NEW s, s = Spell(terms), NEW o, Starts(o, s, SpelledParts(terms)),
         NEW k \in 1 .. Len(terms)
  PROVE  /\ o[k] \in 1 .. Len(s) /\ o[k + 1] \in o[k] + 1 .. Len(s) + 1
         /\ SubSeq(s, o[k], o[k + 1] - 1) = Spelling(terms[k])
         /\ s[o[k]] \notin {Blank, NewLine} /\ (s[o[k]] \in Sign <=> HasSign(terms[k]))
         /\ \A j \in o[k] + 1 .. o[k + 1] - 1 : s[j] \notin Sign \cup {NewLine}
<1>0. PICK p, q : p = o[k] /\ q = o[k + 1]
  OBVIOUS
<1>1. PICK parts \in Seq(Seq(Char)) : parts = SpelledParts(terms) /\ Len(parts) = Len(terms)
  BY SpellStarts
<1>2. s \in Seq(Char)
  BY SpellStarts
<1>3. PICK part \in Seq(Char) : part = parts[k]
  <2>1. parts[k] \in Seq(Char)
    BY <1>1
  <2> QED
    BY <2>1
<1>4. PICK l \in Nat : l = Len(part)
  OBVIOUS
<1>5. /\ p \in 1 .. Len(s) + 1 /\ q = p + l
      /\ q \in p .. Len(s) + 1
      /\ SubSeq(s, p, q - 1) = part
      /\ \A j \in p .. q - 1 : j - p + 1 \in 1 .. l /\ s[j] = part[j - p + 1]
  <2>1. k \in 1 .. Len(parts) /\ Starts(o, s, parts)
    BY <1>1
  <2>2. Between(s, o[k], o[k + 1], parts[k])
    BY <1>2, <2>1, PartAt
  <2>3. Between(s, p, q, part)
    BY <1>0, <1>3, <2>2
  <2> QED
    BY <1>4, <2>3 DEF Between
<1>6. part = Spelling(terms[k])
  BY <1>1, <1>3, SpellStarts
<1>7. terms[k] \in Term /\ (terms[k].var \/ terms[k].koef # None)
  BY DEF Proper
<1>8. /\ l \in Nat \ {0}
      /\ part[1] \notin {Blank, NewLine} /\ (part[1] \in Sign <=> HasSign(terms[k]))
      /\ \A j \in 2 .. l : part[j] \notin Sign \cup {NewLine}
  BY <1>4, <1>6, <1>7, SpellingCharacters
<1>9. p \in p .. q - 1 /\ p - p + 1 = 1 /\ Len(s) \in Nat
  BY <1>2, <1>5, <1>8
<1>10. s[p] = part[1]
  BY <1>5, <1>9
<1>11. ASSUME NEW j \in p + 1 .. q - 1 PROVE s[j] \notin Sign \cup {NewLine}
  <2>1. PICK m \in 2 .. l : m = j - p + 1
    BY <1>5, <1>9
  <2>2. s[j] = part[m]
    BY <1>5, <1>9, <2>1
  <2> QED
    BY <1>8, <2>1, <2>2
<1>12. p \in 1 .. Len(s) /\ q \in p + 1 .. Len(s) + 1
  BY <1>5, <1>8, <1>9
<1> QED
  BY <1>0, <1>3, <1>5, <1>6, <1>8, <1>10, <1>11, <1>12

-----------------------------------------------------------------------------
(* The terms with exponent e, added up, term by term.                       *)
SumsOf(f, terms, e) ==
  f = [k \in 0 .. Len(terms) |->
         IF k = 0 THEN 0
         ELSE f[k - 1] + (IF ExpOf(terms[k]) = e THEN KoefOf(terms[k]) ELSE 0)]

(* The one function that does that.                                         *)
Sums(terms, e) == CHOOSE f : SumsOf(f, terms, e)

(* There is such a function, and Sum is its last value.                     *)
LEMMA SumsAre ==
  ASSUME NEW terms \in Seq(Term), NEW e
  PROVE  /\ Sums(terms, e) \in [0 .. Len(terms) -> Int]
         /\ Sums(terms, e)[0] = 0
         /\ \A k \in 1 .. Len(terms) :
              Sums(terms, e)[k]
                = Sums(terms, e)[k - 1] + (IF ExpOf(terms[k]) = e THEN KoefOf(terms[k]) ELSE 0)
         /\ Sum(terms, e) = Sums(terms, e)[Len(terms)]
<1>1. PICK n \in Nat : n = Len(terms)
  OBVIOUS
<1> DEFINE a == [k \in 0 .. n |-> IF ExpOf(terms[k]) = e THEN KoefOf(terms[k]) ELSE 0]
           b == [k \in 0 .. n |-> 0]
           prev == [k \in 0 .. n |-> k - 1]
           step == [x \in Int \X (0 .. n) |-> IF x[2] = 0 THEN 0 ELSE x[1] + a[x[2]]]
<1>2. \A k \in 1 .. n : a[k] \in Int
  <2> SUFFICES ASSUME NEW k \in 1 .. n PROVE a[k] \in Int
    OBVIOUS
  <2>1. terms[k] \in Term
    BY <1>1
  <2>2. KoefOf(terms[k]) \in Int
    BY <2>1, TermNumbers
  <2>3. a[k] = IF ExpOf(terms[k]) = e THEN KoefOf(terms[k]) ELSE 0
    OBVIOUS
  <2> HIDE DEF a
  <2> QED
    BY <2>2, <2>3
<1>3. \A k \in 0 .. n : a[k] = IF ExpOf(terms[k]) = e THEN KoefOf(terms[k]) ELSE 0
  OBVIOUS
<1> HIDE DEF a
<1>4. /\ \A v \in Int, k \in 0 .. n : step[<<v, k>>] = IF k = 0 THEN 0 ELSE v + a[k]
      /\ \A k \in 0 .. n : b[k] = 0 /\ prev[k] = k - 1
  OBVIOUS
<1> HIDE DEF b, prev, step
<1>5. ASSUME NEW v \in Int, NEW k \in 0 .. n PROVE step[<<v, k>>] \in Int
  <2>1. step[<<v, k>>] = IF k = 0 THEN 0 ELSE v + a[k]
    BY <1>4
  <2>2. k # 0 => a[k] \in Int
    BY <1>2
  <2> QED
    BY <2>1, <2>2
<1>6. \A k \in 0 .. n : b[k] \in Int
  BY <1>4
<1>7. Backwards(0, n, {0}, prev)
  BY <1>4 DEF Backwards
<1>8. PICK h \in [0 .. n -> Int] : Recursive(h, 0, n, {0}, b, step, prev)
  BY <1>5, <1>6, <1>7, RecursionExists
<1>9. h = [k \in 0 .. n |-> IF k \in {0} THEN b[k] ELSE step[<<h[prev[k]], k>>]]
  BY <1>8 DEF Recursive
<1>10. ASSUME NEW k \in 0 .. n
       PROVE  (IF k \in {0} THEN b[k] ELSE step[<<h[prev[k]], k>>])
                = IF k = 0 THEN 0 ELSE h[k - 1] + (IF ExpOf(terms[k]) = e THEN KoefOf(terms[k]) ELSE 0)
  <2>1. CASE k = 0
    BY <1>4, <2>1
  <2>2. CASE k # 0
    <3>1. k - 1 \in 0 .. n /\ prev[k] = k - 1
      BY <1>4, <2>2
    <3>2. PICK v \in Int : v = h[k - 1]
      BY <3>1
    <3>3. step[<<v, k>>] = v + a[k]
      BY <1>4, <2>2
    <3> QED
      BY <1>3, <2>2, <3>1, <3>2, <3>3
  <2> QED
    BY <2>1, <2>2
<1>11. SumsOf(h, terms, e)
  BY <1>1, <1>9, <1>10 DEF SumsOf
<1>12. PICK f : f = Sums(terms, e)
  OBVIOUS
<1>13. SumsOf(f, terms, e)
  BY <1>11, <1>12 DEF Sums
<1>14. Sum(terms, e) = f[n]
  BY <1>1, <1>12 DEF Sum, Sums, SumsOf
<1>15. f = [k \in 0 .. n |->
              IF k = 0 THEN 0 ELSE f[k - 1] + (IF ExpOf(terms[k]) = e THEN KoefOf(terms[k]) ELSE 0)]
  BY <1>1, <1>13 DEF SumsOf
<1>16. f[0] = 0
  BY <1>15
<1>17. \A k \in 1 .. n : f[k] = f[k - 1] + (IF ExpOf(terms[k]) = e THEN KoefOf(terms[k]) ELSE 0)
  BY <1>15
<1>18. \A k \in 0 .. n : f[k] \in Int
  <2> DEFINE T == {k \in 0 .. n : f[k] \in Int}
  <2>1. 0 \in T
    BY <1>16
  <2>2. ASSUME NEW k \in 0 .. n - 1, k \in T PROVE k + 1 \in T
    <3>1. PICK j \in 1 .. n : j = k + 1
      OBVIOUS
    <3>2. j - 1 = k /\ f[k] \in Int
      BY <2>2, <3>1
    <3>3. f[j] = f[k] + a[j]
      BY <1>3, <1>17, <3>2
    <3>4. f[j] \in Int
      BY <1>2, <3>2, <3>3
    <3> QED
      BY <3>1, <3>4
  <2> HIDE DEF T
  <2>3. \A k \in 0 .. n : k \in T
    BY <2>1, <2>2, UpTo
  <2> QED
    BY <2>3 DEF T
<1>19. f \in [0 .. n -> Int]
  <2>1. f = [k \in 0 .. n |-> f[k]]
    BY <1>15
  <2> QED
    BY <1>18, <2>1
<1> QED
  BY <1>1, <1>12, <1>14, <1>16, <1>17, <1>19

(* No exponent is larger than an int.                                       *)
IntExponents(terms) == \A k \in 1 .. Len(terms) : ExpOf(terms[k]) <= IntMax

(* What the map d holds when the first k terms have been read: their        *)
(* exponents, and for each a number congruent to the sum.                   *)
HoldsSums(d, terms, k) ==
  /\ \A e \in DOMAIN d : Congruent(d[e], Sums(terms, e)[k])
  /\ \A e \in Nat : e \notin DOMAIN d => Sums(terms, e)[k] = 0

HasRead(d, terms, k) ==
  /\ d = [e \in DOMAIN d |-> d[e]]
  /\ DOMAIN d = {Wrap(ExpOf(terms[j])) : j \in 1 .. k}
  /\ \A e \in DOMAIN d : d[e] \in TheInts
  /\ IntExponents(terms) => HoldsSums(d, terms, k)

(* Ints are integers.                                                       *)
LEMMA IntsAre == \A n \in TheInts : n \in Int
BY WidthIs DEF TheInts

(* One term more.                                                           *)
LEMMA HasReadOne ==
  ASSUME NEW terms \in Seq(Term), NEW d, NEW k \in 0 .. Len(terms) - 1, HasRead(d, terms, k),
         NEW term, term.koef = Wrap(KoefOf(terms[k + 1])), term.exp = Wrap(ExpOf(terms[k + 1]))
  PROVE  HasRead(put(d, term), terms, k + 1)
<1>1. PICK n \in Nat : n = Len(terms)
  OBVIOUS
<1>2. PICK l \in 1 .. n : l = k + 1 /\ l - 1 = k
  BY <1>1
<1>3. terms[l] \in Term
  BY <1>1
<1>4. PICK x \in Nat, c \in Int : x = ExpOf(terms[l]) /\ c = KoefOf(terms[l])
  BY <1>3, TermNumbers
<1>5. PICK kf, ex : kf = Wrap(c) /\ ex = Wrap(x)
  OBVIOUS
<1>6. kf \in TheInts /\ kf \in Int /\ Congruent(kf, c)
  BY <1>5, WrapIs
<1>7. term.koef = kf /\ term.exp = ex
  BY <1>2, <1>4, <1>5
<1>8. PICK D : D = DOMAIN d
  OBVIOUS
<1>9. PICK d2 : d2 = put(d, term)
  OBVIOUS
<1>10. d2 = [e \in D \cup {ex} |-> IF e # ex THEN d[e] ELSE IF e \in D THEN Wrap(d[e] + kf) ELSE kf]
  BY <1>7, <1>8, <1>9 DEF put
<1>11. DOMAIN d2 = D \cup {ex}
  BY <1>10
<1>12. \A e \in D \cup {ex} : d2[e] = IF e # ex THEN d[e] ELSE IF e \in D THEN Wrap(d[e] + kf) ELSE kf
  BY <1>10
<1>13. \A e \in D : d[e] \in TheInts /\ d[e] \in Int
  BY <1>8, IntsAre DEF HasRead
<1>14. ex \in D => Wrap(d[ex] + kf) \in TheInts /\ Congruent(Wrap(d[ex] + kf), d[ex] + kf)
                   /\ Wrap(d[ex] + kf) \in Int
  <2> SUFFICES ASSUME ex \in D PROVE Wrap(d[ex] + kf) \in TheInts /\ Congruent(Wrap(d[ex] + kf), d[ex] + kf)
                   /\ Wrap(d[ex] + kf) \in Int
    OBVIOUS
  <2>1. PICK m \in Int : m = d[ex] + kf
    BY <1>6, <1>13
  <2> QED
    BY <2>1, WrapIs
<1>15. \A e \in DOMAIN d2 : d2[e] \in TheInts
  BY <1>6, <1>11, <1>12, <1>13, <1>14
<1>16. d2 = [e \in DOMAIN d2 |-> d2[e]]
  BY <1>10
<1>17. DOMAIN d2 = {Wrap(ExpOf(terms[j])) : j \in 1 .. l}
  <2>1. D = {Wrap(ExpOf(terms[j])) : j \in 1 .. k}
    BY <1>8 DEF HasRead
  <2>2. 1 .. l = (1 .. k) \cup {l}
    BY <1>2
  <2>3. Wrap(ExpOf(terms[l])) = ex
    BY <1>4, <1>5
  <2> QED
    BY <1>11, <2>1, <2>2, <2>3, Zenon
<1>18. ASSUME IntExponents(terms) PROVE HoldsSums(d2, terms, l)
  <2>1. ex = x
    <3>1. x <= IntMax
      BY <1>1, <1>4, <1>18 DEF IntExponents
    <3>2. x \in TheInts
      BY <3>1, WidthIs DEF TheInts
    <3> QED
      BY <1>5, <3>2, WrapInt
  <2>2. HoldsSums(d, terms, k)
    BY <1>18 DEF HasRead
  <2>3. ASSUME NEW e PROVE /\ Sums(terms, e)[k] \in Int
                           /\ Sums(terms, e)[l] = Sums(terms, e)[k] + (IF x = e THEN c ELSE 0)
    <3>1. PICK f : f = Sums(terms, e)
      OBVIOUS
    <3>2. f \in [0 .. n -> Int] /\ \A j \in 1 .. n :
            f[j] = f[j - 1] + (IF ExpOf(terms[j]) = e THEN KoefOf(terms[j]) ELSE 0)
      BY <1>1, <3>1, SumsAre
    <3>3. k \in 0 .. n
      BY <1>2
    <3>4. f[l] = f[k] + (IF x = e THEN c ELSE 0)
      BY <1>2, <1>4, <3>2
    <3> QED
      BY <3>1, <3>2, <3>3, <3>4
  <2>4. ASSUME NEW e \in D \cup {ex} PROVE Congruent(d2[e], Sums(terms, e)[l])
    <3>1. PICK m \in Int : m = Sums(terms, e)[k]
      BY <2>3
    <3>2. Sums(terms, e)[l] = m + (IF x = e THEN c ELSE 0)
      BY <2>3, <3>1
    <3>3. CASE e # ex
      <4>1. d2[e] = d[e] /\ e \in D
        BY <1>12, <3>3
      <4>2. Congruent(d[e], m)
        BY <1>8, <2>2, <3>1, <4>1 DEF HoldsSums
      <4>3. Sums(terms, e)[l] = m
        BY <2>1, <3>2, <3>3
      <4> QED
        BY <4>1, <4>2, <4>3
    <3>4. CASE e = ex /\ e \in D
      <4>1. PICK a \in Int : a = d[ex]
        BY <1>13, <3>4
      <4>2. d2[e] = Wrap(a + kf) /\ Congruent(Wrap(a + kf), a + kf) /\ Wrap(a + kf) \in Int
        BY <1>12, <1>14, <3>4, <4>1
      <4>3. Congruent(a, m)
        BY <1>8, <2>2, <3>1, <3>4, <4>1 DEF HoldsSums
      <4>4. Congruent(a + kf, m + c)
        BY <1>6, <4>3, CongruentSum
      <4>5. a + kf \in Int /\ m + c \in Int
        BY <1>6
      <4>6. Congruent(Wrap(a + kf), m + c)
        BY <4>2, <4>4, <4>5, CongruentTrans
      <4>7. Sums(terms, e)[l] = m + c
        BY <2>1, <3>2, <3>4
      <4> QED
        BY <4>2, <4>6, <4>7
    <3>5. CASE e = ex /\ e \notin D
      <4>1. d2[e] = kf
        BY <1>12, <3>5
      <4>2. m = 0
        BY <1>8, <2>1, <2>2, <3>1, <3>5 DEF HoldsSums
      <4>3. Sums(terms, e)[l] = c
        BY <2>1, <3>2, <3>5, <4>2
      <4> QED
        BY <1>6, <4>1, <4>3
    <3> QED
      BY <3>3, <3>4, <3>5
  <2>5. ASSUME NEW e \in Nat, e \notin D \cup {ex} PROVE Sums(terms, e)[l] = 0
    <3>1. Sums(terms, e)[k] = 0
      BY <1>8, <2>2, <2>5 DEF HoldsSums
    <3>2. x # e
      BY <2>1, <2>5
    <3>3. Sums(terms, e)[l] = Sums(terms, e)[k] + (IF x = e THEN c ELSE 0)
      BY <2>3
    <3>4. Sums(terms, e)[l] = 0 + 0
      BY <3>1, <3>2, <3>3
    <3> QED
      BY <3>4
  <2> QED
    BY <1>11, <2>4, <2>5 DEF HoldsSums
<1> QED
  BY <1>2, <1>9, <1>15, <1>16, <1>17, <1>18 DEF HasRead

-----------------------------------------------------------------------------
(* A line that is made of terms, with the '\n' behind them: each term is a  *)
(* piece.                                                                   *)
TermIn(l, o, terms, k) ==
  /\ o[k] \in 1 .. Len(l) /\ o[k + 1] \in o[k] + 1 .. Len(l)
  /\ SubSeq(l, o[k], o[k + 1] - 1) = Spelling(terms[k])
  /\ l[o[k]] \notin {Blank, NewLine} /\ (l[o[k]] \in Sign <=> HasSign(terms[k]))
  /\ \A j \in o[k] + 1 .. o[k + 1] - 1 : l[j] \notin Sign \cup {NewLine}
  /\ l[o[k + 1]] \in Sign \cup {NewLine}

(* All terms of a list stand so in its line.                                *)
LEMMA TermInLine ==
  ASSUME NEW terms, Proper(terms), NEW l, l = Spell(terms) \o <<NewLine>>,
         NEW o, Starts(o, Spell(terms), SpelledParts(terms))
  PROVE  /\ IsLine(l) /\ o[Len(terms) + 1] = Len(l)
         /\ \A k \in 1 .. Len(terms) : TermIn(l, o, terms, k)
<1>1. PICK s \in Seq(Char) : s = Spell(terms)
  BY SpellStarts
<1>2. PICK n \in Nat, m \in Nat : n = Len(terms) /\ m = Len(s)
  BY SpellStarts
<1>3. IsLine(l) /\ Len(l) = m + 1 /\ \A j \in 1 .. m : l[j] = s[j]
  BY <1>1, <1>2, WithNewLine
<1>4. l \in Seq(Char) /\ l[m + 1] = NewLine
  BY <1>3 DEF IsLine
<1>5. o[n + 1] = m + 1
  BY <1>1, <1>2, SpellStarts DEF Starts
<1>6. ASSUME NEW k \in 1 .. n PROVE TermIn(l, o, terms, k)
  <2>1. PICK p, q : p = o[k] /\ q = o[k + 1]
    OBVIOUS
  <2>2. /\ p \in 1 .. m /\ q \in p + 1 .. m + 1
        /\ SubSeq(s, p, q - 1) = Spelling(terms[k])
        /\ s[p] \notin {Blank, NewLine} /\ (s[p] \in Sign <=> HasSign(terms[k]))
        /\ \A j \in p + 1 .. q - 1 : s[j] \notin Sign \cup {NewLine}
    BY <1>1, <1>2, <2>1, TermAt
  <2>3. l[p] = s[p] /\ \A j \in p + 1 .. q - 1 : l[j] = s[j]
    <3>1. p \in 1 .. m /\ \A j \in p + 1 .. q - 1 : j \in 1 .. m
      BY <2>2
    <3> QED
      BY <1>3, <3>1
  <2>4. l[q] \in Sign \cup {NewLine}
    <3>1. CASE k = n
      BY <1>4, <1>5, <2>1, <3>1
    <3>2. CASE k # n
      <4>1. PICK j \in 1 .. n : j = k + 1
        BY <3>2
      <4>2. o[j] \in 1 .. m /\ (s[o[j]] \in Sign <=> HasSign(terms[j]))
        BY <1>1, <1>2, TermAt
      <4>3. HasSign(terms[j])
        BY <1>2, <4>1 DEF Proper
      <4>4. o[j] = q
        BY <2>1, <4>1
      <4> QED
        BY <1>3, <4>2, <4>3, <4>4
    <3> QED
      BY <3>1, <3>2
  <2>5. SubSeq(l, p, q - 1) = Spelling(terms[k])
    <3>1. PICK part \in Seq(Char) : part = SpelledParts(terms)[k] /\ part = Spelling(terms[k])
      <4>1. SpelledParts(terms)[k] = Spelling(terms[k]) /\ terms[k] \in Term
        BY <1>2, SpellStarts DEF Proper
      <4> QED
        BY <4>1, SpellingTyped
    <3>2. k \in 1 .. Len(SpelledParts(terms))
      BY <1>2, SpellStarts
    <3>3. At(s, p, part) /\ q = p + Len(part)
      BY <1>1, <2>1, <3>1, <3>2 DEF Starts
    <3>4. <<NewLine>> \in Seq(Char)
      BY Characters, OneCharacter
    <3>5. PICK t \in Seq(Char) : t = <<NewLine>>
      BY <3>4
    <3>6. At(s \o t, p, part)
      BY <3>3, AtPrefix
    <3>7. At(l, p, part)
      BY <1>1, <3>5, <3>6
    <3>8. SubSeq(l, p, p + Len(part) - 1) = part
      BY <1>4, <3>7, AtIs
    <3>9. p + Len(part) - 1 = q - 1
      BY <2>2, <3>1, <3>3
    <3> QED
      BY <3>1, <3>8, <3>9
  <2>6. p \in 1 .. Len(l) /\ q \in p + 1 .. Len(l)
    BY <1>3, <2>2
  <2> QED
    BY <2>1, <2>2, <2>3, <2>4, <2>5, <2>6 DEF TermIn
<1> QED
  BY <1>2, <1>3, <1>5, <1>6

-----------------------------------------------------------------------------
(* A line made of terms: k of them have been read, and the next one begins  *)
(* where it was laid.                                                       *)
Reading(o, k) ==
  /\ Starts(o, Spell(written), SpelledParts(written))
  /\ k \in 0 .. Len(written)
  /\ HasRead(db, written, k)
  /\ pc = "done" => k = Len(written)
  /\ pc = "split" =>
       /\ istart = o[k + 1]
       /\ k = Len(written) => i = istart + 1
       /\ k # Len(written) => i = IF HasSign(written[k + 1]) THEN istart + 1 ELSE istart

(* No line made of terms is rejected.                                       *)
ReadInv ==
  written # NoTerms =>
    /\ written \in Terms /\ line = Spell(written) \o <<NewLine>>
    /\ pc # "rejected"
    /\ \E o, k : Reading(o, k)

(* Each piece is a term, get reads it as it was meant, and put adds it to   *)
(* the map: none is rejected, and after k pieces the map holds k terms.     *)
LEMMA ReadInvHolds == Spec => []ReadInv
<1>1. Init => ReadInv
  <2> SUFFICES ASSUME Init, written # NoTerms PROVE ReadInv
    BY DEF ReadInv
  <2>1. written \in Terms /\ line = Spell(written) \o <<NewLine>>
    BY DEF Init
  <2>2. Proper(written) /\ Len(written) \in Nat \ {0}
    BY <2>1, TermsProper
  <2>3. PICK o : Starts(o, Spell(written), SpelledParts(written))
    BY <2>2, SpellStarts
  <2>4. IsLine(line) /\ TermIn(line, o, written, 1)
    <3>1. PICK n \in Nat \ {0} : n = Len(written)
      BY <2>2
    <3>2. IsLine(line) /\ o[n + 1] = Len(line) /\ \A j \in 1 .. n : TermIn(line, o, written, j)
      BY <2>1, <2>2, <2>3, <3>1, TermInLine
    <3>3. 1 \in 1 .. n
      OBVIOUS
    <3> QED
      BY <3>2, <3>3
  <2>5. o[1] = 1
    BY <2>3 DEF Starts
  <2>6. line[1] # Blank /\ (line[1] \in Sign <=> HasSign(written[1])) /\ 1 \in 1 .. Len(line)
    BY <2>4, <2>5 DEF TermIn
  <2>7. Skip(line, 1, {Blank}) = 1
    <3>1. Row(line, 1, {Blank}, 1) /\ Len(line) \in Nat /\ 1 \in 1 .. Len(line) + 1
      BY <2>4, <2>6 DEF Row, IsLine
    <3> QED
      BY <3>1, RowIs
  <2>8. istart = 1 /\ i = (IF line[1] \in Sign THEN istart + 1 ELSE istart) /\ pc = "split"
    BY <2>7 DEF Init
  <2>9. HasRead(db, written, 0)
    <3>1. db = NoKoefs /\ DOMAIN NoKoefs = {} /\ NoKoefs = [e \in DOMAIN NoKoefs |-> NoKoefs[e]]
      BY DEF Init, NoKoefs
    <3>2. written \in Seq(Term)
      BY <2>2 DEF Proper
    <3>3. \A e : Sums(written, e)[0] = 0
      BY <3>2, SumsAre
    <3>4. HoldsSums(db, written, 0)
      BY <3>1, <3>3 DEF HoldsSums
    <3>5. {Wrap(ExpOf(written[j])) : j \in 1 .. 0} = {}
      OBVIOUS
    <3> QED
      BY <3>1, <3>4, <3>5 DEF HasRead
  <2>10. Reading(o, 0)
    <3>1. 0 \in 0 .. Len(written) /\ 0 # Len(written) /\ 0 + 1 = 1
      BY <2>2
    <3> QED
      BY <2>3, <2>5, <2>6, <2>8, <2>9, <3>1 DEF Reading
  <2> QED
    BY <2>1, <2>8, <2>10 DEF ReadInv
<1>2. ReadInv /\ [Next]_vars => ReadInv'
  <2> SUFFICES ASSUME ReadInv, [Next]_vars, written' # NoTerms PROVE ReadInv'
    BY DEF ReadInv
  <2>1. written' = written /\ line' = line
    BY DEF Next, vars, PutTerm, Reject, Finish
  <2>2. /\ written \in Terms /\ line = Spell(written) \o <<NewLine>>
        /\ pc # "rejected" /\ \E o, k : Reading(o, k)
    BY <2>1 DEF ReadInv
  <2>3. PICK o, k : Reading(o, k)
    BY <2>2
  <2>4. Proper(written) /\ Len(written) \in Nat \ {0}
    BY <2>2, TermsProper
  <2>5. PICK n \in Nat \ {0} : n = Len(written)
    BY <2>4
  <2>6. Starts(o, Spell(written), SpelledParts(written)) /\ k \in 0 .. n /\ HasRead(db, written, k)
    BY <2>3, <2>5 DEF Reading
  <2>7. IsLine(line) /\ o[n + 1] = Len(line) /\ \A j \in 1 .. n : TermIn(line, o, written, j)
    BY <2>2, <2>4, <2>5, <2>6, TermInLine
  <2>8. line \in Seq(Char) /\ Len(line) \in Nat \ {0}
    BY <2>7 DEF IsLine
  <2>9. CASE UNCHANGED vars
    <3>1. Reading(o, k)'
      BY <2>3, <2>9 DEF Reading, vars
    <3> QED
      BY <2>1, <2>2, <2>9, <3>1 DEF ReadInv, vars
  <2>10. CASE pc = "split" /\ k = n
    <3>1. istart = Len(line) /\ i = Len(line) + 1
      BY <2>3, <2>5, <2>7, <2>10 DEF Reading
    <3>2. Cut \in i .. Len(line) + 1
      <4>1. i \in 1 .. Len(line) + 1
        BY <2>8, <3>1
      <4>2. Gap(line, i, Sign \cup {NewLine}, Cut)
        BY <2>8, <4>1, FindGap DEF Cut
      <4> QED
        BY <4>2 DEF Gap
    <3>3. Cut > Len(line) /\ ~(Cut <= Len(line))
      BY <2>8, <3>1, <3>2
    <3>4. ~PutTerm /\ ~Reject
      BY <3>3 DEF PutTerm, Reject
    <3>5. CASE Finish
      <4>1. UNCHANGED <<line, written, istart, i, db>> /\ pc' = "done"
        BY <3>5 DEF Finish
      <4>2. Reading(o, k)'
        BY <2>5, <2>6, <2>10, <4>1 DEF Reading
      <4> QED
        BY <2>1, <2>2, <4>1, <4>2 DEF ReadInv
    <3> QED
      BY <2>9, <3>4, <3>5 DEF Next
  <2>11. CASE pc = "split" /\ k # n
    <3>1. PICK l \in 1 .. n : l = k + 1
      BY <2>6, <2>11
    <3>2. PICK p, q : p = o[l] /\ q = o[l + 1]
      OBVIOUS
    <3>3. istart = p /\ i = IF HasSign(written[l]) THEN istart + 1 ELSE istart
      BY <2>3, <2>5, <2>11, <3>1, <3>2 DEF Reading
    <3>4. /\ p \in 1 .. Len(line) /\ q \in p + 1 .. Len(line)
          /\ SubSeq(line, p, q - 1) = Spelling(written[l])
          /\ line[p] \notin {Blank, NewLine} /\ (line[p] \in Sign <=> HasSign(written[l]))
          /\ \A j \in p + 1 .. q - 1 : line[j] \notin Sign \cup {NewLine}
          /\ line[q] \in Sign \cup {NewLine}
      BY <2>7, <3>1, <3>2 DEF TermIn
    <3>5. Cut = q
      <4>1. i \in 1 .. Len(line) + 1 /\ q \in i .. Len(line) + 1
        BY <2>8, <3>3, <3>4
      <4>2. \A j \in i .. q - 1 : line[j] \notin Sign \cup {NewLine}
        BY <2>8, <3>3, <3>4
      <4>3. Gap(line, i, Sign \cup {NewLine}, q)
        BY <3>4, <4>1, <4>2 DEF Gap
      <4> QED
        BY <2>8, <4>1, <4>3, GapIs DEF Cut
    <3>6. Piece = Spelling(written[l])
      BY <3>3, <3>4, <3>5 DEF Piece
    <3>7. written[l] \in Term /\ (written[l].var \/ written[l].koef # None)
      BY <2>4, <2>5 DEF Proper
    <3>8. get(Piece) = [ok |-> TRUE, koef |-> Wrap(KoefOf(written[l])), exp |-> Wrap(ExpOf(written[l]))]
      BY <3>6, <3>7, SpellingRead
    <3>9. PICK term : term = get(Piece)
      OBVIOUS
    <3>10. term.ok /\ term.koef = Wrap(KoefOf(written[l])) /\ term.exp = Wrap(ExpOf(written[l]))
      BY <3>8, <3>9
    <3>11. ~Reject /\ ~Finish
      <4>1. ~(Cut > Len(line)) /\ get(Piece).ok
        BY <2>8, <3>4, <3>5, <3>9, <3>10
      <4> QED
        BY <4>1 DEF Reject, Finish
    <3>12. CASE PutTerm
      <4>1. /\ UNCHANGED <<line, written, output, pc>> /\ db' = put(db, term)
            /\ istart' = q /\ i' = q + 1
        BY <3>5, <3>9, <3>12 DEF PutTerm
      <4>2. HasRead(put(db, term), written, l)
        <5>1. written \in Seq(Term) /\ k \in 0 .. Len(written) - 1
          BY <2>4, <2>5, <2>6, <2>11 DEF Proper
        <5>2. term.koef = Wrap(KoefOf(written[k + 1])) /\ term.exp = Wrap(ExpOf(written[k + 1]))
          BY <3>1, <3>10
        <5>3. HasRead(put(db, term), written, k + 1)
          BY <2>6, <5>1, <5>2, HasReadOne
        <5> QED
          BY <3>1, <5>3
      <4>3. l # n => HasSign(written[l + 1])
        <5> SUFFICES ASSUME l # n PROVE HasSign(written[l + 1])
          OBVIOUS
        <5>1. PICK m \in 1 .. n : m = l + 1 /\ m > 1
          BY <3>1
        <5> QED
          BY <2>4, <2>5, <5>1 DEF Proper
      <4>4. Reading(o, l)'
        BY <2>5, <2>6, <2>11, <3>1, <3>2, <4>1, <4>2, <4>3 DEF Reading
      <4> QED
        BY <2>1, <2>2, <4>1, <4>4 DEF ReadInv
    <3> QED
      BY <2>9, <3>11, <3>12 DEF Next
  <2>12. CASE pc # "split" /\ Next
    BY <2>12 DEF Next, PutTerm, Reject, Finish
  <2> QED
    BY <2>9, <2>10, <2>11, <2>12
<1> QED
  BY <1>1, <1>2, PTL DEF Spec

(* Whatever list of terms the user writes, in whatever spelling, is         *)
(* accepted, and the map holds the sum of the coefficients of each          *)
(* exponent, as long as the exponents and the sums are ints.                *)
THEOREM IsReadAsWritten == Spec => []ReadAsWritten
<1>1. ReadInv => ReadAsWritten
  <2> SUFFICES ASSUME ReadInv, written # NoTerms PROVE ReadAsWritten
    BY DEF ReadAsWritten
  <2>1. written \in Terms /\ pc # "rejected"
    BY DEF ReadInv
  <2>2. PICK o, k : Reading(o, k)
    BY DEF ReadInv
  <2>3. written \in Seq(Term)
    BY <2>1, TermsTyped
  <2>4. PICK n \in Nat : n = Len(written)
    BY <2>3
  <2>5. PICK exps : exps = {ExpOf(written[j]) : j \in 1 .. n}
    OBVIOUS
  <2>6. ASSUME pc = "done", \A e \in exps : e <= IntMax /\ Sum(written, e) \in TheInts
        PROVE  db = [e \in exps |-> Sum(written, e)]
    <3>1. k = n /\ HasRead(db, written, n)
      BY <2>2, <2>4, <2>6 DEF Reading
    <3>2. \A j \in 1 .. n : ExpOf(written[j]) \in Nat /\ ExpOf(written[j]) <= IntMax
      <4>1. \A j \in 1 .. n : written[j] \in Term
        BY <2>3, <2>4
      <4>2. \A j \in 1 .. n : ExpOf(written[j]) \in Nat
        BY <4>1, TermNumbers
      <4>3. \A j \in 1 .. n : ExpOf(written[j]) \in exps
        BY <2>5
      <4> QED
        BY <2>6, <4>2, <4>3
    <3>3. IntExponents(written)
      BY <2>4, <3>2 DEF IntExponents
    <3>4. \A j \in 1 .. n : Wrap(ExpOf(written[j])) = ExpOf(written[j])
      <4>1. \A j \in 1 .. n : ExpOf(written[j]) \in TheInts
        BY <3>2, WidthIs DEF TheInts
      <4> QED
        BY <4>1, WrapInt
    <3>5. DOMAIN db = exps
      <4>1. DOMAIN db = {Wrap(ExpOf(written[j])) : j \in 1 .. n}
        BY <3>1 DEF HasRead
      <4> QED
        BY <2>5, <3>4, <4>1
    <3>6. ASSUME NEW e \in exps PROVE db[e] = Sum(written, e)
      <4>1. db[e] \in TheInts /\ Congruent(db[e], Sums(written, e)[n])
        BY <3>1, <3>3, <3>5 DEF HasRead, HoldsSums
      <4>2. Sum(written, e) = Sums(written, e)[n]
        BY <2>3, <2>4, SumsAre
      <4>3. Sum(written, e) \in TheInts /\ Congruent(db[e], Sum(written, e))
        BY <2>6, <4>1, <4>2
      <4> QED
        BY <4>1, <4>3, IntsCongruent
    <3>7. db = [e \in DOMAIN db |-> db[e]]
      BY <3>1 DEF HasRead
    <3> QED
      BY <3>5, <3>6, <3>7
  <2> QED
    BY <2>1, <2>4, <2>5, <2>6 DEF ReadAsWritten
<1> QED
  BY <1>1, ReadInvHolds, PTL

-----------------------------------------------------------------------------
(* What is read from a piece are ints.                                      *)
LEMMA DigitsBetween ==
  ASSUME NEW s \in Seq(Char), NEW a \in 1 .. Len(s) + 1, NEW b \in a - 1 .. Len(s),
         \A j \in a .. b : s[j] \in Numeric
  PROVE  SubSeq(s, a, b) \in Seq(Numeric)
<1>1. PICK t : t = SubSeq(s, a, b)
  OBVIOUS
<1>2. PICK n : n = b - a + 1
  OBVIOUS
<1>3. n \in Nat /\ Len(s) \in Nat
  BY <1>2
<1>4. /\ t \in Seq(Char) /\ Len(t) = n
      /\ \A k \in 1 .. n : t[k] = s[a + k - 1] /\ a + k - 1 \in a .. b
  BY <1>1, <1>2, PieceIs
<1>5. \A k \in 1 .. n : t[k] \in Numeric
  BY <1>4
<1>6. t \in [1 .. n -> Char]
  BY <1>3, <1>4
<1>7. t \in [1 .. n -> Numeric]
  BY <1>5, <1>6
<1>8. t \in Seq(Numeric)
  BY <1>3, <1>7
<1> QED
  BY <1>1, <1>8

(* What stoi reads is an int,                                               *)
LEMMA StoiTyped ==
  ASSUME NEW s \in Seq(Char), NEW p \in 1 .. Len(s) + 1, NEW sign, NEW begin, NEW end,
         StoiAt(s, p, sign, begin, end)
  PROVE  StoiResult(s, sign, begin, end).value \in TheInts
<1>1. Len(s) \in Nat
  OBVIOUS
<1>2. sign \in p .. Len(s) + 1 /\ begin \in sign .. Len(s) + 1 /\ end \in begin .. Len(s) + 1
  BY <1>1, StoiWithin
<1>3. PICK size : size = IF end > begin THEN ValueOf(SubSeq(s, begin, end - 1))
                         ELSE IF CharAt(s, sign) \in Sign /\ begin <= Len(s) THEN 1 ELSE 0
  OBVIOUS
<1>4. size \in TheInts
  <2>1. CASE end > begin
    <3>1. begin \in 1 .. Len(s) + 1 /\ end - 1 \in begin - 1 .. Len(s)
      BY <1>1, <1>2
    <3>2. \A j \in begin .. end - 1 : s[j] \in Numeric
      BY DEF StoiAt, Row
    <3>3. SubSeq(s, begin, end - 1) \in Seq(Numeric)
      BY <3>1, <3>2, DigitsBetween
    <3>4. ValueOf(SubSeq(s, begin, end - 1)) \in TheInts
      BY <3>3, ValueTyped
    <3> QED
      BY <1>3, <2>1, <3>4
  <2>2. CASE ~(end > begin)
    BY <1>3, <2>2, ZeroIs
  <2> QED
    BY <2>1, <2>2
<1>5. Wrap(-size) \in TheInts
  <2>1. -size \in Int
    BY <1>4, IntsAre
  <2> QED
    BY <2>1, WrapIs
<1>6. StoiResult(s, sign, begin, end).value = IF CharAt(s, sign) = "-" THEN Wrap(-size) ELSE size
  BY <1>3 DEF StoiResult
<1> QED
  BY <1>4, <1>5, <1>6

(* and so is what get reads, from any piece.                                *)
LEMMA GetTyped ==
  ASSUME NEW s \in Seq(Char)
  PROVE  get(s).koef \in TheInts /\ get(s).exp \in TheInts
<1>1. Len(s) \in Nat
  OBVIOUS
<1>2. PICK sign, begin, end, star, var, after, power, sign2, begin2, end2 :
        /\ GetAt(s, sign, begin, end, star, var, after, power, sign2, begin2, end2)
        /\ get(s) = GetResult(s, sign, begin, end, var, after, power, sign2, begin2, end2)
  BY <1>1, GetParts
<1>3. StoiAt(s, 1, sign, begin, end) /\ StoiAt(s, Behind(s, power, {"^"}), sign2, begin2, end2)
  BY <1>2 DEF GetAt
<1>4. PICK o : o = 1
  OBVIOUS
<1>5. StoiResult(s, sign, begin, end).value \in TheInts
  <2>1. o \in 1 .. Len(s) + 1 /\ StoiAt(s, o, sign, begin, end)
    BY <1>1, <1>3, <1>4
  <2> QED
    BY <2>1, StoiTyped
<1>6. PICK p : p = Behind(s, power, {"^"})
  OBVIOUS
<1>7. StoiResult(s, sign2, begin2, end2).value \in TheInts
  <2>1. power \in 1 .. Len(s) + 1 /\ p \in power .. Len(s) + 1
    BY <1>1, <1>2, <1>6, GetWithin
  <2>2. p \in 1 .. Len(s) + 1 /\ StoiAt(s, p, sign2, begin2, end2)
    BY <1>1, <1>3, <1>6, <2>1
  <2> QED
    BY <2>2, StoiTyped
<1>8. PICK koef : koef = StoiResult(s, sign, begin, end)
  OBVIOUS
<1>9. PICK exp : exp = StoiResult(s, sign2, begin2, end2)
  OBVIOUS
<1>10. /\ get(s).koef = IF after > var /\ ~koef.number /\ koef.value = 0 THEN 1 ELSE koef.value
       /\ get(s).exp = IF ~(after > var) THEN 0 ELSE IF exp.number THEN exp.value ELSE 1
  BY <1>2, <1>8, <1>9 DEF GetResult
<1> QED
  BY <1>5, <1>7, <1>8, <1>9, <1>10, ZeroIs

(* The map holds ints for ints, and the output is written at the end.       *)
IntMap(d) ==
  /\ d = [e \in DOMAIN d |-> d[e]]
  /\ \A e \in DOMAIN d : e \in TheInts /\ d[e] \in TheInts

(* The map stays one of ints.                                               *)
LEMMA PutTyped ==
  ASSUME NEW d, IntMap(d), NEW term, term.koef \in TheInts, term.exp \in TheInts
  PROVE  IntMap(put(d, term))
<1>1. PICK c : c = put(d, term)
  OBVIOUS
<1>2. c = [e \in DOMAIN d \cup {term.exp} |->
             IF e # term.exp THEN d[e]
             ELSE IF e \in DOMAIN d THEN Wrap(d[e] + term.koef) ELSE term.koef]
  BY <1>1 DEF put
<1>3. DOMAIN c = DOMAIN d \cup {term.exp} /\ c = [e \in DOMAIN c |-> c[e]]
  BY <1>2
<1>4. ASSUME NEW e \in DOMAIN c PROVE e \in TheInts /\ c[e] \in TheInts
  <2>1. CASE e # term.exp
    BY <1>2, <1>3, <2>1 DEF IntMap
  <2>2. CASE e = term.exp /\ e \in DOMAIN d
    <3>1. d[e] \in Int /\ term.koef \in Int
      BY <2>2, IntsAre DEF IntMap
    <3>2. d[e] + term.koef \in Int
      BY <3>1
    <3>3. Wrap(d[e] + term.koef) \in TheInts
      BY <3>2, WrapIs
    <3> QED
      BY <1>2, <2>2, <3>3
  <2>3. CASE e = term.exp /\ e \notin DOMAIN d
    BY <1>2, <2>3
  <2> QED
    BY <2>1, <2>2, <2>3
<1> QED
  BY <1>1, <1>3, <1>4 DEF IntMap

MapInv == IntMap(db) /\ (pc = "done" => output = bd_to_string(db))

(* Whatever the line, the map holds ints.                                   *)
LEMMA MapInvHolds == Spec => []MapInv
<1>1. Init => MapInv
  <2> SUFFICES ASSUME Init PROVE MapInv
    OBVIOUS
  <2>1. db = NoKoefs /\ DOMAIN NoKoefs = {} /\ NoKoefs = [e \in DOMAIN NoKoefs |-> NoKoefs[e]] /\ pc # "done"
    BY DEF Init, NoKoefs
  <2> QED
    BY <2>1 DEF MapInv, IntMap
<1>2. MapInv /\ CutInv /\ [Next]_vars => MapInv'
  <2> SUFFICES ASSUME MapInv, CutInv, [Next]_vars PROVE MapInv'
    OBVIOUS
  <2>1. CASE UNCHANGED vars
    BY <2>1 DEF MapInv, IntMap, vars
  <2>2. CASE PutTerm
    <3>1. PICK term : term = get(Piece)
      OBVIOUS
    <3>2. term.koef \in TheInts /\ term.exp \in TheInts
      <4>1. /\ IsLine(line) /\ istart \in 1 .. Len(line) /\ i \in {istart, istart + 1}
            /\ (i = istart => line[istart] \notin Sign)
        BY <2>2 DEF CutInv, PutTerm
      <4>2. Piece \in Seq(Char)
        BY <4>1, CutIs
      <4> QED
        BY <3>1, <4>2, GetTyped
    <3>3. db' = put(db, term) /\ pc' = "split"
      BY <2>2, <3>1 DEF PutTerm
    <3>4. IntMap(put(db, term))
      BY <3>2, PutTyped DEF MapInv
    <3>5. IntMap(db')
      BY <3>3, <3>4
    <3> QED
      BY <3>3, <3>5 DEF MapInv, IntMap
  <2>3. CASE Reject
    BY <2>3 DEF MapInv, IntMap, Reject
  <2>4. CASE Finish
    <3>1. db' = db /\ output' = bd_to_string(db)
      BY <2>4 DEF Finish
    <3> QED
      BY <3>1 DEF MapInv, IntMap
  <2> QED
    BY <2>1, <2>2, <2>3, <2>4 DEF Next
<1> QED
  BY <1>1, <1>2, CutInvHolds, PTL DEF Spec

-----------------------------------------------------------------------------
(* The order in which bd_to_string goes through the map: there is one, it   *)
(* is falling, and it leaves nothing out.                                   *)
Falls(q, E) ==
  /\ q \in [1 .. Cardinality(E) -> E]
  /\ \A j, k \in 1 .. Cardinality(E) : j < k => q[j] > q[k]

(* A set of ints is finite.                                                 *)
LEMMA IntsFinite == ASSUME NEW E \in SUBSET TheInts PROVE IsFiniteSet(E) /\ Cardinality(E) \in Nat
<1>1. IsFiniteSet(TheInts)
  <2>1. PICK a \in Int, b \in Int : TheInts = a .. b
    BY WidthIs DEF TheInts
  <2> QED
    BY <2>1, FS_Interval
<1>2. IsFiniteSet(E)
  BY <1>1, FS_Subset
<1> QED
  BY <1>2, FS_CardinalityType

(* It has a least element, if it has any.                                   *)
LEMMA LeastInt ==
  ASSUME NEW E \in SUBSET TheInts, E # {}
  PROVE  \E x \in E : \A y \in E : x <= y
<1>1. PICK c \in Int : \A e \in TheInts : e \in Int /\ e + c \in Nat
  <2>1. \A e \in TheInts : e \in Int /\ e + (IntMax + 1) \in Nat
    BY WidthIs DEF TheInts
  <2> QED
    BY <2>1, WidthIs
<1> DEFINE T == {e + c : e \in E}
<1>2. T \in SUBSET Nat /\ T # {}
  BY <1>1
<1>3. PICK t \in T : \A u \in T : t <= u
  <2> HIDE DEF T
  <2> QED
    BY <1>2, Least
<1>4. PICK x \in E : t = x + c
  OBVIOUS
<1>5. ASSUME NEW y \in E PROVE x <= y
  <2>1. x + c <= y + c /\ x \in Int /\ y \in Int
    BY <1>1, <1>3, <1>4
  <2> QED
    BY <2>1
<1> QED
  BY <1>5

(* The least element goes last.                                             *)
LEMMA FallsExists ==
  ASSUME NEW n \in Nat, \A E \in SUBSET TheInts : Cardinality(E) = n => \E q : Falls(q, E),
         NEW E \in SUBSET TheInts, Cardinality(E) = n + 1
  PROVE  \E q : Falls(q, E)
<1>1. IsFiniteSet(E) /\ E # {}
  BY IntsFinite, FS_EmptySet
<1>2. PICK m \in E : \A y \in E : m <= y
  BY <1>1, LeastInt
<1>3. PICK F : F = E \ {m}
  OBVIOUS
<1>4. F \in SUBSET TheInts /\ Cardinality(F) = n
  <2>1. Cardinality(F) = n + 1 - 1
    BY <1>1, <1>2, <1>3, FS_RemoveElement
  <2> QED
    BY <1>3, <2>1
<1>5. PICK q : Falls(q, F)
  BY <1>4
<1>6. q \in [1 .. n -> F] /\ \A j, k \in 1 .. n : j < k => q[j] > q[k]
  BY <1>4, <1>5 DEF Falls
<1> DEFINE r == [k \in 1 .. n + 1 |-> IF k <= n THEN q[k] ELSE m]
<1>7. \A k \in 1 .. n + 1 : (k <= n => k \in 1 .. n) /\ (~(k <= n) => k = n + 1)
  OBVIOUS
<1>8. r \in [1 .. n + 1 -> E]
  <2>1. \A k \in 1 .. n + 1 : (IF k <= n THEN q[k] ELSE m) \in E
    BY <1>2, <1>3, <1>6, <1>7
  <2> QED
    BY <2>1
<1>9. ASSUME NEW j \in 1 .. n + 1, NEW k \in 1 .. n + 1, j < k PROVE r[j] > r[k]
  <2>1. j \in 1 .. n /\ r[j] = q[j]
    BY <1>9
  <2>2. CASE k <= n
    <3>1. k \in 1 .. n /\ r[k] = q[k]
      BY <1>7, <2>2
    <3> HIDE DEF r
    <3> QED
      BY <1>6, <1>9, <2>1, <3>1
  <2>3. CASE ~(k <= n)
    <3>1. r[k] = m
      BY <2>3
    <3>2. q[j] \in E /\ q[j] # m
      BY <1>3, <1>6, <2>1
    <3>3. m <= q[j] /\ m \in Int /\ q[j] \in Int
      BY <1>2, <3>2, IntsAre
    <3> HIDE DEF r
    <3> QED
      BY <2>1, <3>1, <3>2, <3>3
  <2> QED
    BY <2>2, <2>3
<1> HIDE DEF r
<1>10. Falls(r, E)
  BY <1>8, <1>9 DEF Falls
<1> QED
  BY <1>10

(* So every set of ints can be gone through from the largest on.            *)
LEMMA DescendingIs ==
  ASSUME NEW E \in SUBSET TheInts
  PROVE  /\ Falls(Descending(E), E) /\ Cardinality(E) \in Nat
         /\ \A e \in E : \E k \in 1 .. Cardinality(E) : Descending(E)[k] = e
<1>1. IsFiniteSet(E) /\ Cardinality(E) \in Nat
  BY IntsFinite
<1>2. PICK N \in Nat : N = Cardinality(E)
  BY <1>1
<1> DEFINE T == {n \in 0 .. N : \A F \in SUBSET TheInts : Cardinality(F) = n => \E q : Falls(q, F)}
<1>3. 0 \in T
  <2>1. ASSUME NEW F \in SUBSET TheInts, Cardinality(F) = 0 PROVE \E q : Falls(q, F)
    <3>1. F = {}
      BY <2>1, IntsFinite, FS_EmptySet
    <3> DEFINE q == [k \in {} |-> k]
    <3>2. 1 .. 0 = {}
      OBVIOUS
    <3>3. q \in [1 .. Cardinality(F) -> F] /\ 1 .. Cardinality(F) = {}
      BY <2>1, <3>2
    <3>4. Falls(q, F)
      BY <3>3 DEF Falls
    <3> QED
      BY <3>4
  <2> QED
    BY <2>1
<1>4. \A k \in 0 .. N - 1 : k \in T => k + 1 \in T
  <2> SUFFICES ASSUME NEW k \in 0 .. N - 1, k \in T PROVE k + 1 \in T
    OBVIOUS
  <2>1. k \in Nat /\ k + 1 \in 0 .. N
    OBVIOUS
  <2>2. \A F \in SUBSET TheInts : Cardinality(F) = k => \E q : Falls(q, F)
    OBVIOUS
  <2>3. \A F \in SUBSET TheInts : Cardinality(F) = k + 1 => \E q : Falls(q, F)
    BY <2>1, <2>2, FallsExists
  <2> QED
    BY <2>1, <2>3
<1>5. N \in T
  <2> HIDE DEF T
  <2>1. \A k \in 0 .. N : k \in T
    BY <1>3, <1>4, UpTo
  <2> QED
    BY <2>1
<1>6. \E q : Falls(q, E)
  BY <1>2, <1>5
<1>7. PICK q : q = Descending(E)
  OBVIOUS
<1>8. Falls(q, E)
  BY <1>6, <1>7, Zenon DEF Falls, Descending
<1>9. q \in [1 .. N -> E] /\ \A j, k \in 1 .. N : j < k => q[j] > q[k]
  BY <1>2, <1>8 DEF Falls
<1>10. ASSUME NEW j \in 1 .. N, NEW k \in 1 .. N, q[j] = q[k] PROVE j = k
  <2>1. q[j] \in Int /\ q[k] \in Int
    BY <1>9, IntsAre
  <2>2. ~(j < k) /\ ~(k < j)
    BY <1>9, <1>10, <2>1
  <2> QED
    BY <2>2
<1>11. q \in Injection(1 .. N, E)
  BY <1>9, <1>10 DEF Injection, IsInjective
<1>12. Cardinality(1 .. N) = N
  BY FS_Interval
<1>13. q \in Surjection(1 .. N, E)
  BY <1>1, <1>2, <1>11, <1>12, FS_Injection
<1>14. \A e \in E : \E k \in 1 .. N : q[k] = e
  BY <1>13 DEF Surjection
<1> QED
  BY <1>1, <1>2, <1>7, <1>8, <1>14

-----------------------------------------------------------------------------
(* What bd_to_string writes is the spelling of a term.                      *)
OutSign(c, first) == IF c < 0 THEN "-" ELSE IF first THEN "" ELSE "+"

(* The term with coefficient c and exponent e - 1.                          *)
OutTerm(c, e, first) ==
  [sign |-> OutSign(c, first), koef |-> IF c < 0 THEN -c ELSE c, var |-> e > 1,
   exp |-> IF e > 2 THEN e - 1 ELSE None, gap |-> FALSE]

(* The sign that is written, if any.                                        *)
LEMMA OutSignIs ==
  ASSUME NEW c, NEW first \in BOOLEAN, NEW signs, signs = Sign \cup {""}, NEW no, no = ""
  PROVE  /\ OutSign(c, first) \in signs
         /\ c < 0 => OutSign(c, first) = "-"
         /\ ~(c < 0) /\ ~first => OutSign(c, first) = "+"
         /\ ~(c < 0) /\ first => OutSign(c, first) = no
         /\ no # "-" /\ no # "+" /\ "-" # "+"
BY Zenon DEF OutSign, Sign

(* It is a term with the coefficient and the exponent meant, and a sign     *)
(* unless it is the first.                                                  *)
LEMMA OutTermIs ==
  ASSUME NEW c \in TheInts, NEW e \in TheInts, e > 0, NEW first \in BOOLEAN
  PROVE  /\ OutTerm(c, e, first) \in Term
         /\ OutTerm(c, e, first).koef # None
         /\ ~first => HasSign(OutTerm(c, e, first))
         /\ KoefOf(OutTerm(c, e, first)) = c /\ ExpOf(OutTerm(c, e, first)) = e - 1
<1>1. PICK t : t = OutTerm(c, e, first)
  OBVIOUS
<1>2. PICK signs, no, sgn : signs = Sign \cup {""} /\ no = "" /\ sgn = OutSign(c, first)
  OBVIOUS
<1>3. /\ sgn \in signs /\ (c < 0 => sgn = "-") /\ (~(c < 0) /\ ~first => sgn = "+")
      /\ (~(c < 0) /\ first => sgn = no) /\ no # "-" /\ no # "+" /\ "-" # "+"
  BY <1>2, OutSignIs
<1>4. t = [sign |-> sgn, koef |-> IF c < 0 THEN -c ELSE c, var |-> e > 1,
           exp |-> IF e > 2 THEN e - 1 ELSE None, gap |-> FALSE]
  BY <1>1, <1>2 DEF OutTerm
<1>5. /\ c \in Int /\ -(IntMax + 1) <= c /\ c <= IntMax /\ e \in Int /\ e <= IntMax
      /\ IntMax \in Nat /\ None = -1
  BY WidthIs DEF TheInts, None
<1>6. PICK k : k = IF c < 0 THEN -c ELSE c
  OBVIOUS
<1>7. PICK x : x = IF e > 2 THEN e - 1 ELSE None
  OBVIOUS
<1>8. k \in 0 .. IntMax + 1 /\ k # None
  BY <1>5, <1>6
<1>9. k \in Numbers /\ x \in Numbers
  <2>1. x = None \/ x \in 0 .. IntMax + 1
    BY <1>5, <1>7
  <2> QED
    BY <1>8, <2>1 DEF Numbers
<1>10. PICK v \in BOOLEAN : v = (e > 1) /\ (e > 1 => v = TRUE) /\ (~(e > 1) => v = FALSE)
  <2>1. CASE e > 1
    <3>1. (e > 1) = TRUE
      BY <2>1
    <3> QED
      BY <2>1, <3>1, Zenon
  <2>2. CASE ~(e > 1)
    <3>1. (e > 1) = FALSE
      BY <2>2
    <3> QED
      BY <2>2, <3>1, Zenon
  <2> QED
    BY <2>1, <2>2
<1>11. t = [sign |-> sgn, koef |-> k, var |-> v, exp |-> x, gap |-> FALSE]
  BY <1>4, <1>6, <1>7, <1>10
<1>12. t \in Term
  <2>1. Term = [sign : signs, koef : Numbers, var : BOOLEAN, exp : Numbers, gap : BOOLEAN]
    BY <1>2 DEF Term
  <2> QED
    BY <1>3, <1>9, <1>11, <2>1
<1>13. t.sign = sgn /\ t.koef = k /\ t.var = v /\ t.exp = x
  BY <1>11
<1>14. ~first => HasSign(t)
  <2>1. ~first => sgn # no
    BY <1>3
  <2> QED
    BY <1>2, <1>13, <2>1, Zenon DEF HasSign
<1>15. KoefOf(t) = c
  <2>1. KoefOf(t) = IF sgn = "-" THEN -k ELSE k
    BY <1>8, <1>12, <1>13, TermNumbers
  <2>2. (sgn = "-") = (c < 0)
    BY <1>3
  <2> QED
    BY <1>5, <1>6, <2>1, <2>2
<1>16. ExpOf(t) = e - 1
  <2>1. ExpOf(t) = IF ~v THEN 0 ELSE IF x = None THEN 1 ELSE x
    BY <1>13 DEF ExpOf
  <2>2. CASE e > 1
    <3>1. ExpOf(t) = IF x = None THEN 1 ELSE x
      BY <1>10, <2>1, <2>2
    <3> QED
      BY <1>5, <1>7, <2>2, <3>1
  <2>3. CASE ~(e > 1)
    <3>1. ExpOf(t) = 0 /\ e = 1
      BY <1>5, <1>10, <2>1, <2>3
    <3> QED
      BY <3>1
  <2> QED
    BY <2>2, <2>3
<1> QED
  BY <1>1, <1>8, <1>12, <1>13, <1>14, <1>15, <1>16

(* An exponent and a coefficient that are not 0.                            *)
LEMMA ProductIs ==
  ASSUME NEW e \in Int, e > 0, NEW x \in Int, x # 0
  PROVE  /\ e * x \in Int /\ e * x # 0
         /\ e > 1 => e * x \notin {1, -1}
<1>1. CASE x > 0
  <2>1. PICK k \in Nat : x = k + 1
    BY <1>1
  <2>2. e * x = e * k + e
    BY <2>1
  <2>3. e * k \in Nat
    OBVIOUS
  <2> QED
    BY <2>2, <2>3
<1>2. CASE x < 0
  <2>1. PICK k \in Nat : x = -(k + 1)
    BY <1>2
  <2>2. e * x = -(e * k + e)
    BY <2>1
  <2>3. e * k \in Nat
    OBVIOUS
  <2> QED
    BY <2>2, <2>3
<1> QED
  BY <1>1, <1>2

(* bd_to_string writes that term: a coefficient of 1 or -1 can only come    *)
(* with the exponent 0, so it is always written.                            *)
LEMMA MonomialIs ==
  ASSUME NEW d, NEW e \in TheInts, e > 0, d[e] \in TheInts, d[e] # 0, e * d[e] \in TheInts,
         NEW first \in BOOLEAN
  PROVE  Monomial(d, e, first) = Spelling(OutTerm(e * d[e], e, first))
<1>1. PICK c \in TheInts : c = e * d[e]
  OBVIOUS
<1>2. e \in Int /\ d[e] \in Int
  BY IntsAre
<1>3. c \in Int /\ c # 0 /\ (e > 1 => c \notin {1, -1})
  BY <1>1, <1>2, ProductIs
<1>4. PICK x \in Int : x = e - 1
  BY <1>2
<1>5. Wrap(c) = c /\ Wrap(x) = x
  <2>1. x \in TheInts
    BY <1>2, <1>4, WidthIs DEF TheInts
  <2> QED
    BY <2>1, WrapInt
<1>6. PICK p1 : p1 = IF c >= 0 /\ ~first THEN <<"+">> ELSE <<>>
  OBVIOUS
<1>7. PICK p3, p4, p5 : /\ p3 = (IF e > 1 THEN <<"*">> ELSE <<>>)
                        /\ p4 = (IF e > 1 THEN <<"x">> ELSE <<>>)
                        /\ p5 = (IF e > 2 THEN <<"^">> \o Decimal(x) ELSE <<>>)
  OBVIOUS
<1>8. Monomial(d, e, first) = p1 \o Decimal(c) \o p3 \o p4 \o p5
  <2>1. Monomial(d, e, first)
          = If(c >= 0 /\ ~first, <<"+">>) \o If(c \notin {1, -1} \/ ~(x >= 1), Decimal(c))
              \o If(c \notin {1, -1} /\ x >= 1, <<"*">>) \o If(x >= 1, <<"x">>)
              \o If(x > 1, <<"^">> \o Decimal(x))
    BY <1>1, <1>4, <1>5 DEF Monomial
  <2>2. If(c >= 0 /\ ~first, <<"+">>) = p1
    BY <1>6 DEF If
  <2>3. c \notin {1, -1} \/ ~(x >= 1)
    BY <1>2, <1>3, <1>4
  <2>4. If(c \notin {1, -1} \/ ~(x >= 1), Decimal(c)) = Decimal(c)
    BY <2>3, Zenon DEF If
  <2>5. (x >= 1 <=> e > 1) /\ (x > 1 <=> e > 2) /\ (c \notin {1, -1} /\ x >= 1 <=> e > 1)
    BY <1>2, <1>3, <1>4
  <2>6. If(c \notin {1, -1} /\ x >= 1, <<"*">>) = p3
    BY <1>7, <2>5 DEF If
  <2>7. If(x >= 1, <<"x">>) = p4
    BY <1>7, <2>5 DEF If
  <2>8. If(x > 1, <<"^">> \o Decimal(x)) = p5
    BY <1>7, <2>5 DEF If
  <2> QED
    BY <2>1, <2>2, <2>4, <2>6, <2>7, <2>8
<1>9. PICK t \in Term : t = OutTerm(c, e, first)
  BY OutTermIs
<1>10. PICK k : k = IF c < 0 THEN -c ELSE c
  OBVIOUS
<1>11. /\ t.sign = OutSign(c, first) /\ t.koef = k /\ t.gap = FALSE /\ t.koef # None
       /\ t.var = (e > 1) /\ t.exp = IF e > 2 THEN x ELSE None
  <2>1. t.koef # None
    BY <1>9, OutTermIs
  <2> QED
    BY <1>4, <1>9, <1>10, <2>1 DEF OutTerm
<1>12. Gap1(t) = <<>>
  BY <1>11, Zenon DEF Gap1, If
<1>13. /\ SignPart(t) \in Seq(Char) /\ KoefPart(t) \in Seq(Char) /\ StarPart(t) \in Seq(Char)
       /\ VarPart(t) \in Seq(Char) /\ ExpPart(t) \in Seq(Char)
  BY SpellingTyped
<1>14. \A v \in Seq(Char) : v \o <<>> = v /\ <<>> \o v = v
  BY ConcatEmptySeq
<1>15. /\ <<"*">> \in Seq(Char) /\ <<"x">> \in Seq(Char) /\ <<"^">> \in Seq(Char)
       /\ <<"+">> \in Seq(Char) /\ <<"-">> \in Seq(Char)
  BY Characters, OneCharacter
<1>16. StarPart(t) = p3
  <2>1. StarPart(t) = IF t.var THEN <<"*">> \o <<>> ELSE <<>>
    BY <1>11, <1>12, Zenon DEF StarPart, If
  <2>2. <<"*">> \o <<>> = <<"*">>
    BY <1>14, <1>15
  <2> QED
    BY <1>7, <1>11, <2>1, <2>2
<1>17. VarPart(t) = p4
  <2>1. VarPart(t) = IF t.var THEN <<"x">> \o <<>> ELSE <<>>
    BY <1>12, Zenon DEF VarPart, If
  <2>2. <<"x">> \o <<>> = <<"x">>
    BY <1>14, <1>15
  <2> QED
    BY <1>7, <1>11, <2>1, <2>2
<1>18. ExpPart(t) = p5
  <2>1. CASE e > 2
    <3>1. e > 1 /\ t.var = TRUE /\ t.exp = x /\ t.exp # None
      <4>1. e > 1 /\ (e > 1) = TRUE /\ x \in Int /\ x # None
        BY <1>2, <1>4, <2>1 DEF None
      <4>2. t.var = TRUE
        BY <1>11, <4>1, Zenon
      <4>3. t.exp = x
        BY <1>11, <2>1
      <4> QED
        BY <4>1, <4>2, <4>3
    <3>2. ExpPart(t) = <<"^">> \o <<>> \o Decimal(x) \o <<>>
      BY <1>12, <3>1, Zenon DEF ExpPart, If
    <3>3. Decimal(x) \in Seq(Char)
      <4>1. t.exp \in Numbers
        BY DEF Term
      <4> QED
        BY <3>1, <4>1, NumberWritten
    <3>4. <<"^">> \o <<>> = <<"^">> /\ <<"^">> \o Decimal(x) \in Seq(Char)
      BY <1>14, <1>15, <3>3, ConcatProperties
    <3>5. (<<"^">> \o Decimal(x)) \o <<>> = <<"^">> \o Decimal(x)
      BY <1>14, <3>4
    <3> QED
      BY <1>7, <2>1, <3>2, <3>4, <3>5
  <2>2. CASE ~(e > 2)
    <3>1. t.exp = None
      BY <1>11, <2>2
    <3>2. ExpPart(t) = <<>>
      BY <3>1, Zenon DEF ExpPart, If
    <3> QED
      BY <1>7, <2>2, <3>2
  <2> QED
    BY <2>1, <2>2
<1>19. SignPart(t) \o KoefPart(t) = p1 \o Decimal(c)
  <2>1. /\ k \in Nat /\ c >= -(IntMax + 1) /\ c <= IntMax + 1 /\ k \in Numbers /\ k # None
        /\ (c >= 0 <=> ~(c < 0)) /\ (~(c < 0) => k = c) /\ (c < 0 => k = -c)
    <3>1. k \in Numbers
      BY <1>11 DEF Term
    <3> QED
      BY <1>3, <1>10, <1>11, <3>1, WidthIs DEF TheInts
  <2>2. Decimal(k) = Plain[k] /\ Decimal(k) \in Seq(Char)
    BY <2>1, NumberWritten
  <2>3. KoefPart(t) = Decimal(k)
    <3>1. KoefPart(t) = Decimal(k) \o <<>>
      BY <1>11, <1>12, Zenon DEF KoefPart, If
    <3> QED
      BY <1>14, <2>2, <3>1
  <2>4. Decimal(c) = IF c < 0 THEN <<"-">> \o Plain[-c] ELSE Plain[c]
    BY <1>3, <2>1, DecimalIs
  <2>5. HasSign(t) => SignPart(t) = <<t.sign>>
    <3> SUFFICES ASSUME HasSign(t) PROVE SignPart(t) = <<t.sign>>
      OBVIOUS
    <3>1. SignPart(t) = <<t.sign>> \o <<>>
      BY <1>12, Zenon DEF SignPart, If, HasSign
    <3>2. <<t.sign>> \o <<>> = <<t.sign>>
      <4>1. PICK u : u = <<t.sign>>
        OBVIOUS
      <4>2. t.sign \in Sign
        BY Zenon DEF Term, HasSign
      <4>3. u \in Seq(Char)
        BY <4>1, <4>2, Characters, OneCharacter
      <4> QED
        BY <1>14, <4>1, <4>3
    <3> QED
      BY <3>1, <3>2
  <2>6. ~HasSign(t) => SignPart(t) = <<>>
    BY Zenon DEF SignPart, If, HasSign
  <2>7. PICK signs, no : signs = Sign \cup {""} /\ no = ""
    OBVIOUS
  <2>8. /\ (c < 0 => t.sign = "-") /\ (~(c < 0) /\ ~first => t.sign = "+")
        /\ (~(c < 0) /\ first => t.sign = no) /\ no # "-" /\ no # "+"
    BY <1>11, <2>7, OutSignIs
  <2>9. HasSign(t) <=> t.sign # no
    BY <2>7, Zenon DEF HasSign
  <2>10. CASE c < 0
    <3>1. SignPart(t) = <<"-">> /\ Decimal(c) = <<"-">> \o Decimal(k) /\ p1 = <<>>
      BY <1>6, <2>1, <2>2, <2>4, <2>5, <2>8, <2>9, <2>10
    <3>2. <<"-">> \o Decimal(k) \in Seq(Char)
      BY <1>15, <2>2, ConcatProperties
    <3> QED
      BY <1>14, <2>3, <3>1, <3>2
  <2>11. CASE ~(c < 0) /\ ~first
    <3>1. SignPart(t) = <<"+">> /\ Decimal(c) = Decimal(k) /\ p1 = <<"+">>
      BY <1>6, <2>1, <2>2, <2>4, <2>5, <2>8, <2>9, <2>11
    <3> QED
      BY <2>3, <3>1
  <2>12. CASE ~(c < 0) /\ first
    <3>1. SignPart(t) = <<>> /\ Decimal(c) = Decimal(k) /\ p1 = <<>>
      BY <1>6, <2>1, <2>2, <2>4, <2>6, <2>8, <2>9, <2>12
    <3> QED
      BY <2>3, <3>1
  <2> QED
    BY <2>10, <2>11, <2>12
<1> QED
  BY <1>1, <1>8, <1>9, <1>16, <1>17, <1>18, <1>19, SpellingParts

-----------------------------------------------------------------------------
(* The terms of the derivative of a map, from the largest exponent on.      *)
Kept(d) == {e \in DOMAIN d : e # 0 /\ d[e] # 0}

(* Maps whose derivative can be computed with ints.                         *)
Derivable(d) == IntMap(d) /\ \A e \in Kept(d) : e > 0 /\ e * d[e] \in TheInts

(* q names the exponents of the terms kept, the largest first.              *)
Orders(q, n, d) ==
  /\ n \in Nat /\ q \in [1 .. n -> Kept(d)]
  /\ \A j, k \in 1 .. n : j < k => q[j] > q[k]
  /\ Kept(d) = {q[k] : k \in 1 .. n}

(* The terms that have to be written.                                       *)
Derived(terms, q, n, d) ==
  /\ Proper(terms) /\ Len(terms) = n
  /\ \A k \in 1 .. n : KoefOf(terms[k]) = q[k] * d[q[k]] /\ ExpOf(terms[k]) = q[k] - 1

(* What is known of a term that has a derivative.                           *)
LEMMA KeptIs ==
  ASSUME NEW d, Derivable(d), NEW e \in Kept(d)
  PROVE  /\ e \in TheInts /\ e \in Int /\ e > 0 /\ d[e] \in TheInts /\ d[e] # 0
         /\ e * d[e] \in TheInts /\ e - 1 \in TheInts
<1>1. e \in TheInts /\ e > 0 /\ d[e] \in TheInts /\ d[e] # 0 /\ e * d[e] \in TheInts
  BY DEF Derivable, IntMap, Kept
<1>2. e \in Int /\ e - 1 \in TheInts
  BY <1>1, WidthIs DEF TheInts
<1> QED
  BY <1>1, <1>2

(* The output is the spelling of a list of terms.                           *)
LEMMA OutputTerms ==
  ASSUME NEW d, Derivable(d)
  PROVE  \E terms, q, n : Orders(q, n, d) /\ Derived(terms, q, n, d) /\ bd_to_string(d) = Spell(terms)
<1>1. PICK E : E = Kept(d)
  OBVIOUS
<1>2. E \in SUBSET TheInts
  BY <1>1 DEF Kept, Derivable, IntMap
<1>3. PICK q : q = Descending(E)
  OBVIOUS
<1>4. PICK n \in Nat : n = Cardinality(E)
  BY <1>2, DescendingIs
<1>5. /\ q \in [1 .. n -> E] /\ \A j, k \in 1 .. n : j < k => q[j] > q[k]
      /\ \A e \in E : \E k \in 1 .. n : q[k] = e
  BY <1>2, <1>3, <1>4, DescendingIs DEF Falls
<1>6. Orders(q, n, d)
  BY <1>1, <1>5 DEF Orders
<1>7. q \in Seq(E) /\ Len(q) = n
  BY <1>4, <1>5
<1> DEFINE term(k) == OutTerm(q[k] * d[q[k]], q[k], k = 1)
<1>8. ASSUME NEW k \in 1 .. n
      PROVE  /\ term(k) \in Term /\ term(k).koef # None /\ (k > 1 => HasSign(term(k)))
             /\ KoefOf(term(k)) = q[k] * d[q[k]] /\ ExpOf(term(k)) = q[k] - 1
             /\ Monomial(d, q[k], k = 1) = Spelling(term(k))
  <2>1. PICK e \in E : e = q[k]
    BY <1>5
  <2>2. /\ e \in TheInts /\ e > 0 /\ d[e] \in TheInts /\ d[e] # 0 /\ e * d[e] \in TheInts
    BY <1>1, <2>1, KeptIs
  <2>3. PICK first \in BOOLEAN : first = (k = 1)
    BY Zenon
  <2>4. k > 1 => ~first
    <3>1. k > 1 => k # 1
      OBVIOUS
    <3> QED
      BY <2>3, <3>1, Zenon
  <2>5. PICK c \in TheInts : c = e * d[e]
    BY <2>2
  <2>6. /\ OutTerm(c, e, first) \in Term /\ OutTerm(c, e, first).koef # None
        /\ (~first => HasSign(OutTerm(c, e, first)))
        /\ KoefOf(OutTerm(c, e, first)) = c /\ ExpOf(OutTerm(c, e, first)) = e - 1
    BY <2>2, OutTermIs
  <2>7. Monomial(d, e, first) = Spelling(OutTerm(e * d[e], e, first))
    BY <2>2, MonomialIs
  <2>8. term(k) = OutTerm(c, e, first)
    BY <2>1, <2>3, <2>5, Zenon
  <2>9. Monomial(d, q[k], k = 1) = Spelling(term(k))
    BY <2>1, <2>3, <2>5, <2>7, <2>8, Zenon
  <2> HIDE DEF term
  <2> QED
    BY <2>1, <2>4, <2>5, <2>6, <2>8, <2>9
<1> DEFINE terms == [k \in 1 .. n |-> term(k)]
<1> HIDE DEF term
<1>9. terms \in [1 .. n -> Term] /\ \A k \in 1 .. n : terms[k] = term(k)
  BY <1>8
<1> HIDE DEF terms
<1>10. terms \in Seq(Term) /\ Len(terms) = n
  BY <1>4, <1>9
<1>11. Proper(terms)
  BY <1>8, <1>9, <1>10 DEF Proper
<1>12. Derived(terms, q, n, d)
  BY <1>8, <1>9, <1>10, <1>11 DEF Derived
<1>13. bd_to_string(d) = Spell(terms)
  <2>1. bd_to_string(d) = FlattenSeq([k \in 1 .. Len(q) |-> Monomial(d, q[k], k = 1)])
    BY <1>1, <1>3, Zenon DEF bd_to_string, Kept
  <2>2. \A k \in 1 .. n : Monomial(d, q[k], k = 1) = Spelling(terms[k])
    <3> SUFFICES ASSUME NEW k \in 1 .. n PROVE Monomial(d, q[k], k = 1) = Spelling(terms[k])
      OBVIOUS
    <3>1. Monomial(d, q[k], k = 1) = Spelling(term(k))
      BY <1>8, Zenon
    <3> QED
      BY <1>9, <3>1, Zenon
  <2>3. [k \in 1 .. n |-> Monomial(d, q[k], k = 1)] = [k \in 1 .. n |-> Spelling(terms[k])]
    BY <2>2, Zenon
  <2> QED
    BY <1>7, <1>10, <2>1, <2>3, Zenon DEF Spell
<1> QED
  BY <1>6, <1>12, <1>13

-----------------------------------------------------------------------------
(* One piece of what is read back.                                          *)
ReadStep(s, r) ==
  LET cut  == Find(s, r.istart + 1, Sign)
      term == get(SubSeq(s, r.istart, cut - 1))
  IN IF r.istart > Len(s) THEN r
     ELSE [istart |-> cut, ok |-> r.ok /\ term.ok, db |-> put(r.db, term)]

(* Where ReadBack begins, and how it goes on.                               *)
ReadStart == [istart |-> 1, ok |-> TRUE, db |-> NoKoefs]

ReadsOf(f, s, pieces) ==
  f = [n \in 0 .. pieces |-> IF n = 0 THEN ReadStart ELSE ReadStep(s, f[n - 1])]

Reads(F, s, N) ==
  /\ F = [k \in 0 .. N |-> F[k]]
  /\ F[0] = ReadStart /\ \A k \in 1 .. N : F[k] = ReadStep(s, F[k - 1])

(* ReadBack is the last of the states that follow one another so.           *)
LEMMA ReadBackIs ==
  ASSUME NEW s, NEW N \in Nat, NEW F, Reads(F, s, N)
  PROVE  ReadBack(s, N) = F[N]
<1>0. /\ F = [k \in 0 .. N |-> F[k]]
      /\ F[0] = ReadStart /\ \A k \in 1 .. N : F[k] = ReadStep(s, F[k - 1])
  BY DEF Reads
<1>1. ReadsOf(F, s, N)
  <2>1. \A k \in 0 .. N : F[k] = IF k = 0 THEN ReadStart ELSE ReadStep(s, F[k - 1])
    <3> SUFFICES ASSUME NEW k \in 0 .. N
                 PROVE  F[k] = IF k = 0 THEN ReadStart ELSE ReadStep(s, F[k - 1])
      OBVIOUS
    <3>1. k # 0 => k \in 1 .. N
      OBVIOUS
    <3> QED
      BY <1>0, <3>1
  <2>2. F = [k \in 0 .. N |-> IF k = 0 THEN ReadStart ELSE ReadStep(s, F[k - 1])]
    BY <1>0, <2>1, Zenon
  <2> QED
    BY <2>2 DEF ReadsOf
<1>2. PICK f : f = CHOOSE g : ReadsOf(g, s, N)
  OBVIOUS
<1>3. ReadsOf(f, s, N)
  BY <1>1, <1>2, Zenon
<1>4. ReadBack(s, N) = f[N]
  BY <1>2, Zenon DEF ReadBack, ReadsOf, ReadStep, ReadStart
<1>5. \A k \in 0 .. N : f[k] = IF k = 0 THEN ReadStart ELSE ReadStep(s, f[k - 1])
  BY <1>3 DEF ReadsOf
<1> DEFINE T == {k \in 0 .. N : f[k] = F[k]}
<1>6. 0 \in T
  <2>1. 0 \in 0 .. N
    OBVIOUS
  <2> QED
    BY <1>0, <1>5, <2>1
<1>7. \A k \in 0 .. N - 1 : k \in T => k + 1 \in T
  <2> SUFFICES ASSUME NEW k \in 0 .. N - 1, k \in T PROVE k + 1 \in T
    OBVIOUS
  <2>1. PICK l \in 1 .. N : l = k + 1 /\ l - 1 = k /\ l # 0 /\ l \in 0 .. N
    OBVIOUS
  <2>2. f[l] = ReadStep(s, f[k]) /\ F[l] = ReadStep(s, F[k])
    BY <1>0, <1>5, <2>1
  <2>3. f[l] = F[l]
    BY <2>2
  <2> QED
    BY <2>1, <2>3
<1>8. N \in T
  <2>1. \A k \in 0 .. N : k \in T
    <3> HIDE DEF T
    <3> QED
      BY <1>6, <1>7, UpTo
  <2> HIDE DEF T
  <2> QED
    BY <2>1
<1> QED
  BY <1>4, <1>8

-----------------------------------------------------------------------------
(* What has been read back after k terms.                                   *)
DerivedUpTo(d, q, k) == [e \in {q[j] - 1 : j \in 1 .. k} |-> (e + 1) * d[e + 1]]

ReadState(d, q, o, k) == [istart |-> o[k + 1], ok |-> TRUE, db |-> DerivedUpTo(d, q, k)]

(* No two exponents are the same, so put finds no coefficient to add to.    *)
LEMMA PutDerived ==
  ASSUME NEW d, Derivable(d), NEW q, NEW n, Orders(q, n, d), NEW k \in 1 .. n,
         NEW term, term.koef = q[k] * d[q[k]], term.exp = q[k] - 1,
         NEW D, D = DerivedUpTo(d, q, k - 1)
  PROVE  put(D, term) = DerivedUpTo(d, q, k)
<1>1. n \in Nat /\ q \in [1 .. n -> Kept(d)] /\ \A j, l \in 1 .. n : j < l => q[j] > q[l]
  BY DEF Orders
<1>2. \A j \in 1 .. n : q[j] \in Int
  <2>1. \A j \in 1 .. n : q[j] \in Kept(d)
    BY <1>1
  <2> QED
    BY <2>1, KeptIs
<1>3. PICK x \in Int : x = q[k] - 1 /\ x + 1 = q[k]
  BY <1>2
<1>4. PICK A, B : A = {q[j] - 1 : j \in 1 .. k - 1} /\ B = {q[j] - 1 : j \in 1 .. k}
  OBVIOUS
<1>5. x \notin A
  <2> SUFFICES ASSUME NEW j \in 1 .. k - 1, q[j] - 1 = x PROVE FALSE
    BY <1>4
  <2>1. j \in 1 .. n /\ j < k
    BY <1>1
  <2>2. q[j] > q[k] /\ q[j] \in Int /\ q[k] \in Int
    BY <1>1, <1>2, <2>1
  <2> QED
    BY <1>3, <2>2
<1>6. A \cup {x} = B
  <2>1. \A j \in 1 .. k : j \in 1 .. k - 1 \/ j = k
    BY <1>1
  <2>2. k \in 1 .. k /\ \A j \in 1 .. k - 1 : j \in 1 .. k
    BY <1>1
  <2> QED
    BY <1>3, <1>4, <2>1, <2>2
<1>7. D = [e \in A |-> (e + 1) * d[e + 1]] /\ DOMAIN D = A
  BY <1>4 DEF DerivedUpTo
<1>8. put(D, term) = [e \in B |-> IF e # x THEN D[e]
                                  ELSE IF e \in A THEN Wrap(D[e] + term.koef) ELSE term.koef]
  BY <1>3, <1>6, <1>7 DEF put
<1>9. ASSUME NEW e \in B
      PROVE  (IF e # x THEN D[e] ELSE IF e \in A THEN Wrap(D[e] + term.koef) ELSE term.koef)
               = (e + 1) * d[e + 1]
  <2>1. CASE e # x
    <3>1. e \in A
      BY <1>6, <2>1
    <3>2. D[e] = (e + 1) * d[e + 1]
      BY <1>7, <3>1
    <3> QED
      BY <2>1, <3>2
  <2>2. CASE e = x
    BY <1>3, <1>5, <2>2
  <2> QED
    BY <2>1, <2>2
<1>10. put(D, term) = [e \in B |-> (e + 1) * d[e + 1]]
  BY <1>8, <1>9
<1> QED
  BY <1>4, <1>10 DEF DerivedUpTo

(* A piece that is read back is a term that was written.                    *)
LEMMA ReadTermBack ==
  ASSUME NEW d, Derivable(d), NEW terms, NEW q, NEW n, Orders(q, n, d), Derived(terms, q, n, d),
         NEW s, s = Spell(terms), NEW o, Starts(o, s, SpelledParts(terms)), NEW k \in 1 .. n
  PROVE  ReadStep(s, ReadState(d, q, o, k - 1)) = ReadState(d, q, o, k)
<1>1. n \in Nat /\ Proper(terms) /\ Len(terms) = n /\ s \in Seq(Char) /\ Len(s) \in Nat
  <2>1. n \in Nat /\ Proper(terms) /\ Len(terms) = n
    BY DEF Orders, Derived
  <2>2. s \in Seq(Char)
    BY <2>1, SpellStarts
  <2> QED
    BY <2>1, <2>2
<1>2. PICK p, c : p = o[k] /\ c = o[k + 1]
  OBVIOUS
<1>3. /\ p \in 1 .. Len(s) /\ c \in p + 1 .. Len(s) + 1
      /\ SubSeq(s, p, c - 1) = Spelling(terms[k])
      /\ \A j \in p + 1 .. c - 1 : s[j] \notin Sign
  BY <1>1, <1>2, TermAt
<1>4. c <= Len(s) => s[c] \in Sign
  <2>1. CASE k = n
    <3>1. c = Len(s) + 1
      BY <1>1, <1>2, <2>1, SpellStarts DEF Starts
    <3> QED
      BY <1>1, <3>1
  <2>2. CASE k # n
    <3>1. PICK j \in 1 .. n : j = k + 1 /\ j > 1
      BY <1>1, <2>2
    <3>2. s[o[j]] \in Sign <=> HasSign(terms[j])
      BY <1>1, TermAt
    <3>3. HasSign(terms[j])
      BY <1>1, <3>1 DEF Proper
    <3> QED
      BY <1>2, <3>1, <3>2, <3>3
  <2> QED
    BY <2>1, <2>2
<1>5. Find(s, p + 1, Sign) = c
  <2>1. PICK b \in 1 .. Len(s) + 1 : b = p + 1
    BY <1>1, <1>3
  <2>2. Gap(s, b, Sign, c)
    BY <1>3, <1>4, <2>1 DEF Gap
  <2>3. Find(s, b, Sign) = c
    BY <1>1, <2>2, GapIs
  <2> QED
    BY <2>1, <2>3
<1>6. PICK e \in Kept(d) : e = q[k]
  BY DEF Orders
<1>7. /\ e \in Int /\ e * d[e] \in TheInts /\ e - 1 \in TheInts
  BY <1>6, KeptIs
<1>8. PICK term : term = get(SubSeq(s, p, c - 1))
  OBVIOUS
<1>9. term.ok = TRUE /\ term.koef = q[k] * d[q[k]] /\ term.exp = q[k] - 1
  <2>1. terms[k] \in Term /\ (terms[k].var \/ terms[k].koef # None)
    BY <1>1 DEF Proper
  <2>2. term = [ok |-> TRUE, koef |-> Wrap(KoefOf(terms[k])), exp |-> Wrap(ExpOf(terms[k]))]
    BY <1>3, <1>8, <2>1, SpellingRead
  <2>3. KoefOf(terms[k]) = e * d[e] /\ ExpOf(terms[k]) = e - 1
    BY <1>6 DEF Derived
  <2>4. Wrap(e * d[e]) = e * d[e] /\ Wrap(e - 1) = e - 1
    BY <1>7, WrapInt
  <2> QED
    BY <1>6, <2>2, <2>3, <2>4
<1>10. PICK D : D = DerivedUpTo(d, q, k - 1)
  OBVIOUS
<1>11. PICK D2 : D2 = DerivedUpTo(d, q, k)
  OBVIOUS
<1>12. put(D, term) = D2
  BY <1>9, <1>10, <1>11, PutDerived
<1>13. PICK r : r = ReadState(d, q, o, k - 1)
  OBVIOUS
<1>14. r.istart = p /\ r.ok = TRUE /\ r.db = D
  <2>1. k - 1 + 1 = k
    BY <1>1
  <2>2. r = [istart |-> o[k - 1 + 1], ok |-> TRUE, db |-> D]
    BY <1>10, <1>13, Zenon DEF ReadState
  <2>3. r = [istart |-> o[k], ok |-> TRUE, db |-> D]
    BY <2>1, <2>2
  <2> QED
    BY <1>2, <2>3
<1>15. ReadState(d, q, o, k) = [istart |-> c, ok |-> TRUE, db |-> D2]
  BY <1>2, <1>11, Zenon DEF ReadState
<1>16. ReadStep(s, r) = [istart |-> c, ok |-> r.ok /\ term.ok, db |-> put(D, term)]
  <2>1. ~(p > Len(s))
    BY <1>1, <1>3
  <2> QED
    BY <1>5, <1>8, <1>14, <2>1, Zenon DEF ReadStep
<1>17. (r.ok /\ term.ok) = TRUE
  BY <1>9, <1>14, Zenon
<1> QED
  BY <1>12, <1>13, <1>15, <1>16, <1>17, Zenon

(* At the end of the string nothing is read any more.                       *)
LEMMA NoMorePieces ==
  ASSUME NEW s, NEW r, r.istart > Len(s)
  PROVE  ReadStep(s, r) = r
BY Zenon DEF ReadStep

(* Each term has a character at least.                                      *)
LEMMA FewTerms ==
  ASSUME NEW terms, Proper(terms), NEW s, s = Spell(terms), NEW o, Starts(o, s, SpelledParts(terms))
  PROVE  Len(terms) <= Len(s) /\ Len(s) \in Nat /\ o[Len(terms) + 1] = Len(s) + 1 /\ o[1] = 1
<1>1. PICK n \in Nat : n = Len(terms)
  BY SpellStarts
<1>2. s \in Seq(Char) /\ Len(s) \in Nat
  BY SpellStarts
<1>3. o[n + 1] = Len(s) + 1 /\ o[1] = 1
  BY <1>1, SpellStarts DEF Starts
<1>4. \A k \in 1 .. n : o[k] \in 1 .. Len(s) /\ o[k + 1] \in o[k] + 1 .. Len(s) + 1
  BY <1>1, TermAt
<1> DEFINE T == {k \in 0 .. n : o[k + 1] \in Int /\ o[k + 1] >= k + 1}
<1>5. 0 \in T
  <2>1. o[0 + 1] = 1 /\ 0 \in 0 .. n
    BY <1>3
  <2> QED
    BY <2>1
<1>6. \A k \in 0 .. n - 1 : k \in T => k + 1 \in T
  <2> SUFFICES ASSUME NEW k \in 0 .. n - 1, k \in T PROVE k + 1 \in T
    OBVIOUS
  <2>1. PICK l \in 1 .. n : l = k + 1 /\ l \in 0 .. n
    OBVIOUS
  <2>2. o[l] \in Int /\ o[l] >= l
    BY <2>1
  <2>3. o[l + 1] \in o[l] + 1 .. Len(s) + 1
    BY <1>4
  <2>4. o[l + 1] \in Int /\ o[l + 1] >= l + 1
    BY <1>2, <2>2, <2>3
  <2> QED
    BY <2>1, <2>4
<1>7. n \in T
  <2>1. \A k \in 0 .. n : k \in T
    <3> HIDE DEF T
    <3> QED
      BY <1>5, <1>6, UpTo
  <2> HIDE DEF T
  <2> QED
    BY <2>1
<1>8. Len(s) + 1 >= n + 1
  BY <1>3, <1>7
<1> QED
  BY <1>1, <1>2, <1>3, <1>8

(* All that bd_to_string has written is read back, term by term.            *)
LEMMA ReadsItBack ==
  ASSUME NEW d, Derivable(d), NEW s, s = bd_to_string(d)
  PROVE  ReadBack(s, Len(s))
           = [istart |-> Len(s) + 1, ok |-> TRUE,
              db |-> [e \in {x - 1 : x \in Kept(d)} |-> (e + 1) * d[e + 1]]]
<1>1. PICK terms, q, n : Orders(q, n, d) /\ Derived(terms, q, n, d) /\ s = Spell(terms)
  BY OutputTerms
<1>2. n \in Nat /\ Len(terms) = n /\ Proper(terms)
  BY <1>1 DEF Orders, Derived
<1>3. PICK o : Starts(o, s, SpelledParts(terms))
  BY <1>1, <1>2, SpellStarts
<1>4. PICK N \in Nat : N = Len(s) /\ n <= N
  BY <1>1, <1>2, <1>3, FewTerms
<1>5. o[n + 1] = N + 1 /\ o[1] = 1
  BY <1>1, <1>2, <1>3, <1>4, FewTerms
<1> DEFINE F == [k \in 0 .. N |-> ReadState(d, q, o, IF k <= n THEN k ELSE n)]
<1>6. /\ \A k \in 0 .. N : k <= n => F[k] = ReadState(d, q, o, k)
      /\ \A k \in 0 .. N : ~(k <= n) => F[k] = ReadState(d, q, o, n)
      /\ F = [k \in 0 .. N |-> F[k]]
  OBVIOUS
<1> HIDE DEF F
<1>7. F[0] = ReadStart
  <2>1. 0 \in 0 .. N /\ 0 <= n
    BY <1>2, <1>4
  <2>2. F[0] = ReadState(d, q, o, 0)
    BY <1>6, <2>1
  <2>3. o[0 + 1] = 1
    BY <1>5
  <2>4. DerivedUpTo(d, q, 0) = NoKoefs
    <3>1. {q[j] - 1 : j \in 1 .. 0} = {}
      OBVIOUS
    <3> QED
      BY <3>1 DEF DerivedUpTo, NoKoefs
  <2> QED
    BY <2>2, <2>3, <2>4, Zenon DEF ReadState, ReadStart
<1>8. ASSUME NEW k \in 1 .. N PROVE F[k] = ReadStep(s, F[k - 1])
  <2>1. PICK l \in 0 .. N : l = k - 1 /\ k \in 0 .. N
    BY <1>4
  <2>2. CASE k <= n
    <3>1. k \in 1 .. n /\ l <= n
      BY <1>2, <2>1, <2>2
    <3>2. F[k] = ReadState(d, q, o, k) /\ F[l] = ReadState(d, q, o, k - 1)
      BY <1>6, <2>1, <2>2, <3>1
    <3>3. ReadStep(s, ReadState(d, q, o, k - 1)) = ReadState(d, q, o, k)
      BY <1>1, <1>3, <3>1, ReadTermBack
    <3> QED
      BY <2>1, <3>2, <3>3
  <2>3. CASE ~(k <= n)
    <3>1. F[k] = ReadState(d, q, o, n) /\ F[l] = ReadState(d, q, o, n)
      <4>1. F[k] = ReadState(d, q, o, n)
        BY <1>6, <2>1, <2>3
      <4>2. l = n \/ ~(l <= n)
        BY <1>2, <1>4, <2>1, <2>3
      <4>3. l = n => l <= n
        BY <1>2
      <4>4. F[l] = ReadState(d, q, o, n)
        BY <1>6, <2>1, <4>2, <4>3
      <4> QED
        BY <4>1, <4>4
    <3>2. PICK r : r = ReadState(d, q, o, n)
      OBVIOUS
    <3>3. r.istart = N + 1
      BY <1>5, <3>2 DEF ReadState
    <3>4. r.istart > Len(s)
      BY <1>4, <3>3
    <3>5. ReadStep(s, r) = r
      BY <3>4, NoMorePieces
    <3> QED
      BY <2>1, <3>1, <3>2, <3>5
  <2> QED
    BY <2>2, <2>3
<1>9. ReadBack(s, N) = F[N]
  <2>1. PICK G : G = F
    OBVIOUS
  <2>2. \A k \in 1 .. N : G[k] = ReadStep(s, G[k - 1])
    BY <1>8, <2>1
  <2>3. G[0] = ReadStart
    BY <1>7, <2>1
  <2>4. G = [k \in 0 .. N |-> G[k]]
    BY <1>6, <2>1, Zenon
  <2>5. Reads(G, s, N)
    BY <2>2, <2>3, <2>4, Zenon DEF Reads
  <2>6. ReadBack(s, N) = G[N]
    BY <2>5, ReadBackIs
  <2> QED
    BY <2>1, <2>6
<1>10. F[N] = ReadState(d, q, o, n)
  <2>1. N \in 0 .. N /\ (N = n \/ ~(N <= n)) /\ (N = n => N <= n)
    BY <1>2, <1>4
  <2> QED
    BY <1>6, <2>1
<1>11. DerivedUpTo(d, q, n) = [e \in {x - 1 : x \in Kept(d)} |-> (e + 1) * d[e + 1]]
  <2>1. Kept(d) = {q[j] : j \in 1 .. n}
    BY <1>1 DEF Orders
  <2>2. {q[j] - 1 : j \in 1 .. n} = {x - 1 : x \in Kept(d)}
    BY <2>1
  <2> QED
    BY <2>2 DEF DerivedUpTo
<1> QED
  BY <1>4, <1>5, <1>9, <1>10, <1>11 DEF ReadState

(* Without a term of degree 1 at least, there is nothing to write.          *)
LEMMA WritesNothing ==
  ASSUME NEW d, Derivable(d), Kept(d) = {}
  PROVE  bd_to_string(d) = <<>>
<1>1. PICK terms, q, n : Orders(q, n, d) /\ Derived(terms, q, n, d) /\ bd_to_string(d) = Spell(terms)
  BY OutputTerms
<1>2. n \in Nat /\ {q[k] : k \in 1 .. n} = {} /\ Len(terms) = n /\ Proper(terms)
  BY <1>1 DEF Orders, Derived
<1>3. n = 0
  <2>1. ~(1 \in 1 .. n)
    BY <1>2
  <2> QED
    BY <1>2, <2>1
<1>4. PICK s \in Seq(Char) : s = Spell(terms)
  BY <1>2, SpellStarts
<1>5. PICK o : Starts(o, s, SpelledParts(terms))
  BY <1>2, <1>4, SpellStarts
<1>6. o[n + 1] = Len(s) + 1 /\ o[1] = 1
  BY <1>2, <1>4, <1>5, FewTerms
<1>7. Len(s) = 0
  BY <1>3, <1>6
<1> QED
  BY <1>1, <1>4, <1>7, EmptySeq

(* Whatever line has been accepted, what is read from the output is the     *)
(* derivative of what was read from the line, as long as the products of    *)
(* coefficients and exponents are ints.                                     *)
THEOREM IsDerivative == Spec => []WritesDerivative
<1>1. MapInv => WritesDerivative
  <2> SUFFICES ASSUME MapInv PROVE WritesDerivative
    OBVIOUS
  <2>1. PICK exps : exps = Kept(db)
    OBVIOUS
  <2>2. ASSUME pc = "done", \A e \in exps : e > 0 /\ e * db[e] \in TheInts
        PROVE  IF exps = {} THEN output = <<>>
               ELSE ReadBack(output, Len(output)) =
                      [istart |-> Len(output) + 1, ok |-> TRUE,
                       db |-> [e \in {d - 1 : d \in exps} |-> (e + 1) * db[e + 1]]]
    <3>1. Derivable(db) /\ output = bd_to_string(db)
      BY <2>1, <2>2 DEF Derivable, MapInv
    <3>2. exps = {} => output = <<>>
      BY <2>1, <3>1, WritesNothing
    <3>3. ReadBack(output, Len(output)) =
            [istart |-> Len(output) + 1, ok |-> TRUE,
             db |-> [e \in {d - 1 : d \in exps} |-> (e + 1) * db[e + 1]]]
      BY <2>1, <3>1, ReadsItBack
    <3> QED
      BY <3>2, <3>3
  <2> QED
    BY <2>1, <2>2, Zenon DEF WritesDerivative, Kept
<1> QED
  BY <1>1, MapInvHolds, PTL
=============================================================================
