---------------------------- MODULE MCDerivative ----------------------------
(* Derivative for TLC: every line of up to four characters, and lists of up *)
(* to three terms in all their spellings.                                   *)
EXTENDS Derivative

OtherCharacters == {"."}

SomeCharacters == {"x", "1", "5", "+", "-", "*", "^", Blank} \cup OtherCharacters

ShortLines == UNION {[1 .. n -> SomeCharacters] : n \in 0 .. 4}

(* Longer lines, with numbers, products and sums that are no ints.          *)
LongLines == {<<"5", "1", "x", "^", "5">>, <<"x", "^", "1", "5", "5">>,
              <<"1", "1", "5", "+", "1", "5">>}

SomeLines == ShortLines \cup LongLines

Term(signs, koefs, exps, gaps) ==
  {[sign |-> s, koef |-> k, var |-> v, exp |-> e, gap |-> g] :
     s \in signs, k \in koefs, v \in BOOLEAN, e \in exps, g \in gaps}
  \ [sign : signs, koef : {None}, var : {FALSE}, exp : exps, gap : gaps]

Ones == {<<t>> : t \in Term({"", "+", "-"}, {None, 0, 1, 12, 127}, {None, 0, 1, 2, 10}, BOOLEAN)}

Twos == {<<t, u>> : t \in Term({"", "-"}, {None, 0, 2}, {None, 0, 3}, BOOLEAN),
                    u \in Term({"+", "-"}, {None, 2}, {None, 3}, BOOLEAN)}

Threes == {<<t, u, v>> : t \in Term({""}, {None, 2}, {None, 2}, {FALSE}),
                         u, v \in Term({"+", "-"}, {None, 2}, {None, 2}, {FALSE})}

SomeTerms == Ones \cup Twos \cup Threes
=============================================================================
