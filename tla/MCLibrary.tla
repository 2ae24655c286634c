----------------------------- MODULE MCLibrary -----------------------------
(* Arguments on either side of what a digit, five digits, a short and a    *)
(* long can hold; widths and precisions on either side of what they take;  *)
(* addresses and counts on either side of whole words; seeds around the    *)
(* generator's constants and the sign bit.                                 *)
EXTENDS Library

None      == [how |-> "none", n |-> 0]
Bare      == [how |-> "bare", n |-> 0]
Digits(k) == [how |-> "digits", n |-> k]
Star(k)   == [how |-> "star", n |-> k]

Boundaries ==
    {0, 1, 7, 8, 9, 10, 255, 32768, 65535, 99999, 100000, 100001} \cup
    {LongMod \div 2 - 1, LongMod \div 2, LongMod - 8, LongMod - 1}

MCText == (64 :> <<>>) @@ (68 :> <<"z", "%", "d">>) @@ (72 :> [i \in 1 .. 14 |-> "s"])
MCLetter == (65 :> "A") @@ (37 :> "%")

IntegerDirectives ==
    [conversion : {<<"d">>, <<"u">>, <<"o">>, <<"x">>, <<"X">>},
     flags : SUBSET {"ZEROPAD", "PLUS", "SPACE", "LEFT", "SPECIAL"},
     width : {None, Digits(2), Digits(12), Star(3), Star(-9)},
     precision : {None, Bare, Digits(1), Star(3), Star(-2)},
     qualifier : {<<>>, <<"h">>}, argument : Boundaries]
QualifiedDirectives ==
    [conversion : {<<"i">>, <<"X">>}, flags : {{}, {"PLUS"}}, width : {None, Star(3)},
     precision : {None, Star(-2)},
     qualifier : {<<"l">>, <<"l", "l">>, <<"z">>, <<"Z">>, <<"t">>},
     argument : Boundaries]
TextDirectives ==
    [conversion : {<<"s">>}, flags : {{}, {"LEFT"}, {"ZEROPAD"}},
     width : {None, Digits(2), Digits(12), Star(-4)},
     precision : {None, Bare, Digits(2), Star(7), Star(-1)},
     qualifier : {<<>>}, argument : {0, 64, 68, 72}]
    \cup
    [conversion : {<<"c">>}, flags : {{}, {"LEFT"}}, width : {None, Digits(1), Digits(3), Star(-4)},
     precision : {None}, qualifier : {<<>>}, argument : {65, 37 + 256}]
    \cup
    [conversion : {<<"p">>, <<"p", "S">>}, flags : {{}}, width : {None, Digits(3), Digits(12)},
     precision : {None}, qualifier : {<<>>}, argument : Boundaries]
    \cup
    [conversion : {<<"n">>, <<"%">>}, flags : {{}}, width : {None}, precision : {None},
     qualifier : {<<>>}, argument : {64}]

MCDirectives == IntegerDirectives \cup QualifiedDirectives \cup TextDirectives
MCSizes ==
    [n : Boundaries, base : {8, 10, 16},
     unit : {<<>>, <<"K">>, <<"k", "i">>, <<"M", "i", "B">>, <<"G">>, <<"G", "i", "B">>,
             <<"m", "i">>, <<"k", "B">>}]
MCMemory == [a \in 32 .. 51 |-> CASE a \in {35, 40, 51} -> 0 [] a = 43 -> NEWLINE [] a % 3 = 0 -> 200 [] a % 3 = 1 -> 1 [] OTHER -> 65]
MCCounts == -1 .. 9
MCSeeds ==
    LET near(n) == {k \in n - 3 .. n + 3 : k >= 0 /\ k < LongMod}
    IN  UNION {near(n) : n \in {0, A, Q, R, M, M \div 2, A * Q, 2 * M, LongMod - A, LongMod - Q, LongMod - 1}}
MCAnswers == UNION {[1 .. n -> {-1, 1, 10}] : n \in 0 .. 4}
=============================================================================
