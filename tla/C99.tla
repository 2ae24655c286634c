-------------------------------- MODULE C99 --------------------------------
(***************************************************************************)
(* The directives a caller may mean, how a format spells them, and what    *)
(* C99 (7.19.6.1) says they print: "This function follows C99 vsprintf"    *)
(* (vsprintf.c:383).  A width or precision is a record: how it is given    *)
(* ("none", "digits", "star", a precision also as a bare ".") and n.       *)
(***************************************************************************)
EXTENDS Format

ASSUME C99Assumption == LongMod < 8 ^ 7     \* what Numeral's powers can reach

Integers99 == {"d", "i", "u", "o", "x", "X"}
Given(f) == f.how \in {"digits", "star"}

-----------------------------------------------------------------------------
(* The digits of n that count from the i-th power of the base down.        *)
Numeral(v, base, n, locase) ==
    [i \in 1 .. n |-> DIGITS(locase)[((v \div (base ^ Min({n - i, 7}))) % base) + 1]]
Length(v, base) == Min({n \in 0 .. 7 : base ^ n > v})

SpellField(f) ==
    CASE f.how = "digits" -> Numeral(f.n, 10, Max({1, Length(f.n, 10)}), TRUE)
      [] f.how = "star"   -> <<"*">>
      [] OTHER            -> <<>>

Spell(d) ==
    <<"%">> \o SetToSeq({c \in DOMAIN FlagOf : FlagOf[c] \in d.flags}) \o SpellField(d.width)
    \o (IF d.precision.how = "none" THEN <<>> ELSE <<".">> \o SpellField(d.precision))
    \o d.qualifier \o d.conversion

(* The words a caller passes; a long long takes two, the low one first.    *)
Words(d) ==
    (IF d.width.how = "star" THEN <<Wrap(d.width.n)>> ELSE <<>>)
    \o (IF d.precision.how = "star" THEN <<Wrap(d.precision.n)>> ELSE <<>>)
    \o (IF d.conversion = <<"%">> THEN <<>> ELSE <<d.argument>>)
    \o (IF d.qualifier # <<"l", "l">> THEN <<>>
        ELSE IF Signed(d.argument) < 0 THEN <<LongMod - 1>> ELSE <<0>>)

-----------------------------------------------------------------------------
(* The value an integer directive names. *)
Value(d) ==
    LET mod == IF d.qualifier = <<"h">> THEN ShortMod ELSE LongMod
        v == d.argument % mod
    IN  IF d.conversion[1] \in {"d", "i"} /\ v >= mod \div 2 THEN v - mod ELSE v

Left(d)  == "LEFT" \in d.flags \/ (d.width.how = "star" /\ d.width.n < 0)
Width(d) == IF ~ Given(d.width) THEN 0 ELSE IF d.width.n < 0 THEN - d.width.n ELSE d.width.n
(* A bare "." is 0; a negative precision counts as none.                   *)
Precision(d) ==
    IF d.precision.how = "none" \/ (Given(d.precision) /\ d.precision.n < 0) THEN -1
    ELSE IF d.precision.how = "bare" THEN 0 ELSE d.precision.n

Field(d, body) ==
    LET pad == Chars(Width(d) - Len(body), " ")
    IN  IF Left(d) THEN body \o pad ELSE pad \o body

IntegerText(d) ==
    LET conv  == d.conversion[1]
        v     == Value(d)
        abs   == IF v < 0 THEN -v ELSE v
        base  == Base(conv)
        least == Length(abs, base)
        n0    == Max({least, IF Precision(d) < 0 THEN 1 ELSE Precision(d)})
        n     == IF conv = "o" /\ "SPECIAL" \in d.flags /\ n0 = least THEN least + 1 ELSE n0
        sign  == IF conv \notin {"d", "i"} THEN <<>> ELSE IF v < 0 THEN <<"-">>
                 ELSE IF "PLUS" \in d.flags THEN <<"+">>
                 ELSE IF "SPACE" \in d.flags THEN <<" ">> ELSE <<>>
        prefix == IF base = 16 /\ "SPECIAL" \in d.flags /\ abs # 0 THEN <<"0", conv>> ELSE <<>>
        zeros == "ZEROPAD" \in d.flags /\ ~ Left(d) /\ Precision(d) < 0
        all   == IF zeros THEN Max({n, Width(d) - Len(sign) - Len(prefix)}) ELSE n
    IN  Field(d, sign \o prefix \o Numeral(abs, base, all, conv = "x"))

(* A pointer has all its digits unless a width says otherwise.             *)
Prescribed(d) ==
    LET conv == d.conversion[1]
        s == IF conv = "s" THEN Text[d.argument] ELSE <<>>
    IN  CASE conv \in Integers99 -> IntegerText(d)
          [] conv = "c" -> Field(d, <<Letter[d.argument % 256]>>)
          [] conv = "s" -> Field(d, IF Precision(d) < 0 THEN s
                                    ELSE SubSeq(s, 1, Min({Len(s), Precision(d)})))
          [] conv = "p" -> Field(d, Numeral(d.argument, 16, IF Given(d.width) THEN Length(d.argument, 16)
                                                            ELSE PointerDigits, TRUE))
          [] conv = "n" -> <<>>
          [] conv = "%" -> <<"%">>

(* The directives in which this vsprintf has rules of its own. *)
OwnRules(d) ==
    \/ Given(d.precision) /\ d.precision.n < 0          \* taken as 0
    \/ d.qualifier = <<"l", "l">>                       \* reads one word
    \/ d.conversion[1] \in {"s", "p"} /\ d.argument = NULL
    \/ Len(d.conversion) > 1    \* %pS should name a symbol (vsprintf.c:384)
    \/ /\ d.conversion[1] \in Integers99
       /\ \/ Precision(d) = 0 /\ Value(d) = 0
          \/ "ZEROPAD" \in d.flags /\ ~ Left(d) /\ Precision(d) >= 0
          \/ "SPECIAL" \in d.flags /\ Base(d.conversion[1]) # 10 /\ Value(d) = 0
          \/ "SPECIAL" \in d.flags /\ Base(d.conversion[1]) = 8 /\ Precision(d) > 1
=============================================================================
