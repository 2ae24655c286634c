------------------------------- MODULE Strtol -------------------------------
(***************************************************************************)
(* lib/strtol.c and lib/atoi.c: numbers read from a text.  A result has    *)
(* the value and, where the code reports it, the place the reading ended.  *)
(***************************************************************************)
EXTENDS Ctype

CONSTANT Kilo           \* 1024

ASSUME StrtolAssumption == Kilo \in Nat \ {0}

(* What a hexadecimal digit stands for. *)
digit_value ==
    [c \in isxdigit |->
        IF c \in isdigit THEN (CHOOSE i \in 1 .. 10 : DIGIT[i] = c) - 1
        ELSE (CHOOSE i \in 1 .. 6 : UPPER[i] = toupper(c)) + 9]

hex_prefix(s, i) ==
    At(s, i) = "0" /\ At(s, i + 1) = "x" /\ At(s, i + 2) \in isxdigit

(* A prefix decides the base, even when the caller has named another one.  *)
strtoul(s, i, base) ==
    LET zero  == At(s, i) = "0"
        b     == IF hex_prefix(s, i) THEN 16
                 ELSE IF base # 0 THEN base ELSE IF zero THEN 8 ELSE 10
        first == i + IF hex_prefix(s, i) THEN 2 ELSE IF zero THEN 1 ELSE 0
        end   == Skip(s, first, {c \in isxdigit : digit_value[c] < b})
    IN  [value |-> FoldLeft(LAMBDA v, c : Wrap(v * b + digit_value[c]), 0,
                            SubSeq(s, first, end - 1)),
         end |-> end]

strtol(s, i, base) ==
    LET r == IF At(s, i) = "-" THEN strtoul(s, i + 1, base) ELSE strtoul(s, i, base)
    IN  [r EXCEPT !.value = Signed(IF At(s, i) = "-" THEN Wrap(- @) ELSE @)]

(* The units fall through from G to K; without its "i" a unit is applied   *)
(* and left unread.                                                        *)
power(c) == CASE c = "G" -> 3 [] c = "M" -> 2 [] c \in {"K", "k"} -> 1 [] OTHER -> 0

(* mutated: the B of a unit is taken for granted *)
unit_end_fixed(s, i) == IF At(s, i + 1) = "i" THEN i + 3 ELSE i
unit_end(s, i) ==
    IF At(s, i + 1) # "i" THEN i ELSE IF At(s, i + 2) = "B" THEN i + 3 ELSE i + 2

ustrtoul(s, i, base) ==
    LET r == strtoul(s, i, base)
        c == At(s, r.end)
    IN  [value |-> Signed(FoldLeft(LAMBDA v, k : Wrap(v * k), r.value,
                                   [n \in 1 .. power(c) |-> Kilo])),
         end |-> IF power(c) = 0 THEN r.end ELSE unit_end(s, r.end)]

(* Blanks are a space and the control characters from tab to carriage      *)
(* return; the vertical tab has no name in TLA+.  The accumulator is a     *)
(* signed long that nothing keeps from overflowing: the texts given to     *)
(* atoi name a value that it holds.                                        *)
atoi(s) ==
    LET sign  == Skip(s, 1, {" ", "\t", "\n", "\f", "\r"})
        first == sign + IF At(s, sign) \in {"-", "+"} THEN 1 ELSE 0
        end   == Skip(s, first, isdigit)
        v     == FoldLeft(LAMBDA n, c : n * 10 + digit_value[c], 0, SubSeq(s, first, end - 1))
    IN  IF At(s, sign) = "-" THEN - v ELSE v
=============================================================================
