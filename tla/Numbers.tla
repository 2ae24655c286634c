------------------------------ MODULE Numbers ------------------------------
(***************************************************************************)
(* lib/vsprintf.c: what number makes of an unsigned long, and how an       *)
(* argument becomes one.                                                   *)
(***************************************************************************)
EXTENDS Decimal, Ctype

Base(conv) == CASE conv = "o" -> 8 [] conv \in {"x", "X"} -> 16 [] OTHER -> 10
Chars(n, c) == [i \in 1 .. n |-> c]        \* n characters c, none if n < 0
DIGITS(locase) == DIGIT \o IF locase THEN LOWER ELSE UPPER

-----------------------------------------------------------------------------
(* mutated: the argument keeps the bits that a short has not got *)
fetch_whole(qualifier, signed, arg) == arg
(* The argument as number gets it: an unsigned long. *)
fetch(qualifier, signed, arg) ==
    LET short == arg % ShortMod
    IN  IF qualifier # "h" THEN arg
        ELSE IF signed /\ short >= ShortMod \div 2 THEN short - ShortMod + LongMod
        ELSE short

(* Shifts and masks for 8 and 16: the digits, the least significant first. *)
put_pow2(num, base) ==
    LET digits[n \in Nat] == <<(n % 256) % base>> \o
                              IF n \div base = 0 THEN <<>> ELSE digits[n \div base]
    IN  digits[num]

digits_of(num, base) ==
    IF num = 0 THEN <<0>> ELSE IF base = 10 THEN put_dec[num] ELSE put_pow2(num, base)

(* mutated: the sign is not counted as a part of the field *)
room_without_sign(size, sign, prefix, digits) == size - Len(prefix) - digits
room_for_padding(size, sign, prefix, digits) == size - Len(sign) - Len(prefix) - digits

number(num, base, size, precision, type) ==
    LET negative == "SIGN" \in type /\ num >= LongMod \div 2
        sign == IF negative THEN <<"-">>
                ELSE IF {"SIGN", "PLUS"} \subseteq type THEN <<"+">>
                ELSE IF {"SIGN", "SPACE"} \subseteq type THEN <<" ">> ELSE <<>>
        tmp == digits_of(IF negative THEN LongMod - num ELSE num, base)
        prefix == IF "SPECIAL" \notin type \/ base = 10 THEN <<>>
                  ELSE IF base = 8 THEN <<"0">>
                  ELSE <<"0", IF "SMALL" \in type THEN "x" ELSE "X">>
        wanted == Max({Len(tmp), precision})
        room == room_for_padding(size, sign, prefix, wanted)
        left == "LEFT" \in type
        zero == "ZEROPAD" \in type /\ ~ left
    IN  Chars(IF left \/ zero THEN 0 ELSE room, " ") \o sign \o prefix
        \o Chars(IF zero THEN room ELSE 0, "0") \o Chars(wanted - Len(tmp), "0")
        \o [i \in 1 .. Len(tmp) |-> DIGITS("SMALL" \in type)[Reverse(tmp)[i] + 1]]
        \o Chars(IF left THEN room ELSE 0, " ")
=============================================================================
