------------------------------- MODULE Format -------------------------------
(***************************************************************************)
(* lib/vsprintf.c: the formats, a directive at a time.  A format is a      *)
(* sequence of characters, args the sequence of words that va_arg yields;  *)
(* a word that is taken for a string is its address in Text.               *)
(***************************************************************************)
EXTENDS Numbers

CONSTANTS
    Text,        \* the strings in memory: from their addresses to characters
    Letter       \* the characters that %c is given, by their codes

ASSUME FormatAssumption == 0 \notin DOMAIN Text

NULL == 0
PointerDigits == 2 * WordBytes        \* 2 * sizeof(void *)

-----------------------------------------------------------------------------
FlagOf ==
    [c \in {"-", "+", " ", "#", "0"} |->
        CASE c = "-" -> "LEFT" [] c = "+" -> "PLUS" [] c = " " -> "SPACE"
          [] c = "#" -> "SPECIAL" [] c = "0" -> "ZEROPAD"]

skip_atoi(digits) ==
    FoldLeft(LAMBDA v, c : v * 10 + (CHOOSE i \in 1 .. 10 : DIGIT[i] = c) - 1, 0, digits)

(* A width or a precision at fmt[i]: digits, or "*" and the next argument. *)
field(fmt, i, args, a) ==
    IF At(fmt, i) = "*" THEN [value |-> Signed(args[a]), end |-> i + 1, a |-> a + 1]
    ELSE LET end == Skip(fmt, i, isdigit)
         IN  [value |-> IF end = i THEN -1 ELSE skip_atoi(SubSeq(fmt, i, end - 1)),
              end |-> end, a |-> a]

(* The end of the qualifier at fmt[i]; the second l of "ll" makes it "L".  *)
qualifier_end(fmt, i) ==
    IF At(fmt, i) = "l" /\ At(fmt, i + 1) = "l" THEN i + 2
    ELSE IF At(fmt, i) \in {"h", "l", "L", "Z", "z", "t"} THEN i + 1 ELSE i

(* The directive whose % stands at fmt[i], and its first argument: where   *)
(* its conversion stands, and where the argument of that.                  *)
parse(fmt, i, args, a) ==
    LET w     == Skip(fmt, i + 1, DOMAIN FlagOf)
        width == field(fmt, w, args, a)
        star  == At(fmt, w) = "*"
        dot   == At(fmt, width.end) = "."
        prec  == IF dot THEN field(fmt, width.end + 1, args, width.a)
                 ELSE [value |-> -1, end |-> width.end, a |-> width.a]
        end   == qualifier_end(fmt, prec.end)
    IN  [flags     |-> {FlagOf[fmt[j]] : j \in i + 1 .. w - 1} 
                         \cup IF star /\ width.value < 0 THEN {"LEFT"} ELSE {},
         width     |-> IF star /\ width.value < 0 THEN - width.value ELSE width.value,
         precision |-> IF dot /\ prec.value < 0 THEN 0 ELSE prec.value,
         qualifier |-> IF end = prec.end THEN "none"
                       ELSE IF end = prec.end + 2 THEN "L" ELSE fmt[prec.end],
         conv      |-> At(fmt, end),
         end       |-> end,
         a         |-> prec.a]

-----------------------------------------------------------------------------
(* mutated: the precision does not end a string *)
shown_whole(s, precision) == s
shown(s, precision) == IF precision < 0 THEN s ELSE SubSeq(s, 1, Min({precision, Len(s)}))

padded(s, width, flags) ==
    IF "LEFT" \in flags THEN s \o Chars(width - Len(s), " ") ELSE Chars(width - Len(s), " ") \o s

string(chars, p) == padded(shown(chars, p.precision), p.width, p.flags)

pointer(word, p) ==
    IF word = NULL THEN string(<<"(", "n", "u", "l", "l", ")">>, p)
    ELSE IF p.width = -1
         THEN number(word, 16, PointerDigits, p.precision, p.flags \cup {"SMALL", "ZEROPAD"})
         ELSE number(word, 16, p.width, p.precision, p.flags \cup {"SMALL"})

integer(word, p) ==
    LET signed == p.conv \in {"d", "i"}
    IN  number(fetch(p.qualifier, signed, word), Base(p.conv), p.width, p.precision,
               p.flags \cup (IF signed THEN {"SIGN"} ELSE {})
                       \cup (IF p.conv = "x" THEN {"SMALL"} ELSE {}))

Integers10 == {"o", "x", "X", "d", "i", "u"}
TakesArgument == Integers10 \cup {"c", "s", "p", "n"}

(* What a directive puts into the text. *)
converted(p, args) ==
    CASE p.conv = "c" -> padded(<<Letter[args[p.a] % 256]>>, p.width, p.flags)
      [] p.conv = "s" -> string(IF args[p.a] = NULL THEN <<"<", "N", "U", "L", "L", ">">>
                                ELSE Text[args[p.a]], p)
      [] p.conv = "p" -> pointer(args[p.a], p)
      [] p.conv = "n" -> <<>>
      [] p.conv = "%" -> <<"%">>
      [] p.conv \in Integers10 -> integer(args[p.a], p)
      [] OTHER -> <<"%">> \o IF p.conv = NUL THEN <<>> ELSE <<p.conv>>

(* Where the format goes on; a pointer takes its suffix along.             *)
after(fmt, p) ==
    IF p.conv = NUL THEN p.end
    ELSE IF p.conv = "p" THEN Skip(fmt, p.end + 1, isalnum) ELSE p.end + 1

(***************************************************************************)
(* vsprintf(buf, fmt, args): the characters before the NUL, whose number   *)
(* it returns, and what each %n stored.                                    *)
(***************************************************************************)
vsprintf(fmt, args) ==
    LET from[i \in Nat, a \in Nat, n \in Nat] ==     \* n characters lie in buf
        IF i > Len(fmt) THEN [text |-> <<>>, counts |-> <<>>]
        ELSE LET p    == parse(fmt, i, args, a)
                 out  == IF fmt[i] = "%" THEN converted(p, args) ELSE <<fmt[i]>>
                 rest == IF fmt[i] # "%" THEN from[i + 1, a, n + 1]
                         ELSE from[after(fmt, p),
                                   p.a + (IF p.conv \in TakesArgument THEN 1 ELSE 0), n + Len(out)]
             IN  [text   |-> out \o rest.text,
                  counts |-> (IF fmt[i] = "%" /\ p.conv = "n" THEN <<n>> ELSE <<>>) \o rest.counts]
    IN  from[1, 1, 0]
=============================================================================
