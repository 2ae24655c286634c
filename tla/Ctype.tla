------------------------------- MODULE Ctype -------------------------------
(***************************************************************************)
(* lib/ctype.c: the classes of characters, and texts as sequences of them. *)
(***************************************************************************)
EXTENDS Machine, Sequences, SequencesExt, FiniteSetsExt

DIGIT == <<"0", "1", "2", "3", "4", "5", "6", "7", "8", "9">>
LOWER == <<"a", "b", "c", "d", "e", "f", "g", "h", "i", "j", "k", "l", "m",
           "n", "o", "p", "q", "r", "s", "t", "u", "v", "w", "x", "y", "z">>
UPPER == <<"A", "B", "C", "D", "E", "F", "G", "H", "I", "J", "K", "L", "M",
           "N", "O", "P", "Q", "R", "S", "T", "U", "V", "W", "X", "Y", "Z">>

isdigit  == ToSet(DIGIT)
islower  == ToSet(LOWER)
isupper  == ToSet(UPPER)
isalpha  == islower \cup isupper
isalnum  == isalpha \cup isdigit
isxdigit == isdigit \cup ToSet(SubSeq(LOWER, 1, 6)) \cup ToSet(SubSeq(UPPER, 1, 6))

toupper(c) == IF c \in islower THEN UPPER[CHOOSE i \in 1 .. 26 : LOWER[i] = c] ELSE c

(* A text ends in a NUL, which is what stands behind its last character.   *)
NUL == ""
At(s, i) == IF i <= Len(s) THEN s[i] ELSE NUL

(* The first place from i on where s has a character that is not in set.   *)
Skip(s, i, set) == Min({j \in i .. Len(s) + 1 : At(s, j) \notin set})
=============================================================================
