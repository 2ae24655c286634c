------------------------------ MODULE Strings ------------------------------
(***************************************************************************)
(* lib/string.c on a memory m, a function from addresses to bytes, and     *)
(* gets of lib/printk.c, which is written like them.                       *)
(***************************************************************************)
EXTENDS Ctype

(* One store of n bytes, read from the memory as it is by then.            *)
Store(m, d, s, n) == [a \in DOMAIN m |-> IF a \in d .. d + n - 1 THEN m[s + (a - d)] ELSE m[a]]

(* Whole words are moved while both addresses and the count allow it.      *)
words(aligned, count) == IF aligned THEN count \div WordBytes ELSE 0

(* mutated: the last store comes first *)
copied_backwards(m, d, s, bytes, n) ==
    LET after[k \in 0 .. n] ==
            IF k = 0 THEN m
            ELSE Store(after[k - 1], d + (n - k) * bytes, s + (n - k) * bytes, bytes)
    IN  after[n]
(* n stores of so many bytes each, one after the other.                    *)
Copied(m, d, s, bytes, n) ==
    LET after[k \in 0 .. n] ==
            IF k = 0 THEN m
            ELSE Store(after[k - 1], d + (k - 1) * bytes, s + (k - 1) * bytes, bytes)
    IN  after[n]

memcpy(m, d, s, count) ==
    LET w    == words(d % WordBytes = 0 /\ s % WordBytes = 0, count)
        done == w * WordBytes
    IN  Copied(Copied(m, d, s, WordBytes, w), d + done, s + done, 1, count - done)

(* One store of n bytes, all of them c; and n such stores of some bytes.   *)
Fill(m, s, c, n) == [a \in DOMAIN m |-> IF a \in s .. s + n - 1 THEN c % 256 ELSE m[a]]
Filled(m, s, c, bytes, n) ==
    LET after[k \in 0 .. n] ==
            IF k = 0 THEN m ELSE Fill(after[k - 1], s + (k - 1) * bytes, c, bytes)
    IN  after[n]

memset(m, s, c, count) ==
    LET w    == words(s % WordBytes = 0, count)
        done == w * WordBytes
    IN  Filled(Filled(m, s, c, WordBytes, w), s + done, c, 1, count - done)

NULs(m, s) == {a \in DOMAIN m : a >= s /\ m[a] = 0}

strlen(m, s) == Min(NULs(m, s)) - s

(* A count below zero is never used up.                                    *)
strnlen(m, s, count) ==
    Min(NULs(m, s) \cup IF count < 0 THEN {} ELSE {s + count}) - s

strcpy(m, d, s) == Copied(m, d, s, 1, strlen(m, s) + 1)

(* Nothing is read behind the shorter string's NUL.                        *)
strncmp(m, a, b, n) ==
    LET stops == {k \in 0 .. Min({n - 1, strlen(m, a), strlen(m, b)}) : m[a + k] # m[b + k] \/ m[a + k] = 0}
    IN  IF stops = {} THEN 0 ELSE m[a + Min(stops)] - m[b + Min(stops)]

(* A char is signed: c is found only when it is given as a signed char.    *)
Char(byte) == IF byte >= 128 THEN byte - 256 ELSE byte
strchr(m, s, c) ==
    LET found == {a \in s .. s + strlen(m, s) : Char(m[a]) = c}
    IN  IF found = {} THEN 0 ELSE Min(found)

-----------------------------------------------------------------------------
NEWLINE == 10

(* What i is behind the loop: it counts on when the size ended the loop.   *)
(* mutated: it counts on when a newline did, too *)
index_behind_always(taken, newline) == taken + 1
index_behind(taken, newline) == IF newline THEN taken ELSE taken + 1

(***************************************************************************)
(* gets(s, size), for the answers that getc gives.  getc hands on what     *)
(* console_read returns: -1 from a console without a read function (the    *)
(* early console has none), else how many characters were read, never the  *)
(* character.                                                              *)
(***************************************************************************)
gets(m, s, size, answers) ==
    LET ends   == {k \in 1 .. size : answers[k] = NEWLINE}
        taken  == IF ends = {} THEN size ELSE Min(ends)
        i      == index_behind(taken, ends # {})
        filled == [a \in DOMAIN m |->
                      IF a \in s .. s + taken - 1 THEN answers[a - s + 1] % 256 ELSE m[a]]
    IN  [filled EXCEPT ![IF filled[s + i - 1] = NEWLINE THEN s + i - 1 ELSE s + i] = 0]
=============================================================================
