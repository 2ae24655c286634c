------------------------------ MODULE Machine ------------------------------
(***************************************************************************)
(* The integers the library is compiled for: LongMod is the modulus of     *)
(* unsigned int, unsigned long and pointers, which have one width,         *)
(* ShortMod that of unsigned short, WordBytes the bytes of a long.         *)
(***************************************************************************)
EXTENDS Integers

CONSTANTS LongMod, ShortMod, WordBytes

ASSUME MachineAssumption ==
    /\ LongMod \in Nat /\ ShortMod \in 1 .. LongMod /\ WordBytes \in Nat \ {0}
    /\ LongMod % 256 = 0 /\ ShortMod % 256 = 0

Wrap(n)   == n % LongMod
Signed(n) == IF n >= LongMod \div 2 THEN n - LongMod ELSE n

(* The division and the remainder of C, which truncate towards zero.       *)
Quotient(x, y)  == IF x < 0 THEN - ((- x) \div y) ELSE x \div y
Remainder(x, y) == x - y * Quotient(x, y)
=============================================================================
