------------------------------- MODULE Random -------------------------------
(***************************************************************************)
(* lib/rand.c: the multiplicative generator A * X mod M, computed without  *)
(* a product that needs more than 32 bits (Schrage's method).              *)
(***************************************************************************)
EXTENDS Machine

CONSTANTS A, M, Q, R

(* rand.c: M is 2^31 - 1, Q is M / A, R is M % A, and R < Q.  M is a prime, *)
(* and what the proofs need of that is that A has an inverse modulo M.     *)
ASSUME RandomAssumption ==
    /\ LongMod % 2 = 0 /\ M = LongMod \div 2 - 1
    /\ A \in 1 .. M /\ Q = M \div A /\ R = M % A /\ R < Q
    /\ \E w \in 1 .. M : (A * w) % M = 1

(* The int32_t of a seed, and the two products that are formed of it.      *)
X(seed) == Signed(seed)
Product(seed)    == A * Remainder(X(seed), Q)
Correction(seed) == R * Quotient(X(seed), Q)

(* mutated: the remainder is not corrected when it is negative *)
rand_r_uncorrected(seed) == Product(seed) - Correction(seed)
rand_r(seed) ==
    LET x == Product(seed) - Correction(seed)
    IN  IF x < 0 THEN x + M ELSE x

-----------------------------------------------------------------------------
(* The generator's next value, and what must fit into 32 bits on the way.  *)
FitsInt(n)  == - (LongMod \div 2) <= n /\ n < LongMod \div 2
IsNext(seed, x)  == x \in 0 .. M - 1 /\ x = (A * X(seed)) % M
NoOverflow(seed) ==
    FitsInt(Product(seed)) /\ FitsInt(Correction(seed)) /\ FitsInt(Product(seed) - Correction(seed))
=============================================================================
