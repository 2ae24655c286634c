----------------------------- MODULE BitsetOps -----------------------------
(***************************************************************************)
(* The operations of kernel/bitset.c on an array of words.  A word is the  *)
(* set of the positions of its one bits.  The array is modelled with the   *)
(* word that follows it in memory, at index len: bit_set and bit_clear     *)
(* compare an index with ">" where the array ends at len - 1, so that word *)
(* is within their reach.                                                  *)
(***************************************************************************)
EXTENDS Integers, FiniteSetsExt

CONSTANTS
    W,     \* bits per word (32)
    len    \* words in the array

ASSUME BitsetAssumption == W \in Nat \ {0} /\ len \in Nat \ {0}

Positions  == 0 .. W - 1
WordSet    == SUBSET Positions
Bits       == 0 .. W * len - 1          \* the bits the set is meant to hold
Arrays     == [0 .. len -> WordSet]     \* the array and the word behind it
Guard      == len                       \* index of the word behind the array

BIT_INDEX(bit)  == bit \div W
BIT_OFFSET(bit) == bit % W

(* The set of numbers an array stands for. *)
Members(b) == {n \in Bits : BIT_OFFSET(n) \in b[BIT_INDEX(n)]}

(* arch_bitset_create: the array cleared; the word behind it belongs to    *)
(* somebody else and holds anything.                                       *)
Cleared(guard) == [i \in 0 .. len |-> IF i = Guard THEN guard ELSE {}]

bit_set(b, bit) ==
    IF BIT_INDEX(bit) > len THEN b
    ELSE [b EXCEPT ![BIT_INDEX(bit)] = @ \cup {BIT_OFFSET(bit)}]

(* mutated: the whole word is cleared *)
bit_clear_word(b, bit) ==
    IF BIT_INDEX(bit) > len THEN b ELSE [b EXCEPT ![BIT_INDEX(bit)] = {}]
bit_clear(b, bit) ==
    IF BIT_INDEX(bit) > len THEN b
    ELSE [b EXCEPT ![BIT_INDEX(bit)] = @ \ {BIT_OFFSET(bit)}]

bit_test(b, bit) == BIT_OFFSET(bit) \in b[BIT_INDEX(bit)]

(* The words of the array that have a zero bit ("!= 0xffffffff"). *)
Roomy(b) == {i \in 0 .. len - 1 : b[i] # Positions}

(***************************************************************************)
(* The first zero bit of the first word that has one, or -1.               *)
(***************************************************************************)
bit_find_first_free(b) ==
    LET i == Min(Roomy(b))
    IN  IF Roomy(b) = {} THEN -1 ELSE i * W + Min(Positions \ b[i])
=============================================================================
