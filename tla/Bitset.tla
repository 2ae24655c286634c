------------------------------- MODULE Bitset -------------------------------
(***************************************************************************)
(* A bitset of kernel/bitset.c in use: any sequence of its operations, on  *)
(* whatever numbers callers pass, those that bit_set and bit_clear only    *)
(* ignore and those that reach the word behind the array included.  (A bit *)
(* is looked up only where bit_test has a word to read.)  The names differ *)
(* from Paging's, so that PagingProofs can extend both.                    *)
(***************************************************************************)
EXTENDS BitsetOps

CONSTANT Asked      \* the numbers callers pass to bit_set and bit_clear

ASSUME AskedAssumption == Asked \subseteq Nat

VARIABLES
    array,   \* the array, and the word behind it
    answer   \* what the last bit_test or bit_find_first_free returned

bitsetVars == <<array, answer>>

BitsetInit ==
    /\ \E guard \in WordSet : array = Cleared(guard)
    /\ answer = -1

Set(n)   == array' = bit_set(array, n) /\ UNCHANGED answer
Clear(n) == array' = bit_clear(array, n) /\ UNCHANGED answer
Test(n)  == answer' = (IF bit_test(array, n) THEN 1 ELSE 0) /\ UNCHANGED array
Find     == answer' = bit_find_first_free(array) /\ UNCHANGED array

BitsetNext ==
    \/ \E n \in Asked : Set(n) \/ Clear(n)
    \/ \E n \in Bits : Test(n)
    \/ Find

BitsetSpec == BitsetInit /\ [][BitsetNext]_bitsetVars

-----------------------------------------------------------------------------
BitsetTypeOK == array \in Arrays /\ answer \in Bits \cup {-1, 1}

(***************************************************************************)
(* Words, offsets and the two-level search implement a set of numbers:     *)
(* no operation disturbs another number's bit, not even with a number      *)
(* beyond the array (of which the bound check lets those of one word       *)
(* through, bitset.c:44, 58), a look-up finds what was added, and the      *)
(* search returns the least number missing from the set.                   *)
(***************************************************************************)
Implements == INSTANCE NumberSet WITH Numbers <- Bits, members <- Members(array)

IsNumberSet == Implements!Spec
=============================================================================
