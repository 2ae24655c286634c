------------------------------ MODULE Decimal ------------------------------
(***************************************************************************)
(* lib/vsprintf.c: put_dec, which takes a number to decimal digits without *)
(* a division, five at a time, the least significant first.                *)
(***************************************************************************)
EXTENDS Integers, Sequences

(* 16, 256 and 4096 are all 6 more than a multiple of ten: each sum of     *)
(* nibbles holds a digit and what is carried into the next sum.            *)
Low(q)   == q % 16
D1(q)    == (q \div 16) % 16
D2(q)    == (q \div 256) % 16
D3(q)    == q \div 4096
TenthOf(d) == (d * 205) \div 2048         \* (d * 0xcd) >> 11
TenthOfSmall(d) == (d * 13) \div 128      \* (d * 0xd) >> 7

Sum0(q) == 6 * (D3(q) + D2(q) + D1(q)) + Low(q)
Sum1(q) == TenthOf(Sum0(q)) + 9 * D3(q) + 5 * D2(q) + D1(q)
Sum2(q) == TenthOf(Sum1(q)) + 2 * D2(q)
Sum3(q) == TenthOfSmall(Sum2(q)) + 4 * D3(q)

put_dec_full(q) ==
    << Sum0(q) - 10 * TenthOf(Sum0(q)), Sum1(q) - 10 * TenthOf(Sum1(q)),
       Sum2(q) - 10 * TenthOfSmall(Sum2(q)), Sum3(q) - 10 * TenthOf(Sum3(q)),
       TenthOf(Sum3(q)) >>

(* The same as far as there are digits: the tests of put_dec_trunc. *)
DigitsWritten(q) ==
    IF Sum1(q) = 0 THEN 1
    ELSE IF Sum2(q) = 0 /\ D3(q) = 0 THEN 2
    ELSE IF Sum3(q) = 0 THEN 3
    ELSE IF TenthOf(Sum3(q)) = 0 THEN 4 ELSE 5

put_dec_trunc(q) == SubSeq(put_dec_full(q), 1, DigitsWritten(q))

put_dec[num \in Nat] ==
    IF num < 100000 THEN put_dec_trunc(num)
    ELSE put_dec_full(num % 100000) \o put_dec[num \div 100000]
=============================================================================
