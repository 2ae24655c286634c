--------------------------- MODULE LibraryProofs ---------------------------
(***************************************************************************)
(* Proofs about the library: put_dec's two halves give the decimal digits  *)
(* of every number, rand is the generator it means to be for every seed,   *)
(* gets stays where it may write for every line, the functions of string.c *)
(* do to every memory, at every count, what they are for, and number       *)
(* writes the digits of every number, in a field as wide as it was told.   *)
(***************************************************************************)
EXTENDS Library, TLAPS, WellFoundedInduction, FiniteSetTheorems, SequenceTheorems

(* What put_dec hands to the two: num below the test, or a remainder. *)
FiveDigits == {n \in Nat : n <= 99999}

(* The two multiplications divide by ten as far as the sums go. *)
LEMMA TenthIsExact == \A d \in 0 .. 339 : TenthOf(d) = d \div 10
  BY SMTT(60) DEF TenthOf

LEMMA TenthOfSmallIsExact == \A d \in 0 .. 68 : TenthOfSmall(d) = d \div 10
  BY SMTT(60) DEF TenthOfSmall

(* A number taken apart at a division, and dividing twice. *)
LEMMA Divided ==
  ASSUME NEW q \in Nat
  PROVE  /\ q = 16 * (q \div 16) + (q % 16)
         /\ q \div 16 \in Nat /\ q % 16 \in 0 .. 15
  BY SMTT(60)

LEMMA DividedTwice ==
  ASSUME NEW q \in Nat
  PROVE  q \div 256 = (q \div 16) \div 16 /\ q \div 4096 = (q \div 256) \div 16
  <1>1. q \div 256 = (q \div 16) \div 16
    BY SMTT(60)
  <1>2. q \div 4096 = (q \div 256) \div 16
    BY SMTT(60)
  <1> QED  BY <1>1, <1>2

(* The nibbles of q, and how far each of them goes. *)
LEMMA Nibbles ==
  ASSUME NEW q \in FiveDigits
  PROVE  /\ Low(q) \in 0 .. 15 /\ D1(q) \in 0 .. 15 /\ D2(q) \in 0 .. 15 /\ D3(q) \in 0 .. 24
         /\ q = 4096 * D3(q) + 256 * D2(q) + 16 * D1(q) + Low(q)
  <1> DEFINE a == q \div 16
             b == q \div 256
  <1> HIDE DEF a, b
  <1>1. q \in Nat /\ q <= 99999
    BY DEF FiveDigits
  <1>2. q = 16 * a + Low(q) /\ a \in Nat /\ Low(q) \in 0 .. 15
    BY <1>1, Divided DEF Low, a
  <1>3. a = 16 * b + D1(q) /\ b \in Nat /\ D1(q) \in 0 .. 15
    BY <1>1, <1>2, Divided, DividedTwice DEF D1, a, b
  <1>4. b = 16 * D3(q) + D2(q) /\ D3(q) \in Nat /\ D2(q) \in 0 .. 15
    BY <1>1, <1>3, Divided, DividedTwice DEF D2, D3, b
  <1>5. q = 4096 * D3(q) + 256 * D2(q) + 16 * D1(q) + Low(q)
    BY <1>2, <1>3, <1>4
  <1>6. D3(q) <= 24
    BY <1>1, <1>2, <1>3, <1>4, <1>5
  <1>7. D3(q) \in 0 .. 24
    BY <1>4, <1>6
  <1> QED  BY <1>2, <1>3, <1>4, <1>5, <1>7

(* Dividing by ten what is a multiple of ten but for a sum. *)
LEMMA DivideSum ==
  ASSUME NEW a \in Nat, NEW s \in Nat
  PROVE  /\ (10 * a + s) \div 10 = a + s \div 10
         /\ (10 * a + s) % 10 = s - 10 * (s \div 10)
  BY SMTT(60)

(* The quotients of q, each as a multiple of ten and the sum of its digit. *)
LEMMA Quotients ==
  ASSUME NEW q \in FiveDigits
  PROVE  /\ Sum0(q) \in 0 .. 339 /\ Sum1(q) \in 0 .. 339
         /\ Sum2(q) \in 0 .. 68 /\ Sum3(q) \in 0 .. 339
         /\ q           = 10 * (409 * D3(q) + 25 * D2(q) + D1(q)) + Sum0(q)
         /\ q \div 10    = 10 * (40 * D3(q) + 2 * D2(q)) + Sum1(q)
         /\ q \div 100   = 10 * (4 * D3(q)) + Sum2(q)
         /\ q \div 1000  = Sum3(q)
         /\ q \div 10000 = TenthOf(Sum3(q))
  <1> DEFINE l == Low(q)
             n1 == D1(q)
             n2 == D2(q)
             n3 == D3(q)
  <1>1. /\ l \in 0 .. 15 /\ n1 \in 0 .. 15 /\ n2 \in 0 .. 15 /\ n3 \in 0 .. 24
        /\ q \in Nat /\ q = 4096 * n3 + 256 * n2 + 16 * n1 + l
    <2>1. q \in Nat
      BY DEF FiveDigits
    <2> QED  BY <2>1, Nibbles
  <1>2. /\ Sum0(q) = 6 * (n3 + n2 + n1) + l
        /\ Sum1(q) = TenthOf(Sum0(q)) + 9 * n3 + 5 * n2 + n1
        /\ Sum2(q) = TenthOf(Sum1(q)) + 2 * n2
        /\ Sum3(q) = TenthOfSmall(Sum2(q)) + 4 * n3
    BY DEF Sum0, Sum1, Sum2, Sum3
  <1> HIDE DEF l, n1, n2, n3
  <1>3. Sum0(q) \in 0 .. 339 /\ q = 10 * (409 * n3 + 25 * n2 + n1) + Sum0(q)
    BY <1>1, <1>2
  <1>4. TenthOf(Sum0(q)) = Sum0(q) \div 10 /\ TenthOf(Sum0(q)) \in 0 .. 33
    BY <1>3, TenthIsExact
  <1>5. Sum1(q) \in 0 .. 339
    <2>1. 9 * n3 \in 0 .. 216 /\ 5 * n2 \in 0 .. 75 /\ n1 \in 0 .. 15
      BY <1>1
    <2>2. TenthOf(Sum0(q)) \in 0 .. 33
      BY <1>4
    <2>3. \A t, u, v, w \in Int :
             t \in 0 .. 33 /\ u \in 0 .. 216 /\ v \in 0 .. 75 /\ w \in 0 .. 15
                => t + u + v + w \in 0 .. 339
      OBVIOUS
    <2>4. Sum1(q) = TenthOf(Sum0(q)) + 9 * n3 + 5 * n2 + n1
      BY <1>2
    <2>5. TenthOf(Sum0(q)) + 9 * n3 + 5 * n2 + n1 \in 0 .. 339
      <3>1. TenthOf(Sum0(q)) \in Int /\ 9 * n3 \in Int /\ 5 * n2 \in Int /\ n1 \in Int
        BY <2>1, <2>2
      <3> QED  BY <2>1, <2>2, <2>3, <3>1, Zenon
    <2> QED  BY <2>4, <2>5, Zenon
  <1>6. q \div 10 = 10 * (40 * n3 + 2 * n2) + Sum1(q)
    <2>1. 409 * n3 + 25 * n2 + n1 \in Nat /\ Sum0(q) \in Nat
      BY <1>1, <1>3
    <2>2. q \div 10 = 409 * n3 + 25 * n2 + n1 + Sum0(q) \div 10
      BY <2>1, <1>3, DivideSum
    <2> QED  BY <2>2, <1>1, <1>2, <1>4
  <1>7. TenthOf(Sum1(q)) = Sum1(q) \div 10 /\ TenthOf(Sum1(q)) \in 0 .. 33
    BY <1>5, TenthIsExact
  <1>8. Sum2(q) \in 0 .. 68
    BY <1>1, <1>2, <1>7
  <1>9. q \div 100 = 10 * (4 * n3) + Sum2(q)
    <2>1. 40 * n3 + 2 * n2 \in Nat /\ Sum1(q) \in Nat
      BY <1>1, <1>5
    <2>2. q \div 100 = (q \div 10) \div 10
      BY <1>1, SMTT(60)
    <2>3. (q \div 10) \div 10 = 40 * n3 + 2 * n2 + Sum1(q) \div 10
      BY <2>1, <1>6, DivideSum
    <2> QED  BY <2>2, <2>3, <1>1, <1>2, <1>7
  <1>10. TenthOfSmall(Sum2(q)) = Sum2(q) \div 10 /\ TenthOfSmall(Sum2(q)) \in 0 .. 6
    BY <1>8, TenthOfSmallIsExact
  <1>11. Sum3(q) \in 0 .. 339
    BY <1>1, <1>2, <1>10
  <1>12. q \div 1000 = Sum3(q)
    <2>1. 4 * n3 \in Nat /\ Sum2(q) \in Nat
      BY <1>1, <1>8
    <2>2. q \div 1000 = (q \div 100) \div 10
      BY <1>1, SMTT(60)
    <2>3. (q \div 100) \div 10 = 4 * n3 + Sum2(q) \div 10
      BY <2>1, <1>9, DivideSum
    <2> QED  BY <2>2, <2>3, <1>1, <1>2, <1>10
  <1>13. q \div 10000 = TenthOf(Sum3(q))
    <2>1. q \div 10000 = (q \div 1000) \div 10
      BY <1>1, SMTT(60)
    <2> QED  BY <2>1, <1>11, <1>12, TenthIsExact
  <1> QED  BY <1>3, <1>5, <1>6, <1>8, <1>9, <1>11, <1>12, <1>13 DEF n1, n2, n3

(* The five decimal digits of q, the least significant first. *)
DecimalDigits(q) ==
    << q % 10, (q \div 10) % 10, (q \div 100) % 10, (q \div 1000) % 10, q \div 10000 >>

(***************************************************************************)
(* put_dec_full writes the five decimal digits of every remainder that     *)
(* put_dec gives it (vsprintf.c:93-133).                                   *)
(***************************************************************************)
THEOREM FullIsDecimal ==
  ASSUME NEW q \in FiveDigits
  PROVE  put_dec_full(q) = DecimalDigits(q)
  <1> DEFINE a0 == 409 * D3(q) + 25 * D2(q) + D1(q)
             a1 == 40 * D3(q) + 2 * D2(q)
             a2 == 4 * D3(q)
             s0 == Sum0(q)
             s1 == Sum1(q)
             s2 == Sum2(q)
             s3 == Sum3(q)
             t0 == TenthOf(Sum0(q))
             t1 == TenthOf(Sum1(q))
             t2 == TenthOfSmall(Sum2(q))
             t3 == TenthOf(Sum3(q))
  <1>1. a0 \in Nat /\ a1 \in Nat /\ a2 \in Nat
    <2>1. D1(q) \in Nat /\ D2(q) \in Nat /\ D3(q) \in Nat
      BY Nibbles
    <2> QED  BY <2>1
  <1>2. s0 \in Nat /\ s1 \in Nat /\ s2 \in Nat /\ s3 \in Nat
    BY Quotients
  <1>3. t0 = s0 \div 10 /\ t1 = s1 \div 10 /\ t2 = s2 \div 10 /\ t3 = s3 \div 10
    <2>1. s0 \in 0 .. 339 /\ s1 \in 0 .. 339 /\ s2 \in 0 .. 68 /\ s3 \in 0 .. 339
      BY Quotients
    <2> QED  BY <2>1, TenthIsExact, TenthOfSmallIsExact, Zenon
  <1>4. /\ q = 10 * a0 + s0 /\ q \div 10 = 10 * a1 + s1
        /\ q \div 100 = 10 * a2 + s2 /\ q \div 1000 = s3
        /\ q \div 10000 = t3
    BY Quotients
  <1>5. put_dec_full(q) = <<s0 - 10 * t0, s1 - 10 * t1, s2 - 10 * t2, s3 - 10 * t3, t3>>
    BY DEF put_dec_full
  <1> HIDE DEF a0, a1, a2, s0, s1, s2, s3, t0, t1, t2, t3
  <1>6. q % 10 = s0 - 10 * t0
    <2>1. (10 * a0 + s0) % 10 = s0 - 10 * (s0 \div 10)
      BY <1>1, <1>2, DivideSum
    <2> QED  BY <2>1, <1>3, <1>4
  <1>7. (q \div 10) % 10 = s1 - 10 * t1
    <2>1. (10 * a1 + s1) % 10 = s1 - 10 * (s1 \div 10)
      BY <1>1, <1>2, DivideSum
    <2> QED  BY <2>1, <1>3, <1>4
  <1>8. (q \div 100) % 10 = s2 - 10 * t2
    <2>1. (10 * a2 + s2) % 10 = s2 - 10 * (s2 \div 10)
      BY <1>1, <1>2, DivideSum
    <2> QED  BY <2>1, <1>3, <1>4
  <1>9. (q \div 1000) % 10 = s3 - 10 * t3
    <2>1. s3 % 10 = s3 - 10 * (s3 \div 10)
      BY <1>2, SMTT(60)
    <2> QED  BY <2>1, <1>3, <1>4
  <1> QED  BY <1>4, <1>5, <1>6, <1>7, <1>8, <1>9 DEF DecimalDigits

(***************************************************************************)
(* put_dec_trunc stops after the last digit that is not zero, and writes   *)
(* at least one: its tests of the sums are tests of the quotients          *)
(* (vsprintf.c:57-91).                                                     *)
(***************************************************************************)
THEOREM TruncIsDecimal ==
  ASSUME NEW q \in FiveDigits
  PROVE  put_dec_trunc(q) = SubSeq(DecimalDigits(q), 1,
             IF q < 10 THEN 1 ELSE IF q < 100 THEN 2 ELSE IF q < 1000 THEN 3
             ELSE IF q < 10000 THEN 4 ELSE 5)
  <1> DEFINE n1 == D1(q)
             n2 == D2(q)
             n3 == D3(q)
             s1 == Sum1(q)
             s2 == Sum2(q)
             s3 == Sum3(q)
             s4 == TenthOf(Sum3(q))
  <1>1. /\ n1 \in Nat /\ n2 \in Nat /\ n3 \in Nat
        /\ s1 \in Nat /\ s2 \in Nat /\ s3 \in Nat
    <2>1. s1 \in 0 .. 339 /\ s2 \in 0 .. 68 /\ s3 \in 0 .. 339
      BY Quotients
    <2>2. n1 \in 0 .. 15 /\ n2 \in 0 .. 15 /\ n3 \in 0 .. 24
      BY Nibbles
    <2> HIDE DEF n1, n2, n3, s1, s2, s3
    <2> QED  BY <2>1, <2>2
  <1>2. /\ s1 = TenthOf(Sum0(q)) + 9 * n3 + 5 * n2 + n1 /\ TenthOf(Sum0(q)) \in Nat
        /\ s2 = TenthOf(s1) + 2 * n2 /\ TenthOf(s1) \in Nat
        /\ s3 = TenthOfSmall(s2) + 4 * n3 /\ TenthOfSmall(s2) \in Nat
    <2>1. Sum0(q) \in 0 .. 339 /\ s1 \in 0 .. 339 /\ s2 \in 0 .. 68
      BY Quotients
    <2>2. \A d \in Nat : d \div 10 \in Nat
      BY SMTT(60)
    <2>3. TenthOf(Sum0(q)) = Sum0(q) \div 10 /\ TenthOf(s1) = s1 \div 10 /\ TenthOfSmall(s2) = s2 \div 10
      BY <2>1, TenthIsExact, TenthOfSmallIsExact, Zenon
    <2>4. Sum0(q) \in Nat /\ s1 \in Nat /\ s2 \in Nat
      BY <2>1
    <2> QED  BY <2>2, <2>3, <2>4, Zenon DEF Sum1, Sum2, Sum3
  <1>3. /\ q \div 10 = 10 * (40 * n3 + 2 * n2) + s1
        /\ q \div 100 = 10 * (4 * n3) + s2
        /\ q \div 1000 = s3 /\ q \div 10000 = s4
    BY Quotients
  <1>4. q \in Nat
    BY DEF FiveDigits
  <1> HIDE DEF n1, n2, n3, s1, s2, s3, s4
  <1>5. /\ q < 10 <=> q \div 10 = 0
        /\ q < 100 <=> q \div 100 = 0
        /\ q < 1000 <=> q \div 1000 = 0
        /\ q < 10000 <=> q \div 10000 = 0
    <2>1. q < 10 <=> q \div 10 = 0
      BY <1>4, SMTT(60)
    <2>2. q < 100 <=> q \div 100 = 0
      BY <1>4, SMTT(60)
    <2>3. q < 1000 <=> q \div 1000 = 0
      BY <1>4, SMTT(60)
    <2>4. q < 10000 <=> q \div 10000 = 0
      BY <1>4, SMTT(60)
    <2> QED  BY <2>1, <2>2, <2>3, <2>4
  <1>6. q < 10 <=> s1 = 0
    <2>1. s1 = 0 => n3 = 0 /\ n2 = 0
      BY <1>1, <1>2
    <2>2. q \div 10 = 0 <=> s1 = 0
      BY <2>1, <1>1, <1>3
    <2> QED  BY <2>2, <1>5
  <1>7. q < 100 <=> s2 = 0 /\ n3 = 0
    BY <1>1, <1>3, <1>5
  <1>8. q < 1000 <=> s3 = 0
    BY <1>3, <1>5
  <1>9. q < 10000 <=> s4 = 0
    BY <1>3, <1>5
  <1>10. DigitsWritten(q) = IF q < 10 THEN 1 ELSE IF q < 100 THEN 2 ELSE IF q < 1000 THEN 3
                            ELSE IF q < 10000 THEN 4 ELSE 5
    BY <1>6, <1>7, <1>8, <1>9 DEF DigitsWritten, n1, n2, n3, s1, s2, s3, s4
  <1> QED  BY <1>10, FullIsDecimal DEF put_dec_trunc

-----------------------------------------------------------------------------

Seed == 0 .. LongMod - 1

(* The constants of rand.c as the proofs use them: M is A * Q + R. *)
LEMMA Constants ==
    /\ A \in Nat \ {0} /\ Q \in Nat \ {0} /\ R \in 0 .. Q - 1 /\ M \in Nat \ {0}
    /\ M = A * Q + R /\ Q <= M
    /\ LongMod \in Nat /\ LongMod \div 2 = M + 1 /\ LongMod = 2 * (M + 1)
<1>1. A \in Nat \ {0} /\ M \in Nat \ {0} /\ LongMod \in Nat
  BY RandomAssumption, MachineAssumption
<1>2. /\ M \div A \in Int /\ M % A \in 0 .. A - 1 /\ M = A * (M \div A) + (M % A)
  BY <1>1
<1>3. R \in Nat /\ Q \in Int /\ R < Q /\ M = A * Q + R
  BY <1>1, <1>2, RandomAssumption
<1>4. Q <= A * Q
  BY <1>1, <1>3
<1>5. LongMod = 2 * (LongMod \div 2)
  BY <1>1, RandomAssumption
<1> QED  BY <1>1, <1>3, <1>4, <1>5, RandomAssumption

(* Products of sums and of products, which the provers do not normalise    *)
(* among other hypotheses.                                                 *)
LEMMA Distributes ==
    ASSUME NEW a \in Int, NEW b \in Int, NEW c \in Int
    PROVE  /\ (a + b) * c = a * c + b * c /\ (a - b) * c = a * c - b * c
           /\ c * (a + b) = c * a + c * b
OBVIOUS

LEMMA Associates ==
    ASSUME NEW a \in Int, NEW b \in Int, NEW c \in Int
    PROVE  a * (b * c) = (a * b) * c
OBVIOUS

LEMMA ProductGrows ==
    ASSUME NEW a \in Nat, NEW b \in Nat, NEW c \in Nat, a <= b
    PROVE  a * c \in Nat /\ b * c \in Nat /\ c * a \in Nat /\ a * c <= b * c /\ c * a <= c * b
OBVIOUS

(***************************************************************************)
(* The two products of rand_r for the magnitude y of an int32_t: both are  *)
(* below M, and their difference is A * y less a multiple of M.            *)
(***************************************************************************)
LEMMA Schrage ==
    ASSUME NEW y \in Nat, y <= M + 1, NEW q \in Nat, NEW r \in 0 .. Q - 1, y = Q * q + r
    PROVE  /\ A * r \in Nat /\ R * q \in Nat /\ A * r < M /\ R * q < M
           /\ A * y = M * q + (A * r - R * q)
<1>1. /\ A \in Nat \ {0} /\ Q \in Nat \ {0} /\ R \in 0 .. Q - 1 /\ M \in Nat \ {0}
      /\ M = A * Q + R /\ Q <= M
  BY Constants
<1>2. A * r \in Nat /\ A * r < M
  <2>1. A * r \in Nat /\ A * r <= A * (Q - 1)
    BY ONLY <1>1, r \in 0 .. Q - 1, ProductGrows
  <2>2. A * (Q - 1) = A * Q - A /\ A * Q \in Int
    BY ONLY <1>1
  <2> QED  BY ONLY <1>1, <2>1, <2>2
<1>3. R * q \in Nat /\ R * q < M
  <2>1. R * q \in Nat /\ R * q <= (Q - 1) * q
    BY ONLY <1>1, q \in Nat, ProductGrows
  <2>2. (Q - 1) * q = Q * q - 1 * q /\ Q * q \in Int /\ 1 * q = q
    BY ONLY <1>1, q \in Nat, Distributes
  <2>3. R * q <= M + 1 - q
    BY ONLY <1>1, <2>1, <2>2, y <= M + 1, y = Q * q + r, r \in 0 .. Q - 1, q \in Nat
  <2>4. CASE q = 0
    BY ONLY <1>1, <2>4
  <2>5. CASE q = 1
    BY ONLY <1>1, <2>5
  <2>6. CASE q >= 2
    BY ONLY <1>1, <2>1, <2>3, <2>6, q \in Nat
  <2> QED  BY ONLY <2>1, <2>4, <2>5, <2>6, q \in Nat
<1>4. A * y = M * q + (A * r - R * q)
  <2>1. A * (Q * q + r) = A * (Q * q) + A * r
    <3>1. Q * q \in Int /\ r \in Int /\ A \in Int  BY ONLY <1>1, q \in Nat, r \in 0 .. Q - 1
    <3> DEFINE b == Q * q
    <3> HIDE DEF b
    <3>2. b \in Int  BY <3>1 DEF b
    <3>3. A * (b + r) = A * b + A * r  BY ONLY <3>1, <3>2, Distributes
    <3> QED  BY <3>3 DEF b
  <2>2. A * (Q * q) = (A * Q) * q
    BY ONLY <1>1, q \in Nat, Associates
  <2>3. (A * Q + R) * q = (A * Q) * q + R * q
    <3>1. A * Q \in Int /\ R \in Int  BY ONLY <1>1
    <3> DEFINE a == A * Q
    <3> HIDE DEF a
    <3>2. a \in Int  BY <3>1 DEF a
    <3>3. (a + R) * q = a * q + R * q  BY ONLY <3>1, <3>2, q \in Nat, Distributes
    <3> QED  BY <3>3 DEF a
  <2>4. (A * Q) * q \in Int
    BY ONLY <1>1, q \in Nat
  <2> QED  BY ONLY <1>1, <1>2, <1>3, <2>1, <2>2, <2>3, <2>4, y = Q * q + r
<1> QED  BY <1>2, <1>3, <1>4

(* What a division by Q leaves. *)
LEMMA Dividing ==
    ASSUME NEW y \in Nat
    PROVE  /\ y \div Q \in Nat /\ y - Q * (y \div Q) \in 0 .. Q - 1
           /\ y = Q * (y \div Q) + (y - Q * (y \div Q))
<1>1. Q \in Nat \ {0}  BY Constants
<1> DEFINE q == y \div Q
           r == y % Q
<1>2. q \in Int /\ r \in 0 .. Q - 1 /\ y = Q * q + r
  BY ONLY <1>1, y \in Nat
<1> HIDE DEF q, r
<1>3. q \in Nat
  <2>1. SUFFICES ASSUME q <= -1 PROVE FALSE
    BY ONLY <1>2, <2>1
  <2>2. - q \in Nat /\ 1 <= - q /\ Q * (- q) = - (Q * q)
    BY ONLY <1>1, <1>2, <2>1
  <2>3. 1 * Q <= (- q) * Q
    BY ONLY <1>1, <2>2, ProductGrows
  <2>4. (- q) * Q = Q * (- q) /\ 1 * Q = Q /\ Q * q \in Int
    BY ONLY <1>1, <1>2
  <2> QED  BY ONLY <1>1, <1>2, <2>2, <2>3, <2>4, y \in Nat
<1>4. y - Q * q = r /\ Q * q \in Int
  <2>1. Q * q \in Int  BY ONLY <1>1, <1>2
  <2> QED  BY ONLY <1>1, <1>2, <2>1
<1>5. y - Q * q \in 0 .. Q - 1 /\ y = Q * q + (y - Q * q)
  BY ONLY <1>2, <1>4
<1> QED  BY <1>3, <1>5 DEF q

(***************************************************************************)
(* The same for the seed as an int32_t, whose sign C's division keeps: the *)
(* difference lies between -M and M, and A * X is it but for a multiple.   *)
(***************************************************************************)
LEMMA Step ==
    ASSUME NEW seed \in Seed
    PROVE  /\ X(seed) \in Int /\ Product(seed) \in Int /\ Correction(seed) \in Int
           /\ - M < Product(seed) /\ Product(seed) < M
           /\ - M < Correction(seed) /\ Correction(seed) < M
           /\ - M < Product(seed) - Correction(seed) /\ Product(seed) - Correction(seed) < M
           /\ \E k \in Int : A * X(seed) = M * k + (Product(seed) - Correction(seed))
<1> USE Constants
<1>1. X(seed) \in Int /\ X(seed) <= M /\ - X(seed) <= M + 1
  BY DEF Seed, X, Signed
<1>2. CASE X(seed) >= 0
  <2> DEFINE q == X(seed) \div Q
             r == X(seed) - Q * q
  <2>1. Quotient(X(seed), Q) = q /\ Remainder(X(seed), Q) = r
    BY <1>1, <1>2 DEF Quotient, Remainder
  <2>2. Product(seed) = A * r /\ Correction(seed) = R * q
    BY <2>1 DEF Product, Correction
  <2>3. X(seed) \in Nat /\ q \in Nat /\ r \in 0 .. Q - 1 /\ X(seed) = Q * q + r
    <3>1. X(seed) \in Nat  BY <1>1, <1>2
    <3> QED  BY ONLY <3>1, Dividing
  <2> HIDE DEF q, r
  <2>4. /\ A * r \in Nat /\ R * q \in Nat /\ A * r < M /\ R * q < M
        /\ A * X(seed) = M * q + (A * r - R * q)
    BY <1>1, <2>3, Schrage
  <2>5. q \in Int /\ A * X(seed) = M * q + (Product(seed) - Correction(seed))
    BY <2>2, <2>3, <2>4
  <2>6. \E k \in Int : A * X(seed) = M * k + (Product(seed) - Correction(seed))
    BY <2>5
  <2>7. /\ - M < Product(seed) /\ Product(seed) < M /\ Product(seed) \in Int
        /\ - M < Correction(seed) /\ Correction(seed) < M /\ Correction(seed) \in Int
        /\ - M < Product(seed) - Correction(seed) /\ Product(seed) - Correction(seed) < M
    BY ONLY <2>2, <2>4, Constants
  <2> QED  BY <1>1, <2>6, <2>7
<1>3. CASE X(seed) < 0
  <2> DEFINE y == - X(seed)
             q == y \div Q
             r == y - Q * q
  <2>1. y \in Nat /\ y <= M + 1 /\ X(seed) = - y
    BY <1>1, <1>3
  <2>2. q \in Nat /\ r \in 0 .. Q - 1 /\ y = Q * q + r
    BY <2>1, Dividing
  <2>3. Quotient(X(seed), Q) = - q
    BY <1>3 DEF Quotient
  <2> HIDE DEF y, q, r
  <2>4. /\ A * r \in Nat /\ R * q \in Nat /\ A * r < M /\ R * q < M
        /\ A * y = M * q + (A * r - R * q)
    BY <2>1, <2>2, Schrage
  <2>5. Remainder(X(seed), Q) = - r
    <3>1. Q * (- q) = - (Q * q) /\ Q * q \in Int  BY ONLY <2>2, Constants
    <3> QED  BY <2>1, <2>2, <2>3, <3>1 DEF Remainder
  <2>6. Product(seed) = - (A * r) /\ Correction(seed) = - (R * q)
    <3>1. A * (- r) = - (A * r) /\ R * (- q) = - (R * q)  BY ONLY <2>2, Constants
    <3> QED  BY <2>3, <2>5, <3>1 DEF Product, Correction
  <2>7. A * (- y) = - (A * y) /\ M * (- q) = - (M * q) /\ M * q \in Int
    BY ONLY <2>1, <2>2, Constants
  <2>8. - q \in Int /\ A * X(seed) = M * (- q) + (Product(seed) - Correction(seed))
    BY ONLY <2>1, <2>2, <2>4, <2>6, <2>7
  <2>9. \E k \in Int : A * X(seed) = M * k + (Product(seed) - Correction(seed))
    BY <2>8
  <2>10. /\ - M < Product(seed) /\ Product(seed) < M /\ Product(seed) \in Int
         /\ - M < Correction(seed) /\ Correction(seed) < M /\ Correction(seed) \in Int
         /\ - M < Product(seed) - Correction(seed) /\ Product(seed) - Correction(seed) < M
    BY ONLY <2>4, <2>6, Constants
  <2> QED  BY <1>1, <2>9, <2>10
<1> QED  BY <1>1, <1>2, <1>3

(***************************************************************************)
(* No product and no difference of rand_r leaves int32_t, whatever the     *)
(* seed: the reason for computing the step this way (rand.c:9-20).         *)
(***************************************************************************)
THEOREM NeverOverflows ==
    ASSUME NEW seed \in Seed PROVE NoOverflow(seed)
<1>1. LongMod \div 2 = M + 1 /\ M \in Nat
  BY Constants
<1> QED  BY <1>1, Step DEF NoOverflow, FitsInt

(***************************************************************************)
(* rand_r returns the next value of the generator, A * X mod M, also for   *)
(* the seeds that are no value of the generator (rand.c:9-20).             *)
(***************************************************************************)
THEOREM RandIsLehmer ==
    ASSUME NEW seed \in Seed PROVE IsNext(seed, rand_r(seed))
<1> DEFINE x == Product(seed) - Correction(seed)
<1>1. M \in Nat \ {0}
  BY Constants
<1>2. x \in Int /\ - M < x /\ x < M /\ \E k \in Int : A * X(seed) = M * k + x
  BY Step
<1>3. PICK k \in Int : A * X(seed) = M * k + x
  BY <1>2
<1>4. rand_r(seed) = IF x < 0 THEN x + M ELSE x
  BY DEF rand_r
<1> HIDE DEF x
<1>5. CASE x >= 0
  <2>1. x \in 0 .. M - 1  BY <1>1, <1>2, <1>5
  <2>2. (A * X(seed)) % M = x  BY <1>1, <1>3, <2>1
  <2> QED  BY <1>2, <1>4, <1>5, <2>1, <2>2 DEF IsNext
<1>6. CASE x < 0
  <2>1. x + M \in 0 .. M - 1  BY <1>1, <1>2, <1>6
  <2>2. M * (k - 1) = M * k - M  BY <1>1
  <2>3. A * X(seed) = M * (k - 1) + (x + M) /\ k - 1 \in Int  BY <1>1, <1>2, <1>3, <2>2
  <2>4. (M * (k - 1) + (x + M)) % M = x + M
    <3> DEFINE j == k - 1
               z == x + M
    <3>1. j \in Int /\ z \in 0 .. M - 1  BY <2>1, <2>3
    <3> HIDE DEF j, z
    <3>2. (M * j + z) % M = z  BY <1>1, <3>1
    <3> QED  BY <3>2 DEF j, z
  <2> QED  BY <1>4, <1>6, <2>1, <2>3, <2>4 DEF IsNext
<1> QED  BY <1>2, <1>5, <1>6

(***************************************************************************)
(* As A has an inverse modulo M (M is a prime in rand.c), zero is the next *)
(* value of multiples of M alone: rand gets stuck there only if srand put  *)
(* it there (rand.c:29-32).                                                *)
(***************************************************************************)
THEOREM ZeroIsSeeded ==
    ASSUME NEW seed \in Seed, rand_r(seed) = 0
    PROVE  X(seed) % M = 0
<1>1. M \in Nat \ {0} /\ A \in Nat
  BY Constants
<1>2. PICK u \in Int, v \in Int : u * A + v * M = 1
  <2>1. PICK w \in 1 .. M : (A * w) % M = 1
    BY RandomAssumption
  <2> DEFINE p == A * w
  <2>2. p \in Int /\ p = w * A
    BY <1>1
  <2> HIDE DEF p
  <2> DEFINE q == p \div M
  <2>3. p % M = 1
    BY <2>1 DEF p
  <2>4. q \in Int /\ p = M * q + 1
    BY <1>1, <2>2, <2>3
  <2> HIDE DEF q
  <2>5. (- q) * M = - (M * q) /\ M * q \in Int /\ - q \in Int
    BY <1>1, <2>4
  <2>6. w * A + (- q) * M = 1
    BY <2>2, <2>4, <2>5
  <2> QED BY <2>5, <2>6
<1>3. X(seed) \in Int
  BY Step
<1> DEFINE x == X(seed)
<1> HIDE DEF x
<1>4. (A * x) % M = 0 /\ x \in Int
  BY <1>3, RandIsLehmer DEF IsNext, x
<1>5. PICK k \in Int : A * x = M * k
  <2> DEFINE y == A * x
  <2>1. y \in Int /\ y % M = 0  BY <1>1, <1>4
  <2> HIDE DEF y
  <2>2. y = M * (y \div M) + 0 /\ y \div M \in Int  BY <1>1, <2>1
  <2>3. y = M * (y \div M)  BY <1>1, <2>2
  <2> QED  BY <2>2, <2>3 DEF y
<1>6. x = M * (u * k + v * x)
  <2>1. x = (u * A + v * M) * x
    <3>1. x = 1 * x  BY <1>4
    <3> QED  BY <3>1, <1>2
  <2>2. (u * A + v * M) * x = u * (A * x) + (v * M) * x  BY <1>1, <1>4
  <2>3. u * (M * k) = M * (u * k) /\ (v * M) * x = M * (v * x)  BY <1>1, <1>4
  <2>4. M * (u * k) + M * (v * x) = M * (u * k + v * x)  BY <1>1, <1>4
  <2> QED  BY <1>5, <2>1, <2>2, <2>3, <2>4
<1>7. (M * (u * k + v * x) + 0) % M = 0
  BY <1>1, <1>4
<1> QED  BY <1>1, <1>4, <1>6, <1>7 DEF x

-----------------------------------------------------------------------------
(***************************************************************************)
(* The state of Library's calls: a call that has returned has the outcome  *)
(* of its function for its own arguments.                                  *)
(***************************************************************************)
Returned ==
    /\ call \in Calls
    /\ outcome # Pending =>
           /\ call.fn = "memcpy" => outcome.result = memcpy(Memory, call.d, call.s, call.n)
           /\ call.fn = "memset" => outcome.result = memset(Memory, call.s, call.c, call.n)
           /\ call.fn = "strcpy" => outcome.result = strcpy(Memory, call.d, call.s)
           /\ call.fn = "strnlen" => outcome.result = strnlen(Memory, call.s, call.n)
           /\ call.fn = "strncmp" => outcome.result = strncmp(Memory, call.s, call.t, call.n)
           /\ call.fn = "strchr" => outcome.result = strchr(Memory, call.s, call.c)
           /\ call.fn = "rand" => outcome.result = rand_r(call.seed)
           /\ call.fn = "gets" =>
                  outcome.result = gets(Memory, call.s, Len(call.answers), call.answers)

LEMMA ReturnedInvariant == Spec => []Returned
<1>1. Init => Returned
  BY DEF Init, Returned
<1>2. Returned /\ [Next]_vars => Returned'
  <2> SUFFICES ASSUME Returned, [Next]_vars PROVE Returned'
    OBVIOUS
  <2> USE DEF Returned, Is, Yields
  <2>1. CASE do_vsprintf
    BY <2>1 DEF do_vsprintf
  <2>2. CASE do_ustrtoul
    BY <2>2 DEF do_ustrtoul
  <2>3. CASE do_memcpy
    BY <2>3 DEF do_memcpy
  <2>4. CASE do_memset
    BY <2>4 DEF do_memset
  <2>5. CASE do_strcpy
    BY <2>5 DEF do_strcpy
  <2>6. CASE do_strnlen
    BY <2>6 DEF do_strnlen
  <2>7. CASE do_strncmp
    BY <2>7 DEF do_strncmp
  <2>8. CASE do_strchr
    BY <2>8 DEF do_strchr
  <2>9. CASE do_gets
    BY <2>9 DEF do_gets
  <2>10. CASE do_rand
    BY <2>10 DEF do_rand
  <2>11. CASE UNCHANGED vars
    BY <2>11 DEF vars
  <2> QED BY <2>1, <2>2, <2>3, <2>4, <2>5, <2>6, <2>7, <2>8, <2>9, <2>10, <2>11 DEF Next
<1> QED BY <1>1, <1>2, PTL DEF Spec

(***************************************************************************)
(* Every call of rand, with any seed of the type unsigned int, returns the *)
(* generator's next value, computes nothing that int32_t does not hold,    *)
(* and gives zero only to a multiple of M (rand.c:9-20).                   *)
(***************************************************************************)
THEOREM LibraryRandom == Spec => []IsLehmer
<1>1. Returned => IsLehmer
  <2> SUFFICES ASSUME Returned, After("rand") PROVE
          /\ IsNext(call.seed, outcome.result) /\ NoOverflow(call.seed)
          /\ outcome.result = 0 => X(call.seed) % M = 0
    BY DEF IsLehmer
  <2>1. call \in Calls /\ call.fn = "rand" /\ outcome.result = rand_r(call.seed)
    BY DEF Returned, After
  <2>2. call.seed \in Seed
    BY <2>1, LibraryAssumption DEF Calls, Seed
  <2> QED BY <2>1, <2>2, RandIsLehmer, NeverOverflows, ZeroIsSeeded
<1> QED BY <1>1, ReturnedInvariant, PTL

(***************************************************************************)
(* A nonempty set of naturals has a least element, so Min is in it.        *)
(***************************************************************************)
LEMMA LeastOfNaturals ==
    ASSUME NEW S \in SUBSET Nat, S # {}
    PROVE  Min(S) \in S /\ \A y \in S : Min(S) <= y
<1> DEFINE Less == {p \in Nat \X Nat : p[1] < p[2]}
<1>1. OpToRel(<, Nat) = Less
  BY DEF OpToRel
<1>2. IsWellFoundedOn(Less, Nat)
  BY <1>1, NatLessThanWellFounded
<1>3. PICK x \in S : \A y \in S : <<y, x>> \notin Less
  <2> HIDE DEF Less
  <2> QED BY <1>2, WFMin
<1>4. ASSUME NEW y \in S PROVE x <= y
  <2>1. x \in Nat /\ y \in Nat /\ ~ (y < x)
    BY <1>3
  <2> QED BY <2>1
<1> QED BY <1>3, <1>4 DEF Min

LineEnds(w) == {k \in 1 .. Len(w) : w[k] = NEWLINE}
LineLength(w) == IF LineEnds(w) = {} THEN Len(w) ELSE Min(LineEnds(w)) - 1

(* r is the memory m with the characters of w before its newline, or all   *)
(* of them, at s, and a NUL behind.                                        *)
HoldsLine(r, m, s, w) ==
    /\ \A k \in 1 .. LineLength(w) : r[s + k - 1] = w[k] % 256
    /\ \E a \in s + LineLength(w) .. s + LineLength(w) + (IF LineEnds(w) = {} THEN 1 ELSE 0) :
           /\ r[a] = 0
           /\ \A b \in DOMAIN m \ ((s .. s + LineLength(w) - 1) \cup {a}) : r[b] = m[b]

(* What gets leaves behind, on any memory and for any answers of getc. *)
LEMMA GetsWrites ==
    ASSUME NEW m, NEW s \in Nat, NEW answers \in Seq(Int),
           s .. s + Len(answers) + 1 \subseteq DOMAIN m
    PROVE  HoldsLine(gets(m, s, Len(answers), answers), m, s, answers)
<1> DEFINE ends == LineEnds(answers)
           last == LineLength(answers)
           r == gets(m, s, Len(answers), answers)
<1> HIDE DEF ends, last, r
<1> DEFINE n == Len(answers)
           taken == IF ends = {} THEN n ELSE Min(ends)
           i == index_behind(taken, ends # {})
           filled == [a \in DOMAIN m |->
                         IF a \in s .. s + taken - 1 THEN answers[a - s + 1] % 256 ELSE m[a]]
           nul == IF filled[s + i - 1] = NEWLINE THEN s + i - 1 ELSE s + i
<1>1. r = [filled EXCEPT ![nul] = 0]
  BY DEF gets, LineEnds, r, ends
<1>2. n \in Nat /\ s .. s + n + 1 \subseteq DOMAIN m
  OBVIOUS
<1> HIDE DEF n
<1>3. ends # {} => /\ Min(ends) \in 1 .. n /\ answers[Min(ends)] = NEWLINE
  <2>1. ends \in SUBSET Nat
    BY DEF n, LineEnds, ends
  <2> QED BY <2>1, LeastOfNaturals DEF n, LineEnds, ends
<1>4. last \in 0 .. n /\ taken \in 0 .. n /\ (ends = {} => taken = last)
      /\ (ends # {} => taken = last + 1 /\ answers[taken] = NEWLINE)
  <2>1. last = IF ends = {} THEN n ELSE Min(ends) - 1
    BY DEF n, LineLength, last, ends
  <2>2. CASE ends = {}
    BY ONLY <1>2, <2>1, <2>2
  <2>3. CASE ends # {}
    <3> DEFINE e == Min(ends)
    <3>1. e \in 1 .. n /\ answers[e] = NEWLINE /\ taken = e /\ last = e - 1
      BY <1>3, <2>1, <2>3
    <3> HIDE DEF e, taken
    <3> QED BY ONLY <1>2, <2>3, <3>1
  <2> QED BY <2>2, <2>3
<1> HIDE DEF taken
<1>5. DOMAIN filled = DOMAIN m
  OBVIOUS
<1>6. ASSUME NEW k \in 1 .. taken PROVE filled[s + k - 1] = answers[k] % 256
  <2>1. s + k - 1 \in DOMAIN m /\ s + k - 1 \in s .. s + taken - 1 /\ (s + k - 1) - s + 1 = k
    BY ONLY <1>2, <1>4, k \in 1 .. taken, s \in Nat
  <2> QED BY <2>1
<1>7. i = IF ends = {} THEN taken + 1 ELSE taken
  BY DEF index_behind
<1>8. nul \in s + last .. s + last + (IF ends = {} THEN 1 ELSE 0)
  <2>1. CASE ends = {}
    <3>1. nul = s + i - 1 \/ nul = s + i
      OBVIOUS
    <3> HIDE DEF nul, i
    <3>2. i = last + 1 /\ last \in Nat
      BY ONLY <1>4, <1>7, <2>1
    <3> QED BY ONLY <2>1, <3>1, <3>2, s \in Nat
  <2>2. CASE ends # {}
    <3>1. taken \in 1 .. taken /\ answers[taken] % 256 = NEWLINE
      BY <1>4, <2>2 DEF NEWLINE
    <3>2. filled[s + i - 1] = NEWLINE
      BY <1>6, <1>7, <2>2, <3>1
    <3>3. nul = s + i - 1
      BY <3>2
    <3>4. i = last + 1 /\ last \in Nat
      BY <1>4, <1>7, <2>2
    <3> HIDE DEF nul, i
    <3> QED BY ONLY <2>2, <3>3, <3>4, s \in Nat
  <2> QED BY <2>1, <2>2
<1> HIDE DEF nul, i
<1>9. nul \in DOMAIN m
  BY ONLY <1>2, <1>4, <1>8, s \in Nat
<1>10. ASSUME NEW k \in 1 .. last PROVE r[s + k - 1] = answers[k] % 256
  <2>1. k \in 1 .. taken /\ s + k - 1 # nul
    BY ONLY <1>4, <1>8, k \in 1 .. last, s \in Nat
  <2>2. s + k - 1 \in DOMAIN m
    BY ONLY <1>2, <1>4, k \in 1 .. last, s \in Nat
  <2>3. r[s + k - 1] = filled[s + k - 1]
    BY <1>1, <1>5, <2>1, <2>2
  <2> QED BY <1>6, <2>1, <2>3
<1>11. ASSUME NEW b \in DOMAIN m \ ((s .. s + last - 1) \cup {nul}) PROVE r[b] = m[b]
  <2>1. r[b] = filled[b]
    BY <1>1, <1>5
  <2>2. b \notin s .. s + taken - 1
    <3>1. CASE ends = {}
      <4>1. b \notin s .. s + last - 1
        OBVIOUS
      <4> QED BY <1>4, <3>1, <4>1
    <3>2. CASE ends # {}
      <4>1. nul = s + last
        BY ONLY <1>4, <1>8, <3>2, s \in Nat
      <4>2. b \notin (s .. s + last - 1) \cup {nul}
        OBVIOUS
      <4> QED BY ONLY <1>4, <3>2, <4>1, <4>2, s \in Nat
    <3> QED BY <3>1, <3>2
  <2> QED BY <2>1, <2>2
<1>12. r[nul] = 0
  BY <1>1, <1>5, <1>9
<1>13. \E a \in s + last .. s + last + (IF ends = {} THEN 1 ELSE 0) :
          /\ r[a] = 0
          /\ \A b \in DOMAIN m \ ((s .. s + last - 1) \cup {a}) : r[b] = m[b]
  BY ONLY <1>8, <1>11, <1>12
<1> QED BY ONLY <1>10, <1>13 DEF ends, last, r, HoldsLine

(***************************************************************************)
(* gets writes the line and its NUL, the NUL at most two cells behind the  *)
(* size it is given, and nothing else, for every memory, every place in    *)
(* it, and whatever getc answers (printk.c:9-29).                          *)
(***************************************************************************)
THEOREM LibraryGets == Spec => []GetsConfined
<1>1. Returned => GetsConfined
  <2> SUFFICES ASSUME Returned, After("gets") PROVE GetsConfined
    BY DEF GetsConfined
  <2>1. /\ call \in Calls /\ call.fn = "gets"
        /\ outcome.result = gets(Memory, call.s, Len(call.answers), call.answers)
    BY DEF Returned, After
  <2>2. /\ call.s \in DOMAIN Memory /\ call.answers \in Answers
        /\ Inside(call.s, Len(call.answers) + 2)
    BY <2>1 DEF Calls
  <2>3. call.s \in Nat /\ call.answers \in Seq(Int) /\ Len(call.answers) \in Nat
    BY <2>2, LibraryAssumption
  <2>4. call.s .. call.s + Len(call.answers) + 1 \subseteq DOMAIN Memory
    BY <2>2, <2>3 DEF Inside
  <2> DEFINE newline == LineEnds(call.answers)
             last == LineLength(call.answers)
             changed == {a \in DOMAIN Memory : outcome.result[a] # Memory[a]}
  <2>5. /\ \A k \in 1 .. last : outcome.result[call.s + k - 1] = call.answers[k] % 256
        /\ \E a \in call.s + last .. call.s + last + (IF newline = {} THEN 1 ELSE 0) :
               /\ outcome.result[a] = 0
               /\ \A b \in DOMAIN Memory \ ((call.s .. call.s + last - 1) \cup {a}) :
                      outcome.result[b] = Memory[b]
    <3>1. HoldsLine(outcome.result, Memory, call.s, call.answers)
      BY <2>1, <2>3, <2>4, GetsWrites
    <3> QED BY <3>1 DEF HoldsLine
  <2> HIDE DEF newline, last
  <2>6. \E a \in call.s + last .. call.s + last + (IF newline = {} THEN 1 ELSE 0) :
            outcome.result[a] = 0 /\ changed \subseteq (call.s .. call.s + last - 1) \cup {a}
    BY <2>5
  <2> QED BY <2>5, <2>6 DEF GetsConfined, newline, last, LineEnds, LineLength
<1> QED BY <1>1, ReturnedInvariant, PTL

-----------------------------------------------------------------------------
(* Counting up: what holds of 0 and of the next number of each it holds of. *)
LEMMA CountUp ==
    ASSUME NEW S \in SUBSET Nat, 0 \in S, \A j \in S : j + 1 \in S
    PROVE  S = Nat
<1> SUFFICES ASSUME Nat \ S # {} PROVE FALSE
  OBVIOUS
<1>1. PICK x : x = Min(Nat \ S)
  OBVIOUS
<1>2. x \in Nat \ S /\ \A y \in Nat \ S : x <= y
  BY <1>1, LeastOfNaturals
<1>3. x # 0 /\ x - 1 \in Nat /\ (x - 1) + 1 = x /\ ~ (x <= x - 1)
  BY <1>2
<1>4. x - 1 \in S
  BY <1>2, <1>3
<1> QED BY <1>2, <1>3, <1>4

IsMemory(m) == m = [a \in DOMAIN m |-> m[a]]

(* n bytes at s that may be moved to d, one after the other. *)
Movable(m, d, s, n) == s .. s + n - 1 \subseteq DOMAIN m /\ (d < s \/ s + n <= d)

(* A store behind another one, neither reading what they have written. *)
LEMMA StoreTwice ==
    ASSUME NEW m, NEW d \in Nat, NEW s \in Nat, NEW p \in Nat, NEW u \in Nat,
           NEW d2, NEW s2, NEW n, d2 = d + p, s2 = s + p, n = p + u, Movable(m, d, s, n)
    PROVE  Store(Store(m, d, s, p), d2, s2, u) = Store(m, d, s, n)
<1> DEFINE D == DOMAIN m
           m1 == Store(m, d, s, p)
<1>0. s .. s + (p + u) - 1 \subseteq D /\ (d < s \/ s + (p + u) <= d)
  BY DEF Movable
<1>1. DOMAIN m1 = D /\ \A a \in D : m1[a] = IF a \in d .. d + p - 1 THEN m[s + (a - d)] ELSE m[a]
  BY DEF Store
<1>2. Store(m1, d + p, s + p, u)
        = [a \in D |-> IF a \in d + p .. d + p + u - 1 THEN m1[s + p + (a - (d + p))] ELSE m1[a]]
  BY <1>1 DEF Store
<1>3. Store(m, d, s, p + u)
        = [a \in D |-> IF a \in d .. d + (p + u) - 1 THEN m[s + (a - d)] ELSE m[a]]
  BY DEF Store
<1> HIDE DEF m1, D
<1>4. ASSUME NEW a \in D
      PROVE  (IF a \in d + p .. d + p + u - 1 THEN m1[s + p + (a - (d + p))] ELSE m1[a])
                = (IF a \in d .. d + (p + u) - 1 THEN m[s + (a - d)] ELSE m[a])
  <2>1. CASE a \in d + p .. d + p + u - 1
    <3> DEFINE b == s + (a - d)
    <3>1. s + p + (a - (d + p)) = b /\ b \in D /\ b \notin d .. d + p - 1
      BY <1>0, <2>1
    <3>2. a \in d .. d + (p + u) - 1
      BY <2>1
    <3> HIDE DEF b
    <3>3. m1[b] = m[b]
      BY <1>1, <3>1
    <3> QED BY <2>1, <3>1, <3>2, <3>3 DEF b
  <2>2. CASE a \notin d + p .. d + p + u - 1
    <3>1. a \in d .. d + (p + u) - 1 <=> a \in d .. d + p - 1
      BY <2>2
    <3> QED BY <1>1, <2>2, <3>1
  <2> QED BY <2>1, <2>2
<1>5. Store(Store(m, d, s, p), d + p, s + p, u) = Store(m, d, s, p + u)
  BY <1>2, <1>3, <1>4 DEF m1, D
<1> QED BY <1>5

(* The first k units moved, and one store more. *)
Moved(m, d, s, u, k) == Store(m, d, s, k * u)
StoreUnit(mm, d, s, u, k) == Store(mm, d + k * u, s + k * u, u)

(* The first j units may be moved. *)
MovableUnits(m, d, s, u, j) == Movable(m, d, s, j * u)

LEMMA FewerUnits ==
    ASSUME NEW m, NEW d \in Nat, NEW s \in Nat, NEW u \in Nat, NEW n \in Nat,
           MovableUnits(m, d, s, u, n), NEW j \in 0 .. n
    PROVE  MovableUnits(m, d, s, u, j)
<1>1. PICK p, t : p = j * u /\ t = n * u
  OBVIOUS
<1>2. p \in Nat /\ t \in Nat /\ p <= t
  <2>1. n = j + (n - j) /\ n - j \in Nat
    OBVIOUS
  <2>2. n * u = j * u + (n - j) * u /\ (n - j) * u \in Nat /\ j * u \in Nat
    BY <2>1
  <2> QED BY <1>1, <2>2
<1>3. Movable(m, d, s, t)
  BY <1>1 DEF MovableUnits
<1>4. Movable(m, d, s, p)
  BY ONLY <1>2, <1>3, s \in Nat, d \in Nat DEF Movable
<1> QED BY <1>1, <1>4 DEF MovableUnits

LEMMA UnitMoved ==
    ASSUME NEW m, NEW d \in Nat, NEW s \in Nat, NEW u \in Nat, NEW k \in Nat, NEW j \in Nat,
           j = k + 1, MovableUnits(m, d, s, u, j)
    PROVE  StoreUnit(Moved(m, d, s, u, k), d, s, u, k) = Moved(m, d, s, u, j)
<1>1. PICK p : p = k * u
  OBVIOUS
<1>2. p \in Nat /\ j * u = p + u
  BY <1>1
<1>3. PICK q, d2, s2 : q = p + u /\ d2 = d + p /\ s2 = s + p
  OBVIOUS
<1>4. p \in Nat /\ q \in Nat
  BY ONLY <1>2, <1>3, u \in Nat
<1>5. Movable(m, d, s, q)
  BY <1>2, <1>3 DEF MovableUnits
<1>6. Store(Store(m, d, s, p), d2, s2, u) = Store(m, d, s, q)
  BY ONLY <1>3, <1>4, <1>5, StoreTwice, d \in Nat, s \in Nat, u \in Nat
<1>7. /\ StoreUnit(Moved(m, d, s, u, k), d, s, u, k) = Store(Store(m, d, s, p), d2, s2, u)
      /\ Moved(m, d, s, u, j) = Store(m, d, s, q)
  <2>1. k * u = p /\ d + k * u = d2 /\ s + k * u = s2 /\ j * u = q
    BY <1>1, <1>2, <1>3
  <2> QED BY ONLY <2>1 DEF StoreUnit, Moved
<1> QED BY ONLY <1>6, <1>7

(* A function that takes the memory through n stores. *)
Copies(f, m, d, s, u, n) ==
    f = [k \in 0 .. n |-> IF k = 0 THEN m ELSE StoreUnit(f[k - 1], d, s, u, k - 1)]

LEMMA CopiedIs ==
    ASSUME NEW m, IsMemory(m), NEW d \in Nat, NEW s \in Nat, NEW u \in Nat, NEW n \in Nat,
           MovableUnits(m, d, s, u, n)
    PROVE  Copied(m, d, s, u, n) = Moved(m, d, s, u, n)
<1> DEFINE g == [k \in 0 .. n |-> Moved(m, d, s, u, k)]
<1>1. ASSUME NEW k \in Nat, NEW j \in Nat, j = k + 1, j <= n
      PROVE  StoreUnit(Moved(m, d, s, u, k), d, s, u, k) = Moved(m, d, s, u, j)
  <2>1. MovableUnits(m, d, s, u, j)
    BY <1>1, FewerUnits
  <2> QED BY <1>1, <2>1, UnitMoved
<1>2. Moved(m, d, s, u, 0) = m
  <2>1. 0 * u = 0 /\ d .. d + 0 - 1 = {}
    OBVIOUS
  <2>2. Store(m, d, s, 0) = [a \in DOMAIN m |-> m[a]]
    BY <2>1 DEF Store
  <2> QED BY <2>1, <2>2 DEF IsMemory, Moved
<1>3. Copies(g, m, d, s, u, n)
  <2> DEFINE h == [k \in 0 .. n |-> IF k = 0 THEN m ELSE StoreUnit(g[k - 1], d, s, u, k - 1)]
  <2>1. ASSUME NEW k \in 0 .. n PROVE g[k] = h[k]
    <3>1. CASE k = 0
      BY <1>2, <3>1
    <3>2. CASE k # 0
      <4>1. PICK i \in Nat : i = k - 1 /\ k = i + 1 /\ i \in 0 .. n /\ k \in Nat /\ k <= n
        BY <3>2
      <4>2. g[i] = Moved(m, d, s, u, i)
        BY <4>1
      <4>3. StoreUnit(Moved(m, d, s, u, i), d, s, u, i) = Moved(m, d, s, u, k)
        BY <1>1, <4>1
      <4> QED BY <3>2, <4>1, <4>2, <4>3
    <3> QED BY <3>1, <3>2
  <2>2. g = h
    <3> HIDE DEF g, h
    <3>1. g = [k \in 0 .. n |-> g[k]] /\ h = [k \in 0 .. n |-> h[k]]
      BY DEF g, h
    <3> QED BY <2>1, <3>1
  <2> QED BY <2>2 DEF Copies
<1> DEFINE f == CHOOSE f : Copies(f, m, d, s, u, n)
<1> HIDE DEF g
<1>4. Copies(f, m, d, s, u, n)
  BY <1>3
<1>5. Copied(m, d, s, u, n) = f[n]
  BY DEF Copied, Copies, StoreUnit
<1> HIDE DEF f
<1> DEFINE S == {k \in Nat : k <= n => f[k] = Moved(m, d, s, u, k)}
<1>6. 0 \in S
  <2>1. f[0] = m
    BY <1>4 DEF Copies
  <2> QED BY <1>2, <2>1
<1>7. ASSUME NEW k \in S PROVE k + 1 \in S
  <2> SUFFICES ASSUME k + 1 <= n PROVE f[k + 1] = Moved(m, d, s, u, k + 1)
    OBVIOUS
  <2>1. PICK j \in Nat : j = k + 1 /\ j <= n /\ j \in 0 .. n /\ j - 1 = k /\ j # 0 /\ k \in Nat /\ k <= n
    OBVIOUS
  <2>2. f[j] = StoreUnit(f[k], d, s, u, k)
    BY <1>4, <2>1 DEF Copies
  <2>3. f[k] = Moved(m, d, s, u, k)
    BY <2>1
  <2>4. StoreUnit(Moved(m, d, s, u, k), d, s, u, k) = Moved(m, d, s, u, j)
    BY <1>1, <2>1
  <2> QED BY <2>1, <2>2, <2>3, <2>4
<1>8. S = Nat
  <2> HIDE DEF S
  <2>1. S \in SUBSET Nat
    BY DEF S
  <2> QED BY <1>6, <1>7, <2>1, CountUp
<1>9. n \in S
  BY <1>8
<1> QED BY <1>5, <1>9

LEMMA WordsFit ==
    ASSUME NEW aligned \in BOOLEAN, NEW count \in Nat
    PROVE  /\ words(aligned, count) \in Nat /\ words(aligned, count) * WordBytes \in 0 .. count
<1>1. WordBytes \in Nat \ {0}
  BY MachineAssumption
<1>2. count \div WordBytes \in Nat /\ (count \div WordBytes) * WordBytes \in 0 .. count
  BY <1>1
<1>3. 0 * WordBytes = 0
  BY <1>1
<1> QED BY <1>2, <1>3 DEF words

LEMMA MemcpyIs ==
    ASSUME NEW m, IsMemory(m), NEW d \in Nat, NEW s \in Nat, NEW count \in Nat,
           Movable(m, d, s, count)
    PROVE  memcpy(m, d, s, count) = Store(m, d, s, count)
<1> DEFINE w == words(d % WordBytes = 0 /\ s % WordBytes = 0, count)
           done == w * WordBytes
           m1 == Copied(m, d, s, WordBytes, w)
<1>1. WordBytes \in Nat /\ w \in Nat /\ done \in 0 .. count
  BY WordsFit, MachineAssumption
<1>2. memcpy(m, d, s, count) = Copied(m1, d + done, s + done, 1, count - done)
  BY DEF memcpy
<1> HIDE DEF w
<1>3. m1 = Store(m, d, s, done)
  <2> HIDE DEF done
  <2>1. Movable(m, d, s, done)
    BY <1>1 DEF Movable
  <2>2. MovableUnits(m, d, s, WordBytes, w)
    BY <2>1 DEF MovableUnits, done
  <2>3. m1 = Moved(m, d, s, WordBytes, w)
    BY <1>1, <2>2, CopiedIs
  <2> QED BY <2>3 DEF Moved, done
<1> HIDE DEF done, m1
<1>4. DOMAIN m1 = DOMAIN m /\ IsMemory(m1)
  BY <1>3 DEF Store, IsMemory
<1>5. /\ d + done \in Nat /\ s + done \in Nat /\ count - done \in Nat /\ done \in Nat
      /\ (count - done) * 1 = count - done /\ done + (count - done) = count
      /\ Movable(m1, d + done, s + done, count - done)
  BY <1>1, <1>4 DEF Movable
<1>6. Copied(m1, d + done, s + done, 1, count - done)
        = Store(m1, d + done, s + done, (count - done) * 1)
  <2> DEFINE dd == d + done
             ss == s + done
             nn == count - done
  <2>1. /\ dd \in Nat /\ ss \in Nat /\ nn \in Nat /\ 1 \in Nat /\ nn * 1 = nn
        /\ Movable(m1, dd, ss, nn)
    BY <1>5
  <2> HIDE DEF dd, ss, nn
  <2>2. Copied(m1, dd, ss, 1, nn) = Moved(m1, dd, ss, 1, nn)
    <3>1. MovableUnits(m1, dd, ss, 1, nn)
      BY <2>1 DEF MovableUnits
    <3> QED BY <1>4, <2>1, <3>1, CopiedIs
  <2> QED BY <2>1, <2>2 DEF dd, ss, nn, Moved
<1>7. Store(m1, d + done, s + done, count - done) = Store(m, d, s, count)
  <2> DEFINE nn == count - done
  <2>1. nn \in Nat /\ done + nn = count
    BY <1>5
  <2> HIDE DEF nn
  <2>2. Movable(m, d, s, done + nn)
    BY <2>1
  <2>3. Store(Store(m, d, s, done), d + done, s + done, nn) = Store(m, d, s, done + nn)
    <3>1. done \in Nat /\ nn \in Nat
      BY <1>5, <2>1
    <3> QED BY <2>2, <3>1, StoreTwice
  <2> QED BY <1>3, <2>1, <2>3 DEF nn
<1> QED BY <1>2, <1>5, <1>6, <1>7

LEMMA MinIs ==
    ASSUME NEW S \in SUBSET Int, NEW p \in S, \A y \in S : p <= y
    PROVE  Min(S) = p
<1>1. \A x \in S : (\A y \in S : x <= y) => x = p
  OBVIOUS
<1> QED BY <1>1 DEF Min

Least(a, b) == IF a <= b THEN a ELSE b

LEMMA MinOfTwo == ASSUME NEW a \in Int, NEW b \in Int PROVE Min({a, b}) = Least(a, b)
<1> DEFINE S == {a, b}
<1>1. S \in SUBSET Int /\ Least(a, b) \in S /\ \A y \in S : Least(a, b) <= y
  BY DEF Least
<1> HIDE DEF S
<1>2. Min(S) = Least(a, b)
  BY <1>1, MinIs
<1> QED BY <1>2 DEF S

-----------------------------------------------------------------------------
(* A string of n characters at s. *)
IsString(s, n) ==
    /\ n \in Nat /\ s .. s + n \subseteq DOMAIN Memory /\ Memory[s + n] = 0
    /\ \A k \in 0 .. n - 1 : Memory[s + k] \in 1 .. 255

LEMMA StringIs ==
    ASSUME NEW s \in DOMAIN Memory, HasString(s)
    PROVE  /\ IsString(s, strlen(Memory, s))
           /\ StringAt(s) = [k \in 1 .. strlen(Memory, s) |-> Memory[s + k - 1]]
           /\ strlen(Memory, s) = Min(NULs(Memory, s)) - s
<1> DEFINE D == DOMAIN Memory
           z == Min(NULs(Memory, s))
           n == strlen(Memory, s)
<1>1. /\ D \subseteq Nat /\ IsFiniteSet(D) /\ \A a, b \in D : a .. b \subseteq D
      /\ \A a \in D : Memory[a] \in 0 .. 255
  BY LibraryAssumption
<1>2. s \in Nat /\ s \in D
  BY <1>1
<1>3. NULs(Memory, s) = {a \in D : a >= s /\ Memory[a] = 0}
  BY DEF NULs
<1>4. z \in NULs(Memory, s) /\ \A a \in NULs(Memory, s) : z <= a
  <2>1. NULs(Memory, s) \in SUBSET Nat /\ NULs(Memory, s) # {}
    BY <1>1, <1>3 DEF HasString
  <2> QED BY <2>1, LeastOfNaturals
<1> HIDE DEF z, D
<1>5. z \in Nat /\ z \in D /\ z >= s /\ Memory[z] = 0
  BY <1>1, <1>3, <1>4
<1>6. n = z - s
  BY DEF strlen, z
<1> HIDE DEF n
<1>7. n \in Nat /\ s + n = z
  BY <1>2, <1>5, <1>6
<1>8. s .. s + n \subseteq D
  BY <1>1, <1>2, <1>5, <1>7
<1>9. ASSUME NEW k \in 0 .. n - 1 PROVE Memory[s + k] \in 1 .. 255
  <2>1. s + k \in D /\ s + k >= s /\ s + k < z
    BY <1>2, <1>7, <1>8
  <2>2. s + k \notin NULs(Memory, s)
    <3>1. \A a \in NULs(Memory, s) : ~ (a < z)
      BY <1>1, <1>3, <1>4, <1>5
    <3> QED BY <2>1, <3>1
  <2>3. Memory[s + k] # 0 /\ Memory[s + k] \in 0 .. 255
    BY <1>1, <1>3, <2>1, <2>2
  <2> QED BY <2>3
<1>10. IsString(s, n)
  BY <1>5, <1>7, <1>8, <1>9 DEF IsString, D
<1>11. n \in 0 .. Cardinality(D)
  <2>1. /\ Cardinality(D) \in Nat
    BY <1>1, FS_CardinalityType
  <2>2. Cardinality(s .. s + n) = n + 1
    <3>1. s + n \in Int /\ s \in Int /\ ~ (s > s + n) /\ (s + n) - s + 1 = n + 1
      BY <1>2, <1>7
    <3> QED BY <3>1, FS_Interval
  <2>3. Cardinality(s .. s + n) <= Cardinality(D)
    <3>1. s .. s + n \in SUBSET D
      BY <1>8
    <3> QED BY <1>1, <3>1, FS_Subset
  <2> QED BY <1>7, <2>1, <2>2, <2>3
<1> DEFINE Ends(i) == Memory[s + i] = 0 /\ \A k \in 0 .. i - 1 : Memory[s + k] # 0
<1>12. (CHOOSE i \in 0 .. Cardinality(D) : Ends(i)) = n
  <2>1. Ends(n)
    <3>1. \A k \in 0 .. n - 1 : Memory[s + k] # 0
      BY <1>9
    <3> QED BY <1>5, <1>7, <3>1
  <2>2. ASSUME NEW i \in 0 .. Cardinality(D), Ends(i) PROVE i = n
    <3>1. i \in Nat
      BY <1>1, FS_CardinalityType
    <3>2. CASE i < n
      <4>1. i \in 0 .. n - 1
        BY <1>7, <3>1, <3>2
      <4>2. Memory[s + i] # 0
        BY <1>9, <4>1
      <4> QED BY <2>2, <4>2
    <3>3. CASE n < i
      <4>1. n \in 0 .. i - 1
        BY <1>7, <3>1, <3>3
      <4> QED BY <1>5, <1>7, <2>2, <4>1
    <3> QED BY <1>7, <3>1, <3>2, <3>3
  <2> HIDE DEF Ends
  <2> QED BY <1>11, <2>1, <2>2
<1>13. StringAt(s) = [k \in 1 .. n |-> Memory[s + k - 1]]
  BY <1>12 DEF StringAt, D
<1> QED BY <1>6, <1>10, <1>13 DEF n, z

(* The characters of a string up to a count. *)
StartLength(a, n) == IF n < 0 THEN 0 ELSE Least(n, a)

LEMMA StartOfSequence ==
    ASSUME NEW S, NEW x \in Seq(S), NEW n \in Int
    PROVE  /\ StartLength(Len(x), n) \in 0 .. Len(x)
           /\ Start(x, n) \in Seq(S) /\ Len(Start(x, n)) = StartLength(Len(x), n)
           /\ \A k \in 1 .. StartLength(Len(x), n) : Start(x, n)[k] = x[k]
<1>1. PICK a \in Nat : a = Len(x)
  OBVIOUS
<1>2. Min({n, a}) = Least(n, a)
  BY MinOfTwo
<1>3. PICK p \in Int : p = Least(n, a)
  BY DEF Least
<1>4. Start(x, n) = SubSeq(x, 1, p)
  BY <1>1, <1>2, <1>3 DEF Start
<1>5. CASE n < 0
  <2>1. p < 0 /\ StartLength(a, n) = 0
    BY <1>3, <1>5 DEF Least, StartLength
  <2>2. SubSeq(x, 1, p) \in Seq(S) /\ Len(SubSeq(x, 1, p)) = 0
    BY <2>1
  <2> QED BY <1>1, <1>4, <2>1, <2>2
<1>6. CASE n >= 0
  <2>1. p \in 0 .. a /\ StartLength(a, n) = p
    BY <1>3, <1>6 DEF Least, StartLength
  <2>2. SubSeq(x, 1, p) \in Seq(S) /\ Len(SubSeq(x, 1, p)) = p
    BY <1>1, <2>1
  <2>3. \A k \in 1 .. p : SubSeq(x, 1, p)[k] = x[k]
    BY <1>1, <2>1
  <2> QED BY <1>1, <1>4, <2>1, <2>2, <2>3
<1> QED BY <1>5, <1>6

LEMMA StartIs ==
    ASSUME NEW s \in DOMAIN Memory, NEW a, IsString(s, a),
           StringAt(s) = [k \in 1 .. a |-> Memory[s + k - 1]], NEW n \in Int
    PROVE  /\ StringAt(s) \in Seq(1 .. 255) /\ Len(StringAt(s)) = a
           /\ StartLength(a, n) \in 0 .. a
           /\ Start(StringAt(s), n) \in Seq(1 .. 255)
           /\ Len(Start(StringAt(s), n)) = StartLength(a, n)
           /\ \A k \in 1 .. StartLength(a, n) : Start(StringAt(s), n)[k] = Memory[s + k - 1]
<1>1. s \in Nat
  BY LibraryAssumption
<1>2. a \in Nat /\ \A k \in 1 .. a : Memory[s + k - 1] \in 1 .. 255
  <2>1. a \in Nat /\ \A k \in 0 .. a - 1 : Memory[s + k] \in 1 .. 255
    BY DEF IsString
  <2>2. ASSUME NEW k \in 1 .. a PROVE Memory[s + k - 1] \in 1 .. 255
    <3>1. PICK j : j = k - 1
      OBVIOUS
    <3>2. j \in 0 .. a - 1 /\ s + j = s + k - 1
      BY <1>1, <2>1, <3>1
    <3> QED BY <2>1, <3>2
  <2> QED BY <2>1, <2>2
<1>3. PICK x : x = StringAt(s)
  OBVIOUS
<1>4. x \in Seq(1 .. 255) /\ Len(x) = a /\ \A k \in 1 .. a : x[k] = Memory[s + k - 1]
  BY <1>2, <1>3
<1>5. /\ StartLength(a, n) \in 0 .. a
      /\ Start(x, n) \in Seq(1 .. 255) /\ Len(Start(x, n)) = StartLength(a, n)
      /\ \A k \in 1 .. StartLength(a, n) : Start(x, n)[k] = x[k]
  BY <1>4, StartOfSequence
<1>6. ASSUME NEW k \in 1 .. StartLength(a, n) PROVE Start(x, n)[k] = Memory[s + k - 1]
  <2>1. k \in 1 .. a
    BY <1>2, <1>5
  <2> QED BY <1>4, <1>5, <2>1
<1> QED BY <1>3, <1>4, <1>5, <1>6

LEMMA PrefixIs ==
    ASSUME NEW S, NEW u \in Seq(S), NEW v \in Seq(S), NEW j \in 0 .. Len(v)
    PROVE  IsPrefix(SubSeq(v, 1, j), u) <=> j <= Len(u) /\ \A i \in 1 .. j : v[i] = u[i]
<1>1. PICK p : p = SubSeq(v, 1, j)
  OBVIOUS
<1>2. p \in Seq(S) /\ Len(p) = j /\ \A i \in 1 .. j : p[i] = v[i]
  BY <1>1
<1>3. SubSeq(p, 1, j) = p
  BY <1>2
<1>4. CASE j <= Len(u)
  <2>1. PICK q : q = SubSeq(u, 1, j)
    OBVIOUS
  <2>2. q \in Seq(S) /\ Len(q) = j /\ \A i \in 1 .. j : q[i] = u[i]
    BY <1>4, <2>1
  <2>3. p = q <=> \A i \in 1 .. j : p[i] = q[i]
    BY <1>2, <2>2
  <2>4. IsPrefix(p, u) <=> p = q
    BY <1>2, <1>3, <1>4, <2>1 DEF IsPrefix
  <2> QED BY <1>1, <1>2, <1>4, <2>2, <2>3, <2>4
<1>5. CASE ~ (j <= Len(u))
  BY <1>1, <1>2, <1>5 DEF IsPrefix
<1> QED BY <1>4, <1>5

LEMMA BeforeIs ==
    ASSUME NEW S, NEW u \in Seq(S), NEW v \in Seq(S)
    PROVE  Before(u, v) <=>
               \E j \in Nat : /\ j < Len(v) /\ j <= Len(u) /\ \A i \in 1 .. j : v[i] = u[i]
                              /\ Len(u) = j \/ u[j + 1] < v[j + 1]
<1>1. ASSUME Before(u, v)
      PROVE  \E j \in Nat : /\ j < Len(v) /\ j <= Len(u) /\ \A i \in 1 .. j : v[i] = u[i]
                            /\ Len(u) = j \/ u[j + 1] < v[j + 1]
  <2>1. PICK k \in 1 .. Len(v) : /\ IsPrefix(SubSeq(v, 1, k - 1), u)
                                 /\ Len(u) = k - 1 \/ u[k] < v[k]
    BY <1>1 DEF Before
  <2>2. PICK j \in Nat : j = k - 1 /\ k = j + 1 /\ j \in 0 .. Len(v) /\ j < Len(v)
    OBVIOUS
  <2>3. IsPrefix(SubSeq(v, 1, j), u)
    BY <2>1, <2>2
  <2>4. j <= Len(u) /\ \A i \in 1 .. j : v[i] = u[i]
    BY <2>2, <2>3, PrefixIs
  <2> QED BY <2>1, <2>2, <2>4
<1>2. ASSUME NEW j \in Nat, j < Len(v), j <= Len(u), \A i \in 1 .. j : v[i] = u[i],
             Len(u) = j \/ u[j + 1] < v[j + 1]
      PROVE  Before(u, v)
  <2>1. PICK k \in 1 .. Len(v) : k = j + 1 /\ j = k - 1
    BY <1>2
  <2>2. j \in 0 .. Len(v)
    BY <1>2
  <2>3. IsPrefix(SubSeq(v, 1, j), u)
    BY <1>2, <2>2, PrefixIs
  <2> QED BY <1>2, <2>1, <2>3 DEF Before
<1> QED BY <1>1, <1>2

-----------------------------------------------------------------------------
(* The characters before the j-th are the same, and none of them is a NUL. *)
Same(s, t, j) == \A i \in 0 .. j - 1 : Memory[s + i] = Memory[t + i] /\ Memory[s + i] # 0

(* r comes of a comparison that the count or the j-th characters ended.    *)
EndedByCount(r, s, a, t, b, n) == r = 0 /\ n <= a /\ n <= b /\ Same(s, t, n)
EndedAt(r, s, a, t, b, n, j) ==
    /\ j < n /\ j <= a /\ j <= b /\ Same(s, t, j)
    /\ Memory[s + j] # Memory[t + j] \/ Memory[s + j] = 0
    /\ r = Memory[s + j] - Memory[t + j]
Compared(r, s, a, t, b, n) ==
    EndedByCount(r, s, a, t, b, n) \/ \E j \in Nat : EndedAt(r, s, a, t, b, n, j)

LEMMA ComparisonEnds ==
    ASSUME NEW s \in DOMAIN Memory, NEW a, IsString(s, a), strlen(Memory, s) = a,
           NEW t \in DOMAIN Memory, NEW b, IsString(t, b), strlen(Memory, t) = b, NEW n \in Int
    PROVE  Compared(strncmp(Memory, s, t, n), s, a, t, b, n)
<1> DEFINE T == {n - 1, a, b}
           q == Min(T)
           stops == {k \in 0 .. q : Memory[s + k] # Memory[t + k] \/ Memory[s + k] = 0}
           r == strncmp(Memory, s, t, n)
<1>1. a \in Nat /\ b \in Nat /\ Memory[s + a] = 0 /\ Memory[t + b] = 0
  BY DEF IsString
<1>2. r = IF stops = {} THEN 0 ELSE Memory[s + Min(stops)] - Memory[t + Min(stops)]
  BY DEF strncmp
<1> HIDE DEF r
<1>3. q \in Int /\ q <= n - 1 /\ q <= a /\ q <= b /\ (q = n - 1 \/ q = a \/ q = b)
  <2> DEFINE p == Least(n - 1, Least(a, b))
  <2>1. T \in SUBSET Int /\ p \in T /\ \A y \in T : p <= y
    BY <1>1 DEF Least
  <2> HIDE DEF T, p
  <2>2. q = p
    BY <2>1, MinIs
  <2> QED BY <1>1, <2>2 DEF p, Least
<1> HIDE DEF q
<1>4. CASE stops = {}
  <2>1. \A k \in 0 .. q : Memory[s + k] = Memory[t + k] /\ Memory[s + k] # 0
    BY <1>4
  <2>2. q < 0 => n <= 0
    BY <1>1, <1>3
  <2>3. q >= 0 => q # a /\ q # b
    <3> SUFFICES ASSUME q >= 0 PROVE q # a /\ q # b
      OBVIOUS
    <3>1. q \in 0 .. q
      BY <1>3
    <3>2. Memory[s + q] = Memory[t + q] /\ Memory[s + q] # 0
      BY <2>1, <3>1
    <3> QED BY <1>1, <3>2
  <2>4. n <= a /\ n <= b
    BY <1>1, <1>3, <2>2, <2>3
  <2>5. Same(s, t, n)
    <3>1. \A i \in 0 .. n - 1 : i \in 0 .. q
      BY <1>1, <1>3, <2>2, <2>3
    <3> QED BY <2>1, <3>1 DEF Same
  <2> QED BY <1>2, <1>4, <2>4, <2>5 DEF Compared, EndedByCount, r
<1>5. CASE stops # {}
  <2>1. PICK j : j = Min(stops)
    OBVIOUS
  <2>2. j \in stops /\ \A y \in stops : j <= y
    <3>1. stops \in SUBSET Nat
      BY <1>3
    <3> HIDE DEF stops
    <3> QED BY <1>5, <2>1, <3>1, LeastOfNaturals
  <2>3. /\ j \in Nat /\ j <= q
        /\ (Memory[s + j] # Memory[t + j] \/ Memory[s + j] = 0)
    BY <1>3, <2>2
  <2>4. Same(s, t, j)
    <3>1. ASSUME NEW i \in 0 .. j - 1 PROVE Memory[s + i] = Memory[t + i] /\ Memory[s + i] # 0
      <4>1. i \in 0 .. q /\ ~ (j <= i)
        BY <1>3, <2>3
      <4>2. i \notin stops
        BY <2>2, <4>1
      <4> QED BY <4>1, <4>2
    <3> QED BY <3>1 DEF Same
  <2>5. j < n /\ j <= a /\ j <= b
    BY <1>1, <1>3, <2>3
  <2>6. r = Memory[s + j] - Memory[t + j]
    BY <1>2, <1>5, <2>1
  <2>7. EndedAt(r, s, a, t, b, n, j)
    BY <2>3, <2>4, <2>5, <2>6 DEF EndedAt
  <2>8. Compared(r, s, a, t, b, n)
    BY <2>3, <2>7 DEF Compared
  <2> QED BY <2>8 DEF r
<1> QED BY <1>4, <1>5

(* What the other way round compares to. *)
LEMMA ComparedBack ==
    ASSUME NEW s \in DOMAIN Memory, NEW a, IsString(s, a),
           NEW t \in DOMAIN Memory, NEW b, IsString(t, b), NEW n \in Int, NEW r,
           Compared(r, s, a, t, b, n)
    PROVE  r \in Int /\ Compared(0 - r, t, b, s, a, n)
<1>1. \A i : Same(s, t, i) => Same(t, s, i)
  BY DEF Same
<1>2. CASE EndedByCount(r, s, a, t, b, n)
  <2>1. r = 0 /\ 0 - r = 0 /\ n <= a /\ n <= b /\ Same(s, t, n)
    <3>1. r = 0 /\ n <= a /\ n <= b /\ Same(s, t, n)
      BY <1>2 DEF EndedByCount
    <3>2. 0 - 0 = 0
      OBVIOUS
    <3>3. 0 - r = 0
      BY ONLY <3>1, <3>2
    <3> QED BY <3>1, <3>3
  <2>2. EndedByCount(0 - r, t, b, s, a, n)
    BY <1>1, <2>1 DEF EndedByCount
  <2> QED BY <2>1, <2>2 DEF Compared
<1>3. ASSUME NEW j \in Nat, EndedAt(r, s, a, t, b, n, j)
      PROVE  r \in Int /\ Compared(0 - r, t, b, s, a, n)
  <2>1. Memory[s + j] \in Int /\ Memory[t + j] \in Int
    <3>1. s \in Nat /\ t \in Nat /\ \A x \in DOMAIN Memory : Memory[x] \in 0 .. 255
      BY LibraryAssumption
    <3>2. s + j \in DOMAIN Memory /\ t + j \in DOMAIN Memory
      BY <1>3, <3>1 DEF EndedAt, IsString
    <3> QED BY <3>1, <3>2
  <2>2. r = Memory[s + j] - Memory[t + j]
    BY <1>3 DEF EndedAt
  <2>3. r \in Int /\ 0 - r = Memory[t + j] - Memory[s + j]
    BY <2>1, <2>2
  <2>4. EndedAt(0 - r, t, b, s, a, n, j)
    BY <1>1, <1>3, <2>3 DEF EndedAt
  <2> QED BY <2>3, <2>4 DEF Compared
<1> QED BY <1>2, <1>3 DEF Compared

(* x is what of the string of a characters at s the count n lets be seen. *)
StartOf(x, s, a, n) ==
    /\ x \in Seq(1 .. 255) /\ Len(x) = StartLength(a, n)
    /\ \A i \in 0 .. StartLength(a, n) - 1 : x[i + 1] = Memory[s + i]

LEMMA StartIsStartOf ==
    ASSUME NEW s \in DOMAIN Memory, NEW a, IsString(s, a),
           StringAt(s) = [k \in 1 .. a |-> Memory[s + k - 1]], NEW n \in Int
    PROVE  StartOf(Start(StringAt(s), n), s, a, n)
<1>1. PICK x : x = Start(StringAt(s), n)
  OBVIOUS
<1>2. /\ StartLength(a, n) \in 0 .. a /\ x \in Seq(1 .. 255) /\ Len(x) = StartLength(a, n)
      /\ \A k \in 1 .. StartLength(a, n) : x[k] = Memory[s + k - 1]
  BY <1>1, StartIs
<1>3. s \in Nat /\ a \in Nat
  BY LibraryAssumption DEF IsString
<1>4. ASSUME NEW i \in 0 .. StartLength(a, n) - 1 PROVE x[i + 1] = Memory[s + i]
  <2>1. PICK k : k = i + 1
    OBVIOUS
  <2>2. k \in 1 .. StartLength(a, n) /\ s + k - 1 = s + i
    BY <1>2, <1>3, <2>1
  <2> QED BY <1>2, <2>1, <2>2
<1>5. x \in Seq(1 .. 255)
  BY <1>2
<1> QED BY <1>1, <1>2, <1>4, <1>5 DEF StartOf

LEMMA LessIs ==
    ASSUME NEW s \in DOMAIN Memory, NEW a, IsString(s, a),
           NEW t \in DOMAIN Memory, NEW b, IsString(t, b), NEW n \in Int, NEW r,
           NEW x, StartOf(x, s, a, n), NEW y, StartOf(y, t, b, n),
           Compared(r, s, a, t, b, n)
    PROVE  r < 0 <=> Before(x, y)
<1>1. /\ a \in Nat /\ Memory[s + a] = 0 /\ \A k \in 0 .. a - 1 : Memory[s + k] \in 1 .. 255
      /\ b \in Nat /\ Memory[t + b] = 0 /\ \A k \in 0 .. b - 1 : Memory[t + k] \in 1 .. 255
  BY DEF IsString
<1>2. PICK la, lb : la = StartLength(a, n) /\ lb = StartLength(b, n)
  OBVIOUS
<1>3. /\ x \in Seq(1 .. 255) /\ Len(x) = la /\ \A i \in 0 .. la - 1 : x[i + 1] = Memory[s + i]
      /\ y \in Seq(1 .. 255) /\ Len(y) = lb /\ \A i \in 0 .. lb - 1 : y[i + 1] = Memory[t + i]
  BY <1>2 DEF StartOf
<1>4. /\ la \in 0 .. a /\ lb \in 0 .. b /\ (n < 0 => la = 0 /\ lb = 0)
      /\ (n >= 0 => (la = n \/ la = a) /\ (lb = n \/ lb = b) /\ la <= n /\ lb <= n)
  BY <1>1, <1>2 DEF StartLength, Least
<1>5. Before(x, y) <=>
          \E j \in Nat : /\ j < lb /\ j <= la /\ \A i \in 1 .. j : y[i] = x[i]
                         /\ la = j \/ x[j + 1] < y[j + 1]
  <2>1. PICK S : S = 1 .. 255
    OBVIOUS
  <2>2. x \in Seq(S) /\ y \in Seq(S)
    BY <1>3, <2>1
  <2>3. Before(x, y) <=>
            \E j \in Nat : /\ j < Len(y) /\ j <= Len(x) /\ \A i \in 1 .. j : y[i] = x[i]
                           /\ Len(x) = j \/ x[j + 1] < y[j + 1]
    BY ONLY <2>2, BeforeIs
  <2> QED BY <1>3, <2>3
<1>6. CASE EndedByCount(r, s, a, t, b, n)
  <2>1. r = 0 /\ n <= a /\ n <= b /\ \A i \in 0 .. n - 1 : Memory[s + i] = Memory[t + i]
    BY <1>6 DEF EndedByCount, Same
  <2>2. la = lb /\ (la = 0 \/ la = n)
    BY <1>1, <1>4, <2>1
  <2>3. ASSUME NEW j \in Nat, j < lb, la = j \/ x[j + 1] < y[j + 1] PROVE FALSE
    <3>1. j \in 0 .. la - 1 /\ j \in 0 .. lb - 1 /\ j \in 0 .. n - 1 /\ j \in 0 .. a - 1 /\ la # j
      BY <1>1, <1>4, <2>1, <2>2, <2>3
    <3>2. x[j + 1] = Memory[s + j] /\ y[j + 1] = Memory[t + j] /\ Memory[s + j] = Memory[t + j]
      BY <1>3, <2>1, <3>1
    <3>3. Memory[s + j] \in 1 .. 255
      BY <1>1, <3>1
    <3> QED BY <2>3, <3>1, <3>2, <3>3
  <2>4. ~ (r < 0)
    BY <2>1
  <2> QED BY <1>5, <2>3, <2>4
<1>7. ASSUME NEW j \in Nat, EndedAt(r, s, a, t, b, n, j)
      PROVE  r < 0 <=> Before(x, y)
  <2>1. /\ j < n /\ j <= a /\ j <= b /\ r = Memory[s + j] - Memory[t + j]
        /\ (Memory[s + j] # Memory[t + j] \/ Memory[s + j] = 0)
        /\ \A i \in 0 .. j - 1 : Memory[s + i] = Memory[t + i] /\ Memory[s + i] # 0
    BY <1>7 DEF EndedAt, Same
  <2>2. /\ j <= la /\ j <= lb /\ (j = la <=> j = a) /\ (j = lb <=> j = b)
    BY <1>1, <1>4, <2>1
  <2>3. /\ Memory[s + j] \in 0 .. 255 /\ (j = a <=> Memory[s + j] = 0)
        /\ Memory[t + j] \in 0 .. 255 /\ (j = b <=> Memory[t + j] = 0)
    <3>1. j = a => Memory[s + j] = 0
      BY <1>1
    <3>2. j # a => Memory[s + j] \in 1 .. 255
      <4>1. j # a => j \in 0 .. a - 1
        BY <1>1, <2>1
      <4> QED BY <1>1, <4>1
    <3>3. j = b => Memory[t + j] = 0
      BY <1>1
    <3>4. j # b => Memory[t + j] \in 1 .. 255
      <4>1. j # b => j \in 0 .. b - 1
        BY <1>1, <2>1
      <4> QED BY <1>1, <4>1
    <3> QED BY <3>1, <3>2, <3>3, <3>4
  <2>4. ASSUME NEW i \in Nat, i < la, i < lb
        PROVE x[i + 1] = Memory[s + i] /\ y[i + 1] = Memory[t + i]
    <3>1. i \in 0 .. la - 1 /\ i \in 0 .. lb - 1
      BY <1>4, <2>4
    <3> QED BY <1>3, <3>1
  <2>5. r < 0 <=> Memory[s + j] < Memory[t + j]
    <3>1. PICK c, d : c = Memory[s + j] /\ d = Memory[t + j]
      OBVIOUS
    <3>2. c \in Int /\ d \in Int /\ r = c - d
      BY <2>1, <2>3, <3>1
    <3>3. r < 0 <=> c < d
      BY ONLY <3>2
    <3> QED BY <3>1, <3>3
  <2>6. ASSUME r < 0 PROVE Before(x, y)
    <3>1. Memory[s + j] < Memory[t + j] /\ j < lb
      <4>1. Memory[s + j] < Memory[t + j]
        BY <2>6, <2>5
      <4>2. Memory[t + j] # 0
        BY <2>3, <4>1
      <4> QED BY <1>4, <2>2, <2>3, <4>1, <4>2
    <3>2. ASSUME NEW i \in 1 .. j PROVE y[i] = x[i]
      <4>1. PICK k \in Nat : k = i - 1 /\ k + 1 = i /\ k < la /\ k < lb /\ k \in 0 .. j - 1
        BY <1>4, <2>2
      <4> QED BY <2>1, <2>4, <4>1
    <3>3. la = j \/ x[j + 1] < y[j + 1]
      <4>1. CASE j < la
        <5>1. x[j + 1] = Memory[s + j] /\ y[j + 1] = Memory[t + j]
          BY <2>4, <3>1, <4>1
        <5> QED BY <3>1, <5>1
      <4> QED BY <1>4, <2>2, <4>1
    <3> QED BY <1>5, <2>2, <3>1, <3>2, <3>3
  <2>7. ASSUME Before(x, y) PROVE r < 0
    <3>1. PICK i \in Nat : /\ i < lb /\ i <= la /\ \A k \in 1 .. i : y[k] = x[k]
                           /\ la = i \/ x[i + 1] < y[i + 1]
      BY <1>5, <2>7
    <3>2. CASE i < j
      <4>1. i \in 0 .. j - 1 /\ i < la /\ la # i
        BY <1>4, <2>2, <3>2
      <4>2. x[i + 1] = Memory[s + i] /\ y[i + 1] = Memory[t + i]
        BY <2>4, <3>1, <4>1
      <4>3. i \in 0 .. a - 1
        BY <1>1, <2>1, <4>1
      <4>4. Memory[s + i] = Memory[t + i] /\ Memory[s + i] \in 1 .. 255
        BY <1>1, <2>1, <4>1, <4>3
      <4> QED BY <3>1, <4>1, <4>2, <4>4
    <3>3. CASE i = j
      <4>1. Memory[t + j] # 0
        BY <2>2, <2>3, <3>1, <3>3
      <4>2. CASE la = j
        <5>1. Memory[s + j] = 0
          BY <2>2, <2>3, <4>2
        <5> QED BY <2>3, <2>5, <4>1, <5>1
      <4>3. CASE la # j
        <5>1. j < la
          BY <1>4, <2>2, <4>3
        <5>2. x[j + 1] = Memory[s + j] /\ y[j + 1] = Memory[t + j]
          BY <2>4, <3>1, <3>3, <5>1
        <5> QED BY <2>5, <3>1, <3>3, <4>3, <5>2
      <4> QED BY <4>2, <4>3
    <3>4. CASE j < i
      <4>1. j < la /\ j < lb /\ j + 1 \in 1 .. i
        BY <1>4, <3>1, <3>4
      <4>2. x[j + 1] = Memory[s + j] /\ y[j + 1] = Memory[t + j]
        BY <2>4, <4>1
      <4>3. y[j + 1] = x[j + 1]
        BY <3>1, <4>1
      <4> QED BY <2>1, <2>2, <2>3, <4>1, <4>2, <4>3
    <3> QED BY <3>2, <3>3, <3>4
  <2> QED BY <2>6, <2>7
<1> QED BY <1>6, <1>7 DEF Compared

(* strncmp is below, at or above zero as the starts of the strings are. *)
LEMMA StrncmpIs ==
    ASSUME NEW s \in DOMAIN Memory, HasString(s), NEW t \in DOMAIN Memory, HasString(t),
           NEW n \in Int
    PROVE  LET r == strncmp(Memory, s, t, n)
               x == Start(StringAt(s), n)
               y == Start(StringAt(t), n)
           IN  (r < 0 <=> Before(x, y)) /\ (r > 0 <=> Before(y, x))
<1>1. PICK r, x, y, a, b :
          /\ r = strncmp(Memory, s, t, n) /\ x = Start(StringAt(s), n) /\ y = Start(StringAt(t), n)
          /\ a = strlen(Memory, s) /\ b = strlen(Memory, t)
  OBVIOUS
<1>2. /\ IsString(s, a) /\ StringAt(s) = [k \in 1 .. a |-> Memory[s + k - 1]]
      /\ IsString(t, b) /\ StringAt(t) = [k \in 1 .. b |-> Memory[t + k - 1]]
  BY <1>1, StringIs
<1>3. StartOf(x, s, a, n) /\ StartOf(y, t, b, n)
  BY <1>1, <1>2, StartIsStartOf
<1>4. Compared(r, s, a, t, b, n)
  BY <1>1, <1>2, ComparisonEnds
<1>5. PICK q : q = 0 - r
  OBVIOUS
<1>6. r \in Int /\ Compared(q, t, b, s, a, n)
  BY <1>2, <1>4, <1>5, ComparedBack
<1>7. (r < 0 <=> Before(x, y)) /\ (q < 0 <=> Before(y, x))
  BY <1>2, <1>3, <1>4, <1>6, LessIs
<1>8. q < 0 <=> r > 0
  BY <1>5, <1>6
<1> QED BY <1>1, <1>7, <1>8

(* strnlen counts the characters up to the NUL or the count. *)
LEMMA StrnlenIs ==
    ASSUME NEW s \in DOMAIN Memory, HasString(s), NEW n \in Int
    PROVE  strnlen(Memory, s, n) = Len(IF n < 0 THEN StringAt(s) ELSE Start(StringAt(s), n))
<1> DEFINE N == NULs(Memory, s)
<1>1. PICK a, z : a = strlen(Memory, s) /\ z = Min(N)
  OBVIOUS
<1>2. /\ IsString(s, a) /\ StringAt(s) = [k \in 1 .. a |-> Memory[s + k - 1]] /\ a = z - s
  BY <1>1, StringIs
<1>3. s \in Nat /\ a \in Nat /\ DOMAIN Memory \subseteq Nat
  BY <1>2, LibraryAssumption DEF IsString
<1>4. Len(StringAt(s)) = a /\ Len(Start(StringAt(s), n)) = StartLength(a, n)
  BY <1>2, StartIs
<1>5. N \in SUBSET Int /\ z \in N /\ \A y \in N : z <= y
  <2>1. N \in SUBSET Nat /\ N # {}
    BY <1>3 DEF NULs, HasString
  <2>2. N \in SUBSET Int
    BY <2>1
  <2> QED BY <1>1, <2>1, <2>2, LeastOfNaturals
<1>6. z = s + a
  BY <1>2, <1>3, <1>5
<1>7. CASE n < 0
  <2>1. strnlen(Memory, s, n) = Min(N \cup {}) - s
    BY <1>7 DEF strnlen
  <2>2. N \cup {} = N
    OBVIOUS
  <2> QED BY <1>1, <1>2, <1>4, <1>7, <2>1, <2>2
<1>8. CASE ~ (n < 0)
  <2>0. PICK e \in Int : e = s + n
    BY <1>3
  <2>1. PICK T : T = N \cup {e}
    OBVIOUS
  <2>2. strnlen(Memory, s, n) = Min(T) - s
    BY <1>8, <2>0, <2>1 DEF strnlen
  <2>3. PICK l \in Int : l = Least(e, z)
    BY <1>3, <1>6 DEF Least
  <2>4. T \in SUBSET Int /\ l \in T /\ \A y \in T : l <= y
    <3> HIDE DEF N
    <3>1. \A y \in T : y = e \/ (y \in N /\ y \in Int /\ z <= y)
      BY <1>5, <2>1
    <3>2. l <= e /\ l <= z /\ (l = e \/ l = z) /\ z \in Int
      BY <1>3, <1>6, <2>3 DEF Least
    <3>3. l \in T
      BY <1>5, <2>1, <3>2
    <3>4. ASSUME NEW y \in T PROVE y \in Int /\ l <= y
      BY <3>1, <3>2
    <3>5. T \in SUBSET Int
      BY <3>4
    <3> QED BY <3>3, <3>4, <3>5
  <2>5. Min(T) = l
    BY <2>4, MinIs
  <2>6. l - s = StartLength(a, n)
    BY <1>3, <1>6, <1>8, <2>0, <2>3 DEF Least, StartLength
  <2> QED BY <1>4, <1>8, <2>2, <2>5, <2>6
<1> QED BY <1>7, <1>8

(* A char and its byte, for the characters that are looked for. *)
Sought == {-56, 0, 1, 65}

LEMMA CharIs ==
    ASSUME NEW c \in Sought, NEW y \in 0 .. 255
    PROVE  /\ c % 256 \in 0 .. 255
           /\ Char(y) = c <=> y = c % 256
  BY SMTT(60) DEF Char, Sought

(* The place of the first c of the string at s, its NUL included, or 0. *)
Finds(place, s, c) ==
    LET u == Append(StringAt(s), 0)
        r == place - s + 1
    IN  IF c % 256 \in ToSet(u)
        THEN u[r] = c % 256 /\ c % 256 \notin ToSet(SubSeq(u, 1, r - 1))
        ELSE place = 0

LEMMA StrchrIs ==
    ASSUME NEW s \in DOMAIN Memory, HasString(s), NEW c \in Sought
    PROVE  Finds(strchr(Memory, s, c), s, c)
<1>1. PICK a, x, b : a = strlen(Memory, s) /\ x = StringAt(s) /\ b = c % 256
  OBVIOUS
<1>2. IsString(s, a) /\ x = [k \in 1 .. a |-> Memory[s + k - 1]]
  BY <1>1, StringIs
<1>3. x \in Seq(1 .. 255) /\ Len(x) = a
  <2>1. StringAt(s) = [k \in 1 .. a |-> Memory[s + k - 1]] /\ 0 \in Int
    BY <1>1, <1>2
  <2>2. StringAt(s) \in Seq(1 .. 255) /\ Len(StringAt(s)) = a
    BY <1>2, <2>1, StartIs
  <2> QED BY <1>1, <2>2
<1>4. s \in Nat /\ a \in Nat /\ Memory[s + a] = 0 /\ s .. s + a \subseteq DOMAIN Memory
  BY <1>2, LibraryAssumption DEF IsString
<1>5. PICK u : u = Append(x, 0)
  OBVIOUS
<1>6. /\ u \in Seq(0 .. 255) /\ Len(u) = a + 1 /\ DOMAIN u = 1 .. a + 1
      /\ \A k \in 1 .. a + 1 : u[k] = Memory[s + k - 1]
  <2>1. x \in Seq(0 .. 255)
    BY <1>3
  <2>2. u \in Seq(0 .. 255) /\ Len(u) = a + 1 /\ u[a + 1] = 0 /\ \A k \in 1 .. a : u[k] = x[k]
    BY <1>3, <1>4, <1>5, <2>1
  <2>3. (a + 1) - 1 = a /\ s + (a + 1) - 1 = s + a
    BY <1>4
  <2>4. DOMAIN u = 1 .. a + 1
    BY <2>2
  <2> QED BY <1>2, <1>4, <2>2, <2>3, <2>4
<1> DEFINE found == {i \in s .. s + a : Char(Memory[i]) = c}
<1>7. strchr(Memory, s, c) = IF found = {} THEN 0 ELSE Min(found)
  BY <1>1 DEF strchr
<1>8. ASSUME NEW i \in s .. s + a
      PROVE  i \in found <=> Memory[i] = b
  <2>1. Memory[i] \in 0 .. 255
    BY <1>4, LibraryAssumption
  <2> QED BY <1>1, <2>1, CharIs
<1>9. found \in SUBSET Nat /\ found \subseteq s .. s + a
  BY <1>4
<1> HIDE DEF found
<1>10. ASSUME NEW k \in 1 .. a + 1 PROVE s + k - 1 \in found <=> u[k] = b
  <2>1. s + k - 1 \in s .. s + a
    BY <1>4
  <2>2. PICK i : i = s + k - 1
    OBVIOUS
  <2>3. i \in s .. s + a /\ u[k] = Memory[i]
    BY <1>6, <2>1, <2>2
  <2> QED BY <1>8, <2>2, <2>3
<1>11. CASE found = {}
  <2>1. b \notin ToSet(u)
    BY <1>6, <1>10, <1>11 DEF ToSet
  <2> QED BY <1>1, <1>5, <1>7, <1>11, <2>1 DEF Finds
<1>12. CASE found # {}
  <2>1. PICK i : i = Min(found)
    OBVIOUS
  <2>2. i \in found /\ i \in s .. s + a /\ \A y \in found : i <= y
    BY <1>9, <1>12, <2>1, LeastOfNaturals
  <2>3. PICK k \in 1 .. a + 1 : k = i - s + 1 /\ i = s + k - 1
    BY <1>4, <2>2
  <2>4. u[k] = b
    BY <1>10, <2>2, <2>3
  <2>5. b \in ToSet(u)
    BY <1>6, <2>4 DEF ToSet
  <2>6. PICK p : p = SubSeq(u, 1, k - 1)
    OBVIOUS
  <2>7. DOMAIN p = 1 .. k - 1 /\ \A j \in 1 .. k - 1 : p[j] = u[j]
    BY <1>6, <2>6
  <2>8. ASSUME NEW j \in 1 .. k - 1 PROVE p[j] # b
    <3>1. j \in 1 .. a + 1 /\ ~ (i <= s + j - 1)
      BY <1>4, <2>3
    <3>2. s + j - 1 \notin found
      BY <2>2, <3>1
    <3> QED BY <1>10, <2>7, <3>1, <3>2
  <2>9. b \notin ToSet(p)
    BY <2>7, <2>8 DEF ToSet
  <2>10. strchr(Memory, s, c) - s + 1 = k
    BY <1>7, <1>12, <2>1, <2>3
  <2> QED BY <1>1, <1>5, <2>4, <2>5, <2>6, <2>9, <2>10 DEF Finds
<1> QED BY <1>11, <1>12

(* A store that starts at z, where the one before it ends: one of w bytes. *)
Joined(s, p, u, z, w) == s \in Nat /\ p \in Nat /\ u \in Nat /\ z = s + p /\ w = p + u

LEMMA FillTwice ==
    ASSUME NEW m, NEW s, NEW c, NEW p, NEW u, NEW z, NEW w, Joined(s, p, u, z, w)
    PROVE  Fill(Fill(m, s, c, p), z, c, u) = Fill(m, s, c, w)
<1> DEFINE m1 == Fill(m, s, c, p)
<1>1. DOMAIN m1 = DOMAIN m /\ \A a \in DOMAIN m : m1[a] = IF a \in s .. s + p - 1 THEN c % 256 ELSE m[a]
  BY DEF Fill
<1>2. Fill(m1, z, c, u) = [a \in DOMAIN m1 |-> IF a \in z .. z + u - 1 THEN c % 256 ELSE m1[a]]
  BY DEF Fill
<1>3. Fill(m, s, c, w) = [a \in DOMAIN m |-> IF a \in s .. s + w - 1 THEN c % 256 ELSE m[a]]
  BY DEF Fill
<1>4. \A a : a \in s .. s + w - 1 <=> a \in s .. s + p - 1 \/ a \in z .. z + u - 1
  BY DEF Joined
<1> HIDE DEF m1
<1>5. Fill(m1, z, c, u) = Fill(m, s, c, w)
  BY <1>1, <1>2, <1>3, <1>4
<1> QED BY <1>5 DEF m1

(* The first k units set, and one store more. *)
FilledUnits(m, s, c, u, k) == Fill(m, s, c, k * u)
FillUnit(mm, s, c, u, k) == Fill(mm, s + k * u, c, u)

LEMMA UnitFilled ==
    ASSUME NEW m, NEW s \in Nat, NEW c, NEW u \in Nat, NEW k \in Nat, NEW j \in Nat, j = k + 1
    PROVE  FillUnit(FilledUnits(m, s, c, u, k), s, c, u, k) = FilledUnits(m, s, c, u, j)
<1>1. PICK p, z, w : p = k * u /\ z = s + p /\ w = p + u
  OBVIOUS
<1>2. p \in Nat /\ j * u = w
  BY <1>1
<1>3. Fill(Fill(m, s, c, p), z, c, u) = Fill(m, s, c, w)
  <2>1. Joined(s, p, u, z, w)
    BY <1>1, <1>2 DEF Joined
  <2> QED BY ONLY <2>1, FillTwice
<1>4. /\ FillUnit(FilledUnits(m, s, c, u, k), s, c, u, k) = Fill(Fill(m, s, c, p), z, c, u)
      /\ FilledUnits(m, s, c, u, j) = Fill(m, s, c, w)
  BY ONLY <1>1, <1>2 DEF FillUnit, FilledUnits
<1> QED BY ONLY <1>3, <1>4

(* A function that takes the memory through n stores. *)
Fills(f, m, s, c, u, n) ==
    f = [k \in 0 .. n |-> IF k = 0 THEN m ELSE FillUnit(f[k - 1], s, c, u, k - 1)]

LEMMA FilledIs ==
    ASSUME NEW m, IsMemory(m), NEW s \in Nat, NEW c, NEW u \in Nat, NEW n \in Nat
    PROVE  Filled(m, s, c, u, n) = FilledUnits(m, s, c, u, n)
<1> DEFINE g == [k \in 0 .. n |-> FilledUnits(m, s, c, u, k)]
<1>1. FilledUnits(m, s, c, u, 0) = m
  <2>1. 0 * u = 0 /\ s .. s + 0 - 1 = {}
    OBVIOUS
  <2>2. Fill(m, s, c, 0) = [a \in DOMAIN m |-> m[a]]
    BY <2>1 DEF Fill
  <2> QED BY <2>1, <2>2 DEF IsMemory, FilledUnits
<1>2. Fills(g, m, s, c, u, n)
  <2> DEFINE h == [k \in 0 .. n |-> IF k = 0 THEN m ELSE FillUnit(g[k - 1], s, c, u, k - 1)]
  <2>1. ASSUME NEW k \in 0 .. n PROVE g[k] = h[k]
    <3>1. CASE k = 0
      BY <1>1, <3>1
    <3>2. CASE k # 0
      <4>1. PICK i \in Nat : i = k - 1 /\ k = i + 1 /\ i \in 0 .. n /\ k \in Nat
        BY <3>2
      <4>2. g[i] = FilledUnits(m, s, c, u, i)
        BY <4>1
      <4>3. FillUnit(FilledUnits(m, s, c, u, i), s, c, u, i) = FilledUnits(m, s, c, u, k)
        BY <4>1, UnitFilled
      <4> QED BY <3>2, <4>1, <4>2, <4>3
    <3> QED BY <3>1, <3>2
  <2>2. g = h
    <3> HIDE DEF g, h
    <3>1. g = [k \in 0 .. n |-> g[k]] /\ h = [k \in 0 .. n |-> h[k]]
      BY DEF g, h
    <3> QED BY <2>1, <3>1
  <2> QED BY <2>2 DEF Fills
<1> DEFINE f == CHOOSE f : Fills(f, m, s, c, u, n)
<1> HIDE DEF g
<1>3. Fills(f, m, s, c, u, n)
  BY <1>2
<1>4. Filled(m, s, c, u, n) = f[n]
  BY DEF Filled, Fills, FillUnit
<1> HIDE DEF f
<1> DEFINE S == {k \in Nat : k <= n => f[k] = FilledUnits(m, s, c, u, k)}
<1>5. 0 \in S
  <2>1. f[0] = m
    BY <1>3 DEF Fills
  <2> QED BY <1>1, <2>1
<1>6. ASSUME NEW k \in S PROVE k + 1 \in S
  <2> SUFFICES ASSUME k + 1 <= n PROVE f[k + 1] = FilledUnits(m, s, c, u, k + 1)
    OBVIOUS
  <2>1. PICK j \in Nat : j = k + 1 /\ j <= n /\ j \in 0 .. n /\ j - 1 = k /\ j # 0 /\ k \in Nat /\ k <= n
    OBVIOUS
  <2>2. f[j] = FillUnit(f[k], s, c, u, k)
    BY <1>3, <2>1 DEF Fills
  <2>3. f[k] = FilledUnits(m, s, c, u, k)
    BY <2>1
  <2>4. FillUnit(FilledUnits(m, s, c, u, k), s, c, u, k) = FilledUnits(m, s, c, u, j)
    BY <2>1, UnitFilled
  <2> QED BY <2>1, <2>2, <2>3, <2>4
<1>7. S = Nat
  <2> HIDE DEF S
  <2>1. S \in SUBSET Nat
    BY DEF S
  <2> QED BY <1>5, <1>6, <2>1, CountUp
<1>8. n \in S
  BY <1>7
<1> QED BY <1>4, <1>8

(* What is set in words and what is left over are all the bytes. *)
LEMMA MemsetIs ==
    ASSUME NEW m, IsMemory(m), NEW s \in Nat, NEW c, NEW count \in Nat
    PROVE  memset(m, s, c, count) = Fill(m, s, c, count)
<1> DEFINE w == words(s % WordBytes = 0, count)
           done == w * WordBytes
           m1 == Filled(m, s, c, WordBytes, w)
<1>1. WordBytes \in Nat /\ w \in Nat /\ done \in 0 .. count
  <2>1. (s % WordBytes = 0) \in BOOLEAN
    OBVIOUS
  <2> QED BY <2>1, WordsFit, MachineAssumption
<1>2. memset(m, s, c, count) = Filled(m1, s + done, c, 1, count - done)
  BY DEF memset
<1>3. m1 = Fill(m, s, c, done)
  BY <1>1, FilledIs DEF FilledUnits
<1>4. IsMemory(m1)
  BY <1>3 DEF IsMemory, Fill
<1> HIDE DEF m1, w, done
<1>5. PICK p, r : p = done /\ r = count - done
  OBVIOUS
<1>6. p \in Nat /\ r \in Nat /\ p + r = count /\ r * 1 = r
  BY <1>1, <1>5
<1>7. Filled(m1, s + p, c, 1, r) = FilledUnits(m1, s + p, c, 1, r)
  <2>1. s + p \in Nat /\ 1 \in Nat
    BY <1>6
  <2> QED BY <1>4, <1>6, <2>1, FilledIs
<1>8. Filled(m1, s + p, c, 1, r) = Fill(Fill(m, s, c, p), s + p, c, r)
  BY <1>3, <1>5, <1>6, <1>7 DEF FilledUnits
<1>9. Fill(Fill(m, s, c, p), s + p, c, r) = Fill(m, s, c, count)
  <2>1. Joined(s, p, r, s + p, count)
    BY <1>6 DEF Joined
  <2> QED BY <2>1, FillTwice
<1> QED BY <1>2, <1>5, <1>6, <1>8, <1>9

LEMMA StrcpyIs ==
    ASSUME NEW m, IsMemory(m), NEW d \in Nat, NEW s \in Nat, NEW a \in Nat, a = strlen(m, s),
           Movable(m, d, s, a + 1)
    PROVE  strcpy(m, d, s) = Store(m, d, s, a + 1)
<1>1. PICK n \in Nat : n = a + 1
  OBVIOUS
<1>2. n * 1 = n /\ 1 \in Nat
  BY <1>1
<1>3. MovableUnits(m, d, s, 1, n)
  BY <1>1, <1>2 DEF MovableUnits
<1>4. Copied(m, d, s, 1, n) = Moved(m, d, s, 1, n)
  BY <1>2, <1>3, CopiedIs
<1> QED BY <1>1, <1>2, <1>4 DEF strcpy, Moved

-----------------------------------------------------------------------------
(***************************************************************************)
(* Whatever is in the memory, and for every count, the ones no word fits   *)
(* into and those below zero included: memcpy moves every byte as it was,  *)
(* also down over its own source, memset and strcpy write what they        *)
(* should, none of them a byte more, and the string functions stop at the  *)
(* NUL or at the count, whichever is first (string.c:1-100).               *)
(***************************************************************************)
THEOREM LibraryStrings == Spec => []StringsExact
<1>1. Returned => StringsExact
  <2> SUFFICES ASSUME Returned, outcome # Pending PROVE StringsExact
    BY DEF StringsExact, After
  <2>1. /\ DOMAIN Memory \subseteq Nat /\ IsMemory(Memory) /\ Counts \subseteq Int
    BY LibraryAssumption DEF IsMemory
  <2>2. call \in Calls
    BY DEF Returned
  <2>3. ASSUME call.fn = "memcpy"
        PROVE  Written(call.d, call.n, LAMBDA b : Memory[call.s + (b - call.d)])
    <3>1. /\ call.d \in Nat /\ call.s \in Nat /\ call.n \in Nat
          /\ Inside(call.s, call.n) /\ (Apart(call.d, call.s, call.n) \/ call.d < call.s)
      BY <2>1, <2>2, <2>3 DEF Calls
    <3>2. Movable(Memory, call.d, call.s, call.n)
      BY <3>1 DEF Movable, Inside, Apart
    <3>3. outcome.result = Store(Memory, call.d, call.s, call.n)
      BY <2>1, <2>3, <3>1, <3>2, MemcpyIs DEF Returned
    <3> QED BY <3>3 DEF Written, Store
  <2>4. ASSUME call.fn = "memset"
        PROVE  Written(call.s, call.n, LAMBDA b : call.c % 256)
    <3>1. call.s \in Nat /\ call.n \in Nat
      BY <2>1, <2>2, <2>4 DEF Calls
    <3>2. outcome.result = Fill(Memory, call.s, call.c, call.n)
      BY <2>1, <2>4, <3>1, MemsetIs DEF Returned
    <3> QED BY <3>2 DEF Written, Fill
  <2>5. ASSUME call.fn = "strcpy"
        PROVE  Written(call.d, Len(StringAt(call.s)) + 1,
                       LAMBDA b : Memory[call.s + (b - call.d)])
    <3>1. PICK n : n = strlen(Memory, call.s)
      OBVIOUS
    <3>2. /\ call.d \in Nat /\ call.s \in Nat /\ call.s \in DOMAIN Memory /\ HasString(call.s)
          /\ Apart(call.d, call.s, n + 1)
      BY <2>1, <2>2, <2>5, <3>1 DEF Calls
    <3>3. IsString(call.s, n) /\ StringAt(call.s) = [k \in 1 .. n |-> Memory[call.s + k - 1]]
      BY <3>1, <3>2, StringIs
    <3>4. n \in Nat /\ Len(StringAt(call.s)) = n
      BY <3>3 DEF IsString
    <3>5. Movable(Memory, call.d, call.s, n + 1)
      BY <3>2, <3>3, <3>4 DEF Movable, IsString, Apart
    <3>6. outcome.result = Store(Memory, call.d, call.s, n + 1)
      BY <2>1, <2>5, <3>1, <3>2, <3>4, <3>5, StrcpyIs DEF Returned
    <3> QED BY <3>4, <3>6 DEF Written, Store
  <2>6. ASSUME call.fn = "strnlen"
        PROVE  outcome.result
                  = Len(IF call.n < 0 THEN StringAt(call.s) ELSE Start(StringAt(call.s), call.n))
    <3>1. call.s \in DOMAIN Memory /\ HasString(call.s) /\ call.n \in Int
      BY <2>1, <2>2, <2>6 DEF Calls
    <3> QED BY <2>6, <3>1, StrnlenIs DEF Returned
  <2>7. ASSUME call.fn = "strncmp"
        PROVE  LET u == Start(StringAt(call.s), call.n)
                   v == Start(StringAt(call.t), call.n)
               IN  (outcome.result < 0 <=> Before(u, v)) /\ (outcome.result > 0 <=> Before(v, u))
    <3>1. /\ call.s \in DOMAIN Memory /\ HasString(call.s)
          /\ call.t \in DOMAIN Memory /\ HasString(call.t) /\ call.n \in Int
      BY <2>1, <2>2, <2>7 DEF Calls
    <3> QED BY <2>7, <3>1, StrncmpIs DEF Returned
  <2>8. ASSUME call.fn = "strchr"
        PROVE  LET u == Append(StringAt(call.s), 0)
                   r == outcome.result - call.s + 1
               IN  IF call.c % 256 \in ToSet(u)
                   THEN u[r] = call.c % 256 /\ call.c % 256 \notin ToSet(SubSeq(u, 1, r - 1))
                   ELSE outcome.result = 0
    <3>1. call.s \in DOMAIN Memory /\ HasString(call.s) /\ call.c \in {-56, 0, 1, 65}
      BY <2>2, <2>8 DEF Calls
    <3>2. outcome.result = strchr(Memory, call.s, call.c)
      BY <2>8 DEF Returned
    <3>3. call.c \in Sought
      BY <3>1 DEF Sought
    <3>4. Finds(outcome.result, call.s, call.c)
      BY <3>1, <3>2, <3>3, StrchrIs
    <3> QED BY ONLY <3>4 DEF Finds
  <2> QED BY <2>3, <2>4, <2>5, <2>6, <2>7, <2>8 DEF StringsExact, After
<1> QED BY <1>1, ReturnedInvariant, PTL

-----------------------------------------------------------------------------
(* The bases of number, and dividing by one of them. *)
Bases == {8, 10, 16}
Unit(n, b) == n % b
Over(n, b) == n \div b

LEMMA Dealt ==
    ASSUME NEW b \in Bases, NEW n \in Nat
    PROVE  Over(n, b) \in Nat /\ Unit(n, b) \in 0 .. b - 1 /\ n = b * Over(n, b) + Unit(n, b)
<1>1. CASE b = 8
  BY <1>1, SMTT(60) DEF Over, Unit
<1>2. CASE b = 10
  BY <1>2, SMTT(60) DEF Over, Unit
<1>3. CASE b = 16
  BY <1>3, SMTT(60) DEF Over, Unit
<1> QED BY <1>1, <1>2, <1>3 DEF Bases

LEMMA Composed ==
    ASSUME NEW b \in Bases, NEW m \in Nat, NEW d \in 0 .. b - 1, NEW n, n = b * m + d
    PROVE  n \in Nat /\ (m # 0 => n # 0) /\ Unit(n, b) = d /\ Over(n, b) = m
<1>1. CASE b = 8
  BY <1>1, SMTT(60) DEF Over, Unit
<1>2. CASE b = 10
  BY <1>2, SMTT(60) DEF Over, Unit
<1>3. CASE b = 16
  BY <1>3, SMTT(60) DEF Over, Unit
<1> QED BY <1>1, <1>2, <1>3 DEF Bases

(* What is left of n is divided by b and the remainder written, from the   *)
(* i-th place of u on, until nothing is left: left[j] before the j-th.     *)
Division(left, u, i, n, b) ==
    /\ left \in [i .. Len(u) + 1 -> Nat] /\ left[i] = n /\ left[Len(u) + 1] = 0
    /\ \A j \in i .. Len(u) : u[j] = Unit(left[j], b) /\ left[j + 1] = Over(left[j], b)
    /\ \A j \in i + 1 .. Len(u) : left[j] # 0

DigitsFrom(u, i, n, b) ==
    u \in Seq(Nat) /\ i \in 1 .. Len(u) /\ \E left : Division(left, u, i, n, b)

(* u is the digits of n in base b, the least significant first. *)
InBase(u, n, b) == DigitsFrom(u, 1, n, b)

(* The last place, and a place before what has m in it. *)
Ends(u, i, n, b) == u \in Seq(Nat) /\ i \in 1 .. Len(u) /\ i = Len(u) /\ n \in 0 .. b - 1 /\ u[i] = n
Precedes(u, i, k, m, n, b) ==
    i \in Nat \ {0} /\ k = i + 1 /\ m \in Nat \ {0} /\ u[i] \in 0 .. b - 1 /\ n = b * m + u[i]

LEMMA LastDigit ==
    ASSUME NEW b \in Bases, NEW u, NEW i, NEW n, Ends(u, i, n, b)
    PROVE  DigitsFrom(u, i, n, b)
<1> USE DEF Ends
<1> DEFINE left == [j \in i .. Len(u) + 1 |-> IF j = i THEN n ELSE 0]
<1>1. Unit(n, b) = n /\ Over(n, b) = 0
  <2>1. n = b * 0 + n
    BY DEF Bases
  <2> QED BY <2>1, Composed
<1>2. i .. Len(u) = {i} /\ i + 1 .. Len(u) = {} /\ i # i + 1
  OBVIOUS
<1>3. Division(left, u, i, n, b)
  BY <1>1, <1>2 DEF Division
<1> QED BY <1>3 DEF DigitsFrom

LEMMA DigitBefore ==
    ASSUME NEW b \in Bases, NEW u, NEW i, NEW k, NEW m, NEW n,
           Precedes(u, i, k, m, n, b), DigitsFrom(u, k, m, b)
    PROVE  n \in Nat \ {0} /\ DigitsFrom(u, i, n, b)
<1>0. PICK d : d = u[i]
  OBVIOUS
<1>1. i \in Nat \ {0} /\ k = i + 1 /\ m \in Nat \ {0} /\ d \in 0 .. b - 1 /\ n = b * m + d
  BY <1>0 DEF Precedes
<1>2. n \in Nat \ {0} /\ Unit(n, b) = d /\ Over(n, b) = m
  BY <1>1, Composed
<1>3. PICK l \in Nat : l = Len(u) /\ u \in Seq(Nat) /\ k \in 1 .. l /\ i \in 1 .. l
  BY <1>1 DEF DigitsFrom
<1>4. PICK q : Division(q, u, k, m, b)
  BY DEF DigitsFrom
<1>5. /\ q \in [k .. l + 1 -> Nat] /\ q[k] = m /\ q[l + 1] = 0
      /\ \A j \in k .. l : u[j] = Unit(q[j], b) /\ q[j + 1] = Over(q[j], b)
      /\ \A j \in k + 1 .. l : q[j] # 0
  BY <1>3, <1>4 DEF Division
<1> DEFINE left == [j \in i .. l + 1 |-> IF j = i THEN n ELSE q[j]]
<1>6. left \in [i .. l + 1 -> Nat] /\ left[i] = n /\ \A j \in k .. l + 1 : left[j] = q[j]
  <2>1. \A j \in i .. l + 1 : j = i \/ j \in k .. l + 1
    BY <1>1, <1>3
  <2>2. \A j \in k .. l + 1 : j \in i .. l + 1 /\ j # i
    BY <1>1, <1>3
  <2> QED BY <1>1, <1>2, <1>3, <1>5, <2>1, <2>2
<1> HIDE DEF left
<1>7. left[l + 1] = 0 /\ left[k] = m
  BY <1>1, <1>3, <1>5, <1>6
<1>8. ASSUME NEW j \in i .. l PROVE u[j] = Unit(left[j], b) /\ left[j + 1] = Over(left[j], b)
  <2>1. CASE j = i
    BY <1>0, <1>1, <1>2, <1>6, <1>7, <2>1
  <2>2. CASE j # i
    <3>1. j \in k .. l /\ j \in k .. l + 1 /\ j + 1 \in k .. l + 1
      BY <1>1, <1>3, <2>2
    <3> QED BY <1>5, <1>6, <3>1
  <2> QED BY <2>1, <2>2
<1>9. ASSUME NEW j \in i + 1 .. l PROVE left[j] # 0
  <2>1. CASE j = k
    BY <1>1, <1>7, <2>1
  <2>2. CASE j # k
    <3>1. j \in k + 1 .. l /\ j \in k .. l + 1
      BY <1>1, <1>3, <2>2
    <3> QED BY <1>5, <1>6, <3>1
  <2> QED BY <2>1, <2>2
<1>10. Division(left, u, i, n, b)
  BY <1>3, <1>6, <1>7, <1>8, <1>9 DEF Division
<1> QED BY <1>2, <1>3, <1>10 DEF DigitsFrom

(* The digits of a number behind others. *)
LEMMA DigitsBehind ==
    ASSUME NEW b \in Bases, NEW v \in Seq(Nat), NEW u, NEW m, InBase(u, m, b)
    PROVE  DigitsFrom(v \o u, Len(v) + 1, m, b)
<1> DEFINE k == Len(v) + 1
<1>1. PICK c \in Nat, l \in Nat : c = Len(v) /\ l = Len(u) /\ u \in Seq(Nat) /\ 1 \in 1 .. l
  BY DEF InBase, DigitsFrom
<1>2. PICK w : w = v \o u
  OBVIOUS
<1>3. w \in Seq(Nat) /\ Len(w) = c + l /\ \A j \in 1 .. l : w[c + j] = u[j]
  BY <1>1, <1>2
<1>4. PICK q : Division(q, u, 1, m, b)
  BY DEF InBase, DigitsFrom
<1>5. /\ q \in [1 .. l + 1 -> Nat] /\ q[1] = m /\ q[l + 1] = 0
      /\ \A j \in 1 .. l : u[j] = Unit(q[j], b) /\ q[j + 1] = Over(q[j], b)
      /\ \A j \in 2 .. l : q[j] # 0
  <2>1. 1 + 1 = 2
    OBVIOUS
  <2> QED BY <1>1, <1>4, <2>1 DEF Division
<1> DEFINE left == [j \in k .. c + l + 1 |-> q[j - c]]
<1>6. \A j \in k .. c + l + 1 : left[j] = q[j - c]
  OBVIOUS
<1>7. left \in [k .. c + l + 1 -> Nat]
  <2>1. \A j \in k .. c + l + 1 : j - c \in 1 .. l + 1
    BY <1>1
  <2> QED BY <1>5, <2>1
<1> HIDE DEF left
<1>8. left[k] = m /\ left[c + l + 1] = 0
  <2>1. k \in k .. c + l + 1 /\ k - c = 1 /\ c + l + 1 \in k .. c + l + 1 /\ (c + l + 1) - c = l + 1
    BY <1>1
  <2> QED BY <1>5, <1>6, <2>1
<1>9. ASSUME NEW j \in k .. c + l PROVE w[j] = Unit(left[j], b) /\ left[j + 1] = Over(left[j], b)
  <2>1. PICK i : i = j - c
    OBVIOUS
  <2>2. /\ i \in 1 .. l /\ c + i = j /\ (j + 1) - c = i + 1
        /\ j \in k .. c + l + 1 /\ j + 1 \in k .. c + l + 1
    BY <1>1, <2>1
  <2>3. left[j] = q[i] /\ left[j + 1] = q[i + 1]
    BY <1>6, <2>1, <2>2
  <2>4. w[j] = u[i]
    BY <1>3, <2>2
  <2> QED BY <1>5, <2>2, <2>3, <2>4
<1>10. ASSUME NEW j \in k + 1 .. c + l PROVE left[j] # 0
  <2>1. PICK i : i = j - c
    OBVIOUS
  <2>2. i \in 2 .. l /\ j \in k .. c + l + 1
    BY <1>1, <2>1
  <2> QED BY <1>5, <1>6, <2>1, <2>2
<1>11. Division(left, w, k, m, b)
  BY <1>3, <1>7, <1>8, <1>9, <1>10 DEF Division
<1>12. k \in 1 .. c + l
  BY <1>1
<1> QED BY <1>2, <1>3, <1>11, <1>12 DEF DigitsFrom

(* A number has one sequence of digits in a base. *)
LEMMA SameDivision ==
    ASSUME NEW b, NEW u, NEW v, NEW n,
           NEW p, Division(p, u, 1, n, b), NEW q, Division(q, v, 1, n, b),
           NEW k \in Nat, k = Len(u), NEW l \in Nat, l = Len(v)
    PROVE  \A j \in Nat : j <= k /\ j <= l => p[j + 1] = q[j + 1]
<1>1. /\ p[1] = n /\ \A j \in 1 .. k : p[j + 1] = Over(p[j], b)
      /\ q[1] = n /\ \A j \in 1 .. l : q[j + 1] = Over(q[j], b)
  BY DEF Division
<1> DEFINE S == {j \in Nat : j <= k /\ j <= l => p[j + 1] = q[j + 1]}
<1>2. 0 \in S
  BY <1>1
<1>3. ASSUME NEW j \in S PROVE j + 1 \in S
  <2> SUFFICES ASSUME j + 1 <= k, j + 1 <= l PROVE p[(j + 1) + 1] = q[(j + 1) + 1]
    OBVIOUS
  <2>1. PICK i : i = j + 1
    OBVIOUS
  <2>2. i \in 1 .. k /\ i \in 1 .. l /\ p[i] = q[i]
    BY <2>1
  <2> QED BY <1>1, <2>1, <2>2
<1>4. S = Nat
  <2> HIDE DEF S
  <2>1. S \in SUBSET Nat
    BY DEF S
  <2> QED BY <1>2, <1>3, <2>1, CountUp
<1> QED BY <1>4

LEMMA NoLonger ==
    ASSUME NEW b, NEW u, NEW v, NEW n,
           NEW p, Division(p, u, 1, n, b), NEW q, Division(q, v, 1, n, b),
           NEW k \in Nat \ {0}, k = Len(u), NEW l \in Nat \ {0}, l = Len(v)
    PROVE  ~ (k < l)
<1> SUFFICES ASSUME k < l PROVE FALSE
  OBVIOUS
<1>1. p[k + 1] = 0
  BY DEF Division
<1>2. k + 1 \in 1 + 1 .. l /\ \A j \in 1 + 1 .. l : q[j] # 0
  BY DEF Division
<1>3. p[k + 1] = q[k + 1]
  <2>1. k \in Nat /\ l \in Nat /\ k <= k /\ k <= l
    OBVIOUS
  <2> QED BY <2>1, SameDivision
<1> QED BY <1>1, <1>2, <1>3

LEMMA OneInBase ==
    ASSUME NEW b, NEW u, NEW v, NEW n, InBase(u, n, b), InBase(v, n, b)
    PROVE  u = v
<1>1. PICK k \in Nat \ {0}, l \in Nat \ {0} :
          k = Len(u) /\ l = Len(v) /\ u \in Seq(Nat) /\ v \in Seq(Nat)
  BY DEF InBase, DigitsFrom
<1>2. PICK p, q : Division(p, u, 1, n, b) /\ Division(q, v, 1, n, b)
  BY DEF InBase, DigitsFrom
<1>3. k = l
  <2>1. ~ (k < l) /\ ~ (l < k)
    BY <1>1, <1>2, NoLonger
  <2> QED BY <2>1
<1>4. ASSUME NEW j \in 1 .. k PROVE u[j] = v[j]
  <2>1. PICK i \in Nat : i = j - 1 /\ i + 1 = j /\ i <= k /\ i <= l
    BY <1>3
  <2>2. p[j] = q[j]
    <3>1. \A x \in Nat : x <= k /\ x <= l => p[x + 1] = q[x + 1]
      <4>1. k \in Nat /\ l \in Nat
        OBVIOUS
      <4> QED BY <1>1, <1>2, <4>1, SameDivision
    <3> QED BY <2>1, <3>1
  <2>3. u[j] = Unit(p[j], b) /\ v[j] = Unit(q[j], b)
    BY <1>1, <1>2, <1>3 DEF Division
  <2> QED BY <2>2, <2>3
<1>5. u \in Seq(Nat) /\ v \in Seq(Nat) /\ Len(u) = Len(v) /\ \A j \in 1 .. Len(u) : u[j] = v[j]
  BY <1>1, <1>3, <1>4
<1> QED BY ONLY <1>5, SeqEqual

-----------------------------------------------------------------------------
LEMMA Ten == 10 \in Bases
  BY DEF Bases

(* The five digits of q, and what is left above each of them. *)
Placed(q, d1, d2, d3, d4, d5, r1, r2, r3) ==
    /\ d1 \in 0 .. 9 /\ d2 \in 0 .. 9 /\ d3 \in 0 .. 9 /\ d4 \in 0 .. 9 /\ d5 \in 0 .. 9
    /\ r1 \in Nat /\ r2 \in Nat /\ r3 \in Nat
    /\ DecimalDigits(q) = <<d1, d2, d3, d4, d5>>
    /\ q = 10 * r1 + d1 /\ r1 = 10 * r2 + d2 /\ r2 = 10 * r3 + d3 /\ r3 = 10 * d5 + d4
    /\ (q < 10 <=> r1 = 0) /\ (q < 100 <=> r2 = 0) /\ (q < 1000 <=> r3 = 0)
    /\ (q < 10000 <=> d5 = 0)

LEMMA FiveDigitsOf ==
    ASSUME NEW q \in FiveDigits
    PROVE  \E d1, d2, d3, d4, d5, r1, r2, r3 : Placed(q, d1, d2, d3, d4, d5, r1, r2, r3)
<1>1. q \in Nat /\ q <= 99999
  BY DEF FiveDigits
<1>2. PICK r1, r2, r3, d5 :
          r1 = q \div 10 /\ r2 = q \div 100 /\ r3 = q \div 1000 /\ d5 = q \div 10000
  OBVIOUS
<1>3. r1 \in Nat /\ r2 = r1 \div 10 /\ r1 <= 9999
  BY <1>1, <1>2, SMTT(60)
<1>4. r2 \in Nat /\ r3 = r2 \div 10 /\ r2 <= 999
  BY <1>1, <1>2, <1>3, SMTT(60)
<1>5. r3 \in Nat /\ d5 = r3 \div 10 /\ r3 <= 99
  BY <1>1, <1>2, <1>4, SMTT(60)
<1>6. d5 \in 0 .. 9
  BY <1>5, SMTT(60)
<1>7. \A x \in Nat : x = 10 * (x \div 10) + (x % 10) /\ (x % 10) \in 0 .. 9
  BY SMTT(60)
<1>8. PICK d1, d2, d3, d4 : d1 = q % 10 /\ d2 = r1 % 10 /\ d3 = r2 % 10 /\ d4 = r3 % 10
  OBVIOUS
<1>9. /\ d1 \in 0 .. 9 /\ d2 \in 0 .. 9 /\ d3 \in 0 .. 9 /\ d4 \in 0 .. 9
      /\ q = 10 * r1 + d1 /\ r1 = 10 * r2 + d2 /\ r2 = 10 * r3 + d3 /\ r3 = 10 * d5 + d4
  BY <1>1, <1>2, <1>3, <1>4, <1>5, <1>7, <1>8
<1>10. /\ (q < 10 <=> r1 = 0) /\ (q < 100 <=> r2 = 0) /\ (q < 1000 <=> r3 = 0)
       /\ (q < 10000 <=> d5 = 0)
  BY ONLY <1>1, <1>3, <1>4, <1>5, <1>6, <1>9
<1>11. DecimalDigits(q) = <<d1, d2, d3, d4, d5>>
  BY <1>2, <1>8 DEF DecimalDigits
<1>12. Placed(q, d1, d2, d3, d4, d5, r1, r2, r3)
  BY <1>3, <1>4, <1>5, <1>6, <1>9, <1>10, <1>11 DEF Placed
<1> QED BY <1>12

(* put_dec_trunc, and put_dec_full before the digits of what is left. *)
LEMMA TruncOfDecimal ==
    ASSUME NEW q \in FiveDigits
    PROVE  InBase(put_dec_trunc(q), q, 10)
<1>0. PICK d1, d2, d3, d4, d5, r1, r2, r3 : Placed(q, d1, d2, d3, d4, d5, r1, r2, r3)
  BY FiveDigitsOf
<1>1. /\ d1 \in 0 .. 9 /\ d2 \in 0 .. 9 /\ d3 \in 0 .. 9 /\ d4 \in 0 .. 9 /\ d5 \in 0 .. 9
      /\ r1 \in Nat /\ r2 \in Nat /\ r3 \in Nat
      /\ DecimalDigits(q) = <<d1, d2, d3, d4, d5>>
      /\ q = 10 * r1 + d1 /\ r1 = 10 * r2 + d2 /\ r2 = 10 * r3 + d3 /\ r3 = 10 * d5 + d4
      /\ (q < 10 <=> r1 = 0) /\ (q < 100 <=> r2 = 0) /\ (q < 1000 <=> r3 = 0)
      /\ (q < 10000 <=> d5 = 0)
  BY <1>0 DEF Placed
<1>2. PICK n : n = IF q < 10 THEN 1 ELSE IF q < 100 THEN 2 ELSE IF q < 1000 THEN 3
                   ELSE IF q < 10000 THEN 4 ELSE 5
  OBVIOUS
<1>3. PICK u : u = SubSeq(DecimalDigits(q), 1, n)
  OBVIOUS
<1>4. put_dec_trunc(q) = u
  BY <1>2, <1>3, TruncIsDecimal
<1>5. PICK D : D = <<d1, d2, d3, d4, d5>>
  OBVIOUS
<1>6. D \in Seq(Nat) /\ Len(D) = 5 /\ D[1] = d1 /\ D[2] = d2 /\ D[3] = d3 /\ D[4] = d4 /\ D[5] = d5
  BY <1>1, <1>5
<1>7. n \in 1 .. 5
  BY <1>2
<1>8. u \in Seq(Nat) /\ Len(u) = n /\ \A j \in 1 .. n : u[j] = D[j]
  BY <1>1, <1>3, <1>5, <1>6, <1>7
<1>9. q \in Nat
  BY DEF FiveDigits
<1>10. CASE q < 10
  <2>1. n = 1 /\ u[1] = q /\ q \in 0 .. 9
    BY <1>1, <1>2, <1>6, <1>8, <1>9, <1>10
  <2>2. Ends(u, 1, q, 10)
    BY <1>8, <2>1 DEF Ends
  <2>3. DigitsFrom(u, 1, q, 10)
    BY <2>2, Ten, LastDigit
  <2> QED BY <1>4, <2>3 DEF InBase
<1>11. CASE q >= 10 /\ q < 100
  <2>1. n = 2 /\ u[1] = d1 /\ u[2] = r1 /\ r1 \in 1 .. 9
    BY <1>1, <1>2, <1>6, <1>8, <1>9, <1>11
  <2>2. Ends(u, 2, r1, 10)
    BY <1>8, <2>1 DEF Ends
  <2>3. DigitsFrom(u, 2, r1, 10)
    BY <2>2, Ten, LastDigit
  <2>4. Precedes(u, 1, 2, r1, q, 10)
    BY <1>1, <2>1 DEF Precedes
  <2>5. q \in Nat \ {0} /\ DigitsFrom(u, 1, q, 10)
    BY <2>3, <2>4, Ten, DigitBefore
  <2> QED BY <1>4, <2>5 DEF InBase
<1>12. CASE q >= 100 /\ q < 1000
  <2>1. n = 3 /\ u[1] = d1 /\ u[2] = d2 /\ u[3] = r2 /\ r2 \in 1 .. 9
    BY <1>1, <1>2, <1>6, <1>8, <1>9, <1>12
  <2>2. Ends(u, 3, r2, 10)
    BY <1>8, <2>1 DEF Ends
  <2>3. DigitsFrom(u, 3, r2, 10)
    BY <2>2, Ten, LastDigit
  <2>4. Precedes(u, 2, 3, r2, r1, 10)
    BY <1>1, <2>1 DEF Precedes
  <2>5. r1 \in Nat \ {0} /\ DigitsFrom(u, 2, r1, 10)
    BY <2>3, <2>4, Ten, DigitBefore
  <2>6. Precedes(u, 1, 2, r1, q, 10)
    BY <1>1, <2>1, <2>5 DEF Precedes
  <2>7. q \in Nat \ {0} /\ DigitsFrom(u, 1, q, 10)
    BY <2>5, <2>6, Ten, DigitBefore
  <2> QED BY <1>4, <2>7 DEF InBase
<1>13. CASE q >= 1000 /\ q < 10000
  <2>1. n = 4 /\ u[1] = d1 /\ u[2] = d2 /\ u[3] = d3 /\ u[4] = r3 /\ r3 \in 1 .. 9
    BY <1>1, <1>2, <1>6, <1>8, <1>9, <1>13
  <2>2. Ends(u, 4, r3, 10)
    BY <1>8, <2>1 DEF Ends
  <2>3. DigitsFrom(u, 4, r3, 10)
    BY <2>2, Ten, LastDigit
  <2>4. Precedes(u, 3, 4, r3, r2, 10)
    BY <1>1, <2>1 DEF Precedes
  <2>5. r2 \in Nat \ {0} /\ DigitsFrom(u, 3, r2, 10)
    BY <2>3, <2>4, Ten, DigitBefore
  <2>6. Precedes(u, 2, 3, r2, r1, 10)
    BY <1>1, <2>1, <2>5 DEF Precedes
  <2>7. r1 \in Nat \ {0} /\ DigitsFrom(u, 2, r1, 10)
    BY <2>5, <2>6, Ten, DigitBefore
  <2>8. Precedes(u, 1, 2, r1, q, 10)
    BY <1>1, <2>1, <2>7 DEF Precedes
  <2>9. q \in Nat \ {0} /\ DigitsFrom(u, 1, q, 10)
    BY <2>7, <2>8, Ten, DigitBefore
  <2> QED BY <1>4, <2>9 DEF InBase
<1>14. CASE q >= 10000
  <2>1. /\ n = 5 /\ u[1] = d1 /\ u[2] = d2 /\ u[3] = d3 /\ u[4] = d4
        /\ u[5] = d5 /\ d5 \in 1 .. 9
    BY <1>1, <1>2, <1>6, <1>8, <1>9, <1>14
  <2>2. Ends(u, 5, d5, 10)
    BY <1>8, <2>1 DEF Ends
  <2>3. DigitsFrom(u, 5, d5, 10)
    BY <2>2, Ten, LastDigit
  <2>4. Precedes(u, 4, 5, d5, r3, 10)
    BY <1>1, <2>1 DEF Precedes
  <2>5. r3 \in Nat \ {0} /\ DigitsFrom(u, 4, r3, 10)
    BY <2>3, <2>4, Ten, DigitBefore
  <2>6. Precedes(u, 3, 4, r3, r2, 10)
    BY <1>1, <2>1, <2>5 DEF Precedes
  <2>7. r2 \in Nat \ {0} /\ DigitsFrom(u, 3, r2, 10)
    BY <2>5, <2>6, Ten, DigitBefore
  <2>8. Precedes(u, 2, 3, r2, r1, 10)
    BY <1>1, <2>1, <2>7 DEF Precedes
  <2>9. r1 \in Nat \ {0} /\ DigitsFrom(u, 2, r1, 10)
    BY <2>7, <2>8, Ten, DigitBefore
  <2>10. Precedes(u, 1, 2, r1, q, 10)
    BY <1>1, <2>1, <2>9 DEF Precedes
  <2>11. q \in Nat \ {0} /\ DigitsFrom(u, 1, q, 10)
    BY <2>9, <2>10, Ten, DigitBefore
  <2> QED BY <1>4, <2>11 DEF InBase
<1> QED BY <1>9, <1>10, <1>11, <1>12, <1>13, <1>14

LEMMA FullBeforeDecimal ==
    ASSUME NEW q \in FiveDigits, NEW m \in Nat \ {0}, NEW t, InBase(t, m, 10),
           NEW n, n = 100000 * m + q
    PROVE  InBase(put_dec_full(q) \o t, n, 10)
<1>0. PICK d1, d2, d3, d4, d5, r1, r2, r3 : Placed(q, d1, d2, d3, d4, d5, r1, r2, r3)
  BY FiveDigitsOf
<1>1. /\ d1 \in 0 .. 9 /\ d2 \in 0 .. 9 /\ d3 \in 0 .. 9 /\ d4 \in 0 .. 9 /\ d5 \in 0 .. 9
      /\ r1 \in Nat /\ r2 \in Nat /\ r3 \in Nat
      /\ DecimalDigits(q) = <<d1, d2, d3, d4, d5>>
      /\ q = 10 * r1 + d1 /\ r1 = 10 * r2 + d2 /\ r2 = 10 * r3 + d3 /\ r3 = 10 * d5 + d4
      /\ (q < 10 <=> r1 = 0) /\ (q < 100 <=> r2 = 0) /\ (q < 1000 <=> r3 = 0)
      /\ (q < 10000 <=> d5 = 0)
  BY <1>0 DEF Placed
<1> DEFINE v == put_dec_full(q)
           u == v \o t
<1>2. v = <<d1, d2, d3, d4, d5>>
  BY <1>1, FullIsDecimal, SMT
<1> HIDE DEF v
<1>3. v \in Seq(Nat) /\ Len(v) = 5 /\ v[1] = d1 /\ v[2] = d2 /\ v[3] = d3 /\ v[4] = d4 /\ v[5] = d5
  BY <1>1, <1>2, SMT
<1>4. t \in Seq(Nat)
  BY SMT DEF InBase, DigitsFrom
<1>5. u[1] = d1 /\ u[2] = d2 /\ u[3] = d3 /\ u[4] = d4 /\ u[5] = d5
  <2>1. \A j \in 1 .. Len(v) : u[j] = v[j]
    <3>1. v \in Seq(Nat) /\ t \in Seq(Nat)
      BY <1>3, <1>4, SMT
    <3> QED BY ONLY <3>1, SMT
  <2>2. 1 .. Len(v) = 1 .. 5
    BY <1>3, SMT
  <2> HIDE DEF u
  <2>3. u[1] = v[1] /\ u[2] = v[2] /\ u[3] = v[3] /\ u[4] = v[4] /\ u[5] = v[5]
    BY ONLY <2>1, <2>2, SMT
  <2> QED BY ONLY <1>3, <2>3
<1>6. DigitsFrom(u, 6, m, 10)
  <2>1. Len(v) + 1 = 6
    BY <1>3, SMT
  <2>2. DigitsFrom(v \o t, Len(v) + 1, m, 10)
    <3>1. v \in Seq(Nat) /\ InBase(t, m, 10)
      BY <1>3, SMT
    <3> QED BY ONLY <3>1, Ten, DigitsBehind, SMT
  <2> QED BY ONLY <2>1, <2>2, SMT DEF u
<1> HIDE DEF u
<1> DEFINE n5 == 10 * m + d5
           n4 == 10 * n5 + d4
           n3 == 10 * n4 + d3
           n2 == 10 * n3 + d2
<1>7. n5 = 10 * m + d5 /\ n4 = 10 * n5 + d4 /\ n3 = 10 * n4 + d3 /\ n2 = 10 * n3 + d2
  OBVIOUS
<1>8. n = 10 * n2 + d1
  BY <1>1, SMT
<1> HIDE DEF n5, n4, n3, n2
<1>9. n5 \in Nat \ {0} /\ DigitsFrom(u, 5, n5, 10)
  <2>1. Precedes(u, 5, 6, m, n5, 10)
    BY <1>1, <1>5, <1>7, SMT DEF Precedes
  <2> QED BY <1>6, <2>1, Ten, DigitBefore, SMT
<1>10. n4 \in Nat \ {0} /\ DigitsFrom(u, 4, n4, 10)
  <2>1. Precedes(u, 4, 5, n5, n4, 10)
    BY <1>1, <1>5, <1>7, <1>9, SMT DEF Precedes
  <2> QED BY <1>9, <2>1, Ten, DigitBefore, SMT
<1>11. n3 \in Nat \ {0} /\ DigitsFrom(u, 3, n3, 10)
  <2>1. Precedes(u, 3, 4, n4, n3, 10)
    BY <1>1, <1>5, <1>7, <1>10, SMT DEF Precedes
  <2> QED BY <1>10, <2>1, Ten, DigitBefore, SMT
<1>12. n2 \in Nat \ {0} /\ DigitsFrom(u, 2, n2, 10)
  <2>1. Precedes(u, 2, 3, n3, n2, 10)
    BY <1>1, <1>5, <1>7, <1>11, SMT DEF Precedes
  <2> QED BY <1>11, <2>1, Ten, DigitBefore, SMT
<1>13. n \in Nat \ {0} /\ DigitsFrom(u, 1, n, 10)
  <2>1. Precedes(u, 1, 2, n2, n, 10)
    BY <1>1, <1>5, <1>8, <1>12, SMT DEF Precedes
  <2> QED BY <1>12, <2>1, Ten, DigitBefore, SMT
<1> QED BY <1>13 DEF InBase, u, v

(* What put_dec makes of a number, from what it makes of what is left. *)
Chunks(num, rest) ==
    IF num < 100000 THEN put_dec_trunc(num) ELSE put_dec_full(num % 100000) \o rest
PutDec(f) == f = [num \in Nat |-> Chunks(num, f[num \div 100000])]

LEMMA ChunksAreDecimal ==
    ASSUME NEW num \in Nat, NEW rest, ~ (num < 100000) => InBase(rest, num \div 100000, 10)
    PROVE  InBase(Chunks(num, rest), num, 10)
<1>1. CASE num < 100000
  <2>1. num \in FiveDigits
    BY <1>1, SMT DEF FiveDigits
  <2>2. Chunks(num, rest) = put_dec_trunc(num)
    BY <1>1, SMT DEF Chunks
  <2>3. InBase(put_dec_trunc(num), num, 10)
    BY ONLY <2>1, TruncOfDecimal, SMT
  <2> QED BY ONLY <2>2, <2>3, SMT
<1>2. CASE ~ (num < 100000)
  <2> DEFINE q == num % 100000
             m == num \div 100000
             t == 100000 * m + q
  <2>1. q \in FiveDigits /\ m \in Nat \ {0} /\ num = t
    BY <1>2, SMTT(60) DEF FiveDigits
  <2>2. Chunks(num, rest) = put_dec_full(q) \o rest
    BY <1>2, SMT DEF Chunks
  <2>3. InBase(rest, m, 10)
    BY <1>2, SMT
  <2> HIDE DEF q, m
  <2>4. InBase(put_dec_full(q) \o rest, num, 10)
    BY ONLY <2>1, <2>3, FullBeforeDecimal, SMT
  <2> QED BY ONLY <2>2, <2>4, SMT
<1> QED BY ONLY <1>1, <1>2, SMT

(* What holds of a number when it holds of the numbers below it. *)
LEMMA BelowEach ==
    ASSUME NEW S \in SUBSET Nat,
           \A num \in Nat : (\A k \in Nat : k < num => k \in S) => num \in S
    PROVE  S = Nat
<1> DEFINE B == {j \in Nat : \A k \in Nat : k < j => k \in S}
<1>1. 0 \in B
  OBVIOUS
<1>2. ASSUME NEW j \in B PROVE j + 1 \in B
  <2>1. j \in S
    OBVIOUS
  <2>2. \A k \in Nat : k < j + 1 => k < j \/ k = j
    OBVIOUS
  <2> QED BY <2>1, <2>2
<1>3. B = Nat
  <2> HIDE DEF B
  <2>1. B \in SUBSET Nat
    BY DEF B
  <2> QED BY <1>1, <1>2, <2>1, CountUp
<1>4. ASSUME NEW j \in Nat PROVE j \in S
  <2>1. j \in B
    BY <1>3
  <2> QED BY <2>1
<1> QED BY <1>4

LEMMA LessLeft ==
    ASSUME NEW num \in Nat, ~ (num < 100000)
    PROVE  num \div 100000 \in Nat /\ num \div 100000 < num
  BY SMTT(60)

(* Every number has decimal digits; one function satisfies put_dec's       *)
(* equation, and whatever satisfies it gives the decimal digits.           *)
LEMMA DecimalExists == \A num \in Nat : \E t : InBase(t, num, 10)
<1> DEFINE S == {num \in Nat : \E t : InBase(t, num, 10)}
<1>1. ASSUME NEW num \in Nat, \A k \in Nat : k < num => k \in S PROVE num \in S
  <2>1. PICK t : ~ (num < 100000) => InBase(t, num \div 100000, 10)
    <3>1. CASE ~ (num < 100000)
      <4>1. num \div 100000 \in S
        BY ONLY <1>1, <3>1, LessLeft, SMT
      <4> QED BY ONLY <4>1, SMT
    <3> QED BY ONLY <3>1, SMT
  <2>2. InBase(Chunks(num, t), num, 10)
    BY ONLY <1>1, <2>1, ChunksAreDecimal, SMT
  <2> QED BY ONLY num \in Nat, <2>2, SMT
<1> HIDE DEF S
<1>2. S \in SUBSET Nat
  BY SMT DEF S
<1>3. S = Nat
  BY ONLY <1>1, <1>2, BelowEach, SMT
<1> QED BY ONLY <1>3, SMT DEF S

LEMMA PutDecExists == \E f : PutDec(f)
<1> DEFINE f == [num \in Nat |-> CHOOSE t : InBase(t, num, 10)]
           g == [num \in Nat |-> Chunks(num, f[num \div 100000])]
<1>1. ASSUME NEW num \in Nat PROVE InBase(f[num], num, 10)
  BY DecimalExists, SMT
<1> HIDE DEF f
<1>2. ASSUME NEW num \in Nat PROVE f[num] = g[num]
  <2>1. ~ (num < 100000) => InBase(f[num \div 100000], num \div 100000, 10)
    BY ONLY num \in Nat, <1>1, LessLeft, SMT
  <2>2. InBase(Chunks(num, f[num \div 100000]), num, 10)
    BY ONLY num \in Nat, <2>1, ChunksAreDecimal, SMT
  <2>3. g[num] = Chunks(num, f[num \div 100000])
    BY SMT
  <2> QED BY ONLY num \in Nat, <1>1, <2>2, <2>3, OneInBase, SMT
<1>3. f = [num \in Nat |-> f[num]] /\ g = [num \in Nat |-> g[num]]
  <2>1. f = [num \in Nat |-> f[num]]
    BY SMT DEF f
  <2>2. g = [num \in Nat |-> g[num]]
    BY SMT
  <2> QED BY ONLY <2>1, <2>2
<1>4. f = g
  <2> HIDE DEF g
  <2> QED BY ONLY <1>2, <1>3, SMT
<1>5. PutDec(f)
  BY ONLY <1>4, SMT DEF PutDec
<1> QED BY ONLY <1>5, SMT

LEMMA PutDecIsDecimal == \A num \in Nat : InBase(put_dec[num], num, 10)
<1> DEFINE f == put_dec
<1>1. PutDec(f)
  <2>1. f = CHOOSE h : PutDec(h)
    BY ONLY SMT DEF put_dec, PutDec, Chunks
  <2> QED BY ONLY <2>1, PutDecExists, SMT
<1> HIDE DEF f
<1> DEFINE S == {num \in Nat : InBase(f[num], num, 10)}
<1>2. ASSUME NEW num \in Nat, \A k \in Nat : k < num => k \in S PROVE num \in S
  <2>1. ~ (num < 100000) => InBase(f[num \div 100000], num \div 100000, 10)
    <3>1. CASE ~ (num < 100000)
      <4>1. num \div 100000 \in S
        BY ONLY <1>2, <3>1, LessLeft, SMT
      <4> QED BY ONLY <4>1, SMT
    <3> QED BY ONLY <3>1, SMT
  <2>2. InBase(Chunks(num, f[num \div 100000]), num, 10)
    BY ONLY num \in Nat, <2>1, ChunksAreDecimal, SMT
  <2>3. f[num] = Chunks(num, f[num \div 100000])
    BY ONLY num \in Nat, <1>1, SMT DEF PutDec
  <2> QED BY ONLY num \in Nat, <2>2, <2>3, SMT
<1> HIDE DEF S
<1>3. S \in SUBSET Nat
  BY SMT DEF S
<1>4. S = Nat
  BY ONLY <1>2, <1>3, BelowEach, SMT
<1> QED BY ONLY <1>4, SMT DEF S, f
-----------------------------------------------------------------------------
(* The same of put_pow2, which takes a digit at a time. *)
Shifted(num, base, rest) ==
    <<(num % 256) % base>> \o IF num \div base = 0 THEN <<>> ELSE rest
PutPow2(f, base) == f = [num \in Nat |-> Shifted(num, base, f[num \div base])]

LEMMA ShiftedIsInBase ==
    ASSUME NEW num \in Nat, NEW base \in {8, 16}, NEW rest,
           Over(num, base) # 0 => InBase(rest, Over(num, base), base)
    PROVE  InBase(Shifted(num, base, rest), num, base)
<1> DEFINE v == <<(num % 256) % base>>
           m == Over(num, base)
           d == Unit(num, base)
<1>1. base \in Bases
  BY SMT DEF Bases
<1>2. (num % 256) % base = d
  <2>1. CASE base = 8
    BY <2>1, SMTT(60) DEF Unit
  <2>2. CASE base = 16
    BY <2>2, SMTT(60) DEF Unit
  <2> QED BY ONLY base \in {8, 16}, <2>1, <2>2
<1>3. m \in Nat /\ d \in 0 .. base - 1 /\ num = base * m + d /\ base \in Nat
  <2>1. base \in Nat
    OBVIOUS
  <2> QED BY ONLY num \in Nat, <1>1, <2>1, Dealt
<1>4. Shifted(num, base, rest) = v \o IF m = 0 THEN <<>> ELSE rest
  BY SMT DEF Shifted, Over
<1> HIDE DEF m, d
<1>5. v \in Seq(Nat) /\ Len(v) = 1 /\ v[1] = d /\ v \o <<>> = v
  BY ONLY <1>2, <1>3, SMT
<1> HIDE DEF v
<1>6. CASE m = 0
  <2>1. Shifted(num, base, rest) = v
    BY ONLY <1>4, <1>5, <1>6
  <2>2. num = d
    BY ONLY <1>3, <1>6, SMT
  <2>3. Ends(v, 1, num, base)
    BY ONLY <1>3, <1>5, <2>2, SMT DEF Ends
  <2> QED BY ONLY <1>1, <2>1, <2>3, LastDigit DEF InBase
<1>7. CASE m # 0
  <2> DEFINE u == v \o rest
  <2>1. Shifted(num, base, rest) = u
    BY ONLY <1>4, <1>7
  <2>2. InBase(rest, m, base)
    BY <1>7 DEF m
  <2>3. DigitsFrom(u, 2, m, base)
    <3>1. DigitsFrom(v \o rest, Len(v) + 1, m, base)
      BY ONLY <1>1, <1>5, <2>2, DigitsBehind, SMT
    <3>2. Len(v) + 1 = 2
      BY ONLY <1>5, SMT
    <3> QED BY ONLY <3>1, <3>2
  <2>4. u[1] = d
    <3>1. rest \in Seq(Nat)
      BY ONLY <2>2 DEF InBase, DigitsFrom
    <3>2. v \in Seq(Nat)
      BY ONLY <1>5
    <3>3. \A j \in 1 .. Len(v) : u[j] = v[j]
      BY ONLY <3>1, <3>2, SMT
    <3> HIDE DEF u
    <3> QED BY ONLY <1>5, <3>3, SMT
  <2> HIDE DEF u
  <2>5. Precedes(u, 1, 2, m, num, base)
    BY ONLY <1>3, <1>7, <2>4, SMT DEF Precedes
  <2>6. DigitsFrom(u, 1, num, base)
    BY ONLY <1>1, <2>3, <2>5, DigitBefore, SMT
  <2>7. InBase(u, num, base)
    BY ONLY <2>6 DEF InBase
  <2> QED BY ONLY <2>1, <2>7
<1> QED BY ONLY <1>6, <1>7

LEMMA LessOver ==
    ASSUME NEW num \in Nat, NEW base \in {8, 16}, Over(num, base) # 0
    PROVE  Over(num, base) \in Nat /\ Over(num, base) < num
<1>1. CASE base = 8
  BY <1>1, SMTT(60) DEF Over
<1>2. CASE base = 16
  BY <1>2, SMTT(60) DEF Over
<1> QED BY ONLY base \in {8, 16}, <1>1, <1>2

LEMMA InBaseExists == \A num \in Nat : \A base \in {8, 16} : \E t : InBase(t, num, base)
<1> SUFFICES ASSUME NEW base \in {8, 16} PROVE \A num \in Nat : \E t : InBase(t, num, base)
  OBVIOUS
<1> DEFINE S == {num \in Nat : \E t : InBase(t, num, base)}
<1>1. ASSUME NEW num \in Nat, \A k \in Nat : k < num => k \in S PROVE num \in S
  <2>1. PICK t : Over(num, base) # 0 => InBase(t, Over(num, base), base)
    <3>1. CASE Over(num, base) # 0
      <4>1. Over(num, base) \in S
        BY ONLY <1>1, <3>1, base \in {8, 16}, LessOver, SMT
      <4> QED BY ONLY <4>1, SMT
    <3> QED BY ONLY <3>1, SMT
  <2>2. InBase(Shifted(num, base, t), num, base)
    BY ONLY <1>1, <2>1, base \in {8, 16}, ShiftedIsInBase, SMT
  <2> QED BY ONLY num \in Nat, <2>2, SMT
<1> HIDE DEF S
<1>2. S \in SUBSET Nat
  BY SMT DEF S
<1>3. S = Nat
  BY ONLY <1>1, <1>2, BelowEach, SMT
<1> QED BY ONLY <1>3, SMT DEF S

LEMMA PutPow2Exists == \A base \in {8, 16} : \E f : PutPow2(f, base)
<1> SUFFICES ASSUME NEW base \in {8, 16} PROVE \E f : PutPow2(f, base)
  OBVIOUS
<1> DEFINE f == [num \in Nat |-> CHOOSE t : InBase(t, num, base)]
           g == [num \in Nat |-> Shifted(num, base, f[num \div base])]
<1>1. ASSUME NEW num \in Nat PROVE InBase(f[num], num, base)
  BY InBaseExists, SMT
<1> HIDE DEF f
<1>2. ASSUME NEW num \in Nat PROVE f[num] = g[num]
  <2>1. Over(num, base) # 0 => InBase(f[Over(num, base)], Over(num, base), base)
    BY ONLY num \in Nat, base \in {8, 16}, <1>1, LessOver, SMT
  <2>2. InBase(Shifted(num, base, f[Over(num, base)]), num, base)
    BY ONLY num \in Nat, base \in {8, 16}, <2>1, ShiftedIsInBase, SMT
  <2>3. g[num] = Shifted(num, base, f[Over(num, base)])
    BY SMT DEF Over
  <2> QED BY ONLY num \in Nat, <1>1, <2>2, <2>3, OneInBase, SMT
<1>3. f = [num \in Nat |-> f[num]] /\ g = [num \in Nat |-> g[num]]
  <2>1. f = [num \in Nat |-> f[num]]
    BY SMT DEF f
  <2>2. g = [num \in Nat |-> g[num]]
    BY SMT
  <2> QED BY ONLY <2>1, <2>2
<1>4. f = g
  <2> HIDE DEF g
  <2> QED BY ONLY <1>2, <1>3, SMT
<1>5. PutPow2(f, base)
  BY ONLY <1>4, SMT DEF PutPow2
<1> QED BY ONLY <1>5, SMT

LEMMA PutPow2IsInBase ==
    ASSUME NEW num \in Nat, NEW base \in {8, 16}
    PROVE  InBase(put_pow2(num, base), num, base)
<1> DEFINE f == CHOOSE h : PutPow2(h, base)
<1>1. put_pow2(num, base) = f[num]
  BY ONLY SMT DEF put_pow2, PutPow2, Shifted
<1>2. PutPow2(f, base)
  BY ONLY base \in {8, 16}, PutPow2Exists, SMT
<1> HIDE DEF f
<1> DEFINE S == {n \in Nat : InBase(f[n], n, base)}
<1>3. ASSUME NEW n \in Nat, \A k \in Nat : k < n => k \in S PROVE n \in S
  <2>1. Over(n, base) # 0 => InBase(f[Over(n, base)], Over(n, base), base)
    <3>1. CASE Over(n, base) # 0
      <4>1. Over(n, base) \in S
        BY ONLY <1>3, <3>1, base \in {8, 16}, LessOver, SMT
      <4> QED BY ONLY <4>1, SMT
    <3> QED BY ONLY <3>1, SMT
  <2>2. InBase(Shifted(n, base, f[Over(n, base)]), n, base)
    BY ONLY n \in Nat, base \in {8, 16}, <2>1, ShiftedIsInBase, SMT
  <2>3. f[n] = Shifted(n, base, f[Over(n, base)])
    BY ONLY n \in Nat, <1>2, SMT DEF PutPow2, Over
  <2> QED BY ONLY n \in Nat, <2>2, <2>3, SMT
<1> HIDE DEF S
<1>4. S \in SUBSET Nat
  BY SMT DEF S
<1>5. S = Nat
  BY ONLY <1>3, <1>4, BelowEach, SMT
<1>6. InBase(f[num], num, base)
  BY ONLY <1>5, num \in Nat, SMT DEF S
<1> QED BY ONLY <1>1, <1>6

(***************************************************************************)
(* The digits that number writes are those of its number, however large,   *)
(* in its base, the least significant first: what dividing by the base     *)
(* gives until nothing is left, one digit for 0, and no zero on top.  For  *)
(* 10 they come from put_dec, which does not divide (vsprintf.c:57-153,    *)
(* 194-211).                                                               *)
(***************************************************************************)
THEOREM DigitsAreTheNumbers ==
    \A num \in Nat : \A base \in Bases : InBase(digits_of(num, base), num, base)
<1> SUFFICES ASSUME NEW num \in Nat, NEW base \in Bases
             PROVE  InBase(digits_of(num, base), num, base)
  OBVIOUS
<1>1. CASE num = 0
  <2>1. digits_of(num, base) = <<0>>
    BY <1>1 DEF digits_of
  <2>2. base \in Nat \ {0}
    BY DEF Bases
  <2>3. Ends(<<0>>, 1, num, base)
    BY ONLY <1>1, <2>2, SMT DEF Ends
  <2> QED BY ONLY base \in Bases, <2>1, <2>3, LastDigit DEF InBase
<1>2. CASE num # 0 /\ base = 10
  <2>1. digits_of(num, base) = put_dec[num]
    BY ONLY <1>2 DEF digits_of
  <2> QED BY ONLY num \in Nat, <1>2, <2>1, PutDecIsDecimal
<1>3. CASE num # 0 /\ base # 10
  <2>1. digits_of(num, base) = put_pow2(num, base)
    BY ONLY <1>3 DEF digits_of
  <2>2. base \in {8, 16}
    BY <1>3 DEF Bases
  <2> QED BY ONLY num \in Nat, <2>1, <2>2, PutPow2IsInBase
<1> QED BY ONLY <1>1, <1>2, <1>3

(* One more than the largest unsigned long of an i386. *)
TwoTo32 == 65536 * 65536

LEMMA TwoTo32IsNat == TwoTo32 \in Nat /\ 1 < TwoTo32
BY SMT DEF TwoTo32

LEMMA Shrinks ==
    ASSUME NEW b \in Bases, NEW n \in Nat, NEW k \in Nat, n < 8 * k
    PROVE  Over(n, b) \in Nat /\ Over(n, b) < k
<1>1. CASE b = 8
  BY <1>1, SMTT(60) DEF Over
<1>2. CASE b = 10
  BY <1>2, SMTT(60) DEF Over
<1>3. CASE b = 16
  BY <1>3, SMTT(60) DEF Over
<1> QED BY <1>1, <1>2, <1>3, SMT DEF Bases

(* A long of 32 bits has at most eleven digits, and number holds 66. *)
LEMMA FewDigits ==
    ASSUME NEW b \in Bases, NEW n \in Nat, n < TwoTo32, NEW u, InBase(u, n, b)
    PROVE  u \in Seq(Nat) /\ Len(u) \in 1 .. 11
<1>1. PICK l \in Nat \ {0} : l = Len(u) /\ u \in Seq(Nat)
  BY SMT DEF InBase, DigitsFrom
<1>2. PICK q : Division(q, u, 1, n, b)
  BY SMT DEF InBase, DigitsFrom
<1>3. /\ q[1] = n /\ \A j \in 1 .. l : q[j + 1] = Over(q[j], b)
      /\ \A j \in 2 .. l : q[j] # 0
  <2>1. 1 + 1 = 2
    BY SMT
  <2> QED BY <1>1, <1>2, <2>1, SMT DEF Division
<1>4. ASSUME l >= 12 PROVE FALSE
  <2>1. /\ q[1] = n /\ q[2] = Over(q[1], b) /\ q[3] = Over(q[2], b) /\ q[4] = Over(q[3], b)
        /\ q[5] = Over(q[4], b) /\ q[6] = Over(q[5], b) /\ q[7] = Over(q[6], b)
        /\ q[8] = Over(q[7], b) /\ q[9] = Over(q[8], b) /\ q[10] = Over(q[9], b)
        /\ q[11] = Over(q[10], b) /\ q[12] = Over(q[11], b) /\ q[12] # 0
    BY <1>3, <1>4, SMT
  <2>2. q[2] \in Nat /\ q[2] < 536870912
    <3>1. n < 8 * 536870912
      BY SMT DEF TwoTo32
    <3> QED BY <2>1, <3>1, Shrinks, SMT
  <2>3. q[3] \in Nat /\ q[3] < 134217728
    BY <2>1, <2>2, Shrinks, SMT
  <2>4. q[4] \in Nat /\ q[4] < 16777216
    BY <2>1, <2>3, Shrinks, SMT
  <2>5. q[5] \in Nat /\ q[5] < 2097152
    BY <2>1, <2>4, Shrinks, SMT
  <2>6. q[6] \in Nat /\ q[6] < 262144
    BY <2>1, <2>5, Shrinks, SMT
  <2>7. q[7] \in Nat /\ q[7] < 32768
    BY <2>1, <2>6, Shrinks, SMT
  <2>8. q[8] \in Nat /\ q[8] < 4096
    BY <2>1, <2>7, Shrinks, SMT
  <2>9. q[9] \in Nat /\ q[9] < 512
    BY <2>1, <2>8, Shrinks, SMT
  <2>10. q[10] \in Nat /\ q[10] < 64
    BY <2>1, <2>9, Shrinks, SMT
  <2>11. q[11] \in Nat /\ q[11] < 8
    BY <2>1, <2>10, Shrinks, SMT
  <2>12. q[12] \in Nat /\ q[12] < 1
    BY <2>1, <2>11, Shrinks, SMT
  <2> QED BY <2>1, <2>12, SMT
<1>5. l < 12 /\ l \in Nat /\ l # 0
  <2>1. l \in Nat /\ l # 0 /\ ~ (l >= 12)
    BY <1>1, <1>4
  <2> QED BY ONLY <2>1, SMT
<1>6. l \in 1 .. 11
  BY ONLY <1>5, SMT
<1>7. Len(u) = l /\ u \in Seq(Nat)
  BY <1>1
<1> HIDE DEF InBase
<1> QED BY ONLY <1>7, <1>6, Zenon

(* s is a sequence of n characters, whatever they are. *)
IsLong(s, n) == n \in Nat /\ \E S : s \in Seq(S) /\ Len(s) = n
Larger(a, b) == IF a < b THEN b ELSE a

LEMMA LongJoined ==
    ASSUME NEW s, NEW t, NEW m, NEW n, IsLong(s, m), IsLong(t, n)
    PROVE  IsLong(s \o t, m + n)
<1>1. PICK S : s \in Seq(S) /\ Len(s) = m
  BY Zenon DEF IsLong
<1>2. PICK T : t \in Seq(T) /\ Len(t) = n
  BY Zenon DEF IsLong
<1> DEFINE B == S \cup T
<1>3. s \in Seq(B) /\ t \in Seq(B)
  <2>1. S \subseteq B /\ T \subseteq B
    OBVIOUS
  <2> HIDE DEF B
  <2> QED BY <1>1, <1>2, <2>1, SMT
<1> HIDE DEF B
<1>4. s \o t \in Seq(B) /\ Len(s \o t) = m + n
  BY <1>1, <1>2, <1>3, SMT
<1>5. m + n \in Nat
  BY SMT DEF IsLong
<1> QED BY <1>4, <1>5, Zenon DEF IsLong

LEMMA LongRow ==
    ASSUME NEW n \in Nat, NEW f, NEW S, f \in [1 .. n -> S]
    PROVE  IsLong(f, n)
<1>1. f \in Seq(S) /\ Len(f) = n
  BY SMT
<1> QED BY <1>1, Zenon DEF IsLong

LEMMA LongChars ==
    ASSUME NEW n \in Int, NEW c
    PROVE  IsLong(Chars(n, c), Larger(0, n))
<1>1. CASE n \in Nat
  <2>1. Larger(0, n) = n
    BY <1>1, SMT DEF Larger
  <2>2. Chars(n, c) \in [1 .. n -> {c}]
    BY <1>1, Zenon DEF Chars
  <2> QED BY <1>1, <2>1, <2>2, LongRow, Zenon
<1>2. CASE n \notin Nat
  <2>1. Larger(0, n) = 0 /\ 1 .. n = 1 .. 0
    BY <1>2, SMT DEF Larger
  <2>2. Chars(n, c) \in [1 .. 0 -> {c}]
    BY <2>1, Zenon DEF Chars
  <2>3. 0 \in Nat
    BY SMT
  <2> QED BY <2>1, <2>2, <2>3, LongRow, Zenon
<1> QED BY <1>1, <1>2
LEMMA ShortText ==
    /\ IsLong(<<>>, 0) /\ Len(<<>>) = 0
    /\ \A c : IsLong(<<c>>, 1) /\ Len(<<c>>) = 1
    /\ \A c, e : IsLong(<<c, e>>, 2) /\ Len(<<c, e>>) = 2
<1>1. <<>> \in Seq({}) /\ Len(<<>>) = 0 /\ 0 \in Nat
  BY SMT
<1>2. \A c : <<c>> \in Seq({c}) /\ Len(<<c>>) = 1 /\ 1 \in Nat
  BY SMT
<1>3. \A c, e : <<c, e>> \in Seq({c, e}) /\ Len(<<c, e>>) = 2 /\ 2 \in Nat
  BY SMT
<1> QED BY <1>1, <1>2, <1>3, Zenon DEF IsLong

LEMMA MaxOfTwo ==
    ASSUME NEW a \in Int, NEW b \in Int
    PROVE  Max({a, b}) = Larger(a, b)
<1> DEFINE P(x) == x \in {a, b} /\ \A y \in {a, b} : x >= y
<1>1. Larger(a, b) \in {a, b} /\ \A y \in {a, b} : Larger(a, b) >= y
  BY SMT DEF Larger
<1>2. \A x \in {a, b} : (\A y \in {a, b} : x >= y) => x = Larger(a, b)
  BY SMT DEF Larger
<1> QED BY <1>1, <1>2, SMT DEF Max

(* What goes before the digits, as wide as number makes it. *)
Flags == {"SIGN", "PLUS", "SPACE", "SPECIAL", "SMALL", "LEFT", "ZEROPAD"}
Negative(num, type) == "SIGN" \in type /\ num >= LongMod \div 2
Magnitude(num, type) == IF Negative(num, type) THEN LongMod - num ELSE num
SignWidth(num, type) ==
    IF "SIGN" \in type /\ (Negative(num, type) \/ "PLUS" \in type \/ "SPACE" \in type) THEN 1 ELSE 0
PrefixWidth(base, type) ==
    IF "SPECIAL" \notin type \/ base = 10 THEN 0 ELSE IF base = 8 THEN 1 ELSE 2

(* The digits of a magnitude of a long: tmp[66] of number holds them.      *)
LEMMA MagnitudeFits ==
    ASSUME LongMod \in 1 .. TwoTo32, NEW num \in 0 .. LongMod - 1, NEW type,
           NEW base \in Bases
    PROVE  LET tmp == digits_of(Magnitude(num, type), base)
           IN  tmp \in Seq(Nat) /\ Len(tmp) \in 1 .. 11
<1> DEFINE m == Magnitude(num, type)
<1>1. m \in Nat /\ m < TwoTo32
  <2>1. CASE Negative(num, type)
    <3>1. num >= LongMod \div 2
      BY <2>1 DEF Negative
    <3>2. m = LongMod - num
      BY <2>1, Zenon DEF Magnitude
    <3>3. CASE LongMod = 1
      <4>1. num = 0 /\ LongMod - num = 1
        BY <3>3, SMT
      <4>2. m = 1
        BY <3>2, <4>1
      <4> HIDE DEF m
      <4> QED BY <4>2, TwoTo32IsNat, SMT
    <3>4. CASE LongMod # 1
      <4>1. LongMod \div 2 \in Nat /\ LongMod \div 2 >= 1
        BY <3>4, SMT
      <4> HIDE DEF m
      <4> QED BY <3>1, <3>2, <4>1, TwoTo32IsNat, SMT
    <3> QED BY <3>3, <3>4
  <2>2. CASE ~ Negative(num, type)
    <3>1. m = num
      BY <2>2, Zenon DEF Magnitude
    <3> HIDE DEF m
    <3> QED BY <3>1, TwoTo32IsNat, SMT
  <2> QED BY <2>1, <2>2
<1> HIDE DEF m
<1>2. InBase(digits_of(m, base), m, base)
  BY <1>1, DigitsAreTheNumbers
<1>3. digits_of(m, base) \in Seq(Nat) /\ Len(digits_of(m, base)) \in 1 .. 11
  BY <1>1, <1>2, FewDigits
<1> QED BY <1>3, Zenon DEF m

(***************************************************************************)
(* What number writes is as wide as its field, and wider only when the     *)
(* sign, the prefix and the digits (or the precision) need more, for every *)
(* number, base, size, precision and set of flags.  The marks are at most  *)
(* three, the digits at most eleven: tmp[66] holds them, and printk's      *)
(* buffer a number whose field it holds (vsprintf.c:155-245).              *)
(***************************************************************************)
THEOREM NumberFillsField ==
    ASSUME LongMod \in 1 .. TwoTo32, NEW num \in 0 .. LongMod - 1,
           NEW base \in Bases, NEW size \in Int, NEW precision \in Int,
           NEW type \in SUBSET Flags
    PROVE  LET digits == Len(digits_of(Magnitude(num, type), base))
               marks == SignWidth(num, type) + PrefixWidth(base, type)
           IN  /\ digits \in 1 .. 11 /\ marks \in 0 .. 3
               /\ IsLong(number(num, base, size, precision, type),
                         Larger(size, marks + Larger(digits, precision)))
<1> DEFINE negative == "SIGN" \in type /\ num >= LongMod \div 2
           sign == IF negative THEN <<"-">>
                   ELSE IF {"SIGN", "PLUS"} \subseteq type THEN <<"+">>
                   ELSE IF {"SIGN", "SPACE"} \subseteq type THEN <<" ">> ELSE <<>>
           tmp == digits_of(IF negative THEN LongMod - num ELSE num, base)
           prefix == IF "SPECIAL" \notin type \/ base = 10 THEN <<>>
                     ELSE IF base = 8 THEN <<"0">>
                     ELSE <<"0", IF "SMALL" \in type THEN "x" ELSE "X">>
           wanted == Max({Len(tmp), precision})
           room == room_for_padding(size, sign, prefix, wanted)
           left == "LEFT" \in type
           zero == "ZEROPAD" \in type /\ ~ left
           row == [i \in 1 .. Len(tmp) |-> DIGITS("SMALL" \in type)[Reverse(tmp)[i] + 1]]
           before == IF left \/ zero THEN 0 ELSE room
           zeros == IF zero THEN room ELSE 0
           behind == IF left THEN room ELSE 0
           s == SignWidth(num, type)
           p == PrefixWidth(base, type)
           d == Len(digits_of(Magnitude(num, type), base))
<1>1. number(num, base, size, precision, type) =
        Chars(before, " ") \o sign \o prefix \o Chars(zeros, "0") \o Chars(wanted - Len(tmp), "0")
        \o row \o Chars(behind, " ")
  BY Zenon DEF number
<1>2. tmp = digits_of(Magnitude(num, type), base) /\ Len(tmp) = d /\ tmp \in Seq(Nat)
      /\ d \in 1 .. 11
  <2>1. tmp = digits_of(Magnitude(num, type), base)
    BY Zenon DEF Magnitude, Negative
  <2> HIDE DEF tmp
  <2> QED BY <2>1, MagnitudeFits
<1>3. IsLong(sign, s) /\ Len(sign) = s /\ s \in 0 .. 1
  <2>1. s = IF negative THEN 1 ELSE IF {"SIGN", "PLUS"} \subseteq type THEN 1
            ELSE IF {"SIGN", "SPACE"} \subseteq type THEN 1 ELSE 0
    BY Zenon DEF SignWidth, Negative
  <2>2. /\ (s = 0 /\ sign = <<>>) \/ (s = 1 /\ \E c : sign = <<c>>)
    <3> HIDE DEF negative, s
    <3> QED BY <2>1, Zenon
  <2> HIDE DEF s, sign
  <2>3. IsLong(sign, s) /\ Len(sign) = s
    BY <2>2, ShortText, Zenon
  <2>4. s \in 0 .. 1
    BY <2>2, SMT
  <2> QED BY <2>3, <2>4
<1>4. IsLong(prefix, p) /\ Len(prefix) = p /\ p \in 0 .. 2
  <2>1. \/ p = 0 /\ prefix = <<>>
        \/ p = 1 /\ \E c : prefix = <<c>>
        \/ p = 2 /\ \E c, e : prefix = <<c, e>>
    BY Zenon DEF PrefixWidth
  <2> HIDE DEF p, prefix
  <2>3. IsLong(prefix, p) /\ Len(prefix) = p
    BY <2>1, ShortText, Zenon
  <2>4. p \in 0 .. 2
    BY <2>1, SMT
  <2> QED BY <2>3, <2>4
<1>5. IsLong(row, d)
  <2> DEFINE S == {DIGITS("SMALL" \in type)[Reverse(tmp)[i] + 1] : i \in 1 .. d}
  <2>1. row \in [1 .. d -> S]
    <3> HIDE DEF tmp
    <3>1. Len(tmp) = d
      BY <1>2
    <3> HIDE DEF d
    <3> QED BY <3>1, Zenon
  <2>2. d \in Nat
    BY <1>2
  <2> HIDE DEF S, row, d
  <2> QED BY <2>1, <2>2, LongRow
<1>6. wanted = Larger(d, precision) /\ wanted \in Int /\ wanted >= d
  <2>1. d \in Int
    BY <1>2
  <2>2. wanted = Larger(d, precision)
    <3> HIDE DEF tmp, d
    <3> QED BY <1>2, <2>1, MaxOfTwo
  <2> HIDE DEF wanted, d
  <2> QED BY <2>1, <2>2, SMT DEF Larger
<1>7. room \in Int /\ room = size - s - p - wanted
  <2> HIDE DEF s, p, sign, prefix, wanted
  <2> QED BY <1>3, <1>4, <1>6, SMT DEF room_for_padding
<1>8. /\ before \in Int /\ zeros \in Int /\ behind \in Int
      /\ Larger(0, before) + Larger(0, zeros) + Larger(0, behind) = Larger(0, room)
  <2> HIDE DEF room
  <2> QED BY <1>7, SMT DEF Larger
<1> HIDE DEF negative, sign, tmp, prefix, wanted, room, row, before, zeros, behind, s, p, d
<1>9. IsLong(Chars(before, " "), Larger(0, before)) /\ IsLong(Chars(zeros, "0"), Larger(0, zeros))
      /\ IsLong(Chars(behind, " "), Larger(0, behind))
      /\ IsLong(Chars(wanted - Len(tmp), "0"), wanted - d)
  <2>1. wanted - d \in Int /\ Larger(0, wanted - d) = wanted - d /\ wanted - Len(tmp) = wanted - d
    BY <1>2, <1>6, SMT DEF Larger
  <2>2. IsLong(Chars(wanted - Len(tmp), "0"), Larger(0, wanted - Len(tmp)))
    BY <2>1, LongChars, Zenon
  <2>3. IsLong(Chars(wanted - Len(tmp), "0"), wanted - d)
    BY <2>1, <2>2, Zenon
  <2> QED BY <1>8, <2>3, LongChars, Zenon
<1>10. IsLong(number(num, base, size, precision, type),
              (((((Larger(0, before) + s) + p) + Larger(0, zeros)) + (wanted - d)) + d) + Larger(0, behind))
  BY <1>1, <1>3, <1>4, <1>5, <1>9, LongJoined, Zenon
<1>11. (((((Larger(0, before) + s) + p) + Larger(0, zeros)) + (wanted - d)) + d) + Larger(0, behind)
         = Larger(size, s + p + Larger(d, precision))
  <2>1. Larger(0, before) \in Int /\ Larger(0, zeros) \in Int /\ Larger(0, behind) \in Int
    BY <1>8, SMT DEF Larger
  <2>2. Larger(0, room) + (s + p + wanted) = Larger(size, s + p + wanted)
    <3>1. s \in Int /\ p \in Int /\ wanted \in Int /\ size \in Int /\ room \in Int
      BY <1>3, <1>4, <1>6, <1>7, SMT
    <3>2. room = size - s - p - wanted
      BY <1>7
    <3> QED BY ONLY <3>1, <3>2, SMT DEF Larger
  <2>3. Larger(size, s + p + wanted) \in Int /\ s \in Int /\ p \in Int /\ d \in Int
    BY <1>2, <1>3, <1>4, <1>6, SMT DEF Larger
  <2>4. Larger(0, before) + Larger(0, zeros) + Larger(0, behind) = Larger(0, room)
    BY <1>8
  <2>5. wanted = Larger(d, precision) /\ wanted \in Int
    BY <1>6
  <2> QED BY ONLY <2>1, <2>2, <2>3, <2>4, <2>5, SMT
<1>12. s + p \in 0 .. 3
  BY <1>3, <1>4, SMT
<1> QED BY <1>2, <1>10, <1>11, <1>12 DEF s, p, d

-----------------------------------------------------------------------------
(* How many characters of a text of n are shown. *)
Part(n, precision) == IF precision < 0 THEN n ELSE Least(precision, n)

LEMMA ShownIsPart ==
    ASSUME NEW S, NEW s \in Seq(S), NEW precision \in Int
    PROVE  /\ shown(s, precision) = SubSeq(s, 1, Part(Len(s), precision))
           /\ IsLong(shown(s, precision), Part(Len(s), precision))
<1>1. Len(s) \in Nat /\ Part(Len(s), precision) \in 0 .. Len(s)
  BY SMT DEF Part, Least
<1>2. shown(s, precision) = SubSeq(s, 1, Part(Len(s), precision))
  <2>1. CASE precision < 0
    <3>1. Part(Len(s), precision) = Len(s) /\ SubSeq(s, 1, Len(s)) = s
      BY <1>1, <2>1, SMT DEF Part
    <3> QED BY <2>1, <3>1, Zenon DEF shown
  <2>2. CASE ~ (precision < 0)
    <3>1. Min({precision, Len(s)}) = Part(Len(s), precision)
      <4>1. Len(s) \in Int
        BY <1>1, SMT
      <4>2. Min({precision, Len(s)}) = Least(precision, Len(s))
        BY <4>1, MinOfTwo
      <4> QED BY <2>2, <4>2, Zenon DEF Part
    <3> QED BY <2>2, <3>1, Zenon DEF shown
  <2> QED BY <2>1, <2>2
<1>3. /\ SubSeq(s, 1, Part(Len(s), precision)) \in Seq(S)
      /\ Len(SubSeq(s, 1, Part(Len(s), precision))) = Part(Len(s), precision)
  <2> DEFINE n == Part(Len(s), precision)
  <2> HIDE DEF n
  <2>1. n \in 0 .. Len(s)
    BY <1>1 DEF n
  <2>2. SubSeq(s, 1, n) \in Seq(S) /\ Len(SubSeq(s, 1, n)) = n
    BY <2>1, SMT
  <2> QED BY <2>2 DEF n
<1>4. Part(Len(s), precision) \in Nat
  BY <1>1, SMT
<1> QED BY <1>2, <1>3, <1>4, Zenon DEF IsLong

(***************************************************************************)
(* A string fills its field and is longer only if what is shown of it is:  *)
(* the beginning that its precision allows (vsprintf.c:247-264).           *)
(***************************************************************************)
THEOREM StringFillsField ==
    ASSUME NEW S, NEW chars \in Seq(S), NEW p, p.width \in Int, p.precision \in Int
    PROVE  IsLong(string(chars, p), Larger(p.width, Part(Len(chars), p.precision)))
<1> DEFINE n == Part(Len(chars), p.precision)
           s == shown(chars, p.precision)
<1>1. IsLong(s, n)
  BY ShownIsPart
<1>2. Len(s) = n /\ n \in Nat
  BY <1>1, Zenon DEF IsLong
<1> HIDE DEF n, s
<1>3. /\ p.width - Len(s) \in Int
      /\ n + Larger(0, p.width - Len(s)) = Larger(p.width, n)
      /\ Larger(0, p.width - Len(s)) + n = Larger(p.width, n)
  BY <1>2, SMT DEF Larger
<1>4. IsLong(Chars(p.width - Len(s), " "), Larger(0, p.width - Len(s)))
  BY <1>3, LongChars, Zenon
<1>5. /\ IsLong(s \o Chars(p.width - Len(s), " "), n + Larger(0, p.width - Len(s)))
      /\ IsLong(Chars(p.width - Len(s), " ") \o s, Larger(0, p.width - Len(s)) + n)
  BY <1>1, <1>4, LongJoined, Zenon
<1>6. IsLong(padded(s, p.width, p.flags), Larger(p.width, n))
  BY <1>3, <1>5, Zenon DEF padded
<1> QED BY <1>6, Zenon DEF string, s, n
=============================================================================
