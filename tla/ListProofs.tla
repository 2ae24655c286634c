----------------------------- MODULE ListProofs -----------------------------
(***************************************************************************)
(* Proofs about the lists of list.h, for any number of entries and heads.  *)
(***************************************************************************)
EXTENDS Lists, TLAPS, FiniteSetTheorems, SequenceTheorems, WellFoundedInduction

-----------------------------------------------------------------------------
LEMMA LeastOf ==
    ASSUME NEW S \in SUBSET Nat, S # {}
    PROVE  Min(S) \in S /\ \A y \in S : Min(S) <= y
<1> DEFINE Less == {p \in Nat \X Nat : p[1] < p[2]}
<1>1. OpToRel(<, Nat) = Less
  BY DEF OpToRel
<1>2. IsWellFoundedOn(Less, Nat)
  BY <1>1, NatLessThanWellFounded
<1>3. PICK x \in S : \A y \in S : <<y, x>> \notin Less
  <2> HIDE DEF Less
  <2> QED BY <1>2, WFMin
<1>4. ASSUME NEW y \in S PROVE x <= y
  <2>1. x \in Nat /\ y \in Nat /\ ~ (y < x)
    BY <1>3
  <2> QED BY <2>1
<1> QED BY <1>3, <1>4 DEF Min

LEMMA RemainderIs ==
    ASSUME NEW n \in Nat \ {0}, NEW q \in Nat, NEW r \in 0 .. n - 1
    PROVE  (n * q + r) % n = r
<1>1. n * q \in Nat
  OBVIOUS
<1> QED BY <1>1

(* The remainder steps through 0 .. n - 1 and begins again.                *)
LEMMA NextRemainder ==
    ASSUME NEW n \in Nat \ {0}, NEW k \in Nat
    PROVE  /\ k % n \in 0 .. n - 1
           /\ (k + 1) % n = IF k % n = n - 1 THEN 0 ELSE (k % n) + 1
           /\ k < n => k % n = k
<1> DEFINE q == k \div n
           r == k % n
<1>1. k = n * q + r /\ q \in Nat /\ r \in 0 .. n - 1
  OBVIOUS
<1>2. CASE r = n - 1
  <2>1. k + 1 = n * (q + 1) + 0 /\ q + 1 \in Nat
    BY <1>1, <1>2
  <2>2. (n * (q + 1) + 0) % n = 0
    BY <2>1, RemainderIs
  <2> QED BY <2>1, <2>2, <1>2
<1>3. CASE r # n - 1
  <2>1. k + 1 = n * q + (r + 1) /\ r + 1 \in 0 .. n - 1
    BY <1>1, <1>3
  <2>2. (n * q + (r + 1)) % n = r + 1
    BY <2>1, <1>1, RemainderIs
  <2> QED BY <2>1, <2>2, <1>3
<1>4. ASSUME k < n PROVE k % n = k
  <2>1. k = n * 0 + k
    OBVIOUS
  <2>2. (n * 0 + k) % n = k
    BY <1>4, RemainderIs
  <2> QED BY <2>1, <2>2
<1> QED BY <1>1, <1>2, <1>3, <1>4

-----------------------------------------------------------------------------
(***************************************************************************)
(* A ring: the head, the entries of a sequence, and the head again, each   *)
(* linked to the next one and back.                                        *)
(***************************************************************************)
Cell(h, s, i) == IF i \in 1 .. Len(s) THEN s[i] ELSE h

Distinct(s) == \A i, j \in 1 .. Len(s) : s[i] = s[j] => i = j

Linking(next, prev, h, s) ==
    \A i \in 0 .. Len(s) :
        next[Cell(h, s, i)] = Cell(h, s, i + 1) /\ prev[Cell(h, s, i + 1)] = Cell(h, s, i)

Ring(mem, h, s) ==
    s \in Seq(Nodes) /\ Distinct(s) /\ Linking(mem.next, mem.prev, h, s)

(* The trail from any place of a ring goes round the ring. *)
LEMMA TrailOfRing ==
    ASSUME NEW h, NEW s \in Seq(Nodes), NEW next, NEW b \in 0 .. Len(s) + 1,
           \A i \in 0 .. Len(s) : next[Cell(h, s, i)] = Cell(h, s, i + 1)
    PROVE  \A k \in Nat : k + b <= Len(s) + 1 =>
               Trail(next, Cell(h, s, b))[k] = Cell(h, s, k + b)
<1> DEFINE n == Len(s) + 1
           a == Cell(h, s, b)
           f == [k \in Nat |-> Cell(h, s, (k + b) % n)]
           at == CHOOSE g : g = [k \in Nat |-> IF k = 0 THEN a ELSE next[g[k - 1]]]
<1>1. n \in Nat \ {0} /\ Len(s) \in Nat /\ b \in Nat /\ b <= n
  OBVIOUS
<1>2. ASSUME NEW k \in Nat PROVE f[k + 1] = next[f[k]]
  <2> DEFINE r == (k + b) % n
             t == ((k + 1) + b) % n
  <2>1. r \in 0 .. n - 1 /\ t = IF r = n - 1 THEN 0 ELSE r + 1
    <3>1. k + b \in Nat /\ (k + 1) + b = (k + b) + 1
      BY <1>1
    <3> HIDE DEF n
    <3> QED BY <3>1, <1>1, NextRemainder
  <2>2. next[Cell(h, s, r)] = Cell(h, s, r + 1)
    <3>1. r \in 0 .. Len(s)
      BY <2>1, <1>1
    <3> HIDE DEF r
    <3> QED BY <3>1
  <2>3. Cell(h, s, r + 1) = Cell(h, s, t)
    BY <2>1, <1>1 DEF Cell
  <2> QED BY <2>2, <2>3
<1>3. f[0] = a
  <2>1. 0 + b = b
    BY <1>1
  <2>2. CASE b = n
    <3>1. n % n = 0
      BY <1>1
    <3> QED BY <3>1, <2>1, <2>2, <1>1 DEF Cell
  <2>3. CASE b # n
    <3>1. b % n = b
      <4>1. b \in Nat /\ b < n
        BY <1>1, <2>3
      <4> HIDE DEF n
      <4> QED BY <4>1, <1>1, NextRemainder
    <3> QED BY <3>1, <2>1
  <2> QED BY <2>2, <2>3
<1>4. f = [k \in Nat |-> IF k = 0 THEN a ELSE next[f[k - 1]]]
  <2>1. ASSUME NEW k \in Nat, k # 0 PROVE f[k] = next[f[k - 1]]
    <3>1. k - 1 \in Nat /\ (k - 1) + 1 = k
      BY <2>1
    <3> HIDE DEF f
    <3> QED BY <3>1, <1>2
  <2>2. f = [k \in Nat |-> f[k]]
    OBVIOUS
  <2> HIDE DEF f
  <2> QED BY <2>1, <2>2, <1>3
<1>5. at = [k \in Nat |-> IF k = 0 THEN a ELSE next[at[k - 1]]]
  <2> HIDE DEF f
  <2> QED BY <1>4
<1>6. \A k \in Nat : at[k] = f[k]
  <2> DEFINE Bad == {k \in Nat : at[k] # f[k]}
  <2> SUFFICES ASSUME Bad # {} PROVE FALSE
    OBVIOUS
  <2> DEFINE c == Min(Bad)
  <2>1. c \in Bad /\ \A y \in Bad : c <= y
    BY LeastOf
  <2> HIDE DEF c, f, at, a
  <2>2. at[0] = a /\ \A k \in Nat \ {0} : at[k] = next[at[k - 1]]
    BY <1>5
  <2>3. c # 0
    BY <2>1, <2>2, <1>3
  <2>4. c - 1 \in Nat /\ c - 1 \notin Bad
    BY <2>1, <2>3
  <2>5. at[c] = next[at[c - 1]] /\ f[c] = next[f[c - 1]]
    <3>1. c \in Nat /\ (c - 1) + 1 = c
      BY <2>1
    <3> QED BY <3>1, <2>2, <2>3, <2>4, <1>2
  <2> QED BY <2>1, <2>4, <2>5
<1>7. Trail(next, a) = at
  BY DEF Trail
<1>8. ASSUME NEW k \in Nat, k + b <= n PROVE f[k] = Cell(h, s, k + b)
  <2>1. CASE k + b = n
    <3>1. n % n = 0
      BY <1>1
    <3> QED BY <3>1, <2>1, <1>1 DEF Cell
  <2>2. CASE k + b # n
    <3>1. k + b \in Nat /\ k + b < n
      BY <2>2, <1>1, <1>8
    <3>2. (k + b) % n = k + b
      <4> HIDE DEF n
      <4> QED BY <3>1, <1>1, NextRemainder
    <3> QED BY <3>1, <3>2
  <2> QED BY <2>1, <2>2
<1> HIDE DEF f, at
<1> QED BY <1>6, <1>7, <1>8, <1>1

(***************************************************************************)
(* Read along one field, a ring is the sequence; along the other, it is    *)
(* the sequence from its end.                                              *)
(***************************************************************************)
LEMMA DistinctFit ==
    ASSUME NEW s \in Seq(Nodes), Distinct(s)
    PROVE  Len(s) <= Cardinality(Nodes) /\ Cardinality(Nodes) \in Nat
<1>1. IsFiniteSet(Nodes)
  BY ListAssumption
<1>2. s \in Injection(1 .. Len(s), Nodes)
  <2>1. s \in [1 .. Len(s) -> Nodes]
    OBVIOUS
  <2> QED BY <2>1 DEF Distinct, Injection, IsInjective
<1>3. Cardinality(1 .. Len(s)) <= Cardinality(Nodes)
  BY <1>1, <1>2, FS_Injection
<1>4. Cardinality(1 .. Len(s)) = Len(s)
  <2>1. 1 \in Int /\ Len(s) \in Nat /\ Len(s) \in Int
    OBVIOUS
  <2>2. Cardinality(1 .. Len(s)) = IF 1 > Len(s) THEN 0 ELSE Len(s) - 1 + 1
    BY <2>1, FS_Interval
  <2> QED BY <2>1, <2>2
<1> QED BY <1>1, <1>3, <1>4, FS_CardinalityType

LEMMA ElementsOfRing ==
    ASSUME NEW mem, NEW h \in Heads, NEW s, Ring(mem, h, s)
    PROVE  Elements(mem, h) = s
<1> DEFINE at == Trail(mem.next, h)
           ends == {k \in 0 .. Cardinality(Nodes) : at[k + 1] \in {h, NULL}}
<1>1. s \in Seq(Nodes) /\ Len(s) \in Nat
  BY DEF Ring
<1>2. Len(s) <= Cardinality(Nodes) /\ Cardinality(Nodes) \in Nat
  BY DistinctFit DEF Ring
<1>3. \A k \in 0 .. Len(s) + 1 : at[k] = Cell(h, s, k)
  <2>1. Cell(h, s, 0) = h /\ 0 \in 0 .. Len(s) + 1
    BY <1>1 DEF Cell
  <2>2. \A k \in Nat : k + 0 <= Len(s) + 1 => at[k] = Cell(h, s, k + 0)
    BY <1>1, <2>1, TrailOfRing DEF Ring, Linking
  <2>3. \A k \in 0 .. Len(s) + 1 : k \in Nat /\ k + 0 = k /\ k <= Len(s) + 1
    BY <1>1
  <2> QED BY <2>2, <2>3
<1> HIDE DEF at
<1>4. at[Len(s) + 1] = h
  BY <1>1, <1>3 DEF Cell
<1>5. ASSUME NEW k \in 1 .. Len(s) PROVE at[k] = s[k] /\ at[k] \notin {h, NULL}
  <2>1. at[k] = s[k] /\ s[k] \in Nodes
    BY <1>1, <1>3 DEF Cell
  <2> QED BY <2>1, ListAssumption
<1>6. Len(s) \in ends /\ \A k \in ends : Len(s) <= k
  <2>1. Len(s) \in ends
    BY <1>1, <1>2, <1>4
  <2>2. ASSUME NEW k \in ends, k < Len(s) PROVE FALSE
    <3>1. k + 1 \in 1 .. Len(s) /\ at[k + 1] \in {h, NULL}
      BY <2>2, <1>1, <1>2
    <3> QED BY <3>1, <1>5
  <2> QED BY <2>1, <2>2, <1>1, <1>2
<1>7. ends \in SUBSET Nat /\ ends # {}
  BY <1>6, <1>2
<1> HIDE DEF ends
<1>8. Min(ends) = Len(s)
  <2>1. Min(ends) \in ends /\ \A y \in ends : Min(ends) <= y
    BY <1>7, LeastOf
  <2>2. Min(ends) \in Nat /\ Len(s) <= Min(ends) /\ Min(ends) <= Len(s)
    BY <2>1, <1>6, <1>7
  <2> QED BY <2>2, <1>1
<1>9. Elements(mem, h) = [k \in 1 .. Len(s) |-> at[k]]
  BY <1>7, <1>8 DEF Elements, at, ends
<1>10. s = [k \in 1 .. Len(s) |-> s[k]]
  BY <1>1
<1> QED BY <1>5, <1>9, <1>10

Backwards(mem) == [next |-> mem.prev, prev |-> mem.next]

LEMMA ReverseIs ==
    ASSUME NEW S, NEW s \in Seq(S)
    PROVE  /\ Reverse(s) \in Seq(S) /\ Len(Reverse(s)) = Len(s)
           /\ \A i \in 1 .. Len(s) : Reverse(s)[i] = s[(Len(s) - i) + 1]
<1>1. \A i \in 1 .. Len(s) : (Len(s) - i) + 1 \in 1 .. Len(s)
  OBVIOUS
<1>2. Reverse(s) \in [1 .. Len(s) -> S]
  BY <1>1 DEF Reverse
<1> QED BY <1>2 DEF Reverse

LEMMA RingBackwards ==
    ASSUME NEW mem, NEW h, NEW s, Ring(mem, h, s)
    PROVE  Ring(Backwards(mem), h, Reverse(s))
<1> DEFINE t == Reverse(s)
           n == Len(s)
<1>1. s \in Seq(Nodes) /\ n \in Nat
  BY DEF Ring
<1>2. t \in Seq(Nodes) /\ Len(t) = n /\ \A i \in 1 .. n : t[i] = s[(n - i) + 1]
  BY <1>1, ReverseIs
<1> HIDE DEF t
<1>3. ASSUME NEW i \in 0 .. n + 1 PROVE Cell(h, t, i) = Cell(h, s, (n - i) + 1)
  BY <1>1, <1>2 DEF Cell
<1>4. Distinct(t)
  <2> SUFFICES ASSUME NEW i \in 1 .. n, NEW j \in 1 .. n, t[i] = t[j] PROVE i = j
    BY <1>2 DEF Distinct
  <2>1. (n - i) + 1 \in 1 .. n /\ (n - j) + 1 \in 1 .. n
    BY <1>1
  <2>2. (n - i) + 1 = (n - j) + 1
    BY <2>1, <1>2 DEF Ring, Distinct
  <2> QED BY <2>2, <1>1
<1>5. ASSUME NEW i \in 0 .. n
      PROVE  /\ mem.prev[Cell(h, t, i)] = Cell(h, t, i + 1)
             /\ mem.next[Cell(h, t, i + 1)] = Cell(h, t, i)
  <2> DEFINE j == n - i
  <2>1. j \in 0 .. n /\ (n - i) + 1 = j + 1 /\ (n - (i + 1)) + 1 = j /\ i + 1 \in 0 .. n + 1
        /\ i \in 0 .. n + 1
    BY <1>1
  <2>2. Cell(h, t, i) = Cell(h, s, j + 1) /\ Cell(h, t, i + 1) = Cell(h, s, j)
    BY <2>1, <1>3
  <2>3. mem.next[Cell(h, s, j)] = Cell(h, s, j + 1) /\ mem.prev[Cell(h, s, j + 1)] = Cell(h, s, j)
    BY <2>1 DEF Ring, Linking
  <2> QED BY <2>2, <2>3
<1>6. Linking(Backwards(mem).next, Backwards(mem).prev, h, t)
  BY <1>2, <1>5 DEF Linking, Backwards
<1> QED BY <1>2, <1>4, <1>6 DEF Ring, t

-----------------------------------------------------------------------------
(***************************************************************************)
(* What the operations do to a ring.                                       *)
(***************************************************************************)
Memory == [next : [Cells -> Cells], prev : [Cells -> Cells]]

(* No two places of a ring are one list_head.                              *)
LEMMA PlacesDiffer ==
    ASSUME NEW h \in Heads, NEW s \in Seq(Nodes), Distinct(s)
    PROVE  /\ \A i \in 0 .. Len(s) + 1 : Cell(h, s, i) \in Cells
           /\ \A i, j \in 0 .. Len(s) : Cell(h, s, i) = Cell(h, s, j) => i = j
           /\ \A i, j \in 1 .. Len(s) + 1 : Cell(h, s, i) = Cell(h, s, j) => i = j
<1>1. \A i \in 1 .. Len(s) : s[i] \in Nodes /\ s[i] # h
  BY ListAssumption
<1> QED BY <1>1 DEF Cell, Cells, Distinct

(* Stores elsewhere leave it as it is. *)
LEMMA RingElsewhere ==
    ASSUME NEW mem, NEW new, NEW h, NEW s, Ring(mem, h, s),
           \A c \in {h} \cup ToSet(s) : new.next[c] = mem.next[c] /\ new.prev[c] = mem.prev[c]
    PROVE  Ring(new, h, s)
<1>1. s \in Seq(Nodes)
  BY DEF Ring
<1>2. \A i \in 0 .. Len(s) + 1 : Cell(h, s, i) \in {h} \cup ToSet(s)
  BY <1>1 DEF Cell, ToSet
<1>3. \A i \in 0 .. Len(s) : i \in 0 .. Len(s) + 1 /\ i + 1 \in 0 .. Len(s) + 1
  BY <1>1
<1> QED BY <1>2, <1>3 DEF Ring, Linking

LEMMA RingFresh ==
    ASSUME NEW mem \in Memory, NEW h \in Heads
    PROVE  Ring(INIT_LIST_HEAD(mem, h), h, <<>>) /\ INIT_LIST_HEAD(mem, h) \in Memory
<1>1. h \in Cells
  BY DEF Cells
<1> QED BY <1>1 DEF Ring, Distinct, Linking, Cell, INIT_LIST_HEAD, Memory

LEMMA RingAdd ==
    ASSUME NEW mem \in Memory, NEW h \in Heads, NEW s, Ring(mem, h, s),
           NEW e \in Nodes, e \notin ToSet(s)
    PROVE  Ring(list_add(mem, e, h), h, <<e>> \o s)
<1> DEFINE t == <<e>> \o s
           n == Len(s)
           first == mem.next[h]
           new == list_add(mem, e, h)
<1>1. s \in Seq(Nodes) /\ n \in Nat /\ Distinct(s)
  BY DEF Ring
<1>2. /\ t \in Seq(Nodes) /\ Len(t) = n + 1 /\ t[1] = e
      /\ \A i \in 2 .. n + 1 : t[i] = s[i - 1]
  BY <1>1
<1> HIDE DEF t
<1>3. /\ Cell(h, t, 0) = h /\ Cell(h, t, 1) = e
      /\ \A i \in 2 .. n + 2 : Cell(h, t, i) = Cell(h, s, i - 1)
  BY <1>1, <1>2 DEF Cell
<1>4. first = Cell(h, s, 1) /\ mem.prev[first] = h
  BY <1>1 DEF Ring, Linking, Cell
<1>5. e # h /\ \A i \in 0 .. n + 1 : Cell(h, s, i) # e
  BY <1>1, ListAssumption DEF Cell, ToSet
<1>6. Distinct(t)
  <2>1. \A i \in 1 .. n : s[i] # e
    BY <1>1 DEF ToSet
  <2> SUFFICES ASSUME NEW i \in 1 .. n + 1, NEW j \in 1 .. n + 1, t[i] = t[j] PROVE i = j
    BY <1>2 DEF Distinct
  <2>2. i # 1 => t[i] = s[i - 1] /\ i - 1 \in 1 .. n
    BY <1>1, <1>2
  <2>3. j # 1 => t[j] = s[j - 1] /\ j - 1 \in 1 .. n
    BY <1>1, <1>2
  <2>4. i # 1 /\ j # 1 => i - 1 = j - 1
    BY <2>2, <2>3, <1>1 DEF Distinct
  <2> QED BY <2>1, <2>2, <2>3, <2>4, <1>2
<1>7. e \in Cells /\ h \in Cells /\ first \in Cells
  BY DEF Memory, Cells
<1>8. /\ \A i \in 0 .. n + 1 : Cell(h, s, i) \in Cells
      /\ \A i, j \in 0 .. n : Cell(h, s, i) = Cell(h, s, j) => i = j
      /\ \A i, j \in 1 .. n + 1 : Cell(h, s, i) = Cell(h, s, j) => i = j
  BY <1>1, PlacesDiffer
<1>9. /\ new.next = [mem.next EXCEPT ![e] = first, ![h] = e]
      /\ new.prev = [mem.prev EXCEPT ![first] = e, ![e] = h]
  BY DEF list_add, list_insert
<1>10. ASSUME NEW c \in Cells
       PROVE  /\ new.next[c] = IF c = h THEN e ELSE IF c = e THEN first ELSE mem.next[c]
              /\ new.prev[c] = IF c = e THEN h ELSE IF c = first THEN e ELSE mem.prev[c]
  BY <1>9 DEF Memory
<1> HIDE DEF new, first
<1>11. ASSUME NEW i \in 0 .. n + 1
       PROVE  new.next[Cell(h, t, i)] = Cell(h, t, i + 1) /\ new.prev[Cell(h, t, i + 1)] = Cell(h, t, i)
  <2>1. CASE i = 0
    BY <2>1, <1>3, <1>5, <1>7, <1>10
  <2>2. CASE i = 1
    <3>1. Cell(h, t, 2) = first
      BY <1>1, <1>3, <1>4
    <3>2. first # e
      BY <1>4, <1>5, <1>1
    <3> QED BY <3>1, <3>2, <2>2, <1>3, <1>5, <1>7, <1>10
  <2>3. CASE i \in 2 .. n + 1
    <3> DEFINE j == i - 1
    <3>1. j \in 1 .. n /\ i + 1 \in 2 .. n + 2 /\ (i + 1) - 1 = j + 1 /\ j \in 0 .. n
          /\ j \in 0 .. n + 1 /\ j + 1 \in 0 .. n + 1 /\ j + 1 \in 1 .. n + 1 /\ j # 0 /\ j + 1 # 1
          /\ 0 \in 0 .. n /\ 1 \in 1 .. n + 1
      BY <2>3, <1>1
    <3>2. Cell(h, t, i) = Cell(h, s, j) /\ Cell(h, t, i + 1) = Cell(h, s, j + 1)
      BY <2>3, <3>1, <1>3
    <3>3. mem.next[Cell(h, s, j)] = Cell(h, s, j + 1) /\ mem.prev[Cell(h, s, j + 1)] = Cell(h, s, j)
      BY <3>1 DEF Ring, Linking
    <3>4. Cell(h, s, 0) = h
      BY DEF Cell
    <3>5. Cell(h, s, j) # h /\ Cell(h, s, j + 1) # first
      BY <3>1, <3>4, <1>4, <1>8
    <3> HIDE DEF j
    <3>6. Cell(h, s, j) # e /\ Cell(h, s, j + 1) # e /\ Cell(h, s, j) \in Cells /\ Cell(h, s, j + 1) \in Cells
      BY <3>1, <1>5, <1>8
    <3> QED BY <3>2, <3>3, <3>5, <3>6, <1>10
  <2> QED BY <2>1, <2>2, <2>3, <1>1
<1> QED BY <1>2, <1>6, <1>11 DEF Ring, Linking, t, new

(* Adding at the tail is adding at the head of the list read backwards.    *)
LEMMA RingAddTail ==
    ASSUME NEW mem \in Memory, NEW h \in Heads, NEW s, Ring(mem, h, s),
           NEW e \in Nodes, e \notin ToSet(s)
    PROVE  Ring(list_add_tail(mem, e, h), h, s \o <<e>>)
<1> DEFINE back == Backwards(mem)
           r == Reverse(s)
           new == list_add(back, e, h)
<1>1. s \in Seq(Nodes) /\ Len(s) \in Nat
  BY DEF Ring
<1>2. r \in Seq(Nodes) /\ Len(r) = Len(s) /\ \A i \in 1 .. Len(s) : r[i] = s[(Len(s) - i) + 1]
  BY <1>1, ReverseIs
<1>3. back \in Memory /\ Ring(back, h, r)
  BY RingBackwards DEF Backwards, Memory
<1>4. e \notin ToSet(r)
  <2>1. \A i \in 1 .. Len(s) : (Len(s) - i) + 1 \in 1 .. Len(s)
    BY <1>1
  <2> HIDE DEF r
  <2> SUFFICES ASSUME NEW i \in DOMAIN r, r[i] = e PROVE FALSE
    BY DEF ToSet
  <2>2. i \in 1 .. Len(s) /\ s[(Len(s) - i) + 1] = e
    BY <1>2
  <2> QED BY <2>1, <2>2, <1>1 DEF ToSet
<1>5. Ring(new, h, <<e>> \o r)
  <2> HIDE DEF back, r
  <2> QED BY <1>3, <1>4, RingAdd
<1>6. Ring(Backwards(new), h, Reverse(<<e>> \o r))
  <2> HIDE DEF new, r
  <2> QED BY <1>5, RingBackwards
<1>7. Backwards(new) = list_add_tail(mem, e, h)
  <2> DEFINE p == mem.prev[h]
  <2>1. e # h /\ e # p
    <3>1. p = Cell(h, s, Len(s))
      BY <1>1 DEF Ring, Linking, Cell
    <3> QED BY <3>1, <1>1, ListAssumption DEF Cell, ToSet
  <2>2. e \in Cells /\ h \in Cells /\ p \in Cells
    BY DEF Memory, Cells
  <2>3. [mem.next EXCEPT ![p] = e, ![e] = h] = [mem.next EXCEPT ![e] = h, ![p] = e]
    BY <2>1, <2>2 DEF Memory
  <2>4. [mem.prev EXCEPT ![e] = p, ![h] = e] = [mem.prev EXCEPT ![h] = e, ![e] = p]
    BY <2>1, <2>2 DEF Memory
  <2> QED BY <2>3, <2>4 DEF Backwards, list_add, list_add_tail, list_insert
<1>8. Reverse(<<e>> \o r) = s \o <<e>>
  <2> DEFINE t == <<e>> \o r
             u == s \o <<e>>
             n == Len(s)
  <2>1. /\ t \in Seq(Nodes) /\ Len(t) = n + 1 /\ t[1] = e
        /\ \A i \in 2 .. n + 1 : t[i] = r[i - 1]
    <3> HIDE DEF r
    <3> QED BY <1>1, <1>2
  <2>2. /\ u \in Seq(Nodes) /\ Len(u) = n + 1 /\ u[n + 1] = e
        /\ \A i \in 1 .. n : u[i] = s[i]
    BY <1>1
  <2>3. /\ Reverse(t) \in Seq(Nodes) /\ Len(Reverse(t)) = n + 1
        /\ \A i \in 1 .. n + 1 : Reverse(t)[i] = t[((n + 1) - i) + 1]
    <3>1. t \in Seq(Nodes) /\ Len(t) = n + 1
      BY <2>1
    <3> HIDE DEF t, n
    <3> QED BY <3>1, ReverseIs
  <2> HIDE DEF t, u, r
  <2>4. ASSUME NEW i \in 1 .. n + 1 PROVE Reverse(t)[i] = u[i]
    <3>1. CASE i = n + 1
      <4>1. ((n + 1) - i) + 1 = 1
        BY <3>1, <1>1
      <4> QED BY <4>1, <3>1, <2>1, <2>2, <2>3
    <3>2. CASE i # n + 1
      <4> DEFINE j == ((n + 1) - i) + 1
      <4>1. j \in 2 .. n + 1 /\ j - 1 \in 1 .. n /\ (n - (j - 1)) + 1 = i /\ i \in 1 .. n
        BY <3>2, <1>1
      <4>2. t[j] = r[j - 1] /\ r[j - 1] = s[i]
        BY <4>1, <2>1, <1>2
      <4> QED BY <4>1, <4>2, <2>2, <2>3
    <3> QED BY <3>1, <3>2
  <2>5. Reverse(t) = u
    BY <2>2, <2>3, <2>4, SeqEqual
  <2> QED BY <2>5 DEF t, u
<1> QED BY <1>6, <1>7, <1>8

(* Without the element at one place. *)
LEMMA RemoveAtIs ==
    ASSUME NEW S, NEW s \in Seq(S), NEW i \in 1 .. Len(s)
    PROVE  /\ RemoveAt(s, i) \in Seq(S) /\ Len(RemoveAt(s, i)) = Len(s) - 1
           /\ \A j \in 1 .. Len(s) - 1 : RemoveAt(s, i)[j] = IF j < i THEN s[j] ELSE s[j + 1]
<1> DEFINE n == Len(s)
           a == SubSeq(s, 1, i - 1)
           b == SubSeq(s, i + 1, n)
<1>0. n \in Nat \ {0} /\ i \in Nat
  OBVIOUS
<1>1. a \in Seq(S) /\ Len(a) = i - 1 /\ \A j \in 1 .. i - 1 : a[j] = s[j]
  BY <1>0
<1>2. b \in Seq(S) /\ Len(b) = n - i /\ \A j \in 1 .. n - i : b[j] = s[i + j]
  <2>1. \A j \in i + 1 .. n : s[j] \in S
    BY <1>0
  <2> QED BY <1>0, <2>1
<1> HIDE DEF a, b
<1>3. /\ a \o b \in Seq(S) /\ Len(a \o b) = n - 1
      /\ \A j \in 1 .. n - 1 : (a \o b)[j] = IF j <= i - 1 THEN a[j] ELSE b[j - (i - 1)]
  BY <1>0, <1>1, <1>2
<1>4. ASSUME NEW j \in 1 .. n - 1 PROVE (a \o b)[j] = IF j < i THEN s[j] ELSE s[j + 1]
  <2>1. CASE j < i
    <3>1. j \in 1 .. i - 1 /\ j <= i - 1
      BY <2>1, <1>0
    <3> QED BY <3>1, <2>1, <1>1, <1>3
  <2>2. CASE j >= i
    <3> DEFINE k == j - (i - 1)
    <3>1. k \in 1 .. n - i /\ i + k = j + 1 /\ ~ (j <= i - 1) /\ ~ (j < i)
      BY <2>2, <1>0
    <3>2. (a \o b)[j] = b[k]
      BY <3>1, <1>3
    <3> HIDE DEF k
    <3>3. b[k] = s[i + k]
      BY <3>1, <1>2
    <3>4. b[k] = s[j + 1]
      BY <3>1, <3>3
    <3> QED BY <3>1, <3>2, <3>4
  <2>3. j < i \/ j >= i
    BY <1>0
  <2> QED BY <2>1, <2>2, <2>3
<1> QED BY <1>3, <1>4 DEF RemoveAt, a, b

LEMMA RingUnlink ==
    ASSUME NEW mem \in Memory, NEW h \in Heads, NEW s, Ring(mem, h, s), NEW i \in 1 .. Len(s)
    PROVE  Ring(list_unlink(mem, mem.prev[s[i]], mem.next[s[i]]), h, RemoveAt(s, i))
<1> DEFINE t == RemoveAt(s, i)
           n == Len(s)
           new == list_unlink(mem, mem.prev[s[i]], mem.next[s[i]])
<1>1. s \in Seq(Nodes) /\ n \in Nat \ {0} /\ i \in Nat /\ Distinct(s)
  BY DEF Ring
<1>2. /\ t \in Seq(Nodes) /\ Len(t) = n - 1
      /\ \A j \in 1 .. n - 1 : t[j] = IF j < i THEN s[j] ELSE s[j + 1]
  BY <1>1, RemoveAtIs
<1> HIDE DEF t
<1>3. ASSUME NEW j \in 0 .. n PROVE Cell(h, t, j) = IF j < i THEN Cell(h, s, j) ELSE Cell(h, s, j + 1)
  BY <1>1, <1>2 DEF Cell
<1>4. Distinct(t)
  <2> SUFFICES ASSUME NEW j \in 1 .. n - 1, NEW k \in 1 .. n - 1, t[j] = t[k] PROVE j = k
    BY <1>2 DEF Distinct
  <2> DEFINE p == IF j < i THEN j ELSE j + 1
             q == IF k < i THEN k ELSE k + 1
  <2>1. p \in 1 .. n /\ q \in 1 .. n /\ t[j] = s[p] /\ t[k] = s[q]
    BY <1>1, <1>2
  <2>2. p = q
    BY <2>1, <1>1 DEF Distinct
  <2> QED BY <2>2, <1>1
<1>5. /\ \A j \in 0 .. n + 1 : Cell(h, s, j) \in Cells
      /\ \A j, k \in 0 .. n : Cell(h, s, j) = Cell(h, s, k) => j = k
      /\ \A j, k \in 1 .. n + 1 : Cell(h, s, j) = Cell(h, s, k) => j = k
  BY <1>1, PlacesDiffer
<1>6. \A j \in 0 .. n : /\ mem.next[Cell(h, s, j)] = Cell(h, s, j + 1)
                        /\ mem.prev[Cell(h, s, j + 1)] = Cell(h, s, j)
  BY DEF Ring, Linking
<1>7. mem.prev[s[i]] = Cell(h, s, i - 1) /\ mem.next[s[i]] = Cell(h, s, i + 1)
  <2>1. Cell(h, s, i) = s[i] /\ i - 1 \in 0 .. n /\ i \in 0 .. n /\ (i - 1) + 1 = i
    BY <1>1 DEF Cell
  <2> QED BY <2>1, <1>6
<1>8. /\ new.next = [mem.next EXCEPT ![Cell(h, s, i - 1)] = Cell(h, s, i + 1)]
      /\ new.prev = [mem.prev EXCEPT ![Cell(h, s, i + 1)] = Cell(h, s, i - 1)]
  BY <1>7 DEF list_unlink
<1>9. ASSUME NEW c \in Cells
      PROVE  /\ new.next[c] = IF c = Cell(h, s, i - 1) THEN Cell(h, s, i + 1) ELSE mem.next[c]
             /\ new.prev[c] = IF c = Cell(h, s, i + 1) THEN Cell(h, s, i - 1) ELSE mem.prev[c]
  BY <1>8 DEF Memory
<1> HIDE DEF new
<1>10. ASSUME NEW j \in 0 .. n - 1
       PROVE  new.next[Cell(h, t, j)] = Cell(h, t, j + 1) /\ new.prev[Cell(h, t, j + 1)] = Cell(h, t, j)
  <2>0. j \in 0 .. n /\ j + 1 \in 0 .. n /\ i - 1 \in 0 .. n /\ i + 1 \in 1 .. n + 1 /\ i - 1 \in 0 .. n + 1
        /\ j + 1 \in 1 .. n + 1 /\ j \in Nat /\ j \in 0 .. n + 1 /\ j + 1 \in 0 .. n + 1 /\ i + 1 \in 0 .. n + 1
    BY <1>1
  <2>1. CASE j < i - 1
    <3>1. j < i /\ j + 1 < i /\ j # i - 1 /\ j + 1 # i + 1
      BY <2>1, <1>1
    <3>2. Cell(h, t, j) = Cell(h, s, j) /\ Cell(h, t, j + 1) = Cell(h, s, j + 1)
      BY <3>1, <2>0, <1>3
    <3>3. Cell(h, s, j) # Cell(h, s, i - 1) /\ Cell(h, s, j + 1) # Cell(h, s, i + 1)
      BY <3>1, <2>0, <1>5
    <3> QED BY <3>2, <3>3, <2>0, <1>5, <1>6, <1>9
  <2>2. CASE j = i - 1
    <3>1. j < i /\ j + 1 = i
      BY <2>2, <1>1
    <3>2. Cell(h, t, j) = Cell(h, s, i - 1) /\ Cell(h, t, j + 1) = Cell(h, s, i + 1)
      BY <3>1, <2>2, <2>0, <1>3
    <3> QED BY <3>2, <2>0, <1>5, <1>9
  <2>3. CASE j >= i
    <3>1. ~ (j < i) /\ ~ (j + 1 < i) /\ j + 1 # i - 1 /\ (j + 1) + 1 # i + 1
          /\ (j + 1) + 1 \in 1 .. n + 1 /\ (j + 1) + 1 \in 0 .. n + 1
      BY <2>3, <2>0, <1>1
    <3>2. Cell(h, t, j) = Cell(h, s, j + 1) /\ Cell(h, t, j + 1) = Cell(h, s, (j + 1) + 1)
      BY <3>1, <2>0, <1>3
    <3>3. Cell(h, s, j + 1) # Cell(h, s, i - 1) /\ Cell(h, s, (j + 1) + 1) # Cell(h, s, i + 1)
      BY <3>1, <2>0, <1>5
    <3> QED BY <3>1, <3>2, <3>3, <2>0, <1>5, <1>6, <1>9
  <2> QED BY <2>1, <2>2, <2>3, <1>1
<1> QED BY <1>2, <1>4, <1>10 DEF Ring, Linking, t, new

(* A list that is not empty goes in front of another's entries. *)
LEMMA RingJoin ==
    ASSUME NEW mem \in Memory, NEW g \in Heads, NEW h \in Heads, g # h,
           NEW s, Ring(mem, g, s), s # <<>>, NEW t, Ring(mem, h, t),
           ToSet(s) \cap ToSet(t) = {}
    PROVE  Ring(list_join(mem, g, h), h, s \o t)
<1> DEFINE u == s \o t
           n == Len(s)
           k == Len(t)
           first == mem.next[g]
           last == mem.prev[g]
           at == mem.next[h]
           new == list_join(mem, g, h)
<1>1. /\ s \in Seq(Nodes) /\ n \in Nat \ {0} /\ Distinct(s)
      /\ t \in Seq(Nodes) /\ k \in Nat /\ Distinct(t)
  BY DEF Ring
<1>2. /\ u \in Seq(Nodes) /\ Len(u) = n + k
      /\ \A i \in 1 .. n : u[i] = s[i]
      /\ \A i \in n + 1 .. n + k : u[i] = t[i - n]
  BY <1>1
<1> HIDE DEF u
<1>3. /\ Cell(h, u, 0) = h
      /\ \A i \in 1 .. n : Cell(h, u, i) = Cell(g, s, i) /\ Cell(h, u, i) = s[i]
      /\ \A i \in n + 1 .. n + k + 1 : Cell(h, u, i) = Cell(h, t, i - n)
  BY <1>1, <1>2 DEF Cell
<1>4. first = s[1] /\ last = s[n] /\ at = Cell(h, t, 1) /\ mem.prev[at] = h
  <2>1. /\ Cell(g, s, 0) = g /\ Cell(g, s, 1) = s[1] /\ Cell(g, s, n) = s[n] /\ Cell(g, s, n + 1) = g
        /\ Cell(h, t, 0) = h
    BY <1>1 DEF Cell
  <2>2. 0 \in 0 .. n /\ n \in 0 .. n /\ 0 \in 0 .. k /\ 0 + 1 = 1
    BY <1>1
  <2> QED BY <2>1, <2>2 DEF Ring, Linking
<1>5. ASSUME NEW i \in 1 .. n, NEW j \in 0 .. k + 1 PROVE s[i] # Cell(h, t, j) /\ s[i] # h
  <2>1. s[i] \in Nodes /\ s[i] \in ToSet(s) /\ s[i] # h
    BY <1>1, ListAssumption DEF ToSet
  <2>2. Cell(h, t, j) \in {h} \cup ToSet(t)
    BY <1>1 DEF Cell, ToSet
  <2> QED BY <2>1, <2>2
<1>6. Distinct(u)
  <2> SUFFICES ASSUME NEW i \in 1 .. n + k, NEW j \in 1 .. n + k, u[i] = u[j] PROVE i = j
    BY <1>2 DEF Distinct
  <2>0. ASSUME NEW x \in 1 .. n, NEW y \in n + 1 .. n + k PROVE u[x] # u[y]
    <3>1. u[x] = s[x] /\ u[y] = t[y - n] /\ y - n \in 1 .. k
      BY <1>1, <1>2
    <3>2. s[x] \in ToSet(s) /\ t[y - n] \in ToSet(t)
      BY <3>1, <1>1 DEF ToSet
    <3> QED BY <3>1, <3>2
  <2>1. CASE i \in 1 .. n /\ j \in 1 .. n
    BY <2>1, <1>1, <1>2 DEF Distinct
  <2>2. CASE i \in n + 1 .. n + k /\ j \in n + 1 .. n + k
    <3>1. i - n \in 1 .. k /\ j - n \in 1 .. k /\ t[i - n] = t[j - n]
      BY <2>2, <1>1, <1>2
    <3>2. i - n = j - n
      BY <3>1, <1>1 DEF Distinct
    <3> QED BY <3>2, <1>1
  <2>3. i \in 1 .. n \/ i \in n + 1 .. n + k
    BY <1>1
  <2>4. j \in 1 .. n \/ j \in n + 1 .. n + k
    BY <1>1
  <2> QED BY <2>0, <2>1, <2>2, <2>3, <2>4
<1>7. /\ \A i \in 0 .. k + 1 : Cell(h, t, i) \in Cells
      /\ \A i, j \in 0 .. k : Cell(h, t, i) = Cell(h, t, j) => i = j
      /\ \A i, j \in 1 .. k + 1 : Cell(h, t, i) = Cell(h, t, j) => i = j
  BY <1>1, PlacesDiffer
<1>8. /\ new.next = [[mem.next EXCEPT ![h] = first] EXCEPT ![last] = at]
      /\ new.prev = [[mem.prev EXCEPT ![first] = h] EXCEPT ![at] = last]
  BY DEF list_join
<1>9. ASSUME NEW c \in Cells
      PROVE  /\ new.next[c] = IF c = last THEN at ELSE IF c = h THEN first ELSE mem.next[c]
             /\ new.prev[c] = IF c = at THEN last ELSE IF c = first THEN h ELSE mem.prev[c]
  BY <1>8 DEF Memory
<1>10. /\ h \in Cells /\ \A i \in 1 .. n : s[i] \in Cells
       /\ 1 \in 1 .. n /\ n \in 1 .. n /\ 1 \in 0 .. k + 1 /\ 0 \in 0 .. k
       /\ Cell(h, t, 0) = h
  BY <1>1 DEF Cells, Cell
<1> HIDE DEF new, first, last, at
<1>11. ASSUME NEW i \in 0 .. n + k
       PROVE  new.next[Cell(h, u, i)] = Cell(h, u, i + 1) /\ new.prev[Cell(h, u, i + 1)] = Cell(h, u, i)
  <2>1. CASE i = 0
    <3>1. Cell(h, u, 1) = s[1]
      BY <1>3, <1>10
    <3>2. h # last /\ s[1] # at
      BY <1>4, <1>5, <1>10
    <3> QED BY <3>1, <3>2, <2>1, <1>3, <1>4, <1>9, <1>10
  <2>2. CASE i \in 1 .. n - 1
    <3>1. i \in 1 .. n /\ i + 1 \in 1 .. n /\ i \in 0 .. n /\ i # n /\ i + 1 # 1
      BY <2>2, <1>1
    <3>2. /\ Cell(h, u, i) = s[i] /\ Cell(h, u, i + 1) = s[i + 1]
          /\ Cell(g, s, i) = s[i] /\ Cell(g, s, i + 1) = s[i + 1]
      BY <3>1, <1>3
    <3>3. mem.next[s[i]] = s[i + 1] /\ mem.prev[s[i + 1]] = s[i]
      BY <3>1, <3>2 DEF Ring, Linking
    <3>4. s[i] # last /\ s[i] # h /\ s[i + 1] # at /\ s[i + 1] # first
      BY <3>1, <1>1, <1>4, <1>5, <1>10 DEF Distinct
    <3> QED BY <3>1, <3>2, <3>3, <3>4, <1>9, <1>10
  <2>3. CASE i = n
    <3>1. i + 1 \in n + 1 .. n + k + 1 /\ (i + 1) - n = 1
      BY <2>3, <1>1
    <3>2. Cell(h, u, i) = last /\ Cell(h, u, i + 1) = at
      BY <3>1, <2>3, <1>3, <1>4, <1>10
    <3> QED BY <3>2, <1>4, <1>7, <1>9, <1>10
  <2>4. CASE i \in n + 1 .. n + k
    <3> DEFINE j == i - n
    <3>1. j \in 1 .. k /\ j \in 0 .. k /\ j + 1 \in 1 .. k + 1 /\ j + 1 \in 0 .. k + 1 /\ j \in 0 .. k + 1
          /\ i \in n + 1 .. n + k + 1 /\ i + 1 \in n + 1 .. n + k + 1 /\ (i + 1) - n = j + 1
          /\ j # 0 /\ j + 1 # 1 /\ 1 \in 1 .. k + 1
      BY <2>4, <1>1
    <3>2. Cell(h, u, i) = Cell(h, t, j) /\ Cell(h, u, i + 1) = Cell(h, t, j + 1)
      BY <3>1, <1>3
    <3> HIDE DEF j
    <3>3. mem.next[Cell(h, t, j)] = Cell(h, t, j + 1) /\ mem.prev[Cell(h, t, j + 1)] = Cell(h, t, j)
      BY <3>1 DEF Ring, Linking
    <3>4. Cell(h, t, j) # h /\ Cell(h, t, j + 1) # at
      BY <3>1, <1>4, <1>7, <1>10
    <3>5. Cell(h, t, j) # last /\ Cell(h, t, j + 1) # first
      BY <3>1, <1>4, <1>5, <1>10
    <3> QED BY <3>1, <3>2, <3>3, <3>4, <3>5, <1>7, <1>9
  <2>5. i = 0 \/ i \in 1 .. n - 1 \/ i = n \/ i \in n + 1 .. n + k
    BY <1>1
  <2> QED BY <2>1, <2>2, <2>3, <2>4, <2>5
<1> QED BY <1>2, <1>6, <1>11 DEF Ring, Linking, u, new

-----------------------------------------------------------------------------
(***************************************************************************)
(* The lists of several heads in one memory: rings that share no entry.    *)
(***************************************************************************)
Contents(us) == {ls \in [Heads -> Seq(Nodes)] :
                    \A g, h \in us : g # h => ToSet(ls[g]) \cap ToSet(ls[h]) = {}}

Holds(mem, us, ls) ==
    mem \in Memory /\ ls \in Contents(us) /\ \A h \in us : Ring(mem, h, ls[h])

(* What is stored in h, its entries and a free entry is no other list's business. *)
LEMMA OthersKept ==
    ASSUME NEW us \in SUBSET Heads, NEW ls, NEW mem, Holds(mem, us, ls),
           NEW h \in us, NEW e \in Nodes, \A g \in us : g # h => e \notin ToSet(ls[g]),
           NEW new \in Memory,
           \A c \in Cells : c \notin {h, e} \cup ToSet(ls[h]) =>
               new.next[c] = mem.next[c] /\ new.prev[c] = mem.prev[c],
           NEW s \in Seq(Nodes), Ring(new, h, s), ToSet(s) \subseteq ToSet(ls[h]) \cup {e}
    PROVE  Holds(new, us, [ls EXCEPT ![h] = s])
<1> DEFINE after == [ls EXCEPT ![h] = s]
<1>1. /\ ls \in [Heads -> Seq(Nodes)] /\ h \in Heads
      /\ \A f, g \in us : f # g => ToSet(ls[f]) \cap ToSet(ls[g]) = {}
  BY DEF Holds, Contents
<1>2. after \in [Heads -> Seq(Nodes)] /\ after[h] = s /\ \A g \in us : g # h => after[g] = ls[g]
  BY <1>1
<1> HIDE DEF after
<1>3. ASSUME NEW g \in us, g # h PROVE Ring(new, g, after[g]) /\ ToSet(after[g]) \cap ToSet(s) = {}
  <2>1. after[g] = ls[g] /\ ls[g] \in Seq(Nodes) /\ Ring(mem, g, ls[g])
    BY <1>1, <1>2, <1>3 DEF Holds
  <2>2. ToSet(ls[g]) \subseteq Nodes
    <3>1. DOMAIN ls[g] = 1 .. Len(ls[g]) /\ \A i \in 1 .. Len(ls[g]) : ls[g][i] \in Nodes
      BY <2>1
    <3> QED BY <3>1 DEF ToSet
  <2>3. ToSet(ls[g]) \cap ({h, e} \cup ToSet(ls[h])) = {}
    BY <1>1, <1>3, <2>2, ListAssumption
  <2>4. g \notin {h, e} \cup ToSet(ls[h])
    <3>1. DOMAIN ls[h] = 1 .. Len(ls[h]) /\ \A i \in 1 .. Len(ls[h]) : ls[h][i] \in Nodes
      BY <1>1
    <3>2. ToSet(ls[h]) \subseteq Nodes
      BY <3>1 DEF ToSet
    <3> QED BY <3>2, <1>3, ListAssumption
  <2>5. \A c \in {g} \cup ToSet(ls[g]) : c \in Cells /\ c \notin {h, e} \cup ToSet(ls[h])
    BY <2>2, <2>3, <2>4 DEF Cells
  <2>6. Ring(new, g, ls[g])
    BY <2>1, <2>5, RingElsewhere
  <2> QED BY <2>1, <2>3, <2>6
<1>4. after \in Contents(us)
  <2>1. ASSUME NEW f \in us, NEW g \in us, f # g PROVE ToSet(after[f]) \cap ToSet(after[g]) = {}
    BY <2>1, <1>1, <1>2, <1>3
  <2> QED BY <2>1, <1>2 DEF Contents
<1>5. \A g \in us : Ring(new, g, after[g])
  BY <1>2, <1>3
<1> QED BY <1>4, <1>5 DEF Holds, after

(* Adding an entry that is in no list. *)
LEMMA Added ==
    ASSUME NEW us \in SUBSET Heads, NEW ls, NEW mem, Holds(mem, us, ls),
           NEW h \in us, NEW e \in Nodes, \A g \in us : e \notin ToSet(ls[g])
    PROVE  /\ Holds(list_add(mem, e, h), us, [ls EXCEPT ![h] = <<e>> \o ls[h]])
           /\ Holds(list_add_tail(mem, e, h), us, [ls EXCEPT ![h] = ls[h] \o <<e>>])
<1> DEFINE s == ls[h]
           first == mem.next[h]
           last == mem.prev[h]
<1>1. /\ ls \in [Heads -> Seq(Nodes)] /\ h \in Heads /\ s \in Seq(Nodes) /\ Ring(mem, h, s)
      /\ mem \in Memory /\ e \notin ToSet(s)
  BY DEF Holds, Contents
<1>2. Ring(list_add(mem, e, h), h, <<e>> \o s) /\ Ring(list_add_tail(mem, e, h), h, s \o <<e>>)
  BY <1>1, RingAdd, RingAddTail
<1>3. first \in {h} \cup ToSet(s) /\ last \in {h} \cup ToSet(s)
  <2>0. /\ Cell(h, s, 0) = h /\ Cell(h, s, Len(s) + 1) = h
        /\ 0 \in 0 .. Len(s) /\ Len(s) \in 0 .. Len(s) /\ 0 + 1 = 1
    BY <1>1 DEF Cell
  <2>1. first = Cell(h, s, 1) /\ last = Cell(h, s, Len(s))
    BY <2>0, <1>1 DEF Ring, Linking
  <2> QED BY <2>1, <1>1 DEF Cell, ToSet
<1>4. /\ <<e>> \o s \in Seq(Nodes) /\ ToSet(<<e>> \o s) \subseteq ToSet(s) \cup {e}
      /\ s \o <<e>> \in Seq(Nodes) /\ ToSet(s \o <<e>>) \subseteq ToSet(s) \cup {e}
  <2> HIDE DEF s
  <2>1. s \in Seq(Nodes) /\ e \in Nodes
    BY <1>1
  <2>2. \A i \in DOMAIN (<<e>> \o s) : (<<e>> \o s)[i] = e \/ (i - 1 \in DOMAIN s /\ (<<e>> \o s)[i] = s[i - 1])
    BY <2>1
  <2>3. \A i \in DOMAIN (s \o <<e>>) : (s \o <<e>>)[i] = e \/ (i \in DOMAIN s /\ (s \o <<e>>)[i] = s[i])
    BY <2>1
  <2>4. <<e>> \o s \in Seq(Nodes) /\ s \o <<e>> \in Seq(Nodes)
    BY <2>1
  <2> QED BY <2>2, <2>3, <2>4 DEF ToSet
<1>5. e \in Cells /\ h \in Cells /\ first \in Cells /\ last \in Cells
  BY <1>1 DEF Memory, Cells
<1>6. ASSUME NEW new \in {list_add(mem, e, h), list_add_tail(mem, e, h)}
      PROVE  /\ new \in Memory
             /\ \A c \in Cells : c \notin {h, e} \cup ToSet(s) =>
                    new.next[c] = mem.next[c] /\ new.prev[c] = mem.prev[c]
  <2>1. CASE new = list_add(mem, e, h)
    BY <2>1, <1>1, <1>3, <1>5 DEF list_add, list_insert, Memory
  <2>2. CASE new = list_add_tail(mem, e, h)
    BY <2>2, <1>1, <1>3, <1>5 DEF list_add_tail, list_insert, Memory
  <2> QED BY <2>1, <2>2
<1>7. ASSUME NEW new \in {list_add(mem, e, h), list_add_tail(mem, e, h)},
             NEW t \in Seq(Nodes), Ring(new, h, t), ToSet(t) \subseteq ToSet(ls[h]) \cup {e}
      PROVE  Holds(new, us, [ls EXCEPT ![h] = t])
  BY <1>6, <1>7, OthersKept
<1> QED BY <1>2, <1>4, <1>7

(* Unlinking an entry, and whatever happens to an entry that is in no list. *)
LEMMA Unlinked ==
    ASSUME NEW us \in SUBSET Heads, NEW ls, NEW mem, Holds(mem, us, ls),
           NEW h \in us, NEW i \in 1 .. Len(ls[h])
    PROVE  LET e     == ls[h][i]
               after == [ls EXCEPT ![h] = RemoveAt(ls[h], i)]
           IN  /\ Holds(list_unlink(mem, mem.prev[e], mem.next[e]), us, after)
               /\ \A g \in us : e \notin ToSet(after[g])
<1> DEFINE s == ls[h]
           e == s[i]
           t == RemoveAt(s, i)
           new == list_unlink(mem, mem.prev[e], mem.next[e])
           after == [ls EXCEPT ![h] = t]
<1>1. /\ ls \in [Heads -> Seq(Nodes)] /\ h \in Heads /\ s \in Seq(Nodes) /\ Ring(mem, h, s)
      /\ mem \in Memory /\ Distinct(s)
      /\ \A f, g \in us : f # g => ToSet(ls[f]) \cap ToSet(ls[g]) = {}
  BY DEF Holds, Contents, Ring
<1>2. Ring(new, h, t)
  BY <1>1, RingUnlink
<1>3. /\ t \in Seq(Nodes) /\ Len(t) = Len(s) - 1
      /\ \A j \in 1 .. Len(s) - 1 : t[j] = IF j < i THEN s[j] ELSE s[j + 1]
  BY <1>1, RemoveAtIs
<1>4. e \in Nodes /\ e \in ToSet(s) /\ Len(s) \in Nat /\ i \in Nat
  BY <1>1 DEF ToSet
<1>5. mem.prev[e] \in {h} \cup ToSet(s) /\ mem.next[e] \in {h} \cup ToSet(s)
  <2>1. /\ Cell(h, s, i) = e /\ i - 1 \in 0 .. Len(s) /\ i \in 0 .. Len(s) /\ (i - 1) + 1 = i
    BY <1>1 DEF Cell
  <2>2. mem.prev[e] = Cell(h, s, i - 1) /\ mem.next[e] = Cell(h, s, i + 1)
    BY <2>1 DEF Ring, Linking, Holds
  <2> QED BY <2>2, <1>1 DEF Cell, ToSet
<1>6. /\ new \in Memory
      /\ \A c \in Cells : c \notin {h, e} \cup ToSet(s) =>
              new.next[c] = mem.next[c] /\ new.prev[c] = mem.prev[c]
  <2>1. mem.prev[e] \in Cells /\ mem.next[e] \in Cells
    BY <1>1, <1>4 DEF Memory, Cells
  <2> HIDE DEF e, s
  <2> QED BY <2>1, <1>1, <1>5 DEF list_unlink, Memory
<1>7. e \notin ToSet(t) /\ ToSet(t) \subseteq ToSet(s)
  <2> HIDE DEF t
  <2> SUFFICES ASSUME NEW j \in 1 .. Len(s) - 1 PROVE t[j] # e /\ t[j] \in ToSet(s)
    <3>1. DOMAIN t = 1 .. Len(s) - 1
      BY <1>3, <1>4
    <3> QED BY <3>1 DEF ToSet
  <2> DEFINE k == IF j < i THEN j ELSE j + 1
  <2>1. k \in 1 .. Len(s) /\ k # i /\ t[j] = s[k]
    BY <1>3, <1>4
  <2> QED BY <2>1, <1>1 DEF Distinct, ToSet
<1>8. \A g \in us : g # h => e \notin ToSet(ls[g])
  BY <1>1, <1>4
<1>9. Holds(new, us, after)
  <2>1. ToSet(t) \subseteq ToSet(ls[h]) \cup {e}
    BY <1>7
  <2>2. /\ t \in Seq(Nodes) /\ Ring(new, h, t) /\ e \in Nodes /\ new \in Memory
        /\ \A c \in Cells : c \notin {h, e} \cup ToSet(ls[h]) =>
               new.next[c] = mem.next[c] /\ new.prev[c] = mem.prev[c]
    BY <1>2, <1>3, <1>4, <1>6
  <2> HIDE DEF new, t, e
  <2> QED BY <2>1, <2>2, <1>8, OthersKept
<1>10. \A g \in us : e \notin ToSet(after[g])
  <2> HIDE DEF t, e
  <2> QED BY <1>1, <1>7, <1>8
<1> QED BY <1>9, <1>10

LEMMA FreeEntryStored ==
    ASSUME NEW us \in SUBSET Heads, NEW ls, NEW mem, Holds(mem, us, ls),
           NEW e \in Nodes, \A g \in us : e \notin ToSet(ls[g]),
           NEW new \in Memory,
           \A c \in Cells \ {e} : new.next[c] = mem.next[c] /\ new.prev[c] = mem.prev[c]
    PROVE  Holds(new, us, ls)
<1>1. ls \in [Heads -> Seq(Nodes)] /\ ls \in Contents(us)
  BY DEF Holds, Contents
<1>2. ASSUME NEW g \in us PROVE Ring(new, g, ls[g])
  <2>1. Ring(mem, g, ls[g]) /\ ls[g] \in Seq(Nodes)
    BY <1>1 DEF Holds
  <2>2. \A c \in {g} \cup ToSet(ls[g]) : c \in Cells \ {e}
    <3>1. ToSet(ls[g]) \subseteq Nodes
      BY <2>1 DEF ToSet
    <3> QED BY <3>1, ListAssumption DEF Cells
  <2> QED BY <2>1, <2>2, RingElsewhere
<1> QED BY <1>1, <1>2 DEF Holds

(* A list that is not empty goes to the front of another, whose head then speaks for both. *)
LEMMA Joined ==
    ASSUME NEW us \in SUBSET Heads, NEW ls, NEW mem, Holds(mem, us, ls),
           NEW g \in us, NEW h \in us, g # h, ls[g] # <<>>
    PROVE  Holds(list_join(mem, g, h), us \ {g}, [ls EXCEPT ![g] = <<>>, ![h] = ls[g] \o ls[h]])
<1> DEFINE s == ls[g]
           t == ls[h]
           u == s \o t
           new == list_join(mem, g, h)
           after == [ls EXCEPT ![g] = <<>>, ![h] = u]
<1>1. /\ ls \in [Heads -> Seq(Nodes)] /\ g \in Heads /\ h \in Heads
      /\ s \in Seq(Nodes) /\ t \in Seq(Nodes) /\ Ring(mem, g, s) /\ Ring(mem, h, t)
      /\ mem \in Memory
      /\ \A e, f \in us : e # f => ToSet(ls[e]) \cap ToSet(ls[f]) = {}
  BY DEF Holds, Contents
<1>2. Ring(new, h, u)
  BY <1>1, RingJoin
<1>3. /\ mem.next[g] \in ToSet(s) /\ mem.prev[g] \in ToSet(s)
      /\ mem.next[h] \in {h} \cup ToSet(t)
  <2>0. Len(s) \in Nat \ {0} /\ Len(t) \in Nat /\ DOMAIN s = 1 .. Len(s) /\ DOMAIN t = 1 .. Len(t)
    BY <1>1
  <2>1. /\ Cell(g, s, 0) = g /\ Cell(g, s, Len(s) + 1) = g /\ Cell(h, t, 0) = h
        /\ 0 \in 0 .. Len(s) /\ Len(s) \in 0 .. Len(s) /\ 0 \in 0 .. Len(t) /\ 0 + 1 = 1
    BY <2>0 DEF Cell
  <2>2. mem.next[g] = Cell(g, s, 1) /\ mem.prev[g] = Cell(g, s, Len(s)) /\ mem.next[h] = Cell(h, t, 1)
    BY <2>1, <1>1 DEF Ring, Linking
  <2>3. Cell(g, s, 1) \in ToSet(s) /\ Cell(g, s, Len(s)) \in ToSet(s)
    BY <2>0 DEF Cell, ToSet
  <2>4. Cell(h, t, 1) \in {h} \cup ToSet(t)
    BY <2>0 DEF Cell, ToSet
  <2> QED BY <2>2, <2>3, <2>4
<1>4. \A f \in Heads : ToSet(ls[f]) \subseteq Nodes
  <2>1. ASSUME NEW f \in Heads PROVE ToSet(ls[f]) \subseteq Nodes
    <3>1. DOMAIN ls[f] = 1 .. Len(ls[f]) /\ \A i \in 1 .. Len(ls[f]) : ls[f][i] \in Nodes
      BY <1>1
    <3> QED BY <3>1 DEF ToSet
  <2> QED BY <2>1
<1>5. /\ new \in Memory
      /\ \A c \in Cells : c \notin {h} \cup ToSet(s) \cup ToSet(t) =>
             new.next[c] = mem.next[c] /\ new.prev[c] = mem.prev[c]
  <2>1. /\ mem.next[g] \in Cells /\ mem.prev[g] \in Cells /\ mem.next[h] \in Cells /\ h \in Cells
    BY <1>1, <1>3, <1>4 DEF Cells, Memory
  <2> HIDE DEF s, t
  <2> QED BY <2>1, <1>1, <1>3 DEF list_join, Memory
<1>6. u \in Seq(Nodes) /\ ToSet(u) \subseteq ToSet(s) \cup ToSet(t)
  <2> HIDE DEF s, t
  <2>1. u \in Seq(Nodes) /\ Len(u) = Len(s) + Len(t)
    BY <1>1
  <2>2. \A i \in DOMAIN u : \/ i \in DOMAIN s /\ u[i] = s[i]
                            \/ i - Len(s) \in DOMAIN t /\ u[i] = t[i - Len(s)]
    BY <1>1
  <2> HIDE DEF u
  <2> QED BY <2>1, <2>2 DEF ToSet
<1>7. /\ after \in [Heads -> Seq(Nodes)] /\ after[h] = u
      /\ \A f \in us \ {g} : f # h => after[f] = ls[f]
  <2>1. <<>> \in Seq(Nodes) /\ u \in Seq(Nodes)
    BY <1>6
  <2> HIDE DEF u
  <2> QED BY <2>1, <1>1
<1> HIDE DEF after, u, new
<1>8. ASSUME NEW f \in us \ {g}, f # h
      PROVE  Ring(new, f, after[f]) /\ ToSet(after[f]) \cap ToSet(u) = {}
  <2>1. after[f] = ls[f] /\ Ring(mem, f, ls[f]) /\ f \in Heads
    BY <1>7, <1>8 DEF Holds
  <2>2. ToSet(ls[f]) \cap (ToSet(s) \cup ToSet(t)) = {}
    BY <1>1, <1>8
  <2>3. \A c \in {f} \cup ToSet(ls[f]) : c \in Cells /\ c \notin {h} \cup ToSet(s) \cup ToSet(t)
    BY <2>1, <2>2, <1>1, <1>4, <1>8, ListAssumption DEF Cells
  <2>4. Ring(new, f, ls[f])
    BY <2>1, <2>3, <1>5, RingElsewhere
  <2> QED BY <2>1, <2>2, <2>4, <1>6
<1>9. after \in Contents(us \ {g})
  <2>1. ASSUME NEW e \in us \ {g}, NEW f \in us \ {g}, e # f
        PROVE  ToSet(after[e]) \cap ToSet(after[f]) = {}
    BY <2>1, <1>1, <1>7, <1>8
  <2> QED BY <2>1, <1>7 DEF Contents
<1>10. \A f \in us \ {g} : Ring(new, f, after[f])
  BY <1>2, <1>7, <1>8
<1> QED BY <1>5, <1>9, <1>10 DEF Holds, after, new, u

(* A head that was no list's becomes an empty one. *)
LEMMA Reinitialised ==
    ASSUME NEW us \in SUBSET Heads, NEW ls, NEW mem, Holds(mem, us, ls),
           NEW h \in Heads \ us, ls[h] = <<>>
    PROVE  Holds(INIT_LIST_HEAD(mem, h), us \cup {h}, ls)
<1> DEFINE new == INIT_LIST_HEAD(mem, h)
<1>1. /\ ls \in [Heads -> Seq(Nodes)] /\ mem \in Memory
      /\ \A e, f \in us : e # f => ToSet(ls[e]) \cap ToSet(ls[f]) = {}
  BY DEF Holds, Contents
<1>2. Ring(new, h, ls[h]) /\ new \in Memory
  BY <1>1, RingFresh
<1>3. \A c \in Cells \ {h} : new.next[c] = mem.next[c] /\ new.prev[c] = mem.prev[c]
  BY <1>1 DEF INIT_LIST_HEAD, Memory
<1> HIDE DEF new
<1>4. ASSUME NEW f \in us PROVE Ring(new, f, ls[f])
  <2>1. DOMAIN ls[f] = 1 .. Len(ls[f]) /\ \A i \in 1 .. Len(ls[f]) : ls[f][i] \in Nodes
    BY <1>1
  <2>2. ToSet(ls[f]) \subseteq Nodes
    BY <2>1 DEF ToSet
  <2>3. \A c \in {f} \cup ToSet(ls[f]) : c \in Cells \ {h}
    BY <2>2, ListAssumption DEF Cells
  <2>4. Ring(mem, f, ls[f])
    BY DEF Holds
  <2> QED BY <2>3, <2>4, <1>3, RingElsewhere
<1>5. ToSet(ls[h]) = {}
  BY DEF ToSet
<1>6. ls \in Contents(us \cup {h})
  <2>1. ASSUME NEW e \in us \cup {h}, NEW f \in us \cup {h}, e # f
        PROVE  ToSet(ls[e]) \cap ToSet(ls[f]) = {}
    BY <2>1, <1>1, <1>5
  <2> QED BY <2>1, <1>1 DEF Contents
<1> QED BY <1>2, <1>4, <1>6 DEF Holds, new

(* What the memory holds is what the walks find. *)
ListsOf(mem, gone) == [h \in Heads |-> IF h \in gone THEN <<>> ELSE Elements(mem, h)]

LEMMA ListsFound ==
    ASSUME NEW gone \in SUBSET Heads, NEW ls, NEW mem, Holds(mem, Heads \ gone, ls),
           \A h \in gone : ls[h] = <<>>
    PROVE  ListsOf(mem, gone) = ls
<1>1. ls \in [Heads -> Seq(Nodes)]
  BY DEF Holds, Contents
<1>2. \A h \in Heads \ gone : Elements(mem, h) = ls[h]
  BY ElementsOfRing DEF Holds
<1> QED BY <1>1, <1>2 DEF ListsOf

LEMMA RemovedFirst ==
    ASSUME NEW s \in Seq(Nodes), Distinct(s)
    PROVE  /\ \A i \in 1 .. Len(s) : RemoveFirst(s, s[i]) = RemoveAt(s, i)
           /\ \A e : e \notin ToSet(s) => RemoveFirst(s, e) = s
<1>1. ASSUME NEW i \in 1 .. Len(s) PROVE RemoveFirst(s, s[i]) = RemoveAt(s, i)
  <2>1. {j \in 1 .. Len(s) : s[j] = s[i]} = {i}
    BY DEF Distinct
  <2>2. Min({i}) = i
    BY DEF Min
  <2>3. SelectInSeq(s, LAMBDA v : v = s[i]) = i
    BY <2>1, <2>2 DEF SelectInSeq
  <2> QED BY <2>3 DEF RemoveFirst
<1>2. ASSUME NEW e, e \notin ToSet(s) PROVE RemoveFirst(s, e) = s
  BY <1>2 DEF RemoveFirst, ToSet
<1> QED BY <1>1, <1>2

-----------------------------------------------------------------------------
(***************************************************************************)
(* The invariant: the memory holds the lists, and a walk that has begun is *)
(* where the list it began with says, with the rest of that list ahead.    *)
(***************************************************************************)
Now == ListsOf(m, stale)

(* The list ends with what the one the walk began with had after k entries. *)
Ahead(h, was, s, k) ==
    LET d == Len(was) - k
    IN  /\ d \in 0 .. Len(s)
        /\ \A j \in 1 .. d + 1 : Cell(h, s, (Len(s) - d) + j) = Cell(h, was, k + j)

Walks ==
    IF Idle THEN visited = <<>> /\ expected = <<>>
    ELSE LET h == walk.head
             k == Len(visited)
         IN  /\ walk \in [head : Usable, pos : Cells, n : Cells]
             /\ visited \in Seq(Nodes) /\ expected \in Seq(Nodes)
             /\ k <= Len(expected) /\ \A i \in 1 .. k : visited[i] = expected[i]
             /\ walk.pos = Cell(h, expected, k + 1)
             /\ k < Len(expected) => walk.n = Cell(h, expected, k + 2)
             /\ Ahead(h, expected, Now[h], k)

IInv == stale \subseteq Heads /\ Holds(m, Usable, Now) /\ Walks

LEMMA HeldNow ==
    ASSUME IInv
    PROVE  /\ Usable \in SUBSET Heads /\ Now \in [Heads -> Seq(Nodes)] /\ m \in Memory
           /\ \A h \in stale : Now[h] = <<>>
           /\ \A h \in Usable : Now[h] = Elements(m, h) /\ Ring(m, h, Now[h]) /\ Distinct(Now[h])
           /\ \A h \in Usable : list_empty(m, h) <=> Now[h] = <<>>
<1>1. /\ Usable \in SUBSET Heads /\ Now \in [Heads -> Seq(Nodes)] /\ m \in Memory
      /\ \A h \in Usable : Ring(m, h, Now[h])
  BY DEF IInv, Holds, Contents, Usable
<1>2. \A h \in Heads : Now[h] = IF h \in stale THEN <<>> ELSE Elements(m, h)
  BY DEF Now, ListsOf
<1>3. \A h \in Usable : h \notin stale /\ h \in Heads
  BY DEF Usable
<1>4. \A h \in stale : Now[h] = <<>>
  BY <1>2 DEF IInv
<1>5. ASSUME NEW h \in Usable PROVE list_empty(m, h) <=> Now[h] = <<>>
  <2> DEFINE s == Now[h]
  <2>1. s \in Seq(Nodes) /\ Ring(m, h, s) /\ h \in Heads
    BY <1>1, <1>3
  <2> HIDE DEF s
  <2>2. Cell(h, s, 0) = h /\ 0 \in 0 .. Len(s) /\ 0 + 1 = 1
    BY <2>1 DEF Cell
  <2>3. m.next[h] = Cell(h, s, 1)
    BY <2>1, <2>2 DEF Ring, Linking
  <2>4. s # <<>> => 1 \in 1 .. Len(s) /\ s[1] \in Nodes /\ s[1] # h
    BY <2>1, ListAssumption
  <2>5. s = <<>> => 1 \notin 1 .. Len(s)
    OBVIOUS
  <2>6. list_empty(m, h) <=> s = <<>>
    BY <2>3, <2>4, <2>5 DEF list_empty, Cell
  <2> QED BY <2>6 DEF s
<1> QED BY <1>1, <1>2, <1>3, <1>4, <1>5 DEF Ring

(* How the invariant of the lists follows a step, and what the step is to OrderedLists. *)
LEMMA Became ==
    ASSUME stale' \subseteq Heads, NEW ls, Holds(m', Usable', ls), \A h \in stale' : ls[h] = <<>>
    PROVE  stale' \in SUBSET Heads /\ Holds(m', Usable', Now') /\ Now' = ls
<1>1. Usable' = Heads \ stale'
  BY DEF Usable
<1>2. Now' = ListsOf(m', stale')
  BY DEF Now
<1>3. ListsOf(m', stale') = ls
  BY <1>1, ListsFound
<1> QED BY <1>2, <1>3

LEMMA FreeEntry ==
    ASSUME IInv, NEW e \in Nodes
    PROVE  /\ e \notin Linked => \A g \in Heads : e \notin ToSet(Now[g])
           /\ e \in Linked => \E h \in Usable : \E i \in 1 .. Len(Now[h]) : Now[h][i] = e
<1>1. /\ Now \in [Heads -> Seq(Nodes)] /\ \A h \in stale : Now[h] = <<>>
      /\ \A h \in Usable : Now[h] = Elements(m, h)
      /\ Usable \subseteq Heads
  BY HeldNow
<1>2. ASSUME e \notin Linked, NEW g \in Heads PROVE e \notin ToSet(Now[g])
  <2>1. CASE g \in stale
    BY <2>1, <1>1 DEF ToSet
  <2>2. CASE g \notin stale
    BY <2>2, <1>1, <1>2 DEF Linked, Usable
  <2> QED BY <2>1, <2>2
<1>3. ASSUME e \in Linked PROVE \E h \in Usable : \E i \in 1 .. Len(Now[h]) : Now[h][i] = e
  <2>1. PICK h \in Usable : e \in ToSet(Now[h])
    BY <1>1, <1>3 DEF Linked
  <2>2. DOMAIN Now[h] = 1 .. Len(Now[h])
    BY <1>1, <2>1
  <2> QED BY <2>1, <2>2 DEF ToSet
<1> QED BY <1>2, <1>3

LEMMA IdleWalks ==
    ASSUME Idle, Walks, UNCHANGED <<walk, visited, expected>> PROVE Walks'
BY DEF Walks, Idle

(* The value that Implements gives to the variable of OrderedLists. *)
LEMMA AsLists ==
    /\ [h \in Heads |-> IF h \in stale THEN <<>> ELSE Elements(m, h)] = Now
    /\ [h \in Heads |-> IF h \in stale' THEN <<>> ELSE Elements(m', h)] = Now'
    /\ \A s : Implements!ToSet(s) = ToSet(s)
    /\ \A s, e : Implements!RemoveFirst(s, e) = RemoveFirst(s, e)
<1>1. \A s : Implements!ToSet(s) = ToSet(s)
  BY DEF Implements!ToSet, ToSet
<1>2. \A s, e : Implements!RemoveFirst(s, e) = RemoveFirst(s, e)
  BY DEF Implements!RemoveFirst, RemoveFirst, Implements!RemoveAt, RemoveAt,
         Implements!SelectInSeq, SelectInSeq, Implements!Min, Min
<1> QED BY <1>1, <1>2 DEF Now, ListsOf

LEMMA InitLists == Init => IInv /\ Implements!Init
<1> SUFFICES ASSUME Init PROVE IInv /\ Implements!Init
  OBVIOUS
<1> DEFINE ls == [h \in Heads |-> <<>>]
<1>1. /\ m = FreshMemory /\ stale = {} /\ walk = NoWalk /\ visited = <<>> /\ expected = <<>>
  BY DEF Init
<1>2. m \in Memory /\ \A h \in Heads : m.next[h] = h /\ m.prev[h] = h
  BY <1>1 DEF FreshMemory, Memory, Cells
<1>3. ls \in Contents(Heads) /\ \A h \in Heads : ls[h] = <<>>
  BY DEF Contents, ToSet
<1>4. ASSUME NEW h \in Heads PROVE Ring(m, h, <<>>)
  BY <1>2 DEF Ring, Distinct, Linking, Cell
<1>5. Holds(m, Heads, ls)
  BY <1>2, <1>3, <1>4 DEF Holds
<1>6. Now = ls /\ Usable = Heads
  <2>1. Heads \ stale = Heads /\ {} \in SUBSET Heads
    BY <1>1
  <2>2. ListsOf(m, stale) = ls
    <3> HIDE DEF ls
    <3> QED BY <2>1, <1>1, <1>5, ListsFound
  <2> QED BY <2>1, <2>2 DEF Now, Usable
<1>7. Walks
  BY <1>1 DEF Walks, Idle
<1>8. IInv
  BY <1>1, <1>5, <1>6, <1>7 DEF IInv
<1>9. Implements!Init
  BY <1>6 DEF Implements!Init, Now, ListsOf
<1> QED BY <1>8, <1>9

LEMMA AddStep ==
    ASSUME IInv, NEW e \in Nodes, NEW h \in Usable, Add(e, h)
    PROVE  IInv' /\ Implements!Insert(e, h)
<1> DEFINE front == [Now EXCEPT ![h] = <<e>> \o Now[h]]
           back == [Now EXCEPT ![h] = Now[h] \o <<e>>]
<1>1. /\ Usable \in SUBSET Heads /\ Now \in [Heads -> Seq(Nodes)]
      /\ \A g \in stale : Now[g] = <<>>
      /\ Holds(m, Usable, Now) /\ stale \subseteq Heads /\ Walks
  BY HeldNow DEF IInv
<1>2. /\ Idle /\ \A g \in Heads : e \notin ToSet(Now[g])
      /\ m' \in {list_add(m, e, h), list_add_tail(m, e, h)}
      /\ UNCHANGED <<stale, walk, visited, expected>> /\ Usable' = Usable
  BY FreeEntry DEF Add, Keeps, Usable
<1>3. Holds(list_add(m, e, h), Usable, front) /\ Holds(list_add_tail(m, e, h), Usable, back)
  BY <1>1, <1>2, Added
<1>4. \A g \in stale : front[g] = <<>> /\ back[g] = <<>>
  BY <1>1 DEF Usable
<1> HIDE DEF front, back
<1>5. PICK ls \in {front, back} : Holds(m', Usable', ls)
  BY <1>2, <1>3
<1>6. Holds(m', Usable', Now') /\ Now' = ls /\ stale' \subseteq Heads
  <2>1. \A g \in stale' : ls[g] = <<>>
    BY <1>2, <1>4
  <2>2. stale' \subseteq Heads
    BY <1>1, <1>2
  <2> QED BY <2>1, <2>2, <1>5, Became
<1>7. IInv'
  BY <1>1, <1>2, <1>6, IdleWalks DEF IInv
<1>8. Implements!Insert(e, h)
  <2>1. {g \in Heads : e \in ToSet(Now[g])} = {}
    BY <1>2
  <2>2. h \in Heads /\ Now' \in {[Now EXCEPT ![h] = s] : s \in {<<e>> \o Now[h], Now[h] \o <<e>>}}
    BY <1>1, <1>6 DEF front, back
  <2> QED BY <2>1, <2>2, AsLists DEF Implements!Insert, Implements!In
<1> QED BY <1>7, <1>8

(* Unlinking the entry that the memory has at a place of a list.           *)
LEMMA Deleted ==
    ASSUME IInv, NEW h \in Usable, NEW i \in 1 .. Len(Now[h])
    PROVE  LET e     == Now[h][i]
               after == [Now EXCEPT ![h] = RemoveAt(Now[h], i)]
           IN  /\ e \in Nodes /\ e \in ToSet(Now[h])
               /\ \A g \in Heads : RemoveFirst(Now[g], e) = after[g]
               /\ \A g \in Heads : e \notin ToSet(after[g])
               /\ \A g \in stale : after[g] = <<>>
               /\ after \in [Heads -> Seq(Nodes)]
               /\ after = [g \in Heads |-> RemoveFirst(Now[g], e)]
               /\ Holds(list_unlink(m, m.prev[e], m.next[e]), Usable, after)
               /\ Holds(list_del(m, e), Usable, after)
               /\ Holds(list_del_init(m, e), Usable, after)
<1> DEFINE e == Now[h][i]
           t == RemoveAt(Now[h], i)
           after == [Now EXCEPT ![h] = t]
           un == list_unlink(m, m.prev[e], m.next[e])
<1>1. /\ Usable \in SUBSET Heads /\ Now \in [Heads -> Seq(Nodes)]
      /\ \A g \in stale : Now[g] = <<>>
      /\ Holds(m, Usable, Now) /\ stale \subseteq Heads
      /\ Distinct(Now[h]) /\ h \in Heads /\ Now[h] \in Seq(Nodes)
  BY HeldNow DEF IInv
<1>2. Holds(un, Usable, after) /\ \A g \in Usable : e \notin ToSet(after[g])
  BY <1>1, Unlinked
<1>3. e \in Nodes /\ e \in ToSet(Now[h])
  BY <1>1 DEF ToSet
<1>4. after \in [Heads -> Seq(Nodes)] /\ after[h] = t /\ \A g \in Heads : g # h => after[g] = Now[g]
  <2>1. after \in [Heads -> Seq(Nodes)]
    BY <1>2 DEF Holds, Contents
  <2> HIDE DEF t
  <2> QED BY <2>1, <1>1
<1> HIDE DEF after, t, un
<1>5. \A g \in stale : after[g] = <<>>
  BY <1>1, <1>4 DEF Usable
<1>6. \A g \in Heads : e \notin ToSet(after[g])
  BY <1>2, <1>5 DEF Usable, ToSet
<1>7. ASSUME NEW g \in Heads PROVE RemoveFirst(Now[g], e) = after[g]
  <2>1. CASE g = h
    BY <2>1, <1>1, <1>4, RemovedFirst DEF t
  <2>2. CASE g # h
    <3>1. after[g] = Now[g] /\ e \notin ToSet(Now[g]) /\ Now[g] \in Seq(Nodes)
      BY <2>2, <1>1, <1>4, <1>6
    <3> QED BY <3>1 DEF RemoveFirst, ToSet
  <2> QED BY <2>1, <2>2
<1>8. after = [g \in Heads |-> RemoveFirst(Now[g], e)]
  BY <1>4, <1>7
<1>9. ASSUME NEW new \in {list_del(m, e), list_del_init(m, e)} PROVE Holds(new, Usable, after)
  <2>1. un \in Memory /\ e \in Cells /\ NULL \in Cells
    BY <1>2, <1>3 DEF Holds, Cells
  <2>2. new \in Memory /\ \A c \in Cells \ {e} : new.next[c] = un.next[c] /\ new.prev[c] = un.prev[c]
    <3> HIDE DEF e
    <3>1. CASE new = list_del(m, e)
      <4>1. new = [next |-> [un.next EXCEPT ![e] = NULL], prev |-> [un.prev EXCEPT ![e] = NULL]]
        BY <3>1 DEF list_del, un
      <4> QED BY <4>1, <2>1 DEF Memory
    <3>2. CASE new = list_del_init(m, e)
      <4>1. new = [next |-> [un.next EXCEPT ![e] = e], prev |-> [un.prev EXCEPT ![e] = e]]
        BY <3>2 DEF list_del_init, INIT_LIST_HEAD, un
      <4> QED BY <4>1, <2>1 DEF Memory
    <3> QED BY <3>1, <3>2
  <2> HIDE DEF e
  <2> QED BY <2>2, <1>1, <1>2, <1>3, FreeEntryStored
<1> QED BY <1>2, <1>3, <1>4, <1>5, <1>6, <1>7, <1>8, <1>9 DEF after, t, un

LEMMA DelStep ==
    ASSUME IInv, NEW e \in Nodes, Del(e)
    PROVE  IInv' /\ Implements!Delete(e)
<1>1. PICK h \in Usable : \E i \in 1 .. Len(Now[h]) : Now[h][i] = e
  BY FreeEntry DEF Del
<1>2. PICK i \in 1 .. Len(Now[h]) : Now[h][i] = e
  BY <1>1
<1> DEFINE after == [Now EXCEPT ![h] = RemoveAt(Now[h], i)]
<1>3. /\ Idle /\ m' \in {list_del(m, e), list_del_init(m, e)}
      /\ UNCHANGED <<stale, walk, visited, expected>> /\ Usable' = Usable
      /\ stale \subseteq Heads /\ Walks /\ h \in Heads /\ Now \in [Heads -> Seq(Nodes)]
  BY HeldNow DEF Del, Keeps, IInv, Usable
<1>4. /\ e \in ToSet(Now[h]) /\ RemoveFirst(Now[h], e) = after[h] /\ \A g \in stale : after[g] = <<>>
      /\ Holds(list_del(m, e), Usable, after) /\ Holds(list_del_init(m, e), Usable, after)
  BY <1>2, <1>3, Deleted
<1>5. after = [Now EXCEPT ![h] = RemoveFirst(Now[h], e)]
  BY <1>3, <1>4
<1> HIDE DEF after
<1>6. Holds(m', Usable', after)
  BY <1>3, <1>4
<1>7. Holds(m', Usable', Now') /\ Now' = after /\ stale' \subseteq Heads
  <2>1. stale' \subseteq Heads /\ \A g \in stale' : after[g] = <<>>
    BY <1>3, <1>4
  <2> QED BY <2>1, <1>6, Became
<1>8. IInv'
  BY <1>3, <1>7, IdleWalks DEF IInv
<1>9. Implements!Delete(e)
  <2>1. h \in Heads /\ e \in ToSet(Now[h]) /\ Now' = [Now EXCEPT ![h] = RemoveFirst(Now[h], e)]
    BY <1>3, <1>4, <1>5, <1>7
  <2> QED BY <2>1, AsLists DEF Implements!Delete, Implements!In
<1> QED BY <1>8, <1>9

LEMMA MoveStep ==
    ASSUME IInv, NEW e \in Nodes, NEW h \in Usable, Move(e, h)
    PROVE  IInv' /\ Implements!Move(e, h)
<1>1. PICK f \in Usable : \E i \in 1 .. Len(Now[f]) : Now[f][i] = e
  BY FreeEntry DEF Move
<1>2. PICK i \in 1 .. Len(Now[f]) : Now[f][i] = e
  BY <1>1
<1> DEFINE un == list_unlink(m, m.prev[e], m.next[e])
           without == [g \in Heads |-> RemoveFirst(Now[g], e)]
           front == [without EXCEPT ![h] = <<e>> \o without[h]]
           back == [without EXCEPT ![h] = without[h] \o <<e>>]
<1>3. /\ Idle /\ m' \in {list_add(un, e, h), list_add_tail(un, e, h)}
      /\ UNCHANGED <<stale, walk, visited, expected>> /\ Usable' = Usable
      /\ stale \subseteq Heads /\ Walks /\ f \in Heads /\ h \in Heads /\ Usable \in SUBSET Heads
  BY HeldNow DEF Move, Keeps, IInv, Usable, list_move, list_move_tail
<1>4. /\ e \in ToSet(Now[f]) /\ Holds(un, Usable, without)
      /\ \A g \in Heads : e \notin ToSet(without[g])
      /\ \A g \in stale : without[g] = <<>>
      /\ without \in [Heads -> Seq(Nodes)]
  <2> DEFINE after == [Now EXCEPT ![f] = RemoveAt(Now[f], i)]
  <2>1. /\ e \in ToSet(Now[f]) /\ Holds(un, Usable, after)
        /\ \A g \in Heads : e \notin ToSet(after[g])
        /\ \A g \in stale : after[g] = <<>>
        /\ after \in [Heads -> Seq(Nodes)] /\ after = without
    BY <1>2, Deleted
  <2> HIDE DEF after, without
  <2> QED BY <2>1
<1> HIDE DEF without, un
<1>5. Holds(list_add(un, e, h), Usable, front) /\ Holds(list_add_tail(un, e, h), Usable, back)
  BY <1>3, <1>4, Added
<1>6. \A g \in stale : front[g] = <<>> /\ back[g] = <<>>
  BY <1>3, <1>4 DEF Usable
<1> HIDE DEF front, back
<1>7. PICK ls \in {front, back} : Holds(m', Usable', ls)
  BY <1>3, <1>5
<1>8. Holds(m', Usable', Now') /\ Now' = ls /\ stale' \subseteq Heads
  <2>1. stale' \subseteq Heads /\ \A g \in stale' : ls[g] = <<>>
    BY <1>3, <1>6
  <2> QED BY <2>1, <1>7, Became
<1>9. IInv'
  BY <1>3, <1>8, IdleWalks DEF IInv
<1>10. Implements!Move(e, h)
  <2>1. Now' \in {[g \in Heads |-> IF g = h THEN s ELSE without[g]] :
                      s \in {<<e>> \o without[h], without[h] \o <<e>>}}
    BY <1>4, <1>8 DEF front, back
  <2>2. e \in ToSet(Now[f]) /\ f \in Heads
    BY <1>3, <1>4
  <2>3. without = [g \in Heads |-> RemoveFirst(Now[g], e)]
    BY DEF without
  <2> QED BY <2>1, <2>2, <2>3, AsLists DEF Implements!Move, Implements!In
<1> QED BY <1>9, <1>10

LEMMA SpliceStep ==
    ASSUME IInv, NEW g \in Usable, NEW h \in Usable, Splice(g, h) \/ SpliceInit(g, h)
    PROVE  IInv' /\ Implements!Splice(g, h)
<1> DEFINE after == [Now EXCEPT ![g] = <<>>, ![h] = Now[g] \o Now[h]]
           joined == list_join(m, g, h)
<1>1. /\ Usable \in SUBSET Heads /\ Now \in [Heads -> Seq(Nodes)] /\ g \in Heads /\ h \in Heads
      /\ \A f \in stale : Now[f] = <<>>
      /\ list_empty(m, g) <=> Now[g] = <<>>
      /\ Holds(m, Usable, Now) /\ stale \subseteq Heads /\ Walks
      /\ Idle /\ g # h /\ UNCHANGED <<walk, visited, expected>>
  BY HeldNow DEF IInv, Splice, SpliceInit, Keeps
<1>2. /\ after \in [Heads -> Seq(Nodes)] /\ after[g] = <<>>
      /\ \A f \in stale : after[f] = <<>>
  <2>1. Now[g] \o Now[h] \in Seq(Nodes) /\ <<>> \in Seq(Nodes)
    BY <1>1
  <2>2. g \notin stale /\ h \notin stale
    BY DEF Usable
  <2> QED BY <1>1, <2>1, <2>2
<1>3. Now' = after /\ Holds(m', Usable', Now') /\ stale' \subseteq Heads
  <2>1. CASE Now[g] = <<>>
    <3>1. m' = m /\ stale' = stale
      BY <2>1, <1>1 DEF Splice, SpliceInit, list_splice, list_splice_init, Keeps
    <3>2. after = Now
      <4>1. Now[g] \o Now[h] = Now[h]
        BY <1>1, <2>1
      <4> QED BY <4>1, <2>1, <1>1
    <3>3. Holds(m', Usable', Now) /\ \A f \in stale' : Now[f] = <<>>
      BY <3>1, <1>1 DEF Usable
    <3> HIDE DEF after
    <3> QED BY <3>1, <3>2, <3>3, <1>1, Became
  <2>2. CASE Now[g] # <<>>
    <3>1. Holds(joined, Usable \ {g}, after)
      BY <2>2, <1>1, Joined
    <3> HIDE DEF after, joined
    <3>2. CASE Splice(g, h)
      <4>1. m' = joined /\ stale' = stale \cup {g} /\ Usable' = Usable \ {g}
        BY <3>2, <2>2, <1>1 DEF Splice, list_splice, joined, Usable
      <4>2. stale' \subseteq Heads /\ \A f \in stale' : after[f] = <<>>
        BY <4>1, <1>1, <1>2
      <4> QED BY <3>1, <4>1, <4>2, Became
    <3>3. CASE SpliceInit(g, h)
      <4>1. m' = INIT_LIST_HEAD(joined, g) /\ stale' = stale /\ Usable' = Usable
        BY <3>3, <2>2, <1>1 DEF SpliceInit, Keeps, list_splice_init, joined, Usable
      <4>2. Usable \ {g} \in SUBSET Heads /\ g \in Heads \ (Usable \ {g})
            /\ (Usable \ {g}) \cup {g} = Usable
        BY <1>1
      <4>3. Holds(INIT_LIST_HEAD(joined, g), (Usable \ {g}) \cup {g}, after)
        BY <3>1, <4>2, <1>2, Reinitialised
      <4>4. stale' \subseteq Heads /\ \A f \in stale' : after[f] = <<>>
        BY <4>1, <1>1, <1>2
      <4> QED BY <4>1, <4>2, <4>3, <4>4, Became
    <3> QED BY <3>2, <3>3
  <2> QED BY <2>1, <2>2
<1>4. IInv'
  BY <1>1, <1>3, IdleWalks DEF IInv
<1>5. Implements!Splice(g, h)
  BY <1>1, <1>3, AsLists DEF Implements!Splice
<1> QED BY <1>4, <1>5

(* A head that is set up again was no list's and is an empty one's. *)
LEMMA ReinitStep ==
    ASSUME IInv, NEW h \in Heads, Reinit(h)
    PROVE  IInv' /\ Now' = Now
<1>1. /\ Idle /\ h \in stale /\ m' = INIT_LIST_HEAD(m, h) /\ stale' = stale \ {h}
      /\ UNCHANGED <<walk, visited, expected>>
  BY DEF Reinit
<1>2. /\ Usable \in SUBSET Heads /\ \A f \in stale : Now[f] = <<>>
      /\ Holds(m, Usable, Now) /\ stale \subseteq Heads /\ Walks
  BY HeldNow DEF IInv
<1>3. h \in Heads \ Usable /\ Usable' = Usable \cup {h}
  BY <1>1 DEF Usable
<1>4. Holds(m', Usable', Now)
  BY <1>1, <1>2, <1>3, Reinitialised
<1>5. Now' = Now /\ Holds(m', Usable', Now') /\ stale' \subseteq Heads
  <2>1. stale' \subseteq Heads /\ \A f \in stale' : Now[f] = <<>>
    BY <1>1, <1>2
  <2> QED BY <2>1, <1>4, Became
<1> QED BY <1>1, <1>2, <1>5, IdleWalks DEF IInv

-----------------------------------------------------------------------------
(***************************************************************************)
(* A walk.                                                                 *)
(***************************************************************************)
LEMMA BeginStep ==
    ASSUME IInv, NEW h \in Usable, Begin(h)
    PROVE  IInv' /\ Now' = Now
<1> DEFINE s == Now[h]
<1>1. /\ m' = m /\ stale' = stale /\ Usable' = Usable /\ Now' = Now
      /\ walk' = [head |-> h, pos |-> m.next[h], n |-> m.next[m.next[h]]]
      /\ visited' = <<>> /\ expected' = Elements(m, h)
  BY DEF Begin, Usable, Now
<1>2. /\ h \in Heads /\ m \in Memory /\ Elements(m, h) = s /\ Ring(m, h, s) /\ s \in Seq(Nodes)
  BY HeldNow DEF Ring
<1>3. h # NULL /\ h \in Cells /\ m.next[h] \in Cells /\ m.next[m.next[h]] \in Cells
  BY <1>2, ListAssumption DEF Cells, Memory
<1>4. ~ Idle'
  BY <1>1, <1>3 DEF Idle, NoWalk
<1> HIDE DEF s
<1>5. m.next[h] = Cell(h, s, 1)
  <2>1. Cell(h, s, 0) = h /\ 0 \in 0 .. Len(s) /\ 0 + 1 = 1
    BY <1>2 DEF Cell
  <2> QED BY <2>1, <1>2 DEF Ring, Linking
<1>6. 0 < Len(s) => m.next[m.next[h]] = Cell(h, s, 2)
  <2>1. 0 < Len(s) => 1 \in 0 .. Len(s) /\ 1 + 1 = 2
    BY <1>2
  <2> QED BY <2>1, <1>2, <1>5 DEF Ring, Linking
<1>7. Len(s) \in 0 .. Len(s) /\ Len(s) - 0 = Len(s) /\ Len(s) - Len(s) = 0
      /\ \A j \in 1 .. Len(s) + 1 : 0 + j = j
  BY <1>2
<1>8. expected' = s /\ Now'[h] = s
  BY <1>1, <1>2 DEF s
<1>9. Ahead(h, s, s, 0)
  BY <1>7 DEF Ahead
<1>10. Walks'
  <2>1. Len(<<>>) = 0 /\ <<>> \in Seq(Nodes) /\ 0 + 1 = 1 /\ 0 + 2 = 2
    OBVIOUS
  <2>2. 0 <= Len(s) /\ \A i \in 1 .. 0 : <<>>[i] = s[i]
    BY <1>2
  <2>3. walk'.head = h /\ walk'.pos = m.next[h] /\ walk'.n = m.next[m.next[h]]
    BY <1>1
  <2>4. walk' \in [head : Usable', pos : Cells, n : Cells]
    BY <1>1, <1>3
  <2> QED BY <2>1, <2>2, <2>3, <2>4, <1>1, <1>2, <1>3, <1>4, <1>5, <1>6, <1>8, <1>9 DEF Walks
<1> QED BY <1>1, <1>10 DEF IInv

LEMMA EndStep ==
    ASSUME IInv, End
    PROVE  IInv' /\ Now' = Now
BY DEF End, IInv, Walks, Idle, Now, Usable

(* Whether the body leaves the entry the walk is at or deletes it, what is *)
(* ahead of the walk is one entry shorter, and n is still the first of it. *)
LEMMA StillAhead ==
    ASSUME NEW h \in Heads, NEW was \in Seq(Nodes), NEW s \in Seq(Nodes),
           NEW k \in Nat, k < Len(was), Ahead(h, was, s, k),
           NEW i, i = (Len(s) - (Len(was) - k)) + 1
    PROVE  /\ i \in 1 .. Len(s) /\ s[i] = was[k + 1]
           /\ Ahead(h, was, s, k + 1) /\ Ahead(h, was, RemoveAt(s, i), k + 1)
<1> DEFINE d == Len(was) - k
           n == Len(s)
           t == RemoveAt(s, i)
<1>1. /\ n \in Nat /\ d \in 1 .. n /\ Len(was) \in Nat
      /\ \A j \in 1 .. d + 1 : Cell(h, s, (n - d) + j) = Cell(h, was, k + j)
  BY DEF Ahead
<1>2. i \in 1 .. n /\ i = (n - d) + 1
  BY <1>1
<1>3. s[i] = was[k + 1]
  <2>1. 1 \in 1 .. d + 1 /\ k + 1 \in 1 .. Len(was)
    BY <1>1
  <2>2. Cell(h, s, i) = Cell(h, was, k + 1)
    BY <2>1, <1>1, <1>2
  <2> QED BY <2>1, <2>2, <1>2 DEF Cell
<1>4. /\ t \in Seq(Nodes) /\ Len(t) = n - 1
      /\ \A j \in 1 .. n - 1 : t[j] = IF j < i THEN s[j] ELSE s[j + 1]
  BY <1>2, RemoveAtIs
<1> DEFINE c == Len(was) - (k + 1)
<1>5. c = d - 1 /\ c \in 0 .. n - 1 /\ c \in 0 .. n /\ c \in Nat
  BY <1>1
<1> HIDE DEF t, d, c, n
<1>6. ASSUME NEW j \in 1 .. c + 1
      PROVE  /\ j + 1 \in 1 .. d + 1 /\ (n - c) + j = (n - d) + (j + 1) /\ k + (j + 1) = (k + 1) + j
             /\ ((n - 1) - c) + j = (i - 1) + j /\ (i - 1) + j \in i .. n
             /\ (n - d) + (j + 1) = ((i - 1) + j) + 1
  <2>1. d \in Nat /\ n \in Nat /\ c \in Nat /\ d <= n
    BY <1>1, <1>5
  <2>2. j \in Nat /\ j <= c + 1 /\ 1 <= j /\ d = c + 1
    BY <1>5, <2>1
  <2>3. i = (n - d) + 1
    BY <1>2
  <2>4. j + 1 \in 1 .. d + 1 /\ (n - c) + j = (n - d) + (j + 1) /\ k + (j + 1) = (k + 1) + j
    BY <2>1, <2>2
  <2>5. ((n - 1) - c) + j = (i - 1) + j /\ (i - 1) + j \in i .. n
    BY <2>1, <2>2, <2>3
  <2>6. (n - d) + (j + 1) = ((i - 1) + j) + 1
    BY <2>1, <2>2, <2>3
  <2> QED BY <2>4, <2>5, <2>6
<1>7. ASSUME NEW j \in 1 .. c + 1 PROVE Cell(h, s, (n - c) + j) = Cell(h, was, (k + 1) + j)
  BY <1>1, <1>6
<1>8. ASSUME NEW j \in 1 .. c + 1 PROVE Cell(h, t, (Len(t) - c) + j) = Cell(h, was, (k + 1) + j)
  <2> DEFINE p == (i - 1) + j
  <2>1. /\ p \in i .. n /\ (Len(t) - c) + j = p
        /\ Cell(h, s, p + 1) = Cell(h, was, (k + 1) + j)
    BY <1>1, <1>4, <1>6
  <2> HIDE DEF p
  <2>2. CASE p = n
    <3>1. p \notin 1 .. Len(t) /\ p + 1 \notin 1 .. n
      BY <2>2, <1>1, <1>4
    <3> QED BY <3>1, <2>1 DEF Cell, n
  <2>3. CASE p # n
    <3>1. p \in 1 .. n - 1 /\ p + 1 \in 1 .. n /\ ~ (p < i)
      <4>1. p \in Int /\ i <= p /\ p <= n /\ n \in Nat /\ i \in Nat /\ 1 <= i
        BY <2>1, <1>1, <1>2
      <4> QED BY <4>1, <2>3
    <3>2. t[p] = s[p + 1]
      BY <3>1, <1>4
    <3> QED BY <3>1, <3>2, <2>1, <1>4 DEF Cell, n
  <2> QED BY <2>2, <2>3
<1>9. Ahead(h, was, s, k + 1)
  BY <1>5, <1>7 DEF Ahead, c, n
<1>10. Ahead(h, was, t, k + 1)
  BY <1>4, <1>5, <1>8 DEF Ahead, c
<1> QED BY <1>2, <1>3, <1>9, <1>10 DEF t, n

LEMMA TurnStep ==
    ASSUME IInv, Turn
    PROVE  IInv' /\ (Now' = Now \/ \E e \in Nodes : Implements!Delete(e))
<1> DEFINE h == walk.head
           k == Len(visited)
           was == expected
           s == Now[h]
           i == (Len(s) - (Len(was) - k)) + 1
           after == [Now EXCEPT ![h] = RemoveAt(s, i)]
<1>1. /\ ~ Idle /\ walk.pos # h
      /\ m' \in {m, list_del(m, walk.pos), list_del_init(m, walk.pos)}
      /\ visited' = Append(visited, walk.pos)
      /\ walk' = [walk EXCEPT !.pos = walk.n, !.n = m'.next[walk.n]]
      /\ stale' = stale /\ expected' = was /\ Usable' = Usable
  BY DEF Turn, Walking, Advance, Usable
<1>2. /\ walk \in [head : Usable, pos : Cells, n : Cells]
      /\ h \in Usable /\ walk.pos \in Cells /\ walk.n \in Cells
      /\ visited \in Seq(Nodes) /\ was \in Seq(Nodes)
      /\ k <= Len(was) /\ \A j \in 1 .. k : visited[j] = was[j]
      /\ walk.pos = Cell(h, was, k + 1)
      /\ k < Len(was) => walk.n = Cell(h, was, k + 2)
      /\ Ahead(h, was, s, k)
  BY <1>1 DEF IInv, Walks
<1>3. /\ Usable \in SUBSET Heads /\ h \in Heads /\ Now \in [Heads -> Seq(Nodes)] /\ s \in Seq(Nodes)
      /\ \A g \in stale : Now[g] = <<>>
      /\ Holds(m, Usable, Now) /\ stale \subseteq Heads
  BY <1>2, HeldNow DEF IInv
<1>4. k \in Nat /\ Len(was) \in Nat /\ k < Len(was)
  <2>1. k \in Nat /\ Len(was) \in Nat
    BY <1>2
  <2>2. k + 1 \in 1 .. Len(was)
    BY <1>1, <1>2 DEF Cell
  <2> QED BY <2>1, <2>2
<1>5. walk.pos = was[k + 1] /\ walk.pos \in Nodes
  <2>1. k + 1 \in 1 .. Len(was)
    BY <1>4
  <2> QED BY <2>1, <1>2 DEF Cell
<1>6. /\ i \in 1 .. Len(s) /\ s[i] = walk.pos
      /\ Ahead(h, was, s, k + 1) /\ Ahead(h, was, RemoveAt(s, i), k + 1)
  <2> HIDE DEF h, k, was, s
  <2> QED BY <1>2, <1>3, <1>4, <1>5, StillAhead
<1>7. /\ walk.pos \in ToSet(s) /\ RemoveFirst(s, walk.pos) = RemoveAt(s, i)
      /\ \A g \in stale : after[g] = <<>>
      /\ Holds(list_del(m, walk.pos), Usable, after) /\ Holds(list_del_init(m, walk.pos), Usable, after)
      /\ after \in [Heads -> Seq(Nodes)] /\ after[h] = RemoveAt(s, i)
  <2>1. h \in Usable /\ i \in 1 .. Len(Now[h]) /\ Now[h][i] = walk.pos
    BY <1>2, <1>6
  <2>2. PICK f \in Usable : f = h
    BY <2>1
  <2>3. PICK q \in 1 .. Len(Now[f]) : q = i
    BY <2>1, <2>2
  <2> DEFINE gone == [Now EXCEPT ![f] = RemoveAt(Now[f], q)]
             e == Now[f][q]
  <2>4. /\ e \in ToSet(Now[f]) /\ RemoveFirst(Now[f], e) = gone[f]
        /\ \A g \in stale : gone[g] = <<>>
        /\ gone \in [Heads -> Seq(Nodes)]
        /\ Holds(list_del(m, e), Usable, gone)
        /\ Holds(list_del_init(m, e), Usable, gone)
    <3>1. gone = [g \in Heads |-> RemoveFirst(Now[g], e)]
      BY Deleted
    <3>2. e \in ToSet(Now[f])
      BY Deleted
    <3>3. \A g \in stale : gone[g] = <<>>
      <4>1. f \notin stale
        BY DEF Usable
      <4> QED BY <4>1, <1>3
    <3>4. gone \in [Heads -> Seq(Nodes)]
      BY Deleted
    <3>5. Holds(list_del(m, e), Usable, gone) /\ Holds(list_del_init(m, e), Usable, gone)
      BY Deleted
    <3> HIDE DEF gone, e
    <3> QED BY <3>1, <3>2, <3>3, <3>4, <3>5, <1>3
  <2>5. gone = after /\ e = walk.pos
    BY <2>1, <2>2, <2>3
  <2>6. after[h] = RemoveAt(s, i)
    BY <1>3
  <2> HIDE DEF gone, e, after, h, i
  <2> QED BY <2>2, <2>4, <2>5, <2>6, <1>3
<1> HIDE DEF h, k, was, s, i, after
<1>8. /\ Holds(m', Usable', Now') /\ Ahead(h, was, Now'[h], k + 1)
      /\ Now' = Now \/ Now' = [Now EXCEPT ![h] = RemoveFirst(s, walk.pos)]
  <2>1. CASE m' = m
    <3>1. Now' = Now
      BY <2>1, <1>1 DEF Now
    <3> QED BY <3>1, <2>1, <1>1, <1>3, <1>6 DEF s
  <2>2. CASE m' \in {list_del(m, walk.pos), list_del_init(m, walk.pos)}
    <3>1. Holds(m', Usable', after) /\ stale' \subseteq Heads /\ \A g \in stale' : after[g] = <<>>
      BY <2>2, <1>1, <1>3, <1>7
    <3>2. Holds(m', Usable', Now') /\ Now' = after
      BY <3>1, Became
    <3>3. after = [Now EXCEPT ![h] = RemoveFirst(s, walk.pos)]
      BY <1>7 DEF after
    <3> QED BY <3>2, <3>3, <1>6, <1>7
  <2> QED BY <2>1, <2>2, <1>1
<1>9. /\ walk' \in [head : Usable', pos : Cells, n : Cells]
      /\ walk'.head = h /\ walk'.pos = walk.n /\ walk'.n = m'.next[walk.n]
  <2>1. m'.next[walk.n] \in Cells
    BY <1>2, <1>8 DEF Holds, Memory
  <2> HIDE DEF Usable
  <2> QED BY <2>1, <1>1, <1>2 DEF h
<1>10. walk.n = Cell(h, was, k + 2)
  BY <1>2, <1>4
<1>11. k + 1 < Len(was) => m'.next[walk.n] = Cell(h, was, k + 3)
  <2> SUFFICES ASSUME k + 1 < Len(was) PROVE m'.next[walk.n] = Cell(h, was, k + 3)
    OBVIOUS
  <2> DEFINE t == Now'[h]
             d == Len(was) - (k + 1)
             p == Len(t) - d
  <2>1. Ring(m', h, t) /\ t \in Seq(Nodes)
    BY <1>1, <1>2, <1>8 DEF Holds, Ring
  <2>2. /\ d \in 0 .. Len(t) /\ d > 0 /\ Len(t) \in Nat
        /\ \A j \in 1 .. d + 1 : Cell(h, t, p + j) = Cell(h, was, (k + 1) + j)
    BY <1>4, <1>8, <2>1 DEF Ahead
  <2> HIDE DEF t
  <2>3. /\ 1 \in 1 .. d + 1 /\ 2 \in 1 .. d + 1 /\ p + 1 \in 0 .. Len(t) /\ (p + 1) + 1 = p + 2
        /\ (k + 1) + 1 = k + 2 /\ (k + 1) + 2 = k + 3
    BY <1>4, <2>2
  <2> HIDE DEF p, d
  <2>4. Cell(h, t, p + 1) = Cell(h, was, k + 2) /\ Cell(h, t, p + 2) = Cell(h, was, k + 3)
    BY <2>2, <2>3
  <2>5. m'.next[Cell(h, t, p + 1)] = Cell(h, t, (p + 1) + 1)
    BY <2>1, <2>3 DEF Ring, Linking
  <2> QED BY <2>3, <2>4, <2>5, <1>10
<1>12. /\ visited' \in Seq(Nodes) /\ Len(visited') = k + 1
       /\ \A j \in 1 .. k + 1 : visited'[j] = was[j]
  <2>1. k = Len(visited) /\ visited \in Seq(Nodes)
    BY <1>2 DEF k
  <2>2. Append(visited, walk.pos) \in Seq(Nodes) /\ Len(Append(visited, walk.pos)) = k + 1
        /\ Append(visited, walk.pos)[k + 1] = walk.pos
        /\ \A j \in 1 .. k : Append(visited, walk.pos)[j] = visited[j]
    BY <2>1, <1>5
  <2>3. \A j \in 1 .. k + 1 : j \in 1 .. k \/ j = k + 1
    BY <1>4
  <2> QED BY <2>2, <2>3, <1>1, <1>2, <1>5
<1>13. Walks'
  <2>1. ~ Idle'
    BY <1>9, <1>3, ListAssumption DEF Idle, NoWalk
  <2>2. (k + 1) + 1 = k + 2 /\ (k + 1) + 2 = k + 3 /\ k + 1 <= Len(was)
    BY <1>4
  <2>3. was \in Seq(Nodes) /\ expected' = was /\ h \in Usable'
    BY <1>1, <1>2
  <2> QED BY <2>1, <2>2, <2>3, <1>8, <1>9, <1>10, <1>11, <1>12 DEF Walks
<1>14. IInv'
  BY <1>1, <1>3, <1>8, <1>13 DEF IInv
<1>15. Now' = [Now EXCEPT ![h] = RemoveFirst(s, walk.pos)] => \E e \in Nodes : Implements!Delete(e)
  <2> HAVE Now' = [Now EXCEPT ![h] = RemoveFirst(s, walk.pos)]
  <2>1. PICK e \in Nodes : e = walk.pos
    BY <1>5
  <2>2. Implements!Delete(e)
    BY <2>1, <1>3, <1>7, AsLists DEF Implements!Delete, Implements!In, s
  <2> QED BY <2>2
<1> QED BY <1>8, <1>14, <1>15

(* One lemma per kind of step: the invariant holds after it, and the lists *)
(* have taken a step of OrderedLists or none.                              *)
LEMMA ListStep ==
    IInv /\ [Next]_vars => IInv' /\ (Implements!Next \/ Now' = Now)
<1> SUFFICES ASSUME IInv, [Next]_vars PROVE IInv' /\ (Implements!Next \/ Now' = Now)
  OBVIOUS
<1>0. Usable \subseteq Heads
  BY DEF Usable
<1>1. ASSUME NEW e \in Nodes, NEW h \in Usable, Add(e, h) \/ Move(e, h)
      PROVE  IInv' /\ Implements!Next
  <2>1. IInv' /\ (Implements!Insert(e, h) \/ Implements!Move(e, h))
    BY <1>1, AddStep, MoveStep
  <2> QED BY <2>1, <1>0 DEF Implements!Next
<1>2. ASSUME NEW e \in Nodes, Del(e) PROVE IInv' /\ Implements!Next
  BY <1>2, DelStep DEF Implements!Next
<1>3. ASSUME NEW g \in Usable, NEW h \in Usable, Splice(g, h) \/ SpliceInit(g, h)
      PROVE  IInv' /\ Implements!Next
  <2>1. IInv' /\ Implements!Splice(g, h)
    BY <1>3, SpliceStep
  <2> QED BY <2>1, <1>0 DEF Implements!Next
<1>4. ASSUME NEW h \in Heads, Reinit(h) PROVE IInv' /\ Now' = Now
  BY <1>4, ReinitStep
<1>5. ASSUME NEW h \in Usable, Begin(h) PROVE IInv' /\ Now' = Now
  BY <1>5, BeginStep
<1>6. CASE Turn
  BY <1>6, TurnStep DEF Implements!Next
<1>7. CASE End
  BY <1>7, EndStep
<1>8. CASE UNCHANGED vars
  <2>1. UNCHANGED <<m, stale, walk, visited, expected>>
    BY <1>8 DEF vars
  <2>2. Now' = Now /\ Usable' = Usable
    BY <2>1 DEF Now, Usable
  <2>3. Walks'
    BY <2>1, <2>2 DEF IInv, Walks, Idle
  <2> QED BY <2>1, <2>2, <2>3 DEF IInv
<1> QED BY <1>1, <1>2, <1>3, <1>4, <1>5, <1>6, <1>7, <1>8 DEF Next

LEMMA InvariantHolds == Spec => []IInv
BY InitLists, ListStep, PTL DEF Spec

LEMMA InvariantTyped == IInv => TypeOK
<1> SUFFICES ASSUME IInv PROVE TypeOK
  OBVIOUS
<1>1. m \in [next : [Cells -> Cells], prev : [Cells -> Cells]] /\ stale \subseteq Heads
  BY DEF IInv, Holds, Memory
<1>2. walk \in [head : Heads \cup {NULL}, pos : Cells, n : Cells]
  BY DEF IInv, Walks, Idle, NoWalk, Cells, Usable
<1>3. visited \in Seq(Nodes) /\ expected \in Seq(Nodes)
  <2>1. <<>> \in Seq(Nodes)
    OBVIOUS
  <2> QED BY <2>1 DEF IInv, Walks
<1> QED BY <1>1, <1>2, <1>3 DEF TypeOK

(***************************************************************************)
(* Whatever is added, deleted, moved and spliced, in any order, each list  *)
(* read backwards along prev is the list read forwards along next, so that *)
(* list_del (list.h:89) may take an entry out by the entry's own fields.   *)
(***************************************************************************)
THEOREM RingsStayIntact == Spec => []RingsIntact
<1>1. IInv => RingsIntact
  <2> SUFFICES ASSUME IInv, NEW h \in Usable
               PROVE  Elements(Backwards(m), h) = Reverse(Elements(m, h))
    BY InvariantTyped DEF RingsIntact, Backwards
  <2>1. h \in Heads /\ Ring(m, h, Elements(m, h))
    BY HeldNow
  <2>2. Ring(Backwards(m), h, Reverse(Elements(m, h)))
    BY <2>1, RingBackwards
  <2> QED BY <2>1, <2>2, ElementsOfRing
<1> QED BY <1>1, InvariantHolds, PTL

(***************************************************************************)
(* A walk with list_for_each_safe (list.h:206) has been at the first       *)
(* entries of the list it began with, in order and once each, and it ends  *)
(* exactly when it has been at all of them, whichever it deleted.          *)
(***************************************************************************)
THEOREM WalksAreComplete == Spec => []WalkIsComplete
<1>1. IInv => WalkIsComplete
  <2> SUFFICES ASSUME IInv, ~ Idle
               PROVE  IsPrefix(visited, expected) /\ (Walking <=> visited # expected)
    BY DEF WalkIsComplete
  <2> DEFINE h == walk.head
             k == Len(visited)
             was == expected
  <2>1. /\ h \in Heads /\ visited \in Seq(Nodes) /\ was \in Seq(Nodes) /\ k \in Nat
        /\ k <= Len(was) /\ \A i \in 1 .. k : visited[i] = was[i]
        /\ walk.pos = Cell(h, was, k + 1)
    BY DEF IInv, Walks, Usable
  <2>2. IsPrefix(visited, was)
    <3>1. SubSeq(visited, 1, k) = SubSeq(was, 1, k)
      BY <2>1
    <3> QED BY <3>1, <2>1 DEF IsPrefix
  <2>3. CASE k = Len(was)
    <3>1. visited = was
      BY <2>1, <2>3
    <3>2. walk.pos = h
      BY <2>1, <2>3 DEF Cell
    <3> QED BY <3>1, <3>2, <2>2 DEF Walking
  <2>4. CASE k < Len(was)
    <3>1. visited # was
      BY <2>4, <2>1
    <3>2. k + 1 \in 1 .. Len(was) /\ was[k + 1] \in Nodes
      BY <2>1, <2>4
    <3>3. walk.pos # h
      BY <3>2, <2>1, ListAssumption DEF Cell
    <3> QED BY <3>1, <3>3, <2>2 DEF Walking
  <2> QED BY <2>1, <2>3, <2>4
<1> QED BY <1>1, InvariantHolds, PTL

(***************************************************************************)
(* The pointers of list.h implement ordered lists: each operation puts in, *)
(* takes out or moves what it was asked to, and leaves the order of every  *)
(* other entry as it was.                                                  *)
(***************************************************************************)
THEOREM ListsImplementOrder == Spec => AreOrderedLists
<1> DEFINE held == [h \in Heads |-> IF h \in stale THEN <<>> ELSE Elements(m, h)]
<1>1. Init => Implements!Init
  BY InitLists
<1>2. IInv /\ [Next]_vars => [Implements!Next]_held
  <2>1. held = Now /\ held' = Now'
    BY AsLists
  <2> QED BY <2>1, ListStep
<1>3. Spec => Implements!Init /\ [][Implements!Next]_held
  <2> HIDE DEF held
  <2> QED BY <1>1, <1>2, InvariantHolds, PTL DEF Spec
<1> QED BY <1>3, PTL DEF AreOrderedLists, Implements!Spec
=============================================================================
