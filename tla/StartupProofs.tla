---------------------------- MODULE StartupProofs ----------------------------
(***************************************************************************)
(* Proofs about Startup, for any consoles, indices and sections: the init  *)
(* calls are made in link order, the ring implements the registry, and the *)
(* early pointer agrees with it.                                           *)
(***************************************************************************)
EXTENDS Startup, TLAPS

(* What ListProofs proves of rings, of whatever module they are a part.    *)
Rings == INSTANCE ListProofs WITH
    stale <- {}, walk <- NULL, visited <- <<>>, expected <- <<>>

(* The ring of the consoles holds s. *)
Listed(mem, s) == mem \in Rings!Memory /\ Rings!Ring(mem, consoles, s)

LEMMA ForRings ==
    /\ Rings!IsFiniteSet(Nodes) /\ Rings!IsFiniteSet(Heads)
    /\ Nodes \cap Heads = {} /\ NULL \notin Nodes \cup Heads /\ consoles \in Heads
<1>1. \A S : Rings!IsFiniteSet(S) = IsFiniteSet(S)
  BY DEF Rings!IsFiniteSet, IsFiniteSet
<1> QED BY <1>1, ListAssumption, ConsoleAssumption

LEMMA SameElements == \A mem, h : Rings!Elements(mem, h) = Elements(mem, h)
<1>1. \A S : Rings!Cardinality(S) = Cardinality(S)
  BY DEF Rings!Cardinality, Cardinality, Rings!ExistsBijection, ExistsBijection,
         Rings!Bijection, Bijection, Rings!Injection, Injection, Rings!Surjection, Surjection
<1>2. \A f, a : Rings!Trail(f, a) = Trail(f, a)
  BY DEF Rings!Trail, Trail
<1>3. \A S : Rings!Min(S) = Min(S)
  BY DEF Rings!Min, Min
<1> QED BY <1>1, <1>2, <1>3 DEF Rings!Elements, Elements

LEMMA SameOperations ==
    /\ \A s : Rings!ToSet(s) = ToSet(s)
    /\ \A mem, c, h : Rings!list_add(mem, c, h) = list_add(mem, c, h)
    /\ \A mem, p, n : Rings!list_unlink(mem, p, n) = list_unlink(mem, p, n)
    /\ \A s, i : Rings!RemoveAt(s, i) = RemoveAt(s, i)
    /\ \A f, a : Rings!Trail(f, a) = Trail(f, a)
    /\ \A S : Rings!Min(S) = Min(S)
    /\ Rings!Cells = Cells
BY DEF Rings!ToSet, ToSet, Rings!list_add, list_add, Rings!list_insert, list_insert,
       Rings!list_unlink, list_unlink, Rings!RemoveAt, RemoveAt, Rings!Trail, Trail,
       Rings!Min, Min, Rings!Cells, Cells

LEMMA ListedIs ==
    ASSUME NEW mem, NEW s, Listed(mem, s)
    PROVE  /\ s \in Seq(Nodes) /\ \A i, j \in 1 .. Len(s) : s[i] = s[j] => i = j
           /\ Elements(mem, consoles) = s
           /\ mem \in [next : [Cells -> Cells], prev : [Cells -> Cells]]
<1>1. Rings!Elements(mem, consoles) = s
  BY ForRings, Rings!ElementsOfRing DEF Listed
<1> QED BY <1>1, SameElements, SameOperations
        DEF Listed, Rings!Ring, Rings!Distinct, Rings!Memory

LEMMA Fresh == Listed(FreshMemory, <<>>)
<1>1. FreshMemory \in Rings!Memory /\ consoles \in Heads
  BY SameOperations, ForRings DEF FreshMemory, Rings!Memory, Cells
<1>2. FreshMemory.next[consoles] = consoles /\ FreshMemory.prev[consoles] = consoles
  BY <1>1 DEF FreshMemory, Cells
<1> QED BY <1>1, <1>2 DEF Listed, Rings!Ring, Rings!Distinct, Rings!Linking, Rings!Cell

LEMMA Pushed ==
    ASSUME NEW mem, NEW s, Listed(mem, s), NEW c \in Nodes, c \notin ToSet(s)
    PROVE  Listed(list_add(mem, c, consoles), <<c>> \o s)
<1>1. Rings!Ring(list_add(mem, c, consoles), consoles, <<c>> \o s)
  BY ForRings, SameOperations, Rings!RingAdd DEF Listed
<1>2. list_add(mem, c, consoles) \in Rings!Memory
  BY ForRings, SameOperations DEF Listed, Rings!Memory, list_add, list_insert, Cells
<1> QED BY <1>1, <1>2 DEF Listed

LEMMA RemovedIs ==
    ASSUME NEW s \in Seq(Nodes), NEW i \in 1 .. Len(s),
           \A j, k \in 1 .. Len(s) : s[j] = s[k] => j = k
    PROVE  /\ RemoveAt(s, i) \in Seq(Nodes) /\ Len(RemoveAt(s, i)) = Len(s) - 1
           /\ \A j \in 1 .. Len(s) - 1 : RemoveAt(s, i)[j] = IF j < i THEN s[j] ELSE s[j + 1]
           /\ RemoveFirst(s, s[i]) = RemoveAt(s, i)
<1>1. /\ Rings!RemoveAt(s, i) \in Seq(Nodes) /\ Len(Rings!RemoveAt(s, i)) = Len(s) - 1
      /\ \A j \in 1 .. Len(s) - 1 : Rings!RemoveAt(s, i)[j] = IF j < i THEN s[j] ELSE s[j + 1]
  BY ForRings, Rings!RemoveAtIs
<1>2. SelectInSeq(s, LAMBDA v : v = s[i]) = i
  <2>1. {j \in 1 .. Len(s) : s[j] = s[i]} = {i}
    OBVIOUS
  <2>2. Min({i}) = i
    BY DEF Min
  <2> QED BY <2>1, <2>2 DEF SelectInSeq
<1>3. RemoveFirst(s, s[i]) = RemoveAt(s, i)
  BY <1>2 DEF RemoveFirst
<1> QED BY <1>1, <1>3, SameOperations

LEMMA Dropped ==
    ASSUME NEW mem, NEW s, Listed(mem, s), NEW i \in 1 .. Len(s)
    PROVE  Listed(list_del(mem, s[i]), RemoveAt(s, i))
<1> DEFINE e == s[i]
           t == RemoveAt(s, i)
           un == list_unlink(mem, mem.prev[e], mem.next[e])
           new == list_del(mem, e)
<1>1. /\ s \in Seq(Nodes) /\ \A j, k \in 1 .. Len(s) : s[j] = s[k] => j = k
      /\ mem \in [next : [Cells -> Cells], prev : [Cells -> Cells]]
  BY ListedIs
<1>2. e \in Nodes /\ e \in Cells /\ NULL \in Cells
  BY <1>1 DEF Cells
<1>3. Rings!Ring(un, consoles, t)
  BY ForRings, SameOperations, Rings!RingUnlink DEF Listed
<1>4. /\ t \in Seq(Nodes) /\ Len(t) = Len(s) - 1
      /\ \A j \in 1 .. Len(s) - 1 : t[j] = IF j < i THEN s[j] ELSE s[j + 1]
  BY <1>1, RemovedIs
<1>5. un \in [next : [Cells -> Cells], prev : [Cells -> Cells]]
  <2>1. mem.prev[e] \in Cells /\ mem.next[e] \in Cells
    BY <1>1, <1>2
  <2> HIDE DEF e
  <2> QED BY <2>1, <1>1 DEF list_unlink
<1> HIDE DEF t, e
<1>6. new = [next |-> [un.next EXCEPT ![e] = NULL], prev |-> [un.prev EXCEPT ![e] = NULL]]
  BY DEF list_del
<1> HIDE DEF un, new
<1>7. /\ new \in [next : [Cells -> Cells], prev : [Cells -> Cells]]
      /\ \A c \in Cells \ {e} : new.next[c] = un.next[c] /\ new.prev[c] = un.prev[c]
  BY <1>2, <1>5, <1>6
<1>8. \A c \in {consoles} \cup ToSet(t) : c \in Cells \ {e}
  <2>1. e # consoles /\ consoles \in Cells
    BY <1>2, ForRings DEF Cells
  <2>2. ASSUME NEW j \in DOMAIN t PROVE t[j] \in Nodes /\ t[j] # e
    <3>1. j \in 1 .. Len(s) - 1 /\ Len(s) \in Nat /\ i \in 1 .. Len(s)
      BY <1>1, <1>4
    <3>2. CASE j < i
      <4>1. j \in 1 .. Len(s) /\ j # i
        BY <3>1, <3>2
      <4> QED BY <4>1, <3>1, <3>2, <1>1, <1>4 DEF e
    <3>3. CASE j >= i
      <4>1. j + 1 \in 1 .. Len(s) /\ j + 1 # i /\ ~ (j < i)
        BY <3>1, <3>3
      <4> QED BY <4>1, <3>1, <1>1, <1>4 DEF e
    <3> QED BY <3>1, <3>2, <3>3
  <2> QED BY <2>1, <2>2 DEF ToSet, Cells
<1>9. Rings!Ring(new, consoles, t)
  BY <1>3, <1>7, <1>8, ForRings, SameOperations, Rings!RingElsewhere
<1>10. new \in Rings!Memory
  BY <1>7, SameOperations DEF Rings!Memory
<1> QED BY <1>9, <1>10 DEF Listed, new, e, t

(* Where list_for_each_entry comes by on its first time round the ring.    *)
LEMMA WalkIs ==
    ASSUME NEW mem, NEW s, Listed(mem, s)
    PROVE  LET at == Trail(mem.next, mem.next[consoles])
           IN  /\ at[Len(s)] = consoles
               /\ \A k \in 1 .. Len(s) : at[k - 1] = s[k]
<1> DEFINE first == mem.next[consoles]
           at == Trail(mem.next, first)
<1>1. s \in Seq(Nodes) /\ Len(s) \in Nat
  BY DEF Listed, Rings!Ring
<1>2. \A k \in 0 .. Len(s) : mem.next[Rings!Cell(consoles, s, k)] = Rings!Cell(consoles, s, k + 1)
  BY DEF Listed, Rings!Ring, Rings!Linking
<1>3. first = Rings!Cell(consoles, s, 1)
  <2>1. Rings!Cell(consoles, s, 0) = consoles /\ 0 \in 0 .. Len(s) /\ 0 + 1 = 1
    BY <1>1 DEF Rings!Cell
  <2> QED BY <2>1, <1>2
<1> HIDE DEF first
<1>4. \A k \in Nat : k + 1 <= Len(s) + 1 => at[k] = Rings!Cell(consoles, s, k + 1)
  <2>1. 1 \in 0 .. Len(s) + 1
    BY <1>1
  <2>2. \A k \in Nat : k + 1 <= Len(s) + 1 =>
            Rings!Trail(mem.next, Rings!Cell(consoles, s, 1))[k] = Rings!Cell(consoles, s, k + 1)
    BY <1>1, <1>2, <2>1, ForRings, Rings!TrailOfRing
  <2> QED BY <2>2, <1>3, SameOperations
<1> HIDE DEF at
<1>5. at[Len(s)] = consoles
  BY <1>1, <1>4 DEF Rings!Cell
<1>6. ASSUME NEW k \in 1 .. Len(s) PROVE at[k - 1] = s[k]
  <2>1. k - 1 \in Nat /\ (k - 1) + 1 = k /\ k <= Len(s) + 1
    BY <1>1
  <2> QED BY <2>1, <1>4 DEF Rings!Cell
<1> QED BY <1>5, <1>6 DEF at, first

-----------------------------------------------------------------------------
(***************************************************************************)
(* The consoles.  The early one is of index 0, and the first of that index *)
(* in the list as long as it is in the list; until there is one, no        *)
(* console of that index is.                                               *)
(***************************************************************************)
List == Elements(m, consoles)

FirstZero(s, e) ==
    \E p \in 1 .. Len(s) : s[p] = e /\ \A j \in 1 .. p - 1 : index[s[j]] # 0

Pointed(s, e) ==
    /\ e \in Nodes \cup {NULL}
    /\ e \in Nodes => index[e] = 0
    /\ e = NULL => \A j \in 1 .. Len(s) : index[s[j]] # 0
    /\ e \in ToSet(s) => FirstZero(s, e)

ConsolesKept == Listed(m, List) /\ Pointed(List, early) /\ found \in Nodes \cup {NULL}

LEMMA SameRegistry ==
    /\ \A s : Registry!ToSet(s) = ToSet(s)
    /\ \A s, e : Registry!RemoveFirst(s, e) = RemoveFirst(s, e)
    /\ \A S : Registry!Min(S) = Min(S)
BY DEF Registry!ToSet, ToSet, Registry!RemoveFirst, RemoveFirst, Registry!RemoveAt, RemoveAt,
       Registry!SelectInSeq, SelectInSeq, Registry!Min, Min

LEMMA NoConsoles == Init => ConsolesKept /\ List = <<>> /\ Registry!Init
<1> SUFFICES ASSUME Init PROVE ConsolesKept /\ List = <<>> /\ Registry!Init
  OBVIOUS
<1>1. Listed(m, <<>>) /\ early = NULL /\ found = NULL
  BY Fresh DEF Init
<1>2. List = <<>>
  BY <1>1, ListedIs DEF List
<1>3. NULL \notin Nodes /\ NULL \notin ToSet(<<>>)
  BY ListAssumption DEF ToSet
<1> QED BY <1>1, <1>2, <1>3 DEF ConsolesKept, Pointed, Registry!Init, List

LEMMA RegisterStep ==
    ASSUME ConsolesKept, NEW c \in Nodes, console_register(c)
    PROVE  ConsolesKept' /\ List' = <<c>> \o List /\ Registry!Register(c)
<1> DEFINE s == List
           t == <<c>> \o s
<1>1. /\ c \notin ToSet(s) /\ early' = (IF index[c] = 0 THEN c ELSE early)
      /\ m' = list_add(m, c, consoles) /\ found' = found
  BY DEF console_register, Registered, early_after, link, List
<1>2. Listed(m, s) /\ Pointed(s, early) /\ s \in Seq(Nodes)
  BY ListedIs DEF ConsolesKept
<1>3. Listed(m', t)
  BY <1>1, <1>2, Pushed
<1>4. List' = t
  BY <1>3, ListedIs DEF List
<1>5. /\ t \in Seq(Nodes) /\ Len(t) = Len(s) + 1 /\ t[1] = c
      /\ \A j \in 2 .. Len(s) + 1 : t[j] = s[j - 1]
  BY <1>2
<1> HIDE DEF s, t
<1>6. Pointed(t, early')
  <2>1. CASE index[c] = 0
    <3>1. FirstZero(t, c)
      <4>1. 1 \in 1 .. Len(t) /\ \A j \in 1 .. 1 - 1 : FALSE
        BY <1>2, <1>5
      <4> QED BY <4>1, <1>5 DEF FirstZero
    <3>2. c # NULL
      BY ListAssumption
    <3> QED BY <3>1, <3>2, <2>1, <1>1 DEF Pointed
  <2>2. CASE index[c] # 0
    <3>1. early' = early /\ (early \in Nodes => early # c)
      BY <2>2, <1>1, <1>2 DEF Pointed
    <3>2. early = NULL => \A j \in 1 .. Len(t) : index[t[j]] # 0
      <4> SUFFICES ASSUME early = NULL, NEW j \in 1 .. Len(t) PROVE index[t[j]] # 0
        OBVIOUS
      <4>1. j # 1 => j \in 2 .. Len(s) + 1 /\ j - 1 \in 1 .. Len(s)
        BY <1>2, <1>5
      <4> QED BY <4>1, <2>2, <1>2, <1>5 DEF Pointed
    <3>3. early \in ToSet(t) => FirstZero(t, early)
      <4> SUFFICES ASSUME early \in ToSet(t) PROVE FirstZero(t, early)
        OBVIOUS
      <4>1. PICK q \in 1 .. Len(t) : t[q] = early
        <5>1. DOMAIN t = 1 .. Len(t)
          BY <1>5
        <5> QED BY <5>1 DEF ToSet
      <4>2. q \in 2 .. Len(s) + 1 /\ q - 1 \in 1 .. Len(s) /\ s[q - 1] = early
        <5>1. q # 1
          BY <4>1, <3>1, <1>5
        <5>2. q \in 2 .. Len(s) + 1 /\ q - 1 \in 1 .. Len(s)
          BY <5>1, <1>2, <1>5
        <5> QED BY <5>2, <4>1, <1>5
      <4>3. PICK p \in 1 .. Len(s) : s[p] = early /\ \A j \in 1 .. p - 1 : index[s[j]] # 0
        <5>1. early \in ToSet(s)
          BY <4>2, <1>2 DEF ToSet
        <5> QED BY <5>1, <1>2 DEF Pointed, FirstZero
      <4>4. p + 1 \in 1 .. Len(t) /\ p + 1 \in 2 .. Len(s) + 1 /\ (p + 1) - 1 = p
        BY <1>2, <1>5
      <4>5. ASSUME NEW j \in 1 .. (p + 1) - 1 PROVE index[t[j]] # 0
        <5>1. CASE j = 1
          BY <5>1, <2>2, <1>5
        <5>2. CASE j # 1
          <6>1. j \in 2 .. Len(s) + 1 /\ j - 1 \in 1 .. p - 1
            BY <5>2, <1>2
          <6> QED BY <6>1, <4>3, <1>5
        <5> QED BY <5>1, <5>2
      <4> QED BY <4>3, <4>4, <4>5, <1>5 DEF FirstZero
    <3> QED BY <3>1, <3>2, <3>3, <1>2 DEF Pointed
  <2> QED BY <2>1, <2>2
<1>7. ConsolesKept'
  BY <1>1, <1>3, <1>4, <1>6 DEF ConsolesKept
<1>8. Registry!Register(c)
  BY <1>1, <1>4, SameRegistry DEF Registry!Register, List, s, t
<1> QED BY <1>4, <1>7, <1>8 DEF s, t

LEMMA UnregisterStep ==
    ASSUME ConsolesKept, NEW c \in Nodes, console_unregister(c)
    PROVE  ConsolesKept' /\ Registry!Unregister(c)
<1> DEFINE s == List
<1>1. c \in ToSet(s) /\ m' = list_del(m, c) /\ early' = early /\ found' = found
  BY DEF console_unregister, Registered, List
<1>2. /\ Listed(m, s) /\ Pointed(s, early) /\ s \in Seq(Nodes)
      /\ \A i, j \in 1 .. Len(s) : s[i] = s[j] => i = j
  BY ListedIs DEF ConsolesKept
<1> HIDE DEF s
<1>3. PICK i \in 1 .. Len(s) : s[i] = c
  <2>1. DOMAIN s = 1 .. Len(s)
    BY <1>2
  <2> QED BY <2>1, <1>1 DEF ToSet
<1> DEFINE t == RemoveAt(s, i)
<1>4. /\ t \in Seq(Nodes) /\ Len(t) = Len(s) - 1 /\ RemoveFirst(s, c) = t
      /\ \A j \in 1 .. Len(s) - 1 : t[j] = IF j < i THEN s[j] ELSE s[j + 1]
  BY <1>2, <1>3, RemovedIs
<1>5. Listed(m', t)
  BY <1>1, <1>2, <1>3, Dropped
<1>6. List' = t
  BY <1>5, ListedIs DEF List
<1> HIDE DEF t
<1>7. ASSUME NEW j \in 1 .. Len(t)
      PROVE  \E k \in 1 .. Len(s) : t[j] = s[k] /\ k # i /\ k = IF j < i THEN j ELSE j + 1
  <2>1. j \in 1 .. Len(s) - 1 /\ j \in 1 .. Len(s) /\ j + 1 \in 1 .. Len(s) /\ i \in Nat
    BY <1>2, <1>4
  <2> QED BY <2>1, <1>4
<1>8. early = NULL => \A j \in 1 .. Len(t) : index[t[j]] # 0
  BY <1>2, <1>7 DEF Pointed
<1>9. early \in ToSet(t) => FirstZero(t, early)
  <2> SUFFICES ASSUME early \in ToSet(t) PROVE FirstZero(t, early)
    OBVIOUS
  <2>1. PICK q \in 1 .. Len(t) : t[q] = early
    <3>1. DOMAIN t = 1 .. Len(t)
      BY <1>4
    <3> QED BY <3>1 DEF ToSet
  <2>2. PICK k \in 1 .. Len(s) : early = s[k] /\ k # i /\ k = IF q < i THEN q ELSE q + 1
    BY <2>1, <1>7
  <2>3. PICK p \in 1 .. Len(s) : s[p] = early /\ \A j \in 1 .. p - 1 : index[s[j]] # 0
    <3>1. early \in ToSet(s)
      BY <2>2, <1>2 DEF ToSet
    <3> QED BY <3>1, <1>2 DEF Pointed, FirstZero
  <2>4. p = k
    BY <2>2, <2>3, <1>2
  <2>5. ASSUME NEW j \in 1 .. q - 1 PROVE index[t[j]] # 0
    <3>1. j \in 1 .. Len(t) /\ j \in Nat /\ q \in Nat /\ j < q
      BY <1>4
    <3>2. PICK l \in 1 .. Len(s) : t[j] = s[l] /\ l # i /\ l = IF j < i THEN j ELSE j + 1
      BY <3>1, <1>7
    <3>3. l \in 1 .. p - 1
      BY <3>1, <3>2, <2>2, <2>4
    <3> QED BY <3>2, <3>3, <2>3
  <2> QED BY <2>1, <2>5 DEF FirstZero
<1>10. ConsolesKept'
  BY <1>1, <1>2, <1>5, <1>6, <1>8, <1>9 DEF ConsolesKept, Pointed
<1>11. Registry!Unregister(c)
  BY <1>1, <1>4, <1>6, SameRegistry DEF Registry!Unregister, List, s
<1> QED BY <1>10, <1>11

(* In a walk of n entries, those that stop it: one place behind each match.*)
StopsAtMatches(n, stops, matches) ==
    /\ n \in Nat /\ stops \subseteq Nat /\ matches \subseteq 1 .. n
    /\ \A k \in 0 .. n : k \in stops <=> (k = n \/ k + 1 \in matches)

LEMMA FirstStop ==
    ASSUME NEW n, NEW stops, NEW matches, StopsAtMatches(n, stops, matches)
    PROVE  /\ matches = {} => Min(stops) = n
           /\ matches # {} => Min(matches) \in 1 .. n /\ Min(stops) = Min(matches) - 1
<1> USE DEF StopsAtMatches
<1>1. n \in 0 .. n /\ n \in stops
  OBVIOUS
<1>2. CASE matches = {}
  <2>1. \A k \in stops : n <= k
    BY <1>2
  <2>2. \A x \in stops : (\A y \in stops : x <= y) => x = n
    BY <1>1, <2>1
  <2>3. Min(stops) = n
    BY <1>1, <2>1, <2>2 DEF Min
  <2> QED BY <1>2, <2>3
<1>3. CASE matches # {}
  <2>1. Min(matches) \in matches /\ \A k \in matches : Min(matches) <= k
    <3>1. matches \in SUBSET Nat
      OBVIOUS
    <3>2. Rings!Min(matches) \in matches /\ \A k \in matches : Rings!Min(matches) <= k
      BY <3>1, <1>3, ForRings, Rings!LeastOf
    <3> QED BY <3>2, SameOperations
  <2>2. PICK p \in 1 .. n : p = Min(matches)
    BY <2>1
  <2>3. p - 1 \in 0 .. n /\ (p - 1) + 1 = p
    BY <2>2
  <2>4. p - 1 \in stops
    BY <2>1, <2>2, <2>3
  <2>5. \A k \in stops : p - 1 <= k
    <3> SUFFICES ASSUME NEW k \in stops, k < p - 1 PROVE FALSE
      BY <2>2
    <3>1. k \in 0 .. n /\ k # n /\ k + 1 < p
      BY <2>2
    <3>2. k + 1 \in matches
      BY <3>1
    <3> QED BY <3>1, <3>2, <2>1, <2>2
  <2>6. Min(stops) = p - 1
    <3>1. \A x \in stops : (\A y \in stops : x <= y) => x = p - 1
      BY <2>2, <2>4, <2>5
    <3> QED BY <3>1, <2>4, <2>5 DEF Min
  <2> QED BY <1>3, <2>2, <2>6
<1> QED BY <1>2, <1>3

(* Where the walk of console_get may end, and the consoles of its index.   *)
Stops(at, idx) == {k \in 0 .. Cardinality(Nodes) : at[k] = consoles \/ index[at[k]] = idx}
Matches(s, idx) == {k \in DOMAIN s : index[s[k]] = idx}
FirstMatch(s, idx) == IF Matches(s, idx) = {} THEN NULL ELSE s[Min(Matches(s, idx))]

(* The walk ends at the first console of the index.                        *)
LEMMA WalkFinds ==
    ASSUME NEW mem, NEW s, Listed(mem, s), NEW idx
    PROVE  LET at == Trail(mem.next, mem.next[consoles])
           IN  answer(at[Min(Stops(at, idx))]) = FirstMatch(s, idx)
<1> DEFINE at == Trail(mem.next, mem.next[consoles])
           stops == Stops(at, idx)
           matches == Matches(s, idx)
<1>1. PICK n \in Nat : n = Len(s) /\ DOMAIN s = 1 .. n
  BY ListedIs
<1>2. s \in Seq(Nodes) /\ consoles \notin Nodes
  BY ListedIs, ForRings
<1>3. at[n] = consoles /\ \A k \in 1 .. n : at[k - 1] = s[k] /\ s[k] \in Nodes
  BY <1>1, <1>2, WalkIs
<1>4. PICK most \in Nat : most = Cardinality(Nodes) /\ n <= most
  <2>1. Len(s) <= Rings!Cardinality(Nodes) /\ Rings!Cardinality(Nodes) \in Nat
    BY <1>2, ForRings, Rings!DistinctFit DEF Listed, Rings!Ring
  <2>2. Rings!Cardinality(Nodes) = Cardinality(Nodes)
    BY DEF Rings!Cardinality, Cardinality, Rings!ExistsBijection, ExistsBijection,
           Rings!Bijection, Bijection, Rings!Injection, Injection, Rings!Surjection, Surjection
  <2> QED BY <2>1, <2>2, <1>1
<1> HIDE DEF at
<1>5. ASSUME NEW k \in 0 .. n PROVE k \in stops <=> (k = n \/ k + 1 \in matches)
  <2>1. k \in 0 .. most
    BY <1>4
  <2>2. CASE k = n
    BY <2>1, <2>2, <1>3, <1>4 DEF Stops
  <2>3. CASE k # n
    <3>1. k + 1 \in 1 .. n /\ (k + 1) - 1 = k
      BY <2>3
    <3>2. at[k] = s[k + 1] /\ s[k + 1] \in Nodes
      BY <3>1, <1>3
    <3> QED BY <2>1, <2>3, <3>1, <3>2, <1>1, <1>2, <1>4 DEF Stops, Matches
  <2> QED BY <2>2, <2>3
<1>6. StopsAtMatches(n, stops, matches)
  BY <1>1, <1>4, <1>5 DEF StopsAtMatches, Stops, Matches
<1> HIDE DEF stops, matches
<1>7. /\ matches = {} => Min(stops) = n
      /\ matches # {} => Min(matches) \in 1 .. n /\ Min(stops) = Min(matches) - 1
  BY <1>6, FirstStop
<1>8. answer(at[Min(stops)]) = (IF matches = {} THEN NULL ELSE s[Min(matches)])
  <2>1. CASE matches = {}
    BY <2>1, <1>3, <1>7 DEF answer
  <2>2. CASE matches # {}
    <3>1. at[Min(stops)] = s[Min(matches)] /\ s[Min(matches)] \in Nodes
      BY <2>2, <1>3, <1>7
    <3> QED BY <3>1, <2>2, <1>2 DEF answer
  <2> QED BY <2>1, <2>2
<1> QED BY <1>8 DEF at, stops, matches, FirstMatch

LEMMA GetStep ==
    ASSUME ConsolesKept, NEW idx, console_get(idx)
    PROVE  ConsolesKept' /\ Registry!LookUp(idx)
<1> DEFINE at == Trail(m.next, m.next[consoles])
<1>1. m' = m /\ early' = early /\ List' = List /\ Listed(m, List)
  BY DEF console_get, List, ConsolesKept
<1>2. found' = FirstMatch(List, idx)
  <2>1. answer(at[Min(Stops(at, idx))]) = FirstMatch(List, idx)
    BY <1>1, WalkFinds
  <2>2. found' = answer(at[Min(Stops(at, idx))])
    BY DEF console_get, LastVisited, Stops
  <2> QED BY <2>1, <2>2
<1>3. FirstMatch(List, idx) \in Nodes \cup {NULL}
  <2>1. List \in Seq(Nodes) /\ DOMAIN List = 1 .. Len(List)
    BY <1>1, ListedIs
  <2>2. Matches(List, idx) \in SUBSET Nat /\ Matches(List, idx) \subseteq DOMAIN List
    BY <2>1 DEF Matches
  <2>3. Matches(List, idx) # {} => Rings!Min(Matches(List, idx)) \in Matches(List, idx)
    BY <2>2, ForRings, Rings!LeastOf
  <2> QED BY <2>1, <2>2, <2>3, SameOperations DEF FirstMatch
<1>4. ConsolesKept'
  BY <1>1, <1>2, <1>3 DEF ConsolesKept
<1>5. Registry!LookUp(idx)
  BY <1>1, <1>2, SameRegistry DEF Registry!LookUp, List, FirstMatch, Matches
<1> QED BY <1>4, <1>5

LEMMA ConsoleStep ==
    ConsolesKept /\ [Next]_vars => ConsolesKept' /\ [Registry!Next]_Registry!vars
<1> SUFFICES ASSUME ConsolesKept, [Next]_vars
             PROVE  ConsolesKept' /\ [Registry!Next]_Registry!vars
  OBVIOUS
<1>1. ASSUME NEW c \in Nodes, console_register(c)
      PROVE  ConsolesKept' /\ Registry!Next
  BY <1>1, RegisterStep DEF Registry!Next
<1>2. ASSUME NEW c \in Nodes, console_unregister(c)
      PROVE  ConsolesKept' /\ Registry!Next
  BY <1>2, UnregisterStep DEF Registry!Next
<1>3. ASSUME NEW i \in {index[c] : c \in Nodes}, console_get(i)
      PROVE  ConsolesKept' /\ Registry!Next
  BY <1>3, GetStep DEF Registry!Next
<1>4. ASSUME UNCHANGED vars PROVE ConsolesKept' /\ UNCHANGED Registry!vars
  BY <1>4 DEF vars, ConsolesKept, List, Registry!vars
<1> QED BY <1>1, <1>2, <1>3, <1>4 DEF Next

LEMMA EarlyFirst == ConsolesKept => EarlyIsFirst
<1> DEFINE s == List
           zeros == {k \in DOMAIN s : index[s[k]] = 0}
<1> SUFFICES ASSUME ConsolesKept, early \in ToSet(s) \cup {NULL}
             PROVE  early = IF zeros = {} THEN NULL ELSE s[Min(zeros)]
  BY DEF EarlyIsFirst, Registered, List
<1>1. /\ s \in Seq(Nodes) /\ DOMAIN s = 1 .. Len(s) /\ Pointed(s, early)
  BY ListedIs DEF ConsolesKept
<1> HIDE DEF s
<1>2. CASE early = NULL
  BY <1>1, <1>2 DEF Pointed
<1>3. CASE early # NULL
  <2>1. early \in ToSet(s) /\ index[early] = 0
    BY <1>1, <1>3 DEF Pointed
  <2>2. PICK p \in 1 .. Len(s) : s[p] = early /\ \A j \in 1 .. p - 1 : index[s[j]] # 0
    BY <2>1, <1>1 DEF Pointed, FirstZero
  <2>3. p \in zeros /\ p \in Nat /\ \A k \in zeros : k \in Nat
    BY <2>1, <2>2, <1>1
  <2>4. \A k \in zeros : p <= k
    <3> SUFFICES ASSUME NEW k \in zeros, k < p PROVE FALSE
      BY <2>3
    <3>1. k \in 1 .. p - 1
      BY <1>1
    <3> QED BY <3>1, <2>2
  <2> HIDE DEF zeros
  <2>5. Min(zeros) = p
    <3>1. \A x \in zeros : (\A y \in zeros : x <= y) => x = p
      BY <2>3, <2>4
    <3> QED BY <3>1, <2>3, <2>4 DEF Min
  <2> QED BY <2>2, <2>3, <2>5
<1> QED BY <1>2, <1>3
-----------------------------------------------------------------------------
(***************************************************************************)
(* The tables.  A level's part begins where the parts before it end.       *)
(***************************************************************************)
Functions == UNION {ToSet(o) : o \in Orders}

(* The first n of at most four sequences, one after the other.             *)
Joined(seqs, n) ==
    IF n = 0 THEN <<>>
    ELSE IF n = 1 THEN seqs[1]
    ELSE IF n = 2 THEN seqs[1] \o seqs[2]
    ELSE IF n = 3 THEN (seqs[1] \o seqs[2]) \o seqs[3]
    ELSE ((seqs[1] \o seqs[2]) \o seqs[3]) \o seqs[4]

LEMMA JoinedIs ==
    ASSUME NEW seqs
    PROVE  /\ Joined(seqs, 0) = <<>>
           /\ Joined(seqs, 1) = seqs[1]
           /\ Joined(seqs, 2) = seqs[1] \o seqs[2]
           /\ Joined(seqs, 3) = (seqs[1] \o seqs[2]) \o seqs[3]
           /\ Joined(seqs, 4) = ((seqs[1] \o seqs[2]) \o seqs[3]) \o seqs[4]
BY DEF Joined

LEMMA FlattenIs ==
    ASSUME NEW n \in 0 .. 4, NEW S, NEW seqs \in [1 .. n -> S]
    PROVE  Calls!FlattenSeq(seqs) = Joined(seqs, n)
<1>1. seqs \in Seq(S) /\ Len(seqs) = n
  OBVIOUS
<1>2. CASE n = 0
  <2>1. seqs = <<>>
    BY <1>1, <1>2
  <2> QED BY <1>1, <1>2, <2>1 DEF Calls!FlattenSeq, Joined
<1>3. CASE n # 0
  <2> DEFINE P(f) == f = [i \in 1 .. Len(seqs) |-> IF i = 1 THEN seqs[i] ELSE f[i - 1] \o seqs[i]]
             flatten == CHOOSE f : P(f)
             g == [i \in 1 .. n |-> Joined(seqs, i)]
  <2>1. P(g)
    <3>1. ASSUME NEW i \in 1 .. n
          PROVE  Joined(seqs, i) = IF i = 1 THEN seqs[i] ELSE g[i - 1] \o seqs[i]
      <4>1. CASE i = 1
        BY <4>1 DEF Joined
      <4>2. CASE i # 1
        <5>1. i - 1 \in 1 .. n /\ i \in {2, 3, 4}
          BY <4>2
        <5>2. g[i - 1] = Joined(seqs, i - 1)
          BY <5>1
        <5> HIDE DEF g
        <5>3. CASE i = 2
          BY <5>2, <5>3 DEF Joined
        <5>4. CASE i = 3
          BY <5>2, <5>4 DEF Joined
        <5>5. CASE i = 4
          BY <5>2, <5>5 DEF Joined
        <5> QED BY <5>1, <5>3, <5>4, <5>5
      <4> QED BY <4>1, <4>2
    <3> QED BY <3>1, <1>1
  <2> HIDE DEF g
  <2>2. P(flatten)
    BY <2>1
  <2>3. Calls!FlattenSeq(seqs) = flatten[n]
    BY <1>1, <1>3 DEF Calls!FlattenSeq
  <2> HIDE DEF flatten
  <2>4. \A i \in 1 .. n : flatten[i] = IF i = 1 THEN seqs[i] ELSE flatten[i - 1] \o seqs[i]
    BY <2>2, <1>1
  <2>5. flatten[1] = Joined(seqs, 1)
    <3>1. 1 \in 1 .. n
      BY <1>3
    <3> QED BY <3>1, <2>4 DEF Joined
  <2>6. ASSUME n >= 2 PROVE flatten[2] = Joined(seqs, 2)
    <3>1. 2 \in 1 .. n /\ 2 # 1 /\ 2 - 1 = 1
      BY <2>6
    <3>2. flatten[2] = flatten[1] \o seqs[2]
      BY <3>1, <2>4
    <3> QED BY <3>2, <2>5 DEF Joined
  <2>7. ASSUME n >= 3 PROVE flatten[3] = Joined(seqs, 3)
    <3>1. n >= 2 /\ 3 \in 1 .. n /\ 3 # 1 /\ 3 - 1 = 2
      BY <2>7
    <3>2. flatten[3] = flatten[2] \o seqs[3]
      BY <3>1, <2>4
    <3> QED BY <3>1, <3>2, <2>6, JoinedIs
  <2>8. ASSUME n >= 4 PROVE flatten[4] = Joined(seqs, 4)
    <3>1. n >= 3 /\ 4 \in 1 .. n /\ 4 # 1 /\ 4 - 1 = 3
      BY <2>8
    <3>2. flatten[4] = flatten[3] \o seqs[4]
      BY <3>1, <2>4
    <3> QED BY <3>1, <3>2, <2>7, JoinedIs
  <2>9. n \in {1, 2, 3, 4}
    BY <1>3
  <2> QED BY <2>3, <2>5, <2>6, <2>7, <2>8, <2>9
<1> QED BY <1>2, <1>3

(* What ic registers for the levels below l, as link.ld gathers it.        *)
Below(ic, l) == Joined([i \in 1 .. l |-> ic[i - 1]], l)

Sourced == initcalls \in [0 .. 3 -> Orders] /\ exitcalls \in [1 .. 3 -> Orders]

LEMMA BelowIs ==
    ASSUME NEW ic
    PROVE  /\ Below(ic, 0) = <<>>
           /\ Below(ic, 1) = ic[0]
           /\ Below(ic, 2) = ic[0] \o ic[1]
           /\ Below(ic, 3) = (ic[0] \o ic[1]) \o ic[2]
           /\ Below(ic, 4) = ((ic[0] \o ic[1]) \o ic[2]) \o ic[3]
<1> DEFINE q(l) == [i \in 1 .. l |-> ic[i - 1]]
<1>1. /\ 1 - 1 = 0 /\ 2 - 1 = 1 /\ 3 - 1 = 2 /\ 4 - 1 = 3
      /\ \A l \in 1 .. 4 : 1 \in 1 .. l /\ (l >= 2 => 2 \in 1 .. l)
      /\ 3 \in 1 .. 3 /\ 3 \in 1 .. 4 /\ 4 \in 1 .. 4
  OBVIOUS
<1>2. /\ q(1)[1] = ic[0]
      /\ q(2)[1] = ic[0] /\ q(2)[2] = ic[1]
      /\ q(3)[1] = ic[0] /\ q(3)[2] = ic[1] /\ q(3)[3] = ic[2]
      /\ q(4)[1] = ic[0] /\ q(4)[2] = ic[1]
      /\ q(4)[3] = ic[2] /\ q(4)[4] = ic[3]
  BY <1>1
<1>3. \A l : Below(ic, l) = Joined(q(l), l)
  BY DEF Below
<1> HIDE DEF q
<1>4. Below(ic, 2) = ic[0] \o ic[1]
  BY <1>2, <1>3, JoinedIs
<1>5. Below(ic, 3) = (ic[0] \o ic[1]) \o ic[2]
  BY <1>2, <1>3, JoinedIs
<1>6. Below(ic, 4) = ((ic[0] \o ic[1]) \o ic[2]) \o ic[3]
  BY <1>2, <1>3, JoinedIs
<1> QED BY <1>2, <1>3, <1>4, <1>5, <1>6, JoinedIs

LEMMA TableIs ==
    ASSUME Sourced
    PROVE  /\ Calls!InitTable = Below(initcalls, 4)
           /\ \A l \in 0 .. 3 : Calls!init_begin(l) = 1 + Len(Below(initcalls, l))
           /\ \A l \in 0 .. 3 : Calls!init_end(l) = 1 + Len(Below(initcalls, l + 1))
           /\ \A l \in 1 .. 3 :
                  Reverse(SubSeq(Calls!ExitTable, Calls!exit_begin(l), Calls!exit_end(l) - 1)) = <<>>
<1>1. ASSUME NEW l \in 0 .. 4
      PROVE  Calls!FlattenSeq([i \in 1 .. l |-> initcalls[i - 1]]) = Below(initcalls, l)
  <2>1. [i \in 1 .. l |-> initcalls[i - 1]] \in [1 .. l -> Orders]
    <3>1. \A i \in 1 .. l : i - 1 \in 0 .. 3
      OBVIOUS
    <3> QED BY <3>1 DEF Sourced
  <2> QED BY <2>1, FlattenIs DEF Below
<1>2. ASSUME NEW n \in 0 .. 3 PROVE Calls!FlattenSeq([i \in 1 .. n |-> <<>>]) = <<>>
  <2> DEFINE q == [i \in 1 .. n |-> <<>>]
  <2>1. Calls!FlattenSeq(q) = Joined(q, n)
    <3>1. q \in [1 .. n -> {<<>>}] /\ n \in 0 .. 4
      OBVIOUS
    <3> QED BY <3>1, FlattenIs
  <2>2. n \in {0, 1, 2, 3} /\ <<>> \o <<>> = <<>>
    OBVIOUS
  <2>3. Joined(q, n) = <<>>
    BY <2>2 DEF Joined
  <2> QED BY <2>1, <2>3
<1>3. Calls!InitTable = Below(initcalls, 4)
  BY <1>1 DEF Calls!InitTable
<1>4. ASSUME NEW l \in 0 .. 3
      PROVE  Calls!init_begin(l) = 1 + Len(Below(initcalls, l)) /\ Calls!init_end(l) = 1 + Len(Below(initcalls, l + 1))
  <2>1. l \in 0 .. 4 /\ l + 1 \in 0 .. 4
    OBVIOUS
  <2> QED BY <1>1, <2>1 DEF Calls!init_begin, Calls!init_end
<1>5. ASSUME NEW l \in 1 .. 3
      PROVE  /\ Calls!ExitTable = <<>> /\ Calls!exit_begin(l) = 1 /\ Calls!exit_end(l) = 1
  <2>1. l \in 0 .. 3 /\ l - 1 \in 0 .. 3 /\ 3 \in 0 .. 3 /\ Len(<<>>) = 0
    OBVIOUS
  <2> QED BY <1>2, <2>1 DEF Calls!ExitTable, Calls!exit_begin, Calls!exit_end, Calls!ExitLevels,
                            Calls!Gathered
<1>6. Reverse(SubSeq(<<>>, 1, 1 - 1)) = <<>>
  BY DEF Reverse
<1> QED BY <1>3, <1>4, <1>5, <1>6
LEMMA Grows ==
    ASSUME NEW ic \in [0 .. 3 -> Orders]
    PROVE  /\ \A l \in 0 .. 4 : Below(ic, l) \in Seq(Functions) /\ Len(Below(ic, l)) \in Nat
           /\ Len(Below(ic, 0)) = 0
           /\ \A l \in 0 .. 3 : Len(Below(ic, l)) <= Len(Below(ic, l + 1))
           /\ \A k \in 1 .. Len(Below(ic, 3)) : Below(ic, 3)[k] = Below(ic, 4)[k]
<1>1. \A l \in 0 .. 3 : ic[l] \in Seq(Functions) /\ Len(ic[l]) \in Nat
  BY StartupAssumption DEF Functions
<1>2. PICK a, b, c, d \in Seq(Functions) : a = ic[0] /\ b = ic[1] /\ c = ic[2] /\ d = ic[3]
  BY <1>1
<1>3. /\ Below(ic, 0) = <<>> /\ Below(ic, 1) = a /\ Below(ic, 2) = a \o b
      /\ Below(ic, 3) = (a \o b) \o c /\ Below(ic, 4) = ((a \o b) \o c) \o d
  BY <1>2, BelowIs
<1>4. /\ a \o b \in Seq(Functions) /\ (a \o b) \o c \in Seq(Functions)
      /\ ((a \o b) \o c) \o d \in Seq(Functions) /\ <<>> \in Seq(Functions)
  OBVIOUS
<1>5. /\ Len(a) \in Nat /\ Len(b) \in Nat /\ Len(c) \in Nat /\ Len(d) \in Nat /\ Len(<<>>) = 0
      /\ Len(a \o b) = Len(a) + Len(b) /\ Len((a \o b) \o c) = Len(a \o b) + Len(c)
      /\ Len(((a \o b) \o c) \o d) = Len((a \o b) \o c) + Len(d)
  BY <1>4
<1>6. ASSUME NEW l \in 0 .. 4 PROVE Below(ic, l) \in Seq(Functions) /\ Len(Below(ic, l)) \in Nat
  <2>1. l \in {0, 1, 2, 3, 4}
    OBVIOUS
  <2>2. Below(ic, l) \in Seq(Functions)
    BY <2>1, <1>3, <1>4
  <2> QED BY <2>2
<1>7. ASSUME NEW l \in 0 .. 3 PROVE Len(Below(ic, l)) <= Len(Below(ic, l + 1))
  <2>1. l = 0 \/ l = 1 \/ l = 2 \/ l = 3
    OBVIOUS
  <2>2. 0 + 1 = 1 /\ 1 + 1 = 2 /\ 2 + 1 = 3 /\ 3 + 1 = 4
    OBVIOUS
  <2>3. /\ Len(Below(ic, 0)) <= Len(Below(ic, 1)) /\ Len(Below(ic, 1)) <= Len(Below(ic, 2))
        /\ Len(Below(ic, 2)) <= Len(Below(ic, 3)) /\ Len(Below(ic, 3)) <= Len(Below(ic, 4))
    BY <1>3, <1>5
  <2> QED BY <2>1, <2>2, <2>3
<1>8. ASSUME NEW k \in 1 .. Len(Below(ic, 3)) PROVE Below(ic, 3)[k] = Below(ic, 4)[k]
  BY <1>3, <1>4
<1> QED BY <1>3, <1>5, <1>6, <1>7, <1>8

(***************************************************************************)
(* The calls.  Between two loops those of the levels below have been made; *)
(* in a loop its pointer stands at the first one that has not.             *)
(***************************************************************************)
Progress ==
    /\ Sourced
    /\ stage \in 0 .. 3
    /\ done \in Seq(Functions)
    /\ \A k \in 1 .. Len(done) : done[k] = Below(initcalls, 4)[k]
    /\ undone \in [1 .. 3 -> {None} \cup Orders]
    /\ \/ /\ loop = -1 /\ Len(done) = Len(Below(initcalls, stage))
          /\ call \in 0 .. Len(Below(initcalls, 4)) + 1
       \/ /\ loop = stage /\ stage < 3 /\ call = Len(done) + 1
          /\ Len(Below(initcalls, stage)) <= Len(done)
          /\ Len(done) <= Len(Below(initcalls, stage + 1))

LEMMA NotPast ==
    ASSUME Progress
    PROVE  /\ Len(done) \in Nat
           /\ Len(done) <= Len(Below(initcalls, 3))
           /\ Len(Below(initcalls, 3)) \in Nat /\ Len(Below(initcalls, 4)) \in Nat
           /\ Len(Below(initcalls, 3)) <= Len(Below(initcalls, 4))
<1>1. PICK n \in [0 .. 4 -> Nat] :
          /\ \A l \in 0 .. 4 : n[l] = Len(Below(initcalls, l))
          /\ \A l \in 0 .. 3 : n[l] <= n[l + 1]
  <2> DEFINE n == [l \in 0 .. 4 |-> Len(Below(initcalls, l))]
  <2>1. n \in [0 .. 4 -> Nat] /\ \A l \in 0 .. 3 : n[l] <= n[l + 1]
    <3>1. \A l \in 0 .. 3 : l + 1 \in 0 .. 4 /\ l \in 0 .. 4
      OBVIOUS
    <3> QED BY <3>1, Grows DEF Progress, Sourced
  <2> QED BY <2>1
<1>2. n[0] <= n[1] /\ n[1] <= n[2] /\ n[2] <= n[3] /\ n[3] <= n[4]
  BY <1>1
<1>3. n[0] \in Nat /\ n[1] \in Nat /\ n[2] \in Nat /\ n[3] \in Nat /\ n[4] \in Nat
  OBVIOUS
<1>4. Len(done) \in Nat
  BY DEF Progress
<1>5. Len(done) <= n[3]
  <2>1. stage = 0 \/ stage = 1 \/ stage = 2 \/ stage = 3
    BY DEF Progress
  <2>2. CASE loop = -1 /\ Len(done) = Len(Below(initcalls, stage))
    BY <2>1, <2>2, <1>1, <1>2, <1>3
  <2>3. CASE stage < 3 /\ Len(done) <= Len(Below(initcalls, stage + 1))
    <3>1. Len(done) <= n[stage + 1] /\ (stage = 0 \/ stage = 1 \/ stage = 2)
      BY <2>1, <2>3, <1>1
    <3> QED BY <3>1, <1>2, <1>3, <1>4
  <2> QED BY <2>2, <2>3 DEF Progress
<1> QED BY <1>1, <1>2, <1>3, <1>4, <1>5

LEMMA NothingCalled == StartupInit => Progress
<1> SUFFICES ASSUME StartupInit PROVE Progress
  OBVIOUS
<1>1. Sourced /\ stage = 0 /\ loop = -1 /\ call = 0 /\ done = <<>> /\ undone = [l \in 1 .. 3 |-> None]
  BY DEF StartupInit, Sourced, Calls!Init, Calls!Levels, Calls!ExitLevels, Calls!NoLoop
<1>2. Len(Below(initcalls, 0)) = 0 /\ Len(Below(initcalls, 4)) \in Nat
  BY <1>1, Grows DEF Sourced
<1> QED BY <1>1, <1>2 DEF Progress

LEMMA LoopBegins == Progress /\ Calls!do_initcalls => Progress'
<1> SUFFICES ASSUME Progress, Calls!do_initcalls PROVE Progress'
  OBVIOUS
<1>1. /\ stage < 3 /\ loop = -1 /\ loop' = stage /\ call' = Calls!init_begin(stage)
      /\ UNCHANGED <<initcalls, exitcalls, stage, done, undone>>
  BY DEF Calls!do_initcalls, Calls!Running, Calls!NoLoop, Calls!Registrations
<1>2. stage \in 0 .. 2 /\ stage \in 0 .. 3 /\ stage # -1
  BY <1>1 DEF Progress
<1>3. call' = 1 + Len(Below(initcalls, stage)) /\ Len(done) = Len(Below(initcalls, stage))
  BY <1>1, <1>2, TableIs DEF Progress
<1>4. /\ Len(Below(initcalls, stage)) \in Nat
      /\ Len(Below(initcalls, stage)) <= Len(Below(initcalls, stage + 1))
  <2>1. \A l \in 0 .. 3 : l \in 0 .. 4
    OBVIOUS
  <2> QED BY <1>2, <2>1, Grows DEF Progress, Sourced
<1> QED BY <1>1, <1>2, <1>3, <1>4 DEF Progress, Sourced

LEMMA CallMade ==
    ASSUME Progress, Calls!InitCall
    PROVE  /\ Progress' /\ stage < 3 /\ stage' = stage
           /\ done' = Append(done, Last(done')) /\ Last(done') \in Functions
<1>1. /\ stage < 3 /\ loop # -1 /\ call < Calls!init_end(loop) /\ call' = call + 1
      /\ done' = Append(done, Calls!InitTable[call])
      /\ UNCHANGED <<initcalls, exitcalls, stage, loop, undone>>
  BY DEF Calls!InitCall, Calls!Running, Calls!NoLoop, Calls!Registrations
<1>2. /\ stage \in 0 .. 2 /\ stage \in 0 .. 3 /\ loop = stage /\ call = Len(done) + 1
      /\ done \in Seq(Functions) /\ Len(done) \in Nat
  BY <1>1 DEF Progress
<1>3. PICK e \in Nat : e = Len(Below(initcalls, stage + 1)) /\ e <= Len(Below(initcalls, 4))
  <2>1. \A l \in 0 .. 3 : l \in 0 .. 4 /\ l + 1 \in 0 .. 4
    OBVIOUS
  <2>2. /\ \A l \in 0 .. 4 : Len(Below(initcalls, l)) \in Nat
        /\ \A l \in 0 .. 3 : Len(Below(initcalls, l)) <= Len(Below(initcalls, l + 1))
    BY Grows DEF Progress, Sourced
  <2>3. Len(Below(initcalls, 1)) <= Len(Below(initcalls, 2))
        /\ Len(Below(initcalls, 2)) <= Len(Below(initcalls, 3))
        /\ Len(Below(initcalls, 3)) <= Len(Below(initcalls, 4))
    <3>1. 1 + 1 = 2 /\ 2 + 1 = 3 /\ 3 + 1 = 4
      OBVIOUS
    <3> QED BY <3>1, <2>2
  <2>4. stage + 1 = 1 \/ stage + 1 = 2 \/ stage + 1 = 3
    BY <1>2
  <2>5. Len(Below(initcalls, stage + 1)) <= Len(Below(initcalls, 4))
    BY <2>2, <2>3, <2>4
  <2> QED BY <2>1, <2>2, <2>5, <1>2
<1>4. Len(done) + 1 <= e
  BY <1>1, <1>2, <1>3, TableIs DEF Progress
<1>5. PICK f : f = Calls!InitTable[call]
  OBVIOUS
<1>6. f = Below(initcalls, 4)[Len(done) + 1] /\ f \in Functions
  <2>1. Calls!InitTable = Below(initcalls, 4) /\ Below(initcalls, 4) \in Seq(Functions)
        /\ Len(Below(initcalls, 4)) \in Nat
    BY TableIs, Grows DEF Progress, Sourced
  <2>2. Len(done) + 1 \in 1 .. Len(Below(initcalls, 4))
    BY <2>1, <1>2, <1>3, <1>4
  <2> QED BY <2>1, <2>2, <1>2, <1>5
<1>7. /\ done' \in Seq(Functions) /\ Len(done') = Len(done) + 1 /\ done'[Len(done) + 1] = f
      /\ \A k \in 1 .. Len(done) : done'[k] = done[k]
  BY <1>1, <1>2, <1>5, <1>6
<1>8. Last(done') = f
  BY <1>7 DEF Last
<1>9. \A k \in 1 .. Len(done') : done'[k] = Below(initcalls, 4)[k]
  <2> SUFFICES ASSUME NEW k \in 1 .. Len(done') PROVE done'[k] = Below(initcalls, 4)[k]
    OBVIOUS
  <2>1. k \in 1 .. Len(done) \/ k = Len(done) + 1
    BY <1>2, <1>7
  <2> QED BY <2>1, <1>6, <1>7 DEF Progress
<1>10. Len(Below(initcalls, stage)) <= Len(done')
  <2>1. Len(Below(initcalls, stage)) \in Nat /\ Len(Below(initcalls, stage)) <= Len(done)
    <3>1. stage \in 0 .. 4 /\ stage # -1
      BY <1>2
    <3> QED BY <3>1, <1>1, <1>2, Grows DEF Progress, Sourced
  <2> QED BY <2>1, <1>2, <1>7
<1>11. Progress'
  BY <1>1, <1>2, <1>3, <1>4, <1>7, <1>9, <1>10 DEF Progress, Sourced
<1> QED BY <1>1, <1>5, <1>6, <1>8, <1>11

LEMMA LoopEnds ==
    ASSUME Progress, Calls!InitReturn
    PROVE  Progress' /\ done' = done /\ stage < 3
<1>1. /\ stage < 3 /\ loop # -1 /\ call >= Calls!init_end(loop) /\ stage' = stage + 1 /\ loop' = -1
      /\ UNCHANGED <<initcalls, exitcalls, call, done, undone>>
  BY DEF Calls!InitReturn, Calls!Running, Calls!NoLoop, Calls!Registrations
<1>2. /\ stage \in 0 .. 2 /\ stage \in 0 .. 3 /\ loop = stage /\ call = Len(done) + 1
      /\ Len(done) \in Nat /\ Len(done) <= Len(Below(initcalls, stage + 1))
  BY <1>1 DEF Progress
<1>3. Len(Below(initcalls, stage + 1)) \in Nat
  <2>1. stage + 1 \in 0 .. 4
    BY <1>2
  <2> QED BY <2>1, Grows DEF Progress, Sourced
<1>4. Len(done) = Len(Below(initcalls, stage + 1))
  BY <1>1, <1>2, <1>3, TableIs DEF Progress
<1>5. call \in 0 .. Len(Below(initcalls, 4)) + 1
  BY <1>2, NotPast
<1> QED BY <1>1, <1>2, <1>4, <1>5 DEF Progress, Sourced

LEMMA LevelStopped == ASSUME Progress, NEW l \in 1 .. 3, Calls!do_exitcalls(l) PROVE Progress'
<1>1. /\ undone' = [undone EXCEPT ![l] = Calls!Reverse(SubSeq(Calls!ExitTable, Calls!exit_begin(l),
                                                               Calls!exit_end(l) - 1))]
      /\ UNCHANGED <<initcalls, exitcalls, stage, loop, call, done>>
  BY DEF Calls!do_exitcalls, Calls!Registrations
<1>2. \A s : Calls!Reverse(s) = Reverse(s)
  BY DEF Calls!Reverse, Reverse
<1>3. undone' = [undone EXCEPT ![l] = <<>>]
  BY <1>1, <1>2, TableIs DEF Progress
<1>4. undone' \in [1 .. 3 -> {None} \cup Orders]
  BY <1>3, StartupAssumption DEF Progress
<1> QED BY <1>1, <1>4 DEF Progress, Sourced

LEMMA InOrder ==
    ASSUME Progress PROVE Calls!TypeOK /\ Calls!InitInOrder
<1> DEFINE T == Below(initcalls, 4)
           due == Below(initcalls, 3)
<1>1. /\ T \in Seq(Functions) /\ due \in Seq(Functions) /\ Len(T) \in Nat /\ Len(due) \in Nat
      /\ \A k \in 1 .. Len(due) : due[k] = T[k]
  BY Grows DEF Progress, Sourced
<1>2. Len(done) \in Nat /\ Len(done) <= Len(due) /\ Len(due) <= Len(T)
  BY NotPast
<1>3. /\ Calls!InitTable = T
      /\ due = (initcalls[0] \o initcalls[1]) \o initcalls[2]
  BY TableIs, BelowIs DEF Progress
<1>4. /\ done \in Seq(Functions)
      /\ \A k \in 1 .. Len(done) : k \in 1 .. Len(due) /\ k \in 1 .. Len(T) /\ done[k] = T[k]
  BY <1>1, <1>2 DEF Progress
<1>5. stage = 3 => Len(done) = Len(due)
  BY DEF Progress
<1> HIDE DEF T, due
<1>6. done \in Seq(Calls!ToSet(T))
  <2>1. \A k \in 1 .. Len(done) : done[k] \in Calls!ToSet(T)
    BY <1>1, <1>4 DEF Calls!ToSet
  <2> QED BY <1>4, <2>1
<1>7. Calls!IsPrefix(done, due)
  <2>1. \A k \in 1 .. Len(done) : done[k] = due[k]
    BY <1>1, <1>4
  <2>2. SubSeq(done, 1, Len(done)) = SubSeq(due, 1, Len(done))
    BY <2>1, <1>1, <1>2, <1>4
  <2> QED BY <2>2, <1>2 DEF Calls!IsPrefix
<1>8. stage = 3 => done = due
  <2>1. \A k \in 1 .. Len(done) : done[k] = due[k]
    BY <1>1, <1>4
  <2> QED BY <2>1, <1>1, <1>4, <1>5
<1>9. call \in 0 .. Len(T) + 1 /\ loop \in (0 .. 3) \cup {-1}
  BY <1>1, <1>2 DEF Progress, T
<1>10. Calls!TypeOK
  BY <1>3, <1>6, <1>9 DEF Calls!TypeOK, Progress, Sourced, Calls!Levels, Calls!ExitLevels,
                          Calls!Running, Calls!NoLoop
<1> QED BY <1>3, <1>7, <1>8, <1>10 DEF Calls!InitInOrder, Calls!Running

-----------------------------------------------------------------------------
(***************************************************************************)
(* The consoles that the calls d have registered, as s lists them and e    *)
(* points at one.                                                          *)
(***************************************************************************)
Made(d) == {k \in DOMAIN d : d[k] \in Nodes}

Latest(d, e) ==
    \/ e = NULL /\ \A k \in Made(d) : index[d[k]] # 0
    \/ \E p \in Made(d) :
           e = d[p] /\ index[d[p]] = 0 /\ \A k \in Made(d) : index[d[k]] = 0 => k <= p

InLinkOrder(s, d, e) ==
    /\ \A i \in 1 .. Len(s) : \E k \in Made(d) : s[i] = d[k]
    /\ \A k \in Made(d) : \E i \in 1 .. Len(s) : s[i] = d[k]
    /\ \A i, j \in 1 .. Len(s) : i < j => \E k, l \in Made(d) : l < k /\ s[i] = d[k] /\ s[j] = d[l]
    /\ Latest(d, e)

LEMMA Appended ==
    ASSUME NEW d \in Seq(Functions), NEW f \in Functions
    PROVE  /\ Made(d) \subseteq 1 .. Len(d) /\ Len(d) \in Nat
           /\ Made(Append(d, f)) = Made(d) \cup (IF f \in Nodes THEN {Len(d) + 1} ELSE {})
           /\ Append(d, f)[Len(d) + 1] = f
           /\ \A k \in Made(d) : Append(d, f)[k] = d[k]
<1> DEFINE t == Append(d, f)
<1>1. /\ t \in Seq(Functions) /\ Len(t) = Len(d) + 1 /\ t[Len(d) + 1] = f /\ Len(d) \in Nat
      /\ \A k \in 1 .. Len(d) : t[k] = d[k]
  OBVIOUS
<1>2. DOMAIN t = 1 .. Len(d) + 1 /\ DOMAIN d = 1 .. Len(d)
  BY <1>1
<1> HIDE DEF t
<1>3. ASSUME NEW k PROVE k \in Made(t) <=> k \in Made(d) \/ (f \in Nodes /\ k = Len(d) + 1)
  BY <1>1, <1>2 DEF Made
<1>4. Made(t) = Made(d) \cup (IF f \in Nodes THEN {Len(d) + 1} ELSE {})
  BY <1>3
<1> QED BY <1>1, <1>2, <1>4 DEF t, Made

LEMMA ConsoleCalled ==
    ASSUME NEW s \in Seq(Nodes), NEW d \in Seq(Functions), NEW e, InLinkOrder(s, d, e),
           NEW c \in Nodes, c \in Functions
    PROVE  InLinkOrder(<<c>> \o s, Append(d, c), IF index[c] = 0 THEN c ELSE e)
<1> DEFINE t == <<c>> \o s
           dd == Append(d, c)
           n == Len(d)
           ee == IF index[c] = 0 THEN c ELSE e
<1>1. /\ t \in Seq(Nodes) /\ Len(t) = Len(s) + 1 /\ t[1] = c /\ Len(s) \in Nat
      /\ \A j \in 2 .. Len(s) + 1 : t[j] = s[j - 1] /\ j - 1 \in 1 .. Len(s)
      /\ \A j \in 1 .. Len(s) : t[j + 1] = s[j] /\ j + 1 \in 1 .. Len(s) + 1
  OBVIOUS
<1>2. /\ Made(d) \subseteq 1 .. n /\ n \in Nat /\ Made(dd) = Made(d) \cup {n + 1}
      /\ dd[n + 1] = c /\ \A k \in Made(d) : dd[k] = d[k]
  BY Appended
<1>3. /\ \A i \in 1 .. Len(s) : \E k \in Made(d) : s[i] = d[k]
      /\ \A k \in Made(d) : \E i \in 1 .. Len(s) : s[i] = d[k]
      /\ \A i, j \in 1 .. Len(s) : i < j => \E k, l \in Made(d) : l < k /\ s[i] = d[k] /\ s[j] = d[l]
      /\ Latest(d, e)
  BY DEF InLinkOrder
<1> HIDE DEF t, dd, n
<1>4. \A k \in Made(d) : k < n + 1 /\ k \in Nat /\ k # n + 1
  BY <1>2
<1>5. \A i \in 1 .. Len(t) : i = 1 \/ i \in 2 .. Len(s) + 1
  BY <1>1
<1>6. \A i \in 1 .. Len(t) : \E k \in Made(dd) : t[i] = dd[k]
  <2> SUFFICES ASSUME NEW i \in 1 .. Len(t) PROVE \E k \in Made(dd) : t[i] = dd[k]
    OBVIOUS
  <2>1. CASE i = 1
    BY <2>1, <1>1, <1>2
  <2>2. CASE i \in 2 .. Len(s) + 1
    <3>1. PICK k \in Made(d) : s[i - 1] = d[k]
      BY <2>2, <1>1, <1>3
    <3> QED BY <3>1, <2>2, <1>1, <1>2
  <2> QED BY <2>1, <2>2, <1>5
<1>7. \A k \in Made(dd) : \E i \in 1 .. Len(t) : t[i] = dd[k]
  <2> SUFFICES ASSUME NEW k \in Made(dd) PROVE \E i \in 1 .. Len(t) : t[i] = dd[k]
    OBVIOUS
  <2>1. CASE k = n + 1
    <3>1. 1 \in 1 .. Len(t)
      BY <1>1
    <3> QED BY <3>1, <2>1, <1>1, <1>2
  <2>2. CASE k \in Made(d)
    <3>1. PICK i \in 1 .. Len(s) : s[i] = d[k]
      BY <2>2, <1>3
    <3>2. i + 1 \in 1 .. Len(t) /\ t[i + 1] = dd[k]
      BY <3>1, <2>2, <1>1, <1>2
    <3> QED BY <3>2
  <2> QED BY <2>1, <2>2, <1>2
<1>8. ASSUME NEW i \in 1 .. Len(t), NEW j \in 1 .. Len(t), i < j
      PROVE  \E k, l \in Made(dd) : l < k /\ t[i] = dd[k] /\ t[j] = dd[l]
  <2>1. j \in 2 .. Len(s) + 1 /\ j - 1 \in 1 .. Len(s)
    BY <1>1, <1>8
  <2>2. CASE i = 1
    <3>1. PICK l \in Made(d) : s[j - 1] = d[l]
      BY <2>1, <1>3
    <3>2. n + 1 \in Made(dd) /\ l \in Made(dd) /\ l < n + 1 /\ t[i] = dd[n + 1] /\ t[j] = dd[l]
      BY <3>1, <2>1, <2>2, <1>1, <1>2, <1>4
    <3> QED BY <3>2
  <2>3. CASE i \in 2 .. Len(s) + 1
    <3>1. i - 1 \in 1 .. Len(s) /\ i - 1 < j - 1
      BY <2>1, <2>3, <1>1, <1>8
    <3>2. PICK k, l \in Made(d) : l < k /\ s[i - 1] = d[k] /\ s[j - 1] = d[l]
      BY <3>1, <2>1, <1>3
    <3>3. k \in Made(dd) /\ l \in Made(dd) /\ t[i] = dd[k] /\ t[j] = dd[l]
      BY <3>2, <2>1, <2>3, <1>1, <1>2
    <3> QED BY <3>2, <3>3
  <2> QED BY <2>2, <2>3, <1>5
<1>9. Latest(dd, ee)
  <2>1. CASE index[c] = 0
    <3>1. n + 1 \in Made(dd) /\ \A k \in Made(dd) : k <= n + 1
      BY <1>2, <1>4
    <3> QED BY <3>1, <2>1, <1>2 DEF Latest
  <2>2. CASE index[c] # 0
    <3>1. CASE e = NULL /\ \A k \in Made(d) : index[d[k]] # 0
      BY <3>1, <2>2, <1>2 DEF Latest
    <3>2. CASE \E p \in Made(d) :
                   e = d[p] /\ index[d[p]] = 0 /\ \A k \in Made(d) : index[d[k]] = 0 => k <= p
      <4>1. PICK p \in Made(d) :
                e = d[p] /\ index[d[p]] = 0 /\ \A k \in Made(d) : index[d[k]] = 0 => k <= p
        BY <3>2
      <4>2. p \in Made(dd) /\ e = dd[p] /\ index[dd[p]] = 0
        BY <4>1, <1>2
      <4>3. \A k \in Made(dd) : index[dd[k]] = 0 => k <= p
        BY <4>1, <2>2, <1>2
      <4> QED BY <4>2, <4>3, <2>2 DEF Latest
    <3> QED BY <3>1, <3>2, <1>3 DEF Latest
  <2> QED BY <2>1, <2>2
<1>10. InLinkOrder(t, dd, ee)
  BY <1>6, <1>7, <1>8, <1>9 DEF InLinkOrder
<1> QED BY <1>10 DEF t, dd

LEMMA OtherCalled ==
    ASSUME NEW s, NEW d \in Seq(Functions), NEW e, InLinkOrder(s, d, e),
           NEW f \in Functions, f \notin Nodes
    PROVE  InLinkOrder(s, Append(d, f), e)
<1>1. Made(Append(d, f)) = Made(d) /\ \A k \in Made(d) : Append(d, f)[k] = d[k]
  BY Appended
<1> DEFINE dd == Append(d, f)
<1> HIDE DEF dd
<1>2. Made(dd) = Made(d) /\ \A k \in Made(d) : dd[k] = d[k]
  BY <1>1 DEF dd
<1>3. Latest(dd, e)
  BY <1>2 DEF InLinkOrder, Latest
<1>4. InLinkOrder(s, dd, e)
  BY <1>2, <1>3 DEF InLinkOrder
<1> QED BY <1>4 DEF dd

Booted ==
    /\ ConsolesKept
    /\ Progress
    /\ stage # 3 => InLinkOrder(List, done, early)

LEMMA BootBegins == StartupInit => Booted /\ Registry!Init
<1> SUFFICES ASSUME StartupInit PROVE Booted /\ Registry!Init
  OBVIOUS
<1>1. Init /\ Progress /\ done = <<>>
  BY NothingCalled DEF StartupInit, Calls!Init
<1>2. ConsolesKept /\ List = <<>> /\ early = NULL /\ Registry!Init
  BY <1>1, NoConsoles DEF Init
<1>3. InLinkOrder(List, done, early)
  <2>1. Len(<<>>) = 0 /\ Made(<<>>) = {} /\ 1 .. 0 = {}
    BY DEF Made
  <2> QED BY <2>1, <1>1, <1>2 DEF InLinkOrder, Latest
<1> QED BY <1>1, <1>2, <1>3 DEF Booted

(* Whatever happens, the console code runs as it does alone, or not at all. *)
LEMMA ConsolesOnly == [StartupNext]_<<vars, calls>> => [Next]_vars
<1>1. early_printk_init => Next
  BY DEF early_printk_init, Next
<1> QED BY <1>1 DEF StartupNext, Loop, OtherInitCall, Consoles, Exits

LEMMA BootStep ==
    Booted /\ [StartupNext]_<<vars, calls>> => Booted' /\ [Registry!Next]_Registry!vars
<1> SUFFICES ASSUME Booted, [StartupNext]_<<vars, calls>>
             PROVE  Booted' /\ [Registry!Next]_Registry!vars
  OBVIOUS
<1>1. ConsolesKept' /\ [Registry!Next]_Registry!vars
  BY ConsolesOnly, ConsoleStep DEF Booted
<1>2. UNCHANGED vars => List' = List /\ early' = early
  BY DEF vars, List
<1>3. CASE Loop
  <2>1. CASE Calls!do_initcalls
    <3>1. Progress' /\ done' = done /\ stage' = stage
      BY <2>1, LoopBegins DEF Booted, Calls!do_initcalls
    <3> QED BY <3>1, <1>1, <1>2, <1>3 DEF Booted, Loop
  <2>2. CASE Calls!InitReturn
    <3>1. Progress' /\ done' = done /\ stage # 3
      BY <2>2, LoopEnds DEF Booted
    <3> QED BY <3>1, <1>1, <1>2, <1>3 DEF Booted, Loop
  <2> QED BY <2>1, <2>2, <1>3 DEF Loop
<1>4. CASE early_printk_init
  <2>1. PICK c : c = Last(done')
    OBVIOUS
  <2>2. /\ Progress' /\ stage < 3 /\ stage' = stage /\ done' = Append(done, c) /\ c \in Functions
        /\ c \in Nodes /\ console_register(c)
    BY <2>1, <1>4, CallMade DEF early_printk_init, Booted
  <2>3. List' = <<c>> \o List /\ early' = IF index[c] = 0 THEN c ELSE early
    BY <2>2, RegisterStep DEF Booted, console_register, early_after
  <2>4. List \in Seq(Nodes) /\ done \in Seq(Functions) /\ InLinkOrder(List, done, early)
    BY <2>2, ListedIs DEF Booted, ConsolesKept, Progress
  <2>5. InLinkOrder(<<c>> \o List, Append(done, c), IF index[c] = 0 THEN c ELSE early)
    BY <2>2, <2>4, ConsoleCalled
  <2> QED BY <2>2, <2>3, <2>5, <1>1 DEF Booted
<1>5. CASE OtherInitCall
  <2>1. PICK f : f = Last(done')
    OBVIOUS
  <2>2. /\ Progress' /\ stage < 3 /\ stage' = stage /\ done' = Append(done, f) /\ f \in Functions
        /\ f \notin Nodes /\ List' = List /\ early' = early
    BY <2>1, <1>2, <1>5, CallMade DEF OtherInitCall, Booted
  <2>3. done \in Seq(Functions) /\ InLinkOrder(List, done, early)
    BY <2>2 DEF Booted, Progress
  <2>4. InLinkOrder(List, Append(done, f), early)
    BY <2>2, <2>3, OtherCalled
  <2> QED BY <2>2, <2>4, <1>1 DEF Booted
<1>6. CASE Consoles
  <2>1. stage = 3 /\ stage' = 3 /\ Progress'
    BY <1>6 DEF Consoles, Running, Calls!Running, calls, Booted, Progress, Sourced
  <2> QED BY <2>1, <1>1 DEF Booted
<1>7. CASE Exits
  <2>1. PICK l \in 1 .. 3 : Calls!do_exitcalls(l)
    BY <1>7 DEF Exits, Calls!ExitLevels
  <2>2. Progress' /\ stage' = 3
    BY <2>1, LevelStopped DEF Booted, Calls!do_exitcalls, Calls!Running
  <2> QED BY <2>2, <1>1 DEF Booted
<1>8. CASE UNCHANGED <<vars, calls>>
  <2>1. Progress' /\ UNCHANGED <<stage, done>> /\ UNCHANGED vars
    BY <1>8 DEF calls, Booted, Progress, Sourced
  <2> QED BY <2>1, <1>1, <1>2 DEF Booted
<1> QED BY <1>3, <1>4, <1>5, <1>6, <1>7, <1>8 DEF StartupNext

LEMMA AlwaysBooted == StartupSpec => []Booted
<1> QED BY BootBegins, BootStep, PTL DEF StartupSpec

(* What LinkOrderDecides says of the list s, the calls d and early e.      *)
Decides(s, d, e) ==
    LET made  == {k \in DOMAIN d : d[k] \in Nodes}
        zeros == {k \in made : index[d[k]] = 0}
    IN  /\ IsInjective(s) /\ ToSet(s) = {d[k] : k \in made}
        /\ \A i, j \in DOMAIN s : i < j =>
               \E k, l \in made : l < k /\ s[i] = d[k] /\ s[j] = d[l]
        /\ e = IF zeros = {} THEN NULL ELSE d[Max(zeros)]

LEMMA Decided ==
    ASSUME NEW s \in Seq(Nodes), \A i, j \in 1 .. Len(s) : s[i] = s[j] => i = j,
           NEW d \in Seq(Functions), NEW e, InLinkOrder(s, d, e)
    PROVE  Decides(s, d, e)
<1> DEFINE made == {k \in DOMAIN d : d[k] \in Nodes}
           zeros == {k \in made : index[d[k]] = 0}
<1>1. /\ made = Made(d) /\ DOMAIN s = 1 .. Len(s) /\ made \subseteq 1 .. Len(d) /\ Len(d) \in Nat
      /\ \A k \in zeros : k \in Nat
  BY DEF Made
<1>2. IsInjective(s)
  BY <1>1 DEF IsInjective
<1>3. ToSet(s) = {d[k] : k \in made}
  <2>1. \A i \in 1 .. Len(s) : s[i] \in {d[k] : k \in made}
    BY <1>1 DEF InLinkOrder
  <2>2. ASSUME NEW k \in made PROVE d[k] \in ToSet(s)
    <3>1. PICK i \in 1 .. Len(s) : s[i] = d[k]
      BY <1>1 DEF InLinkOrder
    <3> QED BY <3>1, <1>1 DEF ToSet
  <2> HIDE DEF made
  <2>3. \A x \in ToSet(s) : x \in {d[k] : k \in made}
    BY <2>1, <1>1 DEF ToSet
  <2> QED BY <2>2, <2>3
<1>4. \A i, j \in DOMAIN s : i < j => \E k, l \in made : l < k /\ s[i] = d[k] /\ s[j] = d[l]
  BY <1>1 DEF InLinkOrder
<1>5. e = IF zeros = {} THEN NULL ELSE d[Max(zeros)]
  <2>1. CASE e = NULL /\ \A k \in made : index[d[k]] # 0
    BY <2>1
  <2>2. CASE \E p \in made : e = d[p] /\ index[d[p]] = 0 /\ \A k \in made : index[d[k]] = 0 => k <= p
    <3>1. PICK p \in made : e = d[p] /\ index[d[p]] = 0 /\ \A k \in made : index[d[k]] = 0 => k <= p
      BY <2>2
    <3>2. p \in zeros /\ \A k \in zeros : p >= k
      BY <3>1, <1>1
    <3> HIDE DEF zeros
    <3>3. Max(zeros) = p
      <4>1. \A x \in zeros : (\A y \in zeros : x >= y) => x = p
        BY <3>2, <1>1
      <4> QED BY <4>1, <3>2 DEF Max
    <3> QED BY <3>1, <3>2, <3>3
  <2> QED BY <2>1, <2>2, <1>1 DEF InLinkOrder, Latest
<1> QED BY <1>2, <1>3, <1>4, <1>5 DEF Decides

-----------------------------------------------------------------------------
(***************************************************************************)
(* However the calls of a boot and the coming and going of the consoles    *)
(* after it mix, ring and pointer implement the registry.                  *)
(***************************************************************************)
THEOREM ConsolesAreARegistry == StartupSpec => IsRegistry
<1>1. StartupSpec => []Booted
  BY AlwaysBooted
<1> QED BY <1>1, BootBegins, BootStep, PTL DEF StartupSpec, IsRegistry, Registry!Spec

(***************************************************************************)
(* As long as the console putc writes to is registered, it is the first    *)
(* one of index 0 in the list; none is registered before there is one.     *)
(***************************************************************************)
THEOREM EarlyStaysFirst == StartupSpec => []EarlyIsFirst
<1>1. Booted => EarlyIsFirst
  BY EarlyFirst DEF Booted
<1> QED BY <1>1, AlwaysBooted, PTL

(***************************************************************************)
(* The init calls are those of the early, the arch and the core level, in  *)
(* link order, whatever functions the sections hold.                       *)
(***************************************************************************)
THEOREM InitCallsInOrder == StartupSpec => []InitInOrder
<1>1. Booted => InitInOrder
  <2>1. Booted => TypeOK
    <3>1. ConsolesKept => TypeOK
      BY ListedIs DEF ConsolesKept, Pointed, TypeOK
    <3> QED BY <3>1 DEF Booted
  <2> QED BY <2>1, InOrder DEF Booted, InitInOrder, StartupTypeOK
<1> QED BY <1>1, AlwaysBooted, PTL

(***************************************************************************)
(* Until main waits, the list is the consoles of the calls made, the last  *)
(* first, and putc writes to the last one of index 0.                      *)
(***************************************************************************)
THEOREM LinkOrderAlwaysDecides == StartupSpec => []LinkOrderDecides
<1>1. Booted => LinkOrderDecides
  <2> SUFFICES ASSUME Booted PROVE LinkOrderDecides
    OBVIOUS
  <2>1. /\ List \in Seq(Nodes) /\ done \in Seq(Functions)
        /\ \A i, j \in 1 .. Len(List) : List[i] = List[j] => i = j
    BY ListedIs DEF Booted, ConsolesKept, Progress
  <2>2. ~ Running => InLinkOrder(List, done, early)
    BY DEF Booted, Running, Calls!Running
  <2>3. ~ Running => Decides(List, done, early)
    BY <2>1, <2>2, Decided
  <2> QED BY <2>3 DEF Decides, LinkOrderDecides, List
<1> QED BY <1>1, AlwaysBooted, PTL
=============================================================================
