---------------------------- MODULE PagingProofs ----------------------------
(***************************************************************************)
(* Proofs about Bitset, for every word width and array length: the array   *)
(* of words implements a set of numbers, whatever is asked of it.  Proofs  *)
(* about Paging, for every size of table and bitmap: the  *)
(* frame bitmap and the page table agree, frames are not shared and do not *)
(* run out, the software's translation is the CPU's, and the low mapping   *)
(* is gone once the cloned directory is in use.                            *)
(***************************************************************************)
EXTENDS Paging, Bitset, TLAPS, FiniteSetTheorems, WellFoundedInduction

-----------------------------------------------------------------------------
(***************************************************************************)
(* What the operations of bitset.c do to the set of numbers their array    *)
(* stands for.  The bitset and the frame bitmap of Paging rest on these.   *)
(***************************************************************************)
(***************************************************************************)
(* Every nonempty set of naturals has a least element, so Min is in it.    *)
(***************************************************************************)
LEMMA MinOfNaturals ==
    ASSUME NEW S \in SUBSET Nat, S # {}
    PROVE  /\ Min(S) \in S
           /\ \A y \in S : Min(S) <= y
<1> DEFINE Less == {p \in Nat \X Nat : p[1] < p[2]}
<1>1. OpToRel(<, Nat) = Less
  BY DEF OpToRel
<1>2. IsWellFoundedOn(Less, Nat)
  BY <1>1, NatLessThanWellFounded
<1>3. PICK x \in S : \A y \in S : <<y, x>> \notin Less
  <2> HIDE DEF Less
  <2> QED BY <1>2, WFMin
<1>4. ASSUME NEW y \in S PROVE x <= y
  <2>1. x \in Nat /\ y \in Nat /\ ~ (y < x)
    BY <1>3
  <2> QED BY <2>1
<1> QED BY <1>3, <1>4 DEF Min

-----------------------------------------------------------------------------
(***************************************************************************)
(* A bit the set is meant to hold has its word inside the array, and is    *)
(* determined by its word and its offset.                                  *)
(***************************************************************************)
LEMMA BitPlace ==
    ASSUME NEW n \in Bits
    PROVE  /\ n \in Nat
           /\ BIT_INDEX(n) \in 0 .. len - 1
           /\ BIT_OFFSET(n) \in Positions
           /\ n = W * BIT_INDEX(n) + BIT_OFFSET(n)
<1>1. n \in Nat /\ W \in Nat \ {0} /\ len \in Nat \ {0} /\ n < W * len
  BY BitsetAssumption DEF Bits
<1>2. /\ n = W * (n \div W) + (n % W)
      /\ n % W \in 0 .. W - 1
      /\ n \div W \in Int
  BY <1>1
<1>3. n \div W >= 0
  BY <1>1, <1>2
<1>4. n \div W < len
  <2> SUFFICES ASSUME n \div W >= len PROVE FALSE
    BY <1>1, <1>2
  <2>1. W * (n \div W) >= W * len
    BY <1>1, <1>2
  <2> QED BY <1>1, <1>2, <2>1
<1> QED
  BY <1>1, <1>2, <1>3, <1>4 DEF BIT_INDEX, BIT_OFFSET, Positions

(***************************************************************************)
(* Conversely every place in the array is the place of a bit.              *)
(***************************************************************************)
LEMMA PlaceBit ==
    ASSUME NEW w \in 0 .. len - 1, NEW o \in Positions
    PROVE  /\ W * w + o \in Bits
           /\ w * W + o = W * w + o
           /\ BIT_INDEX(W * w + o) = w
           /\ BIT_OFFSET(W * w + o) = o
<1>1. W \in Nat \ {0} /\ len \in Nat \ {0} /\ w \in Nat /\ o \in 0 .. W - 1 /\ w \in Int
  BY BitsetAssumption DEF Positions
<1>2. (W * w + o) % W = o /\ (W * w + o) \div W = w
  <2>1. W * w \in Nat
    BY <1>1
  <2> QED BY <1>1, <2>1
<1>3. W * w >= 0 /\ W * w + W = W * (w + 1) /\ W * (w + 1) <= W * len
  BY <1>1
<1> QED
  BY <1>1, <1>2, <1>3 DEF BIT_INDEX, BIT_OFFSET, Bits

-----------------------------------------------------------------------------
(***************************************************************************)
(* What bit_set and bit_clear do to the set and to the word behind it.     *)
(***************************************************************************)
LEMMA SetAdds ==
    ASSUME NEW b \in Arrays, NEW n \in Bits
    PROVE  /\ bit_set(b, n) \in Arrays
           /\ bit_set(b, n)[Guard] = b[Guard]
           /\ Members(bit_set(b, n)) = Members(b) \cup {n}
<1>1. /\ BIT_INDEX(n) \in 0 .. len - 1 /\ BIT_OFFSET(n) \in Positions
      /\ len \in Nat
  BY BitPlace, BitsetAssumption
<1>2. bit_set(b, n) = [b EXCEPT ![BIT_INDEX(n)] = @ \cup {BIT_OFFSET(n)}]
  BY <1>1 DEF bit_set
<1>3. bit_set(b, n) \in Arrays /\ bit_set(b, n)[Guard] = b[Guard]
  BY <1>1, <1>2 DEF Arrays, WordSet, Guard
<1>4. ASSUME NEW m \in Bits
      PROVE  m \in Members(bit_set(b, n)) <=> m \in Members(b) \cup {n}
  <2>1. /\ BIT_INDEX(m) \in 0 .. len - 1 /\ BIT_OFFSET(m) \in Positions
        /\ m = W * BIT_INDEX(m) + BIT_OFFSET(m)
    BY BitPlace
  <2>2. n = W * BIT_INDEX(n) + BIT_OFFSET(n)
    BY BitPlace
  <2>3. m = n <=> BIT_INDEX(m) = BIT_INDEX(n) /\ BIT_OFFSET(m) = BIT_OFFSET(n)
    BY <2>1, <2>2
  <2>4. BIT_OFFSET(m) \in bit_set(b, n)[BIT_INDEX(m)] <=>
          BIT_OFFSET(m) \in b[BIT_INDEX(m)] \/ m = n
    BY <1>1, <1>2, <2>1, <2>3 DEF Arrays
  <2> QED BY <2>4 DEF Members
<1> QED BY <1>3, <1>4 DEF Members

LEMMA ClearRemoves ==
    ASSUME NEW b \in Arrays, NEW n \in Bits
    PROVE  /\ bit_clear(b, n) \in Arrays
           /\ bit_clear(b, n)[Guard] = b[Guard]
           /\ Members(bit_clear(b, n)) = Members(b) \ {n}
<1>1. /\ BIT_INDEX(n) \in 0 .. len - 1 /\ BIT_OFFSET(n) \in Positions
      /\ len \in Nat
  BY BitPlace, BitsetAssumption
<1>2. bit_clear(b, n) = [b EXCEPT ![BIT_INDEX(n)] = @ \ {BIT_OFFSET(n)}]
  BY <1>1 DEF bit_clear
<1>3. bit_clear(b, n) \in Arrays /\ bit_clear(b, n)[Guard] = b[Guard]
  BY <1>1, <1>2 DEF Arrays, WordSet, Guard
<1>4. ASSUME NEW m \in Bits
      PROVE  m \in Members(bit_clear(b, n)) <=> m \in Members(b) \ {n}
  <2>1. /\ BIT_INDEX(m) \in 0 .. len - 1 /\ BIT_OFFSET(m) \in Positions
        /\ m = W * BIT_INDEX(m) + BIT_OFFSET(m)
    BY BitPlace
  <2>2. n = W * BIT_INDEX(n) + BIT_OFFSET(n)
    BY BitPlace
  <2>3. m = n <=> BIT_INDEX(m) = BIT_INDEX(n) /\ BIT_OFFSET(m) = BIT_OFFSET(n)
    BY <2>1, <2>2
  <2>4. BIT_OFFSET(m) \in bit_clear(b, n)[BIT_INDEX(m)] <=>
          BIT_OFFSET(m) \in b[BIT_INDEX(m)] /\ m # n
    BY <1>1, <1>2, <2>1, <2>3 DEF Arrays
  <2> QED BY <2>4 DEF Members
<1> QED BY <1>3, <1>4 DEF Members

(***************************************************************************)
(* A number beyond the array is ignored, or lands in the word behind it:   *)
(* the set stays as it is.                                                 *)
(***************************************************************************)
LEMMA OutsideIgnored ==
    ASSUME NEW b \in Arrays, NEW n \in Nat \ Bits
    PROVE  /\ bit_set(b, n) \in Arrays /\ Members(bit_set(b, n)) = Members(b)
           /\ bit_clear(b, n) \in Arrays /\ Members(bit_clear(b, n)) = Members(b)
<1>1. W \in Nat \ {0} /\ len \in Nat \ {0} /\ n \in Nat /\ n >= W * len
  BY BitsetAssumption DEF Bits
<1>2. BIT_OFFSET(n) \in Positions /\ BIT_INDEX(n) \in Int /\ BIT_INDEX(n) >= len
  <2>1. n = W * (n \div W) + (n % W) /\ n % W \in 0 .. W - 1 /\ n \div W \in Int
    BY <1>1
  <2>2. n \div W >= len
    <3> SUFFICES ASSUME n \div W + 1 <= len PROVE FALSE
      BY <1>1, <2>1
    <3>1. W * (n \div W + 1) <= W * len /\ W * (n \div W + 1) = W * (n \div W) + W
      BY <1>1, <2>1
    <3> QED BY <1>1, <2>1, <3>1
  <2> QED BY <2>1, <2>2 DEF BIT_INDEX, BIT_OFFSET, Positions
<1>3. ASSUME NEW c \in Arrays, \A x \in 0 .. len - 1 : c[x] = b[x]
      PROVE  Members(c) = Members(b)
  BY <1>3, BitPlace DEF Members
<1>4. ASSUME NEW w \in WordSet, NEW c, c = [b EXCEPT ![len] = w]
      PROVE  c \in Arrays /\ Members(c) = Members(b)
  <2>1. c \in Arrays /\ \A x \in 0 .. len - 1 : c[x] = b[x]
    BY <1>1, <1>4 DEF Arrays
  <2> QED BY <1>3, <2>1
<1>5. CASE BIT_INDEX(n) = len
  <2>1. b[len] \in WordSet
    BY <1>1 DEF Arrays
  <2>2. b[len] \cup {BIT_OFFSET(n)} \in WordSet /\ b[len] \ {BIT_OFFSET(n)} \in WordSet
    BY <1>2, <2>1 DEF WordSet
  <2>3. bit_set(b, n) = [b EXCEPT ![len] = b[len] \cup {BIT_OFFSET(n)}]
    BY <1>1, <1>5 DEF bit_set
  <2>4. bit_clear(b, n) = [b EXCEPT ![len] = b[len] \ {BIT_OFFSET(n)}]
    BY <1>1, <1>5 DEF bit_clear
  <2>5. bit_set(b, n) \in Arrays /\ Members(bit_set(b, n)) = Members(b)
    BY <1>4, <2>2, <2>3
  <2>6. bit_clear(b, n) \in Arrays /\ Members(bit_clear(b, n)) = Members(b)
    BY <1>4, <2>2, <2>4
  <2> QED BY <2>5, <2>6
<1>6. CASE BIT_INDEX(n) > len
  BY <1>6 DEF bit_set, bit_clear
<1>7. BIT_INDEX(n) = len \/ BIT_INDEX(n) > len
  BY <1>1, <1>2
<1> QED BY <1>5, <1>6, <1>7

(***************************************************************************)
(* The two-level search finds the least number missing from the set, and   *)
(* -1 exactly when the set is full.                                        *)
(***************************************************************************)
LEMMA FindFirstFree ==
    ASSUME NEW b \in Arrays
    PROVE  \/ /\ bit_find_first_free(b) \in Bits \ Members(b)
              /\ \A m \in Bits \ Members(b) : bit_find_first_free(b) <= m
           \/ /\ bit_find_first_free(b) = -1
              /\ Bits \subseteq Members(b)
<1> USE BitsetAssumption
<1>1. CASE Roomy(b) = {}
  <2>1. ASSUME NEW m \in Bits PROVE m \in Members(b)
    <3>1. BIT_INDEX(m) \in 0 .. len - 1 /\ BIT_OFFSET(m) \in Positions
      BY BitPlace
    <3>2. b[BIT_INDEX(m)] = Positions
      BY <1>1, <3>1 DEF Roomy
    <3> QED BY <3>1, <3>2 DEF Members
  <2> QED BY <1>1, <2>1 DEF bit_find_first_free
<1>2. CASE Roomy(b) # {}
  <2> DEFINE w == Min(Roomy(b))
             gaps == Positions \ b[w]
             o == Min(gaps)
  <2>1. w \in Roomy(b) /\ \A k \in Roomy(b) : w <= k
    <3>1. Roomy(b) \in SUBSET Nat
      BY DEF Roomy
    <3> QED BY <1>2, <3>1, MinOfNaturals
  <2>2. w \in 0 .. len - 1 /\ b[w] # Positions /\ b[w] \subseteq Positions
    <3> HIDE DEF w
    <3>1. w \in 0 .. len - 1 /\ b[w] # Positions
      BY <2>1 DEF Roomy
    <3>2. w \in 0 .. len
      BY <3>1
    <3> QED BY <3>1, <3>2 DEF Arrays, WordSet
  <2>3. o \in gaps /\ \A k \in gaps : o <= k
    <3>1. gaps \in SUBSET Nat /\ gaps # {}
      <4> HIDE DEF w
      <4>1. Positions \subseteq Nat
        BY DEF Positions
      <4> QED BY <2>2, <4>1
    <3> HIDE DEF gaps
    <3> QED BY <3>1, MinOfNaturals
  <2>4. bit_find_first_free(b) = w * W + o
    BY <1>2 DEF bit_find_first_free
  <2> HIDE DEF w, o
  <2>5. /\ W * w + o \in Bits /\ w * W + o = W * w + o
        /\ BIT_INDEX(W * w + o) = w /\ BIT_OFFSET(W * w + o) = o
    BY <2>2, <2>3, PlaceBit
  <2>6. W * w + o \notin Members(b)
    BY <2>3, <2>5 DEF Members
  <2>7. ASSUME NEW m \in Bits \ Members(b) PROVE W * w + o <= m
    <3> DEFINE mi == BIT_INDEX(m)
               mo == BIT_OFFSET(m)
    <3>1. /\ mi \in 0 .. len - 1 /\ mo \in Positions
          /\ m = W * mi + mo
      BY BitPlace
    <3>2. mo \notin b[mi]
      BY DEF Members
    <3>3. mi \in Roomy(b) /\ w <= mi
      BY <2>1, <3>1, <3>2 DEF Roomy
    <3>4. w = mi => o <= mo
      BY <2>3, <3>1, <3>2
    <3> HIDE DEF mi, mo
    <3>5. o \in 0 .. W - 1 /\ mo \in 0 .. W - 1 /\ w \in Nat /\ mi \in Nat
      BY <2>2, <2>3, <3>1 DEF Positions
    <3>6. CASE w = mi
      BY <3>1, <3>4, <3>5, <3>6
    <3>7. CASE w < mi
      <4>1. W * w + W = W * (w + 1) /\ W * (w + 1) <= W * mi
        BY <3>5, <3>7
      <4> QED BY <3>1, <3>5, <4>1
    <3> QED BY <3>3, <3>5, <3>6, <3>7
  <2> QED BY <2>4, <2>5, <2>6, <2>7
<1> QED BY <1>1, <1>2

(***************************************************************************)
(* A cleared array stands for the empty set, whatever follows it.          *)
(***************************************************************************)
LEMMA ClearedIsEmpty ==
    ASSUME NEW g \in WordSet
    PROVE  /\ Cleared(g) \in Arrays
           /\ Cleared(g)[Guard] = g
           /\ Members(Cleared(g)) = {}
<1>1. Cleared(g) \in Arrays /\ Cleared(g)[Guard] = g
  BY BitsetAssumption DEF Cleared, Arrays, WordSet, Guard
<1>2. ASSUME NEW n \in Bits PROVE Cleared(g)[BIT_INDEX(n)] = {}
  <2>1. BIT_INDEX(n) \in 0 .. len - 1 /\ len \in Nat
    BY BitPlace, BitsetAssumption
  <2> QED BY <2>1 DEF Cleared, Guard
<1> QED BY <1>1, <1>2 DEF Members

-----------------------------------------------------------------------------
(* The array keeps its shape. *)
LEMMA BitsetInductive == BitsetSpec => []BitsetTypeOK
<1>1. BitsetInit => BitsetTypeOK
  BY ClearedIsEmpty DEF BitsetInit, BitsetTypeOK
<1>2. BitsetTypeOK /\ [BitsetNext]_bitsetVars => BitsetTypeOK'
  <2> SUFFICES ASSUME BitsetTypeOK, [BitsetNext]_bitsetVars PROVE BitsetTypeOK'
    OBVIOUS
  <2> USE DEF BitsetTypeOK
  <2>1. ASSUME NEW n \in Asked, Set(n) \/ Clear(n) PROVE BitsetTypeOK'
    BY <2>1, SetAdds, ClearRemoves, OutsideIgnored, AskedAssumption DEF Set, Clear
  <2>2. ASSUME NEW n \in Bits, Test(n) PROVE BitsetTypeOK'
    <3>1. 0 \in Bits
      BY BitsetAssumption DEF Bits
    <3> QED BY <2>2, <3>1 DEF Test
  <2>3. ASSUME Find PROVE BitsetTypeOK'
    BY <2>3, FindFirstFree DEF Find
  <2>4. CASE UNCHANGED bitsetVars
    BY <2>4 DEF bitsetVars
  <2> QED BY <2>1, <2>2, <2>3, <2>4 DEF BitsetNext
<1> QED BY <1>1, <1>2, PTL DEF BitsetSpec

(***************************************************************************)
(* The bitset is a set of numbers, whatever the word width, the length and *)
(* the numbers that callers pass.                                          *)
(***************************************************************************)
THEOREM BitsetImplementsSet == BitsetSpec => IsNumberSet
<1>1. BitsetInit => Implements!Init
  BY ClearedIsEmpty DEF BitsetInit, Implements!Init
<1>2. BitsetTypeOK /\ [BitsetNext]_bitsetVars => [Implements!Next]_Implements!vars
  <2> SUFFICES ASSUME BitsetTypeOK, [BitsetNext]_bitsetVars
               PROVE  [Implements!Next]_Implements!vars
    OBVIOUS
  <2>1. array \in Arrays
    BY DEF BitsetTypeOK
  <2>2. ASSUME NEW n \in Bits, Set(n) PROVE Implements!Add(n)
    BY <2>1, <2>2, SetAdds DEF Set, Implements!Add
  <2>3. ASSUME NEW n \in Bits, Clear(n) PROVE Implements!Remove(n)
    BY <2>1, <2>3, ClearRemoves DEF Clear, Implements!Remove
  <2>4. ASSUME NEW n \in Asked, n \notin Bits, Set(n) \/ Clear(n)
        PROVE  UNCHANGED Implements!vars
    <3>1. n \in Nat \ Bits
      BY <2>4, AskedAssumption
    <3>2. Members(array') = Members(array) /\ UNCHANGED answer
      BY <2>1, <2>4, <3>1, OutsideIgnored DEF Set, Clear
    <3>3. Members(array)' = Members(array')
      BY DEF Members
    <3> QED BY <3>2, <3>3 DEF Implements!vars
  <2>5. ASSUME NEW n \in Bits, Test(n) PROVE Implements!LookUp(n)
    BY <2>5 DEF Test, bit_test, Members, Implements!LookUp
  <2>6. ASSUME Find PROVE Implements!Search
    BY <2>1, <2>6, FindFirstFree DEF Find, Implements!Search, Implements!IsLeastMissing
  <2>7. CASE UNCHANGED bitsetVars
    BY <2>7 DEF bitsetVars, Implements!vars
  <2>8. CASE \E n \in Asked : Set(n) \/ Clear(n)
    BY <2>2, <2>3, <2>4, <2>8 DEF Implements!Next
  <2> QED BY <2>5, <2>6, <2>7, <2>8 DEF BitsetNext, Implements!Next
<1> QED BY <1>1, <1>2, BitsetInductive, PTL DEF BitsetSpec, IsNumberSet, Implements!Spec

-----------------------------------------------------------------------------

Booting  == {"pre", "gdt", "alloc_init", "post", "heap", "clone"}
TwoMaps  == {"pre", "gdt", "alloc_init", "post"}
Running  == {"run", "halted", "hung"}

(* While the bitmap is being filled, it holds the pages already visited. *)
Marking == pc = "alloc_init" => Members(bits) = 0 .. i - 1

(* Until the machine runs, page k is mapped to frame k. *)
BootMap == pc \in Booting => pages = [k \in Pages |-> [frame |-> k, present |-> TRUE]]

(* Before paging is on, no page has a frame. *)
NoMap == pc = "reset" => pages = [k \in Pages |-> [frame |-> 0, present |-> FALSE]]

(* heap_init never visits page 0, the one page it would remap. *)
HeapPages == pc = "heap" => i # 0

Both(S) == [tables |-> S, tables_phys |-> S]

(* The directories, stage by stage. *)
Directories ==
    /\ pc \in Booting => curr = "kern" /\ cr3 = DirPage
    /\ pc \in TwoMaps => kern = Both({0, KT})
    /\ pc \in {"heap", "clone"} => kern = Both({KT})
    /\ pc \in Running => curr = "clone" /\ cr3 = ClonePage /\ clone = Both({KT})

(* What the CPU has cached in the running machine is of the kernel's region. *)
CachedHigh == pc \in Running => \A e \in tlb : e.lin[1] # 0

IInv ==
    /\ TypeOK
    /\ NeighbourUntouched
    /\ NoSharedFrame
    /\ FramesAccounted
    /\ Marking
    /\ BootMap
    /\ NoMap
    /\ HeapPages
    /\ Directories
    /\ CachedHigh
    /\ FramesSuffice

Frames == {Frame(k) : k \in Pages}

-----------------------------------------------------------------------------
LEMMA Sizes ==
    /\ W * len \in Nat /\ PT \in Nat \ {0} /\ PT < W * len
    /\ Pages \subseteq Bits /\ 0 \in Pages /\ 0 \in Bits /\ Pages \subseteq Nat
<1>1. W * len \in Nat /\ PT \in Nat \ {0} /\ PT < W * len
  BY BitsetAssumption, PagingAssumption
<1> QED BY <1>1 DEF Pages, Bits

(***************************************************************************)
(* page_get marks the page's frame and nothing else.                       *)
(***************************************************************************)
LEMMA PageGetMarks ==
    ASSUME TypeOK, NEW k \in Pages
    PROVE  /\ page_get(bits, k) \in Arrays
           /\ page_get(bits, k)[Guard] = bits[Guard]
           /\ Members(page_get(bits, k)) = Members(bits) \cup {Frame(k)}
<1>1. bits \in Arrays /\ Frame(k) \in Bits
  BY DEF TypeOK, Frame
<1>2. CASE bit_test(bits, Frame(k))
  <2>1. page_get(bits, k) = bits
    BY <1>2 DEF page_get
  <2>2. Frame(k) \in Members(bits)
    BY <1>1, <1>2 DEF bit_test, Members
  <2> QED BY <1>1, <2>1, <2>2
<1>3. CASE ~ bit_test(bits, Frame(k))
  <2>1. page_get(bits, k) = bit_set(bits, Frame(k))
    BY <1>3 DEF page_get
  <2> QED BY <1>1, <2>1, SetAdds
<1> QED BY <1>2, <1>3

(* Once the frames are accounted for, page_get leaves the set as it is. *)
LEMMA PageGetKeeps ==
    ASSUME TypeOK, NEW k \in Pages, Members(bits) = {0} \cup Frames
    PROVE  /\ page_get(bits, k) \in Arrays
           /\ page_get(bits, k)[Guard] = bits[Guard]
           /\ Members(page_get(bits, k)) = {0} \cup Frames
<1>1. Frame(k) \in Frames
  BY DEF Frames
<1> QED BY <1>1, PageGetMarks

(***************************************************************************)
(* There are more frames than pages, so while some page has none, the      *)
(* bitmap is not full.                                                     *)
(***************************************************************************)
LEMMA FramesDoNotRunOut ==
    ASSUME TypeOK, NEW k \in Pages, Frame(k) = 0
    PROVE  ~ (Bits \subseteq {0} \cup Frames)
<1> SUFFICES ASSUME Bits \subseteq {0} \cup Frames PROVE FALSE
  OBVIOUS
<1> DEFINE fr == [l \in Pages |-> Frame(l)]
           img == {fr[l] : l \in Pages}
<1>1. IsFiniteSet(Pages) /\ Cardinality(Pages) = PT
  <2>1. PT - 1 \in Int /\ ~ (0 > PT - 1) /\ (PT - 1) - 0 + 1 = PT
    BY Sizes
  <2> QED BY <2>1, FS_Interval DEF Pages
<1>2. IsFiniteSet(Bits) /\ Cardinality(Bits) = W * len
  <2> DEFINE n == W * len
  <2>0. n \in Nat \ {0}
    BY Sizes
  <2> HIDE DEF n
  <2>1. n - 1 \in Int /\ ~ (0 > n - 1) /\ (n - 1) - 0 + 1 = n
    BY <2>0
  <2>2. IsFiniteSet(0 .. n - 1) /\ Cardinality(0 .. n - 1) = n
    BY <2>1, FS_Interval
  <2> QED BY <2>2 DEF Bits, n
<1>3. IsFiniteSet(img) /\ Cardinality(img) <= Cardinality(Pages)
  <2>1. fr \in Surjection(Pages, img)
    BY DEF Surjection
  <2> HIDE DEF fr, img
  <2> QED BY <1>1, <2>1, FS_Surjection
<1>4. Bits \subseteq img
  <2>1. 0 = fr[k]
    OBVIOUS
  <2> QED BY <2>1 DEF Frames
<1>5. Cardinality(Bits) <= Cardinality(img)
  <2> HIDE DEF img
  <2> QED BY <1>3, <1>4, FS_Subset
<1>6. Cardinality(img) \in Nat
  <2> HIDE DEF img
  <2> QED BY <1>3, FS_CardinalityType
<1> HIDE DEF img
<1> QED BY <1>1, <1>2, <1>3, <1>5, <1>6, Sizes

-----------------------------------------------------------------------------
LEMMA InitEstablishes == Init => IInv
<1> SUFFICES ASSUME Init PROVE IInv
  OBVIOUS
<1>1. {} \in WordSet
  BY DEF WordSet
<1>2. TypeOK /\ NeighbourUntouched
  BY <1>1, ClearedIsEmpty, Sizes
     DEF Init, TypeOK, NeighbourUntouched, Stages, NoTables
<1> QED
  BY <1>2 DEF Init, IInv, NoSharedFrame, Frame, FramesAccounted, Marking, BootMap,
     NoMap, HeapPages, Directories, CachedHigh, FramesSuffice, Booting, TwoMaps, Running

(***************************************************************************)
(* paging_init_pre: the identity map shares no frame.                      *)
(***************************************************************************)
LEMMA PreKeeps == IInv /\ paging_init_pre => IInv'
<1> SUFFICES ASSUME IInv, paging_init_pre PROVE IInv'
  OBVIOUS
<1> USE DEF IInv, paging_init_pre
<1>1. TypeOK'
  BY Sizes, PagingAssumption DEF TypeOK, Stages
<1>2. NoSharedFrame'
  BY DEF NoSharedFrame, Frame
<1>3. Directories'
  BY DEF Directories, Both, Booting, TwoMaps, Running
<1> QED
  BY <1>1, <1>2, <1>3 DEF NeighbourUntouched, FramesAccounted, Marking, BootMap,
     NoMap, HeapPages, CachedHigh, FramesSuffice, Booting, Running

LEMMA GdtKeeps == IInv /\ gdt_init => IInv'
<1> SUFFICES ASSUME IInv, gdt_init PROVE IInv'
  OBVIOUS
<1> USE DEF IInv, gdt_init
<1>1. TypeOK'
  BY DEF TypeOK, Stages
<1> QED
  BY <1>1 DEF NeighbourUntouched, NoSharedFrame, Frame, FramesAccounted, Marking, BootMap,
     NoMap, HeapPages, Directories, CachedHigh, FramesSuffice, Booting, TwoMaps, Running

(***************************************************************************)
(* arch_bitset_create: nothing is marked, nothing has been visited.        *)
(***************************************************************************)
LEMMA CreateKeeps ==
    ASSUME NEW guard \in WordSet PROVE IInv /\ arch_bitset_create(guard) => IInv'
<1> SUFFICES ASSUME IInv, arch_bitset_create(guard) PROVE IInv'
  OBVIOUS
<1> USE DEF IInv, arch_bitset_create
<1>1. bits' \in Arrays /\ bits'[Guard] = guard /\ Members(bits') = {}
  BY ClearedIsEmpty
<1>2. TypeOK' /\ NeighbourUntouched'
  BY <1>1, Sizes DEF TypeOK, Stages, NeighbourUntouched
<1>3. Marking'
  BY <1>1 DEF Marking
<1> QED
  BY <1>2, <1>3 DEF NoSharedFrame, Frame, FramesAccounted, BootMap,
     NoMap, HeapPages, Directories, CachedHigh, FramesSuffice, Booting, TwoMaps, Running

(***************************************************************************)
(* A turn of the marking loop: page i is mapped to frame i, so the frames  *)
(* marked are those below i + 1; after the last turn they are all frames   *)
(* the table maps.                                                         *)
(***************************************************************************)
LEMMA AllocInitKeeps == IInv /\ paging_alloc_init => IInv'
<1> SUFFICES ASSUME IInv, paging_alloc_init PROVE IInv'
  OBVIOUS
<1> USE DEF IInv, paging_alloc_init
<1>1. i \in Pages /\ pc = "alloc_init" /\ pages' = pages
  BY DEF TypeOK
<1>2. \A k \in Pages : Frame(k) = k
  BY <1>1 DEF BootMap, Booting, Frame
<1>3. /\ bits' \in Arrays /\ bits'[Guard] = bits[Guard]
      /\ Members(bits') = (0 .. i - 1) \cup {i}
  BY <1>1, <1>2, PageGetMarks DEF Marking
<1>4. Members(bits') = 0 .. i
  BY <1>1, <1>3, Sizes
<1>5. TypeOK' /\ NeighbourUntouched'
  BY <1>1, <1>3, Sizes DEF TypeOK, Stages, NeighbourUntouched, boot
<1>6. Marking'
  <2> SUFFICES ASSUME pc' = "alloc_init" PROVE Members(bits') = 0 .. i' - 1
    BY DEF Marking
  <2>1. i' = i + 1 /\ i \in Int
    BY <1>1, Sizes
  <2>2. i' - 1 = i
    BY <2>1
  <2> QED BY <1>4, <2>2
<1>7. FramesAccounted'
  <2> SUFFICES ASSUME pc' = "post" PROVE Members(bits') = {0} \cup {Frame(k)' : k \in Pages}
    BY <1>1 DEF FramesAccounted
  <2>1. i \in Nat /\ PT \in Nat \ {0} /\ i + 1 \notin Pages /\ i \in Pages
    BY <1>1, Sizes
  <2>2. i = PT - 1
    BY <2>1 DEF Pages
  <2>3. {Frame(k)' : k \in Pages} = Pages
    BY <1>1, <1>2 DEF Frame
  <2>4. 0 .. i = Pages /\ 0 \in Pages
    BY <2>2, Sizes DEF Pages
  <2> QED BY <1>4, <2>3, <2>4
<1> QED
  BY <1>1, <1>5, <1>6, <1>7 DEF NoSharedFrame, Frame, BootMap, NoMap, HeapPages,
     Directories, CachedHigh, FramesSuffice, Booting, TwoMaps, Running, boot

LEMMA PostKeeps == IInv /\ paging_init_post => IInv'
<1> SUFFICES ASSUME IInv, paging_init_post PROVE IInv'
  OBVIOUS
<1> USE DEF IInv, paging_init_post
<1>1. TypeOK'
  BY PagingAssumption DEF TypeOK, Stages
<1>2. HeapPages'
  BY PagingAssumption DEF HeapPages
<1>3. Directories'
  BY PagingAssumption DEF Directories, Booting, TwoMaps, Running, Both
<1> QED
  BY <1>1, <1>2, <1>3 DEF NeighbourUntouched, NoSharedFrame, Frame, FramesAccounted,
     Marking, BootMap, NoMap, CachedHigh, FramesSuffice, Booting, Running

-----------------------------------------------------------------------------
(***************************************************************************)
(* page_frame_alloc behind page_get, in a machine whose frames are         *)
(* accounted for: types, accounting and the absence of sharing are kept,   *)
(* a page that has a frame keeps it, and a free frame is always found.     *)
(***************************************************************************)
LEMMA FrameAllocKeeps ==
    ASSUME TypeOK, NoSharedFrame, Members(bits) = {0} \cup Frames,
           NEW k \in Pages, NEW next,
           page_frame_alloc(page_get(bits, k), k, next)
    PROVE  /\ bits' \in Arrays /\ bits'[Guard] = bits[Guard]
           /\ pages' \in [Pages -> [frame : Bits, present : BOOLEAN]]
           /\ Members(bits') = {0} \cup {Frame(l)' : l \in Pages}
           /\ NoSharedFrame'
           /\ Frame(k) # 0 => pages' = pages
           /\ pc' = next
<1> DEFINE b == page_get(bits, k)
           f == bit_find_first_free(b)
<1>1. b \in Arrays /\ b[Guard] = bits[Guard] /\ Members(b) = {0} \cup Frames
  BY PageGetKeeps
<1>2. \/ f \in Bits \ Members(b)
      \/ f = -1 /\ Bits \subseteq Members(b)
  <2> HIDE DEF b
  <2> QED BY <1>1, FindFirstFree
<1>3. pages \in [Pages -> [frame : Bits, present : BOOLEAN]]
  BY DEF TypeOK
<1>4. CASE Frame(k) # 0
  <2>1. bits' = b /\ pages' = pages /\ pc' = next
    BY <1>4 DEF page_frame_alloc
  <2>2. {Frame(l)' : l \in Pages} = Frames /\ NoSharedFrame'
    BY <2>1 DEF Frames, Frame, NoSharedFrame
  <2> QED BY <1>1, <1>3, <2>1, <2>2
<1>5. CASE Frame(k) = 0
  <2>1. f \in Bits \ Members(b)
    BY <1>1, <1>2, <1>5, FramesDoNotRunOut
  <2>2. f >= 0 /\ ~ (f < 0)
    BY <2>1, Sizes DEF Bits
  <2>3. /\ bits' = bit_set(b, f) /\ pc' = next
        /\ pages' = [pages EXCEPT ![k] = [frame |-> f, present |-> TRUE]]
    <3> HIDE DEF f, b
    <3> QED BY <1>5, <2>2 DEF page_frame_alloc, take_frame, f, b
  <2>4. bits' \in Arrays /\ bits'[Guard] = b[Guard] /\ Members(bits') = Members(b) \cup {f}
    <3> HIDE DEF f, b
    <3> QED BY <1>1, <2>1, <2>3, SetAdds
  <2> HIDE DEF f, b
  <2>5. \A l \in Pages : Frame(l)' = IF l = k THEN f ELSE Frame(l)
    BY <1>3, <2>3 DEF Frame
  <2>6. {0} \cup {Frame(l)' : l \in Pages} = ({0} \cup Frames) \cup {f}
    BY <1>5, <2>5 DEF Frames
  <2>7. NoSharedFrame'
    BY <1>1, <2>1, <2>5 DEF NoSharedFrame, Frames
  <2>8. pages' \in [Pages -> [frame : Bits, present : BOOLEAN]]
    BY <1>3, <2>1, <2>3
  <2> QED BY <1>1, <1>5, <2>3, <2>4, <2>6, <2>7, <2>8
<1> QED BY <1>4, <1>5

(***************************************************************************)
(* heap_init finds every heap page mapped already and changes nothing.     *)
(***************************************************************************)
LEMMA HeapKeeps == IInv /\ heap_init => IInv'
<1> SUFFICES ASSUME IInv, heap_init PROVE IInv'
  OBVIOUS
<1> USE DEF IInv, heap_init
<1>1. i \in Pages /\ i # 0 /\ pc = "heap"
  BY DEF TypeOK, HeapPages
<1>2. Frame(i) # 0
  BY <1>1 DEF BootMap, Booting, Frame
<1>3. Members(bits) = {0} \cup Frames
  BY <1>1 DEF FramesAccounted, Frames
<1>4. /\ bits' \in Arrays /\ bits'[Guard] = bits[Guard]
      /\ Members(bits') = {0} \cup {Frame(l)' : l \in Pages}
      /\ NoSharedFrame' /\ pages' = pages
      /\ pc' = IF i + 1 \in Pages THEN "heap" ELSE "clone"
  BY <1>1, <1>2, <1>3, FrameAllocKeeps
<1>5. TypeOK' /\ NeighbourUntouched'
  BY <1>1, <1>4, Sizes DEF TypeOK, Stages, NeighbourUntouched, boot
<1>6. HeapPages'
  BY <1>1, <1>4, Sizes DEF HeapPages
<1> QED
  BY <1>1, <1>4, <1>5, <1>6 DEF FramesAccounted, Marking, BootMap, NoMap,
     Directories, CachedHigh, FramesSuffice, Booting, TwoMaps, Running, boot

LEMMA CloneKeeps == IInv /\ kern_page_dir_clone => IInv'
<1> SUFFICES ASSUME IInv, kern_page_dir_clone PROVE IInv'
  OBVIOUS
<1> USE DEF IInv, kern_page_dir_clone, switch_page_dir
<1>1. pc = "clone" /\ ClonePage \in Pages /\ pages' = pages /\ heap_valid
  BY PagingAssumption DEF heap_valid
<1>2. Members(bits) = {0} \cup Frames /\ Frame(ClonePage) = ClonePage
  BY <1>1 DEF FramesAccounted, Frames, BootMap, Booting, Frame
<1>3. /\ bits' \in Arrays /\ bits'[Guard] = bits[Guard]
      /\ Members(bits') = {0} \cup Frames
  BY <1>1, <1>2, PageGetKeeps
<1>4. cr3' = ClonePage /\ tlb' = {} /\ curr' = "clone"
  BY <1>1, <1>2 DEF virt_to_phys
<1>5. clone' = Both({KT})
  BY <1>1 DEF Directories, Both
<1>6. TypeOK' /\ NeighbourUntouched'
  BY <1>1, <1>3, <1>4, <1>5, PagingAssumption, Sizes
     DEF TypeOK, Stages, NeighbourUntouched, Both
<1>7. FramesAccounted' /\ NoSharedFrame'
  BY <1>1, <1>3 DEF FramesAccounted, Frames, Frame, NoSharedFrame
<1>8. Directories' /\ CachedHigh'
  BY <1>4, <1>5 DEF Directories, CachedHigh, Booting, TwoMaps, Running
<1> QED
  BY <1>6, <1>7, <1>8 DEF Marking, BootMap, NoMap, HeapPages, FramesSuffice, Booting

-----------------------------------------------------------------------------
LEMMA AllocKeeps == ASSUME NEW k \in ClientPages PROVE IInv /\ AllocPage(k) => IInv'
<1> SUFFICES ASSUME IInv, AllocPage(k) PROVE IInv'
  OBVIOUS
<1> USE DEF IInv, AllocPage
<1>1. k \in Pages /\ pc = "run"
  BY PagingAssumption
<1>2. Members(bits) = {0} \cup Frames
  BY <1>1 DEF FramesAccounted, Frames
<1>3. /\ bits' \in Arrays /\ bits'[Guard] = bits[Guard]
      /\ pages' \in [Pages -> [frame : Bits, present : BOOLEAN]]
      /\ Members(bits') = {0} \cup {Frame(l)' : l \in Pages}
      /\ NoSharedFrame' /\ pc' = "run"
  BY <1>1, <1>2, FrameAllocKeeps
<1>4. TypeOK' /\ NeighbourUntouched'
  BY <1>1, <1>3 DEF TypeOK, Stages, NeighbourUntouched, boot
<1> QED
  BY <1>1, <1>3, <1>4 DEF FramesAccounted, Marking, BootMap, NoMap, HeapPages,
     Directories, CachedHigh, FramesSuffice, Booting, TwoMaps, Running, boot

(***************************************************************************)
(* page_frame_free: no other page has the frame, so clearing its bit keeps *)
(* the account.                                                            *)
(***************************************************************************)
LEMMA FreeKeeps == ASSUME NEW k \in ClientPages PROVE IInv /\ FreePage(k) => IInv'
<1> SUFFICES ASSUME IInv, FreePage(k) PROVE IInv'
  OBVIOUS
<1> USE DEF IInv, FreePage
<1> DEFINE b == page_get(bits, k)
<1>1. k \in Pages /\ pc = "run" /\ pc' = "run"
  BY PagingAssumption
<1>2. Members(bits) = {0} \cup Frames
  BY <1>1 DEF FramesAccounted, Frames
<1>3. b \in Arrays /\ b[Guard] = bits[Guard] /\ Members(b) = {0} \cup Frames
  BY <1>1, <1>2, PageGetKeeps
<1>4. pages \in [Pages -> [frame : Bits, present : BOOLEAN]] /\ Frame(k) \in Bits
  BY <1>1 DEF TypeOK, Frame
<1>5. page_frame_free(b, k)
  OBVIOUS
<1> HIDE DEF b
<1>6. /\ bits' \in Arrays /\ bits'[Guard] = bits[Guard]
      /\ pages' \in [Pages -> [frame : Bits, present : BOOLEAN]]
      /\ Members(bits') = {0} \cup {Frame(l)' : l \in Pages}
      /\ NoSharedFrame'
  <2>1. CASE Frame(k) = 0
    <3>1. bits' = b /\ pages' = pages
      BY <1>5, <2>1 DEF page_frame_free
    <3> QED BY <1>3, <1>4, <3>1 DEF Frames, Frame, NoSharedFrame
  <2>2. CASE Frame(k) # 0
    <3>1. /\ bits' = bit_clear(b, Frame(k))
          /\ pages' = [pages EXCEPT ![k] = [frame |-> 0, present |-> FALSE]]
      BY <1>5, <2>2 DEF page_frame_free
    <3>2. /\ bits' \in Arrays /\ bits'[Guard] = b[Guard]
          /\ Members(bits') = Members(b) \ {Frame(k)}
      BY <1>3, <1>4, <3>1, ClearRemoves
    <3>3. \A l \in Pages : Frame(l)' = IF l = k THEN 0 ELSE Frame(l)
      BY <1>4, <3>1 DEF Frame
    <3>4. \A l \in Pages : l # k => Frame(l) # Frame(k)
      BY <1>1, <2>2 DEF NoSharedFrame
    <3>5. {0} \cup {Frame(l)' : l \in Pages} = ({0} \cup Frames) \ {Frame(k)}
      BY <2>2, <3>3, <3>4, <1>1 DEF Frames
    <3>6. NoSharedFrame'
      BY <3>3 DEF NoSharedFrame
    <3>7. pages' \in [Pages -> [frame : Bits, present : BOOLEAN]]
      BY <1>4, <3>1, Sizes
    <3> QED BY <1>3, <3>2, <3>5, <3>6, <3>7
  <2> QED BY <2>1, <2>2
<1>7. TypeOK' /\ NeighbourUntouched'
  BY <1>1, <1>6 DEF TypeOK, Stages, NeighbourUntouched, boot
<1> QED
  BY <1>1, <1>6, <1>7 DEF FramesAccounted, Marking, BootMap, NoMap, HeapPages,
     Directories, CachedHigh, FramesSuffice, Booting, TwoMaps, Running, boot

LEMMA TranslateKeeps ==
    ASSUME NEW t \in Tables, NEW k \in ClientPages
    PROVE  IInv /\ TranslateAddress(t, k) => IInv'
<1> SUFFICES ASSUME IInv, TranslateAddress(t, k) PROVE IInv'
  OBVIOUS
<1> USE DEF IInv, TranslateAddress
<1>1. k \in Pages /\ pc = "run" /\ pc' \in {"run", "halted"} /\ pages' = pages
  BY PagingAssumption
<1>2. Members(bits) = {0} \cup Frames
  BY <1>1 DEF FramesAccounted, Frames
<1>3. /\ bits' \in Arrays /\ bits'[Guard] = bits[Guard]
      /\ Members(bits') = {0} \cup Frames
  <2>1. bits \in Arrays
    BY DEF TypeOK
  <2>2. bits' = bits \/ bits' = page_get(bits, k)
    OBVIOUS
  <2> QED BY <1>1, <1>2, <2>1, <2>2, PageGetKeeps
<1>4. TypeOK' /\ NeighbourUntouched'
  BY <1>1, <1>3 DEF TypeOK, Stages, NeighbourUntouched, boot
<1>5. FramesAccounted' /\ NoSharedFrame'
  BY <1>1, <1>3 DEF FramesAccounted, Frames, Frame, NoSharedFrame
<1> QED
  BY <1>1, <1>4, <1>5 DEF Marking, BootMap, NoMap, HeapPages, Directories,
     CachedHigh, FramesSuffice, Booting, TwoMaps, Running, boot

(***************************************************************************)
(* The CPU caches only what it walks, and in the running machine that is   *)
(* the kernel's region.                                                    *)
(***************************************************************************)
LEMMA TouchKeeps ==
    ASSUME NEW k \in ClientPages \cup {DirPage, ClonePage} PROVE IInv /\ Touch(k) => IInv'
<1> SUFFICES ASSUME IInv, Touch(k) PROVE IInv'
  OBVIOUS
<1> DEFINE t == IF pc = "pre" THEN 0 ELSE KT
           e == [lin |-> <<t, k>>, frame |-> Frame(k)]
<1> USE DEF IInv
<1>1. /\ tlb' = tlb \cup {e} /\ pc' = pc /\ i' = i /\ bits' = bits /\ pages' = pages
      /\ UNCHANGED boot
  BY DEF Touch
<1>2. k \in Pages /\ t \in Tables /\ KT # 0
  BY PagingAssumption
<1>3. Frame(k) \in Bits
  BY <1>2 DEF TypeOK, Frame
<1>4. TypeOK'
  <2> HIDE DEF t
  <2>1. e \in [lin : Tables \X Pages, frame : Bits]
    BY <1>2, <1>3
  <2> HIDE DEF e
  <2> QED BY <1>1, <2>1 DEF TypeOK, boot
<1>5. CachedHigh'
  BY <1>1, <1>2 DEF CachedHigh, Running
<1> QED
  BY <1>1, <1>4, <1>5 DEF NeighbourUntouched, NoSharedFrame, Frame, FramesAccounted,
     Marking, BootMap, NoMap, HeapPages, Directories, FramesSuffice, boot

LEMMA IInvStep == IInv /\ [Next]_vars => IInv'
<1> SUFFICES ASSUME IInv, [Next]_vars PROVE IInv'
  OBVIOUS
<1>1. CASE UNCHANGED vars
  BY <1>1 DEF vars, IInv, TypeOK, NeighbourUntouched, NoSharedFrame, Frame,
     FramesAccounted, Marking, BootMap, NoMap, HeapPages, Directories, CachedHigh,
     FramesSuffice
<1> QED
  BY <1>1, PreKeeps, GdtKeeps, CreateKeeps, AllocInitKeeps, PostKeeps, HeapKeeps,
     CloneKeeps, AllocKeeps, FreeKeeps, TranslateKeeps, TouchKeeps DEF Next

THEOREM PagingInvariant == Spec => []IInv
BY InitEstablishes, IInvStep, PTL DEF Spec

-----------------------------------------------------------------------------
(***************************************************************************)
(* Every state of paging.c is well typed.                                  *)
(***************************************************************************)
THEOREM PagingTypes == Spec => []TypeOK
<1>1. IInv => TypeOK
  BY DEF IInv
<1> QED BY <1>1, PagingInvariant, PTL

(***************************************************************************)
(* The frames marked in the bitmap are exactly those the page table maps,  *)
(* and frame 0: none is handed out twice, none is lost.                    *)
(***************************************************************************)
THEOREM FramesAlwaysAccounted == Spec => []FramesKept
<1>1. IInv => FramesKept
  BY DEF IInv, FramesKept
<1> QED BY <1>1, PagingInvariant, PTL

(***************************************************************************)
(* page_frame_alloc never spins for want of a frame (paging.c:45-49).      *)
(***************************************************************************)
THEOREM FramesNeverRunOut == Spec => []FramesSuffice
<1>1. IInv => FramesSuffice
  BY DEF IInv
<1> QED BY <1>1, PagingInvariant, PTL

(***************************************************************************)
(* No number that paging.c passes to bit_set or bit_clear is beyond the    *)
(* bitmap: their loose bound check (bitset.c:44, 58) is never relied on.   *)
(***************************************************************************)
THEOREM NeighbourStaysUntouched == Spec => []NeighbourUntouched
<1>1. IInv => NeighbourUntouched
  BY DEF IInv
<1> QED BY <1>1, PagingInvariant, PTL

(***************************************************************************)
(* Once the clone is in use no low address is translated.                  *)
(***************************************************************************)
THEOREM LowMappingStaysGone == Spec => []LowMappingGone
<1>1. IInv => LowMappingGone
  <2> SUFFICES ASSUME IInv, pc \in {"run", "halted"} PROVE LowMappingGone
    BY DEF LowMappingGone
  <2>1. cr3 = ClonePage /\ clone = Both({KT}) /\ \A e \in tlb : e.lin[1] # 0
    BY DEF IInv, Directories, CachedHigh, Running
  <2>2. CpuTables = {KT}
    BY <2>1, PagingAssumption DEF CpuTables, Both
  <2> QED BY <2>1, <2>2, PagingAssumption DEF LowMappingGone
<1> QED BY <1>1, PagingInvariant, PTL

-----------------------------------------------------------------------------
(***************************************************************************)
(* The kernel's own pages, which no client frees or remaps: they stay      *)
(* where paging_init_pre mapped them, and what the CPU has cached of them, *)
(* through either mapping, says so.                                        *)
(***************************************************************************)
KernelPages == Pages \ ClientPages

KernelMap ==
    pc # "reset" => \A k \in KernelPages : Frame(k) = k /\ pages[k].present

KernelCached == \A e \in tlb : e.lin[2] \in KernelPages => e.frame = e.lin[2]

KernelKept == KernelMap /\ KernelCached

(* A step that neither maps nor caches anything. *)
LEMMA KernelIdle ==
    ASSUME KernelKept, pc # "reset", pages' = pages, tlb' \subseteq tlb PROVE KernelKept'
BY DEF KernelKept, KernelMap, KernelCached, Frame

(* A step that may map or unmap a client's page. *)
LEMMA KernelClients ==
    ASSUME KernelKept, pc # "reset", tlb' = tlb, NEW k \in ClientPages,
           \A l \in Pages \ {k} : pages'[l] = pages[l]
    PROVE  KernelKept'
<1>1. \A l \in KernelPages : pages'[l] = pages[l]
  BY DEF KernelPages
<1> QED BY <1>1 DEF KernelKept, KernelMap, KernelCached, Frame

LEMMA KernelStep == ASSUME IInv, KernelKept, [Next]_vars PROVE KernelKept'
<1> USE DEF boot
<1>1. CASE UNCHANGED vars
  BY <1>1 DEF vars, KernelKept, KernelMap, KernelCached, Frame
<1>2. CASE paging_init_pre
  BY <1>2 DEF paging_init_pre, KernelKept, KernelMap, KernelCached, KernelPages, Frame
<1>3. CASE gdt_init \/ paging_alloc_init \/ paging_init_post \/ kern_page_dir_clone
  BY <1>3, KernelIdle
     DEF gdt_init, paging_alloc_init, paging_init_post, kern_page_dir_clone, switch_page_dir
<1>4. CASE \E guard \in WordSet : arch_bitset_create(guard)
  BY <1>4, KernelIdle DEF arch_bitset_create
<1>5. CASE heap_init
  <2>1. pc = "heap" /\ tlb' = tlb /\ i \in Pages /\ i # 0
    BY <1>5 DEF heap_init, IInv, TypeOK, HeapPages
  <2>2. Frame(i) # 0
    BY <2>1 DEF IInv, BootMap, Booting, Frame
  <2>3. pages' = pages
    BY <1>5, <2>2 DEF heap_init, page_frame_alloc
  <2> QED BY <2>1, <2>3, KernelIdle
<1>6. ASSUME NEW k \in ClientPages, AllocPage(k) PROVE KernelKept'
  <2>1. pc = "run" /\ tlb' = tlb
    BY <1>6 DEF AllocPage
  <2>2. \A l \in Pages \ {k} : pages'[l] = pages[l]
    BY <1>6 DEF AllocPage, page_frame_alloc, take_frame, IInv, TypeOK
  <2> QED BY <2>1, <2>2, KernelClients
<1>7. ASSUME NEW k \in ClientPages, FreePage(k) PROVE KernelKept'
  <2>1. pc = "run" /\ tlb' = tlb
    BY <1>7 DEF FreePage
  <2>2. \A l \in Pages \ {k} : pages'[l] = pages[l]
    BY <1>7 DEF FreePage, page_frame_free, IInv, TypeOK
  <2> QED BY <2>1, <2>2, KernelClients
<1>8. CASE \E t \in Tables, k \in ClientPages : TranslateAddress(t, k)
  BY <1>8, KernelIdle DEF TranslateAddress
<1>9. ASSUME NEW k \in ClientPages \cup {DirPage, ClonePage}, Touch(k) PROVE KernelKept'
  <2>1. PICK t \in {0, KT} : tlb' = tlb \cup {[lin |-> <<t, k>>, frame |-> Frame(k)]}
    BY <1>9 DEF Touch
  <2>2. pc # "reset" /\ pc' = pc /\ pages' = pages
    BY <1>9 DEF Touch
  <2>3. k \in KernelPages => Frame(k) = k
    BY <2>2 DEF KernelKept, KernelMap
  <2> QED BY <2>1, <2>2, <2>3 DEF KernelKept, KernelMap, KernelCached, Frame
<1> QED BY <1>1, <1>2, <1>3, <1>4, <1>5, <1>6, <1>7, <1>8, <1>9 DEF Next

(***************************************************************************)
(* The CPU walks the current directory, and for each of the kernel's own   *)
(* pages the frame it uses, out of its cache or not, is the one that       *)
(* virt_to_phys computes, before and after the heap is valid.              *)
(***************************************************************************)
THEOREM TranslationsAlwaysAgree == Spec => []TranslationsAgree
<1>1. Init => KernelKept
  BY DEF Init, KernelKept, KernelMap, KernelCached
<1>2. ASSUME IInv, KernelKept, pc # "reset" PROVE TranslationsAgree
  <2>1. pc \in Stages
    BY <1>2 DEF IInv, TypeOK
  <2>2. \A k \in KernelPages : virt_to_phys(k) = k
    BY <1>2 DEF virt_to_phys, KernelKept, KernelMap
  <2>3. DirPage \in KernelPages /\ ClonePage \in KernelPages
    BY PagingAssumption DEF KernelPages
  <2>4. ASSUME NEW k \in KernelPages, KT \in CpuTables PROVE CpuFrames(k) = {virt_to_phys(k)}
    <3>1. Walks(KT, k) /\ Frame(k) = k
      BY <1>2, <2>4 DEF Walks, KernelKept, KernelMap
    <3>2. \A c \in tlb : c.lin[2] = k => c.frame = k
      BY <1>2, <2>4 DEF KernelKept, KernelCached
    <3> QED BY <2>2, <3>1, <3>2 DEF CpuFrames
  <2>5. CASE pc \in Booting
    <3>1. curr = "kern" /\ cr3 = DirPage /\ (kern = Both({0, KT}) \/ kern = Both({KT}))
      BY <1>2, <2>5 DEF Directories, Booting, TwoMaps, IInv
    <3>2. KT \in kern.tables_phys /\ kern.tables_phys = kern.tables
      BY <3>1 DEF Both
    <3>3. KT \in CpuTables
      BY <3>1, <3>2, PagingAssumption DEF CpuTables
    <3> QED BY <2>2, <2>3, <2>4, <3>1, <3>2, <3>3 DEF TranslationsAgree, Dir, KernelPages
  <2>6. CASE pc \in Running
    <3>1. curr = "clone" /\ cr3 = ClonePage /\ clone = Both({KT})
      BY <1>2, <2>6 DEF IInv, Directories
    <3>2. KT \in CpuTables /\ clone.tables_phys = clone.tables
      BY <3>1, PagingAssumption DEF CpuTables, Both
    <3> QED BY <2>2, <2>3, <2>4, <3>1, <3>2 DEF TranslationsAgree, Dir, KernelPages
  <2> QED BY <1>2, <2>1, <2>5, <2>6 DEF Stages, Booting, Running
<1>3. IInv /\ KernelKept => TranslationsAgree
  BY <1>2 DEF TranslationsAgree
<1> QED BY <1>1, <1>3, KernelStep, PagingInvariant, PTL DEF Spec
=============================================================================
