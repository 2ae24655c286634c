----------------------------- MODULE HeapProofs -----------------------------
(***************************************************************************)
(* Proofs about the kernel heap under its clients, for every heap, every   *)
(* page size and whatever sizes and data the clients come with.            *)
(***************************************************************************)
EXTENDS KernelMain, TLAPS, FiniteSetTheorems, WellFoundedInduction

-----------------------------------------------------------------------------
(* Arithmetic: rounding, wrapping, and the flag bits of a header.          *)

LEMMA Heap ==
    /\ Page \in Nat \ {0} /\ start \in Nat \ {0} /\ start % Page = 0
    /\ brk \in Nat /\ WordMod \in Nat /\ brk > start + Page + 4 /\ brk < WordMod
    /\ ALLOC_MAGIC \in Nat /\ brk <= ALLOC_MAGIC /\ ALLOC_MAGIC + 1 < WordMod
    /\ ALLOC_MAGIC % 16 = 0
BY KernelHeapAssumption

LEMMA AlignUpRounds ==
    ASSUME NEW a \in Nat
    PROVE  AlignUp(a) \in Nat /\ a <= AlignUp(a) /\ AlignUp(a) < a + Page
<1>1. a % Page \in 0 .. Page - 1 /\ Page \in Nat \ {0}
  BY Heap
<1> QED BY <1>1 DEF AlignUp

LEMMA WrapTyped == ASSUME NEW n \in Int PROVE Wrap(n) \in Word
<1>1. n % WordMod \in 0 .. WordMod - 1
  BY Heap
<1> QED BY <1>1 DEF Wrap, Word

LEMMA WrapOfWord == ASSUME NEW n \in Word PROVE Wrap(n) = n
BY Heap DEF Wrap, Word

(* The magic with its free flag and without, and what clearing it leaves.  *)
LEMMA MagicFlags ==
    /\ HasMagic(ALLOC_MAGIC) /\ HasMagic(ALLOC_MAGIC + 1)
    /\ NotFree(ALLOC_MAGIC) = ALLOC_MAGIC /\ NotFree(ALLOC_MAGIC + 1) = ALLOC_MAGIC
<1>1. /\ ALLOC_MAGIC % 2 = 0 /\ (ALLOC_MAGIC + 1) % 2 = 1
      /\ ALLOC_MAGIC % 16 = 0 /\ (ALLOC_MAGIC + 1) % 16 = 1
  BY Heap
<1> QED BY <1>1, Heap DEF HasMagic, NotFree

LEMMA NotFreeTyped == ASSUME NEW f \in Word PROVE NotFree(f) \in Word
<1>1. f \in Nat /\ f % 2 \in 0 .. 1 /\ f % 2 <= f
  BY DEF Word
<1> QED BY <1>1, Heap DEF Word, NotFree

LEMMA MemoryOfWords ==
    /\ Memory \subseteq Word
    /\ \A a \in Memory : a \in Nat /\ start <= a /\ a < brk
BY Heap DEF Memory, Word

LEMMA HeaderPlaces ==
    ASSUME NEW a \in Word
    PROVE  Header(a) <=> start <= a /\ a + 3 < brk
BY Heap DEF Header, Memory, Word

LEMMA LeastId ==
    ASSUME NEW S \in SUBSET Nat, S # {} PROVE Min(S) \in S
<1> DEFINE Less == {p \in Nat \X Nat : p[1] < p[2]}
<1>1. OpToRel(<, Nat) = Less
  BY DEF OpToRel
<1>2. IsWellFoundedOn(Less, Nat)
  BY <1>1, NatLessThanWellFounded
<1>3. PICK x \in S : \A y \in S : <<y, x>> \notin Less
  <2> HIDE DEF Less
  <2> QED BY <1>2, WFMin
<1>4. ASSUME NEW y \in S PROVE x <= y
  <2>1. x \in Nat /\ y \in Nat /\ ~ (y < x)
    BY <1>3
  <2> QED BY <2>1
<1> QED BY <1>3, <1>4 DEF Min

-----------------------------------------------------------------------------
(* What a split, a merge and a client's store do to the heap's words.      *)

(* One assignment through a pointer. *)
LEMMA WordStored ==
    ASSUME NEW m \in [Memory -> Word], NEW x \in Int, NEW v \in Word
    PROVE  /\ [m EXCEPT ![x] = v] \in [Memory -> Word]
           /\ \A a \in Memory : [m EXCEPT ![x] = v][a] = IF a = x THEN v ELSE m[a]
OBVIOUS

LEMMA Carved ==
    ASSUME NEW m \in [Memory -> Word], NEW area \in Word, NEW size \in Nat,
           Header(area), Header(NewArea(area, size))
    PROVE  LET new == NewArea(area, size)
               c   == Carve(m, area, size)
           IN  /\ c \in [Memory -> Word]
               /\ c[new] = ALLOC_MAGIC + 1
               /\ c[new + 1] = Wrap(Size(m, area) - size - BLOCKSIZE)
               /\ c[new + 2] = NextOf(m, area) /\ c[area + 2] = new
               /\ \A a \in Memory : a \notin new .. new + 3 /\ a # area + 2 => c[a] = m[a]
<1> DEFINE new == NewArea(area, size)
           w == Wrap(Size(m, area) - size - BLOCKSIZE)
           n == NextOf(m, area)
<1>1. /\ area \in Nat /\ new \in Nat /\ area + 4 <= new
      /\ {area, area + 1, area + 2, area + 3} \subseteq Memory
      /\ {new, new + 1, new + 2, new + 3} \subseteq Memory
  BY DEF Header, NewArea, DataOf, BLOCKSIZE, Word
<1>2. Size(m, area) \in Word /\ Size(m, area) \in Int /\ n \in Word
  BY <1>1 DEF Size, NextOf, Word
<1>3. /\ w \in Word /\ new \in Word /\ area \in Word /\ ALLOC_MAGIC + 1 \in Word
  BY <1>1, <1>2, WrapTyped, MemoryOfWords, Heap DEF BLOCKSIZE, Word
<1>4. Carve(m, area, size) = [m EXCEPT ![new] = ALLOC_MAGIC + 1, ![new + 1] = w,
                                       ![new + 2] = n, ![new + 3] = area, ![area + 2] = new]
  BY DEF Carve
<1> HIDE DEF new, w, n
<1>5. /\ Carve(m, area, size) \in [Memory -> Word]
      /\ \A a \in Memory : Carve(m, area, size)[a] =
            CASE a = area + 2 -> new [] a = new -> ALLOC_MAGIC + 1 [] a = new + 1 -> w
              [] a = new + 2 -> n [] a = new + 3 -> area [] OTHER -> m[a]
  BY <1>1, <1>2, <1>3, <1>4
<1> QED BY <1>1, <1>5 DEF new, w, n

LEMMA SplitMemory ==
    ASSUME NEW m \in [Memory -> Word], NEW area \in Word, NEW size \in Nat,
           Header(area), Header(NewArea(area, size))
    PROVE  LET new  == NewArea(area, size)
               next == NextOf(m, area)
               s    == Split(m, area, size)
           IN  /\ s \in [Memory -> Word]
               /\ \A a \in Memory : s[a] = IF next # NULL /\ a = next + 3 THEN new
                                           ELSE Carve(m, area, size)[a]
<1> DEFINE new == NewArea(area, size)
           c == Carve(m, area, size)
<1>1. c \in [Memory -> Word] /\ NextOf(c, new) = NextOf(m, area)
  BY Carved DEF NextOf
<1>2. new \in Word /\ NextOf(m, area) \in Word /\ NextOf(m, area) \in Int
  <2>1. new \in Memory /\ area + 2 \in Memory
    BY DEF Header
  <2>2. m[area + 2] \in Word
    BY <2>1
  <2>3. NextOf(m, area) \in Word
    BY <2>2 DEF NextOf
  <2>4. NextOf(m, area) \in Int
    BY <2>3 DEF Word
  <2> QED BY <2>1, <2>3, <2>4, MemoryOfWords
<1>3. Split(m, area, size) = IF NextOf(m, area) = NULL THEN c
                             ELSE [c EXCEPT ![NextOf(m, area) + 3] = new]
  BY <1>1 DEF Split
<1> HIDE DEF c, new
<1>4. /\ Split(m, area, size) \in [Memory -> Word]
      /\ \A a \in Memory : Split(m, area, size)[a] =
            IF NextOf(m, area) # NULL /\ a = NextOf(m, area) + 3 THEN new ELSE c[a]
  BY <1>1, <1>2, <1>3
<1> QED BY <1>4 DEF c, new

LEMMA MergedWords ==
    ASSUME NEW m \in [Memory -> Word], NEW area \in Word,
           Header(area), MergeReadsInside(m, area), AbsorbStaysInside(m, area)
    PROVE  LET next == NextOf(m, area)
               sum  == Wrap(Size(m, area) + BLOCKSIZE + Size(m, next))
               far  == IF next + 2 = area + 1 THEN sum ELSE m[next + 2]
               r    == MergedMemory(m, area)
           IN  /\ r \in [Memory -> Word]
               /\ MergesNext(m, area) =>
                     /\ next \in Nat /\ Header(next) /\ far \in Word /\ sum \in Word
                     /\ \A a \in Memory \ {area} :
                           r[a] = CASE far # NULL /\ a = far + 3 -> area
                                    [] a = area + 2 /\ ~ (far # NULL /\ a = far + 3) -> far
                                    [] a = area + 1 /\ ~ (far # NULL /\ a = far + 3) -> sum
                                    [] OTHER -> m[a]
                     /\ far = NULL \/ far + 3 # area => r[area] = NotFree(m[area])
               /\ ~ MergesNext(m, area) =>
                     \A a \in Memory : r[a] = IF a = area THEN NotFree(m[area]) ELSE m[a]
<1> DEFINE next == NextOf(m, area)
           sum == Wrap(Size(m, area) + BLOCKSIZE + Size(m, next))
           far == IF next + 2 = area + 1 THEN sum ELSE m[next + 2]
           r == MergedMemory(m, area)
<1>1. area \in Int /\ {area, area + 1, area + 2, area + 3} \subseteq Memory
  BY DEF Header, Word
<1>2. ASSUME NEW x \in [Memory -> Word]
      PROVE  /\ ClearFree(x, area) \in [Memory -> Word]
             /\ \A a \in Memory : ClearFree(x, area)[a] =
                    IF a = area THEN NotFree(x[area]) ELSE x[a]
  BY <1>1, NotFreeTyped, WordStored DEF ClearFree
<1>3. CASE ~ MergesNext(m, area)
  BY <1>2, <1>3 DEF MergedMemory
<1>4. CASE MergesNext(m, area)
  <2>1. next # NULL /\ Header(next) /\ next \in Word /\ next \in Nat
    <3>1. next # NULL /\ Header(next)
      BY <1>4 DEF MergesNext, MergeReadsInside
    <3>2. next \in Memory
      BY <3>1 DEF Header
    <3> QED BY <3>1, <3>2, MemoryOfWords
  <2>2. {next, next + 1, next + 2, next + 3} \subseteq Memory
    BY <2>1 DEF Header
  <2>3. Size(m, area) \in Nat /\ Size(m, next) \in Nat /\ sum \in Word
    <3>1. m[area + 1] \in Word /\ m[next + 1] \in Word
      BY <1>1, <2>2
    <3>2. Size(m, area) \in Nat /\ Size(m, next) \in Nat
      BY <3>1 DEF Size, Word
    <3> QED BY <3>2, WrapTyped DEF BLOCKSIZE
  <2>4. far \in Word /\ far \in Int
    BY <2>2, <2>3 DEF Word
  <2> DEFINE m1 == [m EXCEPT ![area + 1] = sum]
             m2 == [m1 EXCEPT ![area + 2] = far]
             m3 == IF far = NULL THEN m2 ELSE [m2 EXCEPT ![far + 3] = area]
  <2>5. m1 \in [Memory -> Word] /\ \A a \in Memory : m1[a] = IF a = area + 1 THEN sum ELSE m[a]
    BY <1>1, <2>3, WordStored
  <2>6. NextOf(m1, area) = next /\ NextOf(m1, next) = far
    BY <1>1, <2>1, <2>2, <2>5 DEF NextOf
  <2>7. m2 \in [Memory -> Word] /\ \A a \in Memory : m2[a] = IF a = area + 2 THEN far ELSE m1[a]
    BY <1>1, <2>4, <2>5, WordStored
  <2>8. NextOf(m2, area) = far
    BY <1>1, <2>7 DEF NextOf
  <2>9. /\ m3 \in [Memory -> Word]
        /\ \A a \in Memory : m3[a] = IF far # NULL /\ a = far + 3 THEN area ELSE m2[a]
    BY <2>4, <2>7, WordStored
  <2>10. m1 = [m EXCEPT ![area + 1] = Wrap(@ + BLOCKSIZE + Size(m, NextOf(m, area)))]
    BY <1>1 DEF Size
  <2>11. Absorb(m, area) = m3
    BY <2>6, <2>8, <2>10 DEF Absorb
  <2>12. r = ClearFree(m3, area)
    BY <1>4, <2>11 DEF MergedMemory
  <2> HIDE DEF m1, m2, m3, sum, far, next, r
  <2>13. r \in [Memory -> Word] /\ \A a \in Memory : r[a] = IF a = area THEN NotFree(m3[area]) ELSE m3[a]
    BY <1>2, <2>9, <2>12
  <2>14. \A a \in Memory \ {area} :
            r[a] = CASE far # NULL /\ a = far + 3 -> area
                     [] a = area + 2 /\ ~ (far # NULL /\ a = far + 3) -> far
                     [] a = area + 1 /\ ~ (far # NULL /\ a = far + 3) -> sum
                     [] OTHER -> m[a]
    BY <1>1, <2>4, <2>5, <2>7, <2>9, <2>13
  <2>15. far = NULL \/ far + 3 # area => r[area] = NotFree(m[area])
    BY <1>1, <2>4, <2>5, <2>7, <2>9, <2>13
  <2> QED BY <1>4, <2>1, <2>3, <2>4, <2>13, <2>14, <2>15 DEF sum, far, next, r
<1> QED BY <1>3, <1>4

-----------------------------------------------------------------------------
(***************************************************************************)
(* Types.  An allocation that is under way has a size that may be asked    *)
(* for, and there is still a number free for it.                           *)
(***************************************************************************)
Typed ==
    /\ TypeOK
    /\ IsFiniteSet(live) /\ Cardinality(live) <= MaxLive
    /\ pc = "alloc" => Cardinality(live) < MaxLive /\ req.size \in Sizes

BooksTyped ==
    /\ \A g \in live : g.id \in 1 .. MaxLive /\ g.ptr \in Word /\ g.size \in Sizes
    /\ IsFiniteSet(live) /\ Cardinality(live) <= MaxLive

LEMMA Constants ==
    /\ MaxLive \in Nat \ {0} /\ MaxFrees \in Nat
    /\ Sizes \subseteq Word \ {0} /\ Data \subseteq Word
    /\ \A n \in Sizes : n \in Nat
BY KernelHeapAssumption, Heap DEF Word

LEMMA TypedBooks == ASSUME Typed PROVE BooksTyped
BY DEF Typed, TypeOK, BooksTyped

LEMMA GrantTyped ==
    ASSUME Typed, NEW g \in live
    PROVE  g.ptr \in Word /\ g.ptr \in Nat /\ g.size \in Nat /\ g.size \in Sizes
<1>1. g.ptr \in Word /\ g.size \in Sizes
  BY DEF Typed, TypeOK
<1>2. g.ptr \in Nat
  BY <1>1 DEF Word
<1> QED BY <1>1, <1>2, Constants

(* A client's number is one that no live allocation has. *)
LEMMA FreshId ==
    ASSUME Typed, pc = "alloc"
    PROVE  Min((1 .. MaxLive) \ {g.id : g \in live}) \in 1 .. MaxLive
<1> DEFINE ids == {g.id : g \in live}
<1>1. MaxLive \in Nat
  BY Constants
<1>2. IsFiniteSet(ids) /\ Cardinality(ids) <= Cardinality(live)
  <2> DEFINE f == [g \in live |-> g.id]
  <2>1. f \in Surjection(live, ids)
    BY DEF Surjection
  <2>2. IsFiniteSet(live)
    BY DEF Typed
  <2> HIDE DEF f, ids
  <2> QED BY <2>1, <2>2, FS_Surjection
<1>3. IsFiniteSet(1 .. MaxLive) /\ Cardinality(1 .. MaxLive) = MaxLive
  BY <1>1, FS_Interval
<1>4. Cardinality(ids) < MaxLive /\ Cardinality(live) \in Nat /\ Cardinality(ids) \in Nat
  BY <1>1, <1>2, FS_CardinalityType DEF Typed
<1>5. ~ (1 .. MaxLive \subseteq ids)
  <2>1. SUFFICES ASSUME 1 .. MaxLive \subseteq ids PROVE FALSE
    OBVIOUS
  <2>2. Cardinality(1 .. MaxLive) <= Cardinality(ids)
    BY <1>2, <2>1, FS_Subset
  <2> QED BY <1>1, <1>3, <1>4, <2>2
<1>6. (1 .. MaxLive) \ ids # {} /\ (1 .. MaxLive) \ ids \in SUBSET Nat
  BY <1>5
<1>7. Min((1 .. MaxLive) \ ids) \in (1 .. MaxLive) \ ids
  BY <1>6, LeastId
<1> QED BY <1>7

LEMMA ReturnTyped ==
    ASSUME Typed, pc = "alloc", NEW p \in Word, Return(p)
    PROVE  pc' = "idle" /\ result' = p /\ BooksTyped'
<1> DEFINE id == Min((1 .. MaxLive) \ {g.id : g \in live})
           new == [id |-> id, ptr |-> p, size |-> req.size, align |-> req.align]
<1>1. pc' = "idle" /\ result' = p /\ live' = IF p = NULL THEN live ELSE live \cup {new}
  BY DEF Return
<1>2. id \in 1 .. MaxLive /\ req.size \in Sizes
  BY FreshId DEF Typed
<1> HIDE DEF id
<1>3. new.id \in 1 .. MaxLive /\ new.ptr \in Word /\ new.size \in Sizes
  BY <1>2
<1> HIDE DEF new
<1>4. CASE p = NULL
  BY <1>1, <1>4, TypedBooks DEF BooksTyped
<1>5. CASE p # NULL
  <2>1. IsFiniteSet(live \cup {new}) /\ Cardinality(live \cup {new}) <= Cardinality(live) + 1
    <3>1. IsFiniteSet(live) /\ Cardinality(live) \in Nat
      BY FS_CardinalityType DEF Typed
    <3>2. /\ IsFiniteSet(live \cup {new})
          /\ Cardinality(live \cup {new}) =
                IF new \in live THEN Cardinality(live) ELSE Cardinality(live) + 1
      BY <3>1, FS_AddElement
    <3> QED BY <3>1, <3>2
  <2>2. Cardinality(live) < MaxLive /\ Cardinality(live) \in Nat /\ MaxLive \in Nat
        /\ Cardinality(live \cup {new}) \in Nat
    BY <2>1, FS_CardinalityType, Constants DEF Typed
  <2>3. Cardinality(live \cup {new}) <= MaxLive
    BY <2>1, <2>2
  <2> QED BY <1>1, <1>3, <1>5, <2>1, <2>3, TypedBooks DEF BooksTyped
<1> QED BY <1>1, <1>4, <1>5

(* A client may write, in a memory with types, what has the type of a word. *)
LEMMA BlockStored ==
    ASSUME NEW m \in [Memory -> Word], NEW p \in Word, NEW n \in Nat, NEW F,
           \A i \in 0 .. n - 1 : F[i] \in Word
    PROVE  [a \in Memory |-> IF a \in p .. p + n - 1 THEN F[a - p] ELSE m[a]]
              \in [Memory -> Word]
<1>1. ASSUME NEW a \in Memory, a \in p .. p + n - 1 PROVE a - p \in 0 .. n - 1
  BY <1>1, MemoryOfWords DEF Word
<1> QED BY <1>1

LEMMA KmallocTyped ==
    ASSUME Typed, NEW n \in Sizes, NEW align \in BOOLEAN, kmalloc(n, align)
    PROVE  Typed'
<1>1. start \in Word /\ NULL \in Word
  BY Heap DEF Word, NULL
<1>2. /\ Cardinality(live) < MaxLive /\ pc' = "alloc" /\ t' = start
      /\ req' = [size |-> n, align |-> align, ptr |-> NULL]
      /\ UNCHANGED <<mem, live, result, frees>>
  BY DEF kmalloc
<1>3. TypeOK'
  BY <1>1, <1>2 DEF Typed, TypeOK
<1> QED BY <1>2, <1>3 DEF Typed

LEMMA FreeTyped ==
    ASSUME Typed, kfree_null \/ \E g \in live : kfree(g)
    PROVE  Typed'
<1>1. PICK p \in Word : BeginFree(p) /\ live' \subseteq live
  <2>1. NULL \in Word /\ \A g \in live : g.ptr \in Word
    BY Heap DEF Typed, TypeOK, Word, NULL
  <2> QED BY <2>1 DEF kfree_null, kfree
<1>2. /\ frees < MaxFrees /\ frees' = frees + 1 /\ pc' = "free" /\ t' = start
      /\ req' = [size |-> 0, align |-> FALSE, ptr |-> p]
      /\ UNCHANGED <<mem, result>>
  BY <1>1 DEF BeginFree
<1>3. start \in Word /\ frees' \in 0 .. MaxFrees
  BY <1>2, Heap, Constants DEF Word, Typed, TypeOK
<1>4. IsFiniteSet(live') /\ Cardinality(live') <= MaxLive
  <2>1. IsFiniteSet(live) /\ live' \in SUBSET live
    BY <1>1 DEF Typed
  <2>2. IsFiniteSet(live') /\ Cardinality(live') <= Cardinality(live)
    BY <2>1, FS_Subset
  <2>3. Cardinality(live') \in Nat /\ Cardinality(live) \in Nat /\ MaxLive \in Nat
    BY <2>1, <2>2, FS_CardinalityType, Constants
  <2> QED BY <2>2, <2>3 DEF Typed
<1>5. TypeOK'
  BY <1>1, <1>2, <1>3 DEF Typed, TypeOK
<1> QED BY <1>2, <1>4, <1>5 DEF Typed

LEMMA SplitAndReturnTyped ==
    ASSUME Typed, pc = "alloc", Header(t), NEW size \in Nat, NEW p \in Word,
           SplitAndReturn(size, p)
    PROVE  mem' \in [Memory -> Word] /\ pc' \in {"idle", "wild"} /\ result' \in Word
           /\ BooksTyped'
<1>1. mem \in [Memory -> Word] /\ t \in Word
  BY DEF Typed, TypeOK
<1>2. CASE Return(p) /\ UNCHANGED mem
  BY <1>1, <1>2, ReturnTyped
<1>3. CASE SplitStaysInside(mem, t, size) /\ mem' = Split(mem, t, size) /\ Return(p)
  <2>1. Header(NewArea(t, size))
    BY <1>3 DEF SplitStaysInside
  <2> QED BY <1>1, <1>3, <2>1, ReturnTyped, SplitMemory
<1>4. CASE pc' = "wild" /\ UNCHANGED <<mem, live, result>>
  BY <1>1, <1>4, TypedBooks DEF BooksTyped, Typed, TypeOK
<1> QED BY <1>2, <1>3, <1>4 DEF SplitAndReturn

(* Where an allocation begins, in the area that a request is served from. *)
LEMMA PlacedTyped ==
    ASSUME Typed, Header(t), Suits(t)
    PROVE  /\ DataOf(t) \in Word /\ t \in Memory
           /\ req.align => /\ AlignUp(DataOf(t)) \in Word
                           /\ AlignUp(DataOf(t)) - DataOf(t) \in Nat
<1>1. t \in Word /\ t + 3 < brk /\ t \in Memory
  BY HeaderPlaces DEF Typed, TypeOK, Header
<1>2. DataOf(t) \in Word /\ DataOf(t) \in Nat
  BY <1>1, Heap DEF DataOf, BLOCKSIZE, Word
<1>3. AlignUp(DataOf(t)) \in Nat /\ DataOf(t) <= AlignUp(DataOf(t))
  BY <1>2, AlignUpRounds
<1>4. ASSUME req.align PROVE AlignUp(DataOf(t)) \in Word
  <2>1. Size(mem, t) \in Nat
    <3>1. t + 1 \in Memory
      BY DEF Header
    <3> QED BY <3>1 DEF Typed, TypeOK, Size, Word
  <2>2. Wrap(DataOf(t) + Size(mem, t)) \in Word
    BY <1>2, <2>1, WrapTyped
  <2>3. AlignUp(DataOf(t)) < Wrap(DataOf(t) + Size(mem, t))
    BY <1>4 DEF Suits, PageInside
  <2> QED BY <1>3, <2>2, <2>3, Heap DEF Word
<1> QED BY <1>1, <1>2, <1>3, <1>4

LEMMA AllocTyped == ASSUME Typed, alloc_step PROVE Typed'
<1>1. pc = "alloc" /\ UNCHANGED <<req, frees>> /\ t \in Word /\ NULL \in Word
  BY Heap DEF alloc_step, Typed, TypeOK, Word, NULL
<1>2. CASE t = NULL /\ Return(NULL) /\ UNCHANGED <<mem, t>>
  <2>1. pc' = "idle" /\ result' = NULL /\ BooksTyped'
    BY <1>1, <1>2, ReturnTyped
  <2>2. TypeOK'
    BY <1>1, <1>2, <2>1 DEF Typed, TypeOK, BooksTyped
  <2> QED BY <2>1, <2>2 DEF Typed, BooksTyped
<1>3. CASE pc' = "wild" /\ UNCHANGED <<mem, t, live, result>>
  BY <1>1, <1>3 DEF Typed, TypeOK
<1>4. CASE Header(t) /\ Suits(t) /\ UNCHANGED t
           /\ IF req.align
              THEN SplitAndReturn(AlignUp(DataOf(t)) - DataOf(t), AlignUp(DataOf(t)))
              ELSE SplitAndReturn(req.size, DataOf(t))
  <2>1. req.size \in Nat
    BY <1>1, Constants DEF Typed
  <2>2. /\ mem' \in [Memory -> Word] /\ pc' \in {"idle", "wild"} /\ result' \in Word
        /\ BooksTyped'
    BY <1>1, <1>4, <2>1, PlacedTyped, SplitAndReturnTyped
  <2>3. TypeOK'
    BY <1>1, <1>4, <2>2 DEF Typed, TypeOK, BooksTyped
  <2> QED BY <2>2, <2>3 DEF Typed, BooksTyped
<1>5. CASE Header(t) /\ t' = NextOf(mem, t) /\ UNCHANGED <<mem, pc, live, result>>
  <2>1. t + 2 \in Memory
    BY <1>5 DEF Header
  <2>2. t' \in Word
    BY <1>5, <2>1 DEF NextOf, Typed, TypeOK
  <2>3. TypeOK'
    BY <1>1, <1>5, <2>2 DEF Typed, TypeOK
  <2> QED BY <1>1, <1>5, <2>3 DEF Typed
<1> QED BY <1>2, <1>3, <1>4, <1>5 DEF alloc_step

LEMMA FreeStepTyped == ASSUME Typed, free_step PROVE Typed'
<1>1. pc = "free" /\ UNCHANGED <<mem, req, live, result, frees>>
  BY DEF free_step
<1>2. pc' \in {"free", "idle", "wild", "merge"} /\ t' \in Word
  <2>1. CASE pc' \in {"idle", "wild", "merge"} /\ UNCHANGED t
    BY <2>1 DEF Typed, TypeOK
  <2>2. CASE Header(t) /\ t' = NextOf(mem, t) /\ UNCHANGED pc
    <3>1. t + 2 \in Memory
      BY <2>2 DEF Header
    <3> QED BY <1>1, <2>2, <3>1 DEF NextOf, Typed, TypeOK
  <2> QED BY <2>1, <2>2 DEF free_step
<1>3. TypeOK'
  BY <1>1, <1>2 DEF Typed, TypeOK
<1> QED BY <1>1, <1>2, <1>3 DEF Typed

LEMMA MergeStepTyped == ASSUME Typed, merge_step PROVE Typed'
<1>1. pc = "merge" /\ UNCHANGED <<req, live, result, frees>>
  BY DEF merge_step
<1>2. mem' \in [Memory -> Word] /\ pc' \in {"merge", "idle", "wild"} /\ t' \in Word
  <2>1. CASE pc' = "wild" /\ UNCHANGED <<mem, t>>
    BY <2>1 DEF Typed, TypeOK
  <2>2. CASE /\ Header(t) /\ MergeReadsInside(mem, t) /\ AbsorbStaysInside(mem, t)
             /\ mem' = MergedMemory(mem, t)
             /\ IF t = start THEN pc' = "idle" /\ UNCHANGED t
                             ELSE t' = PrevOf(mem', t) /\ UNCHANGED pc
    <3>1. mem \in [Memory -> Word] /\ t \in Word
      BY DEF Typed, TypeOK
    <3>2. mem' \in [Memory -> Word]
      BY <2>2, <3>1, MergedWords
    <3>3. t + 3 \in Memory
      BY <2>2 DEF Header
    <3> QED BY <1>1, <2>2, <3>1, <3>2, <3>3 DEF PrevOf
  <2> QED BY <2>1, <2>2 DEF merge_step
<1>3. TypeOK'
  BY <1>1, <1>2 DEF Typed, TypeOK
<1> QED BY <1>1, <1>2, <1>3 DEF Typed

LEMMA ClientWriteTyped ==
    ASSUME Typed, NEW g \in live, NEW v \in Data, ClientWrite(g, v) PROVE Typed'
<1>1. pc = "idle" /\ pc' \in {"idle", "wild"} /\ UNCHANGED <<t, req, live, result, frees>>
  BY DEF ClientWrite
<1>2. mem' \in [Memory -> Word]
  BY Constants DEF ClientWrite, Typed, TypeOK
<1>3. TypeOK'
  BY <1>1, <1>2 DEF Typed, TypeOK
<1> QED BY <1>1, <1>3 DEF Typed

(* The directory is made of words, and of this many. *)
LEMMA DirectoryTyped ==
    /\ DirWords \in Nat /\ DirWords > 10 /\ DirWords \in Sizes /\ Tables \in Nat
    /\ KernelTable \in Nat /\ KernelTable >= 4
    /\ \A i \in 0 .. DirWords - 1 : Directory[i] \in Word
<1>1. /\ Tables \in Nat /\ KernelTable \in 4 .. Tables - 1 /\ DirWords \in Sizes
      /\ {TableAt, TablePhys, DirPhys} \subseteq Word
  BY KernelMainAssumption, Heap DEF BLOCKSIZE, Word
<1>2. 0 \in Word
  BY Heap DEF Word
<1> QED BY <1>1, <1>2 DEF DirWords, Directory

LEMMA CloneTyped == ASSUME Typed, kern_page_dir_clone PROVE Typed'
<1>1. pc = "idle" /\ UNCHANGED <<pc, t, req, live, result, frees>>
  BY DEF kern_page_dir_clone
<1>2. mem' = [a \in Memory |-> IF a \in result .. result + DirWords - 1
                               THEN Directory[a - result] ELSE mem[a]]
  BY DEF kern_page_dir_clone
<1>3. mem \in [Memory -> Word] /\ result \in Word
  BY DEF Typed, TypeOK
<1>4. mem' \in [Memory -> Word]
  BY <1>2, <1>3, DirectoryTyped, BlockStored
<1>5. TypeOK'
  BY <1>1, <1>4 DEF Typed, TypeOK
<1> QED BY <1>1, <1>5 DEF Typed

LEMMA InitTyped == MainInit => Typed
<1> SUFFICES ASSUME Init PROVE Typed
  BY DEF MainInit
<1>1. /\ pc = "idle" /\ t = start /\ live = {} /\ result = NULL /\ frees = 0
      /\ req = [size |-> 0, align |-> FALSE, ptr |-> NULL] /\ mem = InitialMemory
  BY DEF Init
<1>2. start \in Word /\ NULL \in Word /\ 0 \in 0 .. MaxFrees /\ 0 \in Word
  BY Heap, Constants DEF Word, NULL
<1>3. mem \in [Memory -> Word]
  <2>1. ALLOC_MAGIC + 1 \in Word /\ (brk - start) - BLOCKSIZE \in Word /\ 0 \in Word
    BY Heap DEF BLOCKSIZE, Word
  <2> QED BY <1>1, <2>1 DEF InitialMemory
<1>4. TypeOK
  BY <1>1, <1>2, <1>3 DEF TypeOK
<1>5. IsFiniteSet(live) /\ Cardinality(live) <= MaxLive
  BY <1>1, FS_EmptySet, Constants
<1> QED BY <1>1, <1>4, <1>5 DEF Typed

LEMMA TypedStep == ASSUME Typed, [MainNext]_mainVars PROVE Typed'
<1>1. CASE UNCHANGED vars
  BY <1>1 DEF vars, Typed, TypeOK
<1>2. CASE page_dir_clone
  BY <1>2, DirectoryTyped, KmallocTyped DEF page_dir_clone
<1>3. CASE kern_page_dir_clone
  BY <1>3, CloneTyped
<1>4. CASE main
  <2>1. CASE \E n \in Sizes, align \in BOOLEAN : kmalloc(n, align)
    BY <2>1, KmallocTyped
  <2>2. CASE kmalloc_no_heap
    <3>1. /\ pc = "idle" /\ pc' = pc /\ result' = NULL /\ NULL \in Word
          /\ UNCHANGED <<mem, t, req, live, frees>>
      BY <2>2, Heap DEF kmalloc_no_heap, Word, NULL
    <3> QED BY <3>1 DEF Typed, TypeOK
  <2>3. CASE kfree_null \/ \E g \in live : kfree(g)
    BY <2>3, FreeTyped
  <2>4. CASE \E g \in live, v \in Data : ClientWrite(g, v)
    BY <2>4, ClientWriteTyped
  <2> QED BY <1>4, <2>1, <2>2, <2>3, <2>4 DEF main, ClientCall, Clients
<1>5. CASE Loops
  BY <1>5, AllocTyped, FreeStepTyped, MergeStepTyped DEF Loops
<1> QED BY <1>1, <1>2, <1>3, <1>4, <1>5 DEF MainNext, HeapLoops, mainVars

(***************************************************************************)
(* Every word of the heap and every address that alloc and free compute is *)
(* a 32-bit number, and a client's record is always one of MaxLive, in     *)
(* whatever way headers and data come to overlap (alloc.c).                *)
(***************************************************************************)
THEOREM HeapStaysTyped == MainSpec => []TypeOK
<1>1. Typed => TypeOK
  BY DEF Typed
<1> QED BY <1>1, InitTyped, TypedStep, PTL DEF MainSpec

-----------------------------------------------------------------------------
(***************************************************************************)
(* Until the first free.  The head keeps its flags, its size, and a link   *)
(* that does not lead back before its data, so that the walk of a request  *)
(* the heap can hold ends where it begins.  Larger requests walk on, into  *)
(* whatever clients have made of the list; one that is not aligned finds   *)
(* no room to split there.                                                 *)
(***************************************************************************)
Placement(g) == IF g.align THEN AlignUp(DataOf(start)) ELSE DataOf(start)

Behind(p) == p >= DataOf(start)

HeadUnchanged ==
    /\ Flags(mem, start) = ALLOC_MAGIC + 1 /\ Size(mem, start) = Capacity
    /\ NextOf(mem, start) = NULL \/ Behind(NextOf(mem, start))

Untouched ==
    frees = 0 =>
        /\ pc \in {"idle", "alloc", "wild"}
        /\ HeadUnchanged
        /\ pc = "alloc" /\ req.size <= Capacity => t = start
        /\ result = NULL \/ Behind(result)
        /\ \A g \in live : Behind(g.ptr) /\ (g.size <= Capacity => g.ptr = Placement(g))

(* No page-aligned request is larger than the whole heap. *)
AlignedFits == req.align => req.size <= Capacity

LEMMA HeadPlace ==
    /\ DataOf(start) = start + 4 /\ Capacity = (brk - start) - 4 /\ Capacity \in Nat
    /\ AlignUp(DataOf(start)) \in Nat /\ start + 4 <= AlignUp(DataOf(start))
    /\ AlignUp(DataOf(start)) < brk /\ start \in Word /\ Header(start)
    /\ {start, start + 1, start + 2, start + 3} \subseteq Memory
    /\ start \in Nat \ {0} /\ brk \in Nat /\ DataOf(start) \in Word
    /\ AlignUp(DataOf(start)) \in Word
<1>1. /\ DataOf(start) = start + 4 /\ DataOf(start) \in Nat
      /\ Capacity = (brk - start) - 4 /\ Capacity \in Nat
  BY Heap DEF DataOf, BLOCKSIZE, Capacity
<1>2. /\ AlignUp(DataOf(start)) \in Nat /\ DataOf(start) <= AlignUp(DataOf(start))
      /\ AlignUp(DataOf(start)) < DataOf(start) + Page
  BY <1>1, AlignUpRounds
<1> QED BY <1>1, <1>2, Heap DEF Header, Memory, Word

(* Fields of the head, as words of the heap. *)
LEMMA HeadFields ==
    ASSUME Typed
    PROVE  /\ mem \in [Memory -> Word] /\ t \in Word
           /\ Flags(mem, start) = mem[start] /\ Size(mem, start) = mem[start + 1]
           /\ NextOf(mem, start) = mem[start + 2]
           /\ mem[start] \in Nat /\ mem[start + 1] \in Nat /\ mem[start + 2] \in Nat
           /\ Flags(mem', start) = mem'[start] /\ Size(mem', start) = mem'[start + 1]
           /\ NextOf(mem', start) = mem'[start + 2]
BY HeadPlace DEF Typed, TypeOK, Flags, Size, NextOf, Word

(* Stores behind the head's header. *)
LEMMA HeadKept ==
    ASSUME Typed, HeadUnchanged,
           \A a \in {start, start + 1, start + 2} : mem'[a] = mem[a]
    PROVE  HeadUnchanged'
BY HeadFields DEF HeadUnchanged, Behind

(* A split of the head itself. *)
LEMMA HeadSplit ==
    ASSUME Typed, HeadUnchanged, NEW gap \in Nat, SplitStaysInside(mem, start, gap),
           mem' = Split(mem, start, gap)
    PROVE  HeadUnchanged'
<1> DEFINE new == NewArea(start, gap)
           next == NextOf(mem, start)
<1>1. Header(new) /\ new = start + 4 + gap /\ new \in Nat /\ next \in Nat
  BY HeadPlace, HeadFields DEF SplitStaysInside, NewArea
<1>2. \A a \in Memory : mem'[a] = IF next # NULL /\ a = next + 3 THEN new
                                  ELSE Carve(mem, start, gap)[a]
  BY <1>1, HeadFields, HeadPlace, SplitMemory
<1>3. /\ Carve(mem, start, gap)[start + 2] = new
      /\ \A a \in Memory : a \notin new .. new + 3 /\ a # start + 2 =>
            Carve(mem, start, gap)[a] = mem[a]
  BY <1>1, HeadFields, HeadPlace, Carved
<1>4. next = NULL \/ next >= start + 4
  BY HeadPlace DEF HeadUnchanged, Behind
<1> HIDE DEF new, next
<1>5. mem'[start] = mem[start] /\ mem'[start + 1] = mem[start + 1] /\ mem'[start + 2] = new
  BY <1>1, <1>2, <1>3, <1>4, HeadPlace
<1> QED BY <1>1, <1>5, HeadFields, HeadPlace DEF HeadUnchanged, Behind

(* The head serves every request that the heap can hold. *)
LEMMA HeadSuits ==
    ASSUME Typed, HeadUnchanged, req.size \in Nat, req.size <= Capacity
    PROVE  Suits(start)
<1>1. LargeEnough(start)
  BY DEF HeadUnchanged, LargeEnough
<1>2. DataOf(start) + Size(mem, start) = brk /\ Wrap(brk) = brk
  BY HeadPlace, Heap, WrapOfWord DEF HeadUnchanged, Word
<1>3. PageInside(start)
  BY <1>2, HeadPlace DEF PageInside
<1> QED BY <1>1, <1>3 DEF Suits

(* What alloc returns becomes a client's, with the size it has asked for. *)
LEMMA Returned ==
    ASSUME NEW p, Return(p)
    PROVE  /\ pc' = "idle" /\ result' = p
           /\ \A g \in live' : g \in live \/ (/\ p # NULL /\ g.ptr = p /\ g.size = req.size
                                              /\ g.align = req.align)
BY DEF Return

LEMMA AllocUntouched ==
    ASSUME Typed, Untouched, AlignedFits, alloc_step PROVE Untouched'
<1> DEFINE Granted(p) == /\ Behind(p)
                         /\ req.size <= Capacity =>
                               p = IF req.align THEN AlignUp(DataOf(start)) ELSE DataOf(start)
<1> SUFFICES ASSUME frees = 0 PROVE Untouched'
  BY DEF Untouched, alloc_step
<1>1. /\ pc = "alloc" /\ UNCHANGED <<req, frees>> /\ HeadUnchanged
      /\ req.size <= Capacity => t = start
      /\ result = NULL \/ Behind(result)
      /\ \A g \in live : Behind(g.ptr) /\ (g.size <= Capacity => g.ptr = Placement(g))
  BY DEF alloc_step, Untouched
<1>2. req.size \in Nat /\ t \in Word /\ t \in Nat /\ mem \in [Memory -> Word]
  <2>1. req.size \in Nat
    BY <1>1, Constants DEF Typed
  <2>2. t \in Nat
    BY HeadFields DEF Word
  <2> QED BY <2>1, <2>2, HeadFields
<1>3. ASSUME NEW p, Return(p), p = NULL \/ Granted(p), HeadUnchanged'
      PROVE  Untouched'
  <2>1. /\ pc' = "idle" /\ result' = p
        /\ \A g \in live' : g \in live \/ (/\ p # NULL /\ g.ptr = p /\ g.size = req.size
                                           /\ g.align = req.align)
    BY <1>3, Returned
  <2>2. \A g \in live' : Behind(g.ptr) /\ (g.size <= Capacity => g.ptr = Placement(g))
    BY <1>1, <1>3, <2>1 DEF Placement
  <2> QED BY <1>1, <1>3, <2>1, <2>2 DEF Untouched
<1>4. CASE t = NULL /\ Return(NULL) /\ UNCHANGED <<mem, t>>
  BY <1>1, <1>3, <1>4 DEF HeadUnchanged
<1>5. CASE pc' = "wild" /\ UNCHANGED <<mem, t, live, result>>
  BY <1>1, <1>5 DEF Untouched, HeadUnchanged
<1>6. CASE Header(t) /\ ~ Suits(t) /\ t' = NextOf(mem, t) /\ UNCHANGED <<mem, pc, live, result>>
  <2>1. ~ (req.size <= Capacity)
    BY <1>1, <1>2, <1>6, HeadSuits
  <2> QED BY <1>1, <1>6, <2>1 DEF Untouched, HeadUnchanged
<1>7. ASSUME Header(t), UNCHANGED t, NEW gap \in Nat, NEW p, SplitAndReturn(gap, p),
             Granted(p), t = start \/ (gap = req.size /\ ~ (req.size <= Capacity))
      PROVE  Untouched'
  <2>1. CASE Return(p) /\ UNCHANGED mem
    BY <1>1, <1>3, <1>7, <2>1 DEF HeadUnchanged
  <2>2. CASE SplitStaysInside(mem, t, gap) /\ mem' = Split(mem, t, gap) /\ Return(p)
    <3>1. Header(NewArea(t, gap)) /\ Header(t)
      BY <1>7, <2>2 DEF SplitStaysInside
    <3>2. NewArea(t, gap) = t + 4 + gap /\ t >= start /\ NewArea(t, gap) < brk
      BY <1>2, <3>1, HeadPlace DEF Header, Memory, NewArea, DataOf, BLOCKSIZE
    <3>3. t = start
      BY <1>2, <1>7, <3>2, HeadPlace
    <3>4. HeadUnchanged'
      BY <1>1, <1>7, <2>2, <3>3, HeadSplit
    <3> QED BY <1>3, <1>7, <2>2, <3>4
  <2>3. CASE pc' = "wild" /\ UNCHANGED <<mem, live, result>>
    BY <1>1, <1>7, <2>3 DEF Untouched, HeadUnchanged
  <2> QED BY <1>7, <2>1, <2>2, <2>3 DEF SplitAndReturn
<1>8. CASE Header(t) /\ Suits(t) /\ UNCHANGED t
           /\ IF req.align
              THEN SplitAndReturn(AlignUp(DataOf(t)) - DataOf(t), AlignUp(DataOf(t)))
              ELSE SplitAndReturn(req.size, DataOf(t))
  <2>1. CASE req.align
    <3>1. t = start
      BY <1>1, <2>1 DEF AlignedFits
    <3>2. Granted(AlignUp(DataOf(start))) /\ AlignUp(DataOf(start)) - DataOf(start) \in Nat
      BY <2>1, HeadPlace DEF Behind
    <3> HIDE DEF Granted
    <3> QED BY <1>7, <1>8, <2>1, <3>1, <3>2
  <2>2. CASE ~ req.align
    <3>1. t >= start /\ DataOf(t) = t + 4
      BY <1>2, <1>8, HeadPlace DEF Header, Memory, DataOf, BLOCKSIZE
    <3>2. Granted(DataOf(t))
      BY <1>1, <1>2, <2>2, <3>1, HeadPlace DEF Behind
    <3>3. t = start \/ ~ (req.size <= Capacity)
      BY <1>1
    <3> HIDE DEF Granted
    <3> QED BY <1>2, <1>7, <1>8, <2>2, <3>2, <3>3
  <2> QED BY <2>1, <2>2
<1> QED BY <1>4, <1>5, <1>6, <1>8 DEF alloc_step

LEMMA ClientsUntouched ==
    ASSUME Typed, Untouched, main PROVE Untouched'
<1>1. CASE \E n \in Sizes, align \in BOOLEAN : kmalloc(n, align)
  BY <1>1 DEF kmalloc, Untouched, HeadUnchanged
<1>2. CASE kmalloc_no_heap
  BY <1>2 DEF kmalloc_no_heap, Untouched, HeadUnchanged
<1>3. CASE kfree_null \/ \E g \in live : kfree(g)
  <2>1. frees' = frees + 1 /\ frees \in Nat
    BY <1>3, Constants DEF kfree_null, kfree, BeginFree, Typed, TypeOK
  <2> QED BY <2>1 DEF Untouched
<1>4. ASSUME NEW g \in live, NEW v \in Data, ClientWrite(g, v) PROVE Untouched'
  <2>1. pc = "idle" /\ pc' \in {"idle", "wild"} /\ UNCHANGED <<t, req, live, result, frees>>
    BY <1>4 DEF ClientWrite
  <2> SUFFICES ASSUME frees = 0 PROVE Untouched'
    BY <2>1 DEF Untouched
  <2>2. g.size \in Nat /\ g.ptr \in Nat /\ Behind(g.ptr) /\ HeadUnchanged
    BY <2>1, GrantTyped DEF Untouched
  <2>3. \A a \in {start, start + 1, start + 2} : mem'[a] = mem[a]
    BY <1>4, <2>2, HeadPlace, HeadFields DEF ClientWrite, Behind
  <2>4. HeadUnchanged'
    BY <2>2, <2>3, HeadKept
  <2> QED BY <2>1, <2>4 DEF Untouched
<1> QED BY <1>1, <1>2, <1>3, <1>4 DEF main, ClientCall, Clients

LEMMA CloneUntouched ==
    ASSUME Typed, Untouched, kern_page_dir_clone PROVE Untouched'
<1>1. /\ pc = "idle" /\ result # NULL /\ UNCHANGED <<pc, t, req, live, result, frees>>
      /\ mem' = [a \in Memory |-> IF a \in result .. result + DirWords - 1
                                  THEN Directory[a - result] ELSE mem[a]]
  BY DEF kern_page_dir_clone
<1> SUFFICES ASSUME frees = 0 PROVE Untouched'
  BY <1>1 DEF Untouched
<1>2. result \in Nat /\ Behind(result) /\ HeadUnchanged
  BY <1>1 DEF Typed, TypeOK, Untouched, Word
<1>3. \A a \in {start, start + 1, start + 2} : mem'[a] = mem[a]
  BY <1>1, <1>2, HeadPlace, HeadFields DEF Behind
<1>4. HeadUnchanged'
  BY <1>2, <1>3, HeadKept
<1> QED BY <1>1, <1>4 DEF Untouched

LEMMA InitUntouched == MainInit => Untouched
<1> SUFFICES ASSUME Init PROVE Untouched
  BY DEF MainInit
<1>1. pc = "idle" /\ live = {} /\ result = NULL /\ mem = InitialMemory
  BY DEF Init
<1>2. mem[start] = ALLOC_MAGIC + 1 /\ mem[start + 1] = Capacity /\ mem[start + 2] = NULL
  BY <1>1, HeadPlace DEF InitialMemory, Capacity, NULL
<1>3. HeadUnchanged
  BY <1>2 DEF HeadUnchanged, Flags, Size, NextOf
<1> QED BY <1>1, <1>3 DEF Untouched

LEMMA UntouchedStep ==
    ASSUME Typed, Untouched, AlignedFits, [MainNext]_mainVars PROVE Untouched'
<1>1. CASE UNCHANGED vars
  BY <1>1 DEF vars, Untouched, HeadUnchanged
<1>2. CASE page_dir_clone
  BY <1>2 DEF page_dir_clone, kmalloc, Untouched, HeadUnchanged
<1>3. CASE free_step \/ merge_step
  BY <1>3 DEF free_step, merge_step, Untouched
<1> QED BY <1>1, <1>2, <1>3, AllocUntouched, ClientsUntouched, CloneUntouched
        DEF MainNext, HeapLoops, Loops, mainVars

(***************************************************************************)
(* Until the first free, an allocation's place depends on its alignment    *)
(* alone, whatever the heap, the sizes and the stores: every request that  *)
(* the heap can hold is served by the head.  The walks of larger ones are  *)
(* part of this, as long as they are not page-aligned (alloc.c:81-95).     *)
(***************************************************************************)
THEOREM PlacementIsFixed == MainSpec /\ []AlignedFits => []FixedPlacement
<1>1. Untouched => FixedPlacement
  BY DEF Untouched, FixedPlacement, Placement
<1> QED BY <1>1, InitTyped, TypedStep, InitUntouched, UntouchedStep, PTL DEF MainSpec

(***************************************************************************)
(* Until the first free, the head keeps its magic, whatever the clients'   *)
(* sizes and stores, and its size is what alloc_init made it, to the word, *)
(* as long as no page-aligned request is larger than the heap              *)
(* (alloc.c:22-31).                                                        *)
(***************************************************************************)
THEOREM HeadUntilFree ==
    MainSpec /\ []AlignedFits =>
        [](frees = 0 => HasMagic(Flags(mem, start)) /\ Size(mem, start) = Capacity)
<1>1. Untouched => (frees = 0 => HasMagic(Flags(mem, start)) /\ Size(mem, start) = Capacity)
  BY MagicFlags DEF Untouched, HeadUnchanged
<1> QED BY <1>1, InitTyped, TypedStep, InitUntouched, UntouchedStep, PTL DEF MainSpec

(***************************************************************************)
(* A walk that serves a request without alignment that the heap can hold   *)
(* ends at the head for as long as the head's size, which a split leaves   *)
(* and a merge adds to, has not wrapped around (spans).                    *)
(***************************************************************************)
Fitting(size, align) == ~ align /\ size <= Capacity

Unaligned ==
    /\ pc = "alloc" /\ Fitting(req.size, req.align) => t = start
    /\ \A g \in live : Fitting(g.size, g.align) => g.ptr = DataOf(start)

LEMMA UnalignedStep ==
    ASSUME Typed, Unaligned, Size(mem, start) >= Capacity, [MainNext]_mainVars
    PROVE  Unaligned'
<1>1. CASE UNCHANGED <<pc, req, t, live>>
  BY <1>1 DEF Unaligned
<1>2. ASSUME NEW n \in Sizes, NEW align \in BOOLEAN, kmalloc(n, align) PROVE Unaligned'
  BY <1>2 DEF kmalloc, Unaligned
<1>3. CASE kfree_null \/ \E g \in live : kfree(g)
  BY <1>3 DEF kfree_null, kfree, BeginFree, Unaligned
<1>4. CASE \E g \in live, v \in Data : ClientWrite(g, v)
  BY <1>4 DEF ClientWrite, Unaligned
<1>5. CASE free_step \/ merge_step
  BY <1>5 DEF free_step, merge_step, Unaligned
<1>6. CASE alloc_step
  <2>1. pc = "alloc" /\ UNCHANGED req /\ (Fitting(req.size, req.align) => t = start)
    BY <1>6 DEF alloc_step, Unaligned
  <2>2. ASSUME NEW p, Return(p), Fitting(req.size, req.align) => p \in {NULL, DataOf(start)}
        PROVE  Unaligned'
    <3>1. \A g \in live' : g \in live \/ (/\ p # NULL /\ g.ptr = p /\ g.size = req.size
                                          /\ g.align = req.align)
      BY <2>2, Returned
    <3>2. pc' = "idle"
      BY <2>2 DEF Return
    <3> QED BY <2>2, <3>1, <3>2 DEF Unaligned
  <2>3. ASSUME NEW gap, NEW p, SplitAndReturn(gap, p),
               Fitting(req.size, req.align) => p \in {NULL, DataOf(start)}
        PROVE  Unaligned'
    <3>1. CASE Return(p)
      BY <2>2, <2>3, <3>1
    <3>2. CASE pc' = "wild" /\ UNCHANGED live
      BY <3>2 DEF Unaligned
    <3> QED BY <2>3, <3>1, <3>2 DEF SplitAndReturn
  <2>4. CASE Header(t) /\ ~ Suits(t) /\ t' = NextOf(mem, t) /\ UNCHANGED <<mem, pc, live, result>>
    <3>1. ~ Fitting(req.size, req.align)
      <4> SUFFICES ASSUME Fitting(req.size, req.align) PROVE FALSE
        OBVIOUS
      <4>1. t = start /\ ~ req.align /\ req.size <= Capacity /\ req.size \in Nat
        BY <2>1, Constants DEF Fitting, Typed
      <4>2. LargeEnough(start)
        BY <4>1, HeadFields, HeadPlace DEF LargeEnough
      <4> QED BY <2>4, <4>1, <4>2 DEF Suits
    <3> QED BY <2>1, <2>4, <3>1 DEF Unaligned
  <2>5. CASE Return(NULL)
    BY <2>2, <2>5
  <2>6. CASE pc' = "wild" /\ UNCHANGED live
    BY <2>6 DEF Unaligned
  <2>7. CASE IF req.align
             THEN SplitAndReturn(AlignUp(DataOf(t)) - DataOf(t), AlignUp(DataOf(t)))
             ELSE SplitAndReturn(req.size, DataOf(t))
    BY <2>1, <2>3, <2>7 DEF Fitting
  <2> QED BY <1>6, <2>4, <2>5, <2>6, <2>7 DEF alloc_step
<1>7. CASE page_dir_clone
  BY <1>2, <1>7, DirectoryTyped DEF page_dir_clone
<1>8. CASE kern_page_dir_clone
  BY <1>1, <1>8 DEF kern_page_dir_clone
<1>9. CASE main
  BY <1>1, <1>2, <1>3, <1>4, <1>9 DEF main, ClientCall, Clients, kmalloc_no_heap
<1>10. CASE UNCHANGED mainVars
  BY <1>1, <1>10 DEF mainVars, vars
<1> QED BY <1>5, <1>6, <1>7, <1>8, <1>9, <1>10 DEF MainNext, HeapLoops, Loops

(***************************************************************************)
(* The record of the head's size says what it is to say: it is kept by     *)
(* every step.                                                             *)
(***************************************************************************)
Spanned == spans => Size(mem, start) >= Capacity /\ Unaligned

LEMMA SpannedStep == ASSUME Typed, Spanned, [MainNext]_mainVars PROVE Spanned'
<1> SUFFICES ASSUME spans' PROVE (Size(mem, start) >= Capacity /\ Unaligned)'
  BY DEF Spanned
<1>1. CASE UNCHANGED mainVars
  <2>1. UNCHANGED <<mem, pc, req, t, live, spans>>
    BY <1>1 DEF mainVars, vars
  <2> QED BY <2>1 DEF Spanned, Unaligned, Size, Capacity
<1>2. CASE MainNext
  <2>1. spans' = (spans /\ HeadSpans(mem'))
    BY <1>2 DEF MainNext, page_dir_clone, kern_page_dir_clone, main, HeapLoops, KeepSpans
  <2>2. spans /\ (Size(mem, start) >= Capacity)'
    BY <2>1 DEF HeadSpans, Size, Capacity
  <2>3. Unaligned'
    BY <2>2, UnalignedStep DEF Spanned
  <2> QED BY <2>2, <2>3
<1> QED BY <1>1, <1>2

(***************************************************************************)
(* An allocation without alignment lies in the heap from its first word to *)
(* its last, frees and overwritten headers included, as long as the sum    *)
(* that a merge stores in the head's size does not wrap (alloc.c:62, 92).  *)
(***************************************************************************)
THEOREM UnalignedInHeap == MainSpec => []UnalignedStaysInHeap
<1>1. MainInit => Spanned
  BY HeadPlace DEF MainInit, Init, Spanned, Unaligned, InitialMemory, Size, Capacity
<1>2. Typed /\ Spanned => UnalignedStaysInHeap
  <2> SUFFICES ASSUME Typed, Unaligned, NEW g \in live, ~ g.align, g.size <= Capacity
               PROVE  g.ptr .. g.ptr + g.size - 1 \subseteq Memory
    BY DEF UnalignedStaysInHeap, Spanned
  <2>1. g.ptr = DataOf(start) /\ g.size \in Nat
    BY GrantTyped DEF Unaligned, Fitting
  <2> QED BY <2>1, HeadPlace DEF Memory
<1> QED BY <1>1, <1>2, InitTyped, TypedStep, SpannedStep, PTL DEF MainSpec

-----------------------------------------------------------------------------
(***************************************************************************)
(* The directory under main.  As long as every request is for a word, as   *)
(* main's are, there are but two places where a header can come to lie     *)
(* behind the head's, and clients store into neither's links: the list     *)
(* never leads anywhere else.  Every free at most doubles the head's size; *)
(* H bounds it, and no merge wraps as long as H fits the address space.    *)
(***************************************************************************)
WordArea == NewArea(start, 1)
DirAt == AlignUp(DataOf(start))
Links == {NULL, WordArea, DirAt}

HeapFits(H) ==
    /\ H \in [0 .. MaxFrees -> Nat] /\ H[0] = brk - start
    /\ \A n \in 0 .. MaxFrees - 1 : H[n + 1] = 2 * H[n]
    /\ \A n \in 0 .. MaxFrees : start + H[n] < WordMod

(* The frees whose merge is over. *)
Merged == IF pc \in {"free", "merge"} THEN frees - 1 ELSE frees

Chain ==
    /\ mem[start] \in {ALLOC_MAGIC, ALLOC_MAGIC + 1}
    /\ \A a \in {start, WordArea, DirAt} : mem[a + 2] \in Links
    /\ \A a \in {WordArea, DirAt} : mem[a + 1] <= mem[start + 1]
    /\ mem[start + 1] >= Capacity

Sized(H) ==
    /\ pc \in {"free", "merge"} => frees > 0
    /\ mem[start + 1] + BLOCKSIZE <= H[Merged]

Requests ==
    /\ pc = "alloc" => t = start /\ (req.size = 1 \/ (req.align /\ req.size = DirWords))
    /\ pc = "free" => /\ req.ptr \in {NULL, DataOf(start), DirAt}
                      /\ t \in Links \cup {start} /\ (req.ptr # NULL => t = start)
    /\ pc = "merge" => t = start
    /\ \A g \in live : g.ptr = Placement(g) /\ g.size \in {1, DirWords}

Written ==
    \A i \in BLOCKSIZE .. DirWords - 1 : mem[curr_page_dir + i] = Directory[i]

Stages ==
    /\ stage = "cloning" => /\ pc \in {"alloc", "idle", "wild"} /\ (pc = "alloc" => req.align)
                            /\ pc = "idle" => result \in {NULL, DirAt}
    /\ stage = "running" => curr_page_dir = DirAt /\ Written

Ints(H) == ints_only => Chain /\ Sized(H) /\ Requests /\ Stages

Grows == mem'[start + 1] >= mem[start + 1]

LEMMA Places ==
    /\ WordArea = start + 5 /\ DirAt = start + Page /\ Page > 8 /\ Page \in Nat /\ start \in Nat \ {0}
    /\ DirAt + DirWords < brk /\ NULL = 0 /\ DataOf(start) = start + 4 /\ brk \in Nat
    /\ DirWords <= Capacity /\ Capacity \in Nat /\ Capacity = (brk - start) - 4
    /\ {DirAt, WordArea, start} \subseteq Nat
    /\ \A a \in {start, WordArea, DirAt} : {a, a + 1, a + 2, a + 3} \subseteq Memory
    /\ \A i \in 0 .. DirWords - 1 : DirAt + i \in Memory
<1>1. /\ Page > 8 /\ Page \in Nat \ {0} /\ AlignUp(start + 4) + DirWords < brk
      /\ start \in Nat \ {0} /\ start % Page = 0 /\ brk \in Nat /\ DirWords \in Nat /\ DirWords > 10
  BY Heap, KernelMainAssumption, DirectoryTyped DEF BLOCKSIZE
<1>2. (start + 4) % Page = 4
  BY <1>1
<1>3. DataOf(start) = start + 4 /\ AlignUp(start + 4) = start + Page
  BY <1>1, <1>2 DEF DataOf, BLOCKSIZE, AlignUp
<1>4. WordArea = start + 5 /\ DirAt = start + Page
  BY <1>1, <1>3 DEF WordArea, NewArea, DirAt
<1> QED BY <1>1, <1>3, <1>4, HeadPlace DEF Memory, NULL

(* The words that the invariant speaks of. *)
LEMMA ChainWords ==
    ASSUME Typed
    PROVE  /\ mem \in [Memory -> Word]
           /\ \A a \in Memory : mem[a] \in Nat
           /\ \A a \in {start, WordArea, DirAt} :
                 /\ mem[a] \in Nat /\ mem[a + 1] \in Nat /\ mem[a + 2] \in Nat
                 /\ mem[a + 1] \in Word
<1>1. mem \in [Memory -> Word] /\ \A w \in Word : w \in Nat
  BY DEF Typed, TypeOK, Word
<1> QED BY <1>1, Places

(* The end of the head's area is an address: nothing has wrapped.          *)
LEMMA HeadEnds ==
    ASSUME NEW H, HeapFits(H), Typed, Chain, Sized(H)
    PROVE  /\ Merged \in 0 .. MaxFrees /\ H[Merged] \in Nat
           /\ start + 4 + mem[start + 1] < WordMod /\ mem[start + 1] \in Nat
           /\ brk <= start + 4 + mem[start + 1]
           /\ Wrap(DataOf(start) + Size(mem, start)) = start + 4 + mem[start + 1]
<1>1. frees \in 0 .. MaxFrees /\ MaxFrees \in Nat
  BY Constants DEF Typed, TypeOK
<1>2. Merged \in 0 .. MaxFrees
  BY <1>1 DEF Merged, Sized
<1>3. H[Merged] \in Nat /\ start + H[Merged] < WordMod
  BY <1>2 DEF HeapFits
<1>4. mem[start + 1] \in Nat /\ mem[start + 1] + 4 <= H[Merged] /\ mem[start + 1] >= Capacity
  BY ChainWords DEF Chain, Sized, BLOCKSIZE
<1>5. start + 4 + mem[start + 1] < WordMod /\ brk <= start + 4 + mem[start + 1]
  BY <1>3, <1>4, Places, Heap
<1>6. start + 4 + mem[start + 1] \in Word
  BY <1>4, <1>5, Places, Heap DEF Word
<1> QED BY <1>2, <1>3, <1>4, <1>5, <1>6, Places, WrapOfWord DEF Size

(* A split of the head for a word, or for the directory's gap. *)
LEMMA ChainSplit ==
    ASSUME NEW H, HeapFits(H), Typed, Chain, Sized(H), NEW gap \in Nat,
           NewArea(start, gap) \in {WordArea, DirAt}, Breaks(mem, start, gap),
           SplitStaysInside(mem, start, gap), mem' = Split(mem, start, gap)
    PROVE  /\ Chain' /\ mem'[start + 1] = mem[start + 1]
           /\ \A i \in BLOCKSIZE .. DirWords - 1 : mem'[DirAt + i] = mem[DirAt + i]
<1> DEFINE new == NewArea(start, gap)
           next == mem[start + 2]
           c == Carve(mem, start, gap)
<1>1. /\ new = start + 4 + gap /\ Header(new) /\ new \in {WordArea, DirAt}
      /\ next \in Links /\ NextOf(mem, start) = next /\ Size(mem, start) = mem[start + 1]
  BY Places DEF SplitStaysInside, NewArea, Chain, NextOf, Size
<1>2. \A a \in Memory : mem'[a] = IF next # NULL /\ a = next + 3 THEN new ELSE c[a]
  BY <1>1, ChainWords, HeadPlace, SplitMemory
<1>3. /\ c[new + 1] = Wrap(mem[start + 1] - gap - BLOCKSIZE)
      /\ c[new + 2] = next /\ c[start + 2] = new
      /\ \A a \in Memory : a \notin new .. new + 3 /\ a # start + 2 => c[a] = mem[a]
  BY <1>1, ChainWords, HeadPlace, Carved
<1>4. c[new + 1] = mem[start + 1] - gap - 4 /\ c[new + 1] <= mem[start + 1]
  <2>1. mem[start + 1] \in Word /\ mem[start + 1] \in Nat
    BY ChainWords
  <2>2. gap + 5 \in Word
    BY <1>1, Places, Heap, DirectoryTyped DEF Word
  <2>3. mem[start + 1] >= gap + 5
    BY <1>1, <2>2, WrapOfWord DEF Breaks, BLOCKSIZE, Slack
  <2>4. mem[start + 1] - gap - 4 \in Word
    BY <2>1, <2>3, Heap DEF Word
  <2> QED BY <1>3, <2>1, <2>3, <2>4, WrapOfWord DEF BLOCKSIZE
<1> HIDE DEF new, next, c
<1>5. /\ mem'[start] = mem[start] /\ mem'[start + 1] = mem[start + 1] /\ mem'[start + 2] = new
      /\ mem'[new + 1] = c[new + 1] /\ mem'[new + 2] = next
      /\ \A a \in {WordArea, DirAt} : a # new => mem'[a + 1] = mem[a + 1] /\ mem'[a + 2] = mem[a + 2]
  <2>1. next \in {0, start + 5, start + Page} /\ new \in {start + 5, start + Page}
    BY <1>1, Places DEF Links
  <2> QED BY <1>2, <1>3, <2>1, Places
<1>6. Chain'
  <2>1. \A a \in {start, WordArea, DirAt} : mem'[a + 2] \in Links
    BY <1>1, <1>5, Places DEF Chain, Links
  <2>2. \A a \in {WordArea, DirAt} : mem'[a + 1] <= mem'[start + 1]
    BY <1>1, <1>4, <1>5 DEF Chain
  <2> QED BY <1>5, <2>1, <2>2 DEF Chain, Links, WordArea, DirAt
<1>7. ASSUME NEW i \in BLOCKSIZE .. DirWords - 1 PROVE mem'[DirAt + i] = mem[DirAt + i]
  <2>1. next \in {0, start + 5, start + Page} /\ new \in {start + 5, start + Page}
    BY <1>1, Places DEF Links
  <2>2. DirAt + i \in Memory /\ i \in Int /\ i >= 4
    BY <1>7, Places, DirectoryTyped DEF BLOCKSIZE
  <2> QED BY <1>2, <1>3, <2>1, <2>2, Places
<1> QED BY <1>5, <1>6, <1>7

(* The merge of the head with what comes behind it, if that is free. *)
LEMMA ChainMerge ==
    ASSUME NEW H, HeapFits(H), Typed, Chain, Sized(H), pc = "merge",
           MergeReadsInside(mem, start), AbsorbStaysInside(mem, start),
           mem' = MergedMemory(mem, start)
    PROVE  /\ Chain' /\ Grows /\ mem'[start + 1] + BLOCKSIZE <= H[frees]
           /\ \A i \in BLOCKSIZE .. DirWords - 1 : mem'[DirAt + i] = mem[DirAt + i]
<1> DEFINE next == mem[start + 2]
           sum == Wrap(mem[start + 1] + BLOCKSIZE + mem[next + 1])
           far == mem[next + 2]
<1>1. /\ NextOf(mem, start) = next /\ next \in Links /\ Size(mem, start) = mem[start + 1]
      /\ Size(mem, next) = mem[next + 1] /\ Header(start) /\ start \in Word
      /\ mem \in [Memory -> Word]
  BY HeadPlace, ChainWords DEF NextOf, Size, Chain
<1>2. /\ frees \in 1 .. MaxFrees /\ Merged = frees - 1 /\ H[frees] = 2 * H[frees - 1]
      /\ H[frees - 1] \in Nat /\ start + H[frees] < WordMod
  <2>1. frees \in 0 .. MaxFrees /\ frees > 0 /\ MaxFrees \in Nat
    BY Constants DEF Typed, TypeOK, Sized
  <2>2. frees - 1 \in 0 .. MaxFrees - 1 /\ frees - 1 \in 0 .. MaxFrees /\ frees = (frees - 1) + 1
    BY <2>1
  <2> QED BY <2>1, <2>2 DEF Merged, HeapFits
<1>3. mem[start + 1] + 4 <= H[frees - 1] /\ mem[start + 1] \in Nat
  BY <1>2, ChainWords DEF Sized, BLOCKSIZE
<1>4. NotFree(mem[start]) = ALLOC_MAGIC
  BY MagicFlags DEF Chain
<1>5. CASE ~ MergesNext(mem, start)
  <2>1. \A a \in Memory : mem'[a] = IF a = start THEN ALLOC_MAGIC ELSE mem[a]
    BY <1>1, <1>4, <1>5, MergedWords
  <2>2. mem'[start + 1] = mem[start + 1] /\ mem'[start + 2] = mem[start + 2]
        /\ mem'[start] = ALLOC_MAGIC
        /\ \A a \in {WordArea, DirAt} : mem'[a + 1] = mem[a + 1] /\ mem'[a + 2] = mem[a + 2]
    BY <2>1, Places
  <2>3. Chain'
    BY <2>2 DEF Chain, Links, WordArea, DirAt
  <2>4. \A i \in BLOCKSIZE .. DirWords - 1 : mem'[DirAt + i] = mem[DirAt + i]
    BY <2>1, Places, DirectoryTyped DEF BLOCKSIZE
  <2> QED BY <1>2, <1>3, <2>2, <2>3, <2>4 DEF Grows, BLOCKSIZE
<1>6. CASE MergesNext(mem, start)
  <2>1. next \in {WordArea, DirAt} /\ next # NULL
    BY <1>1, <1>6 DEF MergesNext, Links
  <2>2. next + 2 # start + 1 /\ far \in Links /\ mem[next + 1] \in Nat
        /\ mem[next + 1] <= mem[start + 1]
    BY <2>1, Places, ChainWords DEF Chain
  <2>3. sum = mem[start + 1] + 4 + mem[next + 1]
    <3>1. mem[start + 1] + 4 + mem[next + 1] \in Word
      BY <1>2, <1>3, <2>2, Heap DEF Word
    <3> QED BY <3>1, WrapOfWord DEF BLOCKSIZE
  <2>4. /\ \A a \in Memory \ {start} :
              mem'[a] = CASE far # NULL /\ a = far + 3 -> start
                          [] a = start + 2 /\ ~ (far # NULL /\ a = far + 3) -> far
                          [] a = start + 1 /\ ~ (far # NULL /\ a = far + 3) -> sum
                          [] OTHER -> mem[a]
        /\ far = NULL \/ far + 3 # start => mem'[start] = ALLOC_MAGIC
    BY <1>1, <1>4, <1>6, <2>2, MergedWords
  <2>5. far \in {0, start + 5, start + Page}
    BY <2>2, Places DEF Links
  <2> HIDE DEF sum, far, next
  <2>6. /\ mem'[start] = ALLOC_MAGIC /\ mem'[start + 1] = sum /\ mem'[start + 2] = far
        /\ \A a \in {WordArea, DirAt} : mem'[a + 1] = mem[a + 1] /\ mem'[a + 2] = mem[a + 2]
    <3>1. mem'[start] = ALLOC_MAGIC
      BY <2>4, <2>5, Places
    <3>2. {start + 1, start + 2} \subseteq Memory \ {start}
      BY Places
    <3>3. mem'[start + 1] = sum /\ mem'[start + 2] = far
      BY <2>4, <2>5, <3>2, Places
    <3>4. ASSUME NEW a \in {WordArea, DirAt}
          PROVE  mem'[a + 1] = mem[a + 1] /\ mem'[a + 2] = mem[a + 2]
      <4>1. {a + 1, a + 2} \subseteq Memory \ {start} /\ a \in {start + 5, start + Page}
        BY <3>4, Places
      <4> QED BY <2>4, <2>5, <4>1, Places
    <3> QED BY <3>1, <3>3, <3>4
  <2>7. ASSUME NEW i \in BLOCKSIZE .. DirWords - 1 PROVE mem'[DirAt + i] = mem[DirAt + i]
    <3>1. DirAt + i \in Memory /\ i \in Int /\ i >= 4
      BY <2>7, Places, DirectoryTyped DEF BLOCKSIZE
    <3> QED BY <2>4, <2>5, <3>1, Places
  <2>8. sum >= mem[start + 1] /\ sum + 4 <= H[frees] /\ sum \in Nat
    BY <1>2, <1>3, <2>2, <2>3
  <2>9. Chain'
    <3>1. \A a \in {WordArea, DirAt} : mem'[a + 1] <= mem'[start + 1]
      BY <1>3, <2>6, <2>8, ChainWords DEF Chain
    <3>2. mem'[start + 1] >= Capacity
      BY <1>3, <2>6, <2>8, Places DEF Chain
    <3> QED BY <2>2, <2>6, <3>1, <3>2 DEF Chain, Links, WordArea, DirAt
  <2> QED BY <2>6, <2>7, <2>8, <2>9 DEF Grows, BLOCKSIZE
<1> QED BY <1>5, <1>6

(* A step that leaves these words alone. *)
LEMMA ChainKept ==
    ASSUME Chain, \A a \in {start, WordArea, DirAt} :
                     mem'[a + 1] = mem[a + 1] /\ mem'[a + 2] = mem[a + 2],
           mem'[start] = mem[start]
    PROVE  Chain' /\ mem'[start + 1] = mem[start + 1]
BY DEF Chain, Links, WordArea, DirAt

LEMMA IntsAlloc ==
    ASSUME NEW H, HeapFits(H), Typed, Ints(H), ints_only, alloc_step,
           UNCHANGED <<stage, curr_page_dir, ints_only>>
    PROVE  Ints(H)' /\ (Grows \/ UNCHANGED mem)
<1>1. /\ pc = "alloc" /\ UNCHANGED <<req, frees>> /\ t = start
      /\ req.size = 1 \/ (req.align /\ req.size = DirWords)
      /\ Chain /\ Sized(H) /\ Requests /\ Stages
  BY DEF alloc_step, Ints, Requests
<1>2. Suits(start) /\ Header(start) /\ start # NULL
  <2>1. req.size <= Capacity /\ req.size \in Nat
    BY <1>1, Places, DirectoryTyped
  <2>2. LargeEnough(start)
    BY <1>1, <2>1, ChainWords, Places DEF Chain, LargeEnough, Size
  <2>3. PageInside(start)
    <3>1. /\ Wrap(DataOf(start) + Size(mem, start)) = start + 4 + mem[start + 1]
          /\ brk <= start + 4 + mem[start + 1] /\ mem[start + 1] \in Nat
      BY <1>1, HeadEnds
    <3> QED BY <3>1, HeadPlace DEF PageInside
  <2> QED BY <2>2, <2>3, HeadPlace DEF Suits, NULL
<1>3. ASSUME NEW gap \in Nat, NewArea(start, gap) \in {WordArea, DirAt},
             NEW p, p = IF req.align THEN DirAt ELSE DataOf(start), SplitAndReturn(gap, p)
      PROVE  Ints(H)' /\ (Grows \/ UNCHANGED mem)
  <2>1. CASE pc' = "wild" /\ UNCHANGED <<mem, live, result>>
    BY <1>1, <2>1 DEF Ints, Chain, Sized, Merged, Requests, Stages, Written
  <2>2. ASSUME Return(p), Chain', mem'[start + 1] = mem[start + 1],
               \A i \in BLOCKSIZE .. DirWords - 1 : mem'[DirAt + i] = mem[DirAt + i]
        PROVE  Ints(H)'
    <3>1. /\ pc' = "idle" /\ result' = p
          /\ \A g \in live' : g \in live \/ (/\ p # NULL /\ g.ptr = p /\ g.size = req.size
                                             /\ g.align = req.align)
      BY <2>2, Returned
    <3>2. Sized(H)'
      BY <1>1, <2>2, <3>1 DEF Sized, Merged
    <3>3. \A g \in live' : g.ptr = Placement(g) /\ g.size \in {1, DirWords}
      BY <1>1, <1>3, <3>1 DEF Requests, Placement, DirAt
    <3>4. Requests'
      BY <3>1, <3>3 DEF Requests, Placement
    <3>5. Stages'
      BY <1>1, <1>3, <2>2, <3>1 DEF Stages, Written
    <3> QED BY <2>2, <3>2, <3>4, <3>5 DEF Ints
  <2>3. CASE UNCHANGED mem /\ Return(p)
    <3>1. Chain'
      BY <1>1, <2>3 DEF Chain
    <3> QED BY <2>2, <2>3, <3>1
  <2>4. CASE /\ Breaks(mem, t, gap) /\ SplitStaysInside(mem, t, gap)
             /\ mem' = Split(mem, t, gap) /\ Return(p)
    <3>1. /\ Chain' /\ mem'[start + 1] = mem[start + 1]
          /\ \A i \in BLOCKSIZE .. DirWords - 1 : mem'[DirAt + i] = mem[DirAt + i]
      BY <1>1, <1>3, <2>4, ChainSplit
    <3> QED BY <2>2, <2>4, <3>1, ChainWords DEF Grows
  <2> QED BY <1>1, <1>3, <2>1, <2>3, <2>4 DEF SplitAndReturn
<1>4. CASE req.align /\ SplitAndReturn(AlignUp(DataOf(t)) - DataOf(t), AlignUp(DataOf(t)))
  <2>1. /\ DirAt - DataOf(start) \in Nat /\ NewArea(start, DirAt - DataOf(start)) = DirAt
        /\ SplitAndReturn(DirAt - DataOf(start), DirAt)
    BY <1>1, <1>4, Places DEF NewArea, DirAt
  <2> QED BY <1>3, <1>4, <2>1
<1>5. CASE ~ req.align /\ SplitAndReturn(req.size, DataOf(t))
  BY <1>1, <1>3, <1>5 DEF WordArea
<1>6. CASE pc' = "wild" /\ UNCHANGED <<mem, t, live, result>>
  BY <1>1, <1>6 DEF Ints, Chain, Sized, Merged, Requests, Stages, Written
<1> QED BY <1>1, <1>2, <1>4, <1>5, <1>6 DEF alloc_step

LEMMA IntsFree ==
    ASSUME NEW H, HeapFits(H), Typed, Ints(H), ints_only, free_step,
           UNCHANGED <<stage, curr_page_dir, ints_only>>
    PROVE  Ints(H)'
<1>1. /\ pc = "free" /\ UNCHANGED <<mem, req, live, result, frees>> /\ Chain /\ Sized(H)
      /\ Requests /\ Stages
      /\ req.ptr \in {NULL, DataOf(start), DirAt} /\ t \in Links \cup {start}
      /\ req.ptr # NULL => t = start
  BY DEF free_step, Ints, Requests
<1>2. frees \in 1 .. MaxFrees /\ mem[start + 1] + BLOCKSIZE <= H[frees - 1]
      /\ H[frees - 1] <= H[frees] /\ H[frees] \in Nat /\ H[frees - 1] \in Nat
      /\ mem[start + 1] \in Nat
  <2>1. frees \in 0 .. MaxFrees /\ frees > 0 /\ MaxFrees \in Nat /\ Merged = frees - 1
    BY <1>1, Constants DEF Typed, TypeOK, Sized, Merged
  <2>2. frees - 1 \in 0 .. MaxFrees - 1 /\ frees - 1 \in 0 .. MaxFrees /\ frees = (frees - 1) + 1
    BY <2>1
  <2>3. H[frees] = 2 * H[frees - 1] /\ H[frees - 1] \in Nat
    BY <2>2 DEF HeapFits
  <2> QED BY <1>1, <2>1, <2>3, ChainWords DEF Sized
<1>3. ASSUME pc' \in {"idle", "wild"} PROVE Ints(H)'
  <2>1. Sized(H)'
    BY <1>1, <1>2, <1>3 DEF Sized, Merged, BLOCKSIZE
  <2>2. Chain' /\ Requests' /\ Stages'
    BY <1>1, <1>3 DEF Chain, Requests, Stages, Written
  <2> QED BY <2>1, <2>2 DEF Ints
<1>4. ASSUME UNCHANGED t, pc' = "merge", t = start PROVE Ints(H)'
  <2>1. Sized(H)'
    BY <1>1, <1>4 DEF Sized, Merged
  <2>2. Chain' /\ Requests' /\ Stages'
    BY <1>1, <1>4 DEF Chain, Requests, Stages, Written
  <2> QED BY <2>1, <2>2 DEF Ints
<1>5. CASE Header(t) /\ Contains(t, req.ptr) /\ UNCHANGED t
           /\ pc' = IF HasMagic(Flags(mem, t)) THEN "merge" ELSE "idle"
  <2>1. t = start
    <3>1. t \in Nat /\ DataOf(t) = t + 4 /\ req.ptr >= DataOf(t)
      BY <1>1, <1>5, Places DEF Contains, DataOf, BLOCKSIZE, Links
    <3> QED BY <1>1, <3>1, Places
  <2> QED BY <1>3, <1>4, <1>5, <2>1
<1>6. CASE Header(t) /\ ~ Contains(t, req.ptr) /\ t' = NextOf(mem, t) /\ UNCHANGED pc
  <2>1. t \in {start, WordArea, DirAt}
    <3>1. ~ Header(NULL)
      BY Places DEF Header, Memory
    <3> QED BY <1>1, <1>6, <3>1 DEF Links
  <2>2. t' \in Links
    BY <1>1, <1>6, <2>1 DEF NextOf, Chain
  <2>3. req.ptr = NULL
    <3> SUFFICES ASSUME req.ptr # NULL PROVE FALSE
      OBVIOUS
    <3>1. t = start /\ req.ptr \in {DataOf(start), DirAt}
      BY <1>1
    <3>2. req.ptr >= DataOf(start) /\ req.ptr < start + 4 + mem[start + 1]
      BY <1>1, <3>1, HeadEnds, HeadPlace DEF DirAt
    <3>3. Contains(start, req.ptr)
      BY <1>1, <3>2, HeadEnds DEF Contains
    <3> QED BY <1>6, <3>1, <3>3
  <2>4. Sized(H)'
    BY <1>1, <1>6 DEF Sized, Merged
  <2>5. Chain' /\ Requests' /\ Stages'
    BY <1>1, <1>6, <2>2, <2>3 DEF Chain, Requests, Stages, Written, Links, WordArea, DirAt
  <2> QED BY <2>4, <2>5 DEF Ints
<1> QED BY <1>1, <1>3, <1>5, <1>6 DEF free_step

LEMMA IntsMerge ==
    ASSUME NEW H, HeapFits(H), Typed, Ints(H), ints_only, merge_step,
           UNCHANGED <<stage, curr_page_dir, ints_only>>
    PROVE  Ints(H)' /\ (Grows \/ UNCHANGED mem)
<1>1. /\ pc = "merge" /\ UNCHANGED <<req, live, result, frees>> /\ t = start
      /\ Chain /\ Sized(H) /\ Requests /\ Stages
  BY DEF merge_step, Ints, Requests
<1>2. ASSUME pc' \in {"idle", "wild"}, Chain', mem'[start + 1] + BLOCKSIZE <= H[frees],
             \A i \in BLOCKSIZE .. DirWords - 1 : mem'[DirAt + i] = mem[DirAt + i]
      PROVE  Ints(H)'
  <2>1. Sized(H)'
    BY <1>1, <1>2 DEF Sized, Merged
  <2>2. Requests' /\ Stages'
    BY <1>1, <1>2 DEF Requests, Stages, Written, Placement
  <2> QED BY <1>2, <2>1, <2>2 DEF Ints
<1>3. CASE /\ MergeReadsInside(mem, t) /\ AbsorbStaysInside(mem, t)
           /\ mem' = MergedMemory(mem, t) /\ pc' = "idle"
  <2>1. /\ Chain' /\ Grows /\ mem'[start + 1] + BLOCKSIZE <= H[frees]
        /\ \A i \in BLOCKSIZE .. DirWords - 1 : mem'[DirAt + i] = mem[DirAt + i]
    BY <1>1, <1>3, ChainMerge
  <2> QED BY <1>2, <1>3, <2>1
<1>4. CASE pc' = "wild" /\ UNCHANGED <<mem, t>>
  <2>1. frees - 1 \in 0 .. MaxFrees - 1 /\ frees - 1 \in 0 .. MaxFrees /\ frees = (frees - 1) + 1
    BY <1>1, Constants DEF Typed, TypeOK, Sized
  <2>2. H[frees] = 2 * H[frees - 1] /\ H[frees - 1] \in Nat
    BY <2>1 DEF HeapFits
  <2>3. mem[start + 1] + BLOCKSIZE <= H[frees]
    BY <1>1, <2>2, ChainWords DEF Sized, Merged, BLOCKSIZE
  <2>4. Chain'
    BY <1>1, <1>4 DEF Chain
  <2> QED BY <1>2, <1>4, <2>3, <2>4
<1> QED BY <1>1, <1>3, <1>4 DEF merge_step

(* A step that neither touches the heap nor is part of an allocation.      *)
LEMMA IntsIdle ==
    ASSUME NEW H, Ints(H), ints_only, pc = "idle", UNCHANGED <<mem, frees, live>>,
           UNCHANGED pc, UNCHANGED <<stage, curr_page_dir>>, stage = "running"
    PROVE  Ints(H)'
<1>1. Chain' /\ Sized(H)' /\ Requests' /\ Stages'
  BY DEF Ints, Chain, Sized, Merged, Requests, Stages, Written
<1> QED BY <1>1 DEF Ints

LEMMA IntsClient ==
    ASSUME NEW H, HeapFits(H), Typed, Ints(H), main, ints_only'
    PROVE  Ints(H)' /\ (Grows \/ UNCHANGED mem)
<1>1. /\ ints_only /\ stage = "running" /\ UNCHANGED <<stage, curr_page_dir>>
      /\ Chain /\ Sized(H) /\ Requests /\ Stages
  BY DEF main, ClientCall, Ints
<1>2. CASE \E align \in BOOLEAN : kmalloc(1, align)
  <2>1. /\ pc = "idle" /\ pc' = "alloc" /\ t' = start /\ req'.size = 1
        /\ UNCHANGED <<mem, live, result, frees>>
    BY <1>2 DEF kmalloc
  <2>2. Chain' /\ Sized(H)' /\ Requests' /\ Stages'
    BY <1>1, <2>1 DEF Chain, Sized, Merged, Requests, Stages, Written
  <2> QED BY <2>1, <2>2 DEF Ints
<1>3. CASE kmalloc_no_heap
  BY <1>1, <1>3, IntsIdle DEF kmalloc_no_heap
<1>4. ASSUME NEW p \in {NULL, DataOf(start), DirAt}, BeginFree(p), live' \subseteq live
      PROVE  Ints(H)'
  <2>1. /\ pc = "idle" /\ pc' = "free" /\ t' = start /\ req'.ptr = p /\ frees' = frees + 1
        /\ UNCHANGED <<mem, result>> /\ frees \in Nat
    BY <1>4, Constants DEF BeginFree, Typed, TypeOK
  <2>2. Sized(H)'
    BY <1>1, <2>1 DEF Sized, Merged
  <2>3. Chain' /\ Requests' /\ Stages'
    BY <1>1, <1>4, <2>1 DEF Chain, Requests, Stages, Written, Placement
  <2> QED BY <2>2, <2>3 DEF Ints
<1>5. CASE kfree_null
  BY <1>4, <1>5 DEF kfree_null, BeginFree
<1>6. ASSUME NEW g \in Clients PROVE g \in live /\ g.size = 1 /\ g.ptr \in {DataOf(start), DirAt}
  BY <1>1, <1>6 DEF Clients, Requests, Placement, DirAt
<1>7. CASE \E g \in Clients : kfree(g)
  BY <1>4, <1>6, <1>7 DEF kfree, BeginFree
<1>8. ASSUME NEW g \in Clients, NEW v \in Data, ClientWrite(g, v)
      PROVE  Ints(H)' /\ (Grows \/ UNCHANGED mem)
  <2>1. pc = "idle" /\ pc' \in {"idle", "wild"} /\ UNCHANGED <<t, req, live, result, frees>>
    BY <1>8 DEF ClientWrite
  <2>2. g.ptr .. g.ptr + g.size - 1 = {g.ptr} /\ g.ptr \in {start + 4, start + Page}
    BY <1>6, <1>8, Places DEF DirAt
  <2>3. \A a \in Memory : a # g.ptr => mem'[a] = mem[a]
    BY <1>8, <2>2, ChainWords DEF ClientWrite
  <2>4. \A a \in {start, WordArea, DirAt} : mem'[a + 1] = mem[a + 1] /\ mem'[a + 2] = mem[a + 2]
    BY <2>2, <2>3, Places
  <2>5. mem'[start] = mem[start]
    BY <2>2, <2>3, Places
  <2>6. Chain' /\ mem'[start + 1] = mem[start + 1]
    BY <1>1, <2>4, <2>5, ChainKept
  <2>7. ASSUME NEW i \in BLOCKSIZE .. DirWords - 1 PROVE mem'[DirAt + i] = mem[DirAt + i]
    <3>1. DirAt + i \in Memory /\ i \in Int /\ i >= 4
      BY <2>7, Places, DirectoryTyped DEF BLOCKSIZE
    <3> QED BY <2>2, <2>3, <3>1, Places
  <2>8. Sized(H)' /\ Requests' /\ Stages'
    BY <1>1, <2>1, <2>6, <2>7 DEF Sized, Merged, Requests, Stages, Written, Placement
  <2> QED BY <2>6, <2>8, ChainWords DEF Ints, Grows
<1>9. CASE \E n \in Sizes \ {DirWords}, align \in BOOLEAN :
              kmalloc(n, align) /\ ints_only' = (ints_only /\ n = 1)
  BY <1>2, <1>9 DEF kmalloc
<1> QED BY <1>3, <1>5, <1>7, <1>8, <1>9 DEF main, ClientCall, kmalloc_no_heap, kfree_null, kfree,
           BeginFree

LEMMA IntsClone ==
    ASSUME NEW H, Typed, Ints(H), ints_only, page_dir_clone \/ kern_page_dir_clone
    PROVE  Ints(H)' /\ (Grows \/ UNCHANGED mem)
<1>1. Chain /\ Sized(H) /\ Requests /\ Stages /\ UNCHANGED ints_only
  BY DEF Ints, page_dir_clone, kern_page_dir_clone
<1>2. CASE page_dir_clone
  <2>1. /\ pc = "idle" /\ pc' = "alloc" /\ t' = start /\ stage' = "cloning"
        /\ req' = [size |-> DirWords, align |-> TRUE, ptr |-> NULL]
        /\ UNCHANGED <<mem, live, result, frees, curr_page_dir, ints_only>>
    BY <1>2 DEF page_dir_clone, kmalloc
  <2>2. Chain' /\ Sized(H)' /\ Requests' /\ Stages'
    BY <1>1, <2>1 DEF Chain, Sized, Merged, Requests, Stages
  <2> QED BY <2>1, <2>2 DEF Ints
<1>3. CASE kern_page_dir_clone
  <2>1. /\ pc = "idle" /\ result = DirAt /\ stage' = "running" /\ curr_page_dir' = DirAt
        /\ UNCHANGED <<pc, t, req, live, result, frees, ints_only>>
        /\ mem' = [a \in Memory |-> IF a \in DirAt .. DirAt + DirWords - 1
                                    THEN Directory[a - DirAt] ELSE mem[a]]
    BY <1>1, <1>3 DEF kern_page_dir_clone, Stages
  <2>2. ASSUME NEW i \in 0 .. DirWords - 1 PROVE mem'[DirAt + i] = Directory[i]
    <3>1. DirAt + i \in Memory /\ DirAt + i \in DirAt .. DirAt + DirWords - 1
          /\ (DirAt + i) - DirAt = i
      BY <2>2, Places, DirectoryTyped
    <3> QED BY <2>1, <3>1
  <2>3. /\ mem'[start] = mem[start]
        /\ \A a \in {start, WordArea} : mem'[a + 1] = mem[a + 1] /\ mem'[a + 2] = mem[a + 2]
    BY <2>1, Places, DirectoryTyped
  <2>4. mem'[DirAt + 1] = 0 /\ mem'[DirAt + 2] = NULL
    <3>1. Directory[1] = 0 /\ Directory[2] = 0
      <4>1. KernelTable \in Nat /\ KernelTable >= 4 /\ Tables \in Nat /\ DirWords > 10
            /\ DirWords \in Nat
        BY DirectoryTyped
      <4> QED BY <4>1 DEF Directory
    <3>2. mem'[DirAt + 1] = Directory[1] /\ mem'[DirAt + 2] = Directory[2]
      BY <2>2, DirectoryTyped
    <3> QED BY <3>1, <3>2 DEF NULL
  <2>5. Chain' /\ mem'[start + 1] = mem[start + 1]
    <3>1. mem[start + 1] \in Nat
      BY ChainWords
    <3>2. \A a \in {start, WordArea, DirAt} : mem'[a + 2] \in Links
      BY <1>1, <2>3, <2>4 DEF Chain, Links
    <3>3. \A a \in {WordArea, DirAt} : mem'[a + 1] <= mem'[start + 1]
      BY <1>1, <2>3, <2>4, <3>1 DEF Chain
    <3> QED BY <1>1, <2>3, <3>2, <3>3 DEF Chain, Links, WordArea, DirAt
  <2>6. Stages'
    BY <2>1, <2>2, Places, DirectoryTyped DEF Stages, Written, BLOCKSIZE
  <2>7. Sized(H)' /\ Requests'
    BY <1>1, <2>1, <2>5 DEF Sized, Merged, Requests, Placement
  <2> QED BY <2>5, <2>6, <2>7, ChainWords DEF Ints, Grows
<1> QED BY <1>2, <1>3

LEMMA InitInts == ASSUME NEW H, HeapFits(H), MainInit PROVE Ints(H)
<1>1. /\ pc = "idle" /\ live = {} /\ mem = InitialMemory /\ stage = "early" /\ frees = 0
  BY DEF MainInit, Init
<1>2. /\ mem[start] = ALLOC_MAGIC + 1 /\ mem[start + 1] = Capacity
      /\ \A a \in Memory : a \notin {start, start + 1} => mem[a] = 0
  BY <1>1, HeadPlace DEF InitialMemory, Capacity
<1>3. Chain
  <2>1. \A a \in {start, WordArea, DirAt} : mem[a + 2] = NULL
    BY <1>2, Places
  <2>2. \A a \in {WordArea, DirAt} : mem[a + 1] = 0
    BY <1>2, Places
  <2> QED BY <1>2, <2>1, <2>2, Places DEF Chain, Links
<1>4. Sized(H)
  BY <1>1, <1>2, Places DEF Sized, Merged, HeapFits, BLOCKSIZE
<1>5. Requests /\ Stages
  BY <1>1, <1>3, <1>4 DEF MainInit, Requests, Stages
<1> QED BY <1>3, <1>4, <1>5 DEF Ints

LEMMA IntsStep ==
    ASSUME NEW H, HeapFits(H), Typed, Ints(H), [MainNext]_mainVars
    PROVE  Ints(H)' /\ (ints_only' => Grows \/ UNCHANGED mem)
<1> SUFFICES ASSUME ints_only' PROVE Ints(H)' /\ (Grows \/ UNCHANGED mem)
  BY DEF Ints
<1>1. ints_only
  BY DEF MainNext, page_dir_clone, kern_page_dir_clone, main, ClientCall, HeapLoops, mainVars
<1>2. CASE UNCHANGED mainVars
  <2>1. UNCHANGED <<mem, pc, t, req, live, result, frees, stage, curr_page_dir, ints_only>>
    BY <1>2 DEF mainVars, vars
  <2>2. Chain' /\ Sized(H)' /\ Requests' /\ Stages'
    BY <1>1, <2>1 DEF Ints, Chain, Sized, Merged, Requests, Stages, Written
  <2> QED BY <2>1, <2>2 DEF Ints
<1>3. CASE page_dir_clone \/ kern_page_dir_clone
  BY <1>1, <1>3, IntsClone
<1>4. CASE main
  BY <1>4, IntsClient
<1>5. CASE HeapLoops
  BY <1>1, <1>5, IntsAlloc, IntsFree, IntsMerge DEF HeapLoops, Loops, free_step
<1> QED BY <1>2, <1>3, <1>4, <1>5 DEF MainNext

(***************************************************************************)
(* The kernel's entry, the physical addresses that the CPU walks and those *)
(* of the directory itself survive main's headers, stores and merges, for  *)
(* as long as every request is for a word: in every heap that, doubled     *)
(* once for every free, still fits the address space (main.c:12-18,        *)
(* alloc.c:62, paging.c:256-283).                                          *)
(***************************************************************************)
THEOREM DirectorySurvives ==
    ASSUME NEW H, HeapFits(H) PROVE MainSpec => []DirectoryHolds
<1>1. Ints(H) => DirectoryHolds
  BY DEF Ints, Stages, Written, DirectoryHolds
<1>2. MainInit => Ints(H)
  BY InitInts
<1>3. Typed /\ Ints(H) /\ [MainNext]_mainVars => Ints(H)'
  BY IntsStep
<1> QED BY <1>1, <1>2, <1>3, InitTyped, TypedStep, PTL DEF MainSpec

(***************************************************************************)
(* Such clients never cost the head its magic, frees included, so that     *)
(* every kfree of theirs passes the test behind the search (alloc.c:112).  *)
(***************************************************************************)
THEOREM IntsKeepTheHead ==
    ASSUME NEW H, HeapFits(H) PROVE MainSpec => []HeadIntact
<1>1. Ints(H) => HeadIntact
  BY MagicFlags, HeadPlace DEF Ints, Chain, HeadIntact, Flags
<1>2. MainInit => Ints(H)
  BY InitInts
<1>3. Typed /\ Ints(H) /\ [MainNext]_mainVars => Ints(H)'
  BY IntsStep
<1> QED BY <1>1, <1>2, <1>3, InitTyped, TypedStep, PTL DEF MainSpec

(***************************************************************************)
(* With such clients no step makes the head's area smaller: the first area *)
(* keeps spanning the whole heap, and serves everybody (alloc.c:33-50).    *)
(***************************************************************************)
THEOREM IntsNeverShrinkIt ==
    ASSUME NEW H, HeapFits(H) PROVE MainSpec => NeverShrinks
<1>1. Typed /\ Ints(H) /\ [MainNext]_mainVars =>
         [ints_only' =>
            \/ Size(mem', start) >= Size(mem, start)
            \/ /\ MergeReadsInside(mem, start) /\ NextOf(mem, start) # NULL
               /\ Size(mem, start) + BLOCKSIZE + Size(mem, NextOf(mem, start)) >= WordMod]_mem
  BY IntsStep DEF Grows, Size
<1>2. MainInit => Ints(H)
  BY InitInts
<1>3. Typed /\ Ints(H) /\ [MainNext]_mainVars => Ints(H)'
  BY IntsStep
<1> QED BY <1>1, <1>2, <1>3, InitTyped, TypedStep, PTL DEF MainSpec, NeverShrinks
=============================================================================
