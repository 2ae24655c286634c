--------------------------- MODULE BootMemProofs ---------------------------
(***************************************************************************)
(* Proofs about the boot-time allocator, for every page size, every set of *)
(* request sizes and every kernel placement that BootMemAssumption allows. *)
(***************************************************************************)
EXTENDS BootMem, TLAPS

(***************************************************************************)
(* Subtracting a multiple of the modulus leaves the remainder alone (a     *)
(* virtual address and its physical one have the same page offset).        *)
(***************************************************************************)
LEMMA ModSubMultiple ==
    ASSUME NEW m \in Nat \ {0}, NEW a \in Int, NEW b \in Int, b % m = 0
    PROVE  (a - b) % m = a % m
<1> DEFINE q == (a \div m) - (b \div m)
           r == a % m
<1>1. a = m * (a \div m) + (a % m) /\ a \div m \in Int /\ r \in 0 .. m - 1
  OBVIOUS
<1>2. b = m * (b \div m) /\ b \div m \in Int
  OBVIOUS
<1>3. q \in Int /\ a - b = m * q + r
  BY <1>1, <1>2
<1> HIDE DEF q, r
<1>4. (m * q + r) % m = r
  BY <1>1, <1>3
<1>5. QED
  BY <1>3, <1>4 DEF r

(***************************************************************************)
(* Rounding as mm.c does it: the result is on a page boundary, at most a   *)
(* page further.                                                           *)
(***************************************************************************)
LEMMA NextPageRounds ==
    ASSUME NEW a \in Int
    PROVE  /\ NextPage(a) \in Int
           /\ NextPage(a) % PAGE = 0
           /\ a < NextPage(a)
           /\ NextPage(a) <= a + PAGE
<1>1. PAGE \in Nat \ {0}
  BY BootMemAssumption
<1>2. a = PAGE * (a \div PAGE) + (a % PAGE) /\ a \div PAGE \in Int /\ a % PAGE \in 0 .. PAGE - 1
  BY <1>1
<1>3. NextPage(a) = PAGE * ((a \div PAGE) + 1) + 0
  BY <1>1, <1>2 DEF NextPage
<1>4. (PAGE * ((a \div PAGE) + 1) + 0) % PAGE = 0
  BY <1>1, <1>2
<1>5. QED
  BY <1>1, <1>2, <1>3, <1>4 DEF NextPage

(***************************************************************************)
(* Rounding is monotone: a cursor that stays below a bound also stays      *)
(* below it after rounding.                                                *)
(***************************************************************************)
LEMMA NextPageMonotone ==
    ASSUME NEW a \in Int, NEW b \in Int, a <= b
    PROVE  NextPage(a) <= NextPage(b)
<1>1. PAGE \in Nat \ {0}
  BY BootMemAssumption
<1>2. a = PAGE * (a \div PAGE) + (a % PAGE) /\ a \div PAGE \in Int /\ a % PAGE \in 0 .. PAGE - 1
  BY <1>1
<1>3. b = PAGE * (b \div PAGE) + (b % PAGE) /\ b \div PAGE \in Int /\ b % PAGE \in 0 .. PAGE - 1
  BY <1>1
<1>4. a \div PAGE <= b \div PAGE
  BY <1>1, <1>2, <1>3
<1>5. PAGE * (a \div PAGE) <= PAGE * (b \div PAGE)
  BY <1>1, <1>2, <1>3, <1>4
<1>6. QED
  BY <1>1, <1>2, <1>3, <1>5 DEF NextPage

(***************************************************************************)
(* Rounding a virtual address and its physical address keeps them apart by *)
(* exactly KERNEL_BASE.                                                    *)
(***************************************************************************)
LEMMA NextPagePhys ==
    ASSUME NEW a \in Int
    PROVE  NextPage(a - KERNEL_BASE) = NextPage(a) - KERNEL_BASE
<1>1. PAGE \in Nat \ {0} /\ KERNEL_BASE \in Int /\ KERNEL_BASE % PAGE = 0
  BY BootMemAssumption
<1>2. (a - KERNEL_BASE) % PAGE = a % PAGE
  BY <1>1, ModSubMultiple
<1>3. a % PAGE \in Int
  BY <1>1
<1>4. QED
  BY <1>1, <1>2, <1>3 DEF NextPage

(***************************************************************************)
(* An address at or above the kernel's base is never in page zero, so the  *)
(* odd rounding guard of the code is true whenever it is evaluated.        *)
(***************************************************************************)
LEMMA NeverInPageZero ==
    ASSUME NEW a \in Int, a >= alloc_start
    PROVE  NotInPageZero(a)
<1>1. PAGE \in Nat \ {0} /\ a >= PAGE
  BY BootMemAssumption
<1>2. a % PAGE \in 0 .. PAGE - 1
  BY <1>1
<1>3. QED
  BY <1>1, <1>2 DEF NotInPageZero

(***************************************************************************)
(* The inductive invariant.  The properties only speak of extents; what    *)
(* keeps them true is that every extent lies below the virtual cursor, and *)
(* that the two cursors are KERNEL_BASE apart.                             *)
(***************************************************************************)
CursorsInStep ==
    stage # "reset" => /\ alloc_current >= alloc_start
                       /\ alloc_current_phys = alloc_current - KERNEL_BASE

RoomLeft == stage = "boot" => NextPage(alloc_current) < KHEAP_END

BelowCursor == \A g \in grants : g.ptr >= 0 /\ g.ptr + g.size <= alloc_current

GrantsDisjoint == \A g, h \in grants : g # h => ~ Implements!Overlap(g, h)

IInv ==
    /\ TypeOK
    /\ stage = "reset" => grants = {}
    /\ CursorsInStep
    /\ RoomLeft
    /\ BelowCursor
    /\ GrantsDisjoint
    /\ HeapClearOfGrants
    /\ PhysMatchesVirt
    /\ AlignedOnPage

-----------------------------------------------------------------------------
LEMMA InitInv == Init => IInv
BY DEF Init, IInv, TypeOK, CursorsInStep, RoomLeft, BelowCursor, GrantsDisjoint,
       HeapClearOfGrants, PhysMatchesVirt, AlignedOnPage

(***************************************************************************)
(* What one call of arch_kmalloc_internal adds: an extent that starts at   *)
(* or after the cursor, ends at the new cursor, has the physical address   *)
(* it claims, and lies on a page boundary when that was asked for.         *)
(***************************************************************************)
LEMMA CallExtendsAtCursor ==
    ASSUME IInv,
           NEW size \in Requests, NEW align \in BOOLEAN, arch_kmalloc(size, align)
    PROVE  \E e \in [ptr : Nat, size : Requests, phys : Nat, aligned : BOOLEAN] :
              /\ grants' = grants \cup {e}
              /\ e.ptr >= alloc_current
              /\ e.size = size
              /\ alloc_current' = e.ptr + size
              /\ alloc_current_phys' = alloc_current' - KERNEL_BASE
              /\ e.phys = e.ptr - KERNEL_BASE
              /\ e.aligned => e.ptr % PAGE = 0 /\ e.phys % PAGE = 0
              /\ e.ptr <= NextPage(alloc_current)
<1> DEFINE virt == IF align THEN NextPage(alloc_current) ELSE alloc_current
           phys == IF align THEN NextPage(alloc_current_phys) ELSE alloc_current_phys
           e == Extent(virt, size, phys, align)
<1>1. /\ alloc_current \in Nat /\ alloc_current >= alloc_start
      /\ alloc_current_phys = alloc_current - KERNEL_BASE
      /\ PAGE \in Nat \ {0} /\ KERNEL_BASE \in Int /\ KERNEL_BASE % PAGE = 0
      /\ alloc_start >= KERNEL_BASE + PAGE /\ alloc_start \in Nat
      /\ Requests \subseteq Nat \ {0}
  BY BootMemAssumption DEF IInv, TypeOK, CursorsInStep, arch_kmalloc
<1>2. NotInPageZero(alloc_current)
  BY <1>1, NeverInPageZero
<1>3. /\ grants' = grants \cup {e}
      /\ alloc_current' = virt + size
      /\ alloc_current_phys' = phys + size
  BY <1>2 DEF arch_kmalloc, arch_kmalloc_internal, Extent
<1>4. /\ NextPage(alloc_current) \in Int
      /\ NextPage(alloc_current) % PAGE = 0
      /\ alloc_current < NextPage(alloc_current)
      /\ NextPage(alloc_current_phys) = NextPage(alloc_current) - KERNEL_BASE
  <2>1. alloc_current \in Int
    BY <1>1
  <2>2. NextPage(alloc_current - KERNEL_BASE) = NextPage(alloc_current) - KERNEL_BASE
    BY <2>1, NextPagePhys
  <2>3. QED
    BY <1>1, <2>1, <2>2, NextPageRounds
<1>5. (NextPage(alloc_current) - KERNEL_BASE) % PAGE = 0
  BY <1>1, <1>4, ModSubMultiple
<1>6. /\ virt \in Nat /\ virt >= alloc_current /\ phys = virt - KERNEL_BASE
      /\ phys \in Nat
      /\ align => virt % PAGE = 0 /\ phys % PAGE = 0
      /\ virt <= NextPage(alloc_current)
  BY <1>1, <1>4, <1>5
<1> HIDE DEF virt, phys
<1>7. /\ e \in [ptr : Nat, size : Requests, phys : Nat, aligned : BOOLEAN]
      /\ e.ptr = virt /\ e.size = size /\ e.phys = phys /\ e.aligned = align
  BY <1>1, <1>6 DEF Extent
<1> HIDE DEF e
<1>8. alloc_current_phys' = alloc_current' - KERNEL_BASE
  BY <1>1, <1>3, <1>6
<1>9. QED
  BY <1>1, <1>3, <1>6, <1>7, <1>8

LEMMA KmallocKeepsInv ==
    ASSUME IInv,
           NEW size \in Requests, NEW align \in BOOLEAN, arch_kmalloc(size, align)
    PROVE  IInv'
<1>1. PICK e \in [ptr : Nat, size : Requests, phys : Nat, aligned : BOOLEAN] :
              /\ grants' = grants \cup {e}
              /\ e.ptr >= alloc_current
              /\ e.size = size
              /\ alloc_current' = e.ptr + size
              /\ alloc_current_phys' = alloc_current' - KERNEL_BASE
              /\ e.phys = e.ptr - KERNEL_BASE
              /\ e.aligned => e.ptr % PAGE = 0 /\ e.phys % PAGE = 0
              /\ e.ptr <= NextPage(alloc_current)
  BY CallExtendsAtCursor
<1>2. /\ alloc_current \in Nat /\ alloc_current >= alloc_start /\ alloc_start \in Nat
      /\ KERNEL_BASE \in Int /\ PAGE \in Nat \ {0} /\ KHEAP_END \in Nat
      /\ size \in Nat \ {0}
      /\ stage = "boot" /\ stage' = stage /\ heap_start' = heap_start
  BY BootMemAssumption DEF IInv, TypeOK, CursorsInStep, arch_kmalloc
<1>3. /\ alloc_current' \in Nat /\ alloc_current' > alloc_current
      /\ alloc_current_phys' \in Nat
  BY <1>1, <1>2, BootMemAssumption
<1>4. TypeOK'
  BY <1>1, <1>2, <1>3 DEF IInv, TypeOK
<1>5. CursorsInStep' /\ (stage = "reset" => grants = {})'
  BY <1>1, <1>2, <1>3 DEF CursorsInStep
<1>6. RoomLeft'
  <2>1. NextPage(NextPage(alloc_current) + size) < KHEAP_END
    BY DEF arch_kmalloc
  <2>2. NextPage(alloc_current) \in Int /\ alloc_current' <= NextPage(alloc_current) + size
    BY <1>1, <1>2, NextPageRounds
  <2>3. NextPage(alloc_current') <= NextPage(NextPage(alloc_current) + size)
    BY <1>2, <1>3, <2>2, NextPageMonotone
  <2>4. NextPage(alloc_current') \in Int /\ NextPage(NextPage(alloc_current) + size) \in Int
    BY <1>2, <1>3, <2>2, NextPageRounds
  <2>5. NextPage(alloc_current)' = NextPage(alloc_current')
    BY DEF NextPage
  <2>6. QED
    BY <1>2, <2>1, <2>3, <2>4, <2>5 DEF RoomLeft
<1>7. BelowCursor'
  <2> SUFFICES ASSUME NEW g \in grants'
               PROVE  g.ptr >= 0 /\ g.ptr + g.size <= alloc_current'
    BY DEF BelowCursor
  <2>1. CASE g = e
    BY <1>1, <1>2, <1>3, <2>1
  <2>2. CASE g \in grants
    <3>1. g.ptr \in Nat /\ g.size \in Nat /\ g.ptr + g.size <= alloc_current
      BY <2>2, BootMemAssumption DEF IInv, TypeOK, BelowCursor
    <3>2. QED
      BY <1>2, <1>3, <3>1
  <2>3. QED
    BY <1>1, <2>1, <2>2
<1>8. GrantsDisjoint'
  <2>1. ASSUME NEW g \in grants
        PROVE  ~ Implements!Overlap(g, e) /\ ~ Implements!Overlap(e, g)
    <3>1. /\ g.ptr \in Nat /\ g.size \in Nat /\ g.ptr + g.size <= alloc_current
          /\ e.ptr \in Nat /\ e.size \in Nat
      BY BootMemAssumption DEF IInv, TypeOK, BelowCursor
    <3>2. g.ptr + g.size <= e.ptr
      BY <1>1, <1>2, <3>1
    <3>3. QED
      BY <3>1, <3>2 DEF Implements!Overlap
  <2>2. QED
    BY <1>1, <2>1 DEF IInv, GrantsDisjoint
<1>9. HeapClearOfGrants'
  BY <1>2 DEF HeapClearOfGrants
<1>10. PhysMatchesVirt' /\ AlignedOnPage'
  BY <1>1 DEF IInv, PhysMatchesVirt, AlignedOnPage
<1>11. QED
  BY <1>4, <1>5, <1>6, <1>7, <1>8, <1>9, <1>10 DEF IInv

-----------------------------------------------------------------------------
LEMMA MmInitKeepsInv ==
    ASSUME IInv, mm_init
    PROVE  IInv'
<1>1. /\ alloc_start \in Nat /\ alloc_start % PAGE = 0 /\ KERNEL_BASE \in Nat
      /\ PAGE \in Nat \ {0} /\ KHEAP_END > alloc_start + PAGE /\ KHEAP_END \in Nat
  BY BootMemAssumption
<1>2. /\ grants = {} /\ grants' = {} /\ stage' = "boot"
      /\ alloc_current' = alloc_start /\ alloc_current_phys' = alloc_start - KERNEL_BASE
      /\ heap_start' = heap_start /\ heap_start \in Nat
  BY DEF IInv, TypeOK, mm_init
<1>3. TypeOK' /\ CursorsInStep'
  BY <1>1, <1>2, BootMemAssumption DEF TypeOK, CursorsInStep
<1>4. RoomLeft'
  <2>1. NextPage(alloc_start) \in Int /\ NextPage(alloc_start) <= alloc_start + PAGE
    BY <1>1, NextPageRounds
  <2>2. NextPage(alloc_current)' = NextPage(alloc_start)
    BY <1>2 DEF NextPage
  <2>3. QED
    BY <1>1, <2>1, <2>2 DEF RoomLeft
<1>5. BelowCursor' /\ GrantsDisjoint' /\ PhysMatchesVirt' /\ AlignedOnPage'
  BY <1>2 DEF BelowCursor, GrantsDisjoint, PhysMatchesVirt, AlignedOnPage
<1>6. HeapClearOfGrants'
  BY <1>2 DEF HeapClearOfGrants
<1>7. QED
  BY <1>2, <1>3, <1>4, <1>5, <1>6 DEF IInv

(***************************************************************************)
(* heap_init starts the heap on the first page boundary after the cursor,  *)
(* and everything handed out so far lies below the cursor.                 *)
(***************************************************************************)
LEMMA HeapInitKeepsInv ==
    ASSUME IInv, heap_init
    PROVE  IInv'
<1>1. /\ alloc_current \in Nat /\ alloc_current >= alloc_start /\ alloc_start \in Nat
      /\ NextPage(alloc_current) < KHEAP_END /\ KHEAP_END \in Nat
      /\ Requests \subseteq Nat \ {0} /\ PAGE \in Nat \ {0}
  BY BootMemAssumption DEF IInv, TypeOK, CursorsInStep, RoomLeft, heap_init
<1>2. NotInPageZero(alloc_current)
  BY <1>1, NeverInPageZero
<1>3. heap_start' = NextPage(alloc_current)
  BY <1>2 DEF heap_init, heap_first_page
<1>4. /\ heap_start' \in Nat /\ heap_start' % PAGE = 0
      /\ heap_start' > alloc_current /\ heap_start' < KHEAP_END
  BY <1>1, <1>3, NextPageRounds
<1>5. HeapClearOfGrants'
  <2>1. ASSUME NEW g \in grants
        PROVE  g.ptr + g.size <= heap_start'
    <3>1. g.ptr \in Nat /\ g.size \in Nat /\ g.ptr + g.size <= alloc_current
      BY <1>1 DEF IInv, TypeOK, BelowCursor
    <3>2. QED
      BY <1>1, <1>4, <3>1
  <2>2. grants' = grants
    BY DEF heap_init
  <2>3. QED
    BY <1>4, <2>1, <2>2 DEF HeapClearOfGrants
<1>6. TypeOK'
  BY <1>4 DEF IInv, TypeOK, heap_init
<1>7. QED
  BY <1>5, <1>6 DEF IInv, heap_init, CursorsInStep, RoomLeft, BelowCursor,
        GrantsDisjoint, PhysMatchesVirt, AlignedOnPage

LEMMA NextInv == IInv /\ [Next]_vars => IInv'
<1> SUFFICES ASSUME IInv, [Next]_vars
             PROVE  IInv'
  OBVIOUS
<1>1. CASE mm_init
  BY <1>1, MmInitKeepsInv
<1>2. ASSUME NEW size \in Requests, NEW align \in BOOLEAN, arch_kmalloc(size, align)
      PROVE  IInv'
  BY <1>2, KmallocKeepsInv
<1>3. CASE heap_init
  BY <1>3, HeapInitKeepsInv
<1>4. CASE UNCHANGED vars
  BY <1>4 DEF vars, IInv, TypeOK, CursorsInStep, RoomLeft, BelowCursor, GrantsDisjoint,
              HeapClearOfGrants, PhysMatchesVirt, AlignedOnPage, NextPage
<1>5. QED
  BY <1>1, <1>2, <1>3, <1>4 DEF Next

(***************************************************************************)
(* IInv is an invariant of the boot allocator.                             *)
(***************************************************************************)
LEMMA Invariance == Spec => []IInv
<1>1. QED
  BY InitInv, NextInv, PTL DEF Spec

(***************************************************************************)
(* Type correctness of the boot allocator of mm.c.                         *)
(***************************************************************************)
THEOREM TypeCorrect == Spec => []TypeOK
<1>1. IInv => TypeOK
  BY DEF IInv
<1>2. QED
  BY <1>1, Invariance, PTL

(***************************************************************************)
(* The kernel heap that heap_init carves out never contains boot-time data *)
(* such as the frame bitmap, whatever was allocated before it.             *)
(***************************************************************************)
THEOREM HeapNeverCoversBootData == Spec => []HeapClearOfGrants
<1>1. IInv => HeapClearOfGrants
  BY DEF IInv
<1>2. QED
  BY <1>1, Invariance, PTL

(***************************************************************************)
(* The physical address arch_kmalloc_p reports is the one virt_to_phys     *)
(* computes, and aligned requests get page-aligned extents in both spaces. *)
(***************************************************************************)
THEOREM PhysicalAddressesAgree == Spec => []GrantsUsable
<1>1. IInv => GrantsUsable
  BY DEF IInv, GrantsUsable
<1>2. QED
  BY <1>1, Invariance, PTL

-----------------------------------------------------------------------------
(***************************************************************************)
(* A call of arch_kmalloc is a Grant step of the abstract allocator.       *)
(***************************************************************************)
LEMMA KmallocGrants ==
    ASSUME IInv,
           NEW size \in Requests, NEW align \in BOOLEAN, arch_kmalloc(size, align)
    PROVE  Implements!Next
<1> DEFINE E == [ptr : Nat, size : Requests, phys : Nat, aligned : BOOLEAN]
<1>1. PICK e \in E : grants' = grants \cup {e} /\ e.ptr >= alloc_current
  BY CallExtendsAtCursor
<1>2. ASSUME NEW g \in grants
      PROVE  ~ Implements!Overlap(e, g)
  <2>1. /\ g.ptr \in Nat /\ g.size \in Nat /\ g.ptr + g.size <= alloc_current
        /\ e.ptr \in Nat /\ alloc_current \in Nat
    BY BootMemAssumption DEF IInv, TypeOK, BelowCursor
  <2>2. g.ptr + g.size <= e.ptr
    BY <1>1, <2>1
  <2>3. ~ (e.ptr < g.ptr + g.size)
    BY <2>1, <2>2
  <2>4. QED
    BY <2>3 DEF Implements!Overlap
<1>3. Implements!Grant(e) /\ e \in grants'
  BY <1>1, <1>2 DEF Implements!Grant
<1>4. QED
  BY <1>3 DEF Implements!Next

(***************************************************************************)
(* The boot allocator implements the abstract allocator: whatever sizes    *)
(* and alignments the boot code asks for, no two extents ever overlap.     *)
(***************************************************************************)
THEOREM BootMemImplementsAllocator == Spec => AllocatorSpec
<1>1. Init => Implements!Init
  BY DEF Init, Implements!Init
<1>2. IInv /\ [Next]_vars => [Implements!Next]_grants
  <2> SUFFICES ASSUME IInv, [Next]_vars
               PROVE  [Implements!Next]_grants
    OBVIOUS
  <2>1. CASE mm_init \/ heap_init \/ UNCHANGED vars
    BY <2>1 DEF mm_init, heap_init, vars
  <2>2. ASSUME NEW size \in Requests, NEW align \in BOOLEAN, arch_kmalloc(size, align)
        PROVE  Implements!Next
    BY <2>2, KmallocGrants
  <2>3. QED
    BY <2>1, <2>2 DEF Next
<1>3. QED
  BY <1>1, <1>2, Invariance, PTL DEF Spec, AllocatorSpec, Implements!Spec
=============================================================================
