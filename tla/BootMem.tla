------------------------------ MODULE BootMem ------------------------------
(***************************************************************************)
(* The boot-time allocator of arch/x86/mm.c and its hand-over to the       *)
(* kernel heap in arch/x86/heap.c.                                         *)
(*                                                                         *)
(* Two cursors, one virtual and one physical, only ever move up; nothing   *)
(* is freed.  heap_init then takes everything from the cursor's next page  *)
(* up to KHEAP_END.  Addresses are integers, a page is PAGE of them.       *)
(***************************************************************************)
EXTENDS Integers

CONSTANTS
    PAGE,          \* bytes per page (4096)
    KERNEL_BASE,   \* 0xc0000000: virtual minus physical address of the kernel
    alloc_start,   \* the linker's __alloc_start, page aligned, above KERNEL_BASE
    KHEAP_END,     \* end of the mapped kernel region and of the heap
    Requests       \* the sizes boot code asks for

ASSUME BootMemAssumption ==
    /\ PAGE \in Nat \ {0}
    /\ KERNEL_BASE \in Nat /\ KERNEL_BASE % PAGE = 0
    /\ alloc_start \in Nat /\ alloc_start % PAGE = 0
    /\ alloc_start >= KERNEL_BASE + PAGE
    /\ KHEAP_END \in Nat /\ KHEAP_END > alloc_start + PAGE
    /\ Requests \subseteq Nat \ {0}

VARIABLES
    stage,               \* "reset", then "boot" after mm_init, then "heap"
    alloc_current,       \* next free virtual address
    alloc_current_phys,  \* its physical address
    grants,              \* every extent handed out: ptr, size, phys, aligned
    heap_start           \* start of the kernel heap, 0 until heap_init

vars == <<stage, alloc_current, alloc_current_phys, grants, heap_start>>

-----------------------------------------------------------------------------
(***************************************************************************)
(* "x &= 0xfffff000; x += 4096": the page after the one a lies in, which   *)
(* skips a whole page when a is already aligned.                           *)
(***************************************************************************)
NextPage(a) == (a - (a % PAGE)) + PAGE

(***************************************************************************)
(* The guard of the rounding, "x & 0xfffff000", is true of every address   *)
(* that is not in the very first page.                                     *)
(***************************************************************************)
NotInPageZero(a) == a - (a % PAGE) # 0

Extent(p, n, phys, al) == [ptr |-> p, size |-> n, phys |-> phys, aligned |-> al]

-----------------------------------------------------------------------------
Init ==
    /\ stage = "reset"
    /\ alloc_current = 0
    /\ alloc_current_phys = 0
    /\ grants = {}
    /\ heap_start = 0

(* mutated: the physical address is subtracted the wrong way round *)
mm_init_swapped ==
    /\ stage = "reset"
    /\ stage' = "boot"
    /\ alloc_current' = alloc_start
    /\ alloc_current_phys' = KERNEL_BASE - alloc_start
    /\ UNCHANGED <<grants, heap_start>>
(* mm_init: the cursors start behind the kernel's image. *)
mm_init ==
    /\ stage = "reset"
    /\ stage' = "boot"
    /\ alloc_current' = alloc_start
    /\ alloc_current_phys' = alloc_start - KERNEL_BASE
    /\ UNCHANGED <<grants, heap_start>>

(* mutated: only the virtual cursor is rounded up *)
internal_virt_only(size, align) ==
    LET virt == IF align /\ NotInPageZero(alloc_current)
                THEN NextPage(alloc_current) ELSE alloc_current
    IN  /\ grants' = grants \cup {Extent(virt, size, alloc_current_phys, align)}
        /\ alloc_current' = virt + size
        /\ alloc_current_phys' = alloc_current_phys + size
(* mutated: the cursors are not advanced past an aligned extent *)
internal_no_advance(size, align) ==
    LET round == align /\ NotInPageZero(alloc_current)
        virt  == IF round THEN NextPage(alloc_current) ELSE alloc_current
        phys  == IF round THEN NextPage(alloc_current_phys) ELSE alloc_current_phys
    IN  /\ grants' = grants \cup {Extent(virt, size, phys, align)}
        /\ alloc_current' = IF align THEN virt ELSE virt + size
        /\ alloc_current_phys' = IF align THEN phys ELSE phys + size
(***************************************************************************)
(* arch_kmalloc_internal: round both cursors up when asked to, hand out    *)
(* the extent at the cursor with its physical address, advance.            *)
(***************************************************************************)
arch_kmalloc_internal(size, align) ==
    LET round == align /\ NotInPageZero(alloc_current)
        virt  == IF round THEN NextPage(alloc_current) ELSE alloc_current
        phys  == IF round THEN NextPage(alloc_current_phys) ELSE alloc_current_phys
    IN  /\ grants' = grants \cup {Extent(virt, size, phys, align)}
        /\ alloc_current' = virt + size
        /\ alloc_current_phys' = phys + size

(***************************************************************************)
(* A call of arch_kmalloc, _a, _p or _ap.  Its callers run between mm_init *)
(* and heap_init, and the code trusts them to stay below KHEAP_END: the    *)
(* guard is that trust, there is no check in the code.                     *)
(***************************************************************************)
arch_kmalloc(size, align) ==
    /\ stage = "boot"
    /\ NextPage(NextPage(alloc_current) + size) < KHEAP_END
    /\ arch_kmalloc_internal(size, align)
    /\ UNCHANGED <<stage, heap_start>>

(* mutated: the heap starts on the page the cursor is in *)
heap_start_rounded_down(curr) == IF NotInPageZero(curr) THEN curr - (curr % PAGE) ELSE curr
heap_first_page(curr) == IF NotInPageZero(curr) THEN NextPage(curr) ELSE curr

(***************************************************************************)
(* heap_init: from here on [heap_start, KHEAP_END) belongs to the heap.    *)
(* (The mapping of its pages is in module Paging.)                         *)
(***************************************************************************)
heap_init ==
    /\ stage = "boot"
    /\ stage' = "heap"
    /\ heap_start' = heap_first_page(alloc_current)
    /\ UNCHANGED <<alloc_current, alloc_current_phys, grants>>

Next ==
    \/ mm_init
    \/ \E size \in Requests, align \in BOOLEAN : arch_kmalloc(size, align)
    \/ heap_init

Spec == Init /\ [][Next]_vars

-----------------------------------------------------------------------------
TypeOK ==
    /\ stage \in {"reset", "boot", "heap"}
    /\ alloc_current \in Nat
    /\ alloc_current_phys \in Nat
    /\ grants \subseteq [ptr : Nat, size : Requests, phys : Nat, aligned : BOOLEAN]
    /\ heap_start \in Nat

(***************************************************************************)
(* The heap that heap_init carves out shares no byte with any boot-time    *)
(* allocation (the frame bitmap lives in one of those), and starts on a    *)
(* page inside the mapped region.  It relates the last cursor position to  *)
(* every grant made before it.                                             *)
(***************************************************************************)
HeapClearOfGrants ==
    stage = "heap" =>
        /\ heap_start % PAGE = 0
        /\ heap_start < KHEAP_END
        /\ \A g \in grants : g.ptr + g.size <= heap_start

(***************************************************************************)
(* virt_to_phys (paging.c:229) subtracts KERNEL_BASE from an address while *)
(* the heap is not valid, and arch_kmalloc_p reports the physical cursor:  *)
(* the two agree on every extent because both cursors move in step.        *)
(***************************************************************************)
PhysMatchesVirt == \A g \in grants : g.phys = g.ptr - KERNEL_BASE

(***************************************************************************)
(* An aligned request is answered with an address on a page boundary, both *)
(* virtually and physically (a page table is usable only then).            *)
(***************************************************************************)
AlignedOnPage == \A g \in grants : g.aligned => g.ptr % PAGE = 0 /\ g.phys % PAGE = 0

(* Both: what paging.c assumes of the tables and directories it is given.  *)
GrantsUsable == PhysMatchesVirt /\ AlignedOnPage

(***************************************************************************)
(* The boot allocator keeps the promise of an allocator: no two of its     *)
(* extents overlap.  mm_init and heap_init are stuttering steps there.     *)
(***************************************************************************)
Implements == INSTANCE Allocator WITH
    Extents <- [ptr : Nat, size : Requests, phys : Nat, aligned : BOOLEAN],
    held <- grants

AllocatorSpec == Implements!Spec
=============================================================================
