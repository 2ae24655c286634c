------------------------------- MODULE Paging -------------------------------
(***************************************************************************)
(* Paging of arch/x86/paging.c, from the moment it is switched on, in the  *)
(* order arch/x86/init.c calls it, and its operations afterwards: the page *)
(* tables as the code keeps them, the frame bitmap, the directory the CPU  *)
(* walks and the CPU's translation cache (the CPU is external: it is       *)
(* modelled by what the code relies on).                                   *)
(*                                                                         *)
(* There is one page table, page_table_low; directory entries point at it  *)
(* or at nothing.  A linear page is named by <<table, index>>.             *)
(***************************************************************************)
EXTENDS BitsetOps

CONSTANTS
    Tables,         \* the directory's entries (0 .. 1023)
    KT,             \* the entry of the kernel's region (768)
    PT,             \* pages per table (1024)
    DirPage,        \* index of the page with kern_page_dir.tables_phys
    FirstHeapPage,  \* index of the heap's first page
    ClonePage,      \* index of the page with the clone's tables_phys
    ClientPages     \* heap pages whose owner may free and reallocate them

Pages == 0 .. PT - 1

(***************************************************************************)
(* mem_end is 16 MB, one table maps 4: there are frames beyond the table.  *)
(* The pages of the two directories belong to the paging code itself.      *)
(***************************************************************************)
ASSUME PagingAssumption ==
    /\ KT \in Tables /\ 0 \in Tables /\ KT # 0
    /\ PT \in Nat \ {0} /\ PT < W * len
    /\ DirPage \in Pages \ {0} /\ FirstHeapPage \in Pages \ {0}
    /\ ClonePage \in Pages \ {0} /\ ClonePage # DirPage
    /\ ClientPages \subseteq Pages \ {DirPage, ClonePage}

VARIABLES
    pc,        \* how far arch_main is; "run" once interrupts may be enabled
    i,         \* the counter of the loop arch_main is in
    bits,      \* frames.bits, and the word behind it
    pages,     \* page_table_low.pages
    kern,      \* kern_page_dir: its tables and tables_phys
    clone,     \* the directory made by kern_page_dir_clone, likewise
    curr,      \* curr_page_dir
    cr3,       \* the frame the CPU finds its directory in, 0: paging is off
    tlb,       \* the translations the CPU has cached
    neighbour  \* history: what the word behind the bitmap held at creation

vars == <<pc, i, bits, pages, kern, clone, curr, cr3, tlb, neighbour>>

boot == <<kern, clone, curr, cr3, neighbour>>   \* set during boot only

NoTables == [tables |-> {}, tables_phys |-> {}]

Init ==
    /\ pc = "reset"
    /\ i = 0
    /\ bits = Cleared({})
    /\ pages = [k \in Pages |-> [frame |-> 0, present |-> FALSE]]
    /\ kern = NoTables /\ clone = NoTables
    /\ curr = "none"
    /\ cr3 = 0
    /\ tlb = {}
    /\ neighbour = {}

-----------------------------------------------------------------------------
Dir(d) == IF d = "kern" THEN kern ELSE clone

(* The frame of the page k, shifted out of its table entry. *)
Frame(k) == pages[k].frame

(* mutated: the entry is tested, the bitmap is left as it is *)
page_get_unmarked(b, k) == b
(***************************************************************************)
(* page_get(dir, addr, 0) where the table exists: the bitmap afterwards,   *)
(* in which the page's frame (frame 0 for an unmapped page) is marked.     *)
(***************************************************************************)
page_get(b, k) == IF bit_test(b, Frame(k)) THEN b ELSE bit_set(b, Frame(k))

(***************************************************************************)
(* virt_to_phys of an address in page k of the kernel's region: arithmetic *)
(* while the heap is not valid, the software page tables afterwards.       *)
(***************************************************************************)
heap_valid == pc \in {"clone", "run", "halted", "hung"}
virt_to_phys(k) == IF heap_valid THEN Frame(k) ELSE k

(* The directory the CPU finds at cr3, and its walk of a linear page. *)
CpuTables ==
    CASE cr3 = DirPage   -> kern.tables_phys
      [] cr3 = ClonePage -> clone.tables_phys
      [] OTHER           -> {}
Walks(t, k) == t \in CpuTables /\ pages[k].present

-----------------------------------------------------------------------------
(***************************************************************************)
(* The low table maps page k to frame k; the directory has it twice, at 0  *)
(* and at the kernel's region.  switch_page_dir turns paging on.           *)
(***************************************************************************)
paging_init_pre ==
    /\ pc = "reset"
    /\ pages' = [k \in Pages |-> [frame |-> k, present |-> TRUE]]
    /\ kern' = [tables |-> {0, KT}, tables_phys |-> {0, KT}]
    /\ curr' = "kern"
    /\ cr3' = DirPage
    /\ tlb' = {}
    /\ pc' = "pre"
    /\ UNCHANGED <<i, bits, clone, neighbour>>

(* gdt_init: from here on the kernel's addresses are linear addresses. *)
gdt_init ==
    /\ pc = "pre"
    /\ pc' = "gdt"
    /\ UNCHANGED <<i, bits, pages, kern, clone, curr, cr3, tlb, neighbour>>

(* arch_bitset_create(&frames, mem_end/4096), in paging_alloc_init. *)
arch_bitset_create(guard) ==
    /\ pc = "gdt"
    /\ bits' = Cleared(guard)
    /\ neighbour' = guard
    /\ i' = 0
    /\ pc' = "alloc_init"
    /\ UNCHANGED <<pages, kern, clone, curr, cr3, tlb>>

(* One turn of the loop of paging_alloc_init, and what follows the last. *)
paging_alloc_init ==
    /\ pc = "alloc_init"
    /\ bits' = page_get(bits, i)
    /\ IF i + 1 \in Pages
       THEN i' = i + 1 /\ UNCHANGED pc
       ELSE i' = 0 /\ pc' = "post"
    /\ UNCHANGED <<pages, tlb, boot>>

(* mutated: the software table is dropped, the CPU's entry is forgotten *)
paging_init_post_soft ==
    /\ pc = "post"
    /\ kern' = [kern EXCEPT !.tables = @ \ {0}]
    /\ i' = FirstHeapPage
    /\ pc' = "heap"
    /\ UNCHANGED <<bits, pages, clone, curr, cr3, tlb, neighbour>>
(***************************************************************************)
(* paging_init_post: both entries of the low table are cleared; nothing    *)
(* tells the CPU.                                                          *)
(***************************************************************************)
paging_init_post ==
    /\ pc = "post"
    /\ kern' = [tables |-> kern.tables \ {0}, tables_phys |-> kern.tables_phys \ {0}]
    /\ i' = FirstHeapPage
    /\ pc' = "heap"
    /\ UNCHANGED <<bits, pages, clone, curr, cr3, tlb, neighbour>>

-----------------------------------------------------------------------------
(* mutated: the entry gets the number of the next frame *)
take_frame_next(b, k, f) ==
    /\ bits' = bit_set(b, f)
    /\ pages' = [pages EXCEPT ![k] = [frame |-> f + 1, present |-> TRUE]]
take_frame(b, k, f) ==
    /\ bits' = bit_set(b, f)
    /\ pages' = [pages EXCEPT ![k] = [frame |-> f, present |-> TRUE]]

(* mutated: a page that has a frame gets another one *)
page_frame_alloc_again(b, k, next) ==
    LET f == bit_find_first_free(b)
    IN  /\ IF f >= 0 THEN take_frame(b, k, f) ELSE bits' = b /\ UNCHANGED pages
        /\ pc' = IF f < 0 THEN "hung" ELSE next

(***************************************************************************)
(* page_frame_alloc, with the bitmap b that page_get left: nothing for a   *)
(* page that has a frame other than 0, else the first free frame; the CPU  *)
(* spins for ever when there is none.                                      *)
(***************************************************************************)
page_frame_alloc(b, k, next) ==
    LET f == bit_find_first_free(b)
    IN  /\ IF Frame(k) = 0 /\ f >= 0
           THEN take_frame(b, k, f)
           ELSE bits' = b /\ UNCHANGED pages
        /\ pc' = IF Frame(k) = 0 /\ f < 0 THEN "hung" ELSE next

(* One turn of the mapping loop of heap_init. *)
heap_init ==
    /\ pc = "heap"
    /\ page_frame_alloc(page_get(bits, i), i, IF i + 1 \in Pages THEN "heap" ELSE "clone")
    /\ i' = IF i + 1 \in Pages THEN i + 1 ELSE 0
    /\ UNCHANGED <<tlb, boot>>

(* mutated: the CPU keeps walking kern_page_dir *)
switch_page_dir_software_only(d, frame) == curr' = d /\ UNCHANGED <<cr3, tlb>>
(* Loading CR3 makes the CPU forget its cached translations. *)
switch_page_dir(d, frame) == curr' = d /\ cr3' = frame /\ tlb' = {}

(***************************************************************************)
(* page_dir_clone(&kern_page_dir) and the switch to the clone.  The heap   *)
(* serves its first aligned request from its first page boundary (module   *)
(* KernelHeap).  Every table of the source is shared: it is kern_page_dir's *)
(* own, so page_table_clone is not called.                                 *)
(***************************************************************************)
kern_page_dir_clone ==
    /\ pc = "clone"
    /\ bits' = page_get(bits, ClonePage)
    /\ clone' = [tables |-> kern.tables, tables_phys |-> kern.tables_phys \cap kern.tables]
    /\ switch_page_dir("clone", virt_to_phys(ClonePage))
    /\ pc' = "run"
    /\ UNCHANGED <<i, pages, kern, neighbour>>

-----------------------------------------------------------------------------
(* page_frame_alloc(page_get(curr_page_dir, address in page k, 0), ...) *)
AllocPage(k) ==
    /\ pc = "run"
    /\ page_frame_alloc(page_get(bits, k), k, "run")
    /\ UNCHANGED <<i, tlb, boot>>

(* mutated: the bitmap is cleared after the entry, with the entry's zero *)
page_frame_free_late(b, k) ==
    IF Frame(k) = 0 THEN bits' = b /\ UNCHANGED pages
    ELSE /\ pages' = [pages EXCEPT ![k] = [frame |-> 0, present |-> FALSE]]
         /\ bits' = bit_clear(b, pages'[k].frame)
page_frame_free(b, k) ==
    IF Frame(k) = 0 THEN bits' = b /\ UNCHANGED pages
    ELSE /\ bits' = bit_clear(b, Frame(k))
         /\ pages' = [pages EXCEPT ![k] = [frame |-> 0, present |-> FALSE]]

(* page_frame_free(page_get(curr_page_dir, address in page k, 0)) *)
FreePage(k) ==
    /\ pc = "run"
    /\ page_frame_free(page_get(bits, k), k)
    /\ UNCHANGED <<pc, i, tlb, boot>>

(***************************************************************************)
(* virt_to_phys of any address, once the heap is valid.  Where there is no *)
(* table, page_get returns NULL and the code reads p->frame at address 0:  *)
(* through a cached translation, or into page_fault_handler, which stops.  *)
(***************************************************************************)
TranslateAddress(t, k) ==
    /\ pc = "run"
    /\ IF t \in Dir(curr).tables
       THEN bits' = page_get(bits, k) /\ UNCHANGED pc
       ELSE /\ pc' = IF Walks(0, 0) \/ \E e \in tlb : e.lin = <<0, 0>>
                     THEN pc ELSE "halted"
            /\ UNCHANGED bits
    /\ UNCHANGED <<i, pages, tlb, boot>>

(***************************************************************************)
(* The CPU executes an instruction that touches the kernel's page k: it    *)
(* uses a cached translation or walks the directory and caches the result. *)
(* With the boot GDT (until gdt_init) the segment base turns the kernel's  *)
(* addresses into low linear ones.                                         *)
(***************************************************************************)
Touch(k) ==
    LET t == IF pc = "pre" THEN 0 ELSE KT
    IN  /\ pc \notin {"reset", "halted", "hung"}
        /\ pages[k].present
        /\ ~ \E e \in tlb : e.lin = <<t, k>>
        /\ Walks(t, k)
        /\ tlb' = tlb \cup {[lin |-> <<t, k>>, frame |-> Frame(k)]}
        /\ UNCHANGED <<pc, i, bits, pages, boot>>

Next ==
    \/ paging_init_pre \/ gdt_init
    \/ \E guard \in WordSet : arch_bitset_create(guard)
    \/ paging_alloc_init \/ paging_init_post \/ heap_init \/ kern_page_dir_clone
    \/ \E k \in ClientPages : AllocPage(k) \/ FreePage(k)
    \/ \E t \in Tables, k \in ClientPages : TranslateAddress(t, k)
    \/ \E k \in ClientPages \cup {DirPage, ClonePage} : Touch(k)

Spec == Init /\ [][Next]_vars

-----------------------------------------------------------------------------
Stages == {"reset", "pre", "gdt", "alloc_init", "post", "heap", "clone", "run",
           "halted", "hung"}

TypeOK ==
    /\ pc \in Stages
    /\ i \in Pages
    /\ bits \in Arrays
    /\ pages \in [Pages -> [frame : Bits, present : BOOLEAN]]
    /\ kern \in [tables : SUBSET Tables, tables_phys : SUBSET Tables]
    /\ clone \in [tables : SUBSET Tables, tables_phys : SUBSET Tables]
    /\ curr \in {"none", "kern", "clone"}
    /\ cr3 \in Bits
    /\ tlb \subseteq [lin : Tables \X Pages, frame : Bits]
    /\ neighbour \in WordSet

(***************************************************************************)
(* Once paging_alloc_init is done, the bitmap and the page table agree     *)
(* exactly: the frames in use are those of the mapped pages, and frame 0.  *)
(* So page_frame_alloc never hands out a frame that is mapped, and no      *)
(* frame is lost by a page that is freed, remapped or looked up.           *)
(***************************************************************************)
FramesAccounted ==
    pc \in {"post", "heap", "clone", "run", "halted", "hung"} =>
        Members(bits) = {0} \cup {Frame(k) : k \in Pages}

(***************************************************************************)
(* Two pages of the kernel's region never share a frame.                   *)
(***************************************************************************)
NoSharedFrame ==
    \A k, l \in Pages : k # l /\ Frame(k) = Frame(l) => Frame(k) = 0

(***************************************************************************)
(* Together: every frame in use is in use once, and known to be, whatever  *)
(* is mapped, freed, looked up or moved (paging.c:36-97, 148-159).         *)
(***************************************************************************)
FramesKept == FramesAccounted /\ NoSharedFrame

(***************************************************************************)
(* The word behind the frame bitmap (the boot allocator's next grant, or   *)
(* the heap) is never written by way of the bitmap, although the bound     *)
(* check of bitset.c:44 and 58 lets a bit of it through: every number that *)
(* paging.c passes comes out of a page table entry, or out of the search,  *)
(* and no sequence of look-ups, frees and allocations puts one there that  *)
(* the bitmap does not have.                                               *)
(***************************************************************************)
NeighbourUntouched == bits[Guard] = neighbour

(***************************************************************************)
(* What the CPU may use for the kernel's page k: the translations it has   *)
(* cached, whichever of the two mappings they are of, and its walk.        *)
(***************************************************************************)
CpuFrames(k) ==
    {e.frame : e \in {c \in tlb : c.lin[2] = k}} \cup
    (IF Walks(KT, k) THEN {Frame(k)} ELSE {})

(***************************************************************************)
(* The CPU walks the directory the code believes is current, and for every *)
(* page that is the kernel's own it uses one frame, cached or not: the one *)
(* that virt_to_phys computes, in each of its two ways.  (For a page that  *)
(* its owner frees or remaps this is not so: page_frame_free and           *)
(* page_frame_alloc leave what the CPU has cached, paging.c:51-57, 67-68.) *)
(***************************************************************************)
TranslationsAgree ==
    pc # "reset" =>
        /\ cr3 = virt_to_phys(IF curr = "kern" THEN DirPage ELSE ClonePage)
        /\ Dir(curr).tables_phys = Dir(curr).tables
        /\ \A k \in Pages \ ClientPages : CpuFrames(k) = {virt_to_phys(k)}

(***************************************************************************)
(* From the switch to the cloned directory on, the low mapping is gone for *)
(* good, from the tables and from what the CPU has cached: a reference     *)
(* through a null pointer faults.                                          *)
(***************************************************************************)
LowMappingGone ==
    pc \in {"run", "halted"} =>
        /\ 0 \notin CpuTables
        /\ \A e \in tlb : e.lin[1] # 0

(***************************************************************************)
(* page_frame_alloc never finds the frames exhausted.                      *)
(***************************************************************************)
FramesSuffice == pc # "hung"
=============================================================================
