----------------------------- MODULE KernelMain -----------------------------
(***************************************************************************)
(* The kernel's heap in use: page_dir_clone puts the current page          *)
(* directory there, as the first thing of all, and main and other clients  *)
(* follow.  The directory is DirWords words of heap memory, read by        *)
(* virt_to_phys and, through CR3, by the CPU.                              *)
(***************************************************************************)
EXTENDS KernelHeap

CONSTANTS
    Tables,      \* the entries of tables[], and of tables_phys[]
    KernelTable, \* the kernel's entry, 768
    TableAt,     \* the address of the kernel's page table
    TablePhys,   \* the physical one, with its flags
    DirPhys      \* the physical address of tables_phys, from virt_to_phys

DirWords == 2 * Tables + 2     \* dir_phys_addr and tables_phys_addr come last

ASSUME KernelMainAssumption ==
    /\ Page > 2 * BLOCKSIZE
    /\ Tables \in Nat /\ KernelTable \in BLOCKSIZE .. Tables - 1
    /\ {TableAt, TablePhys, DirPhys} \subseteq 1 .. WordMod - 1
    /\ DirWords \in Sizes
    /\ AlignUp(start + BLOCKSIZE) + DirWords < brk

VARIABLES
    stage,          \* "early", "cloning" or "running"
    curr_page_dir,  \* the directory, NULL while it is not in the heap
    ints_only,      \* whether every request since was for a word, as main's are
    spans           \* whether the head's area always held the whole heap

mainVars == <<vars, stage, curr_page_dir, ints_only, spans>>

MainInit ==
    /\ Init
    /\ stage = "early" /\ curr_page_dir = NULL
    /\ ints_only = TRUE /\ spans = TRUE

(***************************************************************************)
(* The head's area holds the whole heap, and ends where the address space  *)
(* still reaches; every step keeps a record of that.  Merges add to the    *)
(* head's size what was in it all along, so that it cannot hold for ever.  *)
(***************************************************************************)
HeadSpans(m) == Size(m, start) >= Capacity /\ DataOf(start) + Size(m, start) < WordMod
KeepSpans == spans' = (spans /\ HeadSpans(mem'))

(* page_dir_clone asks for its directory, page-aligned.                    *)
page_dir_clone ==
    /\ stage = "early"
    /\ kmalloc(DirWords, TRUE)
    /\ stage' = "cloning"
    /\ KeepSpans
    /\ UNCHANGED <<curr_page_dir, ints_only>>

(* The words of the clone; dir_phys_addr stays as memset left it.          *)
Directory ==
    [i \in 0 .. DirWords - 1 |->
        CASE i = KernelTable          -> TableAt
          [] i = Tables + KernelTable -> TablePhys
          [] i = DirWords - 1         -> DirPhys
          [] OTHER                    -> 0]

(* Cleared, filled and made current; without memory the kernel stops.      *)
kern_page_dir_clone ==
    /\ stage = "cloning" /\ pc = "idle" /\ result # NULL
    /\ mem' = [a \in Memory |->
                  IF a \in result .. result + DirWords - 1
                  THEN Directory[a - result] ELSE mem[a]]
    /\ curr_page_dir' = result
    /\ stage' = "running"
    /\ KeepSpans
    /\ UNCHANGED <<pc, t, req, live, result, frees, ints_only>>

(* The allocations that are not the directory's. *)
Clients == {g \in live : g.size # DirWords}

(***************************************************************************)
(* From then on main allocates, stores through what it got and frees it,   *)
(* sizeof(int) at a time, and so may others, with sizes of their own.      *)
(***************************************************************************)
ClientCall ==
    \/ \E n \in Sizes \ {DirWords}, align \in BOOLEAN :
          kmalloc(n, align) /\ ints_only' = (ints_only /\ n = 1)
    \/ /\ \/ kmalloc_no_heap
          \/ kfree_null
          \/ \E g \in Clients : kfree(g) \/ \E v \in Data : ClientWrite(g, v)
       /\ UNCHANGED ints_only

main ==
    /\ stage = "running"
    /\ ClientCall
    /\ KeepSpans
    /\ UNCHANGED <<stage, curr_page_dir>>

HeapLoops == Loops /\ KeepSpans /\ UNCHANGED <<stage, curr_page_dir, ints_only>>

MainNext == page_dir_clone \/ kern_page_dir_clone \/ main \/ HeapLoops

(***************************************************************************)
(* The kernel runs to completion what it has started: interrupts do not    *)
(* use the heap, so a loop is never abandoned, only delayed.               *)
(***************************************************************************)
MainSpec == MainInit /\ [][MainNext]_mainVars /\ WF_mainVars(HeapLoops)

-----------------------------------------------------------------------------
(***************************************************************************)
(* The head's header keeps its magic for as long as everybody asks for a   *)
(* word at a time, as main does, whatever they store in it and however the *)
(* headers behind the head overlap: free always finds its way through the  *)
(* magic test at the head.  (Larger clients can store over a header so     *)
(* that a merge takes their word for the next area and writes the head.)   *)
(***************************************************************************)
HeadIntact == ints_only => HasMagic(Flags(mem, start))

(***************************************************************************)
(* With such clients the head's size never gets smaller: a split does not  *)
(* take what it hands out off the area it came from, no later header and   *)
(* no store lands on the size, and a merge only adds (until the sum        *)
(* wraps).                                                                 *)
(***************************************************************************)
NeverShrinks ==
    [][ints_only' =>
         \/ Size(mem', start) >= Size(mem, start)
         \/ /\ MergeReadsInside(mem, start) /\ NextOf(mem, start) # NULL
            /\ Size(mem, start) + BLOCKSIZE + Size(mem, NextOf(mem, start)) >= WordMod]_mem

(***************************************************************************)
(* An allocation that is not page-aligned lies in the heap from its first  *)
(* word to its last, even when clients have stored over the headers behind *)
(* the head and merges have blown up the head's size, until the sum that a *)
(* merge stores there wraps around.  (A request for more than the heap     *)
(* holds may be answered from a header that others have written over, and  *)
(* then it does not: alloc.c:81-97.)                                       *)
(***************************************************************************)
UnalignedStaysInHeap ==
    spans => \A g \in live : ~ g.align /\ g.size <= Capacity =>
                 g.ptr .. g.ptr + g.size - 1 \subseteq Memory

(***************************************************************************)
(* For clients that ask for a word at a time, a call comes back: kmalloc   *)
(* with memory, kfree of memory they hold with nothing.  Two requests are  *)
(* enough to link an area behind the head to itself, and the loops would   *)
(* turn there for ever (as they do for kfree(NULL), and for a request      *)
(* larger than the head's size); they end because splits, stores and       *)
(* merges leave the head an area that contains every such call             *)
(* (alloc.c:81, 107).                                                      *)
(***************************************************************************)
CallsReturn ==
    /\ ints_only /\ spans /\ pc = "alloc" ~> pc = "idle" /\ result # NULL
    /\ ints_only /\ spans /\ pc \in {"free", "merge"} /\ req.ptr # NULL ~> pc = "idle"

(***************************************************************************)
(* An aligned allocation of main returns the address of the current page   *)
(* directory: the header that kmalloc writes there, the store of main and  *)
(* the merges of kfree change its first four table pointers.  As long as   *)
(* everybody asks for a word at a time, as main does, they change nothing  *)
(* else: the kernel's own entry, the physical addresses that the CPU walks *)
(* and those of the directory itself stay what page_dir_clone wrote        *)
(* (main.c:12-18, alloc.c:89, paging.c:256-283).                           *)
(***************************************************************************)
DirectoryHolds ==
    stage = "running" /\ ints_only =>
        \A i \in BLOCKSIZE .. DirWords - 1 : mem[curr_page_dir + i] = Directory[i]
=============================================================================
