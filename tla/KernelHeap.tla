---------------------------- MODULE KernelHeap ----------------------------
(***************************************************************************)
(* The kernel heap of kernel/alloc.c: a list of areas whose headers live   *)
(* in the heap's own memory, next to and (as it turns out) inside the      *)
(* memory that clients are given.                                          *)
(*                                                                         *)
(* The model works at the level of memory words, because what goes wrong   *)
(* here goes wrong through overlapping headers: mem is the heap's memory,  *)
(* an area is the address of its header, a header is four words.  Sizes    *)
(* and addresses count words where the code counts bytes.  Every loop of   *)
(* the code is a sequence of steps, one per iteration, since some loops    *)
(* do not end.                                                             *)
(***************************************************************************)
EXTENDS Integers, FiniteSets, FiniteSetsExt

CONSTANTS
    WordMod,    \* uint32_t arithmetic wraps here (2^32, counted in words)
    start,      \* kern_heap.start, the address of the first header
    brk,        \* kern_heap.brk, the first address after the heap
    Page,       \* words per page
    ALLOC_MAGIC,
    Sizes,      \* the sizes clients ask for
    Data,       \* the values clients store in their memory
    MaxLive,    \* how many live allocations clients hold at most
    MaxFrees    \* how often kfree is called at most

NULL == 0

(***************************************************************************)
(* The magic has its four flag bits clear; neither it nor the clients'     *)
(* data is an address of the heap.                                         *)
(***************************************************************************)
ASSUME KernelHeapAssumption ==
    /\ Page \in Nat \ {0}
    /\ start \in Nat \ {0} /\ start % Page = 0
    /\ WordMod \in Nat /\ brk \in Nat /\ brk > start + Page + 4 /\ brk <= WordMod
    /\ ALLOC_MAGIC % 16 = 0 /\ ALLOC_MAGIC \in brk .. WordMod - 2
    /\ Sizes \subseteq 1 .. WordMod - 1
    /\ Data \subseteq 0 .. start - 1
    /\ MaxLive \in Nat \ {0} /\ MaxFrees \in Nat

BLOCKSIZE == 4          \* flags, size, next, prev
Slack     == 1          \* the "+ 4" bytes a new area must at least offer
Memory    == start .. brk - 1
Word      == 0 .. WordMod - 1

VARIABLES
    mem,      \* the words of the heap
    pc,       \* "idle", a loop of alloc or free, or "wild"
    t,        \* the area under the loop's cursor
    req,      \* the arguments of the call in progress
    live,     \* the allocations clients hold: id, ptr, size, align
    result,   \* what the last alloc returned
    frees     \* calls of kfree so far

vars == <<mem, pc, t, req, live, result, frees>>

-----------------------------------------------------------------------------
(* The fields of the header at a, in a memory m.                           *)
Flags(m, a) == m[a]
Size(m, a)  == m[a + 1]
NextOf(m, a) == m[a + 2]
PrevOf(m, a) == m[a + 3]
DataOf(a) == a + BLOCKSIZE

(* A header that can be read and written without leaving the heap.         *)
Header(a) == {a, a + 1, a + 2, a + 3} \subseteq Memory

IsFree(f) == f % 2 = 1                          \* f & ALLOC_FLAG_FREE
NotFree(f) == f - (f % 2)                       \* f & ~ALLOC_FLAG_FREE
HasMagic(f) == f - (f % 16) = ALLOC_MAGIC       \* (f & MASK) == ALLOC_MAGIC
Wrap(n) == n % WordMod

(* Rounding up to a page, for addresses that need it.                      *)
AlignUp(a) == IF a % Page = 0 THEN a ELSE a - (a % Page) + Page

(***************************************************************************)
(* The memory after alloc_init: one free area that spans the heap.         *)
(***************************************************************************)
InitialMemory ==
    [a \in Memory |->
        CASE a = start     -> ALLOC_MAGIC + 1
          [] a = start + 1 -> (brk - start) - BLOCKSIZE
          [] OTHER         -> 0]

Init ==
    /\ mem = InitialMemory
    /\ pc = "idle"
    /\ t = start
    /\ req = [size |-> 0, align |-> FALSE, ptr |-> NULL]
    /\ live = {}
    /\ result = NULL
    /\ frees = 0

-----------------------------------------------------------------------------
(***************************************************************************)
(* alloc_area_split(area, size): whether there is room for a second area,  *)
(* and the memory after it has been written.  The assignments happen in    *)
(* the order of the code: new->next is read back after area->next, and     *)
(* the header behind the new one may overlap it.                           *)
(***************************************************************************)
Breaks(m, area, size) == Size(m, area) >= Wrap(size + BLOCKSIZE + Slack)

(* mutated: the header is counted twice *)
NewAreaBehind(area, size) == DataOf(area) + BLOCKSIZE + size
NewArea(area, size) == DataOf(area) + size

(* mutated: the old area is cut down to what is handed out *)
CarveShrinks(m, area, size) ==
    LET new == NewArea(area, size)
    IN  [m EXCEPT ![new] = ALLOC_MAGIC + 1,
                  ![new + 1] = Wrap(Size(m, area) - size - BLOCKSIZE),
                  ![area + 1] = size,
                  ![new + 2] = NextOf(m, area),
                  ![new + 3] = area,
                  ![area + 2] = new]
(* The part of the split before the neighbour is linked back. *)
Carve(m, area, size) ==
    LET new == NewArea(area, size)
    IN  [m EXCEPT ![new] = ALLOC_MAGIC + 1,
                  ![new + 1] = Wrap(Size(m, area) - size - BLOCKSIZE),
                  ![new + 2] = NextOf(m, area),
                  ![new + 3] = area,
                  ![area + 2] = new]

Split(m, area, size) ==
    LET new == NewArea(area, size)
        m1  == Carve(m, area, size)
    IN  IF NextOf(m1, new) = NULL THEN m1
        ELSE [m1 EXCEPT ![NextOf(m1, new) + 3] = new]

(* Every word the split touches is heap memory. *)
SplitStaysInside(m, area, size) ==
    /\ Header(NewArea(area, size))
    /\ LET n == NextOf(Carve(m, area, size), NewArea(area, size))
       IN  n # NULL => n + 3 \in Memory

-----------------------------------------------------------------------------
(* mutated: the walk goes on where the last one ended *)
kmalloc_resumes(n, align) ==
    /\ pc = "idle"
    /\ Cardinality(live) < MaxLive
    /\ pc' = "alloc"
    /\ req' = [size |-> n, align |-> align, ptr |-> NULL]
    /\ UNCHANGED <<mem, t, live, result, frees>>
(***************************************************************************)
(* kmalloc(size, ALLOC_KERN [| ALLOC_ALIGN]) starts a walk at the head.    *)
(***************************************************************************)
kmalloc(n, align) ==
    /\ pc = "idle"
    /\ Cardinality(live) < MaxLive
    /\ pc' = "alloc"
    /\ t' = start
    /\ req' = [size |-> n, align |-> align, ptr |-> NULL]
    /\ UNCHANGED <<mem, live, result, frees>>

(* Without ALLOC_KERN there is no heap to allocate from.                   *)
kmalloc_no_heap ==
    /\ pc = "idle"
    /\ result' = NULL
    /\ UNCHANGED <<mem, pc, t, req, live, frees>>

(* alloc returns p; a client that gets memory holds it from now on.        *)
Return(p) ==
    LET id == Min((1 .. MaxLive) \ {g.id : g \in live})
    IN  /\ pc' = "idle"
        /\ result' = p
        /\ live' = IF p = NULL THEN live
                   ELSE live \cup {[id |-> id, ptr |-> p, size |-> req.size, align |-> req.align]}

(* Split area at size and return p, unless that leaves the heap's memory.  *)
SplitAndReturn(size, p) ==
    \/ /\ ~ Breaks(mem, t, size)
       /\ Return(p)
       /\ UNCHANGED mem
    \/ /\ Breaks(mem, t, size) /\ SplitStaysInside(mem, t, size)
       /\ mem' = Split(mem, t, size)
       /\ Return(p)
    \/ /\ Breaks(mem, t, size) /\ ~ SplitStaysInside(mem, t, size)
       /\ pc' = "wild"
       /\ UNCHANGED <<mem, live, result>>

LargeEnough(a) == Size(mem, a) >= req.size

(* The page boundary behind the area's header still lies in the area.      *)
PageInside(a) == AlignUp(DataOf(a)) < Wrap(DataOf(a) + Size(mem, a))

Suits(a) == LargeEnough(a) /\ (req.align => PageInside(a))

(***************************************************************************)
(* One iteration of the loop in alloc.  The area is taken whether or not   *)
(* its ALLOC_FLAG_FREE is set; an aligned request splits the area in the   *)
(* gap before the page boundary and returns the boundary itself.           *)
(***************************************************************************)
alloc_step ==
    /\ pc = "alloc"
    /\ \/ /\ t = NULL
          /\ Return(NULL)
          /\ UNCHANGED <<mem, t>>
       \/ /\ t # NULL /\ ~ Header(t)
          /\ pc' = "wild"
          /\ UNCHANGED <<mem, t, live, result>>
       \/ /\ Header(t) /\ Suits(t)
          /\ IF req.align
             THEN SplitAndReturn(AlignUp(DataOf(t)) - DataOf(t), AlignUp(DataOf(t)))
             ELSE SplitAndReturn(req.size, DataOf(t))
          /\ UNCHANGED t
       \/ /\ Header(t) /\ ~ Suits(t)
          /\ t' = NextOf(mem, t)
          /\ UNCHANGED <<mem, pc, live, result>>
    /\ UNCHANGED <<req, frees>>

-----------------------------------------------------------------------------
(***************************************************************************)
(* kfree(p) for memory a client holds (or for NULL): look for the area     *)
(* that contains it, again from the head.                                  *)
(***************************************************************************)
BeginFree(p) ==
    /\ pc = "idle"
    /\ frees < MaxFrees
    /\ frees' = frees + 1
    /\ pc' = "free"
    /\ t' = start
    /\ req' = [size |-> 0, align |-> FALSE, ptr |-> p]
    /\ UNCHANGED <<mem, result>>

kfree(g) == BeginFree(g.ptr) /\ live' = live \ {g}
kfree_null == BeginFree(NULL) /\ UNCHANGED live

Contains(a, p) == p >= DataOf(a) /\ p < Wrap(DataOf(a) + Size(mem, a))

(* One iteration of the search in free, and the test behind the loop.      *)
free_step ==
    /\ pc = "free"
    /\ \/ t = NULL /\ pc' = "idle" /\ UNCHANGED t
       \/ t # NULL /\ ~ Header(t) /\ pc' = "wild" /\ UNCHANGED t
       \/ /\ Header(t) /\ Contains(t, req.ptr)
          /\ pc' = IF HasMagic(Flags(mem, t)) THEN "merge" ELSE "idle"
          /\ UNCHANGED t
       \/ /\ Header(t) /\ ~ Contains(t, req.ptr)
          /\ t' = NextOf(mem, t) /\ UNCHANGED pc
    /\ UNCHANGED <<mem, req, live, result, frees>>

(***************************************************************************)
(* alloc_area_merge: absorb the next area if its free flag is set, in the  *)
(* code's order of assignments (the next area may be the area itself).     *)
(***************************************************************************)
MergesNext(m, a) == NextOf(m, a) # NULL /\ IsFree(Flags(m, NextOf(m, a)))

(* mutated: the sum of the sizes is not a uint32_t *)
AbsorbUnwrapped(m, a) ==
    LET m1 == [m EXCEPT ![a + 1] = @ + BLOCKSIZE + Size(m, NextOf(m, a))]
        m2 == [m1 EXCEPT ![a + 2] = NextOf(m1, NextOf(m1, a))]
    IN  IF NextOf(m2, a) = NULL THEN m2
        ELSE [m2 EXCEPT ![NextOf(m2, a) + 3] = a]
Absorb(m, a) ==
    LET m1 == [m EXCEPT ![a + 1] = Wrap(@ + BLOCKSIZE + Size(m, NextOf(m, a)))]
        m2 == [m1 EXCEPT ![a + 2] = NextOf(m1, NextOf(m1, a))]
    IN  IF NextOf(m2, a) = NULL THEN m2
        ELSE [m2 EXCEPT ![NextOf(m2, a) + 3] = a]

AbsorbStaysInside(m, a) ==
    MergesNext(m, a) => LET n == NextOf(m, NextOf(m, a))
                        IN  n # NULL => n + 3 \in Memory

MergeReadsInside(m, a) == NextOf(m, a) # NULL => Header(NextOf(m, a))

(* mutated: the flags are cleared altogether, magic included *)
ClearAllFlags(m, a) == [m EXCEPT ![a] = 0]
ClearFree(m, a) == [m EXCEPT ![a] = NotFree(@)]

MergedMemory(m, a) == ClearFree(IF MergesNext(m, a) THEN Absorb(m, a) ELSE m, a)

(* One iteration of the merge loop, from the area back to the head.        *)
merge_step ==
    /\ pc = "merge"
    /\ \/ /\ Header(t) /\ MergeReadsInside(mem, t) /\ AbsorbStaysInside(mem, t)
          /\ mem' = MergedMemory(mem, t)
          /\ IF t = start
             THEN pc' = "idle" /\ UNCHANGED t
             ELSE t' = PrevOf(mem', t) /\ UNCHANGED pc
       \/ /\ ~ (Header(t) /\ MergeReadsInside(mem, t) /\ AbsorbStaysInside(mem, t))
          /\ pc' = "wild"
          /\ UNCHANGED <<mem, t>>
    /\ UNCHANGED <<req, live, result, frees>>

(***************************************************************************)
(* A client fills the memory it holds (the kernel's clients memset theirs, *)
(* and main stores through the pointer).                                   *)
(***************************************************************************)
ClientWrite(g, v) ==
    /\ pc = "idle"
    /\ LET own == g.ptr .. g.ptr + g.size - 1
       IN  \/ /\ own \subseteq Memory
             /\ mem' = [a \in Memory |-> IF a \in own THEN v ELSE mem[a]]
             /\ UNCHANGED pc
          \/ /\ ~ own \subseteq Memory
             /\ pc' = "wild"
             /\ UNCHANGED mem
    /\ UNCHANGED <<t, req, live, result, frees>>

Calls ==
    \/ \E n \in Sizes, align \in BOOLEAN : kmalloc(n, align)
    \/ kmalloc_no_heap
    \/ \E g \in live : kfree(g)
    \/ kfree_null
    \/ \E g \in live, v \in Data : ClientWrite(g, v)

Loops == alloc_step \/ free_step \/ merge_step

Next == Calls \/ Loops

Spec == Init /\ [][Next]_vars

-----------------------------------------------------------------------------
(***************************************************************************)
(* The memory, the cursor and the clients' books have their types.  In     *)
(* particular every address the code computes stays a 32-bit number.       *)
(***************************************************************************)
TypeOK ==
    /\ mem \in [Memory -> Word]
    /\ pc \in {"idle", "alloc", "free", "merge", "wild"}
    /\ t \in Word
    /\ req \in [size : Sizes \cup {0}, align : BOOLEAN, ptr : Word]
    /\ \A g \in live : g.id \in 1 .. MaxLive /\ g.ptr \in Word /\ g.size \in Sizes
    /\ result \in Word
    /\ frees \in 0 .. MaxFrees

(* What the heap can hold in one piece, as alloc_init computes it. *)
Capacity == (brk - start) - BLOCKSIZE

(***************************************************************************)
(* As long as nothing is freed, where an allocation lies depends on its    *)
(* alignment alone: right behind the head's header, or at the first page   *)
(* boundary behind it, however many allocations are live.                  *)
(***************************************************************************)
FixedPlacement ==
    \A g \in live : frees = 0 /\ g.size <= Capacity =>
        g.ptr = IF g.align THEN AlignUp(DataOf(start)) ELSE DataOf(start)

-----------------------------------------------------------------------------
(* What the comments of the repository say, and the code does not do.      *)

(***************************************************************************)
(* alloc.c:33 describes alloc_area_split as "either breaks region or not": *)
(* what is handed out is broken off the region or is the region, so two    *)
(* allocations that are both live share no word.                           *)
(***************************************************************************)
LiveGrantsDisjoint ==
    \A g, h \in live : g # h =>
        (g.ptr .. g.ptr + g.size - 1) \cap (h.ptr .. h.ptr + h.size - 1) = {}
=============================================================================
