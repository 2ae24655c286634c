----------------------------- MODULE Allocator -----------------------------
(***************************************************************************)
(* What a memory allocator promises its clients, whatever its bookkeeping: *)
(* an extent that is handed out stays its client's own until it is given   *)
(* back.  BootMem implements this specification (and the implementation is *)
(* proved); KernelHeap, which has the same interface, does not.            *)
(***************************************************************************)
EXTENDS Integers

CONSTANTS Extents    \* the extents [ptr |-> address, size |-> length] that exist

VARIABLE held        \* the extents that clients own

(***************************************************************************)
(* Two extents share an address.                                           *)
(***************************************************************************)
Overlap(a, b) == a.ptr < b.ptr + b.size /\ b.ptr < a.ptr + a.size

Init == held = {}

Grant(e) ==
    /\ \A h \in held : ~ Overlap(e, h)
    /\ held' = held \cup {e}

Release(e) ==
    /\ e \in held
    /\ held' = held \ {e}

Next ==
    \/ \E e \in held' : e \in Extents /\ Grant(e)
    \/ \E e \in held : Release(e)

Spec == Init /\ [][Next]_held
=============================================================================
