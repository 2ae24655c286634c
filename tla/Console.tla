------------------------------- MODULE Console -------------------------------
(***************************************************************************)
(* kernel/console.c: the consoles on a list_head ring, and early, the one  *)
(* that putc writes to.  A console is registered at most once at a time    *)
(* (list_add on a linked entry would cut the ring).                        *)
(***************************************************************************)
EXTENDS ListOps, Sequences, SequencesExt

CONSTANTS
    consoles,   \* the head of the list
    index       \* struct console's index, by console

ASSUME ConsoleAssumption ==
    /\ Heads = {consoles}
    /\ index \in [Nodes -> Nat]

VARIABLES
    m,        \* the list_heads of the consoles and the head
    early,    \* the console that putc writes to
    found     \* what console_get has returned last

vars == <<m, early, found>>

Init ==
    /\ m = FreshMemory
    /\ early = NULL /\ found = NULL

Registered == ToSet(Elements(m, consoles))

(* mutated: the new console goes to the end of the list *)
link_at_end(c) == list_add_tail(m, c, consoles)
link(c) == list_add(m, c, consoles)

(* mutated: only the first console of index 0 becomes the early one *)
early_once(c) == IF index[c] = 0 /\ early = NULL THEN c ELSE early
early_after(c) == IF index[c] = 0 THEN c ELSE early

(* The setup of the VGA console is in Terminal. *)
console_register(c) ==
    /\ c \notin Registered
    /\ early' = early_after(c)
    /\ m' = link(c)
    /\ UNCHANGED found

console_unregister(c) ==
    /\ c \in Registered
    /\ m' = list_del(m, c)
    /\ UNCHANGED <<early, found>>

(* list_for_each_entry: where the walk for idx ends, the head if nowhere. *)
LastVisited(idx) ==
    LET at    == Trail(m.next, m.next[consoles])
        stops == {k \in 0 .. Cardinality(Nodes) : at[k] = consoles \/ index[at[k]] = idx}
    IN  at[Min(stops)]

answer(c) == IF c = consoles THEN NULL ELSE c

console_get(idx) ==
    /\ found' = answer(LastVisited(idx))
    /\ UNCHANGED <<m, early>>

Next ==
    \/ \E c \in Nodes : console_register(c) \/ console_unregister(c)
    \/ \E i \in {index[c] : c \in Nodes} : console_get(i)

Spec == Init /\ [][Next]_vars

-----------------------------------------------------------------------------
TypeOK ==
    /\ m \in [next : [Cells -> Cells], prev : [Cells -> Cells]]
    /\ early \in Nodes \cup {NULL} /\ found \in Nodes \cup {NULL}

(***************************************************************************)
(* The ring and the pointer implement the registry: console_get finds the  *)
(* latest registered console of an index, also after others of the same    *)
(* index have come and gone (console.c:9, 21, 49).                         *)
(***************************************************************************)
Registry == INSTANCE ConsoleRegistry WITH
    Consoles <- Nodes, None <- NULL,
    registered <- Elements(m, consoles), primary <- early

IsRegistry == Registry!Spec

(***************************************************************************)
(* Pointer and list are updated apart, yet agree as long as the early      *)
(* console is registered: it is the one console_get(0) would find          *)
(* (console.c:15, 53), and without one nothing of index 0 is in the list.  *)
(***************************************************************************)
EarlyIsFirst ==
    LET list  == Elements(m, consoles)
        zeros == {k \in DOMAIN list : index[list[k]] = 0}
    IN  early \in Registered \cup {NULL} =>
            early = IF zeros = {} THEN NULL ELSE list[Min(zeros)]
=============================================================================
