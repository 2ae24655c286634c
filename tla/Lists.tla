------------------------------- MODULE Lists -------------------------------
(***************************************************************************)
(* The lists of include/zion/list.h in use: any sequence of its operations *)
(* that respects what each of them needs (only an entry that is in no list *)
(* is added, only one that is in a list is deleted or moved), and a walk   *)
(* with list_for_each_safe whose body may delete the entry it is at.       *)
(***************************************************************************)
EXTENDS ListOps, Sequences, SequencesExt

VARIABLES
    m,        \* the list_heads
    stale,    \* the heads whose entries list_splice has taken away
    walk,     \* the walk in progress: its head, pos and n
    visited,  \* the entries the walk has been at
    expected  \* history: the entries of the list when the walk began

vars == <<m, stale, walk, visited, expected>>

NoWalk == [head |-> NULL, pos |-> NULL, n |-> NULL]

Init ==
    /\ m = FreshMemory
    /\ stale = {}
    /\ walk = NoWalk
    /\ visited = <<>> /\ expected = <<>>

Usable == Heads \ stale
Linked == UNION {ToSet(Elements(m, h)) : h \in Usable}

Idle == walk = NoWalk
Keeps == UNCHANGED <<stale, walk, visited, expected>>

Add(e, h) ==
    /\ Idle /\ e \notin Linked
    /\ m' \in {list_add(m, e, h), list_add_tail(m, e, h)}
    /\ Keeps

Del(e) ==
    /\ Idle /\ e \in Linked
    /\ m' \in {list_del(m, e), list_del_init(m, e)}
    /\ Keeps

Move(e, h) ==
    /\ Idle /\ e \in Linked
    /\ m' \in {list_move(m, e, h), list_move_tail(m, e, h)}
    /\ Keeps

(* After list_splice the head of the list that was joined is out of date. *)
Splice(g, h) ==
    /\ Idle /\ g # h
    /\ m' = list_splice(m, g, h)
    /\ stale' = IF list_empty(m, g) THEN stale ELSE stale \cup {g}
    /\ UNCHANGED <<walk, visited, expected>>

SpliceInit(g, h) ==
    /\ Idle /\ g # h
    /\ m' = list_splice_init(m, g, h)
    /\ Keeps

Reinit(h) ==
    /\ Idle /\ h \in stale
    /\ m' = INIT_LIST_HEAD(m, h)
    /\ stale' = stale \ {h}
    /\ UNCHANGED <<walk, visited, expected>>

(***************************************************************************)
(* list_for_each_safe(pos, n, head): the start of the loop, and one turn,  *)
(* whose body deletes pos or leaves it.                                    *)
(***************************************************************************)
Begin(h) ==
    /\ Idle
    /\ walk' = [head |-> h, pos |-> m.next[h], n |-> m.next[m.next[h]]]
    /\ visited' = <<>>
    /\ expected' = Elements(m, h)
    /\ UNCHANGED <<m, stale>>

Walking == ~ Idle /\ walk.pos # walk.head

(* mutated: the step of list_for_each, which reads the entry it is at *)
AdvanceUnsafe(mem) == [walk EXCEPT !.pos = mem.next[walk.pos]]
Advance(mem) == [walk EXCEPT !.pos = walk.n, !.n = mem.next[walk.n]]

Turn ==
    /\ Walking /\ Len(visited) <= Cardinality(Nodes)
    /\ m' \in {m, list_del(m, walk.pos), list_del_init(m, walk.pos)}
    /\ visited' = Append(visited, walk.pos)
    /\ walk' = Advance(m')
    /\ UNCHANGED <<stale, expected>>

End ==
    /\ ~ Idle /\ ~ Walking
    /\ walk' = NoWalk
    /\ visited' = <<>> /\ expected' = <<>>
    /\ UNCHANGED <<m, stale>>

Next ==
    \/ \E e \in Nodes, h \in Usable : Add(e, h) \/ Move(e, h)
    \/ \E e \in Nodes : Del(e)
    \/ \E g, h \in Usable : Splice(g, h) \/ SpliceInit(g, h)
    \/ \E h \in Heads : Reinit(h)
    \/ \E h \in Usable : Begin(h)
    \/ Turn \/ End

Spec == Init /\ [][Next]_vars

-----------------------------------------------------------------------------
TypeOK ==
    /\ m \in [next : [Cells -> Cells], prev : [Cells -> Cells]]
    /\ stale \subseteq Heads
    /\ walk \in [head : Heads \cup {NULL}, pos : Cells, n : Cells]
    /\ visited \in Seq(Nodes) /\ expected \in Seq(Nodes)

(***************************************************************************)
(* Every list is a ring: read backwards along prev it is the same list, so *)
(* an entry can be unlinked by what its own two fields say.                *)
(***************************************************************************)
RingsIntact ==
    /\ TypeOK
    /\ \A h \in Usable :
           Elements([next |-> m.prev, prev |-> m.next], h) = Reverse(Elements(m, h))

(***************************************************************************)
(* A walk with list_for_each_safe is at every entry the list had when it   *)
(* began, once and in order, whichever of them its body deletes on the way *)
(* (list.h:206).                                                           *)
(***************************************************************************)
WalkIsComplete ==
    ~ Idle => /\ IsPrefix(visited, expected)
              /\ Walking <=> visited # expected

(***************************************************************************)
(* The pointers implement ordered lists of entries.                        *)
(***************************************************************************)
Implements == INSTANCE OrderedLists WITH
    Entries <- Nodes, Names <- Heads,
    lists <- [h \in Heads |-> IF h \in stale THEN <<>> ELSE Elements(m, h)]

AreOrderedLists == Implements!Spec
=============================================================================
