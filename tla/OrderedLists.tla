---------------------------- MODULE OrderedLists ----------------------------
(***************************************************************************)
(* What list.h promises: each head is an ordered list of entries, an entry *)
(* is in at most one of them, and an operation changes the order of no     *)
(* entry it was not asked to move.                                         *)
(***************************************************************************)
EXTENDS Sequences, SequencesExt

CONSTANTS Entries, Names     \* the entries, and the names of the lists

VARIABLE lists               \* the entries of each list, first to last

Init == lists = [h \in Names |-> <<>>]

In(e) == {h \in Names : e \in ToSet(lists[h])}

Insert(e, h) ==
    /\ In(e) = {}
    /\ \E s \in {<<e>> \o lists[h], lists[h] \o <<e>>} : lists' = [lists EXCEPT ![h] = s]

Delete(e) ==
    \E h \in In(e) : lists' = [lists EXCEPT ![h] = RemoveFirst(lists[h], e)]

(* The entry goes to one end of a list, perhaps of the list it is in. *)
Move(e, h) ==
    LET without == [g \in Names |-> RemoveFirst(lists[g], e)]
    IN  /\ In(e) # {}
        /\ \E s \in {<<e>> \o without[h], without[h] \o <<e>>} :
                lists' = [g \in Names |-> IF g = h THEN s ELSE without[g]]

(* All of g's entries go, in their order, before h's. *)
Splice(g, h) ==
    /\ g # h
    /\ lists' = [lists EXCEPT ![g] = <<>>, ![h] = lists[g] \o @]

Next ==
    \/ \E e \in Entries, h \in Names : Insert(e, h) \/ Move(e, h)
    \/ \E e \in Entries : Delete(e)
    \/ \E g, h \in Names : Splice(g, h)

Spec == Init /\ [][Next]_lists
=============================================================================
