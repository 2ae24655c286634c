------------------------------ MODULE ListOps ------------------------------
(***************************************************************************)
(* The operations of include/zion/list.h, on the memory that holds the     *)
(* list_heads: m.next and m.prev give the fields of each.  Address 0 can   *)
(* be read too, and reads as 0.                                            *)
(***************************************************************************)
EXTENDS Integers, FiniteSets, FiniteSetsExt

CONSTANTS
    Nodes,     \* the list_heads embedded in entries
    Heads,     \* the list_heads that stand for lists
    NULL

ASSUME ListAssumption ==
    /\ IsFiniteSet(Nodes) /\ IsFiniteSet(Heads)
    /\ Nodes \cap Heads = {} /\ NULL \notin Nodes \cup Heads

Cells == Nodes \cup Heads \cup {NULL}

(* Memory in which nothing is initialised but the heads (LIST_HEAD). *)
FreshMemory ==
    LET field == [a \in Cells |-> IF a \in Heads THEN a ELSE NULL]
    IN  [next |-> field, prev |-> field]

(* The cells that a field of the list_heads leads to, from a on.           *)
Trail(field, a) ==
    LET at[k \in Nat] == IF k = 0 THEN a ELSE field[at[k - 1]] IN at

(* The entries of h's list in order, as list_for_each meets them. *)
Elements(m, h) ==
    LET at   == Trail(m.next, h)
        ends == {k \in 0 .. Cardinality(Nodes) : at[k + 1] \in {h, NULL}}
    IN  [k \in 1 .. (IF ends = {} THEN Cardinality(Nodes) ELSE Min(ends)) |-> at[k]]

-----------------------------------------------------------------------------
INIT_LIST_HEAD(m, a) ==
    [next |-> [m.next EXCEPT ![a] = a], prev |-> [m.prev EXCEPT ![a] = a]]

(* mutated: the entry after the new one is not linked back to it *)
list_insert_forgets(m, new, prev, next) ==
    [next |-> [m.next EXCEPT ![new] = next, ![prev] = new],
     prev |-> [m.prev EXCEPT ![new] = prev]]
(* __list_add *)
list_insert(m, new, prev, next) ==
    [next |-> [m.next EXCEPT ![new] = next, ![prev] = new],
     prev |-> [m.prev EXCEPT ![next] = new, ![new] = prev]]

list_add(m, new, h) == list_insert(m, new, h, m.next[h])
list_add_tail(m, new, h) == list_insert(m, new, m.prev[h], h)

(* __list_del *)
list_unlink(m, prev, next) ==
    [next |-> [m.next EXCEPT ![prev] = next], prev |-> [m.prev EXCEPT ![next] = prev]]

list_del(m, entry) ==
    LET u == list_unlink(m, m.prev[entry], m.next[entry])
    IN  [next |-> [u.next EXCEPT ![entry] = NULL], prev |-> [u.prev EXCEPT ![entry] = NULL]]

list_del_init(m, entry) ==
    INIT_LIST_HEAD(list_unlink(m, m.prev[entry], m.next[entry]), entry)

(* mutated: the place to insert at is read before the entry is unlinked *)
list_move_early(m, entry, h) ==
    list_insert(list_unlink(m, m.prev[entry], m.next[entry]), entry, h, m.next[h])
list_move(m, entry, h) ==
    list_add(list_unlink(m, m.prev[entry], m.next[entry]), entry, h)

list_move_tail(m, entry, h) ==
    list_add_tail(list_unlink(m, m.prev[entry], m.next[entry]), entry, h)

list_empty(m, h) == m.next[h] = h

(* __list_splice: in the order of the code, the ends of the list first. *)
list_join(m, list, h) ==
    LET first == m.next[list]
        last  == m.prev[list]
        at    == m.next[h]
    IN  [next |-> [[m.next EXCEPT ![h] = first] EXCEPT ![last] = at],
         prev |-> [[m.prev EXCEPT ![first] = h] EXCEPT ![at] = last]]

list_splice(m, list, h) == IF list_empty(m, list) THEN m ELSE list_join(m, list, h)

list_splice_init(m, list, h) ==
    IF list_empty(m, list) THEN m ELSE INIT_LIST_HEAD(list_join(m, list, h), list)
=============================================================================
