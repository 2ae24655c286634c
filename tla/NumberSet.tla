----------------------------- MODULE NumberSet -----------------------------
(***************************************************************************)
(* What a bitset promises: it is a set of numbers below a limit, a number  *)
(* can be added, removed and looked up, and the search returns the least   *)
(* number that is missing, or -1 when none is.                             *)
(***************************************************************************)
EXTENDS Integers

CONSTANT Numbers        \* 0 .. limit - 1

VARIABLES members, answer

vars == <<members, answer>>

Init == members = {} /\ answer = -1

Add(n) == members' = members \cup {n} /\ UNCHANGED answer

Remove(n) == members' = members \ {n} /\ UNCHANGED answer

LookUp(n) == answer' = (IF n \in members THEN 1 ELSE 0) /\ UNCHANGED members

IsLeastMissing(n) ==
    /\ n \in Numbers \ members
    /\ \A m \in Numbers \ members : n <= m

Search ==
    /\ \/ IsLeastMissing(answer')
       \/ Numbers \subseteq members /\ answer' = -1
    /\ UNCHANGED members

Next ==
    \/ \E n \in Numbers : Add(n) \/ Remove(n) \/ LookUp(n)
    \/ Search

Spec == Init /\ [][Next]_vars
=============================================================================
