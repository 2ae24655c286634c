-------------------------- MODULE ConsoleRegistry --------------------------
(***************************************************************************)
(* What console.c promises: the registered consoles, the latest first;     *)
(* looking an index up finds the latest console that has it; the console   *)
(* the kernel prints to is the last one that was registered with index 0.  *)
(***************************************************************************)
EXTENDS Sequences, SequencesExt, FiniteSetsExt

CONSTANTS Consoles, index, None

VARIABLES registered, primary, found

vars == <<registered, primary, found>>

Init == registered = <<>> /\ primary = None /\ found = None

Register(c) ==
    /\ c \notin ToSet(registered)
    /\ registered' = <<c>> \o registered
    /\ primary' = IF index[c] = 0 THEN c ELSE primary
    /\ UNCHANGED found

Unregister(c) ==
    /\ c \in ToSet(registered)
    /\ registered' = RemoveFirst(registered, c)
    /\ UNCHANGED <<primary, found>>

LookUp(i) ==
    LET matches == {k \in DOMAIN registered : index[registered[k]] = i}
    IN  /\ found' = IF matches = {} THEN None ELSE registered[Min(matches)]
        /\ UNCHANGED <<registered, primary>>

Next ==
    \/ \E c \in Consoles : Register(c) \/ Unregister(c)
    \/ \E i \in {index[c] : c \in Consoles} : LookUp(i)

Spec == Init /\ [][Next]_vars
=============================================================================
