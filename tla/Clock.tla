------------------------------- MODULE Clock -------------------------------
(***************************************************************************)
(* What jiffies and delay promise: every tick of the timer that is latched *)
(* is counted once, the count wraps, and a delay of n ends once n ticks    *)
(* have been counted, not before.                                          *)
(***************************************************************************)
EXTENDS Integers

CONSTANTS
    JMOD,      \* the count wraps here
    Spans      \* the delays, in ticks

VARIABLES
    now,       \* the count
    due,       \* ticks latched and not counted yet
    waiting,   \* a delay is in progress
    left       \* the ticks it still has to see

vars == <<now, due, waiting, left>>

Init == now = 0 /\ due = 0 /\ waiting = FALSE /\ left = 0

(* One tick in the interrupt controller, one on its way to the count. *)
Latch == due < 2 /\ due' = due + 1 /\ UNCHANGED <<now, waiting, left>>

Count ==
    /\ due > 0
    /\ due' = due - 1
    /\ now' = (now + 1) % JMOD
    /\ left' = IF left > 0 THEN left - 1 ELSE 0
    /\ UNCHANGED waiting

Start(n) ==
    /\ ~ waiting
    /\ waiting' = TRUE
    /\ left' = n
    /\ UNCHANGED <<now, due>>

Return ==
    /\ waiting /\ left = 0
    /\ waiting' = FALSE
    /\ UNCHANGED <<now, due, left>>

Next == Latch \/ Count \/ (\E n \in Spans : Start(n)) \/ Return

Spec == Init /\ [][Next]_vars
=============================================================================
