------------------------------ MODULE Startup ------------------------------
(***************************************************************************)
(* What the init calls do: those of early_printk.c's kind register a       *)
(* console, the others (timer_init) are none of the console list's         *)
(* business.  Composes InitCalls, which makes the calls, with Console,     *)
(* whose list they fill; when main waits, consoles come and go freely.     *)
(***************************************************************************)
EXTENDS Console

CONSTANTS
    Orders,   \* the orders of functions that a level's section may hold
    None      \* exit calls not made

(* A function is a console, which it registers, or something else. *)
ASSUME StartupAssumption ==
    /\ <<>> \in Orders /\ None \notin Orders
    /\ Orders \subseteq Seq(UNION {ToSet(o) : o \in Orders})
    /\ \A o \in Orders : IsInjective(o)

VARIABLES initcalls, exitcalls, stage, loop, call, done, undone

Calls == INSTANCE InitCalls

calls == <<initcalls, exitcalls, stage, loop, call, done, undone>>

(* A function's address is taken in one section only. *)
StartupInit ==
    /\ initcalls \in [Calls!Levels -> Orders]
    /\ IsInjective(Calls!InitTable)
    /\ exitcalls = [l \in Calls!ExitLevels |-> initcalls[l]]
    /\ Calls!Init
    /\ Init

-----------------------------------------------------------------------------
(* The loops of the levels, between two calls. *)
Loop == (Calls!do_initcalls \/ Calls!InitReturn) /\ UNCHANGED vars

(* early_printk_init, and any other function that registers a console. *)
early_printk_init ==
    /\ Calls!InitCall
    /\ Last(done') \in Nodes
    /\ console_register(Last(done'))

OtherInitCall ==
    /\ Calls!InitCall
    /\ Last(done') \notin Nodes
    /\ UNCHANGED vars

Running == stage = Calls!Running

Consoles == Running /\ Next /\ UNCHANGED calls

Exits == (\E l \in Calls!ExitLevels : Calls!do_exitcalls(l)) /\ UNCHANGED vars

StartupNext == Loop \/ early_printk_init \/ OtherInitCall \/ Consoles \/ Exits

StartupSpec == StartupInit /\ [][StartupNext]_<<vars, calls>>

-----------------------------------------------------------------------------
(* The types of both components' variables. *)
StartupTypeOK == TypeOK /\ Calls!TypeOK

(***************************************************************************)
(* Booting makes the init calls of the early, the arch and the core level, *)
(* each once, a level after the one before it and in link order within it, *)
(* whichever of the sections are empty (module.c:55-95, link.ld:18-31).    *)
(***************************************************************************)
InitInOrder == StartupTypeOK /\ Calls!InitInOrder

(***************************************************************************)
(* Link order decides where the kernel prints: until main waits, the list  *)
(* holds the consoles whose calls have been made, the last first, and putc *)
(* writes to the last of them of index 0                                   *)
(* (module.c:55-95, console.c:15-17).                                      *)
(***************************************************************************)
LinkOrderDecides ==
    LET list  == Elements(m, consoles)
        made  == {k \in DOMAIN done : done[k] \in Nodes}
        zeros == {k \in made : index[done[k]] = 0}
    IN  ~ Running =>
            /\ IsInjective(list) /\ ToSet(list) = {done[k] : k \in made}
            /\ \A i, j \in DOMAIN list : i < j =>
                   \E k, l \in made : l < k /\ list[i] = done[k] /\ list[j] = done[l]
            /\ early = IF zeros = {} THEN NULL ELSE done[Max(zeros)]
=============================================================================
