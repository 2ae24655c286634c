----------------------------- MODULE InitCalls -----------------------------
(***************************************************************************)
(* kernel/module.c with module.h and link.ld: functions registered for     *)
(* initialisation and deinitialisation, which the linker gathers in two    *)
(* tables, level by level, and the loops that walk a level's part.         *)
(* Levels: 0 early, 1 arch, 2 core, 3 module.                              *)
(***************************************************************************)
EXTENDS Integers, Sequences, SequencesExt

CONSTANTS
    Orders,   \* the orders of functions that a level's section may hold
    None      \* not called

VARIABLES
    initcalls, exitcalls,   \* what the sources register, by level, in link order
    stage,                  \* the level being initialised; Running after that
    loop,                   \* the walk in progress: its level, or none
    call,                   \* its pointer into the table
    done,                   \* the init calls made, first to last
    undone                  \* the exit calls made, by level

vars == <<initcalls, exitcalls, stage, loop, call, done, undone>>

Levels == 0 .. 3
ExitLevels == 1 .. 3        \* there is no early_exit
Running == 3                \* arch_main and main never initialise the modules
NoLoop == -1

(***************************************************************************)
(* link.ld: .text.init gathers .module0.init to .module3.init, and each    *)
(* level's symbols stand at its begin and end.  early_init and the others  *)
(* put a pointer into the section of their level.                          *)
(***************************************************************************)
InitTable == FlattenSeq([i \in 1 .. 4 |-> initcalls[i - 1]])

(* mutated: a level's symbol stands behind its first call *)
init_begin_late(l) == 2 + Len(FlattenSeq([i \in 1 .. l |-> initcalls[i - 1]]))
init_begin(l) == 1 + Len(FlattenSeq([i \in 1 .. l |-> initcalls[i - 1]]))
init_end(l) == 1 + Len(FlattenSeq([i \in 1 .. l + 1 |-> initcalls[i - 1]]))

(***************************************************************************)
(* .text.exit gathers .module1.exit to .module3.exit.  arch_exit and the   *)
(* others stringize the level inside the name, so that their pointers are  *)
(* in sections called .module"1".exit: the table gathers none of them.     *)
(***************************************************************************)
Gathered(l) == <<>>
ExitTable == FlattenSeq([i \in ExitLevels |-> Gathered(i)])
exit_begin(l) == 1 + Len(FlattenSeq([i \in 1 .. l - 1 |-> Gathered(i)]))
exit_end(l) == 1 + Len(FlattenSeq([i \in 1 .. l |-> Gathered(i)]))

Init ==
    /\ initcalls \in [Levels -> Orders] /\ exitcalls \in [ExitLevels -> Orders]
    /\ stage = 0 /\ loop = NoLoop /\ call = 0
    /\ done = <<>> /\ undone = [l \in ExitLevels |-> None]

Registrations == <<initcalls, exitcalls>>

-----------------------------------------------------------------------------
(* do_initcalls_early, _arch, _core: their loops, as arch_main and main    *)
(* call them, one after the other.                                         *)
do_initcalls ==
    /\ stage < Running /\ loop = NoLoop
    /\ loop' = stage
    /\ call' = init_begin(stage)
    /\ UNCHANGED <<Registrations, stage, done, undone>>

InitCall ==
    /\ stage < Running /\ loop # NoLoop /\ call < init_end(loop)
    /\ done' = Append(done, InitTable[call])
    /\ call' = call + 1
    /\ UNCHANGED <<Registrations, stage, loop, undone>>

InitReturn ==
    /\ stage < Running /\ loop # NoLoop /\ call >= init_end(loop)
    /\ stage' = stage + 1
    /\ loop' = NoLoop
    /\ UNCHANGED <<Registrations, call, done, undone>>

(* do_exitcalls_arch, _core, _module: the level's part of the table from   *)
(* its end down, in one step.  main's own call stands behind a loop that   *)
(* does not end; whoever stops a level calls its function once.            *)
do_exitcalls(l) ==
    /\ stage = Running /\ undone[l] = None
    /\ undone' = [undone EXCEPT ![l] =
                      Reverse(SubSeq(ExitTable, exit_begin(l), exit_end(l) - 1))]
    /\ UNCHANGED <<Registrations, stage, loop, call, done>>

Next ==
    \/ do_initcalls \/ InitCall \/ InitReturn
    \/ \E l \in ExitLevels : do_exitcalls(l)

Spec == Init /\ [][Next]_vars
-----------------------------------------------------------------------------
TypeOK ==
    /\ initcalls \in [Levels -> Orders] /\ exitcalls \in [ExitLevels -> Orders]
    /\ stage \in 0 .. Running
    /\ loop \in Levels \cup {NoLoop}
    /\ call \in 0 .. Len(InitTable) + 1
    /\ done \in Seq(ToSet(InitTable))
    /\ undone \in [ExitLevels -> {None} \cup Orders]

(***************************************************************************)
(* Booting makes the init calls of the early, the arch and the core level, *)
(* each once, a level after the one before it and in link order within it, *)
(* whichever of the sections are empty (module.c:55-95, link.ld:18-31).    *)
(***************************************************************************)
InitInOrder ==
    LET due == initcalls[0] \o initcalls[1] \o initcalls[2]
    IN  /\ IsPrefix(done, due)
        /\ stage = Running => done = due

(***************************************************************************)
(* "Deinitialize in reverse" (module.c:77): a level whose exit calls have  *)
(* been made has had all of those registered for it made, last to first.   *)
(***************************************************************************)
ExitInReverse ==
    \A l \in ExitLevels : undone[l] # None => undone[l] = Reverse(exitcalls[l])
=============================================================================
