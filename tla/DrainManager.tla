----------------------------- MODULE DrainManager -----------------------------
(***************************************************************************)
(* The drain manager and the drain state every Drainable object keeps for  *)
(* it.  The operators work on a manager m; exit says that the exit event   *)
(* "Finished drain" is scheduled.                                          *)
(***************************************************************************)
EXTENDS Integers, FiniteSets

CONSTANT Drainable  \* the objects

AllAre(s) == [o \in Drainable |-> s]

RunningManager ==
    [state |-> "Running", count |-> 0, drainState |-> AllAre("Running"), exit |-> FALSE]

(* busy are the objects whose drain() answers Draining. *)
tryDrain(m, busy) ==
    LET left == m.count + Cardinality(busy)
    IN [state      |-> IF left = 0 THEN "Drained" ELSE "Draining",
        count      |-> left,
        drainState |-> [o \in Drainable |-> IF o \in busy THEN "Draining" ELSE "Drained"],
        exit       |-> FALSE]

(* Mutants: the state of the object is not looked at; the exit event comes *)
(* one signal too late.                                                    *)
signalDrainDone_always(m, o) ==
    [m EXCEPT !.drainState[o] = "Drained", !.count = @ - 1,
              !.exit = @ \/ m.count = 1]
signalDrainDone_late(m, o) ==
    IF m.drainState[o] # "Draining" THEN m
    ELSE [m EXCEPT !.drainState[o] = "Drained", !.count = @ - 1,
                   !.exit = @ \/ m.count = 0]

(* Drainable::signalDrainDone, and the manager's part of it *)
signalDrainDone(m, o) ==
    IF m.drainState[o] # "Draining" THEN m
    ELSE [m EXCEPT !.drainState[o] = "Drained", !.count = @ - 1,
                   !.exit = @ \/ m.count = 1]

resume(m) == [m EXCEPT !.state = "Running", !.drainState = AllAre("Running")]

preCheckpointRestore(m) ==
    [m EXCEPT !.state = "Drained", !.drainState = AllAre("Drained")]
=============================================================================
