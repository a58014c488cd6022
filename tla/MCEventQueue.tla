---------------------------- MODULE MCEventQueue ----------------------------
(* Three events of one priority and one of another, on two ticks. *)
EXTENDS EventQueue, TLC
CONSTANTS e1, e2, e3, late
MCEvents == {e1, e2, e3, late}
MCPriority == [e \in MCEvents |-> IF e = late THEN 50 ELSE 0]
Symmetry == Permutations({e1, e2, e3})
=============================================================================
