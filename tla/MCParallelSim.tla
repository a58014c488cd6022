---------------------------- MODULE MCParallelSim ----------------------------
(* One event that travels between the threads, and two requests for a global *)
(* event of priority GlobalPriority: Sim_Exit_Pri or Stat_Event_Pri.          *)
EXTENDS ParallelSim
CONSTANTS l1, g1, g2, GlobalPriority
MCPriority == [e \in {l1, g1, g2} |-> IF e = l1 THEN 0 ELSE GlobalPriority]
=============================================================================
