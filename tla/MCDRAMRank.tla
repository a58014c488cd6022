----------------------------- MODULE MCDRAMRank -----------------------------
(* Small times in the order of DDR3's, for two channels.  In the first, two *)
(* banks of a rank share the window of activates; in the second, the ranks  *)
(* take turns on the bus.                                                   *)
EXTENDS DRAMRank

TwoBanks == [ranks |-> {0}, banks |-> {0, 1}, activationLimit |-> 2]
TwoRanks == [ranks |-> {0, 1}, banks |-> {0}, activationLimit |-> 0]
MCConfigs == {TwoBanks, TwoRanks}
MCGroup == [b \in {0, 1} |-> 0]
=============================================================================
