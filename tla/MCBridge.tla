------------------------------- MODULE MCBridge -------------------------------
(* An instance of Bridge for TLC. *)
EXTENDS Bridge

CONSTANTS p1, p2, p3, p4, p5

FivePackets == {p1, p2, p3, p4, p5}
FourAnswered == {p1, p2, p3, p4}
=============================================================================
