-------------------------------- MODULE MCXBar --------------------------------
(* Masters m1 to m3 and slaves s1, s2; m1 uses both slaves. *)
EXTENDS XBar
CONSTANTS m1, m2, m3, s1, s2, p1, p2, p3, p4, p5
MCOwner ==
    [p \in Packets |-> CASE p \in {p1, p4} -> m1 [] p \in {p2, p5} -> m2 [] OTHER -> m3]
MCfindPort == [p \in Packets |-> IF p \in {p4, p5} THEN s2 ELSE s1]
=============================================================================
