---------------------------- MODULE MCDrainSystem ----------------------------
(* A DMA transfer of two packets, a CPU and two snoop responses. *)
EXTENDS DrainSystem
CONSTANTS d1, d2, c1, c2, s1, s2
=============================================================================
