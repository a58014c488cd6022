------------------------- MODULE MCRowOpTranslation -------------------------
(* Instances of RowOpTranslation for TLC: two row operations share one     *)
(* walker.                                                                 *)
EXTENDS RowOpTranslation

CONSTANTS i1, i2

TwoInsts == {i1, i2}
OneOfEach == {"ROWAP", "ROWAAP", "ROWAND"}
BothCpus == {"o3", "timing"}
OnlyO3 == {"o3"}
BothSystems == BOOLEAN
SyscallEmulation == {FALSE}
FullSystemOnly == {TRUE}
=============================================================================
