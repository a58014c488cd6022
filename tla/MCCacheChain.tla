---------------------------- MODULE MCCacheChain ----------------------------
(* Instances of CacheChain for TLC. *)
EXTENDS CacheChain

CONSTANTS z, a, b, c

TwoBlocks == {a, b}
ThreeBlocks == {a, b, c}
WithZero == {z, a, b}
NoOverlap == {}
AfterSend == {"afterSend"}
BeforeSend == {"beforeSend"}
RowsAB == {<<a>>, <<b>>}
=============================================================================
