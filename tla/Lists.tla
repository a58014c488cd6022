-------------------------------- MODULE Lists --------------------------------
(* The operators on lists that the models with proofs share. *)
EXTENDS Integers, Sequences, FiniteSets

(* list with x at position i, what was there and after it one further *)
InsertAt(list, i, x) == SubSeq(list, 1, i - 1) \o <<x>> \o SubSeq(list, i, Len(list))

RemoveAt(list, i) == SubSeq(list, 1, i - 1) \o SubSeq(list, i + 1, Len(list))

Last(list) == list[Len(list)]

(* The members of a finite set, in some order *)
Listed(S) == CHOOSE list \in [1 .. Cardinality(S) -> S] : S = {list[i] : i \in DOMAIN list}
=============================================================================
