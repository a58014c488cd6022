----------------------------- MODULE MemService -----------------------------
(***************************************************************************)
(* What a memory promises its port about reads: an accepted read is        *)
(* answered exactly once, at once or later, and then may be issued again.  *)
(***************************************************************************)
EXTENDS Naturals

CONSTANT Reads

VARIABLES
  outstanding,   \* reads accepted and not yet taken back by the port
  answers        \* per read: responses produced and not yet taken

vars == <<outstanding, answers>>

Init ==
  /\ outstanding = {}
  /\ answers = [r \in Reads |-> 0]

Accept(r) ==
  /\ r \notin outstanding
  /\ outstanding' = outstanding \cup {r}
  /\ UNCHANGED answers

Answer(r) ==
  /\ r \in outstanding /\ answers[r] = 0
  /\ answers' = [answers EXCEPT ![r] = 1]
  /\ UNCHANGED outstanding

AcceptAndAnswer(r) ==
  /\ r \notin outstanding /\ answers[r] = 0
  /\ outstanding' = outstanding \cup {r}
  /\ answers' = [answers EXCEPT ![r] = 1]

Take(r) ==
  /\ r \in outstanding /\ answers[r] = 1
  /\ outstanding' = outstanding \ {r}
  /\ answers' = [answers EXCEPT ![r] = 0]

Next == \E r \in Reads : Accept(r) \/ Answer(r) \/ AcceptAndAnswer(r) \/ Take(r)

Spec == Init /\ [][Next]_vars

=============================================================================
