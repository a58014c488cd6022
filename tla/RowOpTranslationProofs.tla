------------------------ MODULE RowOpTranslationProofs ------------------------
(***************************************************************************)
(* Proofs about the translation of row operations, for every set of row    *)
(* operations in flight, every CPU model and every walker parameter.       *)
(*                                                                         *)
(* The argument is a count.  numOutstanding of a translation state is the  *)
(* number of rows that are still due: the ones in the walker's queue and   *)
(* the ones writeMem has not come to.  So the row that brings it to zero   *)
(* is the last one, the fault of the destination has been recorded by      *)
(* then, and a translation that has completed is never finished again.     *)
(***************************************************************************)
EXTENDS RowOpTranslation, TLAPS

(* The entries of a queue, and that none is in it twice *)
Items(q) == {q[k] : k \in 1..Len(q)}

Distinct(q) == \A j, k \in 1..Len(q) : q[j] = q[k] => j = k

(* The rows of i whose translation is still due *)
Pending(i) ==
    {p \in splitRowOp(op[i]) :
        <<i, p>> \in Items(currStates) \/ (busy = i /\ part <= p)}

(* How many rows a set of them holds *)
Count(P) == (IF 0 \in P THEN 1 ELSE 0) + (IF 1 \in P THEN 1 ELSE 0)
            + (IF 2 \in P THEN 1 ELSE 0)

(* f is a fault that row p of i can end with *)
FaultOf(i, p, f) ==
    \/ f = Outcome(i, p)
    \/ f = "Squashed" /\ cpu = "o3" /\ fullSystem

AllPhysical(i, d) == \A p \in splitRowOp(op[i]) : d[p] = "physical"

(* The walker holds each row once, and only rows writeMem is past *)
QueueOK ==
    /\ Distinct(currStates)
    /\ \A i \in Insts, p \in Parts :
          <<i, p>> \in Items(currStates) =>
              /\ p \in splitRowOp(op[i])
              /\ busy = i => p < part
    /\ fullSystem \/ currStates = <<>>

(* The translation state of i is live exactly while rows are due, and      *)
(* counts them; the rows that are not due have their fault recorded.       *)
StateOK(i) ==
    /\ state[i].live <=> Pending(i) # {}
    /\ state[i].live =>
          /\ state[i].outstanding = Count(Pending(i))
          /\ \A p \in splitRowOp(op[i]) \ Pending(i) :
                FaultOf(i, p, state[i].faults[p])
          /\ flags[i].started
          /\ ~flags[i].completed

(* A translation that was started is in progress or complete, and then the *)
(* instruction has the fault of the destination row.                       *)
FlagsOK(i) ==
    /\ flags[i].started => state[i].live \/ flags[i].completed
    /\ flags[i].completed => FaultOf(i, 0, fault[i])
    /\ status[i] = "ready" => ~flags[i].started
    /\ status[i] = "deferred" \/ busy = i => flags[i].started
    /\ status[i] = "deferred" => cpu = "o3" /\ fullSystem
    /\ status[i] = "squashed" => cpu = "o3"

(* Without a walker the payload is translated when writeMem gets to its    *)
(* end, in the frame that hands it on.                                     *)
DataOK(i) ==
    ~fullSystem /\ busy = i /\ flags[i].completed /\ bad[i] = {} =>
        AllPhysical(i, data[i])

SentOK(i) ==
    sent[i] # NoPayload =>
        /\ 0 \notin bad[i]
        /\ (cpu = "timing" \/ ~fullSystem) /\ bad[i] = {} =>
              AllPhysical(i, sent[i])

(* The inductive invariant *)
IInv ==
    /\ TypeOK
    /\ QueueOK
    /\ \A i \in Insts : StateOK(i) /\ FlagsOK(i) /\ DataOK(i) /\ SentOK(i)

-----------------------------------------------------------------------------
(* Facts about the operators *)

(* Appending a new entry to the walker's queue keeps its entries distinct. *)
LEMMA AppendItems ==
    ASSUME NEW S, NEW q \in Seq(S), NEW x \in S
    PROVE  /\ Items(Append(q, x)) = Items(q) \cup {x}
           /\ Distinct(q) /\ x \notin Items(q) => Distinct(Append(q, x))
<1>1. /\ Len(Append(q, x)) = Len(q) + 1 /\ Len(q) \in Nat
      /\ \A k \in 1..Len(q) : Append(q, x)[k] = q[k]
      /\ Append(q, x)[Len(q) + 1] = x
  OBVIOUS
<1>2. Items(Append(q, x)) = Items(q) \cup {x}
  BY <1>1 DEF Items
<1>3. ASSUME Distinct(q), x \notin Items(q)
      PROVE  Distinct(Append(q, x))
  BY <1>1, <1>3 DEF Distinct, Items
<1> QED
  BY <1>2, <1>3, Zenon

(* Taking the head off the walker's queue takes that entry out of it. *)
LEMMA TailItems ==
    ASSUME NEW S, NEW q \in Seq(S), q # <<>>, Distinct(q)
    PROVE  /\ Head(q) \in Items(q) /\ Head(q) \in S
           /\ Items(Tail(q)) = Items(q) \ {Head(q)}
           /\ Distinct(Tail(q))
           /\ Tail(q) \in Seq(S)
<1>1. /\ Len(q) \in Nat \ {0} /\ Tail(q) \in Seq(S) /\ Len(Tail(q)) = Len(q) - 1
      /\ \A k \in 1..Len(Tail(q)) : Tail(q)[k] = q[k + 1]
      /\ Head(q) = q[1]
      /\ \A k \in 1..Len(q) : q[k] \in S
  OBVIOUS
<1>2. Head(q) \in Items(q) /\ Head(q) \in S
  BY <1>1 DEF Items
<1>3. Distinct(Tail(q))
  BY <1>1 DEF Distinct
<1>4. ASSUME NEW x \in Items(Tail(q)) PROVE x \in Items(q) \ {Head(q)}
  <2>1. PICK k \in 1..Len(Tail(q)) : x = Tail(q)[k]
    BY Zenon DEF Items
  <2>2. x = q[k + 1] /\ k + 1 \in 1..Len(q) /\ k + 1 # 1 /\ 1 \in 1..Len(q)
    BY <1>1, <2>1
  <2> QED
    BY <1>1, <2>2, Zenon DEF Items, Distinct
<1>5. ASSUME NEW x \in Items(q) \ {Head(q)} PROVE x \in Items(Tail(q))
  <2>1. PICK k \in 1..Len(q) : x = q[k]
    BY Zenon DEF Items
  <2>2. k # 1 /\ k - 1 \in 1..Len(Tail(q)) /\ Tail(q)[k - 1] = q[k]
    BY <1>1, <2>1
  <2> QED
    BY <2>1, <2>2, Zenon DEF Items
<1> QED
  BY <1>1, <1>2, <1>3, <1>4, <1>5, Zenon

(* A row operation names at least its destination. *)
LEMMA SplitParts ==
    ASSUME NEW o \in RowOps
    PROVE  splitRowOp(o) \in SUBSET Parts /\ 0 \in splitRowOp(o)
BY DEF splitRowOp, Parts, RowOps, Unary, Binary

(* The state of a new translation counts the rows of the operation. *)
LEMMA FreshCount ==
    ASSUME NEW o \in RowOps
    PROVE  WholeTranslationState(o).outstanding = Count(splitRowOp(o))
BY DEF WholeTranslationState, splitRowOp, Count, RowOps, Unary, Binary

(* Finishing a row takes one off the count; only no rows count zero. *)
LEMMA CountRemove ==
    ASSUME NEW P \in SUBSET Parts
    PROVE  /\ Count(P) \in 0..3
           /\ Count(P) = 0 <=> P = {}
           /\ \A p \in P : Count(P \ {p}) = Count(P) - 1
BY DEF Count, Parts
-----------------------------------------------------------------------------
(* DataTranslation::finish keeps the types and the invariant.  The row was *)
(* due and no longer is; the other instructions are not concerned.         *)
LEMMA Finishing ==
    ASSUME IInv, NEW i \in Insts, NEW p \in Pending(i), NEW f \in Faults,
           FaultOf(i, p, f), FinishPart(i, p, f), UNCHANGED <<setup, busy>>,
           Pending(i)' = Pending(i) \ {p},
           \A j \in Insts \ {i} : Pending(j)' = Pending(j)
    PROVE  /\ state' \in [Insts -> [live : BOOLEAN, outstanding : 0..3,
                                    faults : [Parts -> Faults]]]
           /\ data' \in [Insts -> Payload]
           /\ flags' \in [Insts -> [started : BOOLEAN, completed : BOOLEAN]]
           /\ fault' \in [Insts -> Faults]
           /\ status' \in [Insts -> Status]
           /\ sent' \in [Insts -> Payload \cup {NoPayload}]
           /\ \A j \in Insts :
                 StateOK(j)' /\ FlagsOK(j)' /\ DataOK(j)' /\ SentOK(j)'
<1> DEFINE s == finish(state[i], p, f)
           last == s.outstanding = 0
           d == Translated(op[i], s, data[i])
           v == getFault(s)
<1>1. /\ state' = [state EXCEPT ![i] = IF last THEN NoState ELSE s]
      /\ flags' = [flags EXCEPT ![i].completed = @ \/ last]
      /\ fault' = [fault EXCEPT ![i] = IF last THEN v ELSE @]
      /\ data' = [data EXCEPT ![i] =
                     IF last /\ (cpu = "timing" \/ busy = i) THEN d ELSE @]
      /\ IF cpu = "timing" /\ last
         THEN /\ sent' = [sent EXCEPT ![i] = IF v = "NoFault" THEN d ELSE @]
              /\ status' = [status EXCEPT ![i] = "executed"]
         ELSE UNCHANGED <<sent, status>>
  BY Zenon DEF FinishPart
<1>2. /\ cpu' = cpu /\ fullSystem' = fullSystem /\ op' = op /\ bad' = bad
      /\ busy' = busy
  BY Zenon DEF setup
<1>3. /\ TypeOK /\ QueueOK
      /\ \A j \in Insts : StateOK(j) /\ FlagsOK(j) /\ DataOK(j) /\ SentOK(j)
  BY Zenon DEF IInv
<1>4. op[i] \in RowOps /\ splitRowOp(op[i]) \in SUBSET Parts
      /\ 0 \in splitRowOp(op[i])
  BY <1>3, SplitParts, OpsAssumption, Zenon DEF TypeOK
<1>5. p \in Parts /\ p \in splitRowOp(op[i]) /\ Pending(i) \in SUBSET Parts
  BY <1>4, Zenon DEF Pending
<1>6. /\ state[i].live /\ state[i].outstanding = Count(Pending(i))
      /\ \A r \in splitRowOp(op[i]) \ Pending(i) :
            FaultOf(i, r, state[i].faults[r])
      /\ flags[i].started /\ ~flags[i].completed
  BY <1>3, Zenon DEF StateOK
<1>7. state[i] \in [live : BOOLEAN, outstanding : 0..3, faults : [Parts -> Faults]]
  BY <1>3, Zenon DEF TypeOK
<1>8. /\ s.outstanding = Count(Pending(i) \ {p}) /\ s.outstanding \in 0..3
      /\ s.faults = [state[i].faults EXCEPT ![p] = f]
      /\ s.live
  BY <1>5, <1>6, <1>7, CountRemove DEF finish
<1>9. s \in [live : BOOLEAN, outstanding : 0..3, faults : [Parts -> Faults]]
  <2>1. s.faults \in [Parts -> Faults]
    BY <1>7, <1>8, Zenon
  <2>2. /\ DOMAIN s = {"live", "outstanding", "faults"}
        /\ s = [x \in DOMAIN s |-> s[x]]
    BY <1>7, Zenon DEF finish
  <2>3. s.live \in BOOLEAN
    BY <1>7, Zenon DEF finish
  <2> HIDE DEF s
  <2> QED
    BY <1>8, <2>1, <2>2, <2>3, Zenon
<1>10. last <=> Pending(i)' = {}
  BY <1>5, <1>8, CountRemove, Zenon
<1>11. \A r \in splitRowOp(op[i]) \ (Pending(i) \ {p}) : FaultOf(i, r, s.faults[r])
  BY <1>4, <1>5, <1>6, <1>7, <1>8, Zenon
<1>12. v \in Faults /\ v = s.faults[0]
  BY <1>9 DEF getFault, Parts
<1>13. d \in Payload
  BY <1>3 DEF TypeOK, Translated, Payload
<1>14. last => FaultOf(i, 0, v)
  BY <1>4, <1>10, <1>11, <1>12, Zenon
<1>15. last /\ (cpu = "timing" \/ ~fullSystem) /\ bad[i] = {} => AllPhysical(i, d)
  <2> SUFFICES ASSUME last, cpu = "timing" \/ ~fullSystem, bad[i] = {},
                      NEW r \in splitRowOp(op[i])
               PROVE  d[r] = "physical"
    BY Zenon DEF AllPhysical
  <2>1. s.faults[r] = "NoFault"
    BY <1>10, <1>11, Zenon DEF FaultOf, Outcome
  <2> QED
    BY <1>4, <2>1, Zenon DEF Translated
<1> HIDE DEF s, last, d, v
<1>20. state' \in [Insts -> [live : BOOLEAN, outstanding : 0..3,
                             faults : [Parts -> Faults]]]
  <2>1. NoState \in [live : BOOLEAN, outstanding : 0..3, faults : [Parts -> Faults]]
    BY DEF NoState, Faults
  <2> QED
    BY <1>1, <1>3, <1>9, <2>1, Zenon DEF TypeOK
<1>21. data' \in [Insts -> Payload]
  BY <1>1, <1>3, <1>13, Zenon DEF TypeOK
<1>22. flags' \in [Insts -> [started : BOOLEAN, completed : BOOLEAN]]
  <2>1. last \in BOOLEAN
    BY Zenon DEF last
  <2>2. flags \in [Insts -> [started : BOOLEAN, completed : BOOLEAN]]
    BY <1>3, Zenon DEF TypeOK
  <2> QED
    BY <1>1, <2>1, <2>2, Zenon
<1>23. fault' \in [Insts -> Faults]
  BY <1>1, <1>3, <1>12, Zenon DEF TypeOK
<1>24. status' \in [Insts -> Status]
  BY <1>1, <1>3, Zenon DEF TypeOK, Status
<1>25. sent' \in [Insts -> Payload \cup {NoPayload}]
  BY <1>1, <1>3, <1>13, ZenonT(60) DEF TypeOK
<1>26. /\ (flags'[i].completed <=> last) /\ flags'[i].started
       /\ \A j \in Insts \ {i} : flags'[j] = flags[j]
  <2>1. flags \in [Insts -> [started : BOOLEAN, completed : BOOLEAN]]
    BY <1>3, Zenon DEF TypeOK
  <2>2. /\ flags'[i] = [flags[i] EXCEPT !.completed = @ \/ last]
        /\ \A j \in Insts \ {i} : flags'[j] = flags[j]
    BY <1>1, <2>1, Zenon
  <2>3. flags'[i].started = flags[i].started
    BY <2>1, <2>2
  <2>4. flags'[i].completed = (flags[i].completed \/ last)
    BY <2>1, <2>2
  <2> QED
    BY <1>6, <2>2, <2>3, <2>4, Zenon
<1>27. /\ state'[i] = IF last THEN NoState ELSE s
       /\ fault'[i] = IF last THEN v ELSE fault[i]
       /\ data'[i] = IF last /\ (cpu = "timing" \/ busy = i) THEN d ELSE data[i]
       /\ \A j \in Insts \ {i} : /\ state'[j] = state[j] /\ fault'[j] = fault[j]
                                 /\ data'[j] = data[j]
  BY <1>1, <1>3, Zenon DEF TypeOK
<1>28. /\ cpu = "timing" /\ last =>
             /\ sent'[i] = IF v = "NoFault" THEN d ELSE sent[i]
             /\ status'[i] = "executed"
       /\ ~(cpu = "timing" /\ last) => sent'[i] = sent[i] /\ status'[i] = status[i]
       /\ \A j \in Insts \ {i} : sent'[j] = sent[j] /\ status'[j] = status[j]
  BY <1>1, <1>3 DEF TypeOK
<1>29. ASSUME NEW j \in Insts, j # i
       PROVE  StateOK(j)' /\ FlagsOK(j)' /\ DataOK(j)' /\ SentOK(j)'
  <2>1. StateOK(j)'
    BY <1>2, <1>3, <1>26, <1>27, <1>29 DEF StateOK, FaultOf, Outcome
  <2>2. FlagsOK(j)'
    BY <1>2, <1>3, <1>26, <1>27, <1>28, <1>29 DEF FlagsOK, FaultOf, Outcome
  <2>3. DataOK(j)' /\ SentOK(j)'
    BY <1>2, <1>3, <1>26, <1>27, <1>28, <1>29 DEF DataOK, SentOK, AllPhysical
  <2> QED
    BY <2>1, <2>2, <2>3, Zenon
<1>30. StateOK(i)'
  <2>1. ~NoState.live
    BY Zenon DEF NoState
  <2>2. state'[i].live <=> Pending(i)' # {}
    BY <1>8, <1>10, <1>27, <2>1, Zenon
  <2>3. ASSUME ~last
        PROVE  /\ state'[i].outstanding = Count(Pending(i)')
               /\ \A r \in splitRowOp(op'[i]) \ Pending(i)' :
                     FaultOf(i, r, state[i].faults[r])'
    BY <1>2, <1>8, <1>11, <1>27, <2>3, ZenonT(60) DEF FaultOf, Outcome
  <2> QED
    BY <1>10, <1>26, <2>2, <2>3, Zenon DEF StateOK
<1>31. FlagsOK(i)'
  <2>1. state'[i].live <=> ~last
    BY <1>8, <1>27 DEF NoState
  <2>2. last => FaultOf(i, 0, fault[i])'
    BY <1>2, <1>14, <1>27, Zenon DEF FaultOf, Outcome
  <2> QED
    BY <1>2, <1>3, <1>6, <1>26, <1>28, <2>1, <2>2, Zenon DEF FlagsOK
<1>32. DataOK(i)'
  BY <1>2, <1>15, <1>26, <1>27, Zenon DEF DataOK, AllPhysical
<1>33. SentOK(i)'
  <2>1. CASE cpu = "timing" /\ last /\ v = "NoFault"
    <3>1. sent'[i] = d
      BY <1>28, <2>1, Zenon
    <3>2. 0 \notin bad[i]
      BY <1>14, <2>1, Zenon DEF FaultOf, Outcome
    <3> QED
      BY <1>2, <1>15, <2>1, <3>1, <3>2, Zenon DEF SentOK, AllPhysical
  <2>2. CASE ~(cpu = "timing" /\ last /\ v = "NoFault")
    <3>1. sent'[i] = sent[i]
      BY <1>28, <2>2, Zenon
    <3> QED
      BY <1>2, <1>3, <3>1, Zenon DEF SentOK, AllPhysical
  <2> QED
    BY <2>1, <2>2, Zenon
<1> QED
  BY <1>20, <1>21, <1>22, <1>23, <1>24, <1>25, <1>29, <1>30, <1>31, <1>32, <1>33, Zenon
-----------------------------------------------------------------------------
(* The initial states: nothing started, nothing due. *)
LEMMA InitOK == Init => IInv
<1> SUFFICES ASSUME Init PROVE IInv
  OBVIOUS
<1>1. TypeOK
  <2>1. NoState \in [live : BOOLEAN, outstanding : 0..3, faults : [Parts -> Faults]]
    BY DEF NoState, Faults
  <2>2. FreshPayload \in Payload
    BY Zenon DEF FreshPayload, Payload
  <2>3. <<>> \in Seq(Insts \X Parts) /\ 0 \in 0..numSquashable
    BY SquashAssumption
  <2>4. flags \in [Insts -> [started : BOOLEAN, completed : BOOLEAN]]
    BY Zenon DEF Init
  <2> QED
    BY <2>1, <2>2, <2>3, <2>4 DEF Init, TypeOK, Faults, Status
<1>2. Items(currStates) = {} /\ Distinct(currStates)
  BY DEF Init, Items, Distinct
<1>3. QueueOK
  BY <1>2, Zenon DEF QueueOK, Init
<1>4. ASSUME NEW i \in Insts
      PROVE  StateOK(i) /\ FlagsOK(i) /\ DataOK(i) /\ SentOK(i)
  <2>1. busy # i
    BY InstsAssumption, Zenon DEF Init
  <2>2. Pending(i) = {}
    BY <1>2, <2>1, Zenon DEF Pending
  <2>3. /\ ~state[i].live /\ ~flags[i].started /\ ~flags[i].completed
        /\ status[i] = "ready" /\ sent[i] = NoPayload
    BY Zenon DEF Init, NoState
  <2> QED
    BY <2>1, <2>2, <2>3, Zenon DEF StateOK, FlagsOK, DataOK, SentOK
<1> QED
  BY <1>1, <1>3, <1>4, Zenon DEF IInv

(* writeMem's first execution makes all rows of the instruction due. *)
LEMMA ExecuteOK ==
    ASSUME IInv, NEW i \in Insts, Execute(i)
    PROVE  IInv'
<1>1. /\ TypeOK /\ QueueOK
      /\ \A j \in Insts : StateOK(j) /\ FlagsOK(j) /\ DataOK(j) /\ SentOK(j)
  BY Zenon DEF IInv
<1>2. /\ cpu' = cpu /\ fullSystem' = fullSystem /\ op' = op /\ bad' = bad
      /\ hit' = hit /\ busy = NoInst /\ busy' = i /\ part' = 0 /\ fault' = fault
      /\ sent' = sent /\ currStates' = currStates /\ wrapper' = wrapper
      /\ dropped' = dropped /\ status[i] = "ready"
      /\ state' = [state EXCEPT ![i] = WholeTranslationState(op[i])]
      /\ data' = [data EXCEPT ![i] = FreshPayload]
      /\ flags' = [flags EXCEPT ![i] = [started |-> TRUE, completed |-> FALSE]]
      /\ status' = [status EXCEPT ![i] = "executing"]
  BY Zenon DEF Execute, setup, MayExecute, Idle
<1>3. op[i] \in RowOps /\ splitRowOp(op[i]) \in SUBSET Parts
      /\ 0 \in splitRowOp(op[i])
  BY <1>1, SplitParts, OpsAssumption, Zenon DEF TypeOK
<1>4. WholeTranslationState(op[i])
        \in [live : BOOLEAN, outstanding : 0..3, faults : [Parts -> Faults]]
  BY DEF WholeTranslationState, Faults
<1>5. TypeOK'
  <2>1. FreshPayload \in Payload
    BY Zenon DEF FreshPayload, Payload
  <2>2. flags' \in [Insts -> [started : BOOLEAN, completed : BOOLEAN]]
    BY <1>1, <1>2, Zenon DEF TypeOK
  <2> QED
    BY <1>1, <1>2, <1>4, <2>1, <2>2 DEF TypeOK, Status
<1>6. /\ ~flags[i].started /\ ~state[i].live /\ Pending(i) = {}
      /\ \A p \in Parts : <<i, p>> \notin Items(currStates)
  <2>1. ~flags[i].started
    BY <1>1, <1>2, Zenon DEF FlagsOK
  <2>2. ~state[i].live /\ Pending(i) = {}
    BY <1>1, <2>1, Zenon DEF StateOK
  <2> QED
    BY <1>1, <2>1, <2>2, Zenon DEF QueueOK, Pending
<1>7. QueueOK'
  BY <1>1, <1>2, <1>6, Zenon DEF QueueOK
<1>8. Pending(i)' = splitRowOp(op[i])
  BY <1>2, <1>3 DEF Pending, Parts
<1>9. \A j \in Insts \ {i} : busy # j /\ busy' # j /\ Pending(j)' = Pending(j)
  BY <1>2, InstsAssumption, Zenon DEF Pending
<1>10. /\ state'[i] = WholeTranslationState(op[i])
       /\ flags'[i].started /\ ~flags'[i].completed
       /\ status'[i] = "executing"
       /\ \A j \in Insts \ {i} : /\ state'[j] = state[j] /\ flags'[j] = flags[j]
                                 /\ status'[j] = status[j] /\ data'[j] = data[j]
  BY <1>1, <1>2, Zenon DEF TypeOK
<1>11. ASSUME NEW j \in Insts, j # i
       PROVE  StateOK(j)' /\ FlagsOK(j)' /\ DataOK(j)' /\ SentOK(j)'
  <2>1. StateOK(j)'
    BY <1>1, <1>2, <1>9, <1>10, <1>11, SMTT(30) DEF StateOK, FaultOf, Outcome
  <2>2. FlagsOK(j)'
    BY <1>1, <1>2, <1>9, <1>10, <1>11, ZenonT(30) DEF FlagsOK, FaultOf, Outcome
  <2>3. DataOK(j)' /\ SentOK(j)'
    BY <1>1, <1>2, <1>9, <1>10, <1>11 DEF DataOK, SentOK, AllPhysical
  <2> QED
    BY <2>1, <2>2, <2>3, Zenon
<1>12. StateOK(i)'
  <2>1. /\ state'[i].live
        /\ state'[i].outstanding = Count(Pending(i)')
    BY <1>3, <1>8, <1>10, FreshCount DEF WholeTranslationState
  <2> QED
    BY <1>2, <1>3, <1>8, <1>10, <2>1, Zenon DEF StateOK
<1>13. FlagsOK(i)'
  BY <1>2, <1>10 DEF FlagsOK, WholeTranslationState
<1>14. DataOK(i)' /\ SentOK(i)'
  BY <1>1, <1>2, <1>10 DEF DataOK, SentOK, AllPhysical
<1> QED
  BY <1>5, <1>7, <1>11, <1>12, <1>13, <1>14, Zenon DEF IInv

(* The end of writeMem: nothing becomes due, and what the O3 CPU hands on  *)
(* has a destination that translated.                                      *)
LEMMA EndWriteMemOK ==
    ASSUME IInv, NEW i \in Insts, EndWriteMem(i)
    PROVE  IInv'
<1>1. /\ TypeOK /\ QueueOK
      /\ \A j \in Insts : StateOK(j) /\ FlagsOK(j) /\ DataOK(j) /\ SentOK(j)
  BY Zenon DEF IInv
<1>2. /\ cpu' = cpu /\ fullSystem' = fullSystem /\ op' = op /\ bad' = bad
      /\ hit' = hit /\ busy = i /\ busy' = NoInst /\ part = 3 /\ part' = part
      /\ state' = state /\ data' = data /\ flags' = flags
      /\ currStates' = currStates /\ wrapper' = wrapper /\ dropped' = dropped
  BY Zenon DEF EndWriteMem, setup
<1>3. \/ cpu = "timing" /\ fault' = fault /\ status' = status /\ sent' = sent
      \/ /\ cpu # "timing" /\ ~flags[i].completed
         /\ fault' = [fault EXCEPT ![i] = "NoFault"]
         /\ status' = [status EXCEPT ![i] = "deferred"]
         /\ sent' = sent
      \/ /\ cpu # "timing" /\ flags[i].completed
         /\ status' = [status EXCEPT ![i] = "executed"]
         /\ sent' = [sent EXCEPT ![i] = IF fault[i] = "NoFault" THEN data[i] ELSE @]
         /\ fault' = fault
  BY Zenon DEF EndWriteMem
<1>4. TypeOK'
  <2>1. fault' \in [Insts -> Faults]
    BY <1>1, <1>3, Zenon DEF TypeOK, Faults
  <2>2. status' \in [Insts -> Status]
    BY <1>1, <1>3, Zenon DEF TypeOK, Status
  <2>3. sent' \in [Insts -> Payload \cup {NoPayload}]
    BY <1>1, <1>3, ZenonT(30) DEF TypeOK
  <2> QED
    BY <1>1, <1>2, <2>1, <2>2, <2>3, Zenon DEF TypeOK
<1>5. \A j \in Insts : splitRowOp(op[j]) \in SUBSET Parts
  BY <1>1, SplitParts, OpsAssumption, Zenon DEF TypeOK
<1>6. \A j \in Insts : busy' # j /\ Pending(j)' = Pending(j)
  BY <1>2, <1>5, InstsAssumption DEF Pending, Parts
<1>7. QueueOK'
  BY <1>1, <1>2, <1>6, Zenon DEF QueueOK
<1>8. \A j \in Insts \ {i} : /\ fault'[j] = fault[j] /\ status'[j] = status[j]
                             /\ sent'[j] = sent[j]
  BY <1>1, <1>3, Zenon DEF TypeOK
<1>9. ASSUME NEW j \in Insts
      PROVE  StateOK(j)' /\ DataOK(j)'
  BY <1>1, <1>2, <1>6, ZenonT(30) DEF StateOK, DataOK, FaultOf, Outcome
<1>10. ASSUME NEW j \in Insts, j # i
       PROVE  FlagsOK(j)' /\ SentOK(j)'
  BY <1>1, <1>2, <1>6, <1>8, <1>10 DEF FlagsOK, SentOK, FaultOf, Outcome, AllPhysical
<1>11. flags[i].started
  BY <1>1, <1>2, Zenon DEF FlagsOK
<1>12. ~flags[i].completed => fullSystem
  <2>1. ~fullSystem => Pending(i) = {}
    <3>1. ASSUME ~fullSystem, NEW p \in splitRowOp(op[i]) PROVE p \notin Pending(i)
      <4>1. p \in 0..2
        BY <1>5, Zenon DEF Parts
      <4>2. <<i, p>> \notin Items(currStates)
        BY <1>1, <3>1 DEF QueueOK, Items
      <4> QED BY <1>2, <4>1, <4>2 DEF Pending
    <3> QED BY <3>1, Zenon DEF Pending
  <2> QED
    BY <1>1, <1>11, <2>1, Zenon DEF StateOK, FlagsOK
<1>13. cpu # "timing" => cpu = "o3"
  BY <1>1, CpusAssumption, Zenon DEF TypeOK
<1>14. FlagsOK(i)'
  <2>1. CASE cpu = "timing"
    BY <1>1, <1>2, <1>3, <1>6, <2>1, Zenon DEF FlagsOK, FaultOf, Outcome
  <2>2. CASE cpu # "timing" /\ ~flags[i].completed
    <3>1. status'[i] = "deferred"
      BY <1>1, <1>3, <2>2, Zenon DEF TypeOK
    <3> QED
      BY <1>1, <1>2, <1>6, <1>11, <1>12, <1>13, <2>2, <3>1, Zenon DEF FlagsOK
  <2>3. CASE cpu # "timing" /\ flags[i].completed
    <3>1. status'[i] = "executed" /\ fault'[i] = fault[i]
      BY <1>1, <1>3, <2>3, Zenon DEF TypeOK
    <3> QED
      BY <1>1, <1>2, <1>6, <1>11, <2>3, <3>1, Zenon DEF FlagsOK, FaultOf, Outcome
  <2> QED
    BY <2>1, <2>2, <2>3, Zenon
<1>15. SentOK(i)'
  <2>1. CASE sent'[i] = sent[i]
    BY <1>1, <1>2, <2>1, Zenon DEF SentOK, AllPhysical
  <2>2. CASE sent'[i] # sent[i]
    <3>1. /\ cpu # "timing" /\ flags[i].completed /\ fault[i] = "NoFault"
          /\ sent'[i] = data[i]
      BY <1>1, <1>3, <2>2, Zenon DEF TypeOK
    <3>2. 0 \notin bad[i]
      BY <1>1, <3>1 DEF FlagsOK, FaultOf, Outcome
    <3>3. ~fullSystem /\ bad[i] = {} => AllPhysical(i, data[i])
      BY <1>1, <1>2, <3>1, Zenon DEF DataOK
    <3> QED
      BY <1>2, <3>1, <3>2, <3>3, Zenon DEF SentOK, AllPhysical
  <2> QED
    BY <2>1, <2>2, Zenon
<1> QED
  BY <1>4, <1>7, <1>9, <1>10, <1>14, <1>15, Zenon DEF IInv

(* A deferred instruction comes back without a new translation. *)
LEMMA ReexecuteOK ==
    ASSUME IInv, NEW i \in Insts, Reexecute(i)
    PROVE  IInv'
<1>1. /\ TypeOK /\ QueueOK
      /\ \A j \in Insts : StateOK(j) /\ FlagsOK(j) /\ DataOK(j) /\ SentOK(j)
  BY Zenon DEF IInv
<1>2. /\ cpu' = cpu /\ fullSystem' = fullSystem /\ op' = op /\ bad' = bad
      /\ hit' = hit /\ busy = NoInst /\ busy' = i /\ part' = 3 /\ fault' = fault
      /\ sent' = sent /\ currStates' = currStates /\ wrapper' = wrapper
      /\ dropped' = dropped /\ state' = state /\ flags' = flags
      /\ status[i] = "deferred" /\ flags[i].completed
      /\ data' = [data EXCEPT ![i] = FreshPayload]
      /\ status' = [status EXCEPT ![i] = "executing"]
  BY Zenon DEF Reexecute, setup, MayExecute, Idle
<1>3. FreshPayload \in Payload
  BY Zenon DEF FreshPayload, Payload
<1>4. TypeOK'
  BY <1>1, <1>2, <1>3 DEF TypeOK, Status
<1>5. \A j \in Insts : splitRowOp(op[j]) \in SUBSET Parts
  BY <1>1, SplitParts, OpsAssumption, Zenon DEF TypeOK
<1>6. \A j \in Insts : Pending(j)' = Pending(j)
  BY <1>2, <1>5, InstsAssumption, SMTT(30) DEF Pending, Parts
<1>7. QueueOK'
  BY <1>1, <1>2 DEF QueueOK, Parts
<1>8. /\ status'[i] = "executing"
      /\ \A j \in Insts \ {i} : status'[j] = status[j] /\ data'[j] = data[j]
  BY <1>1, <1>2, Zenon DEF TypeOK
<1>9. flags[i].started /\ fullSystem
  BY <1>1, <1>2, Zenon DEF FlagsOK
<1>10. ASSUME NEW j \in Insts PROVE StateOK(j)' /\ SentOK(j)'
  BY <1>1, <1>2, <1>6, SMTT(30) DEF StateOK, SentOK, FaultOf, Outcome, AllPhysical
<1>11. ASSUME NEW j \in Insts PROVE FlagsOK(j)' /\ DataOK(j)'
  BY <1>1, <1>2, <1>8, <1>9 DEF FlagsOK, DataOK, FaultOf, Outcome, AllPhysical
<1> QED
  BY <1>4, <1>7, <1>10, <1>11, Zenon DEF IInv

(* A squash leaves the walks of the instruction where they are. *)
LEMMA SquashOK ==
    ASSUME IInv, NEW i \in Insts, Squash(i)
    PROVE  IInv'
<1>1. /\ TypeOK /\ QueueOK
      /\ \A j \in Insts : StateOK(j) /\ FlagsOK(j) /\ DataOK(j) /\ SentOK(j)
  BY Zenon DEF IInv
<1>2. /\ cpu' = cpu /\ fullSystem' = fullSystem /\ op' = op /\ bad' = bad
      /\ hit' = hit /\ busy = NoInst /\ busy' = busy /\ part' = part
      /\ fault' = fault /\ data' = data
      /\ sent' = sent /\ currStates' = currStates /\ wrapper' = wrapper
      /\ dropped' = dropped /\ state' = state /\ flags' = flags
      /\ cpu = "o3" /\ status' = [status EXCEPT ![i] = "squashed"]
  BY Zenon DEF Squash, setup, Idle
<1>3. TypeOK'
  BY <1>1, <1>2, Zenon DEF TypeOK, Status
<1>4. QueueOK'
  BY <1>1, <1>2, Zenon DEF QueueOK
<1>5. \A j \in Insts : Pending(j)' = Pending(j)
  BY <1>2, Zenon DEF Pending
<1>6. /\ status'[i] = "squashed"
      /\ \A j \in Insts \ {i} : status'[j] = status[j]
  BY <1>1, <1>2, Zenon DEF TypeOK
<1>7. ASSUME NEW j \in Insts PROVE StateOK(j)' /\ DataOK(j)' /\ SentOK(j)'
  BY <1>1, <1>2, <1>5, SMTT(30) DEF StateOK, DataOK, SentOK, FaultOf, Outcome, AllPhysical
<1>8. ASSUME NEW j \in Insts PROVE FlagsOK(j)'
  BY <1>1, <1>2, <1>6, InstsAssumption DEF FlagsOK, FaultOf, Outcome
<1> QED
  BY <1>3, <1>4, <1>7, <1>8, Zenon DEF IInv

(* A row writeMem comes to is finished on the spot or queued: due until    *)
(* it is finished.                                                         *)
LEMMA TranslateTimingOK ==
    ASSUME IInv, NEW i \in Insts, TranslateTiming(i)
    PROVE  IInv'
<1>1. /\ TypeOK /\ QueueOK
      /\ \A j \in Insts : StateOK(j) /\ FlagsOK(j) /\ DataOK(j) /\ SentOK(j)
  BY Zenon DEF IInv
<1>2. /\ cpu' = cpu /\ fullSystem' = fullSystem /\ op' = op /\ bad' = bad
      /\ hit' = hit /\ busy = i /\ busy' = busy /\ part \in Parts
      /\ part' = part + 1 /\ wrapper' = wrapper /\ dropped' = dropped
  BY Zenon DEF TranslateTiming, setup
<1>3. \A j \in Insts : splitRowOp(op[j]) \in SUBSET Parts
  BY <1>1, SplitParts, OpsAssumption, Zenon DEF TypeOK
<1>4. part' \in 0..3 /\ \A p \in Parts : p < part => p < part'
  BY <1>2 DEF Parts
<1>5. \A j \in Insts \ {i} : busy # j
  BY <1>2, Zenon
<1>6. <<i, part>> \notin Items(currStates)
  <2>1. <<i, part>> \in Items(currStates) => part < part
    BY <1>1, <1>2, Zenon DEF QueueOK
  <2> QED
    BY <1>2, <2>1 DEF Parts
<1>7. CASE /\ part \notin splitRowOp(op[i])
           /\ UNCHANGED <<state, data, flags, fault, status, sent, currStates>>
  <2>1. TypeOK'
    BY <1>1, <1>2, <1>4, <1>7, Zenon DEF TypeOK
  <2>2. QueueOK'
    BY <1>1, <1>2, <1>4, <1>7, Zenon DEF QueueOK
  <2>3. \A j \in Insts : Pending(j)' = Pending(j)
    BY <1>2, <1>3, <1>5, <1>7 DEF Pending, Parts
  <2>4. ASSUME NEW j \in Insts
        PROVE  StateOK(j)' /\ FlagsOK(j)' /\ DataOK(j)' /\ SentOK(j)'
    BY <1>1, <1>2, <1>7, <2>3, SMTT(30)
       DEF StateOK, FlagsOK, DataOK, SentOK, FaultOf, Outcome, AllPhysical
  <2> QED
    BY <2>1, <2>2, <2>4, Zenon DEF IInv
<1>8. CASE /\ part \in splitRowOp(op[i])
           /\ FinishPart(i, part, Outcome(i, part))
           /\ UNCHANGED currStates
  <2>1. part \in Pending(i)
    BY <1>2, <1>8 DEF Pending, Parts
  <2>2. Pending(i)' = Pending(i) \ {part}
    BY <1>2, <1>3, <1>6, <1>8 DEF Pending, Parts
  <2>3. \A j \in Insts \ {i} : Pending(j)' = Pending(j)
    BY <1>2, <1>5, <1>8, Zenon DEF Pending
  <2>4. FaultOf(i, part, Outcome(i, part)) /\ Outcome(i, part) \in Faults
    BY DEF FaultOf, Outcome, Faults
  <2>5. UNCHANGED <<setup, busy>>
    BY <1>2, Zenon DEF setup
  <2>6. /\ state' \in [Insts -> [live : BOOLEAN, outstanding : 0..3,
                                 faults : [Parts -> Faults]]]
        /\ data' \in [Insts -> Payload]
        /\ flags' \in [Insts -> [started : BOOLEAN, completed : BOOLEAN]]
        /\ fault' \in [Insts -> Faults]
        /\ status' \in [Insts -> Status]
        /\ sent' \in [Insts -> Payload \cup {NoPayload}]
        /\ \A j \in Insts :
              StateOK(j)' /\ FlagsOK(j)' /\ DataOK(j)' /\ SentOK(j)'
    BY <1>8, <2>1, <2>2, <2>3, <2>4, <2>5, Finishing, Zenon
  <2>7. TypeOK'
    BY <1>1, <1>2, <1>4, <1>8, <2>6, Zenon DEF TypeOK
  <2>8. QueueOK'
    BY <1>1, <1>2, <1>4, <1>8, Zenon DEF QueueOK
  <2> QED
    BY <2>6, <2>7, <2>8, Zenon DEF IInv
<1>9. CASE /\ part \in splitRowOp(op[i]) /\ fullSystem
           /\ currStates' = Append(currStates, <<i, part>>)
           /\ UNCHANGED <<state, data, flags, fault, status, sent>>
  <2>1. <<i, part>> \in Insts \X Parts /\ currStates \in Seq(Insts \X Parts)
    BY <1>1, <1>2, Zenon DEF TypeOK
  <2>2. currStates' \in Seq(Insts \X Parts)
    BY <1>9, <2>1
  <2>3. /\ Items(currStates') = Items(currStates) \cup {<<i, part>>}
        /\ Distinct(currStates')
    BY <1>1, <1>6, <1>9, <2>1, AppendItems, SMTT(30) DEF QueueOK
  <2>4. TypeOK'
    BY <1>1, <1>2, <1>4, <1>9, <2>2, Zenon DEF TypeOK
  <2>5. \A j \in Insts, p \in Parts :
           <<j, p>> \in Items(currStates') <=>
              <<j, p>> \in Items(currStates) \/ (j = i /\ p = part)
    <3>1. \A j \in Insts, p \in Parts : <<j, p>> = <<i, part>> <=> j = i /\ p = part
      OBVIOUS
    <3> QED
      BY <2>3, <3>1, Zenon
  <2>6. QueueOK'
    <3>1. ASSUME NEW j \in Insts, NEW p \in Parts, <<j, p>> \in Items(currStates')
          PROVE  p \in splitRowOp(op'[j]) /\ (busy' = j => p < part')
      <4>1. CASE <<j, p>> \in Items(currStates)
        BY <1>1, <1>2, <1>4, <4>1, Zenon DEF QueueOK
      <4>2. CASE j = i /\ p = part
        BY <1>2, <1>9, <4>2 DEF Parts
      <4> QED
        BY <2>5, <3>1, <4>1, <4>2, Zenon
    <3> QED
      BY <1>2, <1>9, <2>3, <3>1, Zenon DEF QueueOK
  <2>7. ASSUME NEW j \in Insts PROVE Pending(j)' = Pending(j)
    <3>1. ASSUME NEW p \in splitRowOp(op[j])
          PROVE  (<<j, p>> \in Items(currStates') \/ (busy' = j /\ part' <= p))
                 <=> (<<j, p>> \in Items(currStates) \/ (busy = j /\ part <= p))
      <4>1. p \in Parts
        BY <1>3, Zenon
      <4>2. part <= p <=> (p = part \/ part' <= p)
        BY <1>2, <4>1 DEF Parts
      <4> QED
        BY <1>2, <2>5, <4>1, <4>2, Zenon
    <3> QED
      BY <1>2, <3>1, Zenon DEF Pending
  <2>8. ASSUME NEW j \in Insts
        PROVE  StateOK(j)' /\ FlagsOK(j)' /\ DataOK(j)' /\ SentOK(j)'
    <3>1. StateOK(j)'
      BY <1>1, <1>2, <1>9, <2>7 DEF StateOK, FaultOf, Outcome
    <3>2. FlagsOK(j)'
      BY <1>1, <1>2, <1>9 DEF FlagsOK, FaultOf, Outcome
    <3>3. DataOK(j)' /\ SentOK(j)'
      BY <1>1, <1>2, <1>9 DEF DataOK, SentOK, AllPhysical
    <3> QED
      BY <3>1, <3>2, <3>3
  <2> QED
    BY <2>4, <2>6, <2>8, Zenon DEF IInv
<1> QED
  BY <1>7, <1>8, <1>9, Zenon DEF TranslateTiming

(* The row at the head of the walker's queue ends, with fault f: answered  *)
(* by memory or dropped.                                                   *)
LEMMA HeadEnds ==
    ASSUME IInv, currStates # <<>>, busy = NoInst, NEW f \in Faults,
           FaultOf(Head(currStates)[1], Head(currStates)[2], f),
           FinishPart(Head(currStates)[1], Head(currStates)[2], f),
           currStates' = Tail(currStates), UNCHANGED <<setup, busy, part>>,
           wrapper' \in {"idle", "scheduled", "running"},
           dropped' \in 0..numSquashable
    PROVE  IInv'
<1>1. /\ TypeOK /\ QueueOK
      /\ \A j \in Insts : StateOK(j) /\ FlagsOK(j) /\ DataOK(j) /\ SentOK(j)
  BY Zenon DEF IInv
<1>2. /\ cpu' = cpu /\ fullSystem' = fullSystem /\ op' = op /\ bad' = bad
      /\ hit' = hit /\ busy' = busy /\ part' = part
  BY Zenon DEF setup
<1>3. currStates \in Seq(Insts \X Parts) /\ Distinct(currStates)
  BY <1>1, Zenon DEF TypeOK, QueueOK
<1>4. /\ Head(currStates) \in Items(currStates) /\ Head(currStates) \in Insts \X Parts
      /\ Items(currStates') = Items(currStates) \ {Head(currStates)}
      /\ Distinct(currStates') /\ currStates' \in Seq(Insts \X Parts)
  BY <1>3, TailItems, Zenon
<1>5. PICK i \in Insts, p \in Parts : Head(currStates) = <<i, p>>
  BY <1>4
<1>6. /\ Head(currStates)[1] = i /\ Head(currStates)[2] = p
      /\ <<i, p>> \in Items(currStates)
      /\ Items(currStates') = Items(currStates) \ {<<i, p>>}
  <2>1. <<i, p>>[1] = i /\ <<i, p>>[2] = p
    OBVIOUS
  <2> QED
    BY <1>4, <1>5, <2>1, Zenon
<1>7. FaultOf(i, p, f) /\ FinishPart(i, p, f)
  BY <1>6, Zenon
<1>8. p \in splitRowOp(op[i]) /\ p \in Pending(i)
  BY <1>1, <1>6 DEF QueueOK, Pending
<1>9. \A j \in Insts : busy # j /\ splitRowOp(op[j]) \in SUBSET Parts
  BY <1>1, InstsAssumption, SplitParts, OpsAssumption, Zenon DEF TypeOK
<1>10. \A j \in Insts, r \in Parts :
          <<j, r>> \in Items(currStates') <=>
              <<j, r>> \in Items(currStates) /\ ~(j = i /\ r = p)
  <2>1. \A j \in Insts, r \in Parts : <<j, r>> = <<i, p>> <=> j = i /\ r = p
    OBVIOUS
  <2> QED
    BY <1>6, <2>1, Zenon
<1>11. Pending(i)' = Pending(i) \ {p}
  BY <1>2, <1>9, <1>10, Zenon DEF Pending
<1>12. \A j \in Insts \ {i} : Pending(j)' = Pending(j)
  BY <1>2, <1>9, <1>10, Zenon DEF Pending
<1>13. UNCHANGED <<setup, busy>>
  OBVIOUS
<1>14. /\ state' \in [Insts -> [live : BOOLEAN, outstanding : 0..3,
                                faults : [Parts -> Faults]]]
       /\ data' \in [Insts -> Payload]
       /\ flags' \in [Insts -> [started : BOOLEAN, completed : BOOLEAN]]
       /\ fault' \in [Insts -> Faults]
       /\ status' \in [Insts -> Status]
       /\ sent' \in [Insts -> Payload \cup {NoPayload}]
       /\ \A j \in Insts :
             StateOK(j)' /\ FlagsOK(j)' /\ DataOK(j)' /\ SentOK(j)'
  BY <1>7, <1>8, <1>11, <1>12, <1>13, Finishing, Zenon
<1>15. TypeOK'
  BY <1>1, <1>2, <1>4, <1>14, ZenonT(30) DEF TypeOK
<1>16. QueueOK'
  <2>1. fullSystem
    BY <1>1, Zenon DEF QueueOK
  <2>2. \A j \in Insts, r \in Parts :
           <<j, r>> \in Items(currStates') =>
              /\ r \in splitRowOp(op'[j])
              /\ busy' = j => r < part'
    BY <1>1, <1>2, <1>10, Zenon DEF QueueOK
  <2> QED
    BY <1>2, <1>4, <2>1, <2>2, Zenon DEF QueueOK
<1> QED
  BY <1>14, <1>15, <1>16, Zenon DEF IInv

(* Walker::recvTimingResp: the walk at the head ends with its outcome. *)
LEMMA WalkCompleteOK ==
    ASSUME IInv, WalkComplete
    PROVE  IInv'
<1> DEFINE i == Head(currStates)[1]
           p == Head(currStates)[2]
<1>1. /\ busy = NoInst /\ currStates # <<>>
      /\ FinishPart(i, p, Outcome(i, p))
      /\ currStates' = Tail(currStates) /\ UNCHANGED <<setup, busy, part>>
      /\ wrapper' \in {"idle", "scheduled", "running"} /\ dropped' = dropped
  BY ZenonT(30) DEF WalkComplete
<1>2. Outcome(i, p) \in Faults /\ FaultOf(i, p, Outcome(i, p))
  BY Zenon DEF Outcome, FaultOf, Faults
<1>3. dropped' \in 0..numSquashable
  BY <1>1, Zenon DEF IInv, TypeOK
<1> QED
  BY <1>1, <1>2, <1>3, HeadEnds, Zenon

(* Walker::startWalkWrapper drops the walk of an instruction that was      *)
(* squashed, which only the O3 CPU does, and only a full system has walks. *)
LEMMA DropSquashedWalkOK ==
    ASSUME IInv, DropSquashedWalk
    PROVE  IInv'
<1> DEFINE i == Head(currStates)[1]
           p == Head(currStates)[2]
<1>1. /\ busy = NoInst /\ currStates # <<>> /\ status[i] = "squashed"
      /\ FinishPart(i, p, "Squashed")
      /\ currStates' = Tail(currStates) /\ UNCHANGED <<setup, busy, part>>
      /\ wrapper' = "running" /\ dropped' = dropped + 1
      /\ dropped < numSquashable
  BY Zenon DEF DropSquashedWalk, Droppable
<1>2. i \in Insts
  <2>1. currStates \in Seq(Insts \X Parts) /\ Distinct(currStates)
    BY Zenon DEF IInv, TypeOK, QueueOK
  <2>2. Head(currStates) \in Insts \X Parts
    BY <1>1, <2>1, TailItems, ZenonT(30)
  <2> QED
    BY <2>2, Zenon
<1>3. cpu = "o3" /\ fullSystem
  BY <1>1, <1>2, Zenon DEF IInv, FlagsOK, QueueOK
<1>4. "Squashed" \in Faults /\ FaultOf(i, p, "Squashed")
  BY <1>3, Zenon DEF FaultOf, Faults
<1>5. dropped' \in 0..numSquashable
  BY <1>1, SquashAssumption DEF IInv, TypeOK
<1>6. wrapper' \in {"idle", "scheduled", "running"}
  BY <1>1, Zenon
<1> QED
  BY <1>1, <1>4, <1>5, <1>6, HeadEnds, Zenon

(* Steps that touch neither an instruction nor the queue. *)
LEMMA WalkerIdles ==
    ASSUME IInv, StartWalk \/ UNCHANGED vars
    PROVE  IInv'
<1>1. /\ UNCHANGED <<setup, busy, part, state, data, flags, fault, status, sent,
                     currStates>>
      /\ wrapper' \in {wrapper, "idle"} /\ dropped' \in {dropped, 0}
  BY Zenon DEF StartWalk, vars, setup
<1>2. TypeOK'
  BY <1>1, SquashAssumption DEF IInv, TypeOK, setup
<1>3. QueueOK'
  BY <1>1, Zenon DEF IInv, QueueOK, setup
<1>4. ASSUME NEW j \in Insts
      PROVE  StateOK(j)' /\ FlagsOK(j)' /\ DataOK(j)' /\ SentOK(j)'
  <2>1. Pending(j)' = Pending(j)
    BY <1>1, Zenon DEF Pending, setup
  <2> QED
    BY <1>1, <2>1, Zenon DEF IInv, StateOK, FlagsOK, DataOK, SentOK, FaultOf, Outcome,
                      AllPhysical, setup
<1> QED
  BY <1>2, <1>3, <1>4, Zenon DEF IInv

(* Every step keeps the invariant. *)
LEMMA NextOK ==
    ASSUME IInv, [Next]_vars
    PROVE  IInv'
<1>1. ASSUME NEW i \in Insts,
             Execute(i) \/ TranslateTiming(i) \/ EndWriteMem(i) \/ Reexecute(i)
                \/ Squash(i)
      PROVE  IInv'
  BY <1>1, ExecuteOK, TranslateTimingOK, EndWriteMemOK, ReexecuteOK, SquashOK, Zenon
<1> QED
  BY <1>1, WalkCompleteOK, DropSquashedWalkOK, WalkerIdles, Zenon DEF Next

-----------------------------------------------------------------------------
(* The count of outstanding rows is exact, whatever the CPU, the system    *)
(* and the order in which TLB, walker and squashes come: the inductive     *)
(* invariant of the translation.                                           *)
THEOREM TranslationInvariant == Spec => []IInv
<1>1. Init => IInv
  BY InitOK, Zenon
<1>2. IInv /\ [Next]_vars => IInv'
  BY NextOK, Zenon
<1> QED
  BY <1>1, <1>2, PTL DEF Spec

(* A row operation that reaches memory has a destination row that          *)
(* translated, and physical rows only where no walk delayed it: what       *)
(* writeMem and finishTranslation send.                                    *)
THEOREM SentRowsTranslated == Spec => []SentIsTranslated
<1>1. IInv => SentIsTranslated
  BY Zenon DEF IInv, SentOK, SentIsTranslated, AllPhysical
<1> QED
  BY <1>1, TranslationInvariant, PTL

(* The fault a finished translation left with the instruction is not       *)
(* overwritten: WholeTranslationState::finish comes to its end once, and   *)
(* the reset in writeMem is for translations in progress.                  *)
THEOREM VerdictIsKept == Spec => VerdictStays
<1>1. ASSUME NEW i \in Insts, NEW j \in Insts, NEW p, NEW f, IInv,
             FinishPart(i, p, f), p \in Pending(i), flags[j].completed
      PROVE  fault'[j] = fault[j]
  <2>1. ~flags[i].completed
    BY <1>1, Zenon DEF IInv, StateOK
  <2>2. i # j
    BY <1>1, <2>1, Zenon
  <2>3. fault \in [Insts -> Faults]
    BY <1>1, Zenon DEF IInv, TypeOK
  <2>4. \E v : fault' = [fault EXCEPT ![i] = v]
    BY <1>1, Zenon DEF FinishPart
  <2> QED
    BY <2>2, <2>3, <2>4, Zenon
<1>2. ASSUME IInv, NEW f, busy = NoInst, currStates # <<>>, NEW j \in Insts,
             FinishPart(Head(currStates)[1], Head(currStates)[2], f),
             flags[j].completed
      PROVE  fault'[j] = fault[j]
  <2>1. currStates \in Seq(Insts \X Parts) /\ Distinct(currStates)
    BY <1>2, Zenon DEF IInv, TypeOK, QueueOK
  <2>2. /\ Head(currStates) \in Items(currStates)
        /\ Head(currStates) \in Insts \X Parts
    BY <1>2, <2>1, TailItems, Zenon
  <2>3. PICK i \in Insts, p \in Parts : Head(currStates) = <<i, p>>
    BY <2>2
  <2>4. p \in Pending(i)
    BY <1>2, <2>2, <2>3, Zenon DEF IInv, QueueOK, Pending
  <2>5. FinishPart(i, p, f)
    BY <1>2, <2>3, SMTT(30)
  <2> QED
    BY <1>1, <1>2, <2>4, <2>5, Zenon
<1>3. ASSUME IInv, Next, NEW j \in Insts, flags[j].completed
      PROVE  fault'[j] = fault[j]
  <2>1. ASSUME NEW i \in Insts, TranslateTiming(i) PROVE fault'[j] = fault[j]
    <3>1. CASE UNCHANGED fault
      BY <3>1, Zenon
    <3>2. CASE part \in splitRowOp(op[i]) /\ FinishPart(i, part, Outcome(i, part))
      <4>1. busy = i /\ part \in Parts
        BY <2>1, Zenon DEF TranslateTiming
      <4>2. part \in Pending(i)
        BY <3>2, <4>1 DEF Pending, Parts
      <4> QED
        BY <1>1, <1>3, <3>2, <4>2, ZenonT(30)
    <3> QED
      BY <2>1, <3>1, <3>2, Zenon DEF TranslateTiming
  <2>2. ASSUME NEW i \in Insts, EndWriteMem(i) PROVE fault'[j] = fault[j]
    <3>1. fault \in [Insts -> Faults]
      BY <1>3, Zenon DEF IInv, TypeOK
    <3> QED
      BY <1>3, <2>2, <3>1, Zenon DEF EndWriteMem
  <2>3. ASSUME NEW i \in Insts, Execute(i) \/ Reexecute(i) \/ Squash(i)
        PROVE  fault'[j] = fault[j]
    BY <2>3, ZenonT(30) DEF Execute, Reexecute, Squash
  <2>4. CASE WalkComplete
    BY <1>2, <1>3, <2>4, ZenonT(30) DEF WalkComplete
  <2>5. CASE DropSquashedWalk
    BY <1>2, <1>3, <2>5 DEF DropSquashedWalk, Droppable
  <2>6. CASE StartWalk
    BY <2>6, Zenon DEF StartWalk
  <2> QED
    BY <1>3, <2>1, <2>2, <2>3, <2>4, <2>5, <2>6, Zenon DEF Next
<1>4. IInv /\ [Next]_vars =>
          [\A i \in Insts : flags[i].completed => fault'[i] = fault[i]]_vars
  BY <1>3, Zenon
<1> QED
  BY <1>4, TranslationInvariant, PTL DEF Spec, VerdictStays
=============================================================================
