--------------------------- MODULE RowOpTranslation ---------------------------
(***************************************************************************)
(* Address translation of row operations.                                  *)
(*                                                                         *)
(* A row operation is a store whose data is a payload of up to three row   *)
(* addresses: the destination and one or two sources.  Its request carries *)
(* the virtual address 0.  The rows are translated one by one: every one   *)
(* is either found in the TLB and finished on the spot, or handed to the   *)
(* page table walker, which finishes it later (full system only).  The     *)
(* last one to finish writes the physical addresses into the payload and   *)
(* informs the CPU, which sends the payload to memory or takes a fault.    *)
(*                                                                         *)
(* The module models the row-op paths of BaseDynInst (the O3 CPU) and of   *)
(* TimingSimpleCPU, WholeTranslationState/DataTranslation, and the queue   *)
(* of the x86 page table walker.  An address in a payload is abstracted to *)
(* whether it is virtual or physical.                                      *)
(***************************************************************************)
EXTENDS Naturals, Sequences, FiniteSets

CONSTANTS
    Insts,          \* the row operations in flight
    Ops,            \* the operations they may be, a subset of RowOps
    Cpus,           \* CPU models considered: "o3", "timing"
    Systems,        \* values of FullSystem considered, a subset of BOOLEAN
    numSquashable,  \* parameter of the walker: squashed walks dropped at once
    NoInst          \* the CPU is not inside writeMem

Unary  == {"ROWNOT", "ROWAAP", "ROWLS", "ROWRS"}
Binary == {"ROWAND", "ROWOR", "ROWXOR"}
RowOps == {"ROWAP"} \cup Unary \cup Binary

ASSUME InstsAssumption == IsFiniteSet(Insts) /\ NoInst \notin Insts
ASSUME OpsAssumption == Ops \subseteq RowOps
ASSUME CpusAssumption == Cpus \subseteq {"o3", "timing"}
ASSUME SystemsAssumption == Systems \subseteq BOOLEAN
ASSUME SquashAssumption == numSquashable \in Nat \ {0}

(* Indices of the parts of a translation: dest, src1, src2 *)
Parts == 0..2

VARIABLES
    cpu,        \* the CPU model
    fullSystem, \* FullSystem
    op,         \* [Insts -> Ops]: payload op
    hit,        \* [Insts -> SUBSET Parts]: rows whose page is in the TLB;
                \* without a walker a miss is served as fast as a hit
    bad,        \* [Insts -> SUBSET Parts]: rows whose translation faults
    busy,       \* the instruction inside writeMem, or NoInst
    part,       \* the part writeMem translates next, 3 when past the last
    state,      \* [Insts -> WholeTranslationState]
    data,       \* [Insts -> payload of the current execution]
    flags,      \* [Insts -> [started, completed: BOOLEAN]]
    fault,      \* [Insts -> Fault]: DynInst::fault, or the fault taken
    status,     \* [Insts -> Status]
    sent,       \* [Insts -> payload handed to the store queue or the cache]
    currStates, \* Walker::currStates: queue of <<inst, part>>
    wrapper,    \* startWalkWrapperEvent: "idle", "scheduled" or "running"
    dropped     \* num_squashed of the running event

vars == <<cpu, fullSystem, op, hit, bad, busy, part, state, data, flags, fault,
          status, sent, currStates, wrapper, dropped>>
setup == <<cpu, fullSystem, op, hit, bad>>

Faults == {"NoFault", "PageFault", "Squashed"}
Status == {"ready", "executing", "deferred", "executed", "squashed"}
Payload == [Parts -> {"virtual", "physical"}]

(* Request::splitRowOp: the rows an operation names *)
splitRowOp(o) ==
    {0} \cup (IF o = "ROWAP" THEN {} ELSE {1})
        \cup (IF o \in {"ROWAP"} \cup Unary THEN {} ELSE {2})

(* No translation in progress: the state is deleted by finishTranslation *)
NoState == [live |-> FALSE, outstanding |-> 0,
            faults |-> [p \in Parts |-> "NoFault"]]

(* The payload as the instruction builds it from its registers *)
FreshPayload == [p \in Parts |-> "virtual"]

NoPayload == <<>>

-----------------------------------------------------------------------------
(* WholeTranslationState *)

(* The count allows for the parts the walk of writeMem will start *)
WholeTranslationState(o) ==
    [live        |-> TRUE,
     outstanding |-> IF 1 \notin splitRowOp(o) THEN 1
                     ELSE IF 2 \notin splitRowOp(o) THEN 2 ELSE 3,
     faults      |-> [p \in Parts |-> "NoFault"]]

(* WholeTranslationState::finish on the counters *)
finish(s, p, f) ==
    [s EXCEPT !.outstanding = @ - 1, !.faults[p] = f]

(* ... and, at the last part, on the payload: rows that did not fault *)
Translated(o, s, d) ==
    [p \in Parts |-> IF p \in splitRowOp(o) /\ s.faults[p] = "NoFault"
                     THEN "physical" ELSE d[p]]

(* Mutant: the fault of the destination row is overlooked. *)
getFault_src1(s) == s.faults[1]

(* getFault: a row operation is not isSplit, so only part 0 is looked at *)
getFault(s) == s.faults[0]

-----------------------------------------------------------------------------
Init ==
    /\ cpu \in Cpus
    /\ fullSystem \in Systems
    /\ op \in [Insts -> Ops]
    /\ hit \in {h \in [Insts -> SUBSET Parts] :
                    \A i \in Insts : h[i] \subseteq
                        (IF fullSystem THEN splitRowOp(op[i]) ELSE {})}
    /\ bad \in {b \in [Insts -> SUBSET Parts] :
                    \A i \in Insts : b[i] \subseteq splitRowOp(op[i])}
    /\ busy = NoInst
    /\ part = 3
    /\ state = [i \in Insts |-> NoState]
    /\ data = [i \in Insts |-> FreshPayload]
    /\ flags = [i \in Insts |-> [started |-> FALSE, completed |-> FALSE]]
    /\ fault = [i \in Insts |-> "NoFault"]
    /\ status = [i \in Insts |-> "ready"]
    /\ sent = [i \in Insts |-> NoPayload]
    /\ currStates = <<>>
    /\ wrapper = "idle"
    /\ dropped = 0

-----------------------------------------------------------------------------
(* DataTranslation::finish: part p of instruction i ends with fault f.     *)
(*                                                                         *)
(* In the O3 CPU the payload is a local of initiateAcc; while i is busy    *)
(* the frame is the one writeMem was called from.  Later it is dead: the   *)
(* physical addresses go to stack memory nobody reads, and the payload of  *)
(* a later execution of i does not see them.  TimingSimpleCPU translates   *)
(* a copy of its own.  It sends it, or takes the fault, at once            *)
(* (finishTranslation); the O3 CPU records the verdict.                    *)
FinishPart(i, p, f) ==
    LET s == finish(state[i], p, f)
        last == s.outstanding = 0
        d == Translated(op[i], s, data[i])
        v == getFault(s)
    IN /\ state' = [state EXCEPT ![i] = IF last THEN NoState ELSE s]
       /\ flags' = [flags EXCEPT ![i].completed = @ \/ last]
       /\ fault' = [fault EXCEPT ![i] = IF last THEN v ELSE @]
       /\ data' = [data EXCEPT ![i] =
                      IF last /\ (cpu = "timing" \/ busy = i) THEN d ELSE @]
       /\ IF cpu = "timing" /\ last
          THEN /\ sent' = [sent EXCEPT ![i] = IF v = "NoFault" THEN d ELSE @]
               /\ status' = [status EXCEPT ![i] = "executed"]
          ELSE UNCHANGED <<sent, status>>

(* The fault part p of instruction i translates to *)
Outcome(i, p) == IF p \in bad[i] THEN "PageFault" ELSE "NoFault"

(* One event runs at a time: no writeMem and no walker event is under way *)
Idle == busy = NoInst /\ wrapper # "running"

(* The simple CPU executes one instruction at a time *)
MayExecute(i) ==
    /\ Idle
    /\ cpu = "timing" => \A j \in Insts : status[j] \in {"ready", "executed"}

(* writeMem, first execution: a fresh payload, a fresh translation state *)
Execute(i) ==
    /\ status[i] = "ready"
    /\ MayExecute(i)
    /\ busy' = i
    /\ part' = 0
    /\ state' = [state EXCEPT ![i] = WholeTranslationState(op[i])]
    /\ data' = [data EXCEPT ![i] = FreshPayload]
    /\ flags' = [flags EXCEPT ![i] = [started |-> TRUE, completed |-> FALSE]]
    /\ status' = [status EXCEPT ![i] = "executing"]
    /\ UNCHANGED <<setup, fault, sent, currStates, wrapper, dropped>>

(* TLB::translateTiming for the next part: skipped when its request is     *)
(* NULL, finished at once unless a walk is needed, queued otherwise.       *)
TranslateTiming(i) ==
    /\ busy = i
    /\ part \in Parts
    /\ part' = part + 1
    /\ \/ /\ part \notin splitRowOp(op[i])
          /\ UNCHANGED <<state, data, flags, fault, status, sent, currStates>>
       \/ /\ part \in splitRowOp(op[i])
          /\ ~fullSystem \/ part \in hit[i]
          /\ FinishPart(i, part, Outcome(i, part))
          /\ UNCHANGED currStates
       \/ /\ part \in splitRowOp(op[i])
          /\ fullSystem /\ part \notin hit[i]
          /\ currStates' = Append(currStates, <<i, part>>)
          /\ UNCHANGED <<state, data, flags, fault, status, sent>>
    /\ UNCHANGED <<setup, busy, wrapper, dropped>>

(* The end of writeMem.  O3: a delayed instruction is deferred, a faulting *)
(* one goes to commit, and cpu->write copies the payload of this execution *)
(* to the store queue otherwise.  The simple CPU only returns.             *)
EndWriteMem(i) ==
    /\ busy = i
    /\ part = 3
    /\ busy' = NoInst
    /\ IF cpu = "timing"
       THEN UNCHANGED <<fault, status, sent>>
       ELSE IF ~flags[i].completed
       THEN /\ fault' = [fault EXCEPT ![i] = "NoFault"]
            /\ status' = [status EXCEPT ![i] = "deferred"]
            /\ UNCHANGED sent
       ELSE /\ status' = [status EXCEPT ![i] = "executed"]
            /\ sent' = [sent EXCEPT ![i] =
                           IF fault[i] = "NoFault" THEN data[i] ELSE @]
            /\ UNCHANGED fault
    /\ UNCHANGED <<setup, part, state, data, flags, currStates, wrapper, dropped>>

(* Mutant: a re-execution starts with a clean slate. *)
Reexecute_clean(i) ==
    /\ status[i] = "deferred"
    /\ flags[i].completed
    /\ MayExecute(i)
    /\ busy' = i
    /\ part' = 3
    /\ data' = [data EXCEPT ![i] = FreshPayload]
    /\ fault' = [fault EXCEPT ![i] = "NoFault"]
    /\ status' = [status EXCEPT ![i] = "executing"]
    /\ UNCHANGED <<setup, state, flags, sent, currStates, wrapper, dropped>>

(* Mutant: a deferred instruction that faulted is not picked up again. *)
Reexecute_faultless(i) ==
    /\ status[i] = "deferred"
    /\ flags[i].completed
    /\ fault[i] = "NoFault"
    /\ MayExecute(i)
    /\ busy' = i
    /\ part' = 3
    /\ data' = [data EXCEPT ![i] = FreshPayload]
    /\ status' = [status EXCEPT ![i] = "executing"]
    /\ UNCHANGED <<setup, state, flags, fault, sent, currStates, wrapper, dropped>>

(* A deferred instruction whose translation completed executes again: its  *)
(* payload is built anew, and writeMem takes the saved request instead of  *)
(* translating (translationStarted).                                       *)
Reexecute(i) ==
    /\ status[i] = "deferred"
    /\ flags[i].completed
    /\ MayExecute(i)
    /\ busy' = i
    /\ part' = 3
    /\ data' = [data EXCEPT ![i] = FreshPayload]
    /\ status' = [status EXCEPT ![i] = "executing"]
    /\ UNCHANGED <<setup, state, flags, fault, sent, currStates, wrapper, dropped>>

(* The O3 CPU squashes an instruction it has not committed *)
Squash(i) ==
    /\ cpu = "o3"
    /\ Idle
    /\ status[i] \in {"ready", "deferred"}
    /\ status' = [status EXCEPT ![i] = "squashed"]
    /\ UNCHANGED <<setup, busy, part, state, data, flags, fault, sent,
                   currStates, wrapper, dropped>>

(* The walk at the head of the queue ends (Walker::recvTimingResp); an     *)
(* event of its own starts the next one.                                   *)
WalkComplete ==
    /\ busy = NoInst
    /\ currStates # <<>>
    /\ wrapper = "idle"
    /\ LET w == Head(currStates)
       IN FinishPart(w[1], w[2], Outcome(w[1], w[2]))
    /\ currStates' = Tail(currStates)
    /\ wrapper' = IF Tail(currStates) # <<>> THEN "scheduled" ELSE "idle"
    /\ UNCHANGED <<setup, busy, part, dropped>>

(* Walker::startWalkWrapper first drops squashed walks from the head of    *)
(* the queue, at most numSquashable, finishing each with a fault.          *)
Droppable ==
    /\ dropped < numSquashable
    /\ currStates # <<>>
    /\ status[Head(currStates)[1]] = "squashed"

DropSquashedWalk ==
    /\ busy = NoInst
    /\ wrapper # "idle"
    /\ Droppable
    /\ wrapper' = "running"
    /\ dropped' = dropped + 1
    /\ LET w == Head(currStates) IN FinishPart(w[1], w[2], "Squashed")
    /\ currStates' = Tail(currStates)
    /\ UNCHANGED <<setup, busy, part>>

(* ... then it starts the walk left at the head, if there is one. *)
StartWalk ==
    /\ busy = NoInst
    /\ wrapper # "idle"
    /\ ~Droppable
    /\ wrapper' = "idle"
    /\ dropped' = 0
    /\ UNCHANGED <<setup, busy, part, state, data, flags, fault, status, sent,
                   currStates>>

Next ==
    \/ \E i \in Insts : Execute(i) \/ TranslateTiming(i) \/ EndWriteMem(i)
                          \/ Reexecute(i) \/ Squash(i)
    \/ WalkComplete
    \/ DropSquashedWalk
    \/ StartWalk

(* Handlers run to completion, memory answers the walker, scheduled events *)
(* run, and the CPU executes what it has and does not squash.              *)
Fairness ==
    /\ \A i \in Insts : WF_vars(Execute(i) \/ TranslateTiming(i)
                                \/ EndWriteMem(i) \/ Reexecute(i))
    /\ WF_vars(WalkComplete)
    /\ WF_vars(DropSquashedWalk \/ StartWalk)

Spec == Init /\ [][Next]_vars /\ Fairness

-----------------------------------------------------------------------------
(* Properties *)

TypeOK ==
    /\ cpu \in Cpus /\ fullSystem \in Systems
    /\ op \in [Insts -> Ops]
    /\ hit \in [Insts -> SUBSET Parts] /\ bad \in [Insts -> SUBSET Parts]
    /\ busy \in Insts \cup {NoInst} /\ part \in 0..3
    /\ state \in [Insts -> [live : BOOLEAN, outstanding : 0..3,
                            faults : [Parts -> Faults]]]
    /\ data \in [Insts -> Payload]
    /\ flags \in [Insts -> [started : BOOLEAN, completed : BOOLEAN]]
    /\ fault \in [Insts -> Faults]
    /\ status \in [Insts -> Status]
    /\ sent \in [Insts -> Payload \cup {NoPayload}]
    /\ currStates \in Seq(Insts \X Parts)
    /\ wrapper \in {"idle", "scheduled", "running"}
    /\ dropped \in 0..numSquashable

(* A row operation whose destination row does not translate never reaches  *)
(* the memory system, and one that reaches it without a source row having  *)
(* faulted carries physical rows only, on the simple CPU and wherever the  *)
(* O3 CPU translated without a delay.                                      *)
SentIsTranslated ==
    \A i \in Insts :
        sent[i] # NoPayload =>
            /\ 0 \notin bad[i]
            /\ (cpu = "timing" \/ ~fullSystem) /\ bad[i] = {} =>
                  \A p \in splitRowOp(op[i]) : sent[i][p] = "physical"

(* The verdict of a finished translation stays with the instruction: no    *)
(* later execution of it clears the fault (the reset in writeMem is only   *)
(* for translations still in progress).                                    *)
VerdictStays ==
    [][\A i \in Insts : flags[i].completed => fault'[i] = fault[i]]_vars

(* Every row operation gets to memory, faults or is squashed: a deferred   *)
(* one is not forgotten while the walker drops and starts walks.           *)
EveryRowOpEnds ==
    \A i \in Insts : <>(status[i] \in {"executed", "squashed"})

(* A row operation any of whose rows did not translate takes the fault.    *)
SourceFaultTaken ==
    \A i \in Insts : sent[i] # NoPayload => bad[i] = {}

(* A row operation that translated without a fault carries the physical    *)
(* addresses of its rows, also when a page table walk delayed it.          *)
DelayedIsTranslated ==
    \A i \in Insts :
        sent[i] # NoPayload /\ bad[i] = {} =>
            \A p \in splitRowOp(op[i]) : sent[i][p] = "physical"
=============================================================================
