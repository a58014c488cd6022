------------------------------ MODULE DRAMCtrl ------------------------------
(***************************************************************************)
(* The request path of the DRAM controller (src/gem5/src/mem/dram_ctrl.cc):*)
(* read, write and response queues, read/write bus turnaround, row         *)
(* operations, flow control towards the port, draining, and the hand-over  *)
(* between the request loop and the refresh loop of each rank.             *)
(*                                                                         *)
(* Time is abstracted to the order of events: a boolean says whether an    *)
(* event is scheduled, and any scheduled event may be the next to run.     *)
(* The bank timing that decides *when* an access is done is the subject of *)
(* module DRAMRank; here it only decides which packet FR-FCFS picks        *)
(* (any packet to an available rank).                                      *)
(*                                                                         *)
(* Functional memory is updated inside accessAndRespond, so a read is held *)
(* by the controller until that call and a write never is: only reads need *)
(* an identity.                                                            *)
(***************************************************************************)
EXTENDS Integers, Sequences, FiniteSets

CONSTANTS
  Reads,                 \* identities of read packets the port can have in flight
  Ranks,                 \* 0 .. ranksPerChannel - 1
  RankOf(_),             \* the rank decodeAddr finds in an address
  BurstSize,             \* bytes of a DRAM burst
  ReadPkts, WritePkts,   \* [addr, size] of the packets the port sends
  RowOpDests,            \* destination rows (addresses) of the row operations it sends
  RowOpBursts,           \* divCeil(sizeof(RowOpPayload), burstSize)
  ReadBufferSize, WriteBufferSize,
  WriteHighThreshold, WriteLowThreshold, MinWritesPerSwitch,
  MemSchedPolicy         \* "fcfs" or "frfcfs"

Span == [addr : Nat, size : Nat \ {0}]

-----------------------------------------------------------------------------
\* Geometry of packets

BurstAlign(a) == a - (a % BurstSize)

DivCeil(a, b) == (a + b - 1) \div b

\* Number of DRAM packets a system packet translates to.
BurstCount(pkt) == DivCeil((pkt.addr % BurstSize) + pkt.size, BurstSize)

\* The k-th burst of a packet: only the first may start, and only the last may
\* end, inside a burst.
Burst(pkt, k) ==
  LET first == IF k = 1 THEN pkt.addr ELSE BurstAlign(pkt.addr) + (k - 1) * BurstSize
      limit == BurstAlign(pkt.addr) + k * BurstSize
      last  == IF limit < pkt.addr + pkt.size THEN limit ELSE pkt.addr + pkt.size
  IN  [addr |-> first, size |-> last - first]

ASSUME ConstantAssumption ==
  /\ IsFiniteSet(Ranks) /\ 0 \in Ranks
  /\ BurstSize \in Nat \ {0}
  /\ ReadPkts \subseteq Span /\ WritePkts \subseteq Span
  /\ RowOpDests \subseteq Nat
  /\ \A pkt \in ReadPkts \cup WritePkts :
       \A k \in 1 .. BurstCount(pkt) : RankOf(Burst(pkt, k).addr) \in Ranks
  /\ \A dest \in RowOpDests : RankOf(dest) \in Ranks
  /\ RowOpBursts \in Nat \ {0}
  /\ ReadBufferSize \in Nat \ {0} /\ WriteBufferSize \in Nat \ {0}
  /\ WriteHighThreshold \in Nat /\ WriteLowThreshold \in Nat
  /\ MinWritesPerSwitch \in Nat
  /\ MemSchedPolicy \in {"fcfs", "frfcfs"}

VARIABLES
  readQueue,       \* read bursts waiting for the DRAM
  writeQueue,      \* write bursts and row operations waiting for the DRAM
  respQueue,       \* read bursts whose data is on its way
  isInWriteQueue,  \* burst addresses looked up for merging and forwarding
  helper,          \* BurstHelper of a split read
  pendingRowOps, busState, writesThisTime,
  nextReqEvent, respondEvent,      \* is the event scheduled?
  retryRdReq, retryWrReq,
  activeRank,
  drainState,
  refreshState, refreshEvent,      \* per rank
  refreshing,      \* per rank: pwrState = PWR_REF
  rested,          \* ranks refreshed since the request loop last ran
  peer,            \* the master port: may it send, or does it wait for a retry?
  outstanding,     \* reads accepted and not yet taken back by the port
  answers          \* per read: responses produced and not yet taken

queueVars   == <<readQueue, writeQueue, respQueue, isInWriteQueue, helper, pendingRowOps>>
busVars     == <<busState, writesThisTime, activeRank>>
eventVars   == <<nextReqEvent, respondEvent>>
retryVars   == <<retryRdReq, retryWrReq, peer>>
refreshVars == <<refreshState, refreshEvent, refreshing, rested>>
readVars    == <<outstanding, answers>>
vars == <<queueVars, busVars, eventVars, retryVars, drainState, refreshVars, readVars>>

-----------------------------------------------------------------------------
\* Packets

ReadPacket  == [req : Reads, rank : Ranks]
WritePacket == [addr : Nat, size : Nat, rowOp : BOOLEAN, rank : Ranks]
NoHelper    == [burstCount |-> 0, burstsServiced |-> 0]

\* The set holding the one enumeration of a set of burst numbers in loop order.
InOrder(ks) == {s \in [1 .. Cardinality(ks) -> ks] :
                  \A i, j \in 1 .. Cardinality(ks) : i < j => s[i] < s[j]}

Available(r) == refreshState[r] = "REF_IDLE"

\* Mutant: bursts whose data is on its way hold no buffer entry.
MutReadQueueFull(n) == Len(readQueue) + n > ReadBufferSize

ReadQueueFull(n)  == Len(readQueue) + Len(respQueue) + n > ReadBufferSize
WriteQueueFull(n) == Len(writeQueue) + n > WriteBufferSize

\* Is the read burst b subsumed by a queued write?
FoundInWrQ(b) ==
  /\ BurstAlign(b.addr) \in isInWriteQueue
  /\ \E i \in DOMAIN writeQueue :
       LET p == writeQueue[i]
       IN  p.addr <= b.addr /\ b.addr + b.size <= p.addr + p.size

-----------------------------------------------------------------------------
Init ==
  /\ readQueue = <<>> /\ writeQueue = <<>> /\ respQueue = <<>>
  /\ isInWriteQueue = {}
  /\ helper = [r \in Reads |-> NoHelper]
  /\ pendingRowOps = 0
  /\ busState = "READ" /\ writesThisTime = 0 /\ activeRank = 0
  /\ nextReqEvent = FALSE /\ respondEvent = FALSE
  /\ retryRdReq = FALSE /\ retryWrReq = FALSE /\ peer = "ready"
  /\ drainState = "Running"
  /\ refreshState = [r \in Ranks |-> "REF_IDLE"]
  /\ refreshEvent = [r \in Ranks |-> TRUE]
  /\ refreshing = [r \in Ranks |-> FALSE]
  /\ rested = {}
  /\ outstanding = {}
  /\ answers = [r \in Reads |-> 0]

-----------------------------------------------------------------------------
\* recvTimingReq and the two enqueue operations it calls

RefuseRead(pkt) ==
  /\ peer = "ready"
  /\ ReadQueueFull(BurstCount(pkt))
  /\ retryRdReq' = TRUE
  /\ peer' = "waiting"
  /\ UNCHANGED <<queueVars, busVars, eventVars, retryWrReq, drainState, refreshVars, readVars>>

\* Mutant: a refused write is not remembered.
MutRefuseWrite(n) ==
  /\ peer = "ready"
  /\ WriteQueueFull(n)
  /\ peer' = "waiting"
  /\ UNCHANGED <<queueVars, busVars, eventVars, retryRdReq, retryWrReq, drainState,
                 refreshVars, readVars>>

RefuseWrite(n) ==
  /\ peer = "ready"
  /\ WriteQueueFull(n)
  /\ retryWrReq' = TRUE
  /\ peer' = "waiting"
  /\ UNCHANGED <<queueVars, busVars, eventVars, retryRdReq, drainState, refreshVars, readVars>>

\* Bursts the write queue does not hold are queued; a packet it holds entirely
\* is answered at once.
AddToReadQueue(r, pkt) ==
  LET n       == BurstCount(pkt)
      missing == {k \in 1 .. n : ~FoundInWrQ(Burst(pkt, k))}
  IN  IF missing = {}
        THEN /\ answers' = [answers EXCEPT ![r] = @ + 1]
             /\ UNCHANGED <<readQueue, helper, nextReqEvent>>
        ELSE /\ \E s \in InOrder(missing) :
                  readQueue' = readQueue \o
                    [i \in 1 .. Cardinality(missing) |->
                       [req |-> r, rank |-> RankOf(Burst(pkt, s[i]).addr)]]
             /\ helper' = [helper EXCEPT ![r] =
                             IF n > 1 THEN [burstCount |-> n,
                                            burstsServiced |-> n - Cardinality(missing)]
                                      ELSE NoHelper]
             /\ nextReqEvent' = TRUE
             /\ UNCHANGED answers

AcceptRead(r, pkt) ==
  /\ peer = "ready"
  /\ r \notin outstanding
  /\ ~ReadQueueFull(BurstCount(pkt))
  /\ AddToReadQueue(r, pkt)
  /\ outstanding' = outstanding \cup {r}
  /\ UNCHANGED <<writeQueue, respQueue, isInWriteQueue, pendingRowOps, busVars,
                 respondEvent, retryVars, drainState, refreshVars>>

\* A burst whose burst address is already registered merges, that is, vanishes.
AcceptWrite(pkt) ==
  LET n      == BurstCount(pkt)
      pushed == {k \in 1 .. n : BurstAlign(Burst(pkt, k).addr) \notin isInWriteQueue}
  IN  /\ peer = "ready"
      /\ ~WriteQueueFull(n)
      /\ \E s \in InOrder(pushed) :
           writeQueue' = writeQueue \o
             [i \in 1 .. Cardinality(pushed) |->
                LET b == Burst(pkt, s[i])
                IN  [addr |-> b.addr, size |-> b.size, rowOp |-> FALSE,
                     rank |-> RankOf(b.addr)]]
      /\ isInWriteQueue' = isInWriteQueue \cup {BurstAlign(Burst(pkt, k).addr) : k \in pushed}
      /\ nextReqEvent' = TRUE
      /\ UNCHANGED <<readQueue, respQueue, helper, pendingRowOps, busVars, respondEvent,
                     retryVars, drainState, refreshVars, readVars>>

\* Mutant: the row operation is not counted.
MutAcceptRowOp(dest) ==
  /\ peer = "ready"
  /\ ~WriteQueueFull(RowOpBursts)
  /\ writeQueue' = Append(writeQueue, [addr |-> dest, size |-> 0, rowOp |-> TRUE,
                                       rank |-> RankOf(dest)])
  /\ nextReqEvent' = TRUE
  /\ UNCHANGED <<readQueue, respQueue, isInWriteQueue, helper, pendingRowOps, busVars,
                 respondEvent, retryVars, drainState, refreshVars, readVars>>

\* A row operation is one packet of size 0 at its destination and is not
\* registered in isInWriteQueue.
AcceptRowOp(dest) ==
  /\ peer = "ready"
  /\ ~WriteQueueFull(RowOpBursts)
  /\ writeQueue' = Append(writeQueue, [addr |-> dest, size |-> 0, rowOp |-> TRUE,
                                       rank |-> RankOf(dest)])
  /\ pendingRowOps' = pendingRowOps + 1
  /\ nextReqEvent' = TRUE
  /\ UNCHANGED <<readQueue, respQueue, isInWriteQueue, helper, busVars, respondEvent,
                 retryVars, drainState, refreshVars, readVars>>

\* The port takes a response back (external: the port's packet queue).
TakeResponse(r) ==
  /\ answers[r] > 0
  /\ answers' = [answers EXCEPT ![r] = @ - 1]
  /\ outstanding' = outstanding \ {r}
  /\ UNCHANGED <<queueVars, busVars, eventVars, retryVars, drainState, refreshVars>>

-----------------------------------------------------------------------------
\* processRespondEvent

\* Mutant: a split read is complete one burst early.
MutCompletesRead(r) ==
  helper[r] = NoHelper \/ helper[r].burstsServiced + 2 >= helper[r].burstCount

\* Does the burst at the head of respQueue complete its packet?
CompletesRead(r) ==
  helper[r] = NoHelper \/ helper[r].burstsServiced + 1 = helper[r].burstCount

\* Is respondEvent scheduled for the next response?
RespondAgain(queue) == queue # <<>>

\* Mutant: waiting reads are forgotten.
MutNothingQueued == writeQueue = <<>>

NothingQueued == writeQueue = <<>> /\ readQueue = <<>>

ProcessRespondEvent ==
  LET r == Head(respQueue).req
  IN  /\ respondEvent
      /\ IF CompletesRead(r)
           THEN /\ answers' = [answers EXCEPT ![r] = @ + 1]
                /\ helper' = [helper EXCEPT ![r] = NoHelper]
           ELSE /\ helper' = [helper EXCEPT ![r].burstsServiced = @ + 1]
                /\ UNCHANGED answers
      /\ respQueue' = Tail(respQueue)
      /\ respondEvent' = RespondAgain(respQueue')
      /\ drainState' = IF /\ respQueue' = <<>>
                          /\ drainState = "Draining" /\ NothingQueued
                         THEN "Drained" ELSE drainState
      /\ retryRdReq' = FALSE
      /\ peer' = IF retryRdReq THEN "ready" ELSE peer
      /\ UNCHANGED <<readQueue, writeQueue, isInWriteQueue, pendingRowOps, busVars,
                     nextReqEvent, retryWrReq, refreshVars, outstanding>>

-----------------------------------------------------------------------------
\* processNextReqEvent

\* Packets to an available rank.
Ready(queue) == {i \in DOMAIN queue : Available(queue[i].rank)}

\* Positions chooseNext may move to the head: the first packet to an available
\* rank, or (FR-FCFS) the one the bank timing favours.
ChooseNext(queue) ==
  IF MemSchedPolicy = "fcfs" THEN {i \in Ready(queue) : \A j \in Ready(queue) : i <= j}
                             ELSE Ready(queue)

Without(queue, i) == [j \in 1 .. Len(queue) - 1 |-> IF j < i THEN queue[j] ELSE queue[j + 1]]

\* Rank::checkDrainDone for every rank that is not available.
CheckDrainDone ==
  /\ refreshState' = [r \in Ranks |->
       IF refreshState[r] = "REF_DRAIN" THEN "REF_PRE" ELSE refreshState[r]]
  /\ refreshEvent' = [r \in Ranks |-> refreshState[r] = "REF_DRAIN" \/ refreshEvent[r]]

\* The bus state once a pending turnaround has been completed.
BusNow == CASE busState = "READ_TO_WRITE" -> "WRITE"
            [] busState = "WRITE_TO_READ" -> "READ"
            [] OTHER                      -> busState

WritesNow == IF busState = "WRITE_TO_READ" THEN 0 ELSE writesThisTime

WritesDue ==
  /\ writeQueue # <<>>
  /\ \/ drainState = "Draining"
     \/ Len(writeQueue) > WriteLowThreshold
     \/ pendingRowOps > 0

\* The tail of processNextReqEvent: reschedule, and let a refused write retry.
RetryWrites(queue) ==
  LET retry == retryWrReq /\ Len(queue) < WriteBufferSize
  IN  /\ retryWrReq' = (retryWrReq /\ ~retry)
      /\ peer' = IF retry THEN "ready" ELSE peer

\* All ranks are refreshing: the loop stops until a refresh completes.
StallAllBusy ==
  /\ \A r \in Ranks : ~Available(r)
  /\ nextReqEvent' = FALSE
  /\ UNCHANGED <<queueVars, busVars, respondEvent, retryVars, drainState, readVars>>

\* Mutant: only the response loop notices that the controller is empty.
MutGoIdle ==
  /\ BusNow = "READ" /\ readQueue = <<>> /\ ~WritesDue
  /\ busState' = "READ" /\ writesThisTime' = WritesNow
  /\ nextReqEvent' = FALSE
  /\ UNCHANGED <<queueVars, activeRank, respondEvent, retryVars, readVars, drainState>>

\* Nothing to read and no reason to write.
GoIdle ==
  /\ BusNow = "READ" /\ readQueue = <<>> /\ ~WritesDue
  /\ drainState' = IF drainState = "Draining" /\ respQueue = <<>> THEN "Drained" ELSE drainState
  /\ busState' = "READ" /\ writesThisTime' = WritesNow
  /\ nextReqEvent' = FALSE
  /\ UNCHANGED <<queueVars, activeRank, respondEvent, retryVars, readVars>>

\* No packet of the current direction goes to an available rank.
StallRankBusy ==
  /\ \/ BusNow = "READ" /\ readQueue # <<>> /\ Ready(readQueue) = {}
     \/ BusNow = "WRITE" /\ Ready(writeQueue) = {}
  /\ busState' = BusNow /\ writesThisTime' = WritesNow
  /\ nextReqEvent' = FALSE
  /\ UNCHANGED <<queueVars, activeRank, respondEvent, retryVars, drainState, readVars>>

TurnToWrites ==
  /\ BusNow = "READ" /\ readQueue = <<>> /\ WritesDue
  /\ busState' = "READ_TO_WRITE" /\ writesThisTime' = WritesNow
  /\ nextReqEvent' = TRUE
  /\ RetryWrites(writeQueue)
  /\ UNCHANGED <<queueVars, activeRank, respondEvent, retryRdReq, drainState, readVars>>

ServeRead(i) ==
  /\ BusNow = "READ" /\ i \in ChooseNext(readQueue)
  /\ readQueue' = Without(readQueue, i)
  /\ respQueue' = Append(respQueue, readQueue[i])
  /\ respondEvent' = TRUE
  /\ activeRank' = readQueue[i].rank
  /\ busState' = IF Len(writeQueue) > WriteHighThreshold \/ pendingRowOps > 0
                   THEN "READ_TO_WRITE" ELSE "READ"
  /\ writesThisTime' = WritesNow
  /\ nextReqEvent' = TRUE
  /\ RetryWrites(writeQueue)
  /\ UNCHANGED <<writeQueue, isInWriteQueue, helper, pendingRowOps, retryRdReq, drainState,
                 readVars>>

\* Mutant: an empty write queue is no reason to turn around.
MutTurnEmpty(queue, rowOps, writes) ==
  /\ rowOps = 0
  /\ \/ Len(queue) + MinWritesPerSwitch < WriteLowThreshold /\ drainState # "Draining"
     \/ readQueue # <<>> /\ writes >= MinWritesPerSwitch

\* Mutant: waiting reads are no reason to turn around.
MutTurnStarve(queue, rowOps, writes) ==
  /\ rowOps = 0
  /\ \/ queue = <<>>
     \/ Len(queue) + MinWritesPerSwitch < WriteLowThreshold /\ drainState # "Draining"

\* Does the bus turn back to reads after a write?
TurnToReads(queue, rowOps, writes) ==
  /\ rowOps = 0
  /\ \/ queue = <<>>
     \/ Len(queue) + MinWritesPerSwitch < WriteLowThreshold /\ drainState # "Draining"
     \/ readQueue # <<>> /\ writes >= MinWritesPerSwitch

\* Mutant: the address is removed as it is, not burst aligned.
MutDeregister(p) == isInWriteQueue \ {p.addr}

Deregister(p) == isInWriteQueue \ {BurstAlign(p.addr)}

\* Row operations do not count as writes of this turn.  writesThisTime is only
\* compared with the minimum, at which it is capped.
ServeWrite(i) ==
  LET p      == writeQueue[i]
      queue  == Without(writeQueue, i)
      rowOps == IF p.rowOp THEN pendingRowOps - 1 ELSE pendingRowOps
      writes == IF p.rowOp \/ writesThisTime = MinWritesPerSwitch
                  THEN writesThisTime ELSE writesThisTime + 1
  IN  /\ BusNow = "WRITE" /\ i \in ChooseNext(writeQueue)
      /\ writeQueue' = queue
      /\ isInWriteQueue' = Deregister(p)
      /\ pendingRowOps' = rowOps
      /\ activeRank' = p.rank
      /\ writesThisTime' = writes
      /\ busState' = IF TurnToReads(queue, rowOps, writes) THEN "WRITE_TO_READ" ELSE "WRITE"
      /\ nextReqEvent' = TRUE
      /\ RetryWrites(queue)
      /\ UNCHANGED <<readQueue, respQueue, helper, respondEvent, retryRdReq, drainState,
                     readVars>>

ProcessNextReqEvent ==
  /\ nextReqEvent
  /\ CheckDrainDone
  /\ rested' = {}
  /\ UNCHANGED refreshing
  /\ \/ StallAllBusy
     \/ /\ \E r \in Ranks : Available(r)
        /\ \/ GoIdle
           \/ StallRankBusy
           \/ TurnToWrites
           \/ \E i \in DOMAIN readQueue : ServeRead(i)
           \/ \E i \in DOMAIN writeQueue : ServeWrite(i)

-----------------------------------------------------------------------------
\* The refresh loop of a rank, as far as the request loop sees it.  A rank that
\* starts to precharge stays unavailable until its power state machine has gone
\* through PWR_REF.

\* The periodic refresh falls due.  The refresh interval is far longer than an
\* access, so the request loop has run since the previous refresh of this rank.
RefreshDue(r) ==
  /\ refreshEvent[r] /\ refreshState[r] = "REF_IDLE" /\ r \notin rested
  /\ refreshState' = [refreshState EXCEPT ![r] =
       IF r = activeRank /\ nextReqEvent THEN "REF_DRAIN" ELSE "REF_RUN"]
  /\ refreshEvent' = [refreshEvent EXCEPT ![r] = FALSE]
  /\ UNCHANGED <<queueVars, busVars, eventVars, retryVars, drainState, refreshing, rested,
                 readVars>>

\* The request loop has handed control back to a draining rank.
RefreshPrecharge(r) ==
  /\ refreshEvent[r] /\ refreshState[r] = "REF_PRE"
  /\ refreshState' = [refreshState EXCEPT ![r] = "REF_RUN"]
  /\ refreshEvent' = [refreshEvent EXCEPT ![r] = FALSE]
  /\ UNCHANGED <<queueVars, busVars, eventVars, retryVars, drainState, refreshing, rested,
                 readVars>>

\* All banks are precharged: the power state becomes PWR_REF and the refresh
\* runs; the next one is scheduled.
RefreshRun(r) ==
  /\ refreshState[r] = "REF_RUN" /\ ~refreshing[r]
  /\ refreshing' = [refreshing EXCEPT ![r] = TRUE]
  /\ refreshEvent' = [refreshEvent EXCEPT ![r] = TRUE]
  /\ UNCHANGED <<queueVars, busVars, eventVars, retryVars, drainState, refreshState, rested,
                 readVars>>

\* Mutant: the request loop is not kicked.
MutRefreshDone(r) ==
  /\ refreshing[r]
  /\ refreshing' = [refreshing EXCEPT ![r] = FALSE]
  /\ refreshState' = [refreshState EXCEPT ![r] = "REF_IDLE"]
  /\ rested' = rested \cup {r}
  /\ UNCHANGED <<queueVars, busVars, eventVars, retryVars, drainState, refreshEvent, readVars>>

\* processPowerEvent from PWR_REF to PWR_IDLE: kick the request loop.
RefreshDone(r) ==
  /\ refreshing[r]
  /\ refreshing' = [refreshing EXCEPT ![r] = FALSE]
  /\ refreshState' = [refreshState EXCEPT ![r] = "REF_IDLE"]
  /\ rested' = rested \cup {r}
  /\ nextReqEvent' = TRUE
  /\ UNCHANGED <<queueVars, busVars, respondEvent, retryVars, drainState, refreshEvent, readVars>>

-----------------------------------------------------------------------------
\* Draining (dmDrain/drain, dmDrainResume/drainResume without a change of mode)

Drain ==
  /\ drainState # "Draining"
  /\ drainState' = IF NothingQueued /\ respQueue = <<>> THEN "Drained" ELSE "Draining"
  /\ nextReqEvent' = (nextReqEvent \/ writeQueue # <<>>)
  /\ UNCHANGED <<queueVars, busVars, respondEvent, retryVars, refreshVars, readVars>>

DrainResume ==
  /\ drainState = "Drained"
  /\ drainState' = "Running"
  /\ UNCHANGED <<queueVars, busVars, eventVars, retryVars, refreshVars, readVars>>

-----------------------------------------------------------------------------
Next ==
  \/ \E pkt \in ReadPkts : RefuseRead(pkt)
  \/ \E pkt \in WritePkts : RefuseWrite(BurstCount(pkt))
  \/ RowOpDests # {} /\ RefuseWrite(RowOpBursts)
  \/ \E r \in Reads, pkt \in ReadPkts : AcceptRead(r, pkt)
  \/ \E pkt \in WritePkts : AcceptWrite(pkt)
  \/ \E dest \in RowOpDests : AcceptRowOp(dest)
  \/ \E r \in Reads : TakeResponse(r)
  \/ ProcessRespondEvent
  \/ ProcessNextReqEvent
  \/ \E r \in Ranks : RefreshDue(r) \/ RefreshPrecharge(r) \/ RefreshRun(r) \/ RefreshDone(r)
  \/ Drain
  \/ DrainResume

Spec == Init /\ [][Next]_vars

-----------------------------------------------------------------------------
\* Correctness

\* The types of the state: queues of packets to existing ranks, the four states of
\* the bus, the states of a refresh and of draining.
TypeOK ==
  /\ readQueue \in Seq(ReadPacket) /\ respQueue \in Seq(ReadPacket)
  /\ writeQueue \in Seq(WritePacket)
  /\ isInWriteQueue \subseteq Nat
  /\ helper \in [Reads -> [burstCount : Nat, burstsServiced : Nat]]
  /\ pendingRowOps \in Nat
  /\ busState \in {"READ", "READ_TO_WRITE", "WRITE", "WRITE_TO_READ"}
  /\ writesThisTime \in 0 .. MinWritesPerSwitch
  /\ nextReqEvent \in BOOLEAN /\ respondEvent \in BOOLEAN
  /\ retryRdReq \in BOOLEAN /\ retryWrReq \in BOOLEAN /\ peer \in {"ready", "waiting"}
  /\ activeRank \in Ranks
  /\ drainState \in {"Running", "Draining", "Drained"}
  /\ refreshState \in [Ranks -> {"REF_IDLE", "REF_DRAIN", "REF_PRE", "REF_RUN"}]
  /\ refreshEvent \in [Ranks -> BOOLEAN] /\ refreshing \in [Ranks -> BOOLEAN]
  /\ rested \subseteq Ranks
  /\ outstanding \subseteq Reads
  /\ answers \in [Reads -> Nat]

RowOpsIn(queue) == {i \in DOMAIN queue : queue[i].rowOp}

\* pendingRowOps, which decides when the bus turns around, counts exactly the row
\* operations in the write queue: it is incremented in addToWriteQueue and
\* decremented in doDRAMAccess, far apart.
RowOpCount == pendingRowOps = Cardinality(RowOpsIn(writeQueue))

\* The bus never turns to, or stays with, writes when there is none: the
\* assertion !queue.empty() of chooseNext.
WritesToServe == busState \in {"READ_TO_WRITE", "WRITE"} => writeQueue # <<>>

\* The buffers never exceed their size, although a packet is admitted by its
\* burst count and queued by the bursts that are neither forwarded nor merged
\* (the assertions !readQueueFull(1) and writeQueue.size() < writeBufferSize).
QueueBounds ==
  /\ Len(readQueue) + Len(respQueue) <= ReadBufferSize
  /\ Len(writeQueue) <= WriteBufferSize

\* The request loop is never asleep while there is work it should do: whenever
\* processNextReqEvent returned without rescheduling itself, a refreshing rank
\* will kick it again.
NoLostWakeup ==
  readQueue # <<>> \/ WritesDue \/ busState # "READ"
    => nextReqEvent \/ \E r \in Ranks : ~Available(r)

\* A response is scheduled exactly as long as one is due (the assertions on
\* respondEvent in processNextReqEvent and processRespondEvent).
ResponseScheduled == respondEvent <=> respQueue # <<>>

\* A rank that waits for the request loop to drain is never forgotten: the loop
\* is scheduled, or has already handed control back to the refresh event.
RefreshHandover ==
  \A r \in Ranks :
    /\ refreshState[r] = "REF_DRAIN" => nextReqEvent
    /\ refreshState[r] = "REF_PRE" => refreshEvent[r]
    /\ refreshing[r] => refreshState[r] = "REF_RUN"

\* The port waits for a retry exactly when one retry flag is set, and never two:
\* sendRetryReq is called once for each refused request and never without one.
RetryOwed ==
  /\ peer = "waiting" <=> retryRdReq \/ retryWrReq
  /\ ~(retryRdReq /\ retryWrReq)

\* An address registered for merging or forwarding belongs to a write that is
\* still queued, so no write is dropped as merged with one already gone.
RegisteredIsQueued ==
  \A a \in isInWriteQueue :
    \E i \in DOMAIN writeQueue : ~writeQueue[i].rowOp /\ BurstAlign(writeQueue[i].addr) = a

\* "Since we merge writes to the same location we never have more than one
\* address to the same burst address" (dram_ctrl.hh): no two queued writes go to
\* one burst.
OneWritePerBurst ==
  \A i, j \in DOMAIN writeQueue :
    /\ ~writeQueue[i].rowOp /\ ~writeQueue[j].rowOp
    /\ BurstAlign(writeQueue[i].addr) = BurstAlign(writeQueue[j].addr)
    => i = j

\* The controller reports itself drained only when every queue is empty,
\* whichever of its two loops reports it.
DrainedMeansEmpty ==
  [][drainState # "Drained" /\ drainState' = "Drained"
       => readQueue' = <<>> /\ writeQueue' = <<>> /\ respQueue' = <<>>]_vars

\* What the port sees of the reads: each is answered exactly once.
Service == INSTANCE MemService
ServiceSpec == Service!Spec

-----------------------------------------------------------------------------
\* Liveness: scheduled events run, refreshes complete and the port takes its
\* responses.  Nothing makes the port send or the system drain.
Fairness ==
  /\ WF_vars(ProcessNextReqEvent)
  /\ WF_vars(ProcessRespondEvent)
  /\ \A r \in Ranks : WF_vars(RefreshPrecharge(r) \/ RefreshRun(r) \/ RefreshDone(r))
  /\ \A r \in Reads : WF_vars(TakeResponse(r))

FairSpec == Spec /\ Fairness

\* A refused request is eventually offered a retry.
RetryComes == peer = "waiting" ~> peer = "ready"

\* With FCFS every accepted read is answered, unless row operations keep coming
\* so that there is always one pending: those hold the bus in the write state.
ReadsAnswered ==
  []<>(pendingRowOps = 0) => \A r \in Reads : r \in outstanding ~> r \notin outstanding

\* Once the port stops sending, draining completes.
DrainCompletes ==
  <>[][outstanding' \subseteq outstanding /\ Len(writeQueue') <= Len(writeQueue)]_vars
    => (drainState = "Draining" ~> drainState # "Draining")

=============================================================================
