----------------------------- MODULE DrainSystem -----------------------------
(***************************************************************************)
(* Draining a system of a DMA port and two packet queues.                  *)
(*                                                                         *)
(*   "resp"   the response queue of a SimpleTimingPort, which answers the  *)
(*            requests of the DMA device and of a CPU with one access at a *)
(*            time;                                                        *)
(*   "snoop"  the queue of a cache's snoop responses, some of which force  *)
(*            their order.                                                 *)
(*                                                                         *)
(* Requests and responses cross a bus that may refuse them and then owes a *)
(* retry.  The script runs the simulation, drains it, takes it to another  *)
(* memory mode and resumes it.  Between two ticks the events due fire in   *)
(* any order; the exit event "Finished drain" has the lowest priority.     *)
(***************************************************************************)
EXTENDS PacketQueue

CONSTANTS DmaPackets, CpuPackets, SnoopPackets,
          MaxLatency,  \* bound: the longest delay of a packet, in ticks
          Cycle

ASSUME LatencyAssumption ==
    /\ MaxLatency \in Nat /\ MaxLatency < MaxTick
    /\ Cycle \in Nat \ {0} /\ Cycle < MaxTick

ASSUME PacketsAssumption ==
    /\ IsFiniteSet(DmaPackets)
    /\ DmaPackets \cap (CpuPackets \cup SnoopPackets) = {}

VARIABLES queue,    \* the packet queues
          port,     \* the DMA port
          manager,  \* the drain manager
          mode,     \* memoryMode
          script    \* where the script is: "begin", "script", "simulate", "drain"

vars == <<queue, port, manager, mode, script>>

Queues == {"resp", "snoop"}
Objects == Queues \cup {"dma"}

Dma == INSTANCE DmaPort
Manager == INSTANCE DrainManager WITH Drainable <- Objects

InQueue(k) == {queue[k].transmitList[i].pkt : i \in DOMAIN queue[k].transmitList}
Unsent == {port.transmitList[i] : i \in DOMAIN port.transmitList}

Init ==
    /\ queue = [k \in Queues |-> EmptyQueue]
    /\ port = Dma!IdlePort
    /\ manager = Manager!RunningManager
    /\ mode = "timing"
    /\ script = "begin"

Simulating == script \in {"simulate", "drain"}

-----------------------------------------------------------------------------
(* Requests *)

(* SimpleTimingPort::recvTimingReq *)
recvTimingReq(q, p, latency) == schedSendTiming(q, p, latency, FALSE)

(* A request of the CPU, which the port never refuses *)
CpuRequest ==
    /\ Simulating /\ mode = "timing"
    /\ InQueue("resp") \cap CpuPackets = {}
    /\ \E p \in CpuPackets, t \in 0 .. MaxLatency :
          queue' = [queue EXCEPT !["resp"] = recvTimingReq(@, p, t)]
    /\ UNCHANGED <<port, manager, mode, script>>

(* A cache answers a snoop: in order. *)
SnoopAnswer ==
    /\ Simulating /\ mode = "timing"
    /\ \E p \in SnoopPackets \ InQueue("snoop"), t \in 0 .. MaxLatency :
          queue' = [queue EXCEPT !["snoop"] = schedSendTiming(@, p, t, TRUE)]
    /\ UNCHANGED <<port, manager, mode, script>>

(* A cache forwards the answer of a cache above it. *)
SnoopForward ==
    /\ Simulating /\ mode = "timing"
    /\ \E p \in SnoopPackets \ InQueue("snoop"), t \in 0 .. MaxLatency :
          queue' = [queue EXCEPT !["snoop"] = schedSendTiming(@, p, t, FALSE)]
    /\ UNCHANGED <<port, manager, mode, script>>

(* The DMA port d sends its first packet: the bus refuses it, or takes it  *)
(* to the SimpleTimingPort.                                                *)
SendDma(d) ==
    \/ /\ port' = Dma!trySendTimingReq(d, FALSE)
       /\ UNCHANGED queue
    \/ \E t \in 0 .. MaxLatency :
          /\ port' = Dma!trySendTimingReq(d, TRUE)
          /\ queue' = [queue EXCEPT !["resp"] = recvTimingReq(@, Head(d.transmitList), t)]

FreeDma == DmaPackets \ (Unsent \cup InQueue("resp"))

(* The packets of a transfer, one or two *)
Transfers ==
    {<<p>> : p \in FreeDma} \cup {ps \in FreeDma \X FreeDma : ps[1] # ps[2]}

(* In atomic mode all packets are sent and answered in the call. *)
DmaAction ==
    /\ Simulating
    /\ \E ps \in Transfers :
          LET d == Dma!queueDma(port, ps)
          IN IF mode = "atomic"
             THEN /\ manager' = Manager!signalDrainDone(manager, "dma")
                  /\ UNCHANGED <<queue, port>>
             ELSE /\ IF Dma!CanSend(port) THEN SendDma(d)
                     ELSE port' = d /\ UNCHANGED queue
                  /\ UNCHANGED manager
    /\ UNCHANGED <<mode, script>>

(* sendEvent of the DMA port: sendDma *)
DmaSendEvent ==
    /\ Simulating /\ port.sendEvent = 0
    /\ SendDma([port EXCEPT !.sendEvent = NotScheduled])
    /\ UNCHANGED <<manager, mode, script>>

recvReqRetry ==
    /\ Simulating /\ port.inRetry
    /\ SendDma(port)
    /\ UNCHANGED <<manager, mode, script>>

-----------------------------------------------------------------------------
(* Responses *)

RefusePacket(k) ==
    /\ Simulating /\ MaySend(queue[k])
    /\ queue' = [queue EXCEPT ![k] = Refused(@)]
    /\ UNCHANGED <<port, manager, mode, script>>

(* The bus takes the first packet of queue k, which leaves the queue r.    *)
(* The branch of schedSendEvent for MaxTick signals that it has drained.   *)
AcceptPacket(k, r) ==
    /\ Simulating /\ MaySend(queue[k])
    /\ queue' = [queue EXCEPT ![k] = Accepted(r)]
    /\ LET p == Head(queue[k].transmitList).pkt
           d == Dma!handleResp(port)
           m == IF p \in DmaPackets /\ ~Dma!dmaPending(d)
                THEN Manager!signalDrainDone(manager, "dma") ELSE manager
       IN /\ port' = IF p \in DmaPackets THEN d ELSE port
          /\ manager' = IF Empty(r) THEN Manager!signalDrainDone(m, k) ELSE m
    /\ UNCHANGED <<mode, script>>

SendPacket(k) == AcceptPacket(k, Offered(queue[k]))

(* The CPU makes its next access when it receives the response, inside the *)
(* call that delivers it.                                                  *)
SendAndAccess ==
    /\ MaySend(queue["resp"])
    /\ Head(queue["resp"].transmitList).pkt \in CpuPackets
    /\ \E p \in CpuPackets \ InQueue("resp"), t \in 0 .. MaxLatency :
          AcceptPacket("resp", recvTimingReq(Offered(queue["resp"]), p, t))

-----------------------------------------------------------------------------
(* Time and the script *)

NothingDue == port.sendEvent # 0 /\ \A k \in Queues : queue[k].sendEvent # 0

Tick ==
    /\ Simulating /\ NothingDue /\ ~manager.exit
    /\ queue' = [k \in Queues |-> Older(queue[k])]
    /\ port' = [port EXCEPT !.sendEvent = IF @ = NotScheduled THEN @ ELSE @ - 1]
    /\ UNCHANGED <<manager, mode, script>>

(* instantiate(), which may restore a checkpoint *)
Instantiate ==
    /\ script = "begin"
    /\ script' = "script"
    /\ manager' \in {manager, Manager!preCheckpointRestore(manager)}
    /\ UNCHANGED <<queue, port, mode>>

Simulate ==
    /\ script = "script"
    /\ script' = "simulate"
    /\ manager' = IF manager.state = "Drained" THEN Manager!resume(manager) ELSE manager
    /\ UNCHANGED <<queue, port, mode>>

(* Some exit event other than "Finished drain"; during drain() the script  *)
(* goes on simulating after it.                                            *)
SimulateReturns ==
    /\ script = "simulate" /\ NothingDue
    /\ script' = "script"
    /\ UNCHANGED <<queue, port, manager, mode>>

setMemoryMode ==
    /\ script = "script" /\ manager.state = "Drained"
    /\ mode' = IF mode = "timing" THEN "atomic" ELSE "timing"
    /\ UNCHANGED <<queue, port, manager, script>>

Busy ==
    {k \in Queues : ~Empty(queue[k])} \cup (IF Dma!dmaPending(port) THEN {"dma"} ELSE {})

(* _drain(), from the start of the script's drain() or after the exit      *)
(* event; it returns if tryDrain does not ask for more simulation.         *)
Drain ==
    /\ \/ script = "script" /\ manager.state # "Drained"
       \/ script = "drain" /\ manager.exit /\ NothingDue
    /\ manager' = Manager!tryDrain(manager, Busy)
    /\ script' = IF manager'.state = "Drained" THEN "script" ELSE "drain"
    /\ UNCHANGED <<queue, port, mode>>

-----------------------------------------------------------------------------
Send(k) == SendPacket(k) \/ (k = "resp" /\ SendAndAccess)

Next ==
    \/ CpuRequest \/ SnoopAnswer \/ SnoopForward
    \/ DmaAction \/ DmaSendEvent \/ recvReqRetry
    \/ \E k \in Queues : RefusePacket(k) \/ SendPacket(k)
    \/ SendAndAccess
    \/ Tick
    \/ Instantiate \/ Simulate \/ SimulateReturns \/ setMemoryMode \/ Drain

(* Events fire, time goes on, and the bus, which serves its waiting ports  *)
(* in turn, does not refuse the same packet for ever.                      *)
DmaSends == (DmaSendEvent \/ recvReqRetry) /\ Len(port'.transmitList) < Len(port.transmitList)

Fairness ==
    /\ WF_vars(Tick) /\ WF_vars(Drain /\ script = "drain")
    /\ SF_vars(DmaSends)
    /\ \A k \in Queues : SF_vars(Send(k))

Spec == Init /\ [][Next]_vars

FairSpec == Spec /\ Fairness

-----------------------------------------------------------------------------
(* The ticks and counters are in their ranges. *)
TypeOK ==
    /\ \A k \in Queues :
          /\ queue[k].sendEvent \in 0 .. MaxTick /\ queue[k].waitingOnRetry \in BOOLEAN
          /\ \A i \in DOMAIN queue[k].transmitList :
                queue[k].transmitList[i].tick \in 0 .. MaxLatency
    /\ port.pendingCount \in Nat /\ port.sendEvent \in 0 .. MaxTick
    /\ manager.count \in Nat
    /\ mode \in {"timing", "atomic"} /\ script \in {"begin", "script", "simulate", "drain"}

(* A packet queue, between two events, is never left with packets and      *)
(* nothing to send them: it waits for a retry with a packet that is ready, *)
(* as sendDeferredPacket asserts, or its event comes with the first        *)
(* packet's tick or, if that is the present one, in the next.  The DMA     *)
(* port waits for a retry or its event exactly while it has packets, which *)
(* recvReqRetry and sendDma assert.                                        *)
SendIsPending ==
    /\ \A k \in Queues :
          LET q    == queue[k]
              tick == Head(q.transmitList).tick
          IN IF Empty(q) THEN ~q.waitingOnRetry /\ q.sendEvent = NotScheduled
             ELSE IF q.waitingOnRetry THEN q.sendEvent = NotScheduled /\ tick = 0
             ELSE tick <= q.sendEvent /\ q.sendEvent <= Later(tick, 1)
    /\ (port.transmitList # <<>>) <=> ~Dma!CanSend(port)
    /\ ~(port.inRetry /\ port.sendEvent # NotScheduled)

(* The manager counts exactly the objects that will still signal, each of  *)
(* which has work that ends with its signal, so that the panics of         *)
(* tryDrain and resume are out of reach; the exit event comes only when    *)
(* all have signalled; and a drained system has no packet anywhere.        *)
DrainAgreement ==
    /\ manager.count = Cardinality({o \in Objects : manager.drainState[o] = "Draining"})
    /\ \A o \in Objects : manager.drainState[o] = "Draining" => o \in Busy
    /\ manager.exit => script = "drain" /\ manager.count = 0
    /\ manager.state = "Drained" =>
          /\ \A o \in Objects : manager.drainState[o] = "Drained"
          /\ \A k \in Queues : Empty(queue[k])
          /\ port.transmitList = <<>> /\ port.pendingCount = 0

Order(list) ==
    {<<list[ij[1]].pkt, list[ij[2]].pkt>> :
        ij \in {ij \in (DOMAIN list) \X (DOMAIN list) : ij[1] < ij[2]}}

(* Whatever is queued meanwhile, the packets behind the first one keep     *)
(* their order; a packet refused by the peer stays first until it is sent; *)
(* a new packet goes behind all those that are not later, and a snoop      *)
(* answer, with force_order, behind all others.                            *)
PacketsKeepOrder ==
    [][\A k \in Queues :
          LET old == queue[k].transmitList
              new == queue'[k].transmitList
              isNew(i) == new[i].pkt \notin InQueue(k)
          IN /\ {pq \in Order(old) : pq[1] # old[1].pkt} \subseteq Order(new)
             /\ queue[k].waitingOnRetry /\ queue'[k].waitingOnRetry =>
                   old[1].pkt = new[1].pkt
             /\ \A i, j \in DOMAIN new : isNew(i) /\ i < j =>
                   new[i].tick < new[j].tick /\ ~(k = "snoop" /\ SnoopAnswer)]_vars

(* If from some time on no object starts new work, the script's drain()    *)
(* returns: the cycles end, although objects that had drained were         *)
(* disturbed by others before.                                             *)
Disturbed ==
    \/ \E k \in Queues : ~(InQueue(k)' \subseteq InQueue(k) \cup Unsent)
    \/ ~(Unsent' \subseteq Unsent)

DrainEnds ==
    <>[][~Disturbed]_vars => (script = "drain" ~> script = "script")
=============================================================================
