-------------------------------- MODULE Bridge --------------------------------
(***************************************************************************)
(* A bridge between two buses: a queue of requests towards the memory side *)
(* and a queue of responses towards the CPU side.                          *)
(*                                                                         *)
(* A request is accepted only when there is room for it and, if it expects *)
(* a response, when a slot of the response queue can be reserved; else the *)
(* sender is told to wait for a retry.  Calls are synchronous: a port that *)
(* gets a response or a retry may send its next request from within the    *)
(* call, while the bridge is half way through its own handler.             *)
(*                                                                         *)
(* The ports on either side are external; they follow the port protocol:   *)
(* no request while a retry is owed, one response per request that expects *)
(* one.  The delay of the bridge is abstracted: the send event of a queue  *)
(* may fire at any time once it is scheduled.                              *)
(***************************************************************************)
EXTENDS Naturals, Sequences, FiniteSets

CONSTANTS
    Packets,        \* packets of the CPU side, used again after they return
    NeedsResponse,  \* those with needsResponse() and no memInhibitAsserted()
    reqQueueLimit,
    respQueueLimit

ASSUME PacketsAssumption ==
    IsFiniteSet(Packets) /\ NeedsResponse \subseteq Packets
ASSUME LimitsAssumption ==
    reqQueueLimit \in Nat \ {0} /\ respQueueLimit \in Nat \ {0}

VARIABLES
    bridge,     \* the two ports of the bridge, see TypeOK
    atMaster,   \* packets the CPU side has and may send
    below       \* requests forwarded to the memory side, not yet answered

vars == <<bridge, atMaster, below>>

(* sendEvent of a port: not scheduled, scheduled, or not scheduled because *)
(* the peer refused the head packet and owes a retry.                      *)
Send == {"none", "scheduled", "refused"}

-----------------------------------------------------------------------------
(* The handlers, on a bridge b *)

reqQueueFull(b) == Len(b.reqs) = reqQueueLimit

(* Mutant: only the responses that have arrived are counted. *)
respQueueFull_arrived(b) == Len(b.resps) = respQueueLimit

respQueueFull(b) == b.outstandingResponses = respQueueLimit

(* Mutant: a new request goes to the front of the queue. *)
schedTimingReq_front(b, p) ==
    [b EXCEPT !.reqs = <<p>> \o @,
              !.reqSend = IF b.reqs = <<>> THEN "scheduled" ELSE @]

(* A packet that becomes the head gets the event scheduled *)
schedTimingReq(b, p) ==
    [b EXCEPT !.reqs = Append(@, p),
              !.reqSend = IF b.reqs = <<>> THEN "scheduled" ELSE @]

schedTimingResp(b, p) ==
    [b EXCEPT !.resps = Append(@, p),
              !.respSend = IF b.resps = <<>> THEN "scheduled" ELSE @]

(* BridgeSlavePort::recvTimingReq; the request is refused iff retryReq is  *)
(* set afterwards.                                                         *)
recvTimingReq(b, p) ==
    IF reqQueueFull(b) \/ (p \in NeedsResponse /\ respQueueFull(b))
    THEN [b EXCEPT !.retryReq = TRUE]
    ELSE schedTimingReq([b EXCEPT !.outstandingResponses =
                                     IF p \in NeedsResponse THEN @ + 1 ELSE @], p)

(* The CPU side, holding packets m, sends the packet in ps (none if empty) *)
Offer(b, m, ps) ==
    IF ps = <<>> THEN [b |-> b, m |-> m]
    ELSE LET c == recvTimingReq(b, ps[1])
         IN [b |-> c, m |-> IF c.retryReq THEN m ELSE m \ {ps[1]}]

(* retryStalledReq: the retry reaches a port that may send ps at once *)
retryStalledReq(b, m, ps) ==
    IF b.retryReq THEN Offer([b EXCEPT !.retryReq = FALSE], m, ps)
    ELSE [b |-> b, m |-> m]

(* BridgeMasterPort::trySendTiming, the head request having been accepted *)
ReqSent(b) ==
    [b EXCEPT !.reqs = Tail(@),
              !.reqSend = IF Len(b.reqs) > 1 THEN "scheduled" ELSE "none"]

(* Mutant: the event is not scheduled again when it fired for a packet the *)
(* peer took at its second attempt.                                        *)
RespSent_once(b) ==
    [b EXCEPT !.resps = Tail(@),
              !.outstandingResponses = @ - 1,
              !.respSend = IF Len(b.resps) > 1 /\ @ = "scheduled"
                           THEN "scheduled" ELSE "none"]

(* BridgeSlavePort::trySendTiming, the head response having been accepted *)
RespSent(b) ==
    [b EXCEPT !.resps = Tail(@),
              !.outstandingResponses = @ - 1,
              !.respSend = IF Len(b.resps) > 1 THEN "scheduled" ELSE "none"]

(* Mutant: the retry is left to the request queue. *)
RetryAfterResp_never(b, m, ps) == [b |-> b, m |-> m]

(* ... and the retry at its end *)
RetryAfterResp(b, m, ps) ==
    IF reqQueueFull(b) THEN [b |-> b, m |-> m] ELSE retryStalledReq(b, m, ps)

-----------------------------------------------------------------------------
Init ==
    /\ bridge = [reqs |-> <<>>, resps |-> <<>>, outstandingResponses |-> 0,
                 retryReq |-> FALSE, reqSend |-> "none", respSend |-> "none"]
    /\ atMaster = Packets
    /\ below = {}

(* What a CPU-side port holding packets m may send from within a call.     *)
(* (A packet that came back in the same call is not among them, so that    *)
(* packets can be told apart.)                                             *)
Offers(m) == {<<>>} \cup {<<p>> : p \in m}

(* The CPU side sends a request *)
RecvTimingReq(p) ==
    /\ p \in atMaster
    /\ ~bridge.retryReq
    /\ LET s == Offer(bridge, atMaster, <<p>>)
       IN bridge' = s.b /\ atMaster' = s.m
    /\ UNCHANGED below

(* The send event fires, or the peer's retry comes, and the head request   *)
(* is accepted.  One that expects no response is done with.                *)
SendReq ==
    /\ bridge.reqSend # "none"
    /\ LET p == Head(bridge.reqs)
           m == IF p \in NeedsResponse THEN atMaster ELSE atMaster \cup {p}
       IN /\ below' = IF p \in NeedsResponse THEN below \cup {p} ELSE below
          /\ \E ps \in Offers(atMaster) :
                LET s == retryStalledReq(ReqSent(bridge), m, ps)
                IN bridge' = s.b /\ atMaster' = s.m

(* ... or refused: nothing is done until the peer sends a retry *)
SendReqRefused ==
    /\ bridge.reqSend = "scheduled"
    /\ bridge' = [bridge EXCEPT !.reqSend = "refused"]
    /\ UNCHANGED <<atMaster, below>>

(* BridgeMasterPort::recvTimingResp *)
RecvTimingResp(p) ==
    /\ p \in below
    /\ below' = below \ {p}
    /\ bridge' = schedTimingResp(bridge, p)
    /\ UNCHANGED atMaster

(* The head response is accepted.  The port that gets it may send a        *)
(* request before sendTimingResp returns, that is before the slot is       *)
(* released (unless a retry is owed), and again when it gets the retry.    *)
SendResp ==
    /\ bridge.respSend # "none"
    /\ \E ps \in IF bridge.retryReq THEN {<<>>} ELSE Offers(atMaster) :
         LET s == Offer(bridge, atMaster, ps)
             m == s.m \cup {Head(bridge.resps)}
         IN \E qs \in Offers(s.m) :
              LET t == RetryAfterResp(RespSent(s.b), m, qs)
              IN bridge' = t.b /\ atMaster' = t.m
    /\ UNCHANGED below

SendRespRefused ==
    /\ bridge.respSend = "scheduled"
    /\ bridge' = [bridge EXCEPT !.respSend = "refused"]
    /\ UNCHANGED <<atMaster, below>>

Next ==
    \/ \E p \in Packets : RecvTimingReq(p) \/ RecvTimingResp(p)
    \/ SendReq \/ SendReqRefused
    \/ SendResp \/ SendRespRefused

(* Events fire, and the peers keep to the protocol: a refused packet is    *)
(* retried and in the end accepted, a request is answered.                 *)
Fairness ==
    /\ WF_vars(SendReq) /\ WF_vars(SendResp)
    /\ \A p \in Packets : WF_vars(RecvTimingResp(p))

Spec == Init /\ [][Next]_vars /\ Fairness

-----------------------------------------------------------------------------
(* Properties *)

TypeOK ==
    /\ bridge \in [reqs : Seq(Packets), resps : Seq(NeedsResponse),
                   outstandingResponses : Nat,
                   retryReq : BOOLEAN, reqSend : Send, respSend : Send]
    /\ Len(bridge.reqs) <= reqQueueLimit
    /\ atMaster \subseteq Packets
    /\ below \subseteq NeedsResponse

(* outstandingResponses is exactly the number of requests accepted whose   *)
(* response has not been delivered, over both queues and the memory side:  *)
(* no slot leaks and none is released twice, also when a port sends a      *)
(* request from within the delivery of a response.                         *)
ReservationExact ==
    bridge.outstandingResponses = Cardinality(NeedsResponse \ atMaster)

(* "all checks are done when the request is accepted on the slave side, so *)
(* we are guaranteed to have space for the response": the response queue,  *)
(* which is not checked, never outgrows its limit, even when all requests  *)
(* below are answered at once.                                             *)
ResponsesFit ==
    Len(bridge.resps) + Cardinality(below) <= respQueueLimit

(* A queue with packets has its event scheduled or is owed a retry, and an *)
(* empty one has neither: no packet is forgotten, and no event finds an    *)
(* empty queue (assert in trySendTiming) or is scheduled twice.            *)
SendArmed ==
    /\ bridge.reqs # <<>> <=> bridge.reqSend # "none"
    /\ bridge.resps # <<>> <=> bridge.respSend # "none"

(* A stalled sender still waits for something that will happen: one of the *)
(* queues is full.  Whatever made room has sent the retry.                 *)
StallJustified ==
    bridge.retryReq => reqQueueFull(bridge) \/ respQueueFull(bridge)

(* Every request the bridge accepts comes back. *)
RequestsAnswered ==
    \A p \in Packets : (p \notin atMaster) ~> (p \in atMaster)
=============================================================================
