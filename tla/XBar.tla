--------------------------------- MODULE XBar ---------------------------------
(***************************************************************************)
(* A (non-coherent) crossbar: one layer per destination port, for requests *)
(* towards the memories and for responses back to the masters, and the     *)
(* table that routes responses.                                            *)
(*                                                                         *)
(* Senders are external and follow the port protocol: a port that was      *)
(* refused sends nothing until it gets a retry.  From within the retry it  *)
(* may send again at once: the same packet, another one to another         *)
(* destination, or nothing.  How long a layer is occupied is abstracted:   *)
(* its release event may fire at any time.                                 *)
(***************************************************************************)
EXTENDS XBarLayer, FiniteSets

CONSTANTS
    Masters, Slaves,    \* what the crossbar connects
    Packets,
    NeedsResponse,      \* packets with needsResponse(), not inhibited
    Owner,              \* the master that sends a packet
    findPort            \* the slave that has its address

Ports == Masters \cup Slaves

ASSUME PortsAssumption ==
    /\ Masters \cap Slaves = {} /\ NULL \notin Ports
    /\ NeedsResponse \subseteq Packets
    /\ Owner \in [Packets -> Masters] /\ findPort \in [Packets -> Slaves]

VARIABLE xbar       \* crossbar, packets and senders, see TypeOK

(* Where a packet is sent from, and to which layer; a response goes where  *)
(* routeTo says.                                                           *)
Sender(x, p) == IF x.at[p] = "master" THEN Owner[p] ELSE findPort[p]
Dest(x, p) == IF x.at[p] = "master" THEN findPort[p] ELSE x.routeTo[p]

Sendable(x, port) ==
    {p \in Packets : /\ x.at[p] = "slave" => p \in NeedsResponse
                     /\ Sender(x, p) = port}

-----------------------------------------------------------------------------
(* The packet passes a free layer to a peer that accepts it *)
Forwarded(x, p) ==
    IF x.at[p] = "master"
    THEN IF p \in NeedsResponse
         THEN [x EXCEPT !.at[p] = "slave", !.routeTo[p] = Owner[p]]
         ELSE x
    ELSE [x EXCEPT !.at[p] = "master", !.routeTo[p] = NULL]

(* recvTimingReq and recvTimingResp.  A response is never refused by the   *)
(* peer: it goes to the queue of the slave port.                           *)
recvTiming(x, p, accepts) ==
    LET src == Sender(x, p)
        dst == Dest(x, p)
        l   == tryTiming(x.layers[dst], src)
    IN IF Taken(x.layers[dst])
       THEN [x EXCEPT !.layers[dst] = l, !.stalled[src] = TRUE]
       ELSE IF accepts \/ x.at[p] = "slave"
       THEN [Forwarded(x, p) EXCEPT !.layers[dst] = succeededTiming(l)]
       ELSE [x EXCEPT !.layers[dst] = failedTiming(l, src),
                      !.stalled[src] = TRUE]

(* retryWaiting of the layer of dst; the port that gets the retry sends    *)
(* the packet in ps (nothing if empty) from within the call.               *)
retryWaiting(x, dst, ps, accepts) ==
    LET port == Head(x.layers[dst].waitingForLayer)
        y == [x EXCEPT !.layers[dst] = StartRetry(@), !.stalled[port] = FALSE]
        z == IF ps = <<>> THEN y ELSE recvTiming(y, ps[1], accepts)
    IN [z EXCEPT !.layers[dst] = EndRetry(@)]

-----------------------------------------------------------------------------
Init ==
    xbar = [layers  |-> [d \in Ports |-> IdleLayer],
            routeTo |-> [p \in Packets |-> NULL],
            at      |-> [p \in Packets |-> "master"],
            stalled |-> [s \in Ports |-> FALSE]]

(* While the system drains, masters start nothing new. *)
MayStart(p) ==
    xbar.at[p] = "slave" \/ \A d \in Ports : xbar.layers[d].drainState = "Running"

Send(p, accepts) ==
    /\ \E s \in Ports : p \in Sendable(xbar, s) /\ ~xbar.stalled[s]
    /\ MayStart(p)
    /\ xbar' = recvTiming(xbar, p, accepts)

(* What a port sends from within a retry: a packet, or nothing if it is a  *)
(* master that has no use for the retry any more.                          *)
Sends(x, port) ==
    {<<p>> : p \in Sendable(x, port)} \cup IF port \in Masters THEN {<<>>} ELSE {}

(* A layer changes to l; then the first port that waits gets its retry, if *)
(* there is one and the layer may send it.                                 *)
ThenRetry(dst, l, accepts) ==
    LET x == [xbar EXCEPT !.layers[dst] = l]
    IN IF MayRetry(l)
       THEN \E ps \in Sends(x, Head(l.waitingForLayer)) :
               xbar' = retryWaiting(x, dst, ps, accepts)
       ELSE xbar' = x

(* The release event of a layer *)
releaseLayer(dst, accepts) ==
    LET l == Released(xbar.layers[dst])
    IN /\ xbar.layers[dst].releaseEvent
       /\ ThenRetry(dst,
                    IF DoneDraining(l) THEN [l EXCEPT !.drainState = "Drained"]
                    ELSE l, accepts)

(* A slave that refused a request sends the retry *)
recvRetry(dst, accepts) ==
    /\ xbar.layers[dst].waitingForPeer # NULL
    /\ ThenRetry(dst, PeerRetried(xbar.layers[dst]), accepts)

Drain ==
    /\ \A d \in Ports : xbar.layers[d].drainState = "Running"
    /\ xbar' = [xbar EXCEPT !.layers = [d \in Ports |-> drain(@[d])]]

Resume ==
    /\ \A d \in Ports : xbar.layers[d].drainState = "Drained"
    /\ xbar' = [xbar EXCEPT !.layers =
                   [d \in Ports |-> [@[d] EXCEPT !.drainState = "Running"]]]

Next ==
    \/ \E accepts \in BOOLEAN :
          \/ \E p \in Packets : Send(p, accepts)
          \/ \E d \in Ports : releaseLayer(d, accepts) \/ recvRetry(d, accepts)
    \/ Drain
    \/ Resume

(* A port that waits gets its retry and is not refused again *)
Passes(port) ==
    /\ xbar.stalled[port]
    /\ \E d \in Ports : releaseLayer(d, TRUE) \/ recvRetry(d, TRUE)
    /\ ~xbar'.stalled[port]

(* Release events fire, slaves send the retry they owe, and a port that    *)
(* gets one retry after the other is not refused every time.               *)
Fairness ==
    /\ \A d \in Ports :
          /\ WF_xbar(\E accepts \in BOOLEAN : releaseLayer(d, accepts))
          /\ WF_xbar(\E accepts \in BOOLEAN : recvRetry(d, accepts))
    /\ \A port \in Ports : SF_xbar(Passes(port))

Spec == Init /\ [][Next]_xbar /\ Fairness

-----------------------------------------------------------------------------
(* Properties *)

Layer ==
    [state : {"IDLE", "BUSY", "RETRY"}, waitingForLayer : Seq(Ports),
     waitingForPeer : Ports \cup {NULL}, releaseEvent : BOOLEAN,
     drainState : {"Running", "Draining", "Drained"}]

TypeOK ==
    xbar \in [layers : [Ports -> Layer], routeTo : [Packets -> Ports \cup {NULL}],
              at : [Packets -> {"master", "slave"}], stalled : [Ports -> BOOLEAN]]

(* How often port waits at the layer of d *)
Waits(port, d) ==
    LET l == xbar.layers[d]
    IN Cardinality({i \in DOMAIN l.waitingForLayer : l.waitingForLayer[i] = port})
       + (IF l.waitingForPeer = port THEN 1 ELSE 0)

(* A port that was refused waits at exactly one layer, once, and a port    *)
(* that was not waits nowhere: no retry is lost, and none goes to a port   *)
(* that does not expect it, whatever a port does from within a retry.      *)
WaitsOnce ==
    \A port \in Ports :
      IF xbar.stalled[port]
      THEN \E d \in Ports : /\ Waits(port, d) = 1
                            /\ \A e \in Ports \ {d} : Waits(port, e) = 0
      ELSE \A d \in Ports : Waits(port, d) = 0

(* Between events a layer is busy iff its release is scheduled, and one    *)
(* that is idle has somebody in its list only while the peer owes a retry: *)
(* nobody waits at a layer that has nothing left to do.                    *)
NobodyForgotten ==
    \A d \in Ports :
      LET l == xbar.layers[d]
      IN /\ l.state = IF l.releaseEvent THEN "BUSY" ELSE "IDLE"
         /\ ~l.releaseEvent /\ l.waitingForPeer = NULL => l.waitingForLayer = <<>>

(* The routing table has exactly the requests that a slave has accepted    *)
(* and not answered, each with the port it came from.                      *)
RouteExact ==
    \A p \in Packets :
      xbar.routeTo[p] = IF xbar.at[p] = "slave" THEN Owner[p] ELSE NULL

(* A layer that was asked to drain and has not signalled has its release   *)
(* or a retry of the peer still to come: the signal is never missed.       *)
DrainPending ==
    \A d \in Ports :
      LET l == xbar.layers[d]
      IN l.drainState = "Draining" => l.releaseEvent \/ l.waitingForPeer # NULL

(* "check that we're not doing anything, and that noone is waiting"        *)
(* (Layer::drain): a layer that has nothing to drain has nobody waiting.   *)
DrainedIsQuiet ==
    [][\A d \in Ports :
         LET l == xbar.layers[d]
         IN l.drainState = "Running" /\ xbar'.layers[d].drainState = "Drained" =>
              l.state = "IDLE" /\ l.waitingForLayer = <<>> /\ l.waitingForPeer = NULL
      ]_xbar

(* A port that was refused is not starved by the others. *)
StalledPassesOn == \A port \in Ports : xbar.stalled[port] ~> ~xbar.stalled[port]
=============================================================================
