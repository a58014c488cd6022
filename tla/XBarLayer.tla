------------------------------ MODULE XBarLayer ------------------------------
(***************************************************************************)
(* A layer of a crossbar: the arbitration of the ports that send to one    *)
(* destination port.                                                       *)
(*                                                                         *)
(* A port that finds the layer taken joins waitingForLayer and gets a      *)
(* retry when its turn comes.  A port whose packet the destination refused *)
(* is waitingForPeer, until the destination sends a retry.  The handlers   *)
(* are operators on a layer l; retryWaiting calls the waiting port, which  *)
(* may call the crossbar again, so it is split at that call.               *)
(***************************************************************************)
EXTENDS Naturals, Sequences

CONSTANT NULL

IdleLayer ==
    [state |-> "IDLE", waitingForLayer |-> <<>>, waitingForPeer |-> NULL,
     releaseEvent |-> FALSE, drainState |-> "Running"]

(* The test of tryTiming *)
Taken(l) == l.state = "BUSY" \/ l.waitingForPeer # NULL

(* Mutant: a port that finds the layer taken goes to the front. *)
tryTiming_front(l, src) ==
    IF Taken(l) THEN [l EXCEPT !.waitingForLayer = <<src>> \o @]
    ELSE [l EXCEPT !.state = "BUSY"]

tryTiming(l, src) ==
    IF Taken(l) THEN [l EXCEPT !.waitingForLayer = Append(@, src)]
    ELSE [l EXCEPT !.state = "BUSY"]

occupyLayer(l) == [l EXCEPT !.releaseEvent = TRUE]

succeededTiming(l) == occupyLayer(l)

failedTiming(l, src) == occupyLayer([l EXCEPT !.waitingForPeer = src])

(* retryWaiting, up to sendRetry ... *)
StartRetry(l) ==
    [l EXCEPT !.state = "RETRY", !.waitingForLayer = Tail(@)]

(* Mutant: a port that does not send at once leaves the layer in RETRY. *)
EndRetry_same(l) == l

(* ... and after it *)
EndRetry(l) ==
    IF l.state = "RETRY" THEN occupyLayer([l EXCEPT !.state = "BUSY"]) ELSE l

(* releaseLayer, up to the call of retryWaiting *)
Released(l) == [l EXCEPT !.state = "IDLE", !.releaseEvent = FALSE]

DoneDraining(l) ==
    /\ l.waitingForLayer = <<>> /\ l.waitingForPeer = NULL
    /\ l.drainState = "Draining"

(* Mutant: waitingForPeer is not reset. *)
PeerRetried_keep(l) ==
    [l EXCEPT !.waitingForLayer = <<l.waitingForPeer>> \o @]

(* recvRetry, up to the call of retryWaiting *)
PeerRetried(l) ==
    [l EXCEPT !.waitingForLayer = <<l.waitingForPeer>> \o @,
              !.waitingForPeer = NULL]

(* After releaseLayer and recvRetry: is there someone to send a retry to? *)
MayRetry(l) ==
    l.state = "IDLE" /\ l.waitingForLayer # <<>> /\ l.waitingForPeer = NULL

drain(l) ==
    [l EXCEPT !.drainState = IF l.state # "IDLE" THEN "Draining" ELSE "Drained"]
=============================================================================
