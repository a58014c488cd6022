------------------------------- MODULE DmaPort -------------------------------
(***************************************************************************)
(* The port of a DMA device: the packets of a transfer are sent one per    *)
(* cycle, and pendingCount counts those whose response has not come yet.   *)
(* The handlers are operators on a port d; sendEvent is the number of      *)
(* ticks until it fires, or NotScheduled.                                  *)
(***************************************************************************)
EXTENDS Integers, Sequences

CONSTANTS NotScheduled,
          Cycle         \* the clock period of the device, in ticks

IdlePort ==
    [transmitList |-> <<>>, pendingCount |-> 0, inRetry |-> FALSE,
     sendEvent |-> NotScheduled]

queueDma(d, ps) ==
    [d EXCEPT !.transmitList = @ \o ps, !.pendingCount = @ + Len(ps)]

(* Does sendDma, in timing mode, go on to trySendTimingReq? *)
CanSend(d) == ~d.inRetry /\ d.sendEvent = NotScheduled

trySendTimingReq(d, accepted) ==
    IF accepted
    THEN [d EXCEPT !.inRetry = FALSE, !.transmitList = Tail(@),
                   !.sendEvent = IF Tail(d.transmitList) = <<>> THEN @ ELSE Cycle]
    ELSE [d EXCEPT !.inRetry = TRUE]

handleResp(d) == [d EXCEPT !.pendingCount = @ - 1]

dmaPending(d) == d.pendingCount > 0
=============================================================================
