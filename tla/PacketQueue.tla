----------------------------- MODULE PacketQueue -----------------------------
(***************************************************************************)
(* The packet queue of a port: packets that wait for their tick, sent one  *)
(* after the other by sendEvent, or by the retry of a peer that refused    *)
(* one.                                                                    *)
(*                                                                         *)
(* The handlers are operators on a queue q.  Ticks count from the present, *)
(* and those in the past are 0: the code compares a packet's tick only     *)
(* with ticks that are not in the past.                                    *)
(***************************************************************************)
EXTENDS Lists

CONSTANT MaxTick  \* later than every tick

ASSUME MaxTickAssumption == MaxTick \in Nat \ {0, 1}

NotScheduled == MaxTick

EmptyQueue ==
    [transmitList |-> <<>>, sendEvent |-> NotScheduled, waitingOnRetry |-> FALSE]

Later(a, b) == IF a < b THEN b ELSE a

deferredPacketReadyTime(q) ==
    IF q.transmitList = <<>> THEN MaxTick ELSE Head(q.transmitList).tick

(* Mutant: an event that is scheduled is not moved. *)
schedSendEvent_once(q, when) ==
    IF q.waitingOnRetry \/ when = MaxTick \/ q.sendEvent # NotScheduled THEN q
    ELSE [q EXCEPT !.sendEvent = Later(when, 1)]

(* The event is one tick in the future at least, and only moves forward. *)
schedSendEvent(q, when) ==
    IF q.waitingOnRetry \/ when = MaxTick THEN q
    ELSE [q EXCEPT !.sendEvent = IF Later(when, 1) < @ THEN Later(when, 1) ELSE @]

(* Mutant: a packet goes before those of the same tick. *)
Position_before(list, when) ==
    Cardinality({i \in DOMAIN list : list[i].tick < when}) + 1

(* The list is sorted: the insertion sort goes past the packets that are   *)
(* not later.                                                              *)
Position(list, when) ==
    Cardinality({i \in DOMAIN list : list[i].tick <= when}) + 1

ForcedTick(list, when) ==
    IF list = <<>> THEN when ELSE Later(when, Last(list).tick)

schedSendTiming(q, p, tick, force_order) ==
    LET when == IF force_order THEN ForcedTick(q.transmitList, tick) ELSE tick
        i    == Position(q.transmitList, when)
        r    == [q EXCEPT !.transmitList = InsertAt(@, i, [tick |-> when, pkt |-> p])]
    IN IF i = 1 THEN schedSendEvent(r, when) ELSE r

(* sendDeferredPacket up to the peer's answer: the packet is off the list  *)
(* while the peer, called with it, may queue others.                       *)
Offered(q) ==
    [q EXCEPT !.transmitList = Tail(@), !.sendEvent = NotScheduled,
              !.waitingOnRetry = FALSE]

(* The rest of sendDeferredPacket; r is the offered queue afterwards. *)
Accepted(r) == schedSendEvent(r, deferredPacketReadyTime(r))

Refused(q) == [q EXCEPT !.sendEvent = NotScheduled, !.waitingOnRetry = TRUE]

(* processSendEvent and retry both send the first packet. *)
MaySend(q) == q.waitingOnRetry \/ q.sendEvent = 0

(* What drain() and the last branch of schedSendEvent look at *)
Empty(q) == q.transmitList = <<>>

Passes(t) == IF t = 0 THEN 0 ELSE t - 1

Older(q) ==
    [q EXCEPT !.transmitList = [i \in DOMAIN @ |-> [tick |-> Passes(@[i].tick),
                                                    pkt  |-> @[i].pkt]],
              !.sendEvent = IF @ = NotScheduled THEN @ ELSE @ - 1]
=============================================================================
