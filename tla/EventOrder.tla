------------------------------ MODULE EventOrder ------------------------------
(***************************************************************************)
(* What the simulator's event queue promises (sim/eventq.hh): events are   *)
(* serviced in the order of their tick, then of their priority, and events *)
(* with the same tick and priority in the reverse of the order in which    *)
(* they were scheduled.  The queue is a sequence.                          *)
(***************************************************************************)
EXTENDS Integers, Sequences, FiniteSets

CONSTANTS Events,        \* the Event objects
          Priority,      \* Priority[e]: the priority e was constructed with
          Horizon        \* bound: no event is scheduled after this tick

VARIABLES order,         \* the scheduled events, the next one to service first
          when,          \* Event::_when
          squashed,      \* events with the Squashed flag
          curTick        \* EventQueue::_curTick

orderVars == <<order, when, squashed, curTick>>

Scheduled(s) == {s[i] : i \in DOMAIN s}

\* operator< on events, under the assignment w of ticks
Before(w, e, f) == w[e] < w[f] \/ (w[e] = w[f] /\ Priority[e] < Priority[f])

\* e goes after the events that come strictly before it, in front of its equals.
Inserted(s, w, e) ==
  LET k == Cardinality({i \in DOMAIN s : Before(w, s[i], e)})
  IN  SubSeq(s, 1, k) \o <<e>> \o SubSeq(s, k + 1, Len(s))

Removed(s, e) == SelectSeq(s, LAMBDA f : f # e)

-----------------------------------------------------------------------------
OrderInit == /\ order = <<>>
             /\ when = [e \in Events |-> 0]
             /\ squashed = {}
             /\ curTick = 0

Schedule(e, t) ==
  /\ e \notin Scheduled(order) /\ t \in curTick .. Horizon
  /\ when' = [when EXCEPT ![e] = t]
  /\ order' = Inserted(order, when', e)
  /\ UNCHANGED <<squashed, curTick>>

Deschedule(e) ==
  /\ e \in Scheduled(order)
  /\ order' = Removed(order, e)
  /\ squashed' = squashed \ {e}
  /\ UNCHANGED <<when, curTick>>

Reschedule(e, t) ==
  /\ t \in curTick .. Horizon
  /\ when' = [when EXCEPT ![e] = t]
  /\ order' = Inserted(Removed(order, e), when', e)
  /\ squashed' = squashed \ {e}
  /\ UNCHANGED curTick

Squash(e) ==
  /\ e \in Scheduled(order)
  /\ squashed' = squashed \cup {e}
  /\ UNCHANGED <<order, when, curTick>>

Service ==
  /\ order # <<>>
  /\ order' = Tail(order)
  /\ curTick' = IF Head(order) \in squashed THEN curTick ELSE when[Head(order)]
  /\ squashed' = squashed \ {Head(order)}
  /\ UNCHANGED when

OrderNext == \/ \E e \in Events : \/ \E t \in 0 .. Horizon : Schedule(e, t) \/ Reschedule(e, t)
                                  \/ Deschedule(e) \/ Squash(e)
             \/ Service

OrderSpec == OrderInit /\ [][OrderNext]_orderVars
=============================================================================
