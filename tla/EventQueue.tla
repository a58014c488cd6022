------------------------------ MODULE EventQueue ------------------------------
(***************************************************************************)
(* The event queue as it is built (sim/eventq.cc): a list of bins, one for *)
(* each tick and priority, linked by nextBin; a bin is a stack linked by   *)
(* nextInBin.  Only the nextBin pointer of the top of a stack is           *)
(* maintained, the others go stale and are repaired when they surface.     *)
(***************************************************************************)
EXTENDS Integers, Sequences, FiniteSets, FiniteSetsExt

CONSTANTS Events, Priority, Horizon,
          NULL           \* the null pointer

VARIABLES head, nextBin, nextInBin,    \* the pointers
          when, squashed, curTick,
          scheduled      \* events with the Scheduled flag

ptrVars == <<head, nextBin, nextInBin>>
vars == <<ptrVars, when, squashed, curTick, scheduled>>

-----------------------------------------------------------------------------
\* Following pointers, for at most one step more than there are events.

RECURSIVE WalkFor(_, _, _)
WalkFor(n, next, from) ==
  IF n = 0 \/ from = NULL THEN <<>> ELSE <<from>> \o WalkFor(n - 1, next, next[from])

Walk(next, from) == WalkFor(Cardinality(Events) + 1, next, from)

Less(w, e, f)  == w[e] < w[f] \/ (w[e] = w[f] /\ Priority[e] < Priority[f])
Same(w, e, f)  == w[e] = w[f] /\ Priority[e] = Priority[f]

\* The tops of the bins that the loops of insert and remove pass over: from the
\* head on, as long as they come before e.
Passed(p, w, e) ==
  LET bins == Walk(p.nextBin, p.head)
  IN  {k \in DOMAIN bins : \A i \in 1 .. k : Less(w, bins[i], e)}

\* prev, after those loops; head comes before e
Prev(p, w, e) == Walk(p.nextBin, p.head)[Max(Passed(p, w, e))]

\* Event::insertBefore(event, curr): the pointers with e put in front of curr's
\* bin, or on top of it
InsertBefore(p, w, e, curr) ==
  IF curr = NULL \/ Less(w, e, curr)
  THEN [p EXCEPT !.nextBin[e] = curr, !.nextInBin[e] = NULL]
  ELSE [p EXCEPT !.nextBin[e] = p.nextBin[curr], !.nextInBin[e] = curr]

MutInsert(p, w, e) ==
  IF p.head = NULL \/ Less(w, e, p.head)
  THEN [InsertBefore(p, w, e, p.head) EXCEPT !.head = e]
  ELSE LET prev == IF Passed(p, w, e) = {} THEN p.head ELSE Prev(p, w, e)
       IN  [InsertBefore(p, w, e, p.nextBin[prev]) EXCEPT !.nextBin[prev] = e]

Insert(p, w, e) ==
  IF p.head = NULL \/ Less(w, e, p.head) \/ Same(w, e, p.head)
  THEN [InsertBefore(p, w, e, p.head) EXCEPT !.head = e]
  ELSE LET prev == Prev(p, w, e)
       IN  [InsertBefore(p, w, e, p.nextBin[prev]) EXCEPT !.nextBin[prev] = e]

\* Event::removeItem(event, top): the pointers, and the new top of the bin.  An
\* event below the top is found by walking down the stack.
RemoveItem(p, e, top) ==
  IF e = top
  THEN IF p.nextInBin[top] = NULL
       THEN [ptrs |-> p, top |-> p.nextBin[top]]
       ELSE [ptrs |-> [p EXCEPT !.nextBin[p.nextInBin[top]] = p.nextBin[top]],
             top  |-> p.nextInBin[top]]
  ELSE LET stack == Walk(p.nextInBin, top)
           curr  == stack[CHOOSE i \in DOMAIN stack : stack[i + 1] = e]
       IN  [ptrs |-> [p EXCEPT !.nextInBin[curr] = p.nextInBin[e]], top |-> top]

Remove(p, w, e) ==
  IF Same(w, e, p.head)
  THEN LET r == RemoveItem(p, e, p.head)
       IN  [r.ptrs EXCEPT !.head = r.top]
  ELSE LET prev == Prev(p, w, e)
           r    == RemoveItem(p, e, p.nextBin[prev])
       IN  [r.ptrs EXCEPT !.nextBin[prev] = r.top]

ptrs == [head |-> head, nextBin |-> nextBin, nextInBin |-> nextInBin]

SetPtrs(p) == /\ head' = p.head
              /\ nextBin' = p.nextBin
              /\ nextInBin' = p.nextInBin

-----------------------------------------------------------------------------
Init == /\ head = NULL
        /\ nextBin = [e \in Events |-> NULL]
        /\ nextInBin = [e \in Events |-> NULL]
        /\ when = [e \in Events |-> 0]
        /\ squashed = {} /\ scheduled = {}
        /\ curTick = 0

\* EventQueue::schedule, by the thread that owns the queue
Schedule(e, t) ==
  /\ t >= curTick /\ e \notin scheduled
  /\ when' = [when EXCEPT ![e] = t]
  /\ SetPtrs(Insert(ptrs, when', e))
  /\ scheduled' = scheduled \cup {e}
  /\ UNCHANGED <<squashed, curTick>>

Deschedule(e) ==
  /\ e \in scheduled
  /\ SetPtrs(Remove(ptrs, when, e))
  /\ squashed' = squashed \ {e}
  /\ scheduled' = scheduled \ {e}
  /\ UNCHANGED <<when, curTick>>

\* EventQueue::reschedule with always = true; it removes the event while its old
\* tick is still in place
Reschedule(e, t) ==
  /\ t >= curTick
  /\ when' = [when EXCEPT ![e] = t]
  /\ SetPtrs(Insert(IF e \in scheduled THEN Remove(ptrs, when, e) ELSE ptrs, when', e))
  /\ squashed' = squashed \ {e}
  /\ scheduled' = scheduled \cup {e}
  /\ UNCHANGED curTick

\* Event::squash of a scheduled event
Squash(e) ==
  /\ e \in scheduled
  /\ squashed' = squashed \cup {e}
  /\ UNCHANGED <<ptrVars, when, curTick, scheduled>>

MutServiceOne ==
  /\ head # NULL
  /\ head' = IF nextInBin[head] # NULL THEN nextInBin[head] ELSE nextBin[head]
  /\ curTick' = IF head \in squashed THEN curTick ELSE when[head]
  /\ scheduled' = scheduled \ {head}
  /\ squashed' = squashed \ {head}
  /\ UNCHANGED <<nextBin, nextInBin, when>>

\* EventQueue::serviceOne; what process() schedules follows as further steps
ServiceOne ==
  /\ head # NULL
  /\ LET next == nextInBin[head]
     IN  IF next # NULL
         THEN head' = next /\ nextBin' = [nextBin EXCEPT ![next] = nextBin[head]]
         ELSE head' = nextBin[head] /\ UNCHANGED nextBin
  /\ curTick' = IF head \in squashed THEN curTick ELSE when[head]
  /\ scheduled' = scheduled \ {head}
  /\ squashed' = squashed \ {head}
  /\ UNCHANGED <<nextInBin, when>>

Next == \/ \E e \in Events : \/ \E t \in 0 .. Horizon : Schedule(e, t) \/ Reschedule(e, t)
                             \/ Deschedule(e) \/ Squash(e)
        \/ ServiceOne

Spec == Init /\ [][Next]_vars

-----------------------------------------------------------------------------
\* The events in the order of dump() and debugVerify(): bin by bin, each from the
\* top of its stack.
RECURSIVE Flatten(_, _)
Flatten(p, bins) ==
  IF bins = <<>> THEN <<>>
  ELSE Walk(p.nextInBin, Head(bins)) \o Flatten(p, Tail(bins))

queue == Flatten(ptrs, Walk(nextBin, head))

TypeOK ==
  /\ head \in Events \cup {NULL}
  /\ nextBin \in [Events -> Events \cup {NULL}]
  /\ nextInBin \in [Events -> Events \cup {NULL}]
  /\ when \in [Events -> 0 .. Horizon] /\ curTick \in 0 .. Horizon
  /\ squashed \subseteq scheduled /\ scheduled \subseteq Events

\* Exactly the events with the Scheduled flag can be reached through the pointers,
\* each once: no stale nextBin pointer loses a bin or links to a removed event.
ScheduledReachable ==
  /\ Len(queue) = Cardinality(scheduled)
  /\ {queue[i] : i \in DOMAIN queue} = scheduled

\* The linked bins implement the ordered sequence: insert, remove and serviceOne
\* do what EventOrder says, in particular events of one bin leave in LIFO order.
Order == INSTANCE EventOrder WITH order <- queue
OrderSpec == Order!OrderSpec
=============================================================================
