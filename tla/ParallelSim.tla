----------------------------- MODULE ParallelSim -----------------------------
(***************************************************************************)
(* Simulation with one event queue per thread (sim/simulate.cc,            *)
(* sim/global_event.cc, sim/eventq.cc).  A thread puts events for another  *)
(* queue on that queue's async_queue.  The queues are merged when all      *)
(* threads meet at the GlobalSyncEvent at the end of each quantum.  A      *)
(* global event is one barrier event on every queue: the threads meet, one *)
(* of them processes it, they meet again.                                  *)
(***************************************************************************)
EXTENDS Lists

CONSTANTS Threads,       \* 0 .. n-1, one for each queue
          simQuantum,
          Locals,        \* events that live on one queue at a time
          Globals,       \* statistics events, or exit events
          Priority,      \* Priority[e] for local and global events
          Limit          \* tick of simulate_limit_event

Sync == "sync"           \* the GlobalSyncEvent
Exit == "limit"          \* simulate_limit_event

MutPri(e) == CASE e = Sync -> 95 [] e = Exit -> 100 [] OTHER -> IF e \in Globals THEN 90 ELSE 0
Pri(e) == CASE e = Sync -> 95 [] e = Exit -> 100 [] OTHER -> Priority[e]

VARIABLES eq,            \* eq[t]: the main queue, next event first
          asyncq,        \* asyncq[t]: EventQueue::async_queue
          curTick,       \* of each queue
          pc,            \* where a thread is in doSimLoop or BarrierEvent::process
          at,            \* at[t]: the global event t is at, or None
          todo,          \* todo[t]: the loop of BaseGlobalEvent::schedule, still to do
          used           \* the global events that were asked for

None == "none"

\* numMainEventQueues is at least 1; the ticks are unsigned
ASSUME ThreadsAssumption ==
  /\ IsFiniteSet(Threads) /\ Cardinality(Threads) > 0
  /\ Threads = 0 .. Cardinality(Threads) - 1
ASSUME TicksAssumption == simQuantum \in Nat /\ Limit \in Nat
ASSUME EventsAssumption ==
  /\ IsFiniteSet(Locals) /\ Locals \cap Globals = {}
  /\ {Sync, Exit, None} \cap (Locals \cup Globals) = {}

vars == <<eq, asyncq, curTick, pc, at, todo, used>>
globalVars == <<pc, at, todo>>

Entry(e, w) == [id |-> e, when |-> w]

-----------------------------------------------------------------------------
\* EventQueue::insert: behind all that come before it, in front of its equals
Insert(s, x) ==
  LET k == Cardinality({i \in DOMAIN s : \/ s[i].when < x.when
                                         \/ s[i].when = x.when /\ Pri(s[i].id) < Pri(x.id)})
  IN  InsertAt(s, k + 1, x)

\* handleAsyncInsertions: all of the async queue, in its order
Merge(s, new) ==
  LET upTo[i \in 0 .. Len(new)] == IF i = 0 THEN s ELSE Insert(upTo[i - 1], new[i])
  IN  upTo[Len(new)]

\* EventQueue::remove, if the event is scheduled
Without(s, e) ==
  IF \E i \in DOMAIN s : s[i].id = e
  THEN RemoveAt(s, CHOOSE i \in DOMAIN s : s[i].id = e) ELSE s

IsGlobal(e) == e \in Globals \cup {Sync, Exit}
IsExitEvent(e) == e = Exit \/ (e \in Globals /\ Priority[e] = 100)

-----------------------------------------------------------------------------
\* simulate() before threadBarrier: the limit and the first sync on every queue.
\* Not in parallel mode yet, so they go to the main queues.
Prepared(s, now) == Insert(Insert(s, Entry(Exit, Limit)), Entry(Sync, now + simQuantum))

\* Each local event is somewhere, in the first quantum.
Init ==
  /\ \E on \in [Locals -> Threads], w \in [Locals -> 0 .. simQuantum] :
       eq = [t \in Threads |->
               LET mine == {l \in Locals : on[l] = t}
                   queued == Listed({Entry(l, w[l]) : l \in mine})
               IN  Prepared(Merge(<<>>, queued), 0)]
  /\ asyncq = [t \in Threads |-> <<>>]
  /\ curTick = [t \in Threads |-> 0]
  /\ pc = [t \in Threads |-> "enter"]
  /\ at = [t \in Threads |-> None]
  /\ todo = [t \in Threads |-> <<>>]
  /\ used = {}

\* The start of doSimLoop
Enter(t) ==
  /\ pc[t] = "enter"
  /\ eq' = [eq EXCEPT ![t] = Merge(@, asyncq[t])]
  /\ asyncq' = [asyncq EXCEPT ![t] = <<>>]
  /\ pc' = [pc EXCEPT ![t] = "run"]
  /\ UNCHANGED <<curTick, at, todo, used>>

\* globalQMutex is held by the thread in the loop of BaseGlobalEvent::schedule
Locked == \E t \in Threads : todo[t] # <<>>

MutServiceLocal(t) ==
  /\ pc[t] = "run" /\ todo[t] = <<>> /\ ~IsGlobal(Head(eq[t]).id)
  /\ LET x == Head(eq[t])
     IN  /\ curTick' = [curTick EXCEPT ![t] = x.when]
         /\ eq' = [eq EXCEPT ![t] = Tail(@)]
         /\ \E u \in Threads \ {t}, w \in x.when + simQuantum - 1 .. Limit :
              asyncq' = [asyncq EXCEPT ![u] = Append(@, Entry(x.id, w))]
  /\ UNCHANGED <<globalVars, used>>

\* serviceOne of a local event.  Its handler may schedule it again, on its own
\* queue at any time, on another at least one quantum ahead.
ServiceLocal(t) ==
  /\ pc[t] = "run" /\ todo[t] = <<>> /\ ~IsGlobal(Head(eq[t]).id)
  /\ LET l == Head(eq[t]).id
         now == Head(eq[t]).when
     IN  /\ curTick' = [curTick EXCEPT ![t] = now]
         /\ \/ /\ eq' = [eq EXCEPT ![t] = Tail(@)]
               /\ UNCHANGED asyncq
            \/ \E w \in now + 1 .. Limit :
                 /\ eq' = [eq EXCEPT ![t] = Insert(Tail(@), Entry(l, w))]
                 /\ UNCHANGED asyncq
            \/ \E u \in Threads \ {t}, w \in now + simQuantum .. Limit :
                 /\ eq' = [eq EXCEPT ![t] = Tail(@)]
                 /\ asyncq' = [asyncq EXCEPT ![u] = Append(@, Entry(l, w))]
  /\ UNCHANGED <<globalVars, used>>

\* doSimLoop handles a signal, or a handler asks for an exit: schedStatEvent and
\* exitSimLoop schedule a global event one quantum ahead.
RequestGlobal(t, g) ==
  /\ pc[t] = "run" /\ g \notin used /\ ~Locked
  /\ todo' = [todo EXCEPT ![t] = [i \in 1 .. Cardinality(Threads) |->
                                    <<i - 1, Entry(g, curTick[t] + simQuantum)>>]]
  /\ used' = used \cup {g}
  /\ UNCHANGED <<eq, asyncq, curTick, pc, at>>

\* One round of the loop of BaseGlobalEvent::schedule: the async queue also of the
\* thread itself
ScheduleStep(t) ==
  /\ todo[t] # <<>>
  /\ asyncq' = [asyncq EXCEPT ![Head(todo[t])[1]] = Append(@, Head(todo[t])[2])]
  /\ todo' = [todo EXCEPT ![t] = Tail(@)]
  /\ UNCHANGED <<eq, curTick, pc, at, used>>

\* Barrier::wait(): the last one to come lets all others go, and learns that it
\* was the last (lead); the others go on at follow.
Wait(t, from, e, lead, follow) ==
  LET here == {u \in Threads : pc[u] = from /\ at[u] = e}
  IN  IF here \cup {t} = Threads
      THEN pc' = [u \in Threads |-> IF u = t THEN lead ELSE follow]
      ELSE pc' = [pc EXCEPT ![t] = from]

\* serviceOne of a barrier event, up to its first globalBarrier()
Arrive(t) ==
  /\ pc[t] = "run" /\ todo[t] = <<>> /\ IsGlobal(Head(eq[t]).id)
  /\ LET e == Head(eq[t]).id
     IN  /\ curTick' = [curTick EXCEPT ![t] = Head(eq[t]).when]
         /\ eq' = [eq EXCEPT ![t] = Tail(@)]
         /\ at' = [at EXCEPT ![t] = e]
         /\ Wait(t, "meet", e, "process", "again")
  /\ UNCHANGED <<asyncq, todo, used>>

MutProcess(t) ==
  /\ pc[t] = "process" /\ ~Locked
  /\ todo' = [todo EXCEPT ![t] =
                IF at[t] # Sync THEN <<>>
                ELSE [i \in 1 .. Cardinality(Threads) |->
                        <<i - 1, Entry(Sync, curTick[t] + simQuantum)>>]]
  /\ pc' = [pc EXCEPT ![t] = IF at[t] # Sync THEN "leave" ELSE "again"]
  /\ UNCHANGED <<eq, asyncq, curTick, at, used>>

\* GlobalSyncEvent::process schedules the next sync.  The other global events have
\* nothing to do here.
Process(t) ==
  /\ pc[t] = "process" /\ ~Locked
  /\ todo' = [todo EXCEPT ![t] =
                IF at[t] # Sync THEN <<>>
                ELSE [i \in 1 .. Cardinality(Threads) |->
                        <<i - 1, Entry(Sync, curTick[t] + simQuantum)>>]]
  /\ pc' = [pc EXCEPT ![t] = "again"]
  /\ UNCHANGED <<eq, asyncq, curTick, at, used>>

MutMeetAgain(t) ==
  /\ pc[t] = "again" /\ todo[t] = <<>>
  /\ pc' = [pc EXCEPT ![t] = "leave"]
  /\ UNCHANGED <<eq, asyncq, curTick, at, todo, used>>

\* the second globalBarrier()
MeetAgain(t) ==
  /\ pc[t] = "again" /\ todo[t] = <<>>
  /\ Wait(t, "meet2", at[t], "leave", "leave")
  /\ UNCHANGED <<eq, asyncq, curTick, at, todo, used>>

\* After the second barrier: a sync merges the async queue, an exit event ends the
\* simulation loop.
Leave(t) ==
  /\ pc[t] = "leave"
  /\ IF at[t] = Sync
     THEN /\ eq' = [eq EXCEPT ![t] = Merge(@, asyncq[t])]
          /\ asyncq' = [asyncq EXCEPT ![t] = <<>>]
     ELSE UNCHANGED <<eq, asyncq>>
  /\ pc' = [pc EXCEPT ![t] = IF IsExitEvent(at[t]) THEN "out" ELSE "run"]
  /\ at' = [at EXCEPT ![t] = None]
  /\ UNCHANGED <<curTick, todo, used>>

\* simulate() returns when the main thread leaves its loop, having taken the sync
\* off all queues; the script calls it again for the ticks that are left.  The
\* subordinate threads wait for that at threadBarrier.
Resimulate ==
  /\ \A t \in Threads : pc[t] = "out"
  /\ \E i \in DOMAIN eq[0] : eq[0][i].id = Exit
  /\ eq' = [t \in Threads |->
              Prepared(Without(Without(eq[t], Sync), Exit), curTick[0])]
  /\ pc' = [t \in Threads |-> "enter"]
  /\ UNCHANGED <<asyncq, curTick, at, todo, used>>

LimitOver == \A t \in Threads : pc[t] = "out" /\ \A i \in DOMAIN eq[t] : eq[t][i].id # Exit

Step(t) == \/ Enter(t) \/ ServiceLocal(t) \/ ScheduleStep(t) \/ Arrive(t)
           \/ Process(t) \/ MeetAgain(t) \/ Leave(t)

Next == \/ \E t \in Threads : Step(t) \/ \E g \in Globals : RequestGlobal(t, g)
        \/ Resimulate

Spec == Init /\ [][Next]_vars

\* Threads run; nobody has to ask for a global event.
FairSpec == Spec /\ (\A t \in Threads : WF_vars(Step(t))) /\ WF_vars(Resimulate)

-----------------------------------------------------------------------------
TypeOK ==
  /\ \A t \in Threads : /\ pc[t] \in {"run", "meet", "process", "again", "meet2", "leave", "out", "enter"}
                        /\ at[t] \in Globals \cup {Sync, Exit, None}
                        /\ (at[t] = None) <=> (pc[t] \in {"run", "out", "enter"})
  /\ curTick \in [Threads -> 0 .. Limit]

\* No event is ever scheduled in the past, the assertion of doSimLoop, although
\* events reach another queue only at the next sync.
NotInThePast == \A t \in Threads : eq[t] # <<>> => curTick[t] <= Head(eq[t]).when

\* While one thread processes a global event, every other thread waits for it, at
\* the same tick: GlobalEvent's promise that nobody continues before process() is
\* complete.
GlobalIsAlone ==
  \A t \in Threads : pc[t] = "process" \/ (pc[t] = "again" /\ todo[t] # <<>>) =>
    \A u \in Threads : /\ at[u] = at[t] /\ curTick[u] = curTick[t]
                       /\ pc[u] \in {"process", "again", "meet2"}

\* Two threads never wait for each other at different global events, which is what
\* the total order of global events is for (BaseGlobalEvent::schedule).
BarrierAgreement ==
  \A t, u \in Threads : pc[t] = "meet" /\ pc[u] = "meet" => at[t] = at[u]

\* The simulation reaches its limit on all threads: no deadlock among the barriers
\* and no thread that misses an event the others wait at.
LimitReached == <>LimitOver
=============================================================================
