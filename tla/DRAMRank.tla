------------------------------ MODULE DRAMRank ------------------------------
(***************************************************************************)
(* Timing of the DRAM ranks (mem/dram_ctrl.cc): what an access does to the *)
(* banks, the activate and precharge events that drive the power state,    *)
(* and the refresh state machine.  Events of one tick run in the order of  *)
(* sim/eventq.cc: the one scheduled last runs first.  Which packet the     *)
(* request loop picks is DRAMCtrl.tla's matter; here it may be any.        *)
(* Ticks are kept as distances from the last event, 0 or more unless the   *)
(* past still matters, which makes the state finite.                       *)
(***************************************************************************)
EXTENDS Integers, FiniteSets, SequencesExt

CONSTANTS Configs,                            \* the channels to look at: records of
                                              \* ranks, banks and activationLimit
          Group,                              \* bank -> bank group
          bankGroupArch,
          tRP, tRCD, tCL, tBURST, tRAS, tWLOV, tRTP, tWR, tRTW, tWTR, tCS,
          tRRD, tRRD_L, tCCD_L, tXAW, tRFC, tREFI,
          RowOps                              \* row operations that requests carry

VARIABLES config,          \* the channel, one of Configs; it stays
          evq,             \* the scheduled events, next first
          rank,            \* banks, numBanksActive, actTicks, power and refresh state
          activeRank, busBusyUntil, nextReqTime,
          failed           \* assertions and panics of the code that were hit

vars == <<config, evq, rank, activeRank, busBusyUntil, nextReqTime, failed>>

\* Of the configured channel.  A limit of 0 stands for no window of activates.
Ranks == config.ranks
Banks == config.banks
activationLimit == config.activationLimit

\* curTick() within the event that is next
curTick == Head(evq).when

Larger(a, b) == IF a > b THEN a ELSE b
Latest(S) == CHOOSE t \in S : \A u \in S : u <= t

-----------------------------------------------------------------------------
\* Events

nextReqEvent == <<"nextReq">>
activateEvent(r) == <<"activate", r>>
prechargeEvent(r) == <<"precharge", r>>
refreshEvent(r) == <<"refresh", r>>
powerEvent(r) == <<"power", r>>

scheduled(q, e) == \E i \in DOMAIN q : q[i].ev = e
when(q, e) == q[CHOOSE i \in DOMAIN q : q[i].ev = e].when

\* All have the default priority, and a new event goes in front of its equals.  One
\* for this very tick is first then: no event of another object comes between.
schedule(q, e, w) ==
  LET k == Cardinality({i \in DOMAIN q : q[i].when < w})
  IN  InsertAt(q, k + 1, [ev |-> e, when |-> w, atOnce |-> w = curTick])

reschedule(q, e, w) == schedule(SelectSeq(q, LAMBDA x : x.ev # e), e, w)

\* What a handler changes, besides the bus: m is [rank, evq, failed].
Machine == [rank |-> rank, evq |-> evq, failed |-> failed]
Check(m, holds, name) == IF holds THEN m ELSE [m EXCEPT !.failed = @ \cup {name}]

-----------------------------------------------------------------------------
\* Banks

prechargeBank(m, r, b, preAt) ==
  LET done == preAt + tRP
      e == prechargeEvent(r)
      ok1 == Check(m, m.rank[r].banks[b].open, "precharge of a closed bank")
      ok2 == Check(ok1, m.rank[r].numBanksActive # 0, "no bank was active")
  IN  [ok2 EXCEPT
        !.rank[r].banks[b] = [@ EXCEPT !.open = FALSE, !.preAt = preAt,
                                       !.actAt = Larger(@, done)],
        !.rank[r].numBanksActive = @ - 1,
        !.evq = IF ~scheduled(@, e) THEN schedule(@, e, done)
                ELSE IF when(@, e) < done THEN reschedule(@, e, done)
                ELSE @]

\* tRRD, or tRRD_L within a bank group
Spacing(b, c) == IF bankGroupArch /\ Group[b] = Group[c] THEN tRRD_L ELSE tRRD

\* A row is opened at tick t, to be restored for a while: the part that
\* activateBank and aapBank share.  The window check is activateBank's.
Opened(m, r, b, t, restore) ==
  LET acts == m.rank[r].actTicks
      newActs == IF acts = <<>> THEN acts ELSE <<t>> \o Front(acts)
      limited == acts # <<>> /\ t < Last(newActs) + tXAW
      e == activateEvent(r)
      ok1 == Check(m, ~m.rank[r].banks[b].open, "activate of an open bank")
      ok2 == Check(ok1, m.rank[r].numBanksActive < Cardinality(Banks), "too many banks")
      ok3 == Check(ok2, acts = <<>> \/ t - Last(acts) >= tXAW, "tXAW")
      ok4 == Check(ok3, acts = <<>> \/ t >= acts[1] + tRRD, "tRRD")
  IN  [ok4 EXCEPT
        !.rank[r].banks = [c \in Banks |->
           LET spaced == Larger(t + Spacing(b, c), @[c].actAt)
               allowed == IF limited THEN Larger(Last(newActs) + tXAW, spaced) ELSE spaced
           IN  IF c = b THEN [@[c] EXCEPT !.open = TRUE, !.preAt = t + restore, !.actAt = allowed]
               ELSE [@[c] EXCEPT !.actAt = allowed]],
        !.rank[r].numBanksActive = @ + 1,
        !.rank[r].actTicks = newActs,
        !.evq = IF ~scheduled(@, e) THEN schedule(@, e, t)
                ELSE IF when(@, e) > t THEN reschedule(@, e, t)
                ELSE @]

activateBank(m, r, b, t) ==
  [Opened(m, r, b, t, tRAS) EXCEPT !.rank[r].banks[b].colAt = Larger(t + tRCD, @)]

apBank(m, r, b, t) ==
  LET a == activateBank(m, r, b, t) IN prechargeBank(a, r, b, a.rank[r].banks[b].preAt)

aapBank(m, r, b, t) ==
  LET a == Opened(m, r, b, t, tRAS + tWLOV)
  IN  prechargeBank(a, r, b, a.rank[r].banks[b].preAt)

\* If there is a page open, precharge it.
ClosePage(m, r, b) ==
  IF m.rank[r].banks[b].open
  THEN prechargeBank(m, r, b, Larger(m.rank[r].banks[b].preAt, curTick))
  ELSE m

\* The commands of each row operation in doDRAMAccess
Commands(op) ==
  CASE op \in {"ROWAND", "ROWOR"} -> <<"aap", "aap", "aap", "aap">>
    [] op \in {"ROWNOT", "ROWLS", "ROWRS"} -> <<"aap", "aap">>
    [] op = "ROWXOR" -> <<"aap", "aap", "aap", "ap", "ap", "aap", "aap">>
    [] op = "ROWAP" -> <<"ap">>
    [] op = "ROWAAP" -> <<"aap">>

\* Of the times of DRAMCtrl.py: an idle rank has its window of activates behind it,
\* and the longest row operation, held up by a full window of activates of the other
\* banks, leaves time for the refresh that waits for it.
ASSUME TimingAssumption ==
  /\ tRRD <= tRRD_L /\ tBURST <= tCCD_L
  /\ tRCD < tRAS
  /\ \A c \in Configs : c.activationLimit > 0 =>
       tXAW <= tRAS + tRP + (c.activationLimit - 1) * tRRD
  /\ tRP <= tRFC
  /\ \A op \in RowOps : Len(Commands(op)) * (tRAS + tWLOV + tRP)
                        + tXAW + tRCD + tCL + tBURST + tWR + 2 * tRP + tRFC <= tREFI

MutRowOpStart(m, r, b) == Larger(m.rank[r].banks[b].colAt, curTick)

\* The first command of a row operation: when the bank can take an activate
RowOpStart(m, r, b) ==
  Larger(Larger(m.rank[r].banks[b].colAt, curTick), m.rank[r].banks[b].actAt)

\* doDRAMAccess for a row operation: its commands one after the other
RowAccess(m, r, b, op) ==
  LET Do(x, cmd) ==
        LET n == IF cmd = "ap" THEN apBank(x.m, r, b, x.at) ELSE aapBank(x.m, r, b, x.at)
        IN  [m |-> n, at |-> n.rank[r].banks[b].actAt]
      closed == ClosePage(m, r, b)
  IN  FoldLeft(Do, [m |-> closed, at |-> RowOpStart(closed, r, b)], Commands(op))

\* wait until the bus is available before the command is issued
OnFreeBus(t, bus) == Larger(t, bus - tCL)

\* doDRAMAccess for a read or write burst.  hit: the open row is the one; closeIt:
\* the page policy asks for an auto-precharge; bus: busBusyUntil with the bubble of a
\* change of direction.
Burst(m, r, b, isRead, hit, closeIt, bus) ==
  LET closed == ClosePage(m, r, b)
      bank == m.rank[r].banks[b]
      opened == IF hit THEN m
                ELSE activateBank(closed, r, b, Larger(closed.rank[r].banks[b].actAt, curTick))
      cmdAt == OnFreeBus(IF hit THEN Larger(bank.colAt, curTick)
                         ELSE opened.rank[r].banks[b].colAt, bus)
      ready == cmdAt + tCL + tBURST
      delay(s, c) == IF s # r THEN tBURST + tCS
                     ELSE IF bankGroupArch /\ Group[b] = Group[c] THEN tCCD_L ELSE tBURST
      moved == [opened EXCEPT !.rank = [s \in Ranks |->
                 [@[s] EXCEPT !.banks = [c \in Banks |->
                   [@[c] EXCEPT !.colAt = Larger(cmdAt + delay(s, c), @)]]]]]
      held == [moved EXCEPT !.rank[r].banks[b].preAt =
                 Larger(@, IF isRead THEN cmdAt + tRTP ELSE ready + tWR)]
  IN  [m |-> IF closeIt THEN ClosePage(held, r, b) ELSE held, ready |-> ready]

-----------------------------------------------------------------------------
\* DRAMCtrl::startup and Rank::startup, at tick 0
Init ==
  /\ config \in Configs
  /\ rank = [r \in Ranks |->
       [banks |-> [b \in Banks |-> [open |-> FALSE, actAt |-> 0, preAt |-> 0, colAt |-> 0]],
        numBanksActive |-> 0,
        actTicks |-> [i \in 1 .. activationLimit |-> -tXAW],
        pwrState |-> "PWR_IDLE", pwrStateTrans |-> "PWR_IDLE",
        refreshState |-> "REF_IDLE", refreshDueAt |-> 0]]
  /\ evq = SetToSeq({[ev |-> refreshEvent(r), when |-> tREFI - tRP, atOnce |-> FALSE] : r \in Ranks})
  /\ activeRank = 0
  /\ busBusyUntil = tRP + tRCD + tCL
  /\ nextReqTime = 0
  /\ failed = {}

\* Ticks seen from d on; how far back one lies does not matter beyond past.
From(d, t, past) == IF t - d < -past THEN -past ELSE t - d

\* The state of the machine and the bus, d ticks later
Becomes(new, bus, next, d) == \E m \in {new} :
  /\ rank' = [r \in Ranks |->
       [m.rank[r] EXCEPT
         !.banks = [b \in Banks |-> [open |-> @[b].open, actAt |-> From(d, @[b].actAt, 0),
                                     preAt |-> From(d, @[b].preAt, 0),
                                     colAt |-> From(d, @[b].colAt, 0)]],
         !.actTicks = [i \in DOMAIN @ |-> From(d, @[i], tXAW)],
         !.refreshDueAt = IF m.rank[r].refreshState = "REF_IDLE" THEN 0 ELSE @ - d]]
  /\ evq' = [i \in DOMAIN m.evq |-> [m.evq[i] EXCEPT !.when = @ - d]]
  /\ busBusyUntil' = From(d, bus, tWTR + tCL + tRTW)
  /\ nextReqTime' = From(d, next, 0)
  /\ failed' = m.failed

\* An event that leaves the bus alone
Handled(m) == Becomes(m, busBusyUntil, nextReqTime, curTick) /\ UNCHANGED activeRank

MutIsAvailable(r) == rank[r].refreshState \in {"REF_IDLE", "REF_RUN"}

isAvailable(r) == rank[r].refreshState = "REF_IDLE"

\* A request arrives with an event of another object: addToReadQueue or addToWriteQueue wakes the
\* request loop.
RequestArrives(t) ==
  /\ ~scheduled(evq, nextReqEvent) /\ ~Head(evq).atOnce
  /\ Becomes([Machine EXCEPT !.evq = schedule(@, nextReqEvent, t)], busBusyUntil, nextReqTime, t)
  /\ UNCHANGED activeRank

\* The event at the head of the queue
Due(e) == Head(evq).ev = e
Popped == [Machine EXCEPT !.evq = Tail(@)]

MutDrainDone(m) ==
  [m EXCEPT !.rank = [r \in Ranks |->
     IF @[r].refreshState # "REF_DRAIN" THEN @[r]
     ELSE [@[r] EXCEPT !.refreshState = "REF_PRE"]]]

\* checkDrainDone for every rank that is not available, in order
DrainDone(m) ==
  LET One(n, r) ==
        IF n.rank[r].refreshState # "REF_DRAIN" THEN n
        ELSE [n EXCEPT !.rank[r].refreshState = "REF_PRE",
                       !.evq = schedule(@, refreshEvent(r), curTick)]
  IN  FoldLeft(One, m, SetToSortSeq(Ranks, <))

\* processNextReqEvent without a packet to serve: all ranks refresh, or nothing is
\* there to do.
NextReqIdle ==
  /\ Due(nextReqEvent)
  /\ Handled(DrainDone(Popped))

\* The end of a turn of processNextReqEvent: the next one
NextTurn(m, t) == [m EXCEPT !.evq = schedule(@, nextReqEvent, Larger(t, curTick))]

\* processNextReqEvent only turns the bus to writes.
NextReqTurns ==
  /\ Due(nextReqEvent) /\ \E r \in Ranks : isAvailable(r)
  /\ Handled(NextTurn(DrainDone(Popped), nextReqTime))

\* The access has the data bus until ready; the next request is looked at when it
\* could prepare its bank.
Accessed(m, r, ready) ==
  LET t == ready - (tRP + tRCD + tCL)
      ok == Check(m, ready > busBusyUntil, "bus")
  IN  /\ Becomes(NextTurn(ok, t), ready, t, curTick)
      /\ activeRank' = r

\* processNextReqEvent serves the packet that chooseNext put in front, of an
\* available rank: a burst, where turned says that the bus has just changed its
\* direction, or a row operation.
NextReqServe(r, b) ==
  /\ Due(nextReqEvent) /\ isAvailable(r)
  /\ \/ \E isRead, hit, closeIt, turned \in BOOLEAN :
          /\ hit => rank[r].banks[b].open
          /\ LET bubble == IF turned /\ r = activeRank
                           THEN (IF isRead THEN tWTR + tCL ELSE tRTW) ELSE 0
             IN  \E x \in {Burst(DrainDone(Popped), r, b, isRead, hit, closeIt,
                                 busBusyUntil + bubble)} :
                   Accessed(x.m, r, x.ready)
     \/ \E op \in RowOps : \E x \in {RowAccess(DrainDone(Popped), r, b, op)} :
          Accessed(x.m, r, x.at + tCL)

-----------------------------------------------------------------------------
\* The events of a rank

schedulePowerEvent(m, r, state, t) ==
  LET ok == Check(m, ~scheduled(m.evq, powerEvent(r)), "two power events")
  IN  [ok EXCEPT !.rank[r].pwrStateTrans = state, !.evq = schedule(@, powerEvent(r), t)]

processActivateEvent(r) ==
  /\ Due(activateEvent(r))
  /\ Handled(IF rank[r].pwrState = "PWR_ACT" THEN Popped
             ELSE schedulePowerEvent(Popped, r, "PWR_ACT", curTick))

MutProcessPrechargeEvent(r) ==
  /\ Due(prechargeEvent(r))
  /\ Handled(schedulePowerEvent(Popped, r, "PWR_IDLE", curTick))

processPrechargeEvent(r) ==
  /\ Due(prechargeEvent(r))
  /\ Handled(IF rank[r].numBanksActive # 0 THEN Popped
             ELSE schedulePowerEvent(Popped, r, "PWR_IDLE", curTick))

\* REF_PRE: precharge all banks together, as soon as the last one allows it
PrechargeAll(m, r) ==
  LET banks == m.rank[r].banks
      preAt == Latest({banks[b].preAt : b \in Banks} \cup {curTick})
      One(n, b) ==
        IF banks[b].open THEN prechargeBank(n, r, b, preAt)
        ELSE [n EXCEPT !.rank[r].banks[b] =
                [@ EXCEPT !.actAt = Larger(@, preAt + tRP), !.preAt = Larger(@, preAt)]]
  IN  FoldLeft(One, m, SetToSortSeq(Banks, <))

MutRunRefresh(m, r) ==
  LET done == curTick + tRFC
      next == [m EXCEPT !.rank[r].banks = [b \in Banks |-> [@[b] EXCEPT !.actAt = done]],
                        !.evq = schedule(@, refreshEvent(r),
                                         m.rank[r].refreshDueAt + tREFI - tRFC - tRP)]
  IN  schedulePowerEvent(next, r, "PWR_IDLE", done)

\* REF_RUN: the refresh itself
RunRefresh(m, r) ==
  LET done == curTick + tRFC
      due == m.rank[r].refreshDueAt
      ok1 == Check(m, m.rank[r].numBanksActive = 0, "refresh with an open bank")
      ok2 == Check(ok1, m.rank[r].pwrState = "PWR_REF", "refresh in another power state")
      ok3 == Check(ok2, done <= due + tREFI /\ ~scheduled(m.evq, refreshEvent(r)),
                   "refresh too late")
      next == [ok3 EXCEPT !.rank[r].banks = [b \in Banks |-> [@[b] EXCEPT !.actAt = done]],
                         !.evq = schedule(@, refreshEvent(r), due + tREFI - tRP)]
  IN  schedulePowerEvent(next, r, "PWR_IDLE", done)

\* REF_PRE as a whole
PrepareRefresh(m, r) ==
  LET go == IF m.rank[r].pwrState # "PWR_IDLE" THEN PrechargeAll(m, r)
            ELSE schedulePowerEvent(m, r, "PWR_REF", curTick)
  IN  Check([go EXCEPT !.rank[r].refreshState = "REF_RUN"],
            go.rank[r].numBanksActive = 0, "refresh with an open bank")

MutMustDrain(r) == FALSE

\* A request to this rank is under way: let it go ahead.
MustDrain(r) == r = activeRank /\ scheduled(Tail(evq), nextReqEvent)

processRefreshEvent(r) ==
  /\ Due(refreshEvent(r))
  /\ LET state == rank[r].refreshState
         due == IF state = "REF_IDLE"
                THEN [Popped EXCEPT !.rank[r].refreshDueAt = curTick,
                                    !.rank[r].refreshState = "REF_DRAIN"]
                ELSE Popped
     IN  Handled(CASE state = "REF_RUN" -> RunRefresh(Popped, r)
                   [] state \in {"REF_IDLE", "REF_DRAIN"} /\ MustDrain(r) -> due
                   [] OTHER -> PrepareRefresh(due, r))

processPowerEvent(r) ==
  /\ Due(powerEvent(r))
  /\ LET prev == rank[r].pwrState
         trans == rank[r].pwrStateTrans
         refresh == rank[r].refreshState
         moved == [Popped EXCEPT !.rank[r].pwrState = trans]
         refreshed == [moved EXCEPT
           !.rank[r].refreshState = "REF_IDLE",
           !.evq = IF scheduled(@, nextReqEvent) THEN @ ELSE schedule(@, nextReqEvent, curTick)]
         closed == Check(moved, prev = "PWR_ACT", "idle twice")
     IN  Handled(
           CASE trans = "PWR_IDLE" /\ prev = "PWR_REF" -> refreshed
             [] trans = "PWR_IDLE" /\ prev # "PWR_REF" /\ refresh = "REF_RUN" ->
                  RunRefresh([closed EXCEPT !.rank[r].pwrState = "PWR_REF"], r)
             [] trans = "PWR_IDLE" /\ prev # "PWR_REF" /\ refresh # "REF_RUN" -> closed
             [] trans = "PWR_REF" ->
                  RunRefresh(Check(moved, refresh = "REF_RUN", "refresh not asked for"), r)
             [] trans = "PWR_ACT" -> moved)

Next ==
  /\ \/ \E t \in 0 .. curTick : RequestArrives(t)
     \/ NextReqIdle
     \/ NextReqTurns
     \/ \E r \in Ranks :
          \/ \E b \in Banks : NextReqServe(r, b)
          \/ processActivateEvent(r)
          \/ processPrechargeEvent(r)
          \/ processRefreshEvent(r)
          \/ processPowerEvent(r)
  /\ UNCHANGED config

Spec == Init /\ [][Next]_vars

-----------------------------------------------------------------------------
\* numBanksActive counts the open banks, and the power state follows them: a rank that
\* is idle has an open bank only while the event that makes it active is still to come.
PowerFollowsBanks ==
  \A r \in Ranks :
    /\ rank[r].numBanksActive = Cardinality({b \in Banks : rank[r].banks[b].open})
    /\ rank[r].numBanksActive > 0 /\ rank[r].pwrState # "PWR_ACT" =>
         \/ scheduled(evq, activateEvent(r))
         \/ scheduled(evq, powerEvent(r)) /\ rank[r].pwrStateTrans = "PWR_ACT"

\* No activate takes place while the rank refreshes.
NoActivateInRefresh ==
  \A r \in Ranks : rank[r].pwrState = "PWR_REF" /\ scheduled(evq, activateEvent(r)) =>
    when(evq, activateEvent(r)) >= when(evq, powerEvent(r))

\* A refresh is done before the next one begins, so that none is lost: more than the
\* fatal() of processRefreshEvent asks for, by the tRP of the precharge.
RefreshInTime ==
  \A r \in Ranks : rank[r].pwrState = "PWR_REF" =>
    when(evq, powerEvent(r)) <= when(evq, refreshEvent(r))

\* A refresh that began always has an event that carries it on.
RefreshGoesOn ==
  \A r \in Ranks :
    CASE rank[r].refreshState \in {"REF_IDLE", "REF_PRE"} -> scheduled(evq, refreshEvent(r))
      [] rank[r].refreshState = "REF_DRAIN" -> scheduled(evq, nextReqEvent)
      [] rank[r].refreshState = "REF_RUN" ->
           scheduled(evq, prechargeEvent(r)) \/ scheduled(evq, powerEvent(r))

\* The commands that open a row of a rank keep tRRD between banks, and no more than
\* activationLimit of them fall into tXAW: the panic of activateBank, asked of aapBank
\* too, which has no such check.  As in the code, an activate-activate-precharge counts
\* as one.
ActivatesSpaced == "tXAW" \notin failed /\ "tRRD" \notin failed

\* None of the other asserts, panics and fatals of the bank commands and of the refresh
\* and power events is reached: banks are opened when closed and closed when open, and
\* counted within bounds (activateBank, aapBank, prechargeBank); schedulePowerEvent never
\* finds a transition pending; a rank becomes idle only from the active or the refresh
\* state, and enters the refresh state only when the refresh waits for it
\* (processPowerEvent); a refresh begins in that state with every bank precharged,
\* although REF_PRE looks at the power state only, and is done before the next one is due.
\* Every access, a row operation too, leaves the bus busy for longer than the one before:
\* so responses are ready in the order of respQueue, and nextReqTime never wraps.
PanicsUnreachable == failed \subseteq {"tXAW", "tRRD"}

\* When the controller is drained, at the end of a tick, a switch to atomic mode calls
\* Rank::suspend(), and deschedule() asserts that the refresh event is scheduled.
SuspendFindsRefresh ==
  ~scheduled(evq, nextReqEvent) /\ busBusyUntil <= 0 /\ Head(evq).when > 0 =>
    \A r \in Ranks : scheduled(evq, refreshEvent(r))
=============================================================================
