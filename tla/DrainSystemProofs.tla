-------------------------- MODULE DrainSystemProofs --------------------------
(***************************************************************************)
(* Proofs of the safety properties of DrainSystem, for any number of       *)
(* packets and any latencies.                                              *)
(*                                                                         *)
(* A queue that is sending has neither its event nor the first packet; the *)
(* peer may queue packets then.  Semi is what holds of a queue at all      *)
(* times, Armed what holds between two events.  PendCore says that the     *)
(* pending count of the DMA port is the number of its packets in flight,   *)
(* each of which is in one place, and ManOK is the manager's view of the   *)
(* objects B that are busy.  SortInv is what keeps packets in order.       *)
(***************************************************************************)
EXTENDS DrainSystem, TLAPS, FiniteSetTheorems

Packets == DmaPackets \cup CpuPackets \cup SnoopPackets

Entry == [tick : 0 .. MaxLatency, pkt : Packets]

QueueType ==
    [transmitList : Seq(Entry), sendEvent : 0 .. MaxTick, waitingOnRetry : BOOLEAN]

Pkts(q) == {q.transmitList[i].pkt : i \in DOMAIN q.transmitList}

Once(q) ==
    \A i, j \in DOMAIN q.transmitList :
        q.transmitList[i].pkt = q.transmitList[j].pkt => i = j

OnTime(q) ==
    /\ q.transmitList[1].tick <= q.sendEvent
    /\ q.sendEvent <= Later(q.transmitList[1].tick, 1)

Semi(q) ==
    IF q.transmitList = <<>> THEN ~q.waitingOnRetry /\ q.sendEvent = NotScheduled
    ELSE IF q.waitingOnRetry
    THEN q.sendEvent = NotScheduled /\ q.transmitList[1].tick = 0
    ELSE q.sendEvent = NotScheduled \/ OnTime(q)

Armed(q) ==
    Semi(q) /\ (q.transmitList # <<>> /\ ~q.waitingOnRetry => OnTime(q))

-----------------------------------------------------------------------------
(* InsertAt puts e at position i and moves the rest up by one. *)
LEMMA InsertFacts ==
    ASSUME NEW S, NEW list \in Seq(S), NEW e \in S, NEW i \in 1 .. Len(list) + 1
    PROVE  /\ InsertAt(list, i, e) \in Seq(S)
           /\ Len(InsertAt(list, i, e)) = Len(list) + 1
           /\ InsertAt(list, i, e)[i] = e
           /\ \A j \in 1 .. i - 1 : InsertAt(list, i, e)[j] = list[j]
           /\ \A j \in i + 1 .. Len(list) + 1 : InsertAt(list, i, e)[j] = list[j - 1]
<1> DEFINE a == SubSeq(list, 1, i - 1)
           b == SubSeq(list, i, Len(list))
<1>1. /\ a \in Seq(S) /\ Len(a) = i - 1
      /\ \A j \in 1 .. i - 1 : a[j] = list[j]
  OBVIOUS
<1>2. /\ b \in Seq(S) /\ Len(b) = Len(list) - i + 1
      /\ \A j \in 1 .. Len(list) - i + 1 : b[j] = list[i + j - 1]
  OBVIOUS
<1> HIDE DEF a, b
<1>3. InsertAt(list, i, e) = a \o <<e>> \o b
  BY Zenon DEF InsertAt, a, b
<1> DEFINE c == a \o <<e>>
<1>4. /\ c \in Seq(S) /\ Len(c) = i
      /\ c[i] = e /\ \A j \in 1 .. i - 1 : c[j] = list[j]
  BY <1>1
<1> HIDE DEF c
<1>5. InsertAt(list, i, e) = c \o b
  BY <1>3, Zenon DEF c
<1>6. /\ c \o b \in Seq(S) /\ Len(c \o b) = Len(list) + 1
      /\ \A j \in 1 .. i : (c \o b)[j] = c[j]
      /\ \A j \in i + 1 .. Len(list) + 1 : (c \o b)[j] = b[j - i]
  BY <1>2, <1>4
<1>7. \A j \in i + 1 .. Len(list) + 1 : b[j - i] = list[j - 1]
  BY <1>2
<1> QED BY <1>4, <1>5, <1>6, <1>7

(* A packet gets a position on the list, the first one only before a later *)
(* packet.                                                                 *)
LEMMA PositionFacts ==
    ASSUME NEW list \in Seq(Entry), NEW when \in Nat
    PROVE  /\ Position(list, when) \in 1 .. Len(list) + 1
           /\ Position(list, when) = 1 /\ list # <<>> => when < list[1].tick
<1> DEFINE s == {i \in DOMAIN list : list[i].tick <= when}
<1>1. IsFiniteSet(1 .. Len(list)) /\ Cardinality(1 .. Len(list)) = Len(list)
  <2>1. Len(list) \in Nat /\ Len(list) \in Int /\ 1 \in Int
    OBVIOUS
  <2> QED BY <2>1, FS_Interval
<1>2. IsFiniteSet(s) /\ Cardinality(s) <= Len(list)
  BY <1>1, FS_Subset
<1>3. Cardinality(s) \in Nat /\ (Cardinality(s) = 0 <=> s = {})
  BY <1>2, FS_CardinalityType, FS_EmptySet, Zenon
<1>4. ASSUME list # <<>>, s = {} PROVE when < list[1].tick
  <2>1. 1 \in DOMAIN list /\ list[1] \in Entry
    BY <1>4
  <2>2. ~(list[1].tick <= when)
    BY <1>4, <2>1, Zenon
  <2> QED BY <2>1, <2>2, LatencyAssumption DEF Entry
<1>5. Position(list, when) = Cardinality(s) + 1
  BY Zenon DEF Position
<1> HIDE DEF s
<1> QED BY <1>2, <1>3, <1>4, <1>5

(* schedSendEvent only touches the event. *)
LEMMA EventFacts ==
    ASSUME NEW q \in QueueType, NEW w \in 0 .. MaxLatency
    PROVE  LET r == schedSendEvent(q, w)
           IN /\ r \in QueueType
              /\ r.transmitList = q.transmitList
              /\ r.waitingOnRetry = q.waitingOnRetry
              /\ r.sendEvent = IF ~q.waitingOnRetry /\ Later(w, 1) < q.sendEvent
                               THEN Later(w, 1) ELSE q.sendEvent
<1>1. w # MaxTick /\ Later(w, 1) \in 0 .. MaxTick
  BY MaxTickAssumption, LatencyAssumption DEF Later
<1> QED BY <1>1, Zenon DEF schedSendEvent, QueueType

(* The tick a packet is queued for, and the position it gets *)
When(q, t, f) == IF f THEN ForcedTick(q.transmitList, t) ELSE t

Place(q, t, f) == Position(q.transmitList, When(q, t, f))

(* schedSendTiming puts the packet p at its place, moves the later ones up *)
(* by one, and moves the event only if p is now the first.                 *)
LEMMA Inserted ==
    ASSUME NEW q \in QueueType, NEW p \in Packets, NEW t \in 0 .. MaxLatency,
           NEW f \in BOOLEAN
    PROVE  /\ q.transmitList \in Seq(Entry) /\ Len(q.transmitList) \in Nat
           /\ When(q, t, f) \in 0 .. MaxLatency
           /\ Place(q, t, f) \in 1 .. Len(q.transmitList) + 1
           /\ Place(q, t, f) = 1 /\ q.transmitList # <<>> =>
                 When(q, t, f) < q.transmitList[1].tick
           /\ schedSendTiming(q, p, t, f) \in QueueType
           /\ schedSendTiming(q, p, t, f).transmitList \in Seq(Entry)
           /\ Len(schedSendTiming(q, p, t, f).transmitList) = Len(q.transmitList) + 1
           /\ schedSendTiming(q, p, t, f).transmitList[Place(q, t, f)].tick = When(q, t, f)
           /\ schedSendTiming(q, p, t, f).transmitList[Place(q, t, f)].pkt = p
           /\ \A j \in 1 .. Place(q, t, f) - 1 :
                 schedSendTiming(q, p, t, f).transmitList[j] = q.transmitList[j]
           /\ \A j \in Place(q, t, f) + 1 .. Len(q.transmitList) + 1 :
                 schedSendTiming(q, p, t, f).transmitList[j] = q.transmitList[j - 1]
           /\ schedSendTiming(q, p, t, f).waitingOnRetry = q.waitingOnRetry
           /\ schedSendTiming(q, p, t, f).sendEvent =
                 IF /\ Place(q, t, f) = 1 /\ ~q.waitingOnRetry
                    /\ Later(When(q, t, f), 1) < q.sendEvent
                 THEN Later(When(q, t, f), 1) ELSE q.sendEvent
<1> DEFINE list == q.transmitList
           w    == When(q, t, f)
           i    == Place(q, t, f)
           e    == [tick |-> w, pkt |-> p]
           new  == InsertAt(list, i, e)
           mid  == [q EXCEPT !.transmitList = new]
           r    == schedSendTiming(q, p, t, f)
<1>1. list \in Seq(Entry) /\ Len(list) \in Nat
  BY DEF QueueType
<1>2. w \in 0 .. MaxLatency
  <2>1. list # <<>> => Len(list) \in DOMAIN list /\ list[Len(list)] \in Entry
    BY <1>1
  <2>2. list # <<>> => Last(list).tick \in 0 .. MaxLatency
    BY <2>1, Zenon DEF Last, Entry
  <2> QED BY <2>2, LatencyAssumption, Zenon DEF When, ForcedTick, Later
<1>3. i \in 1 .. Len(list) + 1 /\ (i = 1 /\ list # <<>> => w < list[1].tick)
  <2>1. w \in Nat
    BY <1>2, LatencyAssumption
  <2> QED BY <1>1, <2>1, PositionFacts, Zenon DEF Place
<1>4. e \in Entry /\ e.tick = w /\ e.pkt = p
  BY <1>2, Zenon DEF Entry
<1>5. r = IF i = 1 THEN schedSendEvent(mid, w) ELSE mid
  BY Zenon DEF schedSendTiming, When, Place
<1> HIDE DEF w, i, e, r
<1>6. /\ new \in Seq(Entry) /\ Len(new) = Len(list) + 1
      /\ new[i] = e
      /\ \A j \in 1 .. i - 1 : new[j] = list[j]
      /\ \A j \in i + 1 .. Len(list) + 1 : new[j] = list[j - 1]
  <2>1. list \in Seq(Entry) /\ e \in Entry /\ i \in 1 .. Len(list) + 1
    BY <1>1, <1>3, <1>4, Zenon
  <2> HIDE DEF list
  <2> QED BY <2>1, InsertFacts
<1> HIDE DEF new
<1>7. /\ mid \in QueueType /\ mid.transmitList = new
      /\ mid.sendEvent = q.sendEvent /\ mid.waitingOnRetry = q.waitingOnRetry
  BY <1>6, Zenon DEF QueueType
<1> HIDE DEF mid
<1>8. /\ r \in QueueType /\ r.transmitList = new
      /\ r.waitingOnRetry = q.waitingOnRetry
      /\ r.sendEvent = IF i = 1 /\ ~q.waitingOnRetry /\ Later(w, 1) < q.sendEvent
                       THEN Later(w, 1) ELSE q.sendEvent
  BY <1>2, <1>5, <1>7, EventFacts, Zenon
<1>9. new[i].tick = w /\ new[i].pkt = p
  BY <1>4, <1>6, Zenon
<1> QED BY <1>1, <1>2, <1>3, <1>6, <1>8, <1>9, Zenon DEF w, i, r

(* Queueing a packet that is not on the list adds it, once, and leaves the *)
(* queue as armed as it was.                                               *)
LEMMA SchedFacts ==
    ASSUME NEW q \in QueueType, Once(q), NEW p \in Packets, p \notin Pkts(q),
           NEW t \in 0 .. MaxLatency, NEW f \in BOOLEAN
    PROVE  LET r == schedSendTiming(q, p, t, f)
           IN /\ r \in QueueType /\ Once(r)
              /\ Pkts(r) = Pkts(q) \cup {p}
              /\ r.transmitList # <<>>
              /\ r.waitingOnRetry = q.waitingOnRetry
              /\ Semi(q) => Semi(r)
              /\ Armed(q) => Armed(r)
<1> DEFINE list == q.transmitList
           w    == When(q, t, f)
           i    == Place(q, t, f)
           r    == schedSendTiming(q, p, t, f)
           new  == r.transmitList
<1>1. list \in Seq(Entry) /\ Len(list) \in Nat
  BY Inserted
<1>2. w \in 0 .. MaxLatency
  BY Inserted, Zenon
<1>3. i \in 1 .. Len(list) + 1 /\ (i = 1 /\ list # <<>> => w < list[1].tick)
  BY Inserted
<1>4. new[i].tick = w /\ new[i].pkt = p
  <2>1. new[i].tick = w
    BY Inserted, SMTT(30)
  <2>2. new[i].pkt = p
    BY Inserted
  <2> QED BY <2>1, <2>2, Zenon
<1>6. /\ new \in Seq(Entry) /\ Len(new) = Len(list) + 1
      /\ \A j \in 1 .. i - 1 : new[j] = list[j]
      /\ \A j \in i + 1 .. Len(list) + 1 : new[j] = list[j - 1]
  BY Inserted
<1>8. /\ r \in QueueType /\ r.transmitList = new
      /\ r.waitingOnRetry = q.waitingOnRetry
      /\ r.sendEvent = IF i = 1 /\ ~q.waitingOnRetry /\ Later(w, 1) < q.sendEvent
                       THEN Later(w, 1) ELSE q.sendEvent
  BY Inserted
<1> HIDE DEF w, i, r, new
<1>9. /\ DOMAIN new = 1 .. Len(list) + 1 /\ DOMAIN list = 1 .. Len(list)
      /\ new # <<>>
  BY <1>1, <1>6
<1>10. \A j \in DOMAIN new : j # i =>
          new[j] = list[IF j < i THEN j ELSE j - 1]
          /\ (IF j < i THEN j ELSE j - 1) \in DOMAIN list
  BY <1>3, <1>6, <1>9
<1>11. Once(r)
  <2>2. \A j \in DOMAIN list : list[j].pkt # p
    BY Zenon DEF Pkts
  <2>3. \A j, k \in DOMAIN list : list[j].pkt = list[k].pkt => j = k
    BY Zenon DEF Once
  <2>4. SUFFICES ASSUME NEW j \in DOMAIN new, NEW k \in DOMAIN new,
                        new[j].pkt = new[k].pkt
                 PROVE  j = k
    BY <1>8, Zenon DEF Once
  <2>5. CASE j = i \/ k = i
    BY <1>10, <2>2, <2>4, <2>5, <1>4, <1>6
  <2>6. CASE j # i /\ k # i
    <3>1. (IF j < i THEN j ELSE j - 1) = (IF k < i THEN k ELSE k - 1)
      BY <1>10, <2>3, <2>4, <2>6
    <3>2. j \in Int /\ k \in Int /\ i \in Int
      BY <1>3, <1>9, <1>1
    <3> QED BY <3>1, <3>2, <2>6
  <2> QED BY <2>5, <2>6, Zenon
<1>12. Pkts(r) = Pkts(q) \cup {p}
  <2>1. ASSUME NEW x \in Pkts(r) PROVE x \in Pkts(q) \cup {p}
    <3>1. PICK j \in DOMAIN new : x = new[j].pkt
      BY <1>8, Zenon DEF Pkts
    <3>2. CASE j = i
      BY <3>1, <3>2, <1>4, <1>6
    <3>3. CASE j # i
      <4>1. PICK k \in DOMAIN list : new[j] = list[k]
        BY <3>3, <1>10
      <4> QED BY <3>1, <4>1 DEF Pkts
    <3> QED BY <3>2, <3>3
  <2>2. ASSUME NEW x \in Pkts(q) PROVE x \in Pkts(r)
    <3>1. PICK k \in DOMAIN list : x = list[k].pkt
      BY Zenon DEF Pkts
    <3>2. PICK j \in DOMAIN new : new[j] = list[k]
      <4>1. CASE k < i
        BY <4>1, <1>1, <1>3, <1>6, <1>9
      <4>2. CASE ~(k < i)
        <5>1. k + 1 \in i + 1 .. Len(list) + 1 /\ (k + 1) - 1 = k
          BY <4>2, <1>1, <1>3, <1>9
        <5>2. new[k + 1] = list[k] /\ k + 1 \in DOMAIN new
          BY <5>1, <1>1, <1>3, <1>6, <1>9, SMTT(30)
        <5> QED BY <5>2, Zenon
      <4> QED BY <4>1, <4>2, Zenon
    <3> QED BY <3>1, <3>2, <1>8 DEF Pkts
  <2>3. p \in Pkts(r)
    BY <1>3, <1>4, <1>6, <1>8, <1>9, Zenon DEF Pkts
  <2> QED BY <2>1, <2>2, <2>3, Zenon
<1>13. /\ i = 1 => new[1].tick = w
       /\ i # 1 => list # <<>> /\ new[1] = list[1]
  <2>1. ASSUME i = 1 PROVE new[1].tick = w
    BY <2>1, <1>4, <1>6
  <2>2. ASSUME i # 1 PROVE list # <<>> /\ new[1] = list[1]
    <3>1. 1 \in 1 .. i - 1 /\ Len(list) # 0
      BY <2>2, <1>1, <1>3
    <3> QED BY <3>1, <1>1, <1>6
  <2> QED BY <2>1, <2>2, Zenon
<1>14. q.sendEvent \in 0 .. MaxTick /\ q.waitingOnRetry \in BOOLEAN
  BY Zenon DEF QueueType
<1>15. list # <<>> => list[1].tick \in 0 .. MaxLatency
  <2>1. list # <<>> => list[1] \in Entry
    BY <1>1
  <2> QED BY <2>1, Zenon DEF Entry
<1>16. Semi(q) => Semi(r)
  BY <1>2, <1>3, <1>8, <1>9, <1>13, <1>14, <1>15, MaxTickAssumption, LatencyAssumption
     DEF Semi, OnTime, Later, NotScheduled
<1>17. Armed(q) => Armed(r)
  BY <1>2, <1>3, <1>8, <1>9, <1>13, <1>14, <1>15, <1>16, MaxTickAssumption, LatencyAssumption
     DEF Armed, Semi, OnTime, Later, NotScheduled
<1> QED BY <1>8, <1>9, <1>11, <1>12, <1>16, <1>17, Zenon DEF r, new

-----------------------------------------------------------------------------
(* A queue that may send has a packet, and it is ready. *)
LEMMA ReadyFacts ==
    ASSUME NEW q \in QueueType, Armed(q), MaySend(q)
    PROVE  q.transmitList # <<>> /\ q.transmitList[1].tick = 0
<1>1. q.transmitList # <<>>
  BY MaxTickAssumption, Zenon DEF Armed, Semi, MaySend, NotScheduled
<1>2. q.transmitList[1].tick \in Nat
  <2>1. q.transmitList[1] \in Entry
    BY <1>1 DEF QueueType
  <2> QED BY <2>1, LatencyAssumption DEF Entry
<1> QED BY <1>1, <1>2, MaxTickAssumption DEF Armed, Semi, MaySend, NotScheduled, OnTime

(* The first packet is off the list while it is offered to the peer. *)
LEMMA OfferedFacts ==
    ASSUME NEW q \in QueueType, Once(q), q.transmitList # <<>>
    PROVE  LET r == Offered(q)
           IN /\ r \in QueueType /\ Once(r) /\ Semi(r) /\ r.waitingOnRetry = FALSE
              /\ Head(q.transmitList) = q.transmitList[1]
              /\ q.transmitList[1].pkt \in Pkts(q)
              /\ Pkts(r) = Pkts(q) \ {q.transmitList[1].pkt}
<1> DEFINE list == q.transmitList
           tail == Tail(list)
           r    == Offered(q)
<1>1. list \in Seq(Entry) /\ list # <<>> /\ Len(list) \in Nat /\ DOMAIN list = 1 .. Len(list)
  BY DEF QueueType
<1>2. /\ tail \in Seq(Entry) /\ DOMAIN tail = 1 .. Len(list) - 1 /\ 1 \in DOMAIN list
      /\ \A i \in 1 .. Len(list) - 1 : tail[i] = list[i + 1]
  BY <1>1
<1>3. Head(list) = list[1]
  BY <1>1
<1> HIDE DEF tail
<1>4. /\ r \in QueueType /\ r.transmitList = tail
      /\ r.sendEvent = NotScheduled /\ r.waitingOnRetry = FALSE
  <2>1. MaxTick \in 0 .. MaxTick
    BY MaxTickAssumption
  <2>2. r \in QueueType
    BY <2>1, <1>2, Zenon DEF Offered, QueueType, NotScheduled, tail
  <2>3. r.transmitList = tail
    BY Zenon DEF Offered, QueueType, tail
  <2>4. r.sendEvent = NotScheduled
    BY Zenon DEF Offered, QueueType
  <2>5. r.waitingOnRetry = FALSE
    BY Zenon DEF Offered, QueueType
  <2> QED BY <2>2, <2>3, <2>4, <2>5, Zenon
<1> HIDE DEF r
<1>5. \A i, j \in DOMAIN list : list[i].pkt = list[j].pkt => i = j
  BY Zenon DEF Once
<1>6. Once(r)
  <2>1. \A i \in DOMAIN tail : i + 1 \in DOMAIN list /\ tail[i] = list[i + 1] /\ i \in Int
    BY <1>1, <1>2
  <2> QED BY <2>1, <1>4, <1>5 DEF Once
<1>7. Pkts(r) = Pkts(q) \ {list[1].pkt}
  <2>1. ASSUME NEW x \in Pkts(r) PROVE x \in Pkts(q) /\ x # list[1].pkt
    <3>1. PICK i \in DOMAIN tail : x = tail[i].pkt
      BY <1>4, Zenon DEF Pkts
    <3>2. i + 1 \in DOMAIN list /\ x = list[i + 1].pkt /\ i + 1 # 1
      BY <3>1, <1>1, <1>2
    <3>3. x \in Pkts(q)
      BY <3>2, Zenon DEF Pkts
    <3> QED BY <3>2, <3>3, <1>2, <1>5, Zenon
  <2>2. ASSUME NEW x \in Pkts(q), x # list[1].pkt PROVE x \in Pkts(r)
    <3>1. PICK i \in DOMAIN list : x = list[i].pkt
      BY Zenon DEF Pkts
    <3>2. i # 1 /\ i - 1 \in DOMAIN tail /\ (i - 1) + 1 = i
      BY <3>1, <2>2, <1>1, <1>2
    <3>3. tail[i - 1] = list[i]
      BY <3>2, <1>1, <1>2, Zenon
    <3> QED BY <3>1, <3>2, <3>3, <1>4, Zenon DEF Pkts
  <2> QED BY <2>1, <2>2, Zenon
<1>8. list[1].pkt \in Pkts(q)
  BY <1>2, Zenon DEF Pkts
<1>9. Semi(r)
  BY <1>4, Zenon DEF Semi
<1> QED BY <1>3, <1>4, <1>6, <1>7, <1>8, <1>9, Zenon DEF r

(* After the peer has accepted a packet the queue is armed again. *)
LEMMA AcceptedFacts ==
    ASSUME NEW r \in QueueType, Once(r), Semi(r), r.waitingOnRetry = FALSE
    PROVE  LET a == Accepted(r)
           IN /\ a \in QueueType /\ Once(a) /\ Armed(a)
              /\ a.transmitList = r.transmitList /\ Pkts(a) = Pkts(r)
<1> DEFINE a == Accepted(r)
<1>1. CASE r.transmitList = <<>>
  <2>1. a = r
    BY <1>1, Zenon DEF Accepted, deferredPacketReadyTime, schedSendEvent
  <2> QED BY <2>1, <1>1 DEF Armed
<1>2. CASE r.transmitList # <<>>
  <2> DEFINE w == r.transmitList[1].tick
  <2>1. w \in 0 .. MaxLatency /\ Head(r.transmitList) = r.transmitList[1]
    <3>1. r.transmitList[1] \in Entry /\ Head(r.transmitList) = r.transmitList[1]
      BY <1>2 DEF QueueType
    <3> QED BY <3>1, Zenon DEF Entry
  <2>2. a = schedSendEvent(r, w)
    BY <2>1, <1>2, Zenon DEF Accepted, deferredPacketReadyTime
  <2> HIDE DEF a
  <2>3. /\ a \in QueueType /\ a.transmitList = r.transmitList
        /\ a.waitingOnRetry = FALSE
        /\ a.sendEvent = IF Later(w, 1) < r.sendEvent THEN Later(w, 1) ELSE r.sendEvent
    BY <2>1, <2>2, EventFacts
  <2>4. Once(a) /\ Pkts(a) = Pkts(r)
    BY <2>3 DEF Once, Pkts
  <2>5. r.sendEvent \in Nat
    BY MaxTickAssumption DEF QueueType
  <2>6. OnTime(a)
    BY <2>1, <2>3, <2>5, <1>2, MaxTickAssumption, LatencyAssumption
       DEF Semi, OnTime, Later, NotScheduled
  <2>7. Armed(a)
    BY <2>3, <2>6, <1>2, Zenon DEF Armed, Semi
  <2> QED BY <2>3, <2>4, <2>7 DEF a
<1> QED BY <1>1, <1>2, Zenon

(* A refused packet is put back. *)
LEMMA RefusedFacts ==
    ASSUME NEW q \in QueueType, Once(q), Armed(q), MaySend(q)
    PROVE  LET r == Refused(q)
           IN /\ r \in QueueType /\ Once(r) /\ Armed(r)
              /\ r.transmitList = q.transmitList /\ Pkts(r) = Pkts(q)
<1> DEFINE r == Refused(q)
<1>1. /\ r \in QueueType /\ r.transmitList = q.transmitList
      /\ r.sendEvent = NotScheduled /\ r.waitingOnRetry = TRUE
  <2>1. MaxTick \in 0 .. MaxTick
    BY MaxTickAssumption
  <2>2. r \in QueueType
    BY <2>1, Zenon DEF Refused, QueueType, NotScheduled
  <2>3. r.transmitList = q.transmitList
    BY Zenon DEF Refused, QueueType
  <2>4. r.sendEvent = NotScheduled
    BY Zenon DEF Refused, QueueType
  <2>5. r.waitingOnRetry = TRUE
    BY Zenon DEF Refused, QueueType
  <2> QED BY <2>2, <2>3, <2>4, <2>5, Zenon
<1>2. Once(r) /\ Pkts(r) = Pkts(q)
  BY <1>1 DEF Once, Pkts
<1> HIDE DEF r
<1>3. Armed(r)
  BY <1>1, ReadyFacts, Zenon DEF Armed, Semi
<1> QED BY <1>1, <1>2, <1>3, Zenon DEF r

(* Time passes, if the event is not due, for the event and the packets. *)
LEMMA OlderFacts ==
    ASSUME NEW q \in QueueType, Once(q), Armed(q), q.sendEvent # 0
    PROVE  LET r == Older(q)
           IN /\ r \in QueueType /\ Once(r) /\ Armed(r) /\ Pkts(r) = Pkts(q)
              /\ r.transmitList = <<>> <=> q.transmitList = <<>>
<1> DEFINE list == q.transmitList
           new  == [i \in DOMAIN list |-> [tick |-> Passes(list[i].tick), pkt |-> list[i].pkt]]
           e    == IF q.sendEvent = NotScheduled THEN q.sendEvent ELSE q.sendEvent - 1
           r    == Older(q)
<1>1. list \in Seq(Entry) /\ Len(list) \in Nat /\ DOMAIN list = 1 .. Len(list)
  BY DEF QueueType
<1>2. \A i \in DOMAIN list : list[i] \in Entry
  BY <1>1
<1>3. \A i \in DOMAIN list : /\ new[i] \in Entry
                             /\ new[i].pkt = list[i].pkt
                             /\ new[i].tick = Passes(list[i].tick)
  BY <1>2, LatencyAssumption DEF Entry, Passes
<1>4. new \in Seq(Entry) /\ DOMAIN new = DOMAIN list /\ (new = <<>> <=> list = <<>>)
  <2>1. new \in [1 .. Len(list) -> Entry]
    BY <1>1, <1>3, Zenon
  <2> HIDE DEF new
  <2>2. new \in Seq(Entry)
    BY <2>1, <1>1
  <2>3. DOMAIN new = DOMAIN list
    BY <2>1, <1>1, Zenon
  <2> QED BY <2>2, <2>3, <1>1
<1>5. q.sendEvent \in 1 .. MaxTick /\ q.waitingOnRetry \in BOOLEAN
  BY MaxTickAssumption DEF QueueType
<1>6. e \in 0 .. MaxTick
  BY <1>5, MaxTickAssumption
<1>7. /\ r \in QueueType /\ r.transmitList = new
      /\ r.waitingOnRetry = q.waitingOnRetry
      /\ r.sendEvent = e
  <2>1. r = [q EXCEPT !.transmitList = new, !.sendEvent = e]
    BY Zenon DEF Older
  <2> HIDE DEF r, new, e
  <2>2. r \in QueueType
    BY <2>1, <1>4, <1>6, Zenon DEF QueueType
  <2>3. r.transmitList = new
    BY <2>1, Zenon DEF QueueType
  <2>4. r.sendEvent = e
    BY <2>1, Zenon DEF QueueType
  <2>5. r.waitingOnRetry = q.waitingOnRetry
    BY <2>1, Zenon DEF QueueType
  <2> QED BY <2>2, <2>3, <2>4, <2>5
<1> HIDE DEF new, r
<1>8. Once(r)
  BY <1>3, <1>4, <1>7 DEF Once
<1>9. Pkts(r) = Pkts(q)
  BY <1>3, <1>4, <1>7 DEF Pkts
<1>10. list # <<>> => 1 \in DOMAIN list /\ list[1].tick \in Nat
                      /\ new[1].tick = Passes(list[1].tick)
  BY <1>1, <1>2, <1>3, LatencyAssumption DEF Entry
<1>11. list # <<>> => list[1].tick < MaxTick
  BY <1>1, <1>2, LatencyAssumption, MaxTickAssumption DEF Entry
<1>12. Armed(r)
  <2>1. /\ list # <<>> => list[1].tick \in Nat /\ list[1].tick < MaxTick
                         /\ new[1].tick = Passes(list[1].tick)
        /\ MaxTick \in Nat /\ q.sendEvent \in 1 .. MaxTick
    BY <1>5, <1>10, <1>11, MaxTickAssumption
  <2>2. CASE list = <<>>
    BY <1>4, <1>7, <2>2 DEF Armed, Semi, NotScheduled
  <2>3. CASE list # <<>> /\ q.waitingOnRetry
    BY <1>4, <1>7, <2>1, <2>3 DEF Armed, Semi, NotScheduled, Passes
  <2>4. CASE list # <<>> /\ ~q.waitingOnRetry
    <3>1. list[1].tick <= q.sendEvent /\ q.sendEvent <= Later(list[1].tick, 1)
      BY <2>4, Zenon DEF Armed, OnTime
    <3>2. new[1].tick <= e /\ e <= Later(new[1].tick, 1)
      BY <2>1, <2>4, <3>1 DEF Passes, Later, NotScheduled
    <3> QED BY <1>4, <1>7, <2>4, <3>2 DEF Armed, Semi, OnTime
  <2> QED BY <2>2, <2>3, <2>4
<1> QED BY <1>4, <1>7, <1>8, <1>9, <1>12 DEF r

-----------------------------------------------------------------------------
(* The DMA port *)

PortType ==
    [transmitList : Seq(DmaPackets), pendingCount : Nat, inRetry : BOOLEAN,
     sendEvent : 0 .. MaxTick]

Left(d) == {d.transmitList[i] : i \in DOMAIN d.transmitList}

InFlight(d, q) == Left(d) \cup (Pkts(q) \cap DmaPackets)

PendCore(d, q) ==
    /\ d \in PortType
    /\ \A i, j \in DOMAIN d.transmitList : d.transmitList[i] = d.transmitList[j] => i = j
    /\ Left(d) \cap Pkts(q) = {}
    /\ d.pendingCount = Cardinality(InFlight(d, q))

PortArmed(d) ==
    /\ (d.transmitList # <<>>) <=> ~Dma!CanSend(d)
    /\ ~(d.inRetry /\ d.sendEvent # NotScheduled)

(* The packets in flight are finitely many. *)
LEMMA InFlightFinite ==
    ASSUME NEW d, NEW q, d \in PortType
    PROVE  /\ IsFiniteSet(InFlight(d, q)) /\ Cardinality(InFlight(d, q)) \in Nat
           /\ Left(d) \subseteq DmaPackets
<1>1. Left(d) \subseteq DmaPackets
  <2>1. d.transmitList \in Seq(DmaPackets)
    BY Zenon DEF PortType
  <2> QED BY <2>1 DEF Left
<1>2. IsFiniteSet(InFlight(d, q))
  BY <1>1, PacketsAssumption, FS_Subset DEF InFlight
<1> QED BY <1>1, <1>2, FS_CardinalityType

(* The port sends its first packet and waits for a retry if it is refused. *)
LEMMA RefusedDma ==
    ASSUME NEW d, NEW q, PendCore(d, q), d.transmitList # <<>>,
           d.sendEvent = NotScheduled
    PROVE  LET r == Dma!trySendTimingReq(d, FALSE)
           IN PendCore(r, q) /\ PortArmed(r) /\ r.pendingCount = d.pendingCount
<1> DEFINE r == Dma!trySendTimingReq(d, FALSE)
<1>1. d \in PortType
  BY Zenon DEF PendCore
<1>2. r = [d EXCEPT !.inRetry = TRUE]
  BY Zenon DEF Dma!trySendTimingReq
<1> HIDE DEF r
<1>3. r \in PortType
  BY <1>1, <1>2, Zenon DEF PortType
<1>4. /\ r.transmitList = d.transmitList /\ r.sendEvent = d.sendEvent
      /\ r.pendingCount = d.pendingCount
  BY <1>1, <1>2 DEF PortType
<1>5. r.inRetry = TRUE
  BY <1>1, <1>2 DEF PortType
<1>6. PendCore(r, q)
  BY <1>3, <1>4 DEF PendCore, InFlight, Left
<1>7. PortArmed(r)
  BY <1>4, <1>5, Zenon DEF PortArmed, Dma!CanSend
<1> QED BY <1>4, <1>6, <1>7, Zenon DEF r

(* If it is accepted it moves to the response queue. *)
LEMMA AcceptedDma ==
    ASSUME NEW d, NEW q, NEW q2, PendCore(d, q), d.transmitList # <<>>,
           d.sendEvent = NotScheduled,
           Pkts(q2) = Pkts(q) \cup {Head(d.transmitList)}
    PROVE  LET r == Dma!trySendTimingReq(d, TRUE)
           IN PendCore(r, q2) /\ PortArmed(r) /\ r.pendingCount = d.pendingCount
<1> DEFINE r    == Dma!trySendTimingReq(d, TRUE)
           list == d.transmitList
           tail == Tail(list)
           e    == IF tail = <<>> THEN d.sendEvent ELSE Cycle
<1>1. d \in PortType /\ list \in Seq(DmaPackets) /\ Len(list) \in Nat
  BY DEF PendCore, PortType
<1>2. /\ tail \in Seq(DmaPackets) /\ DOMAIN tail = 1 .. Len(list) - 1
      /\ DOMAIN list = 1 .. Len(list) /\ Head(list) = list[1] /\ 1 \in DOMAIN list
      /\ \A i \in 1 .. Len(list) - 1 : tail[i] = list[i + 1]
  BY <1>1
<1>3. r = [d EXCEPT !.inRetry = FALSE, !.transmitList = tail, !.sendEvent = e]
  BY Zenon DEF Dma!trySendTimingReq
<1>4. e \in 0 .. MaxTick /\ (e = NotScheduled <=> tail = <<>>)
  BY LatencyAssumption, MaxTickAssumption DEF NotScheduled
<1> HIDE DEF r, tail, e
<1>5. r \in PortType
  BY <1>1, <1>2, <1>3, <1>4, Zenon DEF PortType
<1>6. r.transmitList = tail
  BY <1>1, <1>3, Zenon DEF PortType
<1>7. r.sendEvent = e
  BY <1>1, <1>3, Zenon DEF PortType
<1>8. r.inRetry = FALSE
  BY <1>1, <1>3 DEF PortType
<1>9. r.pendingCount = d.pendingCount
  BY <1>1, <1>3 DEF PortType
<1>10. \A i, j \in DOMAIN list : list[i] = list[j] => i = j
  BY Zenon DEF PendCore
<1>11. \A i \in DOMAIN tail : i + 1 \in DOMAIN list /\ tail[i] = list[i + 1] /\ i \in Int
  BY <1>1, <1>2
<1>12. \A i, j \in DOMAIN tail : tail[i] = tail[j] => i = j
  BY <1>10, <1>11
<1>13. Left(r) = Left(d) \ {list[1]} /\ list[1] \in Left(d)
  <2>1. ASSUME NEW x \in Left(r) PROVE x \in Left(d) /\ x # list[1]
    <3>1. PICK i \in DOMAIN tail : x = tail[i]
      BY <1>6, Zenon DEF Left
    <3>2. i + 1 \in DOMAIN list /\ x = list[i + 1] /\ i + 1 # 1
      BY <3>1, <1>1, <1>2
    <3>3. x \in Left(d)
      BY <3>2, Zenon DEF Left
    <3> QED BY <3>2, <3>3, <1>2, <1>10
  <2>2. ASSUME NEW x \in Left(d), x # list[1] PROVE x \in Left(r)
    <3>1. PICK i \in DOMAIN list : x = list[i]
      BY Zenon DEF Left
    <3>2. i # 1 /\ i - 1 \in DOMAIN tail /\ (i - 1) + 1 = i
      BY <3>1, <2>2, <1>1, <1>2
    <3>3. tail[i - 1] = list[i]
      BY <3>2, <1>1, <1>2, Zenon
    <3> QED BY <3>1, <3>2, <3>3, <1>6, Zenon DEF Left
  <2>3. list[1] \in Left(d)
    BY <1>2, Zenon DEF Left
  <2> QED BY <2>1, <2>2, <2>3, Zenon
<1>14. list[1] \in DmaPackets
  BY <1>1, <1>2
<1>15. InFlight(r, q2) = InFlight(d, q)
  BY <1>2, <1>13, <1>14 DEF InFlight
<1>16. Left(r) \cap Pkts(q2) = {}
  BY <1>2, <1>13, Zenon DEF PendCore
<1>17. PendCore(r, q2)
  BY <1>5, <1>6, <1>9, <1>12, <1>15, <1>16, Zenon DEF PendCore
<1>18. PortArmed(r)
  BY <1>4, <1>6, <1>7, <1>8 DEF PortArmed, Dma!CanSend
<1> QED BY <1>9, <1>17, <1>18, Zenon DEF r

(* queueDma adds packets that were not in flight. *)
LEMMA QueuedDma ==
    ASSUME NEW d, NEW q, PendCore(d, q),
           NEW ps \in Seq(DmaPackets), Len(ps) \in {1, 2},
           \A i \in DOMAIN ps : ps[i] \notin Left(d) /\ ps[i] \notin Pkts(q),
           Len(ps) = 2 => ps[1] # ps[2]
    PROVE  LET r == Dma!queueDma(d, ps)
           IN /\ PendCore(r, q) /\ r.transmitList # <<>>
              /\ r.sendEvent = d.sendEvent /\ r.inRetry = d.inRetry
              /\ r.pendingCount > 0
<1> DEFINE r    == Dma!queueDma(d, ps)
           list == d.transmitList
           new  == list \o ps
           n    == Len(ps)
<1>1. d \in PortType /\ list \in Seq(DmaPackets) /\ Len(list) \in Nat /\ n \in {1, 2}
  BY DEF PendCore, PortType
<1>2. /\ new \in Seq(DmaPackets) /\ DOMAIN new = 1 .. Len(list) + n
      /\ DOMAIN list = 1 .. Len(list) /\ DOMAIN ps = 1 .. n
      /\ \A i \in 1 .. Len(list) : new[i] = list[i]
      /\ \A i \in 1 .. n : new[Len(list) + i] = ps[i]
      /\ new # <<>>
  <2>1. /\ new \in Seq(DmaPackets) /\ Len(new) = Len(list) + n
        /\ \A i \in 1 .. Len(list) + n :
              new[i] = IF i <= Len(list) THEN list[i] ELSE ps[i - Len(list)]
    BY <1>1
  <2>2. /\ DOMAIN new = 1 .. Len(list) + n
        /\ DOMAIN list = 1 .. Len(list) /\ DOMAIN ps = 1 .. n
    BY <2>1, <1>1
  <2>3. \A i \in 1 .. Len(list) : new[i] = list[i]
    BY <2>1, <1>1
  <2>4. ASSUME NEW i \in 1 .. n PROVE new[Len(list) + i] = ps[i]
    <3>1. Len(list) + i \in 1 .. Len(list) + n /\ ~(Len(list) + i <= Len(list))
      BY <1>1
    <3>2. (Len(list) + i) - Len(list) = i
      BY <1>1
    <3> QED BY <3>1, <3>2, <2>1, Zenon
  <2>5. new # <<>>
    BY <2>1, <1>1
  <2> QED BY <2>1, <2>2, <2>3, <2>4, <2>5, Zenon
<1>3. r = [d EXCEPT !.transmitList = new, !.pendingCount = d.pendingCount + n]
  BY Zenon DEF Dma!queueDma
<1> HIDE DEF r, new, n
<1>4. r \in PortType
  <2>1. d.pendingCount + n \in Nat
    BY <1>1 DEF PortType
  <2> QED BY <2>1, <1>1, <1>2, <1>3, Zenon DEF PortType
<1>5. r.transmitList = new
  BY <1>1, <1>3, Zenon DEF PortType
<1>6. r.pendingCount = d.pendingCount + n /\ d.pendingCount \in Nat
  BY <1>1, <1>3, Zenon DEF PortType
<1>7. r.sendEvent = d.sendEvent /\ r.inRetry = d.inRetry
  BY <1>1, <1>3, Zenon DEF PortType
<1>8. \A i, j \in DOMAIN list : list[i] = list[j] => i = j
  BY Zenon DEF PendCore
<1>9. \A i \in DOMAIN ps, j \in DOMAIN list : ps[i] # list[j]
  BY Zenon DEF Left
<1>10. \A i, j \in DOMAIN ps : ps[i] = ps[j] => i = j
  BY <1>1, <1>2 DEF n
<1>11. \A i \in DOMAIN new : i \notin DOMAIN list =>
          i - Len(list) \in DOMAIN ps /\ new[i] = ps[i - Len(list)] /\ i \in Int
  <2>1. SUFFICES ASSUME NEW i \in DOMAIN new, i \notin DOMAIN list
                 PROVE  i - Len(list) \in DOMAIN ps /\ new[i] = ps[i - Len(list)] /\ i \in Int
    OBVIOUS
  <2>2. i - Len(list) \in 1 .. n /\ Len(list) + (i - Len(list)) = i
    BY <2>1, <1>1, <1>2
  <2>3. new[Len(list) + (i - Len(list))] = ps[i - Len(list)]
    BY <2>2, <1>2, Zenon
  <2> QED BY <2>1, <2>2, <2>3, <1>1, <1>2
<1>12. \A i \in DOMAIN list : i \in DOMAIN new /\ new[i] = list[i]
  BY <1>1, <1>2
<1>13. \A i, j \in DOMAIN new : new[i] = new[j] => i = j
  <2>1. SUFFICES ASSUME NEW i \in DOMAIN new, NEW j \in DOMAIN new, new[i] = new[j]
                 PROVE  i = j
    OBVIOUS
  <2>2. CASE i \in DOMAIN list /\ j \in DOMAIN list
    BY <2>1, <2>2, <1>8, <1>12
  <2>3. CASE ~(i \in DOMAIN list <=> j \in DOMAIN list)
    BY <2>1, <2>3, <1>9, <1>11, <1>12
  <2>4. CASE i \notin DOMAIN list /\ j \notin DOMAIN list
    <3>1. i - Len(list) = j - Len(list) /\ i \in Int /\ j \in Int
      BY <2>1, <2>4, <1>10, <1>11
    <3> QED BY <3>1, <1>1
  <2> QED BY <2>2, <2>3, <2>4, Zenon
<1> DEFINE P == {ps[i] : i \in DOMAIN ps}
<1>14. Left(r) = Left(d) \cup P
  <2>1. ASSUME NEW x \in Left(r) PROVE x \in Left(d) \cup P
    BY <1>5, <1>11, <1>12 DEF Left
  <2>2. ASSUME NEW x \in Left(d) PROVE x \in Left(r)
    BY <1>5, <1>12 DEF Left
  <2>3. ASSUME NEW i \in DOMAIN ps PROVE ps[i] \in Left(r)
    <3>1. Len(list) + i \in DOMAIN new /\ new[Len(list) + i] = ps[i]
      <4>1. i \in 1 .. n /\ Len(list) + i \in 1 .. Len(list) + n
        BY <1>1, <1>2
      <4> QED BY <1>2, <4>1, Zenon
    <3> QED BY <3>1, <1>5, Zenon DEF Left
  <2> QED BY <2>1, <2>2, <2>3
<1>15. Left(r) \cap Pkts(q) = {}
  BY <1>14, Zenon DEF PendCore
<1>16. InFlight(r, q) = InFlight(d, q) \cup P
  BY <1>14, Zenon DEF InFlight
<1>17. \A x \in P : x \notin InFlight(d, q)
  BY Zenon DEF InFlight
<1>18. IsFiniteSet(InFlight(d, q)) /\ Cardinality(InFlight(d, q)) \in Nat
  BY <1>1, InFlightFinite, Zenon
<1> HIDE DEF P
<1>19. Cardinality(InFlight(d, q) \cup P) = Cardinality(InFlight(d, q)) + n
  <2>1. CASE n = 1
    <3>1. P = {ps[1]} /\ ps[1] \notin InFlight(d, q)
      BY <2>1, <1>2, <1>17 DEF P
    <3> QED BY <2>1, <3>1, <1>18, FS_AddElement, Zenon
  <2>2. CASE n = 2
    <3>1. P = {ps[1], ps[2]} /\ ps[1] # ps[2]
      BY <2>2, <1>2 DEF P, n
    <3>2. ps[1] \notin InFlight(d, q) /\ ps[2] \notin InFlight(d, q) \cup {ps[1]}
      BY <3>1, <1>17, Zenon
    <3>3. /\ IsFiniteSet(InFlight(d, q) \cup {ps[1]})
          /\ Cardinality(InFlight(d, q) \cup {ps[1]}) = Cardinality(InFlight(d, q)) + 1
      BY <3>2, <1>18, FS_AddElement, Zenon
    <3>4. Cardinality((InFlight(d, q) \cup {ps[1]}) \cup {ps[2]})
             = Cardinality(InFlight(d, q) \cup {ps[1]}) + 1
      BY <3>2, <3>3, FS_AddElement, Zenon
    <3>5. InFlight(d, q) \cup P = (InFlight(d, q) \cup {ps[1]}) \cup {ps[2]}
      BY <3>1
    <3>6. Cardinality(InFlight(d, q) \cup P) = Cardinality(InFlight(d, q) \cup {ps[1]}) + 1
      BY <3>4, <3>5, Zenon
    <3> QED BY <2>2, <3>3, <3>6, <1>18
  <2> QED BY <2>1, <2>2, <1>1
<1>20. PendCore(r, q)
  BY <1>4, <1>5, <1>6, <1>13, <1>15, <1>16, <1>19 DEF PendCore
<1>21. r.pendingCount > 0
  BY <1>1, <1>6
<1> QED BY <1>2, <1>5, <1>7, <1>20, <1>21 DEF r

(* The response of a DMA packet takes it out of the queue. *)
LEMMA AnsweredDma ==
    ASSUME NEW d, NEW q, NEW q2, PendCore(d, q), PortArmed(d),
           NEW p \in DmaPackets, p \in Pkts(q), Pkts(q2) = Pkts(q) \ {p}
    PROVE  LET r == Dma!handleResp(d) IN PendCore(r, q2) /\ PortArmed(r)
<1> DEFINE r == Dma!handleResp(d)
<1>1. d \in PortType /\ d.pendingCount = Cardinality(InFlight(d, q))
  BY DEF PendCore
<1>2. IsFiniteSet(InFlight(d, q)) /\ Cardinality(InFlight(d, q)) \in Nat
  BY <1>1, InFlightFinite
<1>3. p \in InFlight(d, q) /\ InFlight(d, q2) = InFlight(d, q) \ {p}
  BY Zenon DEF InFlight, PendCore
<1>4. Cardinality(InFlight(d, q2)) = Cardinality(InFlight(d, q)) - 1
  BY <1>2, <1>3, FS_RemoveElement, Zenon
<1>5. Cardinality(InFlight(d, q)) # 0
  BY <1>2, <1>3, FS_EmptySet, Zenon
<1>6. r = [d EXCEPT !.pendingCount = d.pendingCount - 1]
  BY Zenon DEF Dma!handleResp
<1>7. d.pendingCount - 1 \in Nat
  BY <1>1, <1>2, <1>5
<1> HIDE DEF r
<1>8. r \in PortType
  BY <1>1, <1>6, <1>7 DEF PortType
<1>9. r.transmitList = d.transmitList /\ r.sendEvent = d.sendEvent
  BY <1>1, <1>6 DEF PortType
<1>10. r.inRetry = d.inRetry
  BY <1>1, <1>6 DEF PortType
<1>11. r.pendingCount = d.pendingCount - 1
  BY <1>1, <1>6 DEF PortType
<1>12. Left(r) = Left(d) /\ InFlight(r, q2) = InFlight(d, q2)
  BY <1>9 DEF Left, InFlight
<1>13. PendCore(r, q2)
  BY <1>1, <1>4, <1>8, <1>9, <1>11, <1>12 DEF PendCore
<1>14. PortArmed(r)
  BY <1>9, <1>10 DEF PortArmed, Dma!CanSend
<1> QED BY <1>13, <1>14 DEF r

(* Packets of others do not matter to the port. *)
LEMMA OtherPackets ==
    ASSUME NEW d, NEW q, NEW q2, PendCore(d, q),
           Pkts(q2) \cap DmaPackets = Pkts(q) \cap DmaPackets
    PROVE  PendCore(d, q2)
<1>1. Left(d) \subseteq DmaPackets
  BY InFlightFinite DEF PendCore
<1>2. InFlight(d, q2) = InFlight(d, q) /\ Left(d) \cap Pkts(q2) = {}
  BY <1>1 DEF InFlight, PendCore
<1> QED BY <1>2 DEF PendCore

-----------------------------------------------------------------------------
(* The drain manager m, with the script at s and the objects B busy *)

States == {"Running", "Draining", "Drained"}

ManType ==
    [state : States, count : Nat, drainState : [Objects -> States], exit : BOOLEAN]

Waited(m) == {o \in Objects : m.drainState[o] = "Draining"}

ManOK(m, s, B) ==
    /\ m \in ManType
    /\ m.count = Cardinality(Waited(m))
    /\ Waited(m) \subseteq B
    /\ m.exit => s = "drain" /\ m.count = 0
    /\ s # "drain" => Waited(m) = {}
    /\ m.state = "Drained" =>
          s = "script" /\ B = {} /\ \A o \in Objects : m.drainState[o] = "Drained"

(* The objects are finitely many. *)
LEMMA ObjectsFinite ==
    ASSUME NEW m
    PROVE  IsFiniteSet(Objects) /\ IsFiniteSet(Waited(m)) /\ Cardinality(Waited(m)) \in Nat
<1>1. Objects = (({} \cup {"resp"}) \cup {"snoop"}) \cup {"dma"}
  BY DEF Objects, Queues
<1>2. IsFiniteSet({})
  BY FS_EmptySet
<1>3. IsFiniteSet({} \cup {"resp"})
  BY <1>2, FS_AddElement
<1>4. IsFiniteSet(({} \cup {"resp"}) \cup {"snoop"})
  BY <1>3, FS_AddElement
<1>5. IsFiniteSet(Objects)
  BY <1>1, <1>4, FS_AddElement
<1>6. IsFiniteSet(Waited(m))
  BY <1>5, FS_Subset DEF Waited
<1> QED BY <1>5, <1>6, FS_CardinalityType

(* A signal takes the object off the manager's count. *)
LEMMA SignalFacts ==
    ASSUME NEW m, NEW s \in {"simulate", "drain"}, NEW B, ManOK(m, s, B),
           NEW o \in Objects
    PROVE  ManOK(Manager!signalDrainDone(m, o), s, B \ {o})
<1> DEFINE r == Manager!signalDrainDone(m, o)
<1>1. m \in ManType /\ m.state # "Drained"
  BY DEF ManOK
<1>2. CASE m.drainState[o] # "Draining"
  <2>1. r = m
    BY <1>2 DEF Manager!signalDrainDone
  <2>2. Waited(m) \subseteq B \ {o}
    BY <1>2 DEF ManOK, Waited
  <2> QED BY <1>1, <2>1, <2>2 DEF ManOK
<1>3. CASE m.drainState[o] = "Draining"
  <2> DEFINE x == m.exit \/ m.count = 1
  <2>1. r = [m EXCEPT !.drainState[o] = "Drained", !.count = m.count - 1, !.exit = x]
    BY <1>3 DEF Manager!signalDrainDone
  <2>2. o \in Waited(m)
    BY <1>3 DEF Waited
  <2>3. m.count \in Nat /\ m.count # 0 /\ s = "drain"
    <3>1. Cardinality(Waited(m)) # 0
      BY <2>2, ObjectsFinite, FS_EmptySet
    <3> QED BY <2>2, <3>1, ObjectsFinite DEF ManOK
  <2>4. m.exit = FALSE
    BY <1>1, <2>3 DEF ManOK, ManType
  <2> HIDE DEF r
  <2>5. x \in BOOLEAN /\ m.count - 1 \in Nat
    BY <2>3, <2>4
  <2>6. r \in ManType
    BY <1>1, <2>1, <2>5, Zenon DEF ManType, States
  <2>7. /\ r.state = m.state
        /\ r.count = m.count - 1
        /\ r.drainState = [m.drainState EXCEPT ![o] = "Drained"]
    BY <1>1, <2>1 DEF ManType
  <2>8. r.exit => m.count = 1
    BY <1>1, <2>1, <2>4 DEF ManType
  <2>9. Waited(r) = Waited(m) \ {o}
    <3>1. \A z \in Objects : r.drainState[z] = IF z = o THEN "Drained" ELSE m.drainState[z]
      BY <1>1, <2>7 DEF ManType
    <3> QED BY <3>1 DEF Waited
  <2>10. r.count = Cardinality(Waited(r))
    BY <2>2, <2>7, <2>9, ObjectsFinite, FS_RemoveElement, Zenon DEF ManOK
  <2>11. Waited(r) \subseteq B \ {o}
    BY <2>9, Zenon DEF ManOK
  <2>12. r.exit => s = "drain" /\ r.count = 0
    BY <2>3, <2>7, <2>8
  <2> QED BY <1>1, <2>3, <2>6, <2>7, <2>10, <2>11, <2>12 DEF ManOK, r
<1> QED BY <1>2, <1>3

(* While the simulation runs, more objects may become busy. *)
LEMMA MoreBusy ==
    ASSUME NEW m, NEW s \in {"simulate", "drain"}, NEW B, NEW C, ManOK(m, s, B),
           Waited(m) \subseteq C
    PROVE  ManOK(m, s, C)
BY Zenon DEF ManOK

(* A drain cycle counts the busy objects. *)
LEMMA DrainFacts ==
    ASSUME NEW m, NEW B \in SUBSET Objects, m.count = 0
    PROVE  LET r == Manager!tryDrain(m, B)
           IN ManOK(r, IF r.state = "Drained" THEN "script" ELSE "drain", B)
<1> DEFINE r == Manager!tryDrain(m, B)
           n == Cardinality(B)
<1>1. IsFiniteSet(B) /\ n \in Nat /\ (n = 0 <=> B = {})
  BY ObjectsFinite, FS_Subset, FS_CardinalityType, FS_EmptySet
<1>2. r = [state      |-> IF n = 0 THEN "Drained" ELSE "Draining",
           count      |-> n,
           drainState |-> [o \in Objects |-> IF o \in B THEN "Draining" ELSE "Drained"],
           exit       |-> FALSE]
  <2>1. m.count + Cardinality(B) = n
    BY <1>1
  <2>2. r = [state      |-> IF m.count + Cardinality(B) = 0 THEN "Drained" ELSE "Draining",
             count      |-> m.count + Cardinality(B),
             drainState |-> [o \in Objects |-> IF o \in B THEN "Draining" ELSE "Drained"],
             exit       |-> FALSE]
    BY DEF Manager!tryDrain, Manager!Cardinality, Cardinality
  <2> HIDE DEF n, r
  <2> QED BY <2>1, <2>2, Zenon
<1> HIDE DEF r, n
<1>3. r \in ManType
  BY <1>1, <1>2 DEF ManType, States
<1>4. /\ r.state = IF n = 0 THEN "Drained" ELSE "Draining"
      /\ r.count = n
      /\ \A o \in Objects : r.drainState[o] = IF o \in B THEN "Draining" ELSE "Drained"
  BY <1>2
<1>5. r.exit = FALSE
  BY <1>2
<1>6. Waited(r) = B
  BY <1>4 DEF Waited
<1> QED BY <1>1, <1>3, <1>4, <1>5, <1>6, Zenon DEF ManOK, r, n

-----------------------------------------------------------------------------
(* The inductive invariant *)

Home(k) == IF k = "resp" THEN DmaPackets \cup CpuPackets ELSE SnoopPackets

QsOK(Q) ==
    /\ Q \in [Queues -> QueueType]
    /\ \A k \in Queues : Once(Q[k]) /\ Armed(Q[k]) /\ Pkts(Q[k]) \subseteq Home(k)

BusyOf(Q, d) ==
    {k \in Queues : ~Empty(Q[k])} \cup (IF Dma!dmaPending(d) THEN {"dma"} ELSE {})

IInv ==
    /\ QsOK(queue)
    /\ PendCore(port, queue["resp"]) /\ PortArmed(port)
    /\ ManOK(manager, script, BusyOf(queue, port))
    /\ script \in {"begin", "script", "simulate", "drain"}
    /\ script = "begin" => BusyOf(queue, port) = {}

(* Replacing one queue *)
LEMMA OneQueue ==
    ASSUME NEW k \in Queues, NEW r \in QueueType, QsOK(queue),
           Once(r), Armed(r), Pkts(r) \subseteq Home(k),
           queue' = [queue EXCEPT ![k] = r]
    PROVE  /\ QsOK(queue') /\ queue'[k] = r
           /\ \A j \in Queues : j # k => queue'[j] = queue[j]
<1>1. queue \in [Queues -> QueueType]
  BY DEF QsOK
<1>2. /\ queue' \in [Queues -> QueueType] /\ queue'[k] = r
      /\ \A j \in Queues : j # k => queue'[j] = queue[j]
  BY <1>1
<1> QED BY <1>2 DEF QsOK

(* The packets of the queues *)
LEMMA InQueuePkts == \A k \in Queues : InQueue(k) = Pkts(queue[k])
BY DEF InQueue, Pkts

(* Queueing a packet that is not the DMA port's *)
LEMMA EnqueueKeeps ==
    ASSUME IInv, Simulating, NEW k \in Queues, NEW p \in Home(k) \ DmaPackets,
           p \notin InQueue(k), NEW t \in 0 .. MaxLatency, NEW f \in BOOLEAN,
           queue' = [queue EXCEPT ![k] = schedSendTiming(queue[k], p, t, f)],
           UNCHANGED <<port, manager, mode, script>>
    PROVE  IInv'
<1> DEFINE q == queue[k]
           r == schedSendTiming(q, p, t, f)
<1>1. q \in QueueType /\ Once(q) /\ Armed(q) /\ Pkts(q) \subseteq Home(k) /\ QsOK(queue)
  BY Zenon DEF IInv, QsOK
<1>2. p \in Packets /\ p \notin Pkts(q)
  BY InQueuePkts DEF Packets, Home
<1>3. /\ r \in QueueType /\ Once(r) /\ Armed(r) /\ r.transmitList # <<>>
      /\ Pkts(r) = Pkts(q) \cup {p}
  BY <1>1, <1>2, SchedFacts
<1> HIDE DEF r
<1>4. queue' = [queue EXCEPT ![k] = r]
  BY DEF r
<1>5. QsOK(queue') /\ queue'[k] = r /\ \A j \in Queues : j # k => queue'[j] = queue[j]
  <2>1. Pkts(r) \subseteq Home(k)
    BY <1>1, <1>3
  <2> QED BY <2>1, <1>1, <1>3, <1>4, OneQueue, Zenon
<1>6. PendCore(port, queue'["resp"])
  <2>1. CASE k = "resp"
    <3>1. Pkts(r) \cap DmaPackets = Pkts(q) \cap DmaPackets
      BY <1>3
    <3>2. PendCore(port, q)
      BY <2>1 DEF IInv
    <3> QED BY <2>1, <3>1, <3>2, <1>5, OtherPackets
  <2>2. CASE k # "resp"
    BY <2>2, <1>5 DEF IInv, Queues
  <2> QED BY <2>1, <2>2
<1>7. Waited(manager) \subseteq BusyOf(queue', port)
  <2>1. Waited(manager) \subseteq BusyOf(queue, port)
    BY Zenon DEF IInv, ManOK
  <2>2. \A j \in Queues : ~Empty(queue[j]) => ~Empty(queue'[j])
    BY <1>3, <1>5 DEF Empty
  <2> QED BY <2>1, <2>2 DEF BusyOf
<1>8. ManOK(manager, script, BusyOf(queue', port))
  BY <1>7, MoreBusy, Zenon DEF IInv, Simulating
<1> QED BY <1>5, <1>6, <1>8 DEF IInv, Simulating

(* The DMA port sends its first packet. *)
LEMMA SendDmaKeeps ==
    ASSUME NEW d, QsOK(queue), PendCore(d, queue["resp"]), d.transmitList # <<>>,
           d.sendEvent = NotScheduled, SendDma(d), Simulating,
           ManOK(manager, script, BusyOf(queue, d))
    PROVE  /\ QsOK(queue') /\ PendCore(port', queue'["resp"]) /\ PortArmed(port')
           /\ ManOK(manager, script, BusyOf(queue', port'))
<1>1. CASE port' = Dma!trySendTimingReq(d, FALSE) /\ UNCHANGED queue
  <2>1. /\ PendCore(port', queue["resp"]) /\ PortArmed(port')
        /\ port'.pendingCount = d.pendingCount
    BY <1>1, RefusedDma, Zenon
  <2>2. BusyOf(queue, port') = BusyOf(queue, d)
    BY <2>1 DEF BusyOf, Dma!dmaPending
  <2> QED BY <1>1, <2>1, <2>2, Zenon
<1>2. ASSUME NEW t \in 0 .. MaxLatency,
             port' = Dma!trySendTimingReq(d, TRUE),
             queue' = [queue EXCEPT !["resp"] =
                          recvTimingReq(queue["resp"], Head(d.transmitList), t)]
      PROVE  /\ QsOK(queue') /\ PendCore(port', queue'["resp"]) /\ PortArmed(port')
             /\ ManOK(manager, script, BusyOf(queue', port'))
  <2> DEFINE q == queue["resp"]
             p == Head(d.transmitList)
             r == schedSendTiming(q, p, t, FALSE)
  <2>1. q \in QueueType /\ Once(q) /\ Armed(q) /\ Pkts(q) \subseteq Home("resp")
    BY Zenon DEF QsOK, Queues
  <2>2. p \in DmaPackets /\ p \in Left(d)
    <3>1. d.transmitList \in Seq(DmaPackets)
      BY Zenon DEF PendCore, PortType
    <3>2. 1 \in DOMAIN d.transmitList /\ p = d.transmitList[1] /\ p \in DmaPackets
      BY <3>1
    <3> QED BY <3>2 DEF Left
  <2>3. p \in Packets /\ p \notin Pkts(q)
    BY <2>2 DEF Packets, PendCore
  <2>4. /\ r \in QueueType /\ Once(r) /\ Armed(r) /\ r.transmitList # <<>>
        /\ Pkts(r) = Pkts(q) \cup {p}
    BY <2>1, <2>3, SchedFacts, Zenon
  <2>5. queue' = [queue EXCEPT !["resp"] = r]
    BY <1>2 DEF recvTimingReq
  <2> HIDE DEF r
  <2>6. /\ QsOK(queue') /\ queue'["resp"] = r
        /\ \A j \in Queues : j # "resp" => queue'[j] = queue[j]
    <3>1. "resp" \in Queues /\ Pkts(r) \subseteq Home("resp")
      BY <2>1, <2>2, <2>4 DEF Queues, Home
    <3> QED BY <3>1, <2>4, <2>5, OneQueue, Zenon
  <2>7. /\ PendCore(port', r) /\ PortArmed(port')
        /\ port'.pendingCount = d.pendingCount
    BY <1>2, <2>4, AcceptedDma, Zenon
  <2>8. Waited(manager) \subseteq BusyOf(queue', port')
    <3>1. Waited(manager) \subseteq BusyOf(queue, d)
      BY Zenon DEF ManOK
    <3>2. \A j \in Queues : ~Empty(queue[j]) => ~Empty(queue'[j])
      BY <2>4, <2>6 DEF Empty
    <3> QED BY <3>1, <3>2, <2>7 DEF BusyOf, Dma!dmaPending
  <2>9. ManOK(manager, script, BusyOf(queue', port'))
    BY <2>8, MoreBusy, Zenon DEF Simulating
  <2> QED BY <2>6, <2>7, <2>9
<1> QED BY <1>1, <1>2, Zenon DEF SendDma

(* Sending the first packet of a queue, with r what the queue is then *)
LEMMA AcceptKeeps ==
    ASSUME IInv, NEW k \in Queues, NEW r \in QueueType, AcceptPacket(k, r),
           Once(r), Semi(r), r.waitingOnRetry = FALSE, Pkts(r) \subseteq Home(k),
           Pkts(r) \cap DmaPackets = Pkts(Offered(queue[k])) \cap DmaPackets
    PROVE  IInv'
<1> DEFINE q == queue[k]
           p == Head(q.transmitList).pkt
           d == Dma!handleResp(port)
           m == IF p \in DmaPackets /\ ~Dma!dmaPending(d)
                THEN Manager!signalDrainDone(manager, "dma") ELSE manager
           B == BusyOf(queue, port)
           C == IF p \in DmaPackets /\ ~Dma!dmaPending(d) THEN B \ {"dma"} ELSE B
           a == Accepted(r)
<1>1. /\ Simulating /\ MaySend(q) /\ queue' = [queue EXCEPT ![k] = a]
      /\ port' = (IF p \in DmaPackets THEN d ELSE port)
      /\ manager' = (IF Empty(r) THEN Manager!signalDrainDone(m, k) ELSE m)
      /\ mode' = mode /\ script' = script
  BY ZenonT(30) DEF AcceptPacket
<1>2. q \in QueueType /\ Once(q) /\ Armed(q) /\ Pkts(q) \subseteq Home(k) /\ QsOK(queue)
  BY DEF IInv, QsOK
<1>3. q.transmitList # <<>>
  BY <1>1, <1>2, ReadyFacts
<1>4. p \in Pkts(q) /\ Pkts(Offered(q)) = Pkts(q) \ {p}
  <2> HIDE DEF q
  <2>1. /\ Head(q.transmitList) = q.transmitList[1]
        /\ q.transmitList[1].pkt \in Pkts(q)
        /\ Pkts(Offered(q)) = Pkts(q) \ {q.transmitList[1].pkt}
    BY <1>2, <1>3, OfferedFacts, Zenon
  <2> QED BY <2>1
<1>5. /\ a \in QueueType /\ Once(a) /\ Armed(a)
      /\ a.transmitList = r.transmitList /\ Pkts(a) = Pkts(r)
  BY AcceptedFacts, Zenon
<1> HIDE DEF a, p, d, m
<1>6. QsOK(queue') /\ queue'[k] = a /\ \A j \in Queues : j # k => queue'[j] = queue[j]
  BY <1>1, <1>2, <1>5, OneQueue, Zenon
<1>7. PendCore(port', queue'["resp"]) /\ PortArmed(port')
  <2>0. PendCore(port, queue["resp"]) /\ PortArmed(port)
    BY Zenon DEF IInv
  <2>1. CASE k = "resp"
    <3>1. Pkts(a) \cap DmaPackets = Pkts(Offered(q)) \cap DmaPackets
      BY <1>5
    <3>2. PendCore(port', Offered(q)) /\ PortArmed(port')
      <4>1. CASE p \in DmaPackets
        BY <4>1, <2>0, <2>1, <1>1, <1>4, AnsweredDma DEF d
      <4>2. CASE p \notin DmaPackets
        <5>1. Pkts(Offered(q)) \cap DmaPackets = Pkts(q) \cap DmaPackets
          BY <4>2, <1>4
        <5> QED BY <5>1, <4>2, <2>0, <2>1, <1>1, OtherPackets
      <4> QED BY <4>1, <4>2
    <3> QED BY <3>1, <3>2, <2>1, <1>6, OtherPackets
  <2>2. CASE k # "resp"
    <3>1. p \notin DmaPackets
      BY <2>2, <1>2, <1>4, PacketsAssumption DEF Home
    <3> QED BY <3>1, <2>2, <2>0, <1>1, <1>6 DEF Queues
  <2> QED BY <2>1, <2>2
<1>8. ManOK(manager', script, IF Empty(r) THEN C \ {k} ELSE C)
  <2>1. script \in {"simulate", "drain"} /\ k \in Objects /\ "dma" \in Objects
    BY <1>1 DEF Simulating, Objects
  <2>2. ManOK(m, script, C)
    <3>1. ManOK(manager, script, B)
      BY DEF IInv
    <3> HIDE DEF B
    <3> QED BY <3>1, <2>1, SignalFacts DEF m
  <2> HIDE DEF C
  <2>3. CASE Empty(r)
    BY <2>3, <2>1, <2>2, <1>1, SignalFacts
  <2> QED BY <2>2, <2>3, <1>1
<1>9. (IF Empty(r) THEN C \ {k} ELSE C) \subseteq BusyOf(queue', port')
  <2>1. \A j \in Queues : j # k \/ ~Empty(r) => (~Empty(queue[j]) => ~Empty(queue'[j]))
    BY <1>5, <1>6, ZenonT(30) DEF Empty
  <2>2. "dma" \in C => Dma!dmaPending(port')
    <3>1. "dma" \in C => Dma!dmaPending(port) /\ ~(p \in DmaPackets /\ ~Dma!dmaPending(d))
      BY DEF BusyOf, Queues
    <3> QED BY <3>1, <1>1
  <2>3. C \subseteq B
    OBVIOUS
  <2> HIDE DEF C
  <2> QED BY <2>1, <2>2, <2>3, ZenonT(30) DEF BusyOf
<1>10. ManOK(manager', script, BusyOf(queue', port'))
  <2>1. Waited(manager') \subseteq BusyOf(queue', port')
    BY <1>8, <1>9, ZenonT(30) DEF ManOK
  <2>2. script \in {"simulate", "drain"}
    BY <1>1 DEF Simulating
  <2> QED BY <2>1, <2>2, <1>8, MoreBusy, Zenon
<1>11. script' # "begin" /\ script' \in {"begin", "script", "simulate", "drain"}
  BY <1>1 DEF Simulating
<1>12. ManOK(manager', script', BusyOf(queue', port'))
  <2>1. script' = script
    BY <1>1
  <2> QED BY <2>1, <1>10
<1> HIDE DEF q, B, C
<1> QED BY <1>6, <1>7, <1>11, <1>12 DEF IInv

(* The initial state *)
LEMMA InitIInv == Init => IInv
<1> SUFFICES ASSUME Init PROVE IInv
  OBVIOUS
<1>1. NotScheduled \in 0 .. MaxTick
  BY MaxTickAssumption DEF NotScheduled
<1>2. \A k \in Queues : queue[k] = EmptyQueue
  BY Zenon DEF Init
<1>3. EmptyQueue \in QueueType /\ EmptyQueue.transmitList = <<>> /\ Pkts(EmptyQueue) = {}
  BY <1>1 DEF EmptyQueue, QueueType, Pkts
<1>4. Once(EmptyQueue) /\ Armed(EmptyQueue)
  BY <1>3 DEF Once, Armed, Semi, EmptyQueue
<1>5. QsOK(queue)
  BY <1>2, <1>3, <1>4, Zenon DEF QsOK, Init
<1>6. port = [transmitList |-> <<>>, pendingCount |-> 0, inRetry |-> FALSE,
              sendEvent |-> NotScheduled]
  BY Zenon DEF Init, Dma!IdlePort
<1>7. port \in PortType
  BY <1>1, <1>6 DEF PortType
<1>8. PortArmed(port)
  BY <1>6, Zenon DEF PortArmed, Dma!CanSend
<1>9. PendCore(port, queue["resp"])
  <2>1. Left(port) = {} /\ InFlight(port, queue["resp"]) = {}
    BY <1>2, <1>3, <1>6 DEF Left, InFlight, Queues
  <2>2. Cardinality({}) = 0
    BY FS_EmptySet
  <2>3. DOMAIN port.transmitList = {} /\ port.pendingCount = 0
    BY <1>6
  <2> QED BY <1>7, <2>1, <2>2, <2>3 DEF PendCore
<1>10. BusyOf(queue, port) = {}
  BY <1>2, <1>3, <1>6 DEF BusyOf, Empty, Dma!dmaPending
<1>11. ManOK(manager, script, {})
  <2>1. manager = [state |-> "Running", count |-> 0,
                   drainState |-> [o \in Objects |-> "Running"], exit |-> FALSE]
    BY DEF Init, Manager!RunningManager, Manager!AllAre
  <2>2. manager \in ManType
    BY <2>1 DEF ManType, States
  <2>3. Waited(manager) = {} /\ manager.count = 0 /\ manager.state = "Running"
    BY <2>1 DEF Waited
  <2>4. manager.exit = FALSE
    BY <2>1
  <2>5. Cardinality({}) = 0
    BY FS_EmptySet, Zenon
  <2> QED BY <2>2, <2>3, <2>4, <2>5 DEF ManOK
<1> QED BY <1>5, <1>8, <1>9, <1>10, <1>11 DEF IInv, Init

(* The bus refuses the first packet of a queue. *)
LEMMA RefuseKeeps == ASSUME IInv, NEW k \in Queues, RefusePacket(k) PROVE IInv'
<1> DEFINE q == queue[k]
           r == Refused(q)
<1>1. q \in QueueType /\ Once(q) /\ Armed(q) /\ Pkts(q) \subseteq Home(k) /\ QsOK(queue)
  BY DEF IInv, QsOK
<1>2. MaySend(q) /\ queue' = [queue EXCEPT ![k] = r]
  BY DEF RefusePacket
<1>3. /\ r \in QueueType /\ Once(r) /\ Armed(r)
      /\ r.transmitList = q.transmitList /\ Pkts(r) = Pkts(q)
  BY <1>1, <1>2, RefusedFacts, Zenon
<1> HIDE DEF r, q
<1>4. Pkts(r) \subseteq Home(k)
  BY <1>1, <1>3
<1>5. QsOK(queue') /\ queue'[k] = r /\ \A j \in Queues : j # k => queue'[j] = queue[j]
  BY <1>1, <1>2, <1>3, <1>4, OneQueue, Zenon
<1>6. /\ Pkts(queue'["resp"]) = Pkts(queue["resp"])
      /\ \A j \in Queues : Empty(queue'[j]) <=> Empty(queue[j])
  BY <1>3, <1>5, ZenonT(30) DEF Queues, Empty, q
<1>7. PendCore(port, queue'["resp"])
  BY <1>6, OtherPackets, ZenonT(30) DEF IInv
<1>8. BusyOf(queue', port) = BusyOf(queue, port)
  BY <1>6 DEF BusyOf
<1>9. port' = port /\ manager' = manager /\ script' = script
  BY DEF RefusePacket
<1> QED BY <1>5, <1>7, <1>8, <1>9 DEF IInv

(* A tick passes. *)
LEMMA TickKeeps == ASSUME IInv, Tick PROVE IInv'
<1>1. \A k \in Queues : queue[k] \in QueueType /\ Once(queue[k]) /\ Armed(queue[k])
                        /\ Pkts(queue[k]) \subseteq Home(k)
  BY DEF IInv, QsOK
<1>2. /\ \A k \in Queues : queue[k].sendEvent # 0
      /\ port.sendEvent # 0
      /\ queue' = [k \in Queues |-> Older(queue[k])]
      /\ port' = [port EXCEPT !.sendEvent = IF @ = NotScheduled THEN @ ELSE @ - 1]
      /\ manager' = manager /\ script' = script
  BY DEF Tick, NothingDue
<1>3. ASSUME NEW k \in Queues
      PROVE  /\ Older(queue[k]) \in QueueType
             /\ Once(Older(queue[k])) /\ Armed(Older(queue[k]))
             /\ Pkts(Older(queue[k])) = Pkts(queue[k])
             /\ Empty(Older(queue[k])) <=> Empty(queue[k])
  <2> DEFINE q == queue[k]
  <2>1. q \in QueueType /\ Once(q) /\ Armed(q) /\ q.sendEvent # 0
    BY <1>1, <1>2
  <2> HIDE DEF q
  <2>2. /\ Older(q) \in QueueType /\ Once(Older(q)) /\ Armed(Older(q))
        /\ Pkts(Older(q)) = Pkts(q)
        /\ Older(q).transmitList = <<>> <=> q.transmitList = <<>>
    BY <2>1, OlderFacts, Zenon
  <2> QED BY <2>2 DEF q, Empty
<1>4. QsOK(queue')
  BY <1>1, <1>2, <1>3 DEF QsOK
<1>5. port' \in PortType /\ PortArmed(port')
      /\ port'.transmitList = port.transmitList /\ port'.pendingCount = port.pendingCount
  <2>1. port \in PortType /\ PortArmed(port)
    BY DEF IInv, PendCore
  <2>2. /\ port'.transmitList = port.transmitList /\ port'.pendingCount = port.pendingCount
        /\ port'.sendEvent = IF port.sendEvent = NotScheduled THEN NotScheduled
                             ELSE port.sendEvent - 1
    BY <1>2, <2>1 DEF PortType
  <2>3. port'.inRetry = port.inRetry
    BY <1>2, <2>1 DEF PortType
  <2>4. port.sendEvent \in 0 .. MaxTick /\ NotScheduled = MaxTick
    BY <2>1 DEF PortType, NotScheduled
  <2>5. /\ port'.sendEvent \in 0 .. MaxTick
        /\ port'.sendEvent = NotScheduled <=> port.sendEvent = NotScheduled
    BY <2>2, <2>4, <1>2, MaxTickAssumption
  <2>6. port' \in PortType
    <3>1. port' = [port EXCEPT !.sendEvent = port'.sendEvent]
      BY <1>2, <2>1 DEF PortType
    <3> QED BY <3>1, <2>1, <2>5 DEF PortType
  <2>7. PortArmed(port')
    BY <2>1, <2>2, <2>3, <2>5 DEF PortArmed, Dma!CanSend
  <2> QED BY <2>2, <2>6, <2>7
<1>6. PendCore(port', queue'["resp"])
  <2>1. Pkts(queue'["resp"]) = Pkts(queue["resp"])
    BY <1>2, <1>3 DEF Queues
  <2>2. Left(port') = Left(port)
    BY <1>5 DEF Left
  <2> QED BY <2>1, <2>2, <1>5, ZenonT(30) DEF IInv, PendCore, InFlight
<1>7. BusyOf(queue', port') = BusyOf(queue, port)
  <2>1. \A k \in Queues : Empty(queue'[k]) <=> Empty(queue[k])
    BY <1>2, <1>3
  <2> QED BY <2>1, <1>5 DEF BusyOf, Dma!dmaPending
<1> QED BY <1>2, <1>4, <1>5, <1>6, <1>7 DEF IInv

(* A packet is queued at the response or the snoop queue. *)
LEMMA QueueingKeeps ==
    ASSUME IInv, CpuRequest \/ SnoopAnswer \/ SnoopForward PROVE IInv'
<1>1. "resp" \in Queues /\ "snoop" \in Queues
  BY Zenon DEF Queues
<1>2. CASE CpuRequest
  <2>1. PICK p \in CpuPackets, t \in 0 .. MaxLatency :
            queue' = [queue EXCEPT !["resp"] = schedSendTiming(queue["resp"], p, t, FALSE)]
    BY <1>2, Zenon DEF CpuRequest, recvTimingReq
  <2>2. p \in Home("resp") \ DmaPackets /\ p \notin InQueue("resp")
    BY <1>2, PacketsAssumption DEF CpuRequest, Home
  <2>3. Simulating /\ UNCHANGED <<port, manager, mode, script>>
    BY <1>2 DEF CpuRequest
  <2> QED BY <1>1, <2>1, <2>2, <2>3, EnqueueKeeps, Zenon
<1>3. ASSUME NEW f \in BOOLEAN, NEW p \in SnoopPackets \ InQueue("snoop"),
             NEW t \in 0 .. MaxLatency,
             queue' = [queue EXCEPT !["snoop"] = schedSendTiming(queue["snoop"], p, t, f)],
             Simulating, UNCHANGED <<port, manager, mode, script>>
      PROVE  IInv'
  <2>1. p \in Home("snoop") \ DmaPackets /\ p \notin InQueue("snoop")
    BY PacketsAssumption DEF Home
  <2> QED BY <1>1, <1>3, <2>1, EnqueueKeeps, Zenon
<1>4. CASE SnoopAnswer
  BY <1>3, <1>4, Zenon DEF SnoopAnswer
<1>5. CASE SnoopForward
  BY <1>3, <1>5, Zenon DEF SnoopForward
<1> QED BY <1>2, <1>4, <1>5

(* The first packet of a queue is sent, and the CPU may access again. *)
LEMMA SendingKeeps ==
    ASSUME IInv, (\E k \in Queues : SendPacket(k)) \/ SendAndAccess PROVE IInv'
<1>1. ASSUME NEW k \in Queues, MaySend(queue[k])
      PROVE  /\ queue[k] \in QueueType /\ Offered(queue[k]) \in QueueType
             /\ Once(Offered(queue[k])) /\ Semi(Offered(queue[k]))
             /\ Offered(queue[k]).waitingOnRetry = FALSE
             /\ Pkts(Offered(queue[k])) \subseteq Pkts(queue[k])
             /\ Pkts(queue[k]) \subseteq Home(k)
  <2> DEFINE q == queue[k]
  <2>1. q \in QueueType /\ Once(q) /\ Armed(q) /\ Pkts(q) \subseteq Home(k)
    BY DEF IInv, QsOK
  <2>2. q.transmitList # <<>>
    BY <1>1, <2>1, ReadyFacts
  <2> HIDE DEF q
  <2>3. /\ Offered(q) \in QueueType /\ Once(Offered(q)) /\ Semi(Offered(q))
        /\ Offered(q).waitingOnRetry = FALSE
        /\ Pkts(Offered(q)) = Pkts(q) \ {q.transmitList[1].pkt}
    BY <2>1, <2>2, OfferedFacts, Zenon
  <2> QED BY <2>1, <2>3, ZenonT(30) DEF q
<1>2. ASSUME NEW k \in Queues, SendPacket(k) PROVE IInv'
  <2>1. MaySend(queue[k]) /\ AcceptPacket(k, Offered(queue[k]))
    BY <1>2, Zenon DEF SendPacket, AcceptPacket
  <2>2. Pkts(Offered(queue[k])) \subseteq Home(k)
    BY <1>1, <2>1, Zenon
  <2> QED BY <1>1, <2>1, <2>2, AcceptKeeps, Zenon
<1>3. ASSUME SendAndAccess PROVE IInv'
  <2> DEFINE o == Offered(queue["resp"])
  <2>1. PICK p \in CpuPackets \ InQueue("resp"), t \in 0 .. MaxLatency :
            AcceptPacket("resp", schedSendTiming(o, p, t, FALSE))
    BY <1>3, Zenon DEF SendAndAccess, recvTimingReq
  <2> DEFINE r == schedSendTiming(o, p, t, FALSE)
  <2>2. "resp" \in Queues /\ MaySend(queue["resp"])
    BY <1>3, Zenon DEF SendAndAccess, Queues
  <2>3. /\ o \in QueueType /\ Once(o) /\ Semi(o) /\ o.waitingOnRetry = FALSE
        /\ Pkts(o) \subseteq Pkts(queue["resp"]) /\ Pkts(queue["resp"]) \subseteq Home("resp")
    BY <1>1, <2>2, Zenon
  <2>4. p \in Packets /\ p \notin Pkts(o) /\ p \in Home("resp") /\ p \notin DmaPackets
    BY <2>2, <2>3, InQueuePkts, PacketsAssumption DEF Packets, Home
  <2> HIDE DEF o
  <2>5. /\ r \in QueueType /\ Once(r) /\ Pkts(r) = Pkts(o) \cup {p}
        /\ r.waitingOnRetry = o.waitingOnRetry /\ Semi(r)
    <3>1. FALSE \in BOOLEAN
      OBVIOUS
    <3> QED BY <2>3, <2>4, <3>1, SchedFacts, Zenon
  <2>6. AcceptPacket("resp", r)
    BY <2>1, Zenon
  <2> HIDE DEF r
  <2>7. Pkts(r) \subseteq Home("resp") /\ Pkts(r) \cap DmaPackets = Pkts(o) \cap DmaPackets
    BY <2>3, <2>4, <2>5
  <2> QED BY <2>2, <2>3, <2>5, <2>6, <2>7, AcceptKeeps, Zenon DEF o
<1> QED BY <1>2, <1>3

(* The DMA port gets or sends packets. *)
LEMMA DmaKeeps ==
    ASSUME IInv, DmaAction \/ DmaSendEvent \/ recvReqRetry PROVE IInv'
<1> DEFINE q == queue["resp"]
<1>1. /\ QsOK(queue) /\ PendCore(port, q) /\ PortArmed(port)
      /\ ManOK(manager, script, BusyOf(queue, port))
  BY DEF IInv
<1>2. Simulating /\ script' = script
  BY DEF DmaAction, DmaSendEvent, recvReqRetry
<1>3. script \in {"simulate", "drain"}
  BY <1>2 DEF Simulating
<1>4. ASSUME QsOK(queue'), PendCore(port', queue'["resp"]), PortArmed(port'),
             ManOK(manager', script, BusyOf(queue', port'))
      PROVE  IInv'
  BY <1>2, <1>3, <1>4 DEF IInv
<1>5. ASSUME NEW d, PendCore(d, q), d.transmitList # <<>>, d.sendEvent = NotScheduled,
             d.pendingCount >= port.pendingCount, SendDma(d), manager' = manager
      PROVE  IInv'
  <2>1. Waited(manager) \subseteq BusyOf(queue, d)
    <3>1. port.pendingCount \in Nat /\ d.pendingCount \in Nat
      BY <1>1, <1>5 DEF PendCore, PortType
    <3> QED BY <3>1, <1>1, <1>5 DEF ManOK, BusyOf, Dma!dmaPending
  <2>2. ManOK(manager, script, BusyOf(queue, d))
    BY <2>1, <1>1, <1>3, MoreBusy, Zenon
  <2>3. /\ QsOK(queue') /\ PendCore(port', queue'["resp"]) /\ PortArmed(port')
        /\ ManOK(manager, script, BusyOf(queue', port'))
    BY <2>2, <1>1, <1>2, <1>5, SendDmaKeeps, Zenon
  <2> QED BY <2>3, <1>4, <1>5
<1>6. CASE DmaSendEvent
  <2> DEFINE d == [port EXCEPT !.sendEvent = NotScheduled]
  <2>1. port \in PortType /\ port.sendEvent = 0
    BY <1>1, <1>6 DEF PendCore, DmaSendEvent
  <2>2. NotScheduled \in 0 .. MaxTick /\ NotScheduled # 0
    BY MaxTickAssumption DEF NotScheduled
  <2>3. /\ d \in PortType /\ d.transmitList = port.transmitList
        /\ d.pendingCount = port.pendingCount /\ d.sendEvent = NotScheduled
    BY <2>1, <2>2 DEF PortType
  <2>4. port.transmitList # <<>>
    BY <1>1, <2>1, <2>2 DEF PortArmed, Dma!CanSend
  <2>5. SendDma(d) /\ manager' = manager
    BY <1>6 DEF DmaSendEvent
  <2> HIDE DEF d
  <2>6. Left(d) = Left(port)
    BY <2>3 DEF Left
  <2>7. PendCore(d, q)
    BY <1>1, <2>3, <2>6 DEF PendCore, InFlight
  <2>8. d.pendingCount >= port.pendingCount
    BY <2>1, <2>3 DEF PortType
  <2> QED BY <2>3, <2>4, <2>5, <2>7, <2>8, <1>5
<1>7. CASE recvReqRetry
  <2>1. port.inRetry /\ SendDma(port) /\ manager' = manager
    BY <1>7 DEF recvReqRetry
  <2>2. port.transmitList # <<>> /\ port.sendEvent = NotScheduled
    BY <1>1, <2>1 DEF PortArmed, Dma!CanSend
  <2>3. port.pendingCount >= port.pendingCount
    BY <1>1 DEF PendCore, PortType
  <2> QED BY <1>1, <2>1, <2>2, <2>3, <1>5, ZenonT(30)
<1>8. CASE DmaAction
  <2>1. PICK ps \in Transfers :
            IF mode = "atomic"
            THEN /\ manager' = Manager!signalDrainDone(manager, "dma")
                 /\ UNCHANGED <<queue, port>>
            ELSE /\ IF Dma!CanSend(port) THEN SendDma(Dma!queueDma(port, ps))
                    ELSE port' = Dma!queueDma(port, ps) /\ UNCHANGED queue
                 /\ UNCHANGED manager
    BY <1>8, Zenon DEF DmaAction
  <2>2. CASE mode = "atomic"
    <3>1. "dma" \in Objects
      BY DEF Objects
    <3>2. ManOK(manager', script, BusyOf(queue, port) \ {"dma"})
      BY <2>1, <2>2, <3>1, <1>1, <1>3, SignalFacts
    <3>3. Waited(manager') \subseteq BusyOf(queue, port)
      BY <3>2, Zenon DEF ManOK
    <3>4. ManOK(manager', script, BusyOf(queue, port))
      BY <3>2, <3>3, <1>3, MoreBusy, Zenon
    <3> QED BY <2>1, <2>2, <3>4, <1>1, <1>4, Zenon
  <2>3. CASE mode # "atomic"
    <3> DEFINE d == Dma!queueDma(port, ps)
    <3>1. /\ ps \in Seq(DmaPackets) /\ Len(ps) \in {1, 2}
          /\ \A i \in DOMAIN ps : ps[i] \in FreeDma
          /\ Len(ps) = 2 => ps[1] # ps[2]
      <4>1. CASE ps \in {<<p>> : p \in FreeDma}
        <5>1. PICK p \in FreeDma : ps = <<p>>
          BY <4>1
        <5> QED BY <5>1 DEF FreeDma
      <4>2. CASE ps \in {x \in FreeDma \X FreeDma : x[1] # x[2]}
        <5>1. PICK p1 \in FreeDma, p2 \in FreeDma : ps = <<p1, p2>> /\ p1 # p2
          BY <4>2
        <5> QED BY <5>1 DEF FreeDma
      <4> QED BY <4>1, <4>2 DEF Transfers
    <3>2. \A i \in DOMAIN ps : ps[i] \notin Left(port) /\ ps[i] \notin Pkts(q)
      <4>1. Unsent = Left(port) /\ InQueue("resp") = Pkts(q)
        BY InQueuePkts DEF Unsent, Left, Queues
      <4> QED BY <3>1, <4>1 DEF FreeDma
    <3>3. /\ PendCore(d, q) /\ d.transmitList # <<>>
          /\ d.sendEvent = port.sendEvent /\ d.inRetry = port.inRetry
          /\ d.pendingCount > 0
      BY <1>1, <3>1, <3>2, QueuedDma, Zenon
    <3>4. d.pendingCount = port.pendingCount + Len(ps)
      BY <1>1 DEF PendCore, PortType, Dma!queueDma
    <3>5. d.pendingCount >= port.pendingCount
      BY <1>1, <3>1, <3>4 DEF PendCore, PortType
    <3>6. manager' = manager
      BY <2>1, <2>3, Zenon
    <3>7. CASE Dma!CanSend(port)
      <4>1. SendDma(d)
        BY <2>1, <2>3, <3>7
      <4> HIDE DEF d
      <4>2. d.sendEvent = NotScheduled
        BY <3>3, <3>7 DEF Dma!CanSend
      <4> QED BY <3>3, <3>5, <3>6, <4>1, <4>2, <1>5, Zenon
    <3>8. CASE ~Dma!CanSend(port)
      <4>1. port' = d /\ queue' = queue
        BY <2>1, <2>3, <3>8
      <4> HIDE DEF d
      <4>2. PortArmed(d)
        BY <3>3, <3>8, <1>1 DEF PortArmed, Dma!CanSend
      <4>3. BusyOf(queue, port) \subseteq BusyOf(queue, d)
        BY <3>3 DEF BusyOf, Dma!dmaPending
      <4>4. Waited(manager) \subseteq BusyOf(queue, d)
        BY <4>3, <1>1 DEF ManOK
      <4>5. ManOK(manager, script, BusyOf(queue, d))
        BY <4>4, <1>1, <1>3, MoreBusy, Zenon
      <4> QED BY <3>3, <3>6, <4>1, <4>2, <4>5, <1>1, <1>4, ZenonT(30)
    <3> QED BY <3>7, <3>8
  <2> QED BY <2>2, <2>3, Zenon
<1> QED BY <1>6, <1>7, <1>8, Zenon

(* The script's steps *)
LEMMA ScriptKeeps ==
    ASSUME IInv, Instantiate \/ Simulate \/ SimulateReturns \/ setMemoryMode \/ Drain
    PROVE  IInv'
<1> DEFINE B == BusyOf(queue, port)
<1>1. queue' = queue /\ port' = port
  BY Zenon DEF Instantiate, Simulate, SimulateReturns, setMemoryMode, Drain
<1>2. ManOK(manager, script, B) /\ (script = "begin" => B = {})
  BY Zenon DEF IInv
<1>3. ASSUME script' \in {"script", "simulate", "drain"}, ManOK(manager', script', B)
      PROVE  IInv'
  BY <1>1, <1>3 DEF IInv
<1> HIDE DEF B
<1>4. CASE Instantiate
  <2>1. script = "begin" /\ script' = "script"
    BY <1>4 DEF Instantiate
  <2>2. CASE manager' = manager
    <3>1. ManOK(manager, "script", B)
      BY <1>2, <2>1 DEF ManOK
    <3> QED BY <2>1, <2>2, <3>1, <1>3
  <2>3. CASE manager' = Manager!preCheckpointRestore(manager)
    <3>1. manager' = [manager EXCEPT !.state = "Drained",
                                     !.drainState = [o \in Objects |-> "Drained"]]
      BY <2>3 DEF Manager!preCheckpointRestore, Manager!AllAre
    <3>2. manager \in ManType /\ Waited(manager) = {} /\ B = {}
      BY <1>2, <2>1 DEF ManOK
    <3>3. /\ manager'.state = "Drained" /\ manager'.count = manager.count
          /\ \A o \in Objects : manager'.drainState[o] = "Drained"
      BY <3>1, <3>2 DEF ManType
    <3>4. manager'.exit = manager.exit
      BY <3>1, <3>2 DEF ManType
    <3>5. manager' \in ManType
      BY <3>1, <3>2, Zenon DEF ManType, States
    <3>6. Waited(manager') = {}
      BY <3>3 DEF Waited
    <3>7. ManOK(manager', "script", B)
      BY <1>2, <2>1, <3>2, <3>3, <3>4, <3>5, <3>6 DEF ManOK
    <3> QED BY <2>1, <3>7, <1>3
  <2> QED BY <1>4, <2>2, <2>3 DEF Instantiate
<1>5. CASE Simulate
  <2>1. script = "script" /\ script' = "simulate"
    BY <1>5 DEF Simulate
  <2>2. CASE manager.state # "Drained"
    <3>1. manager' = manager
      BY <1>5, <2>2 DEF Simulate
    <3>2. ManOK(manager, "simulate", B)
      BY <1>2, <2>1, <2>2 DEF ManOK
    <3> QED BY <2>1, <3>1, <3>2, <1>3
  <2>3. CASE manager.state = "Drained"
    <3>1. manager' = [manager EXCEPT !.state = "Running",
                                     !.drainState = [o \in Objects |-> "Running"]]
      BY <1>5, <2>3 DEF Simulate, Manager!resume, Manager!AllAre
    <3>2. manager \in ManType /\ Waited(manager) = {}
      BY <1>2, <2>1 DEF ManOK
    <3>3. /\ manager'.state = "Running" /\ manager'.count = manager.count
          /\ \A o \in Objects : manager'.drainState[o] = "Running"
      BY <3>1, <3>2 DEF ManType
    <3>4. manager'.exit = manager.exit
      BY <3>1, <3>2 DEF ManType
    <3>5. manager' \in ManType
      BY <3>1, <3>2, Zenon DEF ManType, States
    <3>6. Waited(manager') = {}
      BY <3>3 DEF Waited
    <3>7. ManOK(manager', "simulate", B)
      BY <1>2, <2>1, <3>2, <3>3, <3>4, <3>5, <3>6 DEF ManOK
    <3> QED BY <2>1, <3>7, <1>3
  <2> QED BY <2>2, <2>3
<1>6. CASE SimulateReturns
  <2>1. script = "simulate" /\ script' = "script" /\ manager' = manager
    BY <1>6 DEF SimulateReturns
  <2>2. ManOK(manager, "script", B)
    BY <1>2, <2>1 DEF ManOK
  <2> QED BY <2>1, <2>2, <1>3
<1>7. CASE setMemoryMode
  <2>1. script = "script" /\ script' = script /\ manager' = manager
    BY <1>7 DEF setMemoryMode
  <2> QED BY <2>1, <1>2, <1>3
<1>8. CASE Drain
  <2>1. Busy = B
    BY DEF Busy, B, BusyOf
  <2>2. /\ manager' = Manager!tryDrain(manager, B)
        /\ script' = IF manager'.state = "Drained" THEN "script" ELSE "drain"
    BY <1>8, <2>1 DEF Drain
  <2>3. manager.count = 0
    <3>1. Cardinality({}) = 0
      BY FS_EmptySet
    <3>2. script = "script" \/ (script = "drain" /\ manager.exit)
      BY <1>8 DEF Drain
    <3> QED BY <3>1, <3>2, <1>2 DEF ManOK
  <2>4. B \in SUBSET Objects
    BY DEF B, BusyOf, Objects
  <2>5. ManOK(manager', IF manager'.state = "Drained" THEN "script" ELSE "drain", B)
    BY <2>2, <2>3, <2>4, DrainFacts
  <2> QED BY <2>2, <2>5, <1>3
<1> QED BY <1>4, <1>5, <1>6, <1>7, <1>8

(* Every step keeps the invariant. *)
LEMMA NextIInv == IInv /\ [Next]_vars => IInv'
<1> SUFFICES ASSUME IInv, [Next]_vars PROVE IInv'
  OBVIOUS
<1>1. CASE UNCHANGED vars
  BY <1>1 DEF vars, IInv
<1>2. CASE CpuRequest \/ SnoopAnswer \/ SnoopForward
  BY <1>2, QueueingKeeps
<1>3. CASE DmaAction \/ DmaSendEvent \/ recvReqRetry
  BY <1>3, DmaKeeps
<1>4. CASE \E k \in Queues : RefusePacket(k)
  BY <1>4, RefuseKeeps
<1>5. CASE (\E k \in Queues : SendPacket(k)) \/ SendAndAccess
  BY <1>5, SendingKeeps
<1>6. CASE Tick
  BY <1>6, TickKeeps
<1>7. CASE Instantiate \/ Simulate \/ SimulateReturns \/ setMemoryMode \/ Drain
  BY <1>7, ScriptKeeps
<1> QED BY <1>1, <1>2, <1>3, <1>4, <1>5, <1>6, <1>7 DEF Next

(* The inductive invariant holds of schedSendTiming, sendDeferredPacket,   *)
(* trySendTimingReq, tryDrain and the other handlers in any interleaving.  *)
THEOREM DrainInvariant == Spec => []IInv
BY InitIInv, NextIInv, PTL DEF Spec

(* SendIsPending, for any packets and latencies: no packet queue and no    *)
(* DMA port is left with packets and nothing to send them.                 *)
THEOREM DrainSends == Spec => []SendIsPending
<1>1. IInv => SendIsPending
  <2> SUFFICES ASSUME IInv PROVE SendIsPending
    OBVIOUS
  <2>1. ASSUME NEW k \in Queues
        PROVE  IF Empty(queue[k])
               THEN ~queue[k].waitingOnRetry /\ queue[k].sendEvent = NotScheduled
               ELSE IF queue[k].waitingOnRetry
               THEN queue[k].sendEvent = NotScheduled /\ Head(queue[k].transmitList).tick = 0
               ELSE /\ Head(queue[k].transmitList).tick <= queue[k].sendEvent
                    /\ queue[k].sendEvent <= Later(Head(queue[k].transmitList).tick, 1)
    <3> DEFINE q == queue[k]
    <3>1. q \in QueueType /\ Armed(q)
      BY DEF IInv, QsOK
    <3>2. q.transmitList # <<>> => Head(q.transmitList) = q.transmitList[1]
      BY <3>1 DEF QueueType
    <3> HIDE DEF q
    <3>3. IF Empty(q) THEN ~q.waitingOnRetry /\ q.sendEvent = NotScheduled
          ELSE IF q.waitingOnRetry
          THEN q.sendEvent = NotScheduled /\ Head(q.transmitList).tick = 0
          ELSE OnTime(q)
      BY <3>1, <3>2 DEF Armed, Semi, Empty
    <3> QED BY <3>2, <3>3, ZenonT(30) DEF OnTime, q, Empty
  <2>2. PortArmed(port)
    BY DEF IInv
  <2> QED BY <2>1, <2>2 DEF SendIsPending, PortArmed
<1> QED BY <1>1, DrainInvariant, PTL

(* DrainAgreement, for any packets and latencies: the manager counts the   *)
(* objects that will signal, and a drained system has no packet anywhere.  *)
THEOREM DrainAgrees == Spec => []DrainAgreement
<1>1. IInv => DrainAgreement
  <2> SUFFICES ASSUME IInv PROVE DrainAgreement
    OBVIOUS
  <2>1. ManOK(manager, script, BusyOf(queue, port))
    BY Zenon DEF IInv
  <2>2. Waited(manager) = {o \in Objects : manager.drainState[o] = "Draining"}
    BY DEF Waited
  <2>3. Busy = BusyOf(queue, port)
    BY Zenon DEF Busy, BusyOf
  <2>4. manager.count = Cardinality({o \in Objects : manager.drainState[o] = "Draining"})
    BY <2>1, <2>2 DEF ManOK
  <2>5. \A o \in Objects : manager.drainState[o] = "Draining" => o \in Busy
    BY <2>1, <2>2, <2>3 DEF ManOK
  <2>6. manager.exit => script = "drain" /\ manager.count = 0
    BY <2>1 DEF ManOK
  <2>7. ASSUME manager.state = "Drained"
        PROVE  /\ \A o \in Objects : manager.drainState[o] = "Drained"
               /\ \A k \in Queues : Empty(queue[k])
               /\ port.transmitList = <<>> /\ port.pendingCount = 0
    <3>1. BusyOf(queue, port) = {} /\ \A o \in Objects : manager.drainState[o] = "Drained"
      BY <2>1, <2>7 DEF ManOK
    <3>2. (\A k \in Queues : Empty(queue[k])) /\ ~Dma!dmaPending(port)
      BY <3>1 DEF BusyOf
    <3>3. PendCore(port, queue["resp"])
      BY Zenon DEF IInv
    <3>4. port \in PortType
      BY <3>3 DEF PendCore
    <3>5. port.pendingCount = 0
      BY <3>2, <3>4 DEF Dma!dmaPending, PortType
    <3>6. InFlight(port, queue["resp"]) = {}
      BY <3>3, <3>4, <3>5, InFlightFinite, FS_EmptySet, Zenon DEF PendCore
    <3>7. Left(port) = {}
      BY <3>6 DEF InFlight
    <3>8. port.transmitList = <<>>
      <4>1. port.transmitList \in Seq(DmaPackets)
        BY <3>4 DEF PortType
      <4>2. DOMAIN port.transmitList = {}
        BY <3>7, Zenon DEF Left
      <4> QED BY <4>1, <4>2
    <3> QED BY <3>1, <3>2, <3>5, <3>8
  <2> QED BY <2>4, <2>5, <2>6, <2>7, ZenonT(30) DEF DrainAgreement
<1> QED BY <1>1, DrainInvariant, PTL

-----------------------------------------------------------------------------
(* The order of packets *)

(* The packets are in the order of their ticks. *)
Sorted(list) == \A i, j \in DOMAIN list : i < j => list[i].tick <= list[j].tick

SortInv == \A k \in Queues : Sorted(queue[k].transmitList)

(* What PacketsKeepOrder says of a queue q that becomes r *)
KeepsRest(q, r) ==
    {pq \in Order(q.transmitList) : pq[1] # q.transmitList[1].pkt} \subseteq Order(r.transmitList)

KeepsRefused(q, r) ==
    q.waitingOnRetry /\ r.waitingOnRetry =>
        q.transmitList[1].pkt = r.transmitList[1].pkt

NewInOrder(q, r) ==
    \A i, j \in DOMAIN r.transmitList :
        r.transmitList[i].pkt \notin Pkts(q) /\ i < j =>
            r.transmitList[i].tick < r.transmitList[j].tick

NewLast(q, r) ==
    \A i, j \in DOMAIN r.transmitList : i < j => r.transmitList[i].pkt \in Pkts(q)

Keeps(q, r) == KeepsRest(q, r) /\ KeepsRefused(q, r) /\ NewInOrder(q, r)

-----------------------------------------------------------------------------
(* The pairs of an order *)
LEMMA OrderPairs ==
    ASSUME NEW list, NEW pq
    PROVE  pq \in Order(list) <=>
             \E i, j \in DOMAIN list : i < j /\ pq = <<list[i].pkt, list[j].pkt>>
<1> DEFINE D == DOMAIN list
           P == {ij \in D \X D : ij[1] < ij[2]}
<1>1. pq \in Order(list) <=> \E ij \in P : pq = <<list[ij[1]].pkt, list[ij[2]].pkt>>
  BY Zenon DEF Order
<1>2. ASSUME NEW ij \in P, pq = <<list[ij[1]].pkt, list[ij[2]].pkt>>
      PROVE  \E i, j \in D : i < j /\ pq = <<list[i].pkt, list[j].pkt>>
  <2>1. ij[1] \in D /\ ij[2] \in D /\ ij[1] < ij[2]
    OBVIOUS
  <2> QED BY <1>2, <2>1, Zenon
<1>3. ASSUME NEW i \in D, NEW j \in D, i < j, pq = <<list[i].pkt, list[j].pkt>>
      PROVE  \E ij \in P : pq = <<list[ij[1]].pkt, list[ij[2]].pkt>>
  <2>1. <<i, j>> \in P /\ <<i, j>>[1] = i /\ <<i, j>>[2] = j
    BY <1>3
  <2> QED BY <1>3, <2>1, Zenon
<1> QED BY <1>1, <1>2, <1>3, Zenon

(* In a sorted list the position of a tick separates the packets that are  *)
(* not later from those that are.                                          *)
LEMMA PositionSorted ==
    ASSUME NEW list \in Seq(Entry), Sorted(list), NEW when \in Nat
    PROVE  /\ \A j \in DOMAIN list : j < Position(list, when) => list[j].tick <= when
           /\ \A j \in DOMAIN list : Position(list, when) <= j => when < list[j].tick
<1> DEFINE s == {i \in DOMAIN list : list[i].tick <= when}
           n == Len(list)
<1>1. n \in Nat /\ DOMAIN list = 1 .. n
  OBVIOUS
<1>2. \A i \in 1 .. n : list[i].tick \in Nat
  <2>1. \A i \in 1 .. n : list[i] \in Entry
    BY <1>1
  <2> QED BY <2>1, LatencyAssumption DEF Entry
<1>3. \A m \in Nat : IsFiniteSet(1 .. m) /\ Cardinality(1 .. m) = m
  BY FS_Interval
<1>4. s \subseteq 1 .. n
  BY <1>1, Zenon
<1>5. IsFiniteSet(s) /\ Cardinality(s) \in Nat
  BY <1>1, <1>3, <1>4, FS_Subset, FS_CardinalityType, Zenon
<1>6. \A i, j \in 1 .. n : i < j => list[i].tick <= list[j].tick
  BY <1>1, Zenon DEF Sorted
<1>7. ASSUME NEW j \in 1 .. n, list[j].tick <= when PROVE j <= Cardinality(s)
  <2>1. 1 .. j \subseteq s
    BY <1>1, <1>2, <1>6, <1>7, SMTT(30)
  <2>2. j \in Nat /\ Cardinality(1 .. j) = j
    BY <1>1, <1>3
  <2> QED BY <1>5, <2>1, <2>2, FS_Subset
<1>8. ASSUME NEW j \in 1 .. n, ~(list[j].tick <= when) PROVE Cardinality(s) < j
  <2>1. s \subseteq 1 .. j - 1
    BY <1>1, <1>2, <1>6, <1>8
  <2>2. j - 1 \in Nat /\ IsFiniteSet(1 .. j - 1) /\ Cardinality(1 .. j - 1) = j - 1
    BY <1>1, <1>3
  <2>3. Cardinality(s) <= Cardinality(1 .. j - 1)
    BY <2>1, <2>2, FS_Subset
  <2> QED BY <1>1, <1>5, <2>2, <2>3
<1>9. Position(list, when) = Cardinality(s) + 1
  BY Zenon DEF Position
<1> HIDE DEF s, n
<1> QED BY <1>1, <1>2, <1>5, <1>7, <1>8, <1>9

(* Queueing a packet that is not on the list puts it before the later ones *)
(* only and leaves the others in order; a refused packet stays first.      *)
LEMMA SchedOrder ==
    ASSUME NEW q \in QueueType, Sorted(q.transmitList), NEW p \in Packets,
           NEW t \in 0 .. MaxLatency, NEW f \in BOOLEAN
    PROVE  LET r == schedSendTiming(q, p, t, f)
           IN /\ Sorted(r.transmitList)
              /\ Order(q.transmitList) \subseteq Order(r.transmitList)
              /\ NewInOrder(q, r)
              /\ f => NewLast(q, r)
              /\ q.transmitList # <<>> /\ q.transmitList[1].tick = 0 =>
                    r.transmitList[1] = q.transmitList[1]
<1> DEFINE list == q.transmitList
           w    == When(q, t, f)
           i    == Place(q, t, f)
           r    == schedSendTiming(q, p, t, f)
           new  == r.transmitList
           n    == Len(list)
           At(j) == IF j < i THEN j ELSE j + 1
<1>1. list \in Seq(Entry) /\ n \in Nat /\ DOMAIN list = 1 .. n /\ Sorted(list)
  BY Inserted
<1>2. w \in Nat
  BY Inserted, LatencyAssumption, SMTT(30)
<1>3. i \in 1 .. n + 1 /\ (i = 1 /\ list # <<>> => w < list[1].tick)
  BY Inserted
<1>4. new[i].tick = w /\ new[i].pkt = p
  <2>1. new[i].tick = w
    BY Inserted, SMTT(30)
  <2>2. new[i].pkt = p
    BY Inserted
  <2> QED BY <2>1, <2>2, Zenon
<1>5. /\ DOMAIN new = 1 .. n + 1
      /\ \A j \in 1 .. i - 1 : new[j] = list[j]
      /\ \A j \in i + 1 .. n + 1 : new[j] = list[j - 1]
  BY Inserted, SMTT(30)
<1>6. \A j \in 1 .. n : list[j].tick \in Nat
  <2>1. \A j \in 1 .. n : list[j] \in Entry
    BY <1>1
  <2> QED BY <2>1, LatencyAssumption DEF Entry
<1>7. /\ \A j \in 1 .. n : j < i => list[j].tick <= w
      /\ \A j \in 1 .. n : i <= j => w < list[j].tick
  BY <1>1, <1>2, PositionSorted, Zenon DEF Place
<1>8. \A j, k \in 1 .. n : j < k => list[j].tick <= list[k].tick
  BY <1>1, Zenon DEF Sorted
<1>9. f => \A j \in 1 .. n : list[j].tick <= w
  <2>1. ASSUME f, NEW j \in 1 .. n PROVE list[j].tick <= w
    <3>1. list # <<>> /\ n \in 1 .. n /\ Last(list) = list[n]
      BY <1>1 DEF Last
    <3>2. list[n].tick <= w
      BY <1>1, <1>2, <1>6, <2>1, <3>1, LatencyAssumption DEF When, ForcedTick, Later
    <3>3. list[j].tick <= list[n].tick
      BY <1>1, <1>6, <1>8, <3>1
    <3> QED BY <1>2, <1>6, <3>1, <3>2, <3>3
  <2> QED BY <2>1, Zenon
<1> HIDE DEF w, i, r, new, n, list
<1>10. \A j \in 1 .. n : At(j) \in 1 .. n + 1 /\ At(j) # i /\ new[At(j)] = list[j]
  BY <1>1, <1>3, <1>5
<1>11. \A j, k \in 1 .. n : j < k => At(j) < At(k)
  BY <1>1, <1>3
<1>12. ASSUME NEW j \in 1 .. n + 1, j # i PROVE \E k \in 1 .. n : j = At(k)
  <2>1. CASE j < i
    BY <1>1, <1>3, <2>1, SMTT(30)
  <2>2. CASE ~(j < i)
    <3>1. j - 1 \in 1 .. n /\ At(j - 1) = j
      BY <1>1, <1>3, <1>12, <2>2
    <3> QED BY <3>1, Zenon
  <2> QED BY <2>1, <2>2, Zenon
<1>13. ASSUME NEW j \in 1 .. n, f PROVE j < i
  BY <1>1, <1>2, <1>3, <1>6, <1>7, <1>9, <1>13
<1>14. \A j \in 1 .. n : At(j) < i <=> j < i
  BY <1>1, <1>3
<1> HIDE DEF At
<1>15. ASSUME NEW a \in 1 .. n + 1, NEW b \in 1 .. n + 1, a < b
       PROVE  new[a].tick <= new[b].tick /\ (a = i => new[a].tick < new[b].tick)
  <2>1. CASE a = i
    <3>1. PICK k \in 1 .. n : b = At(k)
      BY <1>1, <1>12, <1>15, <2>1
    <3>2. new[b] = list[k] /\ ~(k < i)
      BY <1>1, <1>3, <1>10, <1>14, <1>15, <2>1, <3>1
    <3>3. i <= k
      BY <1>1, <1>3, <3>2
    <3> QED BY <1>2, <1>4, <1>6, <1>7, <2>1, <3>2, <3>3
  <2>2. CASE a # i /\ b = i
    <3>1. PICK k \in 1 .. n : a = At(k)
      BY <1>12, <2>2
    <3>2. new[a] = list[k] /\ k < i
      BY <1>10, <1>14, <1>15, <2>2, <3>1
    <3> QED BY <1>4, <1>7, <2>2, <3>2
  <2>3. CASE a # i /\ b # i
    <3>1. PICK k \in 1 .. n : a = At(k)
      BY <1>12, <2>3
    <3>2. PICK m \in 1 .. n : b = At(m)
      BY <1>12, <2>3
    <3>3. k < m
      <4>1. k # m /\ ~(m < k)
        BY <1>1, <1>11, <1>15, <3>1, <3>2
      <4> QED BY <1>1, <4>1
    <3> QED BY <1>8, <1>10, <2>3, <3>1, <3>2, <3>3
  <2> QED BY <2>1, <2>2, <2>3
<1>16. Sorted(new)
  BY <1>5, <1>15, Zenon DEF Sorted
<1>17. Order(list) \subseteq Order(new)
  <2>1. SUFFICES ASSUME NEW pq \in Order(list) PROVE pq \in Order(new)
    OBVIOUS
  <2>2. PICK a, b \in DOMAIN list : a < b /\ pq = <<list[a].pkt, list[b].pkt>>
    BY OrderPairs, Zenon
  <2>3. /\ At(a) \in DOMAIN new /\ At(b) \in DOMAIN new /\ At(a) < At(b)
        /\ new[At(a)] = list[a] /\ new[At(b)] = list[b]
    BY <1>1, <1>5, <1>10, <1>11, <2>2, Zenon
  <2> QED BY <2>2, <2>3, OrderPairs, Zenon
<1>18. ASSUME NEW a \in 1 .. n + 1, a # i PROVE new[a].pkt \in Pkts(q)
  <2>1. PICK k \in 1 .. n : a = At(k)
    BY <1>12, <1>18
  <2>2. new[a] = list[k] /\ k \in DOMAIN list
    BY <1>1, <1>10, <2>1
  <2> QED BY <2>2, Zenon DEF Pkts, list
<1>19. NewInOrder(q, r)
  BY <1>5, <1>15, <1>18, Zenon DEF NewInOrder, new
<1>20. f => NewLast(q, r)
  <2>1. SUFFICES ASSUME f, NEW a \in 1 .. n + 1, NEW b \in 1 .. n + 1, a < b
                 PROVE  a # i
    BY <1>5, <1>18, Zenon DEF NewLast, new
  <2>2. SUFFICES ASSUME a = i PROVE FALSE
    OBVIOUS
  <2>3. PICK k \in 1 .. n : b = At(k)
    BY <1>1, <1>12, <2>1, <2>2
  <2> QED BY <1>1, <1>3, <1>13, <1>14, <2>1, <2>2, <2>3
<1>21. list # <<>> /\ list[1].tick = 0 => new[1] = list[1]
  <2>1. SUFFICES ASSUME list # <<>>, list[1].tick = 0 PROVE new[1] = list[1]
    OBVIOUS
  <2>2. i # 1
    BY <1>2, <1>3, <2>1
  <2>3. 1 \in 1 .. i - 1
    BY <1>1, <1>3, <2>2
  <2> QED BY <1>5, <2>3, Zenon
<1> QED BY <1>16, <1>17, <1>19, <1>20, <1>21, Zenon DEF r, new, list

(* Sending the first packet leaves the others in order. *)
LEMMA OfferedOrder ==
    ASSUME NEW q \in QueueType, Sorted(q.transmitList), q.transmitList # <<>>
    PROVE  Sorted(Offered(q).transmitList) /\ KeepsRest(q, Offered(q))
<1> DEFINE list == q.transmitList
           tail == Tail(list)
           n    == Len(list)
<1>1. /\ n \in Nat /\ DOMAIN list = 1 .. n /\ DOMAIN tail = 1 .. n - 1
      /\ \A i \in 1 .. n - 1 : tail[i] = list[i + 1]
  BY DEF QueueType
<1>2. Offered(q).transmitList = tail
  BY Zenon DEF Offered, QueueType
<1>3. \A i, j \in 1 .. n : i < j => list[i].tick <= list[j].tick
  BY <1>1 DEF Sorted
<1> HIDE DEF list, tail, n
<1>4. Sorted(tail)
  <2>1. \A i \in 1 .. n - 1 : i + 1 \in 1 .. n /\ tail[i] = list[i + 1]
    BY <1>1
  <2>2. \A i, j \in 1 .. n - 1 : i < j => i + 1 < j + 1
    BY <1>1
  <2> QED BY <1>1, <1>3, <2>1, <2>2 DEF Sorted
<1>5. KeepsRest(q, Offered(q))
  <2>1. SUFFICES ASSUME NEW pq \in Order(list), pq[1] # list[1].pkt PROVE pq \in Order(tail)
    BY <1>2, Zenon DEF KeepsRest, list
  <2>2. PICK a, b \in DOMAIN list : a < b /\ pq = <<list[a].pkt, list[b].pkt>>
    BY OrderPairs, Zenon
  <2>3. a # 1
    BY <2>1, <2>2
  <2>4. /\ a - 1 \in DOMAIN tail /\ b - 1 \in DOMAIN tail /\ a - 1 < b - 1
        /\ tail[a - 1] = list[a] /\ tail[b - 1] = list[b]
    BY <1>1, <2>2, <2>3
  <2> QED BY <2>2, <2>4, OrderPairs, Zenon
<1> QED BY <1>2, <1>4, <1>5, Zenon

(* A packet on the list is there at some position. *)
LEMMA NoneNew ==
    ASSUME NEW q, NEW r, Pkts(r) \subseteq Pkts(q)
    PROVE  NewInOrder(q, r)
<1>1. \A i \in DOMAIN r.transmitList : r.transmitList[i].pkt \in Pkts(q)
  BY Zenon DEF Pkts
<1> QED BY <1>1, Zenon DEF NewInOrder

(* Nothing changes when a queue keeps its list. *)
LEMMA SameOrder ==
    ASSUME NEW q, NEW r, r.transmitList = q.transmitList
    PROVE  Keeps(q, r)
<1>1. Pkts(r) = Pkts(q)
  BY Zenon DEF Pkts
<1>2. NewInOrder(q, r)
  BY <1>1, NoneNew, Zenon
<1> QED BY <1>2, Zenon DEF Keeps, KeepsRest, KeepsRefused

(* Time passes for all packets alike. *)
LEMMA OlderOrder ==
    ASSUME NEW q \in QueueType, Sorted(q.transmitList), Semi(q)
    PROVE  Sorted(Older(q).transmitList) /\ Keeps(q, Older(q))
<1> DEFINE list == q.transmitList
           new  == [i \in DOMAIN list |-> [tick |-> Passes(list[i].tick), pkt |-> list[i].pkt]]
           r    == Older(q)
<1>1. list \in Seq(Entry) /\ Len(list) \in Nat /\ DOMAIN list = 1 .. Len(list)
  BY DEF QueueType
<1>2. r.transmitList = new
  BY Zenon DEF Older, QueueType
<1>3. \A i \in DOMAIN list : list[i].tick \in Nat
  <2>1. \A i \in DOMAIN list : list[i] \in Entry
    BY <1>1
  <2> QED BY <2>1, LatencyAssumption DEF Entry
<1>4. /\ DOMAIN new = DOMAIN list
      /\ \A i \in DOMAIN list : new[i].tick = Passes(list[i].tick) /\ new[i].pkt = list[i].pkt
  BY Zenon
<1>5. \A i, j \in DOMAIN list : i < j => list[i].tick <= list[j].tick
  BY DEF Sorted
<1>6. \A x, y \in Nat : x <= y => Passes(x) <= Passes(y)
  BY DEF Passes
<1> HIDE DEF new, list, r
<1>7. Sorted(new)
  BY <1>3, <1>4, <1>5, <1>6, Zenon DEF Sorted
<1>8. Pkts(r) \subseteq Pkts(q)
  BY <1>2, <1>4, Zenon DEF Pkts, list
<1>9. KeepsRest(q, r)
  <2>1. SUFFICES ASSUME NEW pq \in Order(list) PROVE pq \in Order(new)
    BY <1>2, Zenon DEF KeepsRest, list
  <2>2. PICK a, b \in DOMAIN list : a < b /\ pq = <<list[a].pkt, list[b].pkt>>
    BY OrderPairs, Zenon
  <2>3. a \in DOMAIN new /\ b \in DOMAIN new /\ pq = <<new[a].pkt, new[b].pkt>>
    BY <1>4, <2>2, Zenon
  <2> QED BY <2>2, <2>3, OrderPairs, Zenon
<1>10. KeepsRefused(q, r)
  <2>1. SUFFICES ASSUME q.waitingOnRetry PROVE new[1].pkt = list[1].pkt
    BY <1>2, Zenon DEF KeepsRefused, list
  <2>2. list # <<>>
    BY <2>1 DEF Semi, list
  <2>3. 1 \in DOMAIN list
    BY <1>1, <2>2
  <2> QED BY <1>4, <2>3, Zenon
<1>11. NewInOrder(q, r)
  BY <1>8, NoneNew, Zenon
<1> QED BY <1>2, <1>7, <1>9, <1>10, <1>11, Zenon DEF Keeps, r

-----------------------------------------------------------------------------
(* One queue changes and keeps the order. *)
LEMMA OneKept ==
    ASSUME IInv, SortInv, NEW k \in Queues, NEW r, Sorted(r.transmitList),
           Keeps(queue[k], r), queue' = [queue EXCEPT ![k] = r]
    PROVE  SortInv' /\ \A j \in Queues : Keeps(queue[j], queue'[j])
<1>1. queue'[k] = r /\ \A j \in Queues : j # k => queue'[j] = queue[j]
  BY Zenon DEF IInv, QsOK
<1>2. \A j \in Queues : Keeps(queue[j], queue[j])
  BY SameOrder, Zenon
<1>3. SortInv'
  BY <1>1 DEF SortInv
<1> QED BY <1>1, <1>2, <1>3, Zenon

(* A packet is queued. *)
LEMMA QueuedKept ==
    ASSUME IInv, SortInv, NEW k \in Queues, NEW p \in Packets, NEW t \in 0 .. MaxLatency,
           NEW f \in BOOLEAN,
           queue' = [queue EXCEPT ![k] = schedSendTiming(queue[k], p, t, f)]
    PROVE  /\ SortInv' /\ \A j \in Queues : Keeps(queue[j], queue'[j])
           /\ f => NewLast(queue[k], queue'[k])
<1> DEFINE q == queue[k]
           r == schedSendTiming(q, p, t, f)
<1>1. q \in QueueType /\ Armed(q) /\ Sorted(q.transmitList)
  BY DEF IInv, QsOK, SortInv
<1> HIDE DEF q
<1>2. /\ Sorted(r.transmitList) /\ Order(q.transmitList) \subseteq Order(r.transmitList)
      /\ NewInOrder(q, r) /\ (f => NewLast(q, r))
      /\ q.transmitList # <<>> /\ q.transmitList[1].tick = 0 =>
            r.transmitList[1] = q.transmitList[1]
  BY <1>1, SchedOrder, Zenon
<1>3. queue' = [queue EXCEPT ![k] = r]
  BY DEF q
<1> HIDE DEF r
<1>4. KeepsRest(q, r)
  BY <1>2 DEF KeepsRest
<1>5. KeepsRefused(q, r)
  BY <1>1, <1>2 DEF KeepsRefused, Armed, Semi
<1>6. Keeps(q, r)
  BY <1>2, <1>4, <1>5 DEF Keeps
<1>7. SortInv' /\ \A j \in Queues : Keeps(queue[j], queue'[j])
  BY <1>2, <1>3, <1>6, OneKept, Zenon DEF q
<1>8. queue'[k] = r
  BY <1>3 DEF IInv, QsOK
<1> QED BY <1>2, <1>7, <1>8, Zenon DEF q

(* The first packet of a queue is sent, and perhaps another one queued. *)
LEMMA SentKept ==
    ASSUME IInv, SortInv, NEW k \in Queues, MaySend(queue[k]), NEW r \in QueueType,
           \/ r = Offered(queue[k])
           \/ \E p \in Packets \ InQueue(k), t \in 0 .. MaxLatency :
                 r = schedSendTiming(Offered(queue[k]), p, t, FALSE),
           queue' = [queue EXCEPT ![k] = Accepted(r)]
    PROVE  SortInv' /\ \A j \in Queues : Keeps(queue[j], queue'[j])
<1> DEFINE q == queue[k]
           o == Offered(q)
           a == Accepted(r)
<1>1. q \in QueueType /\ Once(q) /\ Armed(q) /\ Sorted(q.transmitList)
  BY DEF IInv, QsOK, SortInv
<1>2. InQueue(k) = Pkts(q)
  BY InQueuePkts
<1>3. q.transmitList # <<>>
  BY <1>1, ReadyFacts
<1> HIDE DEF q
<1>4. /\ o \in QueueType /\ Once(o) /\ Semi(o) /\ o.waitingOnRetry = FALSE
      /\ Pkts(o) \subseteq Pkts(q)
  <2>1. /\ o \in QueueType /\ Once(o) /\ Semi(o) /\ o.waitingOnRetry = FALSE
        /\ Pkts(o) = Pkts(q) \ {q.transmitList[1].pkt}
    BY <1>1, <1>3, OfferedFacts, Zenon
  <2> QED BY <2>1
<1>5. Sorted(o.transmitList) /\ KeepsRest(q, o)
  BY <1>1, <1>3, OfferedOrder, Zenon
<1> HIDE DEF o
<1>6. /\ Once(r) /\ Semi(r) /\ r.waitingOnRetry = FALSE
      /\ Sorted(r.transmitList) /\ KeepsRest(q, r) /\ NewInOrder(q, r)
  <2>1. CASE r = o
    <3>1. NewInOrder(q, o)
      BY <1>4, NoneNew, Zenon
    <3> QED BY <1>4, <1>5, <2>1, <3>1
  <2>2. ASSUME NEW p \in Packets \ InQueue(k), NEW t \in 0 .. MaxLatency,
               r = schedSendTiming(o, p, t, FALSE)
        PROVE  /\ Once(r) /\ Semi(r) /\ r.waitingOnRetry = FALSE
               /\ Sorted(r.transmitList) /\ KeepsRest(q, r) /\ NewInOrder(q, r)
    <3>1. p \in Packets /\ p \notin Pkts(o) /\ FALSE \in BOOLEAN
      BY <1>2, <1>4
    <3>2. Once(r) /\ Semi(r) /\ r.waitingOnRetry = o.waitingOnRetry
      BY <1>4, <2>2, <3>1, SchedFacts, Zenon
    <3>3. /\ Sorted(r.transmitList) /\ Order(o.transmitList) \subseteq Order(r.transmitList)
          /\ NewInOrder(o, r)
      BY <1>4, <1>5, <2>2, <3>1, SchedOrder, Zenon
    <3>4. KeepsRest(q, r)
      BY <1>5, <3>3, Zenon DEF KeepsRest
    <3>5. NewInOrder(q, r)
      BY <1>4, <3>3, Zenon DEF NewInOrder
    <3> QED BY <1>4, <3>2, <3>3, <3>4, <3>5, Zenon
  <2> QED BY <2>1, <2>2, Zenon DEF o, q
<1>7. a.transmitList = r.transmitList /\ a.waitingOnRetry = FALSE
  <2>1. a.transmitList = r.transmitList
    BY <1>6, AcceptedFacts, Zenon
  <2>2. a.waitingOnRetry = r.waitingOnRetry
    BY DEF Accepted, schedSendEvent, QueueType
  <2> QED BY <1>6, <2>1, <2>2
<1>8. queue' = [queue EXCEPT ![k] = a]
  OBVIOUS
<1> HIDE DEF a
<1>9. Keeps(q, a) /\ Sorted(a.transmitList)
  <2>1. KeepsRest(q, a) /\ Sorted(a.transmitList)
    BY <1>6, <1>7, Zenon DEF KeepsRest
  <2>2. KeepsRefused(q, a)
    BY <1>7, Zenon DEF KeepsRefused
  <2>3. NewInOrder(q, a)
    BY <1>6, <1>7, Zenon DEF NewInOrder
  <2> QED BY <2>1, <2>2, <2>3, Zenon DEF Keeps
<1> QED BY <1>8, <1>9, OneKept, Zenon DEF q

(* The DMA port queues at most one of its packets. *)
LEMMA DmaQueues ==
    ASSUME IInv, DmaAction \/ DmaSendEvent \/ recvReqRetry
    PROVE  \/ queue' = queue
           \/ \E p \in DmaPackets, t \in 0 .. MaxLatency :
                 queue' = [queue EXCEPT !["resp"] =
                              schedSendTiming(queue["resp"], p, t, FALSE)]
<1>1. port \in PortType /\ PortArmed(port)
  BY DEF IInv, PendCore
<1>2. ASSUME NEW d, d.transmitList \in Seq(DmaPackets), d.transmitList # <<>>, SendDma(d)
      PROVE  \/ queue' = queue
             \/ \E p \in DmaPackets, t \in 0 .. MaxLatency :
                   queue' = [queue EXCEPT !["resp"] =
                                schedSendTiming(queue["resp"], p, t, FALSE)]
  <2>1. Head(d.transmitList) \in DmaPackets
    BY <1>2
  <2> QED BY <1>2, <2>1, Zenon DEF SendDma, recvTimingReq
<1>3. CASE DmaSendEvent
  <2> DEFINE d == [port EXCEPT !.sendEvent = NotScheduled]
  <2>1. d.transmitList = port.transmitList /\ port.transmitList \in Seq(DmaPackets)
    BY <1>1 DEF PortType
  <2>2. port.sendEvent = 0 /\ SendDma(d)
    BY <1>3, Zenon DEF DmaSendEvent
  <2>3. port.transmitList # <<>>
    BY <1>1, <2>2, MaxTickAssumption DEF PortArmed, Dma!CanSend, NotScheduled
  <2> HIDE DEF d
  <2> QED BY <1>2, <2>1, <2>2, <2>3, Zenon
<1>4. CASE recvReqRetry
  <2>1. port.inRetry /\ SendDma(port)
    BY <1>4 DEF recvReqRetry
  <2>2. port.transmitList # <<>> /\ port.transmitList \in Seq(DmaPackets)
    BY <1>1, <2>1 DEF PortArmed, Dma!CanSend, PortType
  <2> QED BY <1>2, <2>1, <2>2, Zenon
<1>5. CASE DmaAction
  <2>1. PICK ps \in Transfers : queue' = queue \/ SendDma(Dma!queueDma(port, ps))
    BY <1>5, Zenon DEF DmaAction
  <2> DEFINE d == Dma!queueDma(port, ps)
  <2>2. ps \in Seq(DmaPackets) /\ ps # <<>>
    <3>1. CASE ps \in {<<p>> : p \in FreeDma}
      <4>1. PICK p \in FreeDma : ps = <<p>>
        BY <3>1
      <4> QED BY <4>1 DEF FreeDma
    <3>2. CASE ps \in {x \in FreeDma \X FreeDma : x[1] # x[2]}
      <4>1. PICK p1 \in FreeDma, p2 \in FreeDma : ps = <<p1, p2>>
        BY <3>2
      <4> QED BY <4>1 DEF FreeDma
    <3> QED BY <3>1, <3>2 DEF Transfers
  <2>3. port.transmitList \in Seq(DmaPackets) /\ d.transmitList = port.transmitList \o ps
    BY <1>1 DEF PortType, Dma!queueDma
  <2>4. d.transmitList \in Seq(DmaPackets) /\ d.transmitList # <<>>
    <3> HIDE DEF d
    <3>1. Len(port.transmitList \o ps) = Len(port.transmitList) + Len(ps) /\ Len(ps) > 0
      BY <2>2, <2>3
    <3> QED BY <2>2, <2>3, <3>1
  <2> QED BY <1>2, <2>1, <2>4, Zenon
<1> QED BY <1>3, <1>4, <1>5, Zenon

(* Every step keeps the lists sorted and the packets in order. *)
LEMMA NextKeepsOrder ==
    ASSUME IInv, SortInv, [Next]_vars
    PROVE  SortInv' /\ \A k \in Queues : Keeps(queue[k], queue'[k])
<1>1. ASSUME queue' = queue PROVE SortInv' /\ \A k \in Queues : Keeps(queue[k], queue'[k])
  <2>1. \A k \in Queues : Keeps(queue[k], queue[k])
    BY SameOrder, Zenon
  <2> QED BY <1>1, <2>1 DEF SortInv
<1>2. /\ "resp" \in Queues /\ "snoop" \in Queues /\ TRUE \in BOOLEAN /\ FALSE \in BOOLEAN
      /\ DmaPackets \subseteq Packets /\ CpuPackets \subseteq Packets
      /\ SnoopPackets \subseteq Packets
  BY DEF Queues, Packets
<1>3. CASE CpuRequest
  <2>1. PICK p \in CpuPackets, t \in 0 .. MaxLatency :
            queue' = [queue EXCEPT !["resp"] = schedSendTiming(queue["resp"], p, t, FALSE)]
    BY <1>3, Zenon DEF CpuRequest, recvTimingReq
  <2> QED BY <1>2, <2>1, QueuedKept, Zenon
<1>4. CASE SnoopAnswer \/ SnoopForward
  <2>1. PICK p \in SnoopPackets, t \in 0 .. MaxLatency, f \in BOOLEAN :
            queue' = [queue EXCEPT !["snoop"] = schedSendTiming(queue["snoop"], p, t, f)]
    BY <1>2, <1>4, Zenon DEF SnoopAnswer, SnoopForward
  <2> QED BY <1>2, <2>1, QueuedKept, Zenon
<1>5. CASE DmaAction \/ DmaSendEvent \/ recvReqRetry
  <2>1. CASE queue' = queue
    BY <1>1, <2>1
  <2>2. ASSUME NEW p \in DmaPackets, NEW t \in 0 .. MaxLatency,
               queue' = [queue EXCEPT !["resp"] =
                            schedSendTiming(queue["resp"], p, t, FALSE)]
        PROVE  SortInv' /\ \A k \in Queues : Keeps(queue[k], queue'[k])
    BY <1>2, <2>2, QueuedKept, Zenon
  <2> QED BY <1>5, <2>1, <2>2, DmaQueues, Zenon
<1>6. ASSUME NEW k \in Queues, RefusePacket(k)
      PROVE  SortInv' /\ \A j \in Queues : Keeps(queue[j], queue'[j])
  <2> DEFINE r == Refused(queue[k])
  <2>1. queue[k] \in QueueType /\ Sorted(queue[k].transmitList)
    BY DEF IInv, QsOK, SortInv
  <2>2. r.transmitList = queue[k].transmitList /\ queue' = [queue EXCEPT ![k] = r]
    BY <1>6, <2>1 DEF RefusePacket, Refused, QueueType
  <2> HIDE DEF r
  <2>3. Keeps(queue[k], r) /\ Sorted(r.transmitList)
    BY <2>1, <2>2, SameOrder, Zenon
  <2> QED BY <2>2, <2>3, OneKept, Zenon
<1>7. ASSUME NEW k \in Queues, SendPacket(k)
      PROVE  SortInv' /\ \A j \in Queues : Keeps(queue[j], queue'[j])
  <2>1. MaySend(queue[k]) /\ queue' = [queue EXCEPT ![k] = Accepted(Offered(queue[k]))]
    BY <1>7, Zenon DEF SendPacket, AcceptPacket
  <2>2. queue[k] \in QueueType /\ Once(queue[k]) /\ Armed(queue[k])
    BY DEF IInv, QsOK
  <2>3. queue[k].transmitList # <<>>
    BY <2>1, <2>2, ReadyFacts
  <2>4. Offered(queue[k]) \in QueueType
    BY <2>2, <2>3, OfferedFacts, Zenon
  <2> QED BY <2>1, <2>4, SentKept, Zenon
<1>8. CASE SendAndAccess
  <2> DEFINE o == Offered(queue["resp"])
  <2>1. MaySend(queue["resp"])
    BY <1>8 DEF SendAndAccess
  <2>2. PICK p \in CpuPackets \ InQueue("resp"), t \in 0 .. MaxLatency :
          queue' = [queue EXCEPT !["resp"] = Accepted(schedSendTiming(o, p, t, FALSE))]
    BY <1>8, Zenon DEF SendAndAccess, AcceptPacket, recvTimingReq
  <2> DEFINE r == schedSendTiming(o, p, t, FALSE)
  <2>3. queue["resp"] \in QueueType /\ Once(queue["resp"]) /\ Armed(queue["resp"])
    BY <1>2 DEF IInv, QsOK
  <2>4. queue["resp"].transmitList # <<>>
    BY <2>1, <2>3, ReadyFacts
  <2>5. o \in QueueType
    BY <2>3, <2>4, OfferedFacts, Zenon
  <2>6. p \in Packets \ InQueue("resp")
    BY <1>2
  <2>7. r \in QueueType
    <3> HIDE DEF o
    <3> QED BY <1>2, <2>5, <2>6, Inserted, Zenon
  <2>8. \E x \in Packets \ InQueue("resp"), y \in 0 .. MaxLatency :
           r = schedSendTiming(Offered(queue["resp"]), x, y, FALSE)
    BY <2>6, Zenon
  <2>9. queue' = [queue EXCEPT !["resp"] = Accepted(r)]
    BY <2>2, Zenon
  <2> HIDE DEF r
  <2> QED BY <1>2, <2>1, <2>7, <2>8, <2>9, SentKept, Zenon
<1>9. CASE Tick
  <2>1. queue' = [k \in Queues |-> Older(queue[k])]
    BY <1>9 DEF Tick
  <2>2. \A k \in Queues : queue[k] \in QueueType /\ Sorted(queue[k].transmitList) /\ Semi(queue[k])
    BY DEF IInv, QsOK, SortInv, Armed
  <2>3. \A k \in Queues : Sorted(Older(queue[k]).transmitList) /\ Keeps(queue[k], Older(queue[k]))
    BY <2>2, OlderOrder, Zenon
  <2>4. \A k \in Queues : queue'[k] = Older(queue[k])
    BY <2>1, Zenon
  <2> QED BY <2>3, <2>4, Zenon DEF SortInv
<1>10. CASE Instantiate \/ Simulate \/ SimulateReturns \/ setMemoryMode \/ Drain
  BY <1>1, <1>10, Zenon DEF Instantiate, Simulate, SimulateReturns, setMemoryMode, Drain
<1>11. CASE UNCHANGED vars
  BY <1>1, <1>11 DEF vars
<1> QED
  BY <1>3, <1>4, <1>5, <1>6, <1>7, <1>8, <1>9, <1>10, <1>11, Zenon DEF Next

(* A snoop answer goes behind all other packets. *)
LEMMA AnswerIsLast ==
    ASSUME IInv, SortInv, SnoopAnswer
    PROVE  NewLast(queue["snoop"], queue'["snoop"])
<1>1. PICK p \in SnoopPackets, t \in 0 .. MaxLatency :
          queue' = [queue EXCEPT !["snoop"] = schedSendTiming(queue["snoop"], p, t, TRUE)]
  BY Zenon DEF SnoopAnswer
<1>2. "snoop" \in Queues /\ p \in Packets /\ TRUE \in BOOLEAN
  BY DEF Queues, Packets
<1> QED BY <1>1, <1>2, QueuedKept, Zenon

(* The lists are sorted initially. *)
LEMMA InitSorted == Init => SortInv
BY DEF Init, SortInv, Sorted, EmptyQueue, Queues

(* The order of packets, for any packets, latencies and number of them:    *)
(* sendDeferredPacket and schedSendTiming never overtake a packet refused  *)
(* by the peer, never reorder those behind the first one, insert a new one *)
(* before later packets only, and a snoop answer behind all.               *)
THEOREM PacketOrder == Spec => PacketsKeepOrder
<1> DEFINE A == \A k \in Queues :
          LET old == queue[k].transmitList
              new == queue'[k].transmitList
              isNew(i) == new[i].pkt \notin InQueue(k)
          IN /\ {pq \in Order(old) : pq[1] # old[1].pkt} \subseteq Order(new)
             /\ queue[k].waitingOnRetry /\ queue'[k].waitingOnRetry =>
                   old[1].pkt = new[1].pkt
             /\ \A i, j \in DOMAIN new : isNew(i) /\ i < j =>
                   new[i].tick < new[j].tick /\ ~(k = "snoop" /\ SnoopAnswer)
<1>1. ASSUME IInv, SortInv, [Next]_vars PROVE SortInv' /\ A
  <2>1. SortInv' /\ \A k \in Queues : Keeps(queue[k], queue'[k])
    BY <1>1, NextKeepsOrder, Zenon
  <2>2. ASSUME NEW k \in Queues, NEW i \in DOMAIN queue'[k].transmitList,
               NEW j \in DOMAIN queue'[k].transmitList, i < j,
               queue'[k].transmitList[i].pkt \notin InQueue(k), k = "snoop", SnoopAnswer
        PROVE  FALSE
    <3>1. NewLast(queue[k], queue'[k])
      BY <1>1, <2>2, AnswerIsLast, Zenon
    <3>2. queue'[k].transmitList[i].pkt \in Pkts(queue[k])
      BY <2>2, <3>1, Zenon DEF NewLast
    <3> QED BY <2>2, <3>2, InQueuePkts, Zenon
  <2>3. ASSUME NEW k \in Queues, NEW i \in DOMAIN queue'[k].transmitList,
               NEW j \in DOMAIN queue'[k].transmitList, i < j,
               queue'[k].transmitList[i].pkt \notin InQueue(k)
        PROVE  queue'[k].transmitList[i].tick < queue'[k].transmitList[j].tick
    <3>1. NewInOrder(queue[k], queue'[k]) /\ queue'[k].transmitList[i].pkt \notin Pkts(queue[k])
      BY <2>1, <2>3, InQueuePkts, Zenon DEF Keeps
    <3> QED BY <2>3, <3>1, Zenon DEF NewInOrder
  <2> QED BY <2>1, <2>2, <2>3, Zenon DEF Keeps, KeepsRest, KeepsRefused
<1> HIDE DEF A
<1>2. IInv /\ SortInv /\ [Next]_vars => SortInv' /\ [A]_vars
  BY <1>1
<1>3. Spec => [][A]_vars
  BY <1>2, InitSorted, DrainInvariant, PTL DEF Spec
<1> QED BY <1>3, PTL DEF A, PacketsKeepOrder

=============================================================================
