------------------------------ MODULE XBarProofs ------------------------------
(***************************************************************************)
(* Proofs of the safety properties of XBar, for any number of ports and    *)
(* packets.                                                                *)
(*                                                                         *)
(* retryWaiting calls a port that calls the crossbar again, so the proof   *)
(* follows the state through the call: a layer that has sent a retry is    *)
(* Retrying, all others are LayerOK, and recvTiming keeps that.  Who waits *)
(* where is Unique(L, st): In(l, p) says that p waits at the layer l, and  *)
(* each handler is first shown to add one port to In, to remove one, or to *)
(* leave it alone.                                                         *)
(***************************************************************************)
EXTENDS XBar, TLAPS, FiniteSetTheorems

XType ==
    [layers : [Ports -> Layer], routeTo : [Packets -> Ports \cup {NULL}],
     at : [Packets -> {"master", "slave"}], stalled : [Ports -> BOOLEAN]]

(* Port p waits at the layer l *)
In(l, p) ==
    \/ l.waitingForPeer = p
    \/ \E i \in DOMAIN l.waitingForLayer : l.waitingForLayer[i] = p

(* ... at most once *)
Inj(l) ==
    LET q == l.waitingForLayer
    IN /\ \A i, j \in DOMAIN q : q[i] = q[j] => i = j
       /\ \A i \in DOMAIN q : q[i] # l.waitingForPeer

Unique(L, st) ==
    /\ \A d \in Ports : Inj(L[d])
    /\ \A d, e \in Ports : \A p \in Ports : In(L[d], p) /\ In(L[e], p) => d = e
    /\ \A p \in Ports : st[p] <=> \E d \in Ports : In(L[d], p)

LayerOK(l) ==
    /\ l.state = IF l.releaseEvent THEN "BUSY" ELSE "IDLE"
    /\ ~l.releaseEvent /\ l.waitingForPeer = NULL => l.waitingForLayer = <<>>
    /\ l.drainState = "Draining" => l.releaseEvent \/ l.waitingForPeer # NULL

Retrying(l) ==
    l.state = "RETRY" /\ ~l.releaseEvent /\ l.waitingForPeer = NULL

Route(x) ==
    \A p \in Packets : x.routeTo[p] = IF x.at[p] = "slave" THEN Owner[p] ELSE NULL

(* The part of the invariant that holds in the middle of a call, too *)
Core(x) == x \in XType /\ Unique(x.layers, x.stalled) /\ Route(x)

(* The inductive invariant *)
IInv == Core(xbar) /\ \A d \in Ports : LayerOK(xbar.layers[d])

-----------------------------------------------------------------------------
(* One layer: who waits there after each handler *)

(* tryTiming of a layer that is taken adds the sender to the list. *)
LEMMA QueuedIn ==
    ASSUME NEW l \in Layer, NEW src \in Ports, Taken(l), ~In(l, src), Inj(l)
    PROVE  LET m == tryTiming(l, src)
           IN /\ m \in Layer /\ Inj(m)
              /\ \A p \in Ports : In(m, p) <=> In(l, p) \/ p = src
<1> DEFINE m == tryTiming(l, src)
           q == l.waitingForLayer
<1>1. /\ q \in Seq(Ports) /\ Len(q) \in Nat /\ Append(q, src) \in Seq(Ports)
      /\ m = [l EXCEPT !.waitingForLayer = Append(q, src)]
  BY DEF tryTiming, Layer
<1>2. /\ m.waitingForLayer = Append(q, src)
      /\ m.waitingForPeer = l.waitingForPeer
      /\ m \in Layer
  <2> HIDE DEF m, q
  <2> QED BY <1>1, Zenon DEF Layer
<1>3. /\ DOMAIN q = 1..Len(q) /\ DOMAIN Append(q, src) = 1..(Len(q) + 1)
      /\ \A i \in 1..Len(q) : Append(q, src)[i] = q[i]
      /\ Append(q, src)[Len(q) + 1] = src
  BY <1>1
<1>4. \A i \in 1..(Len(q) + 1) : i \in 1..Len(q) \/ i = Len(q) + 1
  BY <1>1
<1>5. \A i \in 1..Len(q) : i \in 1..(Len(q) + 1) /\ i # Len(q) + 1
  BY <1>1
<1>6. Len(q) + 1 \in 1..(Len(q) + 1)
  BY <1>1
<1>7. src # l.waitingForPeer /\ \A i \in DOMAIN q : q[i] # src
  BY Zenon DEF In
<1> HIDE DEF m, q
<1>8. Inj(m)
  BY <1>2, <1>3, <1>4, <1>7 DEF Inj, q
<1>9. \A p \in Ports : In(m, p) <=> In(l, p) \/ p = src
  BY <1>2, <1>3, <1>4, <1>5, <1>6, Zenon DEF In, q
<1> QED BY <1>2, <1>8, <1>9, Zenon DEF m

(* A refusal by the peer makes the sender wait for it. *)
LEMMA FailedIn ==
    ASSUME NEW l \in Layer, NEW src \in Ports, ~Taken(l), ~In(l, src), Inj(l)
    PROVE  LET m == failedTiming(tryTiming(l, src), src)
           IN /\ m \in Layer /\ Inj(m)
              /\ m.state = "BUSY" /\ m.releaseEvent
              /\ \A p \in Ports : In(m, p) <=> In(l, p) \/ p = src
<1> DEFINE t == tryTiming(l, src)
           m == failedTiming(t, src)
<1>1. /\ t \in Layer /\ t.state = "BUSY" /\ t.waitingForLayer = l.waitingForLayer
      /\ l.waitingForPeer = NULL
  BY Zenon DEF tryTiming, Layer, Taken
<1> HIDE DEF t
<1>2. /\ m \in Layer /\ m.state = "BUSY" /\ m.releaseEvent = TRUE
      /\ m.waitingForLayer = l.waitingForLayer /\ m.waitingForPeer = src
  BY <1>1, Zenon DEF failedTiming, occupyLayer, Layer
<1> HIDE DEF m
<1>3. Inj(m)
  BY <1>2, Zenon DEF Inj, In
<1>4. \A p \in Ports : In(m, p) <=> In(l, p) \/ p = src
  BY <1>1, <1>2, PortsAssumption, Zenon DEF In
<1> QED BY <1>2, <1>3, <1>4, Zenon DEF m, t

(* A packet that passes leaves those who wait where they are. *)
LEMMA SucceededIn ==
    ASSUME NEW l \in Layer, NEW src \in Ports, ~Taken(l), Inj(l)
    PROVE  LET m == succeededTiming(tryTiming(l, src))
           IN /\ m \in Layer /\ Inj(m)
              /\ m.state = "BUSY" /\ m.releaseEvent
              /\ \A p \in Ports : In(m, p) <=> In(l, p)
<1> DEFINE t == tryTiming(l, src)
           m == succeededTiming(t)
<1>1. /\ t \in Layer /\ t.state = "BUSY" /\ t.waitingForLayer = l.waitingForLayer
      /\ t.waitingForPeer = l.waitingForPeer
  BY Zenon DEF tryTiming, Layer
<1> HIDE DEF t
<1>2. /\ m \in Layer /\ m.state = "BUSY" /\ m.releaseEvent = TRUE
      /\ m.waitingForLayer = l.waitingForLayer
      /\ m.waitingForPeer = l.waitingForPeer
  BY <1>1, Zenon DEF succeededTiming, occupyLayer, Layer
<1> HIDE DEF m
<1> QED BY <1>2, Zenon DEF Inj, In, m, t

(* The first port of the list leaves it *)
LEMMA StartRetryIn ==
    ASSUME NEW l \in Layer, MayRetry(l), Inj(l)
    PROVE  LET m == StartRetry(l)
               port == Head(l.waitingForLayer)
           IN /\ m \in Layer /\ Inj(m) /\ port \in Ports
              /\ m.state = "RETRY" /\ m.releaseEvent = l.releaseEvent
              /\ m.waitingForPeer = NULL
              /\ \A p \in Ports : In(m, p) <=> In(l, p) /\ p # port
<1> DEFINE m == StartRetry(l)
           q == l.waitingForLayer
<1>1. q \in Seq(Ports) /\ q # <<>> /\ Len(q) \in Nat /\ l.waitingForPeer = NULL
  BY DEF MayRetry, Layer
<1>2. /\ Tail(q) \in Seq(Ports) /\ Head(q) \in Ports /\ Head(q) = q[1]
      /\ 1 \in DOMAIN q
      /\ \A i \in DOMAIN Tail(q) : i + 1 \in DOMAIN q /\ Tail(q)[i] = q[i + 1]
                                   /\ i + 1 # 1
      /\ \A i \in DOMAIN q : i # 1 => i - 1 \in DOMAIN Tail(q)
                                      /\ Tail(q)[i - 1] = q[i]
      /\ \A i, j \in DOMAIN Tail(q) : i + 1 = j + 1 => i = j
  BY <1>1
<1>3. /\ m \in Layer /\ m.state = "RETRY" /\ m.releaseEvent = l.releaseEvent
      /\ m.waitingForPeer = NULL /\ m.waitingForLayer = Tail(q)
  BY <1>1, <1>2, Zenon DEF StartRetry, Layer
<1> HIDE DEF m, q
<1>4. Inj(m)
  BY <1>1, <1>2, <1>3 DEF Inj, q
<1>5. \A p \in Ports : In(m, p) <=> In(l, p) /\ p # Head(q)
  <2> TAKE p \in Ports
  <2>1. p # NULL
    BY PortsAssumption, Zenon
  <2>2. In(l, p) <=> \E i \in DOMAIN q : q[i] = p
    BY <1>1, <2>1, Zenon DEF In, q
  <2>3. In(m, p) <=> \E i \in DOMAIN Tail(q) : Tail(q)[i] = p
    BY <1>3, <2>1, Zenon DEF In
  <2>4. \A i \in DOMAIN q : q[i] = q[1] => i = 1
    BY <1>2, Zenon DEF Inj, q
  <2>5. ASSUME NEW i \in DOMAIN Tail(q), Tail(q)[i] = p
        PROVE  p # Head(q) /\ \E j \in DOMAIN q : q[j] = p
    BY <1>2, <2>4, <2>5, Zenon
  <2>6. ASSUME NEW i \in DOMAIN q, q[i] = p, p # Head(q)
        PROVE  \E j \in DOMAIN Tail(q) : Tail(q)[j] = p
    BY <1>2, <2>6, Zenon
  <2> QED BY <2>2, <2>3, <2>5, <2>6, Zenon
<1> QED BY <1>2, <1>3, <1>4, <1>5, Zenon DEF m, q

(* The refused port goes to the front of the list *)
LEMMA PeerRetriedIn ==
    ASSUME NEW l \in Layer, l.waitingForPeer # NULL, Inj(l)
    PROVE  LET m == PeerRetried(l)
           IN /\ m \in Layer /\ Inj(m)
              /\ m.state = l.state /\ m.releaseEvent = l.releaseEvent
              /\ m.waitingForPeer = NULL /\ m.waitingForLayer # <<>>
              /\ m.drainState = l.drainState
              /\ \A p \in Ports : In(m, p) <=> In(l, p)
<1> DEFINE m == PeerRetried(l)
           q == l.waitingForLayer
           w == l.waitingForPeer
           r == <<w>> \o q
<1>1. q \in Seq(Ports) /\ w \in Ports /\ Len(q) \in Nat
  BY DEF Layer
<1>2. /\ r \in Seq(Ports) /\ r # <<>> /\ r[1] = w /\ 1 \in DOMAIN r
      /\ DOMAIN r = 1..(Len(q) + 1) /\ DOMAIN q = 1..Len(q)
      /\ \A i \in DOMAIN r : i # 1 => i - 1 \in DOMAIN q /\ r[i] = q[i - 1]
      /\ \A i \in DOMAIN q : i + 1 \in DOMAIN r /\ r[i + 1] = q[i]
      /\ \A i, j \in DOMAIN r : i - 1 = j - 1 => i = j
  BY <1>1
<1>3. /\ m \in Layer /\ m.state = l.state /\ m.releaseEvent = l.releaseEvent
      /\ m.waitingForPeer = NULL /\ m.waitingForLayer = r
      /\ m.drainState = l.drainState
  BY <1>1, <1>2, Zenon DEF PeerRetried, Layer
<1> HIDE DEF m, q, w, r
<1>4. Inj(m)
  <2>1. \A i \in DOMAIN r : r[i] # NULL
    BY <1>2, PortsAssumption
  <2>2. \A i \in DOMAIN q : q[i] # w
    BY Zenon DEF Inj, q, w
  <2>3. \A i, j \in DOMAIN q : q[i] = q[j] => i = j
    BY Zenon DEF Inj, q
  <2>4. \A i, j \in DOMAIN r : r[i] = r[j] => i = j
    BY <1>2, <2>2, <2>3
  <2> QED BY <1>3, <2>1, <2>4, Zenon DEF Inj
<1>5. \A p \in Ports : In(m, p) <=> In(l, p)
  <2> TAKE p \in Ports
  <2>1. In(l, p) <=> p = w \/ \E i \in DOMAIN q : q[i] = p
    BY Zenon DEF In, q, w
  <2>2. In(m, p) <=> \E i \in DOMAIN r : r[i] = p
    BY <1>3, PortsAssumption, Zenon DEF In
  <2>3. ASSUME NEW i \in DOMAIN r, r[i] = p
        PROVE  p = w \/ \E j \in DOMAIN q : q[j] = p
    BY <1>2, <2>3, Zenon
  <2>4. ASSUME NEW i \in DOMAIN q, q[i] = p
        PROVE  \E j \in DOMAIN r : r[j] = p
    BY <1>2, <2>4, Zenon
  <2> QED BY <1>2, <2>1, <2>2, <2>3, <2>4, Zenon
<1> QED BY <1>2, <1>3, <1>4, <1>5, Zenon DEF m

-----------------------------------------------------------------------------
(* All layers: one of them changes from L[d] to m *)

(* The same ports wait at m. *)
LEMMA UniqueSame ==
    ASSUME NEW L \in [Ports -> Layer], NEW st, Unique(L, st), NEW d \in Ports,
           NEW m, Inj(m), \A p \in Ports : In(m, p) <=> In(L[d], p)
    PROVE  Unique([L EXCEPT ![d] = m], st)
BY DEF Unique

(* One more port waits at m, and has become stalled. *)
LEMMA UniqueAdd ==
    ASSUME NEW L \in [Ports -> Layer], NEW st \in [Ports -> BOOLEAN],
           Unique(L, st), NEW d \in Ports, NEW src \in Ports, ~st[src],
           NEW m, Inj(m), \A p \in Ports : In(m, p) <=> In(L[d], p) \/ p = src
    PROVE  Unique([L EXCEPT ![d] = m], [st EXCEPT ![src] = TRUE])
BY DEF Unique

(* One port less waits at m, and is not stalled any more. *)
LEMMA UniqueRemove ==
    ASSUME NEW L \in [Ports -> Layer], NEW st \in [Ports -> BOOLEAN],
           Unique(L, st), NEW d \in Ports, NEW src \in Ports, In(L[d], src),
           NEW m, Inj(m), \A p \in Ports : In(m, p) <=> In(L[d], p) /\ p # src
    PROVE  Unique([L EXCEPT ![d] = m], [st EXCEPT ![src] = FALSE])
BY DEF Unique

-----------------------------------------------------------------------------
(* The fields of a crossbar after an update *)
LEMMA Update ==
    ASSUME NEW x \in XType, NEW d \in Ports, NEW l \in Layer
    PROVE  LET y == [x EXCEPT !.layers[d] = l]
           IN /\ y \in XType /\ y.layers = [x.layers EXCEPT ![d] = l]
              /\ y.stalled = x.stalled /\ y.at = x.at /\ y.routeTo = x.routeTo
BY Zenon DEF XType

Stall(x, d, l, s) == [x EXCEPT !.layers[d] = l, !.stalled[s] = TRUE]

(* The fields after a refusal *)
LEMMA UpdateStall ==
    ASSUME NEW x \in XType, NEW d \in Ports, NEW l \in Layer, NEW s \in Ports
    PROVE  LET y == Stall(x, d, l, s)
           IN /\ y \in XType /\ y.layers = [x.layers EXCEPT ![d] = l]
              /\ y.stalled = [x.stalled EXCEPT ![s] = TRUE]
              /\ y.at = x.at /\ y.routeTo = x.routeTo
BY Zenon DEF XType, Stall

Unstall(x, d, l, s) == [x EXCEPT !.layers[d] = l, !.stalled[s] = FALSE]

(* The fields after a retry *)
LEMMA UpdateUnstall ==
    ASSUME NEW x \in XType, NEW d \in Ports, NEW l \in Layer, NEW s \in Ports
    PROVE  LET y == Unstall(x, d, l, s)
           IN /\ y \in XType /\ y.layers = [x.layers EXCEPT ![d] = l]
              /\ y.stalled = [x.stalled EXCEPT ![s] = FALSE]
              /\ y.at = x.at /\ y.routeTo = x.routeTo
BY Zenon DEF XType, Unstall

(* Forwarding a packet, and only that, changes routes and places. *)
LEMMA ForwardedRoute ==
    ASSUME NEW x \in XType, Route(x), NEW p \in Packets
    PROVE  LET y == Forwarded(x, p)
           IN /\ y \in XType /\ y.layers = x.layers /\ y.stalled = x.stalled
              /\ Route(y)
<1> DEFINE y == Forwarded(x, p)
<1>1. Owner[p] \in Ports /\ Owner[p] # NULL
  BY PortsAssumption, Zenon DEF Ports
<1>2. CASE x.at[p] = "master" /\ p \in NeedsResponse
  <2>1. /\ y \in XType /\ y.layers = x.layers /\ y.stalled = x.stalled
        /\ y.at = [x.at EXCEPT ![p] = "slave"]
        /\ y.routeTo = [x.routeTo EXCEPT ![p] = Owner[p]]
    BY <1>1, <1>2, Zenon DEF Forwarded, XType
  <2> HIDE DEF y
  <2>2. Route(y)
    BY <2>1 DEF Route, XType
  <2> QED BY <2>1, <2>2, Zenon DEF y
<1>3. CASE x.at[p] = "master" /\ p \notin NeedsResponse
  BY <1>3, Zenon DEF Forwarded
<1>4. CASE x.at[p] # "master"
  <2>1. /\ y \in XType /\ y.layers = x.layers /\ y.stalled = x.stalled
        /\ y.at = [x.at EXCEPT ![p] = "master"]
        /\ y.routeTo = [x.routeTo EXCEPT ![p] = NULL]
    BY <1>4, Zenon DEF Forwarded, XType
  <2> HIDE DEF y
  <2>2. Route(y)
    BY <2>1 DEF Route, XType
  <2> QED BY <2>1, <2>2, Zenon DEF y
<1> QED BY <1>2, <1>3, <1>4, Zenon

(* A packet is sent to the crossbar by a port that does not wait, also     *)
(* from within a retry: every layer stays in order, and the only ones that *)
(* are still Retrying are those that were.                                 *)
LEMMA RecvTimingKeeps ==
    ASSUME NEW x, Core(x), NEW p \in Packets, NEW accepts,
           ~x.stalled[Sender(x, p)],
           \A d \in Ports : LayerOK(x.layers[d]) \/ Retrying(x.layers[d])
    PROVE  LET y == recvTiming(x, p, accepts)
           IN /\ Core(y)
              /\ \A d \in Ports :
                    \/ LayerOK(y.layers[d])
                    \/ Retrying(y.layers[d]) /\ Retrying(x.layers[d])
<1> DEFINE y == recvTiming(x, p, accepts)
           src == Sender(x, p)
           dst == Dest(x, p)
           l == x.layers[dst]
<1>1. x \in XType /\ Unique(x.layers, x.stalled) /\ Route(x)
  BY Zenon DEF Core
<1>2. src \in Ports /\ dst \in Ports
  BY <1>1, PortsAssumption, Zenon DEF Sender, Dest, Route, Ports, XType
<1>3. /\ x.layers \in [Ports -> Layer] /\ x.stalled \in [Ports -> BOOLEAN]
      /\ l \in Layer
  BY <1>1, <1>2, Zenon DEF XType
<1>4. Inj(l) /\ ~In(l, src)
  BY <1>1, <1>2, Zenon DEF Unique
<1>5. LayerOK(l) \/ Retrying(l)
  BY <1>2, Zenon
<1>6. y = IF Taken(l)
          THEN [x EXCEPT !.layers[dst] = tryTiming(l, src), !.stalled[src] = TRUE]
          ELSE IF accepts \/ x.at[p] = "slave"
          THEN [Forwarded(x, p) EXCEPT !.layers[dst] = succeededTiming(tryTiming(l, src))]
          ELSE [x EXCEPT !.layers[dst] = failedTiming(tryTiming(l, src), src),
                         !.stalled[src] = TRUE]
  BY Zenon DEF recvTiming
<1> HIDE DEF src, dst, l, y
<1>7. Core(y) /\ \E m : LayerOK(m) /\ y.layers = [x.layers EXCEPT ![dst] = m]
  <2>1. CASE Taken(l)
    <3> DEFINE m == tryTiming(l, src)
    <3>1. m \in Layer /\ Inj(m) /\ \A q \in Ports : In(m, q) <=> In(l, q) \/ q = src
      BY <1>2, <1>3, <1>4, <2>1, QueuedIn
    <3>2. LayerOK(m)
      BY <1>3, <1>5, <2>1, Zenon DEF tryTiming, LayerOK, Retrying, Layer, Taken
    <3> HIDE DEF m
    <3>3. y = Stall(x, dst, m, src)
      BY <1>6, <2>1, Zenon DEF m, Stall
    <3>4. /\ y \in XType /\ y.layers = [x.layers EXCEPT ![dst] = m]
          /\ y.stalled = [x.stalled EXCEPT ![src] = TRUE]
          /\ y.at = x.at /\ y.routeTo = x.routeTo
      BY <1>1, <1>2, <3>1, <3>3, UpdateStall
    <3>5. Unique(y.layers, y.stalled)
      BY <1>1, <1>2, <1>3, <3>1, <3>4, UniqueAdd DEF l, src
    <3>6. Core(y)
      BY <1>1, <3>4, <3>5, Zenon DEF Core, Route
    <3> QED BY <3>2, <3>4, <3>6, Zenon
  <2>2. CASE ~Taken(l) /\ (accepts \/ x.at[p] = "slave")
    <3> DEFINE m == succeededTiming(tryTiming(l, src))
    <3>1. /\ m \in Layer /\ Inj(m) /\ \A q \in Ports : In(m, q) <=> In(l, q)
          /\ m.state = "BUSY" /\ m.releaseEvent
      BY <1>2, <1>3, <1>4, <2>2, SucceededIn
    <3> HIDE DEF m
    <3>2. LayerOK(m)
      BY <3>1, Zenon DEF LayerOK
    <3> DEFINE z == Forwarded(x, p)
    <3>3. z \in XType /\ z.layers = x.layers /\ z.stalled = x.stalled /\ Route(z)
      BY <1>1, ForwardedRoute, Zenon
    <3> HIDE DEF z
    <3>4. y = [z EXCEPT !.layers[dst] = m]
      BY <1>6, <2>2, Zenon DEF m, z
    <3>5. /\ y \in XType /\ y.layers = [x.layers EXCEPT ![dst] = m]
          /\ y.stalled = x.stalled /\ y.at = z.at /\ y.routeTo = z.routeTo
      BY <1>2, <3>1, <3>3, <3>4, Update
    <3>6. Unique(y.layers, y.stalled)
      BY <1>1, <1>2, <1>3, <3>1, <3>5, UniqueSame DEF l
    <3>7. Core(y)
      BY <3>3, <3>5, <3>6 DEF Core, Route
    <3> QED BY <3>2, <3>5, <3>7, Zenon
  <2>3. CASE ~Taken(l) /\ ~(accepts \/ x.at[p] = "slave")
    <3> DEFINE m == failedTiming(tryTiming(l, src), src)
    <3>1. /\ m \in Layer /\ Inj(m) /\ m.state = "BUSY" /\ m.releaseEvent
          /\ \A q \in Ports : In(m, q) <=> In(l, q) \/ q = src
      BY <1>2, <1>3, <1>4, <2>3, FailedIn, Zenon
    <3> HIDE DEF m
    <3>2. LayerOK(m)
      BY <3>1, Zenon DEF LayerOK
    <3>3. y = Stall(x, dst, m, src)
      BY <1>6, <2>3, Zenon DEF m, Stall
    <3>4. /\ y \in XType /\ y.layers = [x.layers EXCEPT ![dst] = m]
          /\ y.stalled = [x.stalled EXCEPT ![src] = TRUE]
          /\ y.at = x.at /\ y.routeTo = x.routeTo
      BY <1>1, <1>2, <3>1, <3>3, UpdateStall
    <3>5. Unique(y.layers, y.stalled)
      BY <1>1, <1>2, <1>3, <3>1, <3>4, UniqueAdd DEF l, src
    <3>6. Core(y)
      BY <1>1, <3>4, <3>5, Zenon DEF Core, Route
    <3> QED BY <3>2, <3>4, <3>6, Zenon
  <2> QED BY <2>1, <2>2, <2>3, Zenon
<1>8. PICK m : LayerOK(m) /\ y.layers = [x.layers EXCEPT ![dst] = m]
  BY <1>7, Zenon
<1>9. \A d \in Ports :
        \/ LayerOK(y.layers[d])
        \/ Retrying(y.layers[d]) /\ Retrying(x.layers[d])
  <2> TAKE d \in Ports
  <2>1. LayerOK(x.layers[d]) \/ Retrying(x.layers[d])
    OBVIOUS
  <2>2. y.layers[d] = IF d = dst THEN m ELSE x.layers[d]
    BY <1>2, <1>3, <1>8, Zenon
  <2> QED BY <1>8, <2>1, <2>2, Zenon
<1> QED BY <1>7, <1>9, Zenon DEF y

(* A retry, with all that happens within the call, leaves every layer in   *)
(* order.                                                                  *)
LEMMA RetryKeeps ==
    ASSUME NEW x, Core(x), NEW dst \in Ports, MayRetry(x.layers[dst]),
           ~x.layers[dst].releaseEvent,
           \A d \in Ports \ {dst} : LayerOK(x.layers[d]),
           NEW ps \in Sends(x, Head(x.layers[dst].waitingForLayer)), NEW accepts
    PROVE  LET z == retryWaiting(x, dst, ps, accepts)
           IN Core(z) /\ \A d \in Ports : LayerOK(z.layers[d])
<1> DEFINE l == x.layers[dst]
           port == Head(l.waitingForLayer)
           m == StartRetry(l)
           y == Unstall(x, dst, m, port)
           z == IF ps = <<>> THEN y ELSE recvTiming(y, ps[1], accepts)
           w == [z EXCEPT !.layers[dst] = EndRetry(@)]
<1>1. /\ x \in XType /\ Unique(x.layers, x.stalled) /\ Route(x)
      /\ x.layers \in [Ports -> Layer] /\ x.stalled \in [Ports -> BOOLEAN]
      /\ l \in Layer /\ Inj(l)
  BY Zenon DEF Core, XType, Unique
<1>2. /\ m \in Layer /\ Inj(m) /\ port \in Ports
      /\ m.state = "RETRY" /\ m.releaseEvent = l.releaseEvent
      /\ m.waitingForPeer = NULL
      /\ \A p \in Ports : In(m, p) <=> In(l, p) /\ p # port
  BY <1>1, StartRetryIn, Zenon
<1>3. In(l, port)
  <2>1. l.waitingForLayer \in Seq(Ports) /\ l.waitingForLayer # <<>>
    BY <1>1, Zenon DEF Layer, MayRetry
  <2>2. 1 \in DOMAIN l.waitingForLayer /\ l.waitingForLayer[1] = port
    BY <2>1
  <2> QED BY <2>2, Zenon DEF In
<1>4. w = retryWaiting(x, dst, ps, accepts)
  BY Zenon DEF retryWaiting, Unstall
<1>5. Retrying(m)
  BY <1>2, Zenon DEF Retrying
<1> HIDE DEF m, port
<1>6. /\ y \in XType /\ y.layers = [x.layers EXCEPT ![dst] = m]
      /\ y.stalled = [x.stalled EXCEPT ![port] = FALSE]
      /\ y.at = x.at /\ y.routeTo = x.routeTo
  BY <1>1, <1>2, UpdateUnstall
<1> HIDE DEF y
<1>7. Core(y)
  <2>1. Unique(y.layers, y.stalled)
    BY <1>1, <1>2, <1>3, <1>6, UniqueRemove
  <2> QED BY <1>1, <1>6, <2>1, Zenon DEF Core, Route
<1>8. \A d \in Ports : LayerOK(y.layers[d]) \/ (Retrying(y.layers[d]) /\ d = dst)
  <2> TAKE d \in Ports
  <2>1. y.layers[d] = IF d = dst THEN m ELSE x.layers[d]
    BY <1>1, <1>6, Zenon
  <2> QED BY <1>5, <2>1, Zenon
<1>9. /\ Core(z)
      /\ \A d \in Ports : LayerOK(z.layers[d]) \/ (Retrying(z.layers[d]) /\ d = dst)
  <2>1. CASE ps = <<>>
    BY <1>7, <1>8, <2>1, Zenon
  <2>2. CASE ps # <<>>
    <3>1. PICK p \in Sendable(x, port) : ps = <<p>>
      BY <2>2, Zenon DEF Sends, port
    <3>2. p \in Packets /\ Sender(x, p) = port /\ ps[1] = p
      BY <3>1, Zenon DEF Sendable
    <3>3. Sender(y, p) = port
      BY <1>6, <3>2, Zenon DEF Sender
    <3>4. ~y.stalled[Sender(y, p)]
      BY <1>1, <1>2, <1>6, <3>3
    <3>5. z = recvTiming(y, p, accepts)
      BY <2>2, <3>2, Zenon
    <3> HIDE DEF z
    <3>6. \A d \in Ports : /\ LayerOK(y.layers[d]) \/ Retrying(y.layers[d])
                           /\ Retrying(y.layers[d]) => d = dst
      BY <1>8, Zenon DEF LayerOK, Retrying
    <3>7. /\ Core(z)
          /\ \A d \in Ports :
                \/ LayerOK(z.layers[d])
                \/ Retrying(z.layers[d]) /\ Retrying(y.layers[d])
      BY <1>7, <3>2, <3>4, <3>5, <3>6, RecvTimingKeeps
    <3> QED BY <3>6, <3>7, Zenon
  <2> QED BY <2>1, <2>2, Zenon
<1> HIDE DEF z
<1> DEFINE k == z.layers[dst]
           n == EndRetry(k)
<1>10. /\ z \in XType /\ Unique(z.layers, z.stalled) /\ Route(z)
       /\ z.layers \in [Ports -> Layer] /\ k \in Layer /\ Inj(k)
       /\ LayerOK(k) \/ Retrying(k)
  BY <1>9, Zenon DEF Core, XType, Unique
<1>11. /\ n \in Layer /\ LayerOK(n) /\ n.waitingForLayer = k.waitingForLayer
       /\ n.waitingForPeer = k.waitingForPeer
  <2>1. CASE k.state = "RETRY"
    <3>1. n = [k EXCEPT !.state = "BUSY", !.releaseEvent = TRUE]
      BY <1>10, <2>1, Zenon DEF EndRetry, occupyLayer, Layer
    <3> HIDE DEF n
    <3> QED BY <1>10, <3>1, Zenon DEF Layer, LayerOK
  <2>2. CASE k.state # "RETRY"
    BY <1>10, <2>2, Zenon DEF EndRetry, Retrying
  <2> QED BY <2>1, <2>2, Zenon
<1> HIDE DEF k, n
<1>12. Inj(n) /\ \A p \in Ports : In(n, p) <=> In(k, p)
  BY <1>10, <1>11, Zenon DEF Inj, In
<1>13. w = [z EXCEPT !.layers[dst] = n]
  BY Zenon DEF k, n
<1> HIDE DEF w
<1>14. /\ w \in XType /\ w.layers = [z.layers EXCEPT ![dst] = n]
       /\ w.stalled = z.stalled /\ w.at = z.at /\ w.routeTo = z.routeTo
  BY <1>10, <1>11, <1>13, Update
<1>15. Unique(w.layers, w.stalled)
  BY <1>10, <1>12, <1>14, UniqueSame DEF k
<1>16. Core(w)
  BY <1>10, <1>14, <1>15 DEF Core, Route
<1>17. \A d \in Ports : LayerOK(w.layers[d])
  <2> TAKE d \in Ports
  <2>1. w.layers[d] = IF d = dst THEN n ELSE z.layers[d]
    BY <1>10, <1>14, Zenon
  <2> QED BY <1>9, <1>11, <2>1
<1> QED BY <1>4, <1>16, <1>17

(* The end of releaseLayer and of recvRetry: the layer of dst has become   *)
(* l, with the same ports waiting.                                         *)
LEMMA ThenRetryKeeps ==
    ASSUME IInv, NEW dst \in Ports, NEW l \in Layer, NEW accepts,
           Inj(l), \A p \in Ports : In(l, p) <=> In(xbar.layers[dst], p),
           MayRetry(l) => ~l.releaseEvent, ~MayRetry(l) => LayerOK(l),
           ThenRetry(dst, l, accepts)
    PROVE  IInv'
<1> DEFINE x == [xbar EXCEPT !.layers[dst] = l]
<1>1. /\ xbar \in XType /\ Unique(xbar.layers, xbar.stalled) /\ Route(xbar)
      /\ xbar.layers \in [Ports -> Layer]
      /\ \A d \in Ports : LayerOK(xbar.layers[d])
  BY Zenon DEF IInv, Core, XType
<1>2. /\ x \in XType /\ x.layers = [xbar.layers EXCEPT ![dst] = l]
      /\ x.stalled = xbar.stalled /\ x.at = xbar.at /\ x.routeTo = xbar.routeTo
  BY <1>1, Update
<1>3. IF MayRetry(l)
      THEN \E ps \in Sends(x, Head(l.waitingForLayer)) :
               xbar' = retryWaiting(x, dst, ps, accepts)
      ELSE xbar' = x
  BY Zenon DEF ThenRetry
<1> HIDE DEF x
<1>4. Core(x)
  <2>1. Unique(x.layers, x.stalled)
    BY <1>1, <1>2, UniqueSame
  <2> QED BY <1>1, <1>2, <2>1, Zenon DEF Core, Route
<1>5. x.layers[dst] = l /\ \A d \in Ports \ {dst} : LayerOK(x.layers[d])
  BY <1>1, <1>2, Zenon
<1>6. CASE MayRetry(l)
  <2>1. PICK ps \in Sends(x, Head(l.waitingForLayer)) :
               xbar' = retryWaiting(x, dst, ps, accepts)
    BY <1>3, <1>6, Zenon
  <2>2. LET z == retryWaiting(x, dst, ps, accepts)
        IN Core(z) /\ \A d \in Ports : LayerOK(z.layers[d])
    BY <1>4, <1>5, <1>6, RetryKeeps, Zenon
  <2> QED BY <2>1, <2>2, Zenon DEF IInv
<1>7. CASE ~MayRetry(l)
  BY <1>3, <1>4, <1>5, <1>7, Zenon DEF IInv
<1> QED BY <1>6, <1>7, Zenon

-----------------------------------------------------------------------------
(* An idle crossbar satisfies the invariant. *)
LEMMA InitIInv == Init => IInv
<1> SUFFICES ASSUME Init PROVE IInv
  OBVIOUS
<1>1. IdleLayer \in Layer /\ LayerOK(IdleLayer) /\ Inj(IdleLayer)
  BY DEF IdleLayer, Layer, LayerOK, Inj
<1>2. \A p \in Ports : ~In(IdleLayer, p)
  BY PortsAssumption DEF IdleLayer, In
<1> HIDE DEF IdleLayer
<1>3. /\ xbar \in XType /\ xbar.layers = [d \in Ports |-> IdleLayer]
      /\ xbar.stalled = [s \in Ports |-> FALSE]
      /\ xbar.at = [p \in Packets |-> "master"]
      /\ xbar.routeTo = [p \in Packets |-> NULL]
  BY <1>1, Zenon DEF Init, XType
<1>4. Unique(xbar.layers, xbar.stalled)
  BY <1>1, <1>2, <1>3, Zenon DEF Unique
<1>5. Route(xbar)
  BY <1>3, Zenon DEF Route
<1> QED BY <1>1, <1>3, <1>4, <1>5, Zenon DEF IInv, Core

(* Every step of the crossbar keeps IInv. *)
LEMMA NextIInv == IInv /\ [Next]_xbar => IInv'
<1> SUFFICES ASSUME IInv, [Next]_xbar PROVE IInv'
  OBVIOUS
<1>0. /\ xbar \in XType /\ Unique(xbar.layers, xbar.stalled) /\ Route(xbar)
      /\ xbar.layers \in [Ports -> Layer] /\ Core(xbar)
      /\ \A d \in Ports : LayerOK(xbar.layers[d]) /\ Inj(xbar.layers[d])
  BY Zenon DEF IInv, Core, XType, Unique
<1>1. ASSUME NEW p \in Packets, NEW accepts, Send(p, accepts) PROVE IInv'
  <2>1. /\ ~xbar.stalled[Sender(xbar, p)]
        /\ xbar' = recvTiming(xbar, p, accepts)
    BY <1>1, Zenon DEF Send, Sendable
  <2>2. \A d \in Ports : ~Retrying(xbar.layers[d])
    BY <1>0, Zenon DEF LayerOK, Retrying
  <2> QED BY <1>0, <2>1, <2>2, RecvTimingKeeps, Zenon DEF IInv
<1>2. ASSUME NEW dst \in Ports, NEW accepts, releaseLayer(dst, accepts)
      PROVE  IInv'
  <2> DEFINE k == xbar.layers[dst]
             r == Released(k)
             l == IF DoneDraining(r) THEN [r EXCEPT !.drainState = "Drained"] ELSE r
  <2>1. /\ k \in Layer /\ LayerOK(k) /\ Inj(k) /\ k.releaseEvent = TRUE
        /\ ThenRetry(dst, l, accepts)
    BY <1>0, <1>2, Zenon DEF releaseLayer, Layer
  <2> HIDE DEF k
  <2>2. /\ r \in Layer /\ r.state = "IDLE" /\ r.releaseEvent = FALSE
        /\ r.waitingForLayer = k.waitingForLayer
        /\ r.waitingForPeer = k.waitingForPeer
    BY <2>1, ZenonT(30) DEF Released, Layer
  <2> HIDE DEF r
  <2>3. /\ l \in Layer /\ l.state = "IDLE" /\ l.releaseEvent = FALSE
        /\ l.waitingForLayer = k.waitingForLayer
        /\ l.waitingForPeer = k.waitingForPeer
        /\ DoneDraining(r) => l.drainState = "Drained"
        /\ ~DoneDraining(r) => l = r
    BY <2>2, Zenon DEF Layer
  <2>4. ~MayRetry(l) => LayerOK(l)
    BY <2>2, <2>3, Zenon DEF MayRetry, LayerOK, DoneDraining
  <2> HIDE DEF l
  <2>5. Inj(l) /\ \A p \in Ports : In(l, p) <=> In(k, p)
    BY <2>1, <2>3 DEF Inj, In
  <2> QED BY <2>1, <2>3, <2>4, <2>5, ThenRetryKeeps DEF k
<1>3. ASSUME NEW dst \in Ports, NEW accepts, recvRetry(dst, accepts)
      PROVE  IInv'
  <2> DEFINE k == xbar.layers[dst]
             l == PeerRetried(k)
  <2>1. /\ k \in Layer /\ LayerOK(k) /\ Inj(k) /\ k.waitingForPeer # NULL
        /\ ThenRetry(dst, l, accepts)
    BY <1>0, <1>3, Zenon DEF recvRetry
  <2> HIDE DEF k
  <2>2. /\ l \in Layer /\ Inj(l)
        /\ l.state = k.state /\ l.releaseEvent = k.releaseEvent
        /\ l.waitingForPeer = NULL /\ l.waitingForLayer # <<>>
        /\ l.drainState = k.drainState
        /\ \A p \in Ports : In(l, p) <=> In(k, p)
    BY <2>1, PeerRetriedIn, Zenon
  <2> HIDE DEF l
  <2>3. (MayRetry(l) => ~l.releaseEvent) /\ (~MayRetry(l) => LayerOK(l))
    BY <2>1, <2>2, Zenon DEF MayRetry, LayerOK, Layer
  <2> QED BY <2>1, <2>2, <2>3, ThenRetryKeeps, Zenon DEF k
<1>4. ASSUME NEW L \in [Ports -> Layer],
             \A d \in Ports :
               /\ L[d].waitingForLayer = xbar.layers[d].waitingForLayer
               /\ L[d].waitingForPeer = xbar.layers[d].waitingForPeer
               /\ LayerOK(L[d]),
             xbar' = [xbar EXCEPT !.layers = L]
      PROVE  IInv'
  <2>1. /\ xbar' \in XType /\ xbar'.layers = L
        /\ xbar'.stalled = xbar.stalled /\ xbar'.at = xbar.at
        /\ xbar'.routeTo = xbar.routeTo
    BY <1>0, <1>4, Zenon DEF XType
  <2>2. \A d \in Ports :
          Inj(L[d]) /\ \A p \in Ports : In(L[d], p) <=> In(xbar.layers[d], p)
    BY <1>0, <1>4 DEF Inj, In
  <2>3. Unique(L, xbar.stalled)
    BY <1>0, <2>2, Zenon DEF Unique
  <2> QED BY <1>0, <1>4, <2>1, <2>3 DEF IInv, Core, Route
<1>5. ASSUME Drain PROVE IInv'
  <2> DEFINE L == [d \in Ports |-> drain(xbar.layers[d])]
  <2>1. \A l \in Layer : /\ drain(l) \in Layer
                         /\ drain(l).waitingForLayer = l.waitingForLayer
                         /\ drain(l).waitingForPeer = l.waitingForPeer
                         /\ LayerOK(l) => LayerOK(drain(l))
    BY DEF drain, Layer, LayerOK
  <2>2. xbar' = [xbar EXCEPT !.layers = L]
    BY <1>5, Zenon DEF Drain
  <2>3. /\ L \in [Ports -> Layer]
        /\ \A d \in Ports :
               /\ L[d].waitingForLayer = xbar.layers[d].waitingForLayer
               /\ L[d].waitingForPeer = xbar.layers[d].waitingForPeer
               /\ LayerOK(L[d])
    BY <1>0, <2>1, Zenon
  <2> QED BY <1>4, <2>2, <2>3, Zenon
<1>6. ASSUME Resume PROVE IInv'
  <2> DEFINE R(l) == [l EXCEPT !.drainState = "Running"]
             L == [d \in Ports |-> R(xbar.layers[d])]
  <2>1. \A l \in Layer : /\ R(l) \in Layer
                         /\ R(l).waitingForLayer = l.waitingForLayer
                         /\ R(l).waitingForPeer = l.waitingForPeer
                         /\ LayerOK(l) => LayerOK(R(l))
    BY DEF Layer, LayerOK
  <2>2. xbar' = [xbar EXCEPT !.layers = L]
    BY <1>6, Zenon DEF Resume
  <2> HIDE DEF R
  <2>3. /\ L \in [Ports -> Layer]
        /\ \A d \in Ports :
               /\ L[d].waitingForLayer = xbar.layers[d].waitingForLayer
               /\ L[d].waitingForPeer = xbar.layers[d].waitingForPeer
               /\ LayerOK(L[d])
    BY <1>0, <2>1, Zenon
  <2> QED BY <1>4, <2>2, <2>3, Zenon
<1>7. ASSUME UNCHANGED xbar PROVE IInv'
  BY <1>7, Zenon DEF IInv
<1> QED BY <1>1, <1>2, <1>3, <1>5, <1>6, <1>7, Zenon DEF Next

(* The inductive invariant holds in every reachable state. *)
THEOREM XBarInvariant == Spec => []IInv
BY InitIInv, NextIInv, PTL DEF Spec

(* Layers, routes, places and senders keep their types. *)
THEOREM XBarTypes == Spec => []TypeOK
<1>1. IInv => TypeOK
  BY Zenon DEF IInv, Core, XType, TypeOK
<1> QED BY <1>1, XBarInvariant, PTL

(* A refused port waits at one layer, once; any other waits nowhere. *)
THEOREM XBarWaits == Spec => []WaitsOnce
<1>1. ASSUME IInv PROVE WaitsOnce
  <2>1. /\ Unique(xbar.layers, xbar.stalled) /\ xbar.layers \in [Ports -> Layer]
        /\ xbar.stalled \in [Ports -> BOOLEAN]
    BY <1>1, Zenon DEF IInv, Core, XType
  <2>2. ASSUME NEW port \in Ports, NEW d \in Ports, ~In(xbar.layers[d], port)
        PROVE  Waits(port, d) = 0
    <3> DEFINE l == xbar.layers[d]
               S == {i \in DOMAIN l.waitingForLayer : l.waitingForLayer[i] = port}
    <3>1. S = {} /\ l.waitingForPeer # port
      BY <2>2, Zenon DEF In
    <3> HIDE DEF S
    <3>2. Cardinality(S) = 0
      BY <3>1, FS_EmptySet, Zenon
    <3> QED BY <3>1, <3>2 DEF Waits, S
  <2>3. ASSUME NEW port \in Ports, NEW d \in Ports, In(xbar.layers[d], port)
        PROVE  Waits(port, d) = 1
    <3> DEFINE l == xbar.layers[d]
               S == {i \in DOMAIN l.waitingForLayer : l.waitingForLayer[i] = port}
    <3>1. Inj(l)
      BY <2>1, Zenon DEF Unique
    <3>2. CASE l.waitingForPeer = port
      <4>1. S = {}
        BY <3>1, <3>2, Zenon DEF Inj
      <4> HIDE DEF S
      <4>2. Cardinality(S) = 0
        BY <4>1, FS_EmptySet, Zenon
      <4> QED BY <3>2, <4>2 DEF Waits, S
    <3>3. CASE l.waitingForPeer # port
      <4>1. PICK i \in DOMAIN l.waitingForLayer : l.waitingForLayer[i] = port
        BY <2>3, <3>3, Zenon DEF In
      <4>2. S = {i}
        BY <3>1, <4>1, Zenon DEF Inj
      <4> HIDE DEF S
      <4>3. Cardinality(S) = 1
        BY <4>2, FS_Singleton, ZenonT(30)
      <4> QED BY <3>3, <4>3 DEF Waits, S
    <3> QED BY <3>2, <3>3, Zenon
  <2> QED BY <2>1, <2>2, <2>3 DEF WaitsOnce, Unique
<1> QED BY <1>1, XBarInvariant, PTL

(* A layer is busy iff its release is scheduled, and nobody waits at an    *)
(* idle layer to which no retry is owed.                                   *)
THEOREM XBarForgetsNobody == Spec => []NobodyForgotten
<1>1. IInv => NobodyForgotten
  BY Zenon DEF IInv, LayerOK, NobodyForgotten
<1> QED BY <1>1, XBarInvariant, PTL

(* Responses are routed to where the request came from. *)
THEOREM XBarRoutes == Spec => []RouteExact
<1>1. IInv => RouteExact
  BY Zenon DEF IInv, Core, Route, RouteExact
<1> QED BY <1>1, XBarInvariant, PTL

(* A layer that drains has the event that makes it signal still to come. *)
THEOREM XBarDrains == Spec => []DrainPending
<1>1. IInv => DrainPending
  BY Zenon DEF IInv, LayerOK, DrainPending
<1> QED BY <1>1, XBarInvariant, PTL
=============================================================================
