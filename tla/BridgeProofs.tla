----------------------------- MODULE BridgeProofs -----------------------------
(***************************************************************************)
(* Proofs of the safety properties of Bridge, for any number of packets    *)
(* and any queue limits.                                                   *)
(*                                                                         *)
(* The handlers call each other, so the argument is about the state        *)
(* between two calls.  Core is what holds there at all times: types, every *)
(* packet in one place, one reserved slot per packet that will come back,  *)
(* and an armed send event.  StallJustified is broken inside a handler, by *)
(* the step that makes room, and restored by the retry at its end.         *)
(***************************************************************************)
EXTENDS Bridge, TLAPS, FiniteSetTheorems

BridgeType ==
    [reqs : Seq(Packets), resps : Seq(NeedsResponse),
     outstandingResponses : Nat,
     retryReq : BOOLEAN, reqSend : Send, respSend : Send]

(* Every packet is in one place: with the CPU side (m), in a queue of the  *)
(* bridge b, or with the memory side (w).                                  *)
OnePlace(b, m, w) ==
    /\ \A i, j \in DOMAIN b.reqs : b.reqs[i] = b.reqs[j] => i = j
    /\ \A i, j \in DOMAIN b.resps : b.resps[i] = b.resps[j] => i = j
    /\ \A i \in DOMAIN b.reqs : b.reqs[i] \notin m /\ b.reqs[i] \notin w
    /\ \A i \in DOMAIN b.resps : b.resps[i] \notin m /\ b.resps[i] \notin w
    /\ \A i \in DOMAIN b.reqs : \A j \in DOMAIN b.resps : b.reqs[i] # b.resps[j]
    /\ \A p \in w : p \notin m

Armed(b) ==
    /\ b.reqs # <<>> <=> b.reqSend # "none"
    /\ b.resps # <<>> <=> b.respSend # "none"

Core(b, m, w) ==
    /\ b \in BridgeType
    /\ Len(b.reqs) <= reqQueueLimit
    /\ m \subseteq Packets
    /\ w \subseteq NeedsResponse
    /\ OnePlace(b, m, w)
    /\ Armed(b)
    /\ b.outstandingResponses = Cardinality(NeedsResponse \ m)
    /\ b.outstandingResponses <= respQueueLimit

Justified(b) == b.retryReq => reqQueueFull(b) \/ respQueueFull(b)

(* The inductive invariant *)
IInv == Core(bridge, atMaster, below) /\ Justified(bridge)

-----------------------------------------------------------------------------
(* Removing the head leaves an empty queue iff there was one packet. *)
LEMMA TailEmpty ==
    ASSUME NEW S, NEW q \in Seq(S), q # <<>>
    PROVE  Tail(q) # <<>> <=> Len(q) > 1
<1>1. Tail(q) \in Seq(S) /\ Len(Tail(q)) = Len(q) - 1 /\ Len(q) \in Nat /\ Len(q) > 0
  OBVIOUS
<1>2. Tail(q) = <<>> <=> Len(Tail(q)) = 0
  BY <1>1, SMTT(30)
<1> QED BY <1>1, <1>2

(* Accepting a packet that expects a response takes one slot more. *)
LEMMA TakeSlot ==
    ASSUME NEW m \in SUBSET Packets, NEW p \in m, p \in NeedsResponse
    PROVE  Cardinality(NeedsResponse \ (m \ {p})) =
              Cardinality(NeedsResponse \ m) + 1
<1>1. IsFiniteSet(NeedsResponse \ m)
  BY PacketsAssumption, FS_Subset, Zenon
<1>2. NeedsResponse \ (m \ {p}) = (NeedsResponse \ m) \cup {p}
  OBVIOUS
<1> QED BY <1>1, <1>2, FS_AddElement, Zenon

(* Returning a packet to the CPU side releases one. *)
LEMMA ReleaseSlot ==
    ASSUME NEW m \in SUBSET Packets, NEW p \in NeedsResponse, p \notin m
    PROVE  /\ Cardinality(NeedsResponse \ (m \cup {p})) =
                 Cardinality(NeedsResponse \ m) - 1
           /\ Cardinality(NeedsResponse \ m) \in Nat \ {0}
<1>1. IsFiniteSet(NeedsResponse \ m)
  BY PacketsAssumption, FS_Subset, Zenon
<1>2. NeedsResponse \ (m \cup {p}) = (NeedsResponse \ m) \ {p}
  OBVIOUS
<1>3. p \in NeedsResponse \ m
  OBVIOUS
<1>4. Cardinality((NeedsResponse \ m) \ {p}) = Cardinality(NeedsResponse \ m) - 1
  BY <1>1, <1>3, FS_RemoveElement, Zenon
<1>5. Cardinality(NeedsResponse \ m) # 0
  BY <1>1, <1>3, FS_EmptySet, Zenon
<1>6. Cardinality(NeedsResponse \ m) \in Nat
  BY <1>1, FS_CardinalityType, Zenon
<1> QED BY <1>2, <1>4, <1>5, <1>6, Zenon

(* A packet that expects no response takes no slot. *)
LEMMA NoSlot ==
    ASSUME NEW m, NEW p, p \notin NeedsResponse
    PROVE  /\ NeedsResponse \ (m \ {p}) = NeedsResponse \ m
           /\ NeedsResponse \ (m \cup {p}) = NeedsResponse \ m
OBVIOUS

(* recvTimingReq keeps Core, whether it accepts the packet or not; and a   *)
(* refusal is justified.                                                   *)
LEMMA OfferKeepsCore ==
    ASSUME NEW b, NEW m, NEW w, Core(b, m, w), b.retryReq = FALSE,
           NEW ps \in Offers(m)
    PROVE  LET s == Offer(b, m, ps)
           IN Core(s.b, s.m, w) /\ Justified(s.b)
<1> DEFINE s == Offer(b, m, ps)
<1>1. CASE ps = <<>>
  BY <1>1, Zenon DEF Offer, Justified
<1>2. CASE ps # <<>>
  <2>1. PICK p \in m : ps = <<p>>
    BY <1>2, Zenon DEF Offers
  <2>2. p \in Packets /\ ps[1] = p
    BY <2>1, Zenon DEF Core
  <2> DEFINE c == recvTimingReq(b, p)
  <2>3. s = [b |-> c, m |-> IF c.retryReq THEN m ELSE m \ {p}]
    BY <1>2, <2>2, Zenon DEF Offer
  <2>4. CASE reqQueueFull(b) \/ (p \in NeedsResponse /\ respQueueFull(b))
    <3>1. c = [b EXCEPT !.retryReq = TRUE]
      BY <2>4, Zenon DEF recvTimingReq
    <3>2. s.b = c /\ s.m = m
      BY <2>3, <3>1 DEF Core, BridgeType
    <3>3. Core(c, m, w)
      BY <3>1, ZenonT(30) DEF Core, BridgeType, OnePlace, Armed
    <3>4. Justified(c)
      BY <3>1, <2>4, Zenon DEF Core, BridgeType, Justified, reqQueueFull, respQueueFull
    <3> QED BY <3>2, <3>3, <3>4, Zenon
  <2>5. CASE ~(reqQueueFull(b) \/ (p \in NeedsResponse /\ respQueueFull(b)))
    <3> DEFINE n == IF p \in NeedsResponse THEN b.outstandingResponses + 1
                    ELSE b.outstandingResponses
               e == IF b.reqs = <<>> THEN "scheduled" ELSE b.reqSend
    <3>1. c = [b EXCEPT !.outstandingResponses = n, !.reqs = Append(b.reqs, p),
                        !.reqSend = e]
      BY <2>5, Zenon DEF recvTimingReq, schedTimingReq, Core, BridgeType
    <3>2. /\ c.reqs = Append(b.reqs, p) /\ c.resps = b.resps
          /\ c.outstandingResponses = n /\ c.retryReq = FALSE
          /\ c.reqSend = e /\ c.respSend = b.respSend
      BY <3>1, Zenon DEF Core, BridgeType
    <3>3. s.b = c /\ s.m = m \ {p}
      BY <2>3, <3>2
    <3>4. n = Cardinality(NeedsResponse \ (m \ {p})) /\ n <= respQueueLimit /\ n \in Nat
      <4>1. CASE p \in NeedsResponse
        <5>1. Cardinality(NeedsResponse \ (m \ {p})) =
                 Cardinality(NeedsResponse \ m) + 1
          BY <4>1, TakeSlot, Zenon DEF Core
        <5>2. b.outstandingResponses # respQueueLimit
          BY <2>5, <4>1, Zenon DEF respQueueFull
        <5> QED BY <4>1, <5>1, <5>2, LimitsAssumption DEF Core, BridgeType
      <4>2. CASE p \notin NeedsResponse
        BY <4>2, NoSlot, Zenon DEF Core, BridgeType
      <4> QED BY <4>1, <4>2, Zenon
    <3>5. e \in Send /\ e # "none"
      BY Zenon DEF Core, BridgeType, Armed, Send
    <3>6. c \in BridgeType
      <4>1. b \in BridgeType /\ Append(b.reqs, p) \in Seq(Packets)
        BY <2>2 DEF Core, BridgeType
      <4> HIDE DEF c, n, e
      <4> QED BY <3>1, <3>4, <3>5, <4>1, Zenon DEF BridgeType
    <3>7. Len(c.reqs) <= reqQueueLimit
      BY <3>2, <2>5, <2>2, LimitsAssumption DEF Core, BridgeType, reqQueueFull
    <3>8. OnePlace(c, m \ {p}, w)
      BY <3>2, <2>1, <2>2 DEF Core, OnePlace, BridgeType
    <3>9. Armed(c)
      BY <3>2, <3>5, <2>2 DEF Core, Armed, BridgeType
    <3>10. Core(c, m \ {p}, w)
      BY <3>2, <3>4, <3>6, <3>7, <3>8, <3>9, Zenon DEF Core
    <3>11. Justified(c)
      BY <3>2, Zenon DEF Justified
    <3> QED BY <3>3, <3>10, <3>11, Zenon
  <2> QED BY <2>4, <2>5, Zenon
<1> QED BY <1>1, <1>2, Zenon

(* Sending the head request, to the memory side (expecting a response) or  *)
(* for good.                                                               *)
LEMMA ReqSentKeepsCore ==
    ASSUME NEW b, NEW m, NEW w, Core(b, m, w), b.reqSend # "none"
    PROVE  LET p == Head(b.reqs)
           IN Core(ReqSent(b),
                   IF p \in NeedsResponse THEN m ELSE m \cup {p},
                   IF p \in NeedsResponse THEN w \cup {p} ELSE w)
<1> DEFINE p == Head(b.reqs)
           c == ReqSent(b)
           n == IF p \in NeedsResponse THEN m ELSE m \cup {p}
           v == IF p \in NeedsResponse THEN w \cup {p} ELSE w
<1>1. /\ b.reqs \in Seq(Packets) /\ b.reqs # <<>> /\ b \in BridgeType
      /\ b.resps \in Seq(NeedsResponse)
  BY Zenon DEF Core, Armed, BridgeType
<1>2. /\ p \in Packets /\ p = b.reqs[1] /\ Tail(b.reqs) \in Seq(Packets)
      /\ Len(Tail(b.reqs)) = Len(b.reqs) - 1 /\ Len(b.reqs) > 0
      /\ Len(b.reqs) \in Nat
      /\ \A i \in DOMAIN Tail(b.reqs) : Tail(b.reqs)[i] = b.reqs[i + 1]
                                        /\ i + 1 \in DOMAIN b.reqs
  BY <1>1
<1>3. /\ c.reqs = Tail(b.reqs) /\ c.resps = b.resps
      /\ c.outstandingResponses = b.outstandingResponses
      /\ c.respSend = b.respSend
      /\ c.reqSend = IF Len(b.reqs) > 1 THEN "scheduled" ELSE "none"
  BY <1>1, Zenon DEF ReqSent, BridgeType
<1>4. c \in BridgeType
  BY <1>1, <1>2, Zenon DEF ReqSent, BridgeType, Send
<1>5. 1 \in DOMAIN b.reqs
  BY <1>1
<1>6. n \subseteq Packets /\ v \subseteq NeedsResponse
  BY <1>2, Zenon DEF Core
<1>7. OnePlace(c, n, v)
  <2>1. OnePlace(b, m, w)
    BY Zenon DEF Core
  <2> HIDE DEF p, c
  <2>2. \A i \in DOMAIN c.reqs : c.reqs[i] # p /\ c.reqs[i] = b.reqs[i + 1]
                                /\ i + 1 \in DOMAIN b.reqs
    BY <1>1, <1>2, <1>3, <1>5, <2>1 DEF OnePlace
  <2>3. \A i, j \in DOMAIN c.reqs : c.reqs[i] = c.reqs[j] => i = j
    BY <1>1, <1>2, <1>3, <2>1, <2>2 DEF OnePlace
  <2>4. \A i \in DOMAIN c.reqs : c.reqs[i] \notin n /\ c.reqs[i] \notin v
    BY <2>1, <2>2, Zenon DEF OnePlace
  <2>5. \A i \in DOMAIN c.resps : c.resps[i] # p
    BY <1>2, <1>3, <1>5, <2>1 DEF OnePlace
  <2>6. \A i \in DOMAIN c.resps : c.resps[i] \notin n /\ c.resps[i] \notin v
    BY <1>3, <2>1, <2>5, Zenon DEF OnePlace
  <2>7. \A q \in v : q \notin n
    BY <1>2, <1>5, <2>1 DEF OnePlace
  <2>8. \A i \in DOMAIN c.reqs : \A j \in DOMAIN c.resps : c.reqs[i] # c.resps[j]
    BY <1>3, <2>1, <2>2 DEF OnePlace
  <2> QED BY <1>3, <2>1, <2>3, <2>4, <2>6, <2>7, <2>8 DEF OnePlace
<1>8. Armed(c)
  <2>1. Tail(b.reqs) # <<>> <=> Len(b.reqs) > 1
    BY <1>1, TailEmpty, Zenon
  <2> HIDE DEF c
  <2> QED BY <1>3, <2>1, Zenon DEF Armed, Core
<1>9. NeedsResponse \ n = NeedsResponse \ m
  OBVIOUS
<1> HIDE DEF c, n, v
<1>10. Len(c.reqs) <= reqQueueLimit
  BY <1>2, <1>3, LimitsAssumption DEF Core
<1>11. /\ c.outstandingResponses = Cardinality(NeedsResponse \ n)
       /\ c.outstandingResponses <= respQueueLimit
  BY <1>3, <1>9, Zenon DEF Core
<1>12. Core(c, n, v)
  BY <1>4, <1>6, <1>7, <1>8, <1>10, <1>11, Zenon DEF Core
<1> QED BY <1>12, Zenon DEF c, n, v

(* A response from the memory side enters the queue. *)
LEMMA RespQueuedKeepsCore ==
    ASSUME NEW b, NEW m, NEW w, Core(b, m, w), NEW p \in w
    PROVE  Core(schedTimingResp(b, p), m, w \ {p})
<1> DEFINE c == schedTimingResp(b, p)
<1>1. b \in BridgeType /\ p \in NeedsResponse /\ OnePlace(b, m, w) /\ Armed(b)
  BY Zenon DEF Core
<1>2. /\ c.reqs = b.reqs /\ c.resps = Append(b.resps, p)
      /\ c.outstandingResponses = b.outstandingResponses
      /\ c.reqSend = b.reqSend
      /\ c.respSend = IF b.resps = <<>> THEN "scheduled" ELSE b.respSend
  BY <1>1, Zenon DEF schedTimingResp, BridgeType
<1>3. c \in BridgeType
  <2>1. Append(b.resps, p) \in Seq(NeedsResponse)
    BY <1>1 DEF BridgeType
  <2> QED BY <1>1, <2>1, Zenon DEF schedTimingResp, BridgeType, Send
<1>4. OnePlace(c, m, w \ {p})
  BY <1>1, <1>2 DEF OnePlace, BridgeType
<1>5. Armed(c)
  BY <1>1, <1>2 DEF Armed, BridgeType
<1> QED BY <1>2, <1>3, <1>4, <1>5, Zenon DEF Core

(* The head response is delivered, and its slot released. *)
LEMMA RespSentKeepsCore ==
    ASSUME NEW b, NEW m, NEW w, Core(b, m, w), b.respSend # "none"
    PROVE  /\ Core(RespSent(b), m \cup {Head(b.resps)}, w)
           /\ RespSent(b).outstandingResponses < respQueueLimit
<1> DEFINE p == Head(b.resps)
           c == RespSent(b)
<1>1. /\ b.resps \in Seq(NeedsResponse) /\ b.resps # <<>> /\ b \in BridgeType
      /\ OnePlace(b, m, w) /\ Armed(b) /\ b.outstandingResponses \in Nat
  BY Zenon DEF Core, Armed, BridgeType
<1>2. /\ p \in NeedsResponse /\ p = b.resps[1] /\ Tail(b.resps) \in Seq(NeedsResponse)
      /\ Len(Tail(b.resps)) = Len(b.resps) - 1 /\ Len(b.resps) > 0
      /\ Len(b.resps) \in Nat /\ 1 \in DOMAIN b.resps
      /\ \A i \in DOMAIN Tail(b.resps) : Tail(b.resps)[i] = b.resps[i + 1]
                                         /\ i + 1 \in DOMAIN b.resps
  BY <1>1
<1>3. /\ c.reqs = b.reqs /\ c.resps = Tail(b.resps) /\ c.reqSend = b.reqSend
      /\ c.outstandingResponses = b.outstandingResponses - 1
      /\ c.respSend = IF Len(b.resps) > 1 THEN "scheduled" ELSE "none"
  BY <1>1, Zenon DEF RespSent, BridgeType
<1>4. p \notin m /\ p \in Packets
  BY <1>1, <1>2, PacketsAssumption DEF OnePlace
<1>5. /\ b.outstandingResponses - 1 = Cardinality(NeedsResponse \ (m \cup {p}))
      /\ b.outstandingResponses - 1 \in Nat
      /\ b.outstandingResponses <= respQueueLimit
  <2>1. m \in SUBSET Packets
    BY Zenon DEF Core
  <2>2. /\ b.outstandingResponses = Cardinality(NeedsResponse \ m)
        /\ b.outstandingResponses <= respQueueLimit
    BY Zenon DEF Core
  <2> HIDE DEF p, c
  <2>3. /\ Cardinality(NeedsResponse \ (m \cup {p})) =
              Cardinality(NeedsResponse \ m) - 1
        /\ Cardinality(NeedsResponse \ m) \in Nat \ {0}
    BY <2>1, <1>2, <1>4, ReleaseSlot, Zenon
  <2> QED BY <2>2, <2>3
<1>6. c \in BridgeType
  BY <1>1, <1>2, <1>5, Zenon DEF RespSent, BridgeType, Send
<1>7. OnePlace(c, m \cup {p}, w)
  <2> HIDE DEF p, c
  <2>1. \A i \in DOMAIN c.resps : c.resps[i] # p /\ c.resps[i] = b.resps[i + 1]
                                 /\ i + 1 \in DOMAIN b.resps
    BY <1>1, <1>2, <1>3 DEF OnePlace
  <2>2. \A i, j \in DOMAIN c.resps : c.resps[i] = c.resps[j] => i = j
    BY <1>1, <1>2, <1>3, <2>1, SMTT(30) DEF OnePlace
  <2>3. \A i \in DOMAIN c.reqs : c.reqs[i] \notin m \cup {p} /\ c.reqs[i] \notin w
    BY <1>1, <1>2, <1>3 DEF OnePlace
  <2>4. \A i \in DOMAIN c.resps : c.resps[i] \notin m \cup {p} /\ c.resps[i] \notin w
    BY <1>1, <2>1, Zenon DEF OnePlace
  <2>5. p \notin w
    BY <1>1, <1>2, Zenon DEF OnePlace
  <2>6. \A i \in DOMAIN c.reqs : \A j \in DOMAIN c.resps : c.reqs[i] # c.resps[j]
    BY <1>1, <1>3, <2>1 DEF OnePlace
  <2> QED BY <1>1, <1>3, <2>2, <2>3, <2>4, <2>5, <2>6, Zenon DEF OnePlace
<1>8. Armed(c)
  <2>1. Tail(b.resps) # <<>> <=> Len(b.resps) > 1
    BY <1>1, TailEmpty, Zenon
  <2> HIDE DEF c
  <2> QED BY <1>1, <1>3, <2>1, Zenon DEF Armed
<1> HIDE DEF p, c
<1>9. Core(c, m \cup {p}, w)
  <2>1. /\ Len(c.reqs) <= reqQueueLimit
        /\ m \cup {p} \subseteq Packets /\ w \subseteq NeedsResponse
    BY <1>3, <1>4, Zenon DEF Core
  <2>2. /\ c.outstandingResponses = Cardinality(NeedsResponse \ (m \cup {p}))
        /\ c.outstandingResponses <= respQueueLimit
    BY <1>1, <1>3, <1>5, LimitsAssumption
  <2> QED BY <1>6, <1>7, <1>8, <2>1, <2>2, Zenon DEF Core
<1>10. c.outstandingResponses < respQueueLimit
  BY <1>1, <1>3, <1>5, LimitsAssumption
<1> QED BY <1>9, <1>10, Zenon DEF p, c

(* The retry at the end of a handler keeps Core and leaves no sender       *)
(* waiting without a reason.                                               *)
LEMMA RetryJustifies ==
    ASSUME NEW b, NEW m, NEW w, Core(b, m, w), NEW ps \in Offers(m)
    PROVE  LET s == retryStalledReq(b, m, ps)
           IN Core(s.b, s.m, w) /\ Justified(s.b)
<1>1. CASE b.retryReq
  <2> DEFINE c == [b EXCEPT !.retryReq = FALSE]
  <2>1. Core(c, m, w) /\ c.retryReq = FALSE
    BY Zenon DEF Core, BridgeType, OnePlace, Armed
  <2>2. retryStalledReq(b, m, ps) = Offer(c, m, ps)
    BY <1>1, Zenon DEF retryStalledReq
  <2> HIDE DEF c
  <2> QED BY <2>1, <2>2, OfferKeepsCore, Zenon
<1>2. CASE ~b.retryReq
  BY <1>2, Zenon DEF retryStalledReq, Justified
<1> QED BY <1>1, <1>2, Zenon

-----------------------------------------------------------------------------
(* Empty queues satisfy the invariant. *)
LEMMA InitIInv == Init => IInv
<1> SUFFICES ASSUME Init PROVE IInv
  OBVIOUS
<1>1. NeedsResponse \ atMaster = {}
  BY PacketsAssumption, Zenon DEF Init
<1>2. Cardinality(NeedsResponse \ atMaster) = 0
  BY <1>1, FS_EmptySet, Zenon
<1>3. /\ bridge \in BridgeType /\ bridge.reqs = <<>> /\ bridge.resps = <<>>
      /\ bridge.retryReq = FALSE /\ bridge.reqSend = "none"
      /\ bridge.respSend = "none" /\ bridge.outstandingResponses = 0
      /\ atMaster \subseteq Packets /\ below \subseteq NeedsResponse
      /\ below = {}
  BY DEF Init, BridgeType, Send
<1>4. OnePlace(bridge, atMaster, below)
  BY <1>3 DEF OnePlace
<1>5. Armed(bridge) /\ Justified(bridge)
  BY <1>3, Zenon DEF Armed, Justified
<1> QED BY <1>2, <1>3, <1>4, <1>5, LimitsAssumption DEF IInv, Core

(* Whatever the interleaving of the two queues and the calls made from     *)
(* within a call, every step of the bridge keeps IInv.                     *)
LEMMA NextIInv == IInv /\ [Next]_vars => IInv'
<1> SUFFICES ASSUME IInv, [Next]_vars PROVE IInv'
  OBVIOUS
<1>0. Core(bridge, atMaster, below) /\ Justified(bridge) /\ bridge \in BridgeType
  BY Zenon DEF IInv, Core
<1>1. ASSUME NEW p \in Packets, RecvTimingReq(p) PROVE IInv'
  <2>1. <<p>> \in Offers(atMaster) /\ bridge.retryReq = FALSE
    BY <1>0, <1>1, Zenon DEF RecvTimingReq, Offers, BridgeType
  <2>2. LET s == Offer(bridge, atMaster, <<p>>)
        IN Core(s.b, s.m, below) /\ Justified(s.b)
    BY <1>0, <2>1, OfferKeepsCore, Zenon
  <2> QED BY <1>1, <2>2, Zenon DEF RecvTimingReq, IInv
<1>2. ASSUME NEW p \in Packets, RecvTimingResp(p) PROVE IInv'
  <2>1. Core(schedTimingResp(bridge, p), atMaster, below \ {p})
    BY <1>0, <1>2, RespQueuedKeepsCore, Zenon DEF RecvTimingResp
  <2>2. Justified(schedTimingResp(bridge, p))
    BY <1>0, Zenon DEF Justified, schedTimingResp, BridgeType, reqQueueFull, respQueueFull
  <2> QED BY <1>2, <2>1, <2>2, Zenon DEF RecvTimingResp, IInv
<1>3. ASSUME SendReq PROVE IInv'
  <2> DEFINE p == Head(bridge.reqs)
             m == IF p \in NeedsResponse THEN atMaster ELSE atMaster \cup {p}
             w == IF p \in NeedsResponse THEN below \cup {p} ELSE below
  <2>1. Core(ReqSent(bridge), m, w)
    BY <1>0, <1>3, ReqSentKeepsCore, Zenon DEF SendReq
  <2>2. PICK ps \in Offers(atMaster) :
             LET s == retryStalledReq(ReqSent(bridge), m, ps)
             IN bridge' = s.b /\ atMaster' = s.m
    BY <1>3, Zenon DEF SendReq
  <2>3. below' = w
    BY <1>3, Zenon DEF SendReq
  <2> HIDE DEF p
  <2>4. ps \in Offers(m)
    BY Zenon DEF Offers
  <2> HIDE DEF m, w
  <2>5. LET s == retryStalledReq(ReqSent(bridge), m, ps)
        IN Core(s.b, s.m, w) /\ Justified(s.b)
    BY <2>1, <2>4, RetryJustifies, Zenon
  <2> QED BY <2>2, <2>3, <2>5, Zenon DEF IInv
<1>4. ASSUME SendReqRefused PROVE IInv'
  BY <1>0, <1>4 DEF SendReqRefused, IInv, Core, BridgeType, OnePlace, Armed,
                    Justified, Send, reqQueueFull, respQueueFull
<1>5. ASSUME SendResp PROVE IInv'
  <2>1. PICK ps \in IF bridge.retryReq THEN {<<>>} ELSE Offers(atMaster) :
          LET s == Offer(bridge, atMaster, ps)
              m == s.m \cup {Head(bridge.resps)}
          IN \E qs \in Offers(s.m) :
               LET t == RetryAfterResp(RespSent(s.b), m, qs)
               IN bridge' = t.b /\ atMaster' = t.m
    BY <1>5, Zenon DEF SendResp
  <2> DEFINE s == Offer(bridge, atMaster, ps)
             m == s.m \cup {Head(bridge.resps)}
  <2>2. Core(s.b, s.m, below)
    <3>1. CASE bridge.retryReq
      BY <1>0, <2>1, <3>1, Zenon DEF Offer
    <3>2. CASE bridge.retryReq = FALSE
      BY <1>0, <2>1, <3>2, OfferKeepsCore, Zenon
    <3> QED BY <1>0, <3>1, <3>2, Zenon DEF BridgeType
  <2>3. s.b.resps = bridge.resps /\ s.b.respSend = bridge.respSend
    BY <1>0, Zenon DEF Offer, recvTimingReq, schedTimingReq, BridgeType
  <2> HIDE DEF s
  <2>4. PICK qs \in Offers(s.m) :
               LET t == RetryAfterResp(RespSent(s.b), m, qs)
               IN bridge' = t.b /\ atMaster' = t.m
    BY <2>1, Zenon DEF s
  <2>5. Core(RespSent(s.b), m, below)
    BY <1>5, <2>2, <2>3, RespSentKeepsCore, Zenon DEF SendResp
  <2>6. qs \in Offers(m)
    BY <2>4, Zenon DEF Offers
  <2> DEFINE t == RetryAfterResp(RespSent(s.b), m, qs)
  <2> HIDE DEF m
  <2>7. Core(t.b, t.m, below) /\ Justified(t.b)
    <3>1. CASE reqQueueFull(RespSent(s.b))
      BY <2>5, <3>1, Zenon DEF RetryAfterResp, Justified
    <3>2. CASE ~reqQueueFull(RespSent(s.b))
      BY <2>5, <2>6, <3>2, RetryJustifies DEF RetryAfterResp
    <3> QED BY <3>1, <3>2, Zenon
  <2> QED BY <1>5, <2>4, <2>7, Zenon DEF SendResp, IInv
<1>6. ASSUME SendRespRefused PROVE IInv'
  BY <1>0, <1>6, SMTT(30) DEF SendRespRefused, IInv, Core, BridgeType, OnePlace, Armed,
                    Justified, Send, reqQueueFull, respQueueFull
<1>7. ASSUME UNCHANGED vars PROVE IInv'
  BY <1>7, Zenon DEF vars, IInv
<1> QED BY <1>1, <1>2, <1>3, <1>4, <1>5, <1>6, <1>7, Zenon DEF Next

(* The inductive invariant holds in every reachable state. *)
THEOREM Invariant == Spec => []IInv
BY InitIInv, NextIInv, PTL DEF Spec

(* The request queue of the bridge never holds more than reqQueueLimit     *)
(* packets, and the response queue holds responses only.                   *)
THEOREM TypeCorrect == Spec => []TypeOK
<1>1. IInv => TypeOK
  BY Zenon DEF IInv, Core, TypeOK, BridgeType
<1> QED BY <1>1, Invariant, PTL

(* outstandingResponses counts the reserved slots exactly. *)
THEOREM Reservation == Spec => []ReservationExact
<1>1. IInv => ReservationExact
  BY Zenon DEF IInv, Core, ReservationExact
<1> QED BY <1>1, Invariant, PTL

(* The responses queued and those still to come fit in the response queue, *)
(* although recvTimingResp does not look.                                  *)
THEOREM Fit == Spec => []ResponsesFit
<1>1. ASSUME IInv PROVE ResponsesFit
  <2> DEFINE q == bridge.resps
             R == {q[i] : i \in 1..Len(q)}
  <2>1. /\ q \in Seq(NeedsResponse) /\ Len(q) \in Nat
        /\ OnePlace(bridge, atMaster, below) /\ below \subseteq NeedsResponse
        /\ bridge.outstandingResponses = Cardinality(NeedsResponse \ atMaster)
        /\ bridge.outstandingResponses <= respQueueLimit
    BY <1>1 DEF IInv, Core, BridgeType
  <2>2. q \in [1..Len(q) -> R] /\ R \subseteq NeedsResponse
    BY <2>1
  <2>3. \A i, j \in 1..Len(q) : q[i] = q[j] => i = j
    BY <2>1 DEF OnePlace
  <2>4. R \cap below = {} /\ R \cup below \subseteq NeedsResponse \ atMaster
    BY <2>1, <2>2 DEF OnePlace
  <2>5. IsFiniteSet(R) /\ Cardinality(R) = Len(q)
    <3>1. \A r \in R : \E i \in 1..Len(q) : q[i] = r
      OBVIOUS
    <3> HIDE DEF R
    <3>2. q \in Bijection(1..Len(q), R)
      BY <2>2, <2>3, <3>1 DEF Bijection, Injection, Surjection, IsInjective
    <3>3. IsFiniteSet(1..Len(q)) /\ Cardinality(1..Len(q)) = Len(q)
      <4>1. \A k \in Nat : IsFiniteSet(1..k) /\ Cardinality(1..k) = k
        BY FS_Interval
      <4> QED BY <2>1, <4>1, Zenon
    <3> QED BY <3>2, <3>3, FS_Bijection DEF ExistsBijection
  <2> HIDE DEF R
  <2>6. IsFiniteSet(NeedsResponse)
    BY PacketsAssumption, FS_Subset, Zenon
  <2>7. IsFiniteSet(NeedsResponse \ atMaster) /\ IsFiniteSet(below)
    BY <2>1, <2>6, FS_Subset, Zenon
  <2>8. Cardinality(R \cup below) = Len(q) + Cardinality(below)
    <3>1. Cardinality(R \cap below) = 0
      BY <2>4, FS_EmptySet, Zenon
    <3>2. Cardinality(R \cup below) =
            Cardinality(R) + Cardinality(below) - Cardinality(R \cap below)
      BY <2>5, <2>7, FS_Union, Zenon
    <3>3. Cardinality(below) \in Nat
      BY <2>7, FS_CardinalityType, Zenon
    <3> HIDE DEF q
    <3> QED BY <2>1, <2>5, <3>1, <3>2, <3>3
  <2>9. Cardinality(R \cup below) <= Cardinality(NeedsResponse \ atMaster)
    BY <2>4, <2>7, FS_Subset, Zenon
  <2>10. Cardinality(below) \in Nat /\ Cardinality(NeedsResponse \ atMaster) \in Nat
    BY <2>7, FS_CardinalityType, Zenon
  <2> QED BY <2>1, <2>8, <2>9, <2>10, LimitsAssumption DEF ResponsesFit
<1> QED BY <1>1, Invariant, PTL

(* A queue with packets is never left without its event or a retry owed. *)
THEOREM SendsArmed == Spec => []SendArmed
<1>1. IInv => SendArmed
  BY Zenon DEF IInv, Core, Armed, SendArmed
<1> QED BY <1>1, Invariant, PTL

(* No sender is left waiting at a bridge that has room. *)
THEOREM Stalls == Spec => []StallJustified
<1>1. IInv => StallJustified
  BY Zenon DEF IInv, Justified, StallJustified
<1> QED BY <1>1, Invariant, PTL
=============================================================================
