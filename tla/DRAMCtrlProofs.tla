--------------------------- MODULE DRAMCtrlProofs ---------------------------
(***************************************************************************)
(* Safety of the request path for every geometry, buffer size, threshold,  *)
(* number of ranks and request stream.                                     *)
(***************************************************************************)
EXTENDS DRAMCtrl, TLAPS, FiniteSetTheorems

-----------------------------------------------------------------------------
\* The operators of the model

\* Every packet has at least one burst.
LEMMA BurstCountType == ASSUME NEW pkt \in Span PROVE BurstCount(pkt) \in Nat \ {0}
  <1> DEFINE x == (pkt.addr % BurstSize) + pkt.size + BurstSize - 1
  <1>1. pkt.addr \in Nat /\ pkt.size \in Nat \ {0} /\ BurstSize \in Nat \ {0}
    BY ConstantAssumption, Zenon DEF Span
  <1>2. x \in Nat /\ x >= BurstSize
    <2>1. ASSUME NEW a \in Nat PROVE a % BurstSize \in 0 .. BurstSize - 1
      BY <1>1
    <2>2. pkt.addr % BurstSize \in 0 .. BurstSize - 1
      BY <1>1, <2>1, Zenon
    <2>3. QED
      BY <1>1, <2>2
  <1>3. ASSUME NEW y \in Nat, y >= BurstSize PROVE y \div BurstSize \in Nat \ {0}
    <2>1. y = BurstSize * (y \div BurstSize) + (y % BurstSize)
      BY <1>1
    <2>2. y \div BurstSize \in Int /\ y % BurstSize \in 0 .. BurstSize - 1
      BY <1>1
    <2>3. ASSUME NEW d \in Int, d <= 0 PROVE BurstSize * d <= 0
      BY <1>1, <2>3
    <2>4. QED
      BY <1>1, <1>3, <2>1, <2>2, <2>3
  <1>4. x \div BurstSize \in Nat \ {0}
    BY <1>2, <1>3, Zenon
  <1>5. QED
    BY <1>4, Zenon DEF BurstCount, DivCeil

\* A burst of a packet starts and ends at addresses.
LEMMA BurstType ==
  ASSUME NEW pkt \in Span, NEW k \in 1 .. BurstCount(pkt)
  PROVE  /\ Burst(pkt, k).addr \in Nat /\ Burst(pkt, k).size \in Nat
         /\ BurstAlign(Burst(pkt, k).addr) \in Nat
  <1>1. Burst(pkt, k).addr \in Nat /\ Burst(pkt, k).size \in Nat
    BY ConstantAssumption DEF Burst, BurstAlign, Span, BurstCount, DivCeil
  <1>2. ASSUME NEW a \in Nat PROVE BurstAlign(a) \in Nat
    BY ConstantAssumption DEF BurstAlign
  <1>3. QED
    BY <1>1, <1>2, Zenon

\* A set of burst numbers is finite and no larger than the number of bursts.
LEMMA BurstSetSize ==
  ASSUME NEW n \in Nat, NEW ks, ks \subseteq 1 .. n
  PROVE  IsFiniteSet(ks) /\ Cardinality(ks) \in Nat /\ Cardinality(ks) <= n
  <1>1. IsFiniteSet(1 .. n) /\ Cardinality(1 .. n) = n
    BY FS_Interval
  <1>2. QED
    BY <1>1, FS_Subset, FS_CardinalityType, Zenon

\* Appending n elements to a sequence.
LEMMA AppendMany ==
  ASSUME NEW S, NEW q \in Seq(S), NEW n \in Nat, NEW t \in [1 .. n -> S]
  PROVE  /\ q \o t \in Seq(S)
         /\ Len(q \o t) = Len(q) + n
         /\ \A i \in 1 .. Len(q) : (q \o t)[i] = q[i]
         /\ \A i \in Len(q) + 1 .. Len(q) + n : (q \o t)[i] = t[i - Len(q)]
  <1>1. t \in Seq(S) /\ Len(t) = n
    OBVIOUS
  <1>2. QED
    BY <1>1

\* Appending read packets.
LEMMA ReadsAppended ==
  ASSUME NEW q \in Seq(ReadPacket), NEW n \in Nat, NEW t \in [1 .. n -> ReadPacket]
  PROVE  q \o t \in Seq(ReadPacket) /\ Len(q \o t) = Len(q) + n
  BY AppendMany

\* Appending write packets.
LEMMA WritesAppended ==
  ASSUME NEW q \in Seq(WritePacket), NEW n \in Nat, NEW t \in [1 .. n -> WritePacket]
  PROVE  /\ q \o t \in Seq(WritePacket)
         /\ Len(q) \in Nat /\ Len(q \o t) = Len(q) + n
         /\ DOMAIN q = 1 .. Len(q) /\ DOMAIN (q \o t) = 1 .. Len(q) + n
         /\ \A i \in 1 .. Len(q) : (q \o t)[i] = q[i]
         /\ \A j \in 1 .. n : (q \o t)[Len(q) + j] = t[j]
  <1>1. /\ q \o t \in Seq(WritePacket)
        /\ Len(q \o t) = Len(q) + n
        /\ \A i \in 1 .. Len(q) : (q \o t)[i] = q[i]
        /\ \A i \in Len(q) + 1 .. Len(q) + n : (q \o t)[i] = t[i - Len(q)]
    BY AppendMany
  <1>2. /\ Len(q) \in Nat /\ DOMAIN q = 1 .. Len(q)
        /\ DOMAIN (q \o t) = 1 .. Len(q) + n
    BY <1>1
  <1>3. ASSUME NEW j \in 1 .. n PROVE (q \o t)[Len(q) + j] = t[j]
    <2>1. Len(q) + j \in Len(q) + 1 .. Len(q) + n /\ (Len(q) + j) - Len(q) = j
      BY <1>2
    <2>2. (q \o t)[Len(q) + j] = t[(Len(q) + j) - Len(q)]
      BY <1>1, <2>1, Zenon
    <2>3. QED
      BY <2>1, <2>2, Zenon
  <1>4. QED
    BY <1>1, <1>2, <1>3, Zenon

\* An enumeration of burst numbers leaves none out.
LEMMA InOrderOnto ==
  ASSUME NEW n \in Nat, NEW ks, ks \subseteq 1 .. n, NEW s \in InOrder(ks), NEW k \in ks
  PROVE  \E j \in 1 .. Cardinality(ks) : s[j] = k
  <1> DEFINE c == Cardinality(ks)
  <1>1. IsFiniteSet(ks) /\ c \in Nat
    BY BurstSetSize, Zenon
  <1>2. s \in [1 .. c -> ks] /\ \A i, j \in 1 .. c : i < j => s[i] < s[j]
    BY Zenon DEF InOrder
  <1>3. \A x \in ks : x \in Int
    OBVIOUS
  <1> HIDE DEF c
  <1>4. ASSUME NEW i \in 1 .. c, NEW j \in 1 .. c, s[i] = s[j] PROVE i = j
    <2>1. s[i] \in Int /\ s[j] \in Int
      BY <1>2, <1>3, Zenon
    <2>2. ~(i < j) /\ ~(j < i)
      BY <1>2, <1>4, <2>1
    <2>3. QED
      BY <1>1, <2>2
  <1>5. s \in Injection(1 .. c, ks)
    BY <1>2, <1>4, ZenonT(30) DEF Injection, IsInjective
  <1>6. Cardinality(1 .. c) = c
    BY <1>1, FS_Interval
  <1>7. s \in Surjection(1 .. c, ks)
    BY <1>1, <1>5, <1>6, FS_Injection, Zenon DEF c
  <1>8. \A x \in ks : \E j \in 1 .. c : s[j] = x
    BY <1>7, Zenon DEF Surjection
  <1>9. QED
    BY <1>8, Zenon DEF c

\* Removing the element at position i of a queue.
LEMMA WithoutType ==
  ASSUME NEW S, NEW q \in Seq(S), NEW i \in DOMAIN q
  PROVE  /\ Without(q, i) \in Seq(S)
         /\ Len(Without(q, i)) = Len(q) - 1
         /\ Len(q) > 0
  BY DEF Without

\* The positions of a queue that hold a packet of the set P.
Positions(q, P) == {i \in DOMAIN q : q[i] \in P}

\* They are finitely many.
LEMMA PositionsFinite ==
  ASSUME NEW S, NEW q \in Seq(S), NEW P
  PROVE  /\ IsFiniteSet(Positions(q, P)) /\ Cardinality(Positions(q, P)) \in Nat
         /\ Positions(q, P) = {} <=> Cardinality(Positions(q, P)) = 0
  <1>1. Len(q) \in Nat /\ Positions(q, P) \subseteq 1 .. Len(q)
    BY DEF Positions
  <1>2. IsFiniteSet(Positions(q, P)) /\ Cardinality(Positions(q, P)) \in Nat
    BY <1>1, BurstSetSize, Zenon
  <1>3. QED
    BY <1>2, FS_EmptySet, Zenon

\* Removing an element removes one position if the element is in P, and none
\* otherwise.
LEMMA PositionsWithout ==
  ASSUME NEW Q, NEW q \in Seq(Q), NEW i \in DOMAIN q, NEW P
  PROVE  Cardinality(Positions(Without(q, i), P))
           = IF q[i] \in P THEN Cardinality(Positions(q, P)) - 1
                           ELSE Cardinality(Positions(q, P))
  <1> DEFINE S == Positions(q, P) \ {i}
             T == Positions(Without(q, i), P)
             f == [j \in S |-> IF j < i THEN j ELSE j - 1]
  <1>1. /\ Len(q) \in Nat /\ DOMAIN q = 1 .. Len(q) /\ i \in 1 .. Len(q)
        /\ DOMAIN Without(q, i) = 1 .. Len(q) - 1
    BY DEF Without
  <1>2. \A j \in 1 .. Len(q) - 1 : Without(q, i)[j] = IF j < i THEN q[j] ELSE q[j + 1]
    BY <1>1, Zenon DEF Without
  <1>3. f \in [S -> T]
    BY <1>1, <1>2 DEF Positions
  <1>4. \A a, b \in S : f[a] = f[b] => a = b
    BY <1>1 DEF Positions
  <1>5. ASSUME NEW t \in T PROVE \E s \in S : f[s] = t
    <2>1. t \in 1 .. Len(q) - 1 /\ Without(q, i)[t] \in P
      BY <1>1, Zenon DEF Positions
    <2>2. CASE t < i
      <3>1. t \in S /\ f[t] = t
        BY <1>1, <1>2, <2>1, <2>2 DEF Positions
      <3>2. QED
        BY <3>1, Zenon
    <2>3. CASE ~(t < i)
      <3>1. t + 1 \in S /\ f[t + 1] = t
        BY <1>1, <1>2, <2>1, <2>3 DEF Positions
      <3>2. QED
        BY <3>1, Zenon
    <2>4. QED
      BY <2>2, <2>3, Zenon
  <1>6. IsFiniteSet(S)
        /\ Cardinality(S) = IF i \in Positions(q, P) THEN Cardinality(Positions(q, P)) - 1
                                                 ELSE Cardinality(Positions(q, P))
    BY PositionsFinite, FS_RemoveElement, Zenon
  <1>7. ExistsBijection(S, T)
    <2>1. f \in Bijection(S, T)
      <3> HIDE DEF f, S, T
      <3>1. QED
        BY <1>3, <1>4, <1>5, ZenonT(30) DEF Bijection, Injection, IsInjective, Surjection
    <2>2. QED
      BY <2>1, Zenon DEF ExistsBijection
  <1>8. Cardinality(T) = Cardinality(S)
    <2> HIDE DEF S, T
    <2>1. QED
      BY <1>6, <1>7, FS_Bijection, Zenon
  <1>9. QED
    BY <1>1, <1>6, <1>8, Zenon DEF Positions

\* The positions of row operations in a queue are finitely many.
LEMMA RowOpsFinite ==
  ASSUME NEW q \in Seq(WritePacket)
  PROVE  /\ RowOpsIn(q) = Positions(q, {p \in WritePacket : p.rowOp})
         /\ IsFiniteSet(RowOpsIn(q)) /\ Cardinality(RowOpsIn(q)) \in Nat
         /\ RowOpsIn(q) = {} <=> Cardinality(RowOpsIn(q)) = 0
  <1>1. RowOpsIn(q) = Positions(q, {p \in WritePacket : p.rowOp})
    BY DEF RowOpsIn, Positions
  <1>2. QED
    BY <1>1, PositionsFinite, Zenon

\* Queueing a row operation adds one to their number.
LEMMA RowOpsAppend ==
  ASSUME NEW q \in Seq(WritePacket), NEW p \in WritePacket, p.rowOp
  PROVE  Cardinality(RowOpsIn(Append(q, p))) = Cardinality(RowOpsIn(q)) + 1
  <1>1. RowOpsIn(Append(q, p)) = RowOpsIn(q) \cup {Len(q) + 1}
    BY DEF RowOpsIn
  <1>2. Len(q) + 1 \notin RowOpsIn(q)
    BY DEF RowOpsIn
  <1>3. QED
    BY <1>1, <1>2, RowOpsFinite, FS_AddElement, Zenon

\* Queueing ordinary writes leaves the row operations where they are.
LEMMA RowOpsAppendWrites ==
  ASSUME NEW q \in Seq(WritePacket), NEW n \in Nat, NEW t \in [1 .. n -> WritePacket],
         \A i \in 1 .. n : ~t[i].rowOp
  PROVE  RowOpsIn(q \o t) = RowOpsIn(q)
  <1>1. /\ Len(q) \in Nat /\ DOMAIN q = 1 .. Len(q)
        /\ DOMAIN (q \o t) = 1 .. Len(q) + n
        /\ \A i \in 1 .. Len(q) : (q \o t)[i] = q[i]
    BY WritesAppended, Zenon
  <1>2. ASSUME NEW i \in Len(q) + 1 .. Len(q) + n PROVE ~(q \o t)[i].rowOp
    <2>1. i - Len(q) \in 1 .. n /\ Len(q) + (i - Len(q)) = i
      BY <1>1
    <2>2. (q \o t)[Len(q) + (i - Len(q))] = t[i - Len(q)]
      BY <2>1, WritesAppended
    <2>3. QED
      BY <2>1, <2>2, Zenon
  <1>3. QED
    BY <1>1, <1>2 DEF RowOpsIn

\* Removing a packet removes one row operation if it is one, and none otherwise.
LEMMA RowOpsWithout ==
  ASSUME NEW q \in Seq(WritePacket), NEW i \in DOMAIN q
  PROVE  Cardinality(RowOpsIn(Without(q, i)))
           = IF q[i].rowOp THEN Cardinality(RowOpsIn(q)) - 1 ELSE Cardinality(RowOpsIn(q))
  <1> DEFINE P == {p \in WritePacket : p.rowOp}
  <1>1. Without(q, i) \in Seq(WritePacket) /\ q[i] \in WritePacket
    BY WithoutType
  <1>2. RowOpsIn(q) = Positions(q, P) /\ RowOpsIn(Without(q, i)) = Positions(Without(q, i), P)
    BY <1>1, RowOpsFinite, Zenon
  <1>3. Cardinality(Positions(Without(q, i), P))
          = IF q[i] \in P THEN Cardinality(Positions(q, P)) - 1
                          ELSE Cardinality(Positions(q, P))
    BY PositionsWithout
  <1>4. QED
    BY <1>1, <1>2, <1>3, Zenon

-----------------------------------------------------------------------------
\* Type correctness

\* The packets addToReadQueue appends are read packets.
LEMMA ReadBurstsType ==
  ASSUME NEW r \in Reads, NEW pkt \in ReadPkts, NEW ks, ks \subseteq 1 .. BurstCount(pkt),
         NEW s \in InOrder(ks)
  PROVE  [i \in 1 .. Cardinality(ks) |->
            [req |-> r, rank |-> RankOf(Burst(pkt, s[i]).addr)]]
           \in [1 .. Cardinality(ks) -> ReadPacket]
  BY ConstantAssumption, Zenon DEF InOrder, ReadPacket

\* The packets addToWriteQueue appends are write packets.
LEMMA WriteBurstsType ==
  ASSUME NEW pkt \in WritePkts, NEW ks, ks \subseteq 1 .. BurstCount(pkt),
         NEW s \in InOrder(ks)
  PROVE  [i \in 1 .. Cardinality(ks) |->
            LET b == Burst(pkt, s[i])
            IN  [addr |-> b.addr, size |-> b.size, rowOp |-> FALSE, rank |-> RankOf(b.addr)]]
           \in [1 .. Cardinality(ks) -> WritePacket]
  <1>1. pkt \in Span
    BY ConstantAssumption, Zenon
  <1>2. ASSUME NEW i \in 1 .. Cardinality(ks)
        PROVE  /\ Burst(pkt, s[i]).addr \in Nat /\ Burst(pkt, s[i]).size \in Nat
               /\ RankOf(Burst(pkt, s[i]).addr) \in Ranks
    <2>1. s[i] \in 1 .. BurstCount(pkt)
      BY Zenon DEF InOrder
    <2>2. QED
      BY <1>1, <2>1, BurstType, ConstantAssumption, Zenon
  <1>3. QED
    BY <1>2, Zenon DEF WritePacket

\* What addToReadQueue does to the read queue when it does not answer at once: it
\* appends at most as many packets as the request has bursts.
LEMMA AcceptReadQueue ==
  ASSUME TypeOK, NEW r \in Reads, NEW pkt \in ReadPkts, AcceptRead(r, pkt)
  PROVE  \/ UNCHANGED <<readQueue, helper, nextReqEvent>>
            /\ answers' = [answers EXCEPT ![r] = @ + 1]
         \/ /\ \E n \in Nat : \E t \in [1 .. n -> ReadPacket] :
                 n <= BurstCount(pkt) /\ readQueue' = readQueue \o t
            /\ \E h \in [burstCount : Nat, burstsServiced : Nat] :
                 helper' = [helper EXCEPT ![r] = h]
            /\ nextReqEvent' = TRUE /\ UNCHANGED answers
  <1> DEFINE n == BurstCount(pkt)
             missing == {k \in 1 .. n : ~FoundInWrQ(Burst(pkt, k))}
             new(s) == [i \in 1 .. Cardinality(missing) |->
                          [req |-> r, rank |-> RankOf(Burst(pkt, s[i]).addr)]]
             h == IF n > 1 THEN [burstCount |-> n, burstsServiced |-> n - Cardinality(missing)]
                           ELSE NoHelper
  <1>1. n \in Nat
    BY BurstCountType, ConstantAssumption, Zenon
  <1>2. Cardinality(missing) \in Nat /\ Cardinality(missing) <= n
    BY <1>1, BurstSetSize, Zenon
  <1>3. CASE missing = {}
    BY <1>3, Zenon DEF AcceptRead, AddToReadQueue
  <1>4. CASE missing # {}
    <2>1. PICK s \in InOrder(missing) : readQueue' = readQueue \o new(s)
      BY <1>4, Zenon DEF AcceptRead, AddToReadQueue
    <2>2. new(s) \in [1 .. Cardinality(missing) -> ReadPacket]
      BY ReadBurstsType, Zenon
    <2>3. h \in [burstCount : Nat, burstsServiced : Nat]
      BY <1>1, <1>2 DEF NoHelper
    <2>4. helper' = [helper EXCEPT ![r] = h] /\ nextReqEvent' = TRUE /\ UNCHANGED answers
      BY <1>4, Zenon DEF AcceptRead, AddToReadQueue
    <2> HIDE DEF n, missing, new, h
    <2>5. QED
      BY <1>2, <2>1, <2>2, <2>3, <2>4, Zenon DEF n
  <1>5. QED
    BY <1>3, <1>4, Zenon

\* What addToWriteQueue does with an ordinary write: it appends at most as many
\* packets as the request has bursts, none a row operation, and registers exactly
\* their burst addresses.
LEMMA AcceptWriteQueue ==
  ASSUME TypeOK, NEW pkt \in WritePkts, AcceptWrite(pkt)
  PROVE  \E n \in Nat : \E t \in [1 .. n -> WritePacket] :
           /\ n <= BurstCount(pkt)
           /\ writeQueue' = writeQueue \o t
           /\ \A j \in 1 .. n : ~t[j].rowOp
           /\ isInWriteQueue' = isInWriteQueue \cup {BurstAlign(t[j].addr) : j \in 1 .. n}
  <1> DEFINE n == BurstCount(pkt)
             pushed == {k \in 1 .. n : BurstAlign(Burst(pkt, k).addr) \notin isInWriteQueue}
             m == Cardinality(pushed)
             new(s) == [i \in 1 .. m |->
                          LET b == Burst(pkt, s[i])
                          IN  [addr |-> b.addr, size |-> b.size, rowOp |-> FALSE,
                               rank |-> RankOf(b.addr)]]
  <1>1. n \in Nat /\ pushed \subseteq 1 .. n
    BY BurstCountType, ConstantAssumption, Zenon
  <1>2. m \in Nat /\ m <= n
    BY <1>1, BurstSetSize, Zenon
  <1>3. PICK s \in InOrder(pushed) : writeQueue' = writeQueue \o new(s)
    BY Zenon DEF AcceptWrite
  <1>4. new(s) \in [1 .. m -> WritePacket]
    BY WriteBurstsType, Zenon
  <1>5. \A j \in 1 .. m : ~new(s)[j].rowOp /\ new(s)[j].addr = Burst(pkt, s[j]).addr
    OBVIOUS
  <1>6. isInWriteQueue' = isInWriteQueue \cup {BurstAlign(Burst(pkt, k).addr) : k \in pushed}
    BY Zenon DEF AcceptWrite
  <1>7. \A k \in pushed : \E j \in 1 .. m : s[j] = k
    BY <1>1, InOrderOnto, Zenon
  <1>8. \A j \in 1 .. m : s[j] \in pushed
    BY Zenon DEF InOrder
  <1> HIDE DEF n, pushed, m, new
  <1>9. {BurstAlign(Burst(pkt, k).addr) : k \in pushed} = {BurstAlign(new(s)[j].addr) : j \in 1 .. m}
    BY <1>5, <1>7, <1>8
  <1>10. QED
    BY <1>2, <1>3, <1>4, <1>5, <1>6, <1>9, Zenon DEF n

\* Accepting a read keeps the types.
LEMMA AcceptReadType ==
  ASSUME TypeOK, NEW r \in Reads, NEW pkt \in ReadPkts, AcceptRead(r, pkt)
  PROVE  TypeOK'
  <1>1. readQueue' \in Seq(ReadPacket)
    <2>1. readQueue \in Seq(ReadPacket)
      BY Zenon DEF TypeOK
    <2>2. CASE UNCHANGED readQueue
      BY <2>1, <2>2, Zenon
    <2>3. ASSUME NEW n \in Nat, NEW t \in [1 .. n -> ReadPacket], readQueue' = readQueue \o t
          PROVE  readQueue' \in Seq(ReadPacket)
      BY <2>1, <2>3, ReadsAppended, Zenon
    <2>4. QED
      BY <2>2, <2>3, AcceptReadQueue, Zenon
  <1>2. helper' \in [Reads -> [burstCount : Nat, burstsServiced : Nat]]
    BY AcceptReadQueue, Zenon DEF TypeOK
  <1>3. answers' \in [Reads -> Nat] /\ nextReqEvent' \in BOOLEAN
    <2>1. \/ UNCHANGED nextReqEvent /\ answers' = [answers EXCEPT ![r] = @ + 1]
          \/ nextReqEvent' = TRUE /\ UNCHANGED answers
      BY AcceptReadQueue, Zenon
    <2>2. answers \in [Reads -> Nat] /\ nextReqEvent \in BOOLEAN
      BY Zenon DEF TypeOK
    <2>3. answers' \in [Reads -> Nat]
      BY <2>1, <2>2
    <2>4. nextReqEvent' \in BOOLEAN
      BY <2>1, <2>2, Zenon
    <2>5. QED
      BY <2>3, <2>4, Zenon
  <1>4. QED
    BY <1>1, <1>2, <1>3, Zenon DEF TypeOK, AcceptRead, busVars, retryVars, refreshVars

\* Accepting a write keeps the types.
LEMMA AcceptWriteType ==
  ASSUME TypeOK, NEW pkt \in WritePkts, AcceptWrite(pkt)
  PROVE  TypeOK'
  <1>0. PICK n \in Nat : \E t \in [1 .. n -> WritePacket] :
          /\ writeQueue' = writeQueue \o t
          /\ isInWriteQueue' = isInWriteQueue \cup {BurstAlign(t[j].addr) : j \in 1 .. n}
    BY AcceptWriteQueue, Zenon
  <1>1. PICK t \in [1 .. n -> WritePacket] :
          /\ writeQueue' = writeQueue \o t
          /\ isInWriteQueue' = isInWriteQueue \cup {BurstAlign(t[j].addr) : j \in 1 .. n}
    BY <1>0, Zenon
  <1>2. writeQueue' \in Seq(WritePacket)
    <2>1. writeQueue \in Seq(WritePacket)
      BY Zenon DEF TypeOK
    <2>2. QED
      BY <1>1, <2>1, WritesAppended, Zenon
  <1>3. isInWriteQueue' \subseteq Nat
    <2>1. ASSUME NEW a \in Nat PROVE BurstAlign(a) \in Nat
      BY ConstantAssumption DEF BurstAlign
    <2>2. \A j \in 1 .. n : t[j].addr \in Nat
      BY Zenon DEF WritePacket
    <2>3. QED
      BY <1>1, <2>1, <2>2, Zenon DEF TypeOK
  <1>4. QED
    BY <1>2, <1>3, Zenon DEF TypeOK, AcceptWrite, busVars, retryVars, refreshVars, readVars

\* A response keeps the types.
LEMMA RespondType == ASSUME TypeOK, ProcessRespondEvent, respQueue # <<>> PROVE TypeOK'
  <1> DEFINE r == Head(respQueue).req
  <1>1. Head(respQueue) \in ReadPacket /\ Tail(respQueue) \in Seq(ReadPacket)
    BY DEF TypeOK
  <1>2. r \in Reads
    BY <1>1, Zenon DEF ReadPacket
  <1>3. /\ answers' \in [Reads -> Nat]
        /\ helper' \in [Reads -> [burstCount : Nat, burstsServiced : Nat]]
    <2> HIDE DEF r
    <2>1. CASE CompletesRead(r)
      <3>1. /\ answers' = [answers EXCEPT ![r] = @ + 1]
            /\ helper' = [helper EXCEPT ![r] = NoHelper]
        BY <2>1, Zenon DEF ProcessRespondEvent, r
      <3>2. QED
        BY <1>2, <3>1 DEF TypeOK, NoHelper
    <2>2. CASE ~CompletesRead(r)
      <3>1. /\ helper' = [helper EXCEPT ![r].burstsServiced = @ + 1]
            /\ UNCHANGED answers
        BY <2>2, Zenon DEF ProcessRespondEvent, r
      <3>2. QED
        BY <1>2, <3>1 DEF TypeOK
    <2>3. QED
      BY <2>1, <2>2, Zenon
  <1>4. respQueue' \in Seq(ReadPacket) /\ respondEvent' \in BOOLEAN
    BY <1>1, Zenon DEF ProcessRespondEvent, RespondAgain
  <1>5. QED
    BY <1>2, <1>3, <1>4, Zenon DEF TypeOK, ProcessRespondEvent, busVars, refreshVars

\* A step of the request loop keeps the types.
LEMMA NextReqType == ASSUME TypeOK, RowOpCount, ProcessNextReqEvent PROVE TypeOK'
  <1>1. /\ refreshState' \in [Ranks -> {"REF_IDLE", "REF_DRAIN", "REF_PRE", "REF_RUN"}]
        /\ refreshEvent' \in [Ranks -> BOOLEAN] /\ refreshing' \in [Ranks -> BOOLEAN]
        /\ rested' \subseteq Ranks
    BY Zenon DEF TypeOK, ProcessNextReqEvent, CheckDrainDone
  <1>2. BusNow \in {"READ", "WRITE"} /\ WritesNow \in 0 .. MinWritesPerSwitch
    BY ConstantAssumption DEF TypeOK, BusNow, WritesNow
  <1>3. ASSUME NEW q, RetryWrites(q)
        PROVE  retryWrReq' \in BOOLEAN /\ peer' \in {"ready", "waiting"}
    BY <1>3, Zenon DEF TypeOK, RetryWrites
  <1>4. CASE StallAllBusy
    BY <1>1, <1>4, Zenon DEF TypeOK, StallAllBusy, queueVars, busVars, retryVars, readVars
  <1>5. CASE GoIdle
    BY <1>1, <1>2, <1>5, Zenon DEF TypeOK, GoIdle, queueVars, retryVars, readVars
  <1>6. CASE StallRankBusy
    BY <1>1, <1>2, <1>6, Zenon DEF TypeOK, StallRankBusy, queueVars, retryVars, readVars
  <1>7. CASE TurnToWrites
    BY <1>1, <1>2, <1>3, <1>7 DEF TypeOK, TurnToWrites, queueVars, readVars
  <1>8. ASSUME NEW i \in DOMAIN readQueue, ServeRead(i) PROVE TypeOK'
    <2>1. readQueue' \in Seq(ReadPacket)
      BY <1>8, WithoutType DEF TypeOK, ServeRead
    <2>2. readQueue[i] \in ReadPacket
      BY DEF TypeOK
    <2>3. respQueue' \in Seq(ReadPacket) /\ activeRank' \in Ranks
      BY <1>8, <2>2 DEF TypeOK, ServeRead, ReadPacket
    <2>4. QED
      BY <1>1, <1>2, <1>3, <1>8, <2>1, <2>3 DEF TypeOK, ServeRead, readVars
  <1>9. ASSUME NEW i \in DOMAIN writeQueue, ServeWrite(i) PROVE TypeOK'
    <2>1. writeQueue' \in Seq(WritePacket)
      BY <1>9, WithoutType DEF TypeOK, ServeWrite
    <2>2. writeQueue[i] \in WritePacket
      BY DEF TypeOK
    <2>3. activeRank' \in Ranks /\ isInWriteQueue' \subseteq Nat
      BY <1>9, <2>2, Zenon DEF TypeOK, ServeWrite, WritePacket, Deregister
    <2>4. writesThisTime' \in 0 .. MinWritesPerSwitch
      BY <1>9, ConstantAssumption DEF TypeOK, ServeWrite
    <2>5. pendingRowOps' \in Nat
      <3>1. CASE writeQueue[i].rowOp
        <4>1. i \in RowOpsIn(writeQueue)
          BY <3>1, Zenon DEF RowOpsIn
        <4>2. pendingRowOps # 0 /\ pendingRowOps \in Nat
          BY <4>1, RowOpsFinite, Zenon DEF TypeOK, RowOpCount
        <4>3. QED
          BY <1>9, <3>1, <4>2 DEF ServeWrite
      <3>2. CASE ~writeQueue[i].rowOp
        BY <1>9, <3>2 DEF TypeOK, ServeWrite
      <3>3. QED
        BY <3>1, <3>2, Zenon
    <2>6. QED
      BY <1>1, <1>2, <1>3, <1>9, <2>1, <2>3, <2>4, <2>5, ZenonT(30) DEF TypeOK, ServeWrite, readVars
  <1>10. QED
    BY <1>4, <1>5, <1>6, <1>7, <1>8, <1>9, Zenon DEF ProcessNextReqEvent

\* Row operations and commands of the refresh loop keep the types.
LEMMA OtherType ==
  ASSUME TypeOK
  PROVE  /\ \A pkt \in ReadPkts : RefuseRead(pkt) => TypeOK'
         /\ \A n : RefuseWrite(n) => TypeOK'
         /\ \A dest \in RowOpDests : AcceptRowOp(dest) => TypeOK'
         /\ \A r \in Reads : TakeResponse(r) => TypeOK'
         /\ \A r \in Ranks : RefreshDue(r) \/ RefreshPrecharge(r) \/ RefreshRun(r)
                               \/ RefreshDone(r) => TypeOK'
         /\ Drain \/ DrainResume \/ UNCHANGED vars => TypeOK'
  <1> USE DEF queueVars, busVars, eventVars, retryVars, refreshVars, readVars
  <1>1. ASSUME NEW pkt \in ReadPkts, RefuseRead(pkt) PROVE TypeOK'
    BY <1>1 DEF TypeOK, RefuseRead
  <1>2. ASSUME NEW n, RefuseWrite(n) PROVE TypeOK'
    BY <1>2 DEF TypeOK, RefuseWrite
  <1>3. ASSUME NEW dest \in RowOpDests, AcceptRowOp(dest) PROVE TypeOK'
    <2>1. [addr |-> dest, size |-> 0, rowOp |-> TRUE, rank |-> RankOf(dest)] \in WritePacket
      BY ConstantAssumption DEF WritePacket
    <2>2. writeQueue' \in Seq(WritePacket)
      BY <1>3, <2>1, SMTT(30) DEF TypeOK, AcceptRowOp
    <2>3. QED
      BY <1>3, <2>2, SMTT(30) DEF TypeOK, AcceptRowOp
  <1>4. ASSUME NEW r \in Reads, TakeResponse(r) PROVE TypeOK'
    BY <1>4, SMTT(30) DEF TypeOK, TakeResponse
  <1>5. ASSUME NEW r \in Ranks,
               RefreshDue(r) \/ RefreshPrecharge(r) \/ RefreshRun(r) \/ RefreshDone(r)
        PROVE  TypeOK'
    <2>1. CASE RefreshDue(r)
      BY <2>1, ZenonT(30) DEF TypeOK, RefreshDue
    <2>2. CASE RefreshPrecharge(r)
      BY <2>2, ZenonT(30) DEF TypeOK, RefreshPrecharge
    <2>3. CASE RefreshRun(r)
      BY <2>3 DEF TypeOK, RefreshRun
    <2>4. CASE RefreshDone(r)
      BY <2>4 DEF TypeOK, RefreshDone
    <2>5. QED
      BY <1>5, <2>1, <2>2, <2>3, <2>4, Zenon
  <1>6. CASE Drain
    BY <1>6, ZenonT(30) DEF TypeOK, Drain
  <1>7. CASE DrainResume
    BY <1>7, ZenonT(60) DEF TypeOK, DrainResume
  <1>8. CASE UNCHANGED vars
    <2>1. UNCHANGED <<readQueue, writeQueue, respQueue, isInWriteQueue, helper, pendingRowOps>>
      BY <1>8, Zenon DEF vars
    <2>2. UNCHANGED <<busState, writesThisTime, activeRank, nextReqEvent, respondEvent,
                      retryRdReq, retryWrReq, peer, drainState>>
      BY <1>8, Zenon DEF vars
    <2>3. UNCHANGED <<refreshState, refreshEvent, refreshing, rested, outstanding, answers>>
      BY <1>8 DEF vars
    <2>4. /\ (readQueue \in Seq(ReadPacket))' /\ (respQueue \in Seq(ReadPacket))'
          /\ (writeQueue \in Seq(WritePacket))' /\ (isInWriteQueue \subseteq Nat)'
          /\ (helper \in [Reads -> [burstCount : Nat, burstsServiced : Nat]])'
          /\ (pendingRowOps \in Nat)'
      BY <2>1 DEF TypeOK
    <2>5. /\ (nextReqEvent \in BOOLEAN)' /\ (respondEvent \in BOOLEAN)'
          /\ (retryRdReq \in BOOLEAN)' /\ (retryWrReq \in BOOLEAN)'
      BY <2>2 DEF TypeOK
    <2>6. /\ (busState \in {"READ", "READ_TO_WRITE", "WRITE", "WRITE_TO_READ"})'
          /\ (writesThisTime \in 0 .. MinWritesPerSwitch)'
          /\ (peer \in {"ready", "waiting"})' /\ (activeRank \in Ranks)'
          /\ (drainState \in {"Running", "Draining", "Drained"})'
      BY <2>2 DEF TypeOK
    <2>7. /\ (refreshState \in [Ranks -> {"REF_IDLE", "REF_DRAIN", "REF_PRE", "REF_RUN"}])'
          /\ (refreshEvent \in [Ranks -> BOOLEAN])' /\ (refreshing \in [Ranks -> BOOLEAN])'
          /\ (rested \subseteq Ranks)' /\ (outstanding \subseteq Reads)'
          /\ (answers \in [Reads -> Nat])'
      BY <2>3 DEF TypeOK
    <2>8. QED
      BY <2>4, <2>5, <2>6, <2>7, Zenon DEF TypeOK
  <1>9. QED
    BY <1>1, <1>2, <1>3, <1>4, <1>5, <1>6, <1>7, <1>8

\* Every step keeps the types, given the facts that make the subtraction in
\* doDRAMAccess and the front() of processRespondEvent safe.
LEMMA TypeStep ==
  ASSUME TypeOK, RowOpCount, ResponseScheduled, [Next]_vars
  PROVE  TypeOK'
  <1>1. CASE ProcessRespondEvent
    <2>1. respQueue # <<>>
      BY <1>1, Zenon DEF ResponseScheduled, ProcessRespondEvent
    <2>2. QED
      BY <1>1, <2>1, RespondType
  <1>2. QED
    BY <1>1, AcceptReadType, AcceptWriteType, NextReqType, OtherType DEF Next

-----------------------------------------------------------------------------
\* Row operations and the direction of the bus

\* The count of pending row operations stays exact.
LEMMA RowOpCountStep ==
  ASSUME TypeOK, RowOpCount, [Next]_vars
  PROVE  RowOpCount'
  <1> writeQueue \in Seq(WritePacket)
    BY Zenon DEF TypeOK
  <1>1. ASSUME NEW pkt \in WritePkts, AcceptWrite(pkt) PROVE RowOpCount'
    <2>0. PICK n \in Nat : \E t \in [1 .. n -> WritePacket] :
            writeQueue' = writeQueue \o t /\ \A j \in 1 .. n : ~t[j].rowOp
      BY <1>1, AcceptWriteQueue, ZenonT(30)
    <2>1. PICK t \in [1 .. n -> WritePacket] :
            writeQueue' = writeQueue \o t /\ \A j \in 1 .. n : ~t[j].rowOp
      BY <2>0, Zenon
    <2>2. RowOpsIn(writeQueue') = RowOpsIn(writeQueue)
      BY <2>1, RowOpsAppendWrites, Zenon
    <2>3. QED
      BY <1>1, <2>2, ZenonT(30) DEF RowOpCount, AcceptWrite
  <1>2. ASSUME NEW dest \in RowOpDests, AcceptRowOp(dest) PROVE RowOpCount'
    <2> DEFINE p == [addr |-> dest, size |-> 0, rowOp |-> TRUE, rank |-> RankOf(dest)]
    <2>1. p \in WritePacket /\ p.rowOp
      BY ConstantAssumption, Zenon DEF WritePacket
    <2>2. writeQueue' = Append(writeQueue, p) /\ pendingRowOps' = pendingRowOps + 1
      BY <1>2, Zenon DEF AcceptRowOp
    <2> HIDE DEF p
    <2>3. Cardinality(RowOpsIn(writeQueue')) = Cardinality(RowOpsIn(writeQueue)) + 1
      BY <2>1, <2>2, RowOpsAppend
    <2>4. QED
      BY <2>2, <2>3, Zenon DEF RowOpCount
  <1>3. ASSUME NEW i \in DOMAIN writeQueue, ServeWrite(i) PROVE RowOpCount'
    <2>1. /\ writeQueue' = Without(writeQueue, i)
          /\ pendingRowOps' = IF writeQueue[i].rowOp THEN pendingRowOps - 1
                                                     ELSE pendingRowOps
      BY <1>3, Zenon DEF ServeWrite
    <2>2. QED
      BY <2>1, RowOpsWithout, Zenon DEF RowOpCount
  <1>4. CASE UNCHANGED <<writeQueue, pendingRowOps>>
    BY <1>4, Zenon DEF RowOpCount
  <1>5. CASE ProcessNextReqEvent
    BY <1>3, <1>4, <1>5 DEF ProcessNextReqEvent, StallAllBusy, GoIdle, StallRankBusy,
       TurnToWrites, ServeRead, queueVars
  <1>6. QED
    BY <1>1, <1>2, <1>4, <1>5 DEF Next, vars, queueVars, RefuseRead, RefuseWrite, AcceptRead,
       TakeResponse, ProcessRespondEvent, RefreshDue, RefreshPrecharge, RefreshRun,
       RefreshDone, Drain, DrainResume

\* A queue without packets has no row operation.
LEMMA RowOpsEmpty == Cardinality(RowOpsIn(<<>>)) = 0
  <1>1. RowOpsIn(<<>>) = {}
    BY DEF RowOpsIn
  <1>2. QED
    BY <1>1, FS_EmptySet, Zenon

\* The bus stays away from writes when there are none.
LEMMA WritesToServeStep ==
  ASSUME TypeOK, RowOpCount, RowOpCount', WritesToServe, [Next]_vars
  PROVE  WritesToServe'
  <1>1. ASSUME NEW pkt \in WritePkts, AcceptWrite(pkt) PROVE WritesToServe'
    <2>0. PICK n \in Nat : \E t \in [1 .. n -> WritePacket] : writeQueue' = writeQueue \o t
      BY <1>1, AcceptWriteQueue, Zenon
    <2>1. PICK t \in [1 .. n -> WritePacket] : writeQueue' = writeQueue \o t
      BY <2>0, Zenon
    <2>2. writeQueue \in Seq(WritePacket) /\ UNCHANGED busState
      BY <1>1, ZenonT(30) DEF TypeOK, AcceptWrite, busVars
    <2>3. Len(writeQueue') = Len(writeQueue) + n
      BY <2>1, <2>2, WritesAppended, Zenon
    <2>4. writeQueue # <<>> => writeQueue' # <<>>
      BY <2>2, <2>3
    <2>5. QED
      BY <2>2, <2>4, Zenon DEF WritesToServe
  <1>2. ASSUME NEW dest \in RowOpDests, AcceptRowOp(dest) PROVE WritesToServe'
    <2> DEFINE p == [addr |-> dest, size |-> 0, rowOp |-> TRUE, rank |-> RankOf(dest)]
    <2>1. writeQueue' = Append(writeQueue, p) /\ writeQueue \in Seq(WritePacket)
      BY <1>2 DEF AcceptRowOp, TypeOK
    <2> HIDE DEF p
    <2>2. writeQueue' # <<>>
      BY <2>1
    <2>3. QED
      BY <2>2, Zenon DEF WritesToServe
  <1>3. CASE ProcessNextReqEvent
    <2>1. CASE StallAllBusy
      BY <2>1, Zenon DEF StallAllBusy, WritesToServe, queueVars, busVars
    <2>2. CASE GoIdle
      BY <2>2, Zenon DEF GoIdle, WritesToServe
    <2>3. CASE StallRankBusy
      BY <2>3, Zenon DEF StallRankBusy, WritesToServe, BusNow, TypeOK, queueVars
    <2>4. CASE TurnToWrites
      BY <2>4, Zenon DEF TurnToWrites, WritesDue, WritesToServe, queueVars
    <2>5. ASSUME NEW i \in DOMAIN readQueue, ServeRead(i) PROVE WritesToServe'
      <3>1. CASE writeQueue = <<>>
        <4>1. pendingRowOps = 0 /\ Len(writeQueue) = 0
          BY <3>1, RowOpsEmpty, Zenon DEF RowOpCount
        <4>2. busState' = "READ"
          BY <2>5, <4>1, ConstantAssumption DEF ServeRead
        <4>3. QED
          BY <4>2, Zenon DEF WritesToServe
      <3>2. CASE writeQueue # <<>>
        BY <2>5, <3>2 DEF ServeRead, WritesToServe
      <3>3. QED
        BY <3>1, <3>2, Zenon
    <2>6. ASSUME NEW i \in DOMAIN writeQueue, ServeWrite(i), writeQueue' = <<>>
          PROVE  busState' = "WRITE_TO_READ"
      <3>1. pendingRowOps' = 0
        BY <2>6, RowOpsEmpty, Zenon DEF RowOpCount
      <3>2. QED
        BY <2>6, <3>1 DEF ServeWrite, TurnToReads
    <2>7. QED
      BY <1>3, <2>1, <2>2, <2>3, <2>4, <2>5, <2>6 DEF ProcessNextReqEvent, WritesToServe
  <1>4. CASE UNCHANGED <<writeQueue, busState>>
    BY <1>4 DEF WritesToServe
  <1>5. QED
    BY <1>1, <1>2, <1>3, <1>4, ZenonT(30) DEF Next, vars, queueVars, busVars, RefuseRead, RefuseWrite,
       AcceptRead, TakeResponse, ProcessRespondEvent, RefreshDue, RefreshPrecharge,
       RefreshRun, RefreshDone, Drain, DrainResume

-----------------------------------------------------------------------------
\* Scheduling of responses, retries and refreshes

\* respondEvent stays scheduled exactly while responses are due.
LEMMA ResponseScheduledStep ==
  ASSUME TypeOK, ResponseScheduled, [Next]_vars
  PROVE  ResponseScheduled'
  <1>1. CASE ProcessRespondEvent
    BY <1>1, Zenon DEF ProcessRespondEvent, RespondAgain, ResponseScheduled, TypeOK
  <1>2. CASE UNCHANGED <<respQueue, respondEvent>>
    BY <1>2, Zenon DEF ResponseScheduled
  <1>3. ASSUME NEW i \in DOMAIN readQueue, ServeRead(i) PROVE ResponseScheduled'
    <2>1. respQueue \in Seq(ReadPacket) /\ readQueue[i] \in ReadPacket
      BY DEF TypeOK
    <2>2. Append(respQueue, readQueue[i]) # <<>>
      BY <2>1
    <2>3. QED
      BY <1>3, <2>2 DEF ServeRead, ResponseScheduled
  <1>4. CASE ProcessNextReqEvent
    BY <1>2, <1>3, <1>4, ZenonT(30) DEF ProcessNextReqEvent, StallAllBusy, GoIdle, StallRankBusy,
       TurnToWrites, ServeWrite, queueVars
  <1>5. QED
    BY <1>1, <1>2, <1>4, Zenon DEF Next, vars, queueVars, eventVars, RefuseRead, RefuseWrite,
       AcceptRead, AcceptWrite, AcceptRowOp, TakeResponse, RefreshDue, RefreshPrecharge,
       RefreshRun, RefreshDone, Drain, DrainResume

\* One retry is owed for each refusal.
LEMMA RetryOwedStep ==
  ASSUME TypeOK, RetryOwed, [Next]_vars
  PROVE  RetryOwed'
  <1>1. ASSUME NEW pkt \in ReadPkts, RefuseRead(pkt) PROVE RetryOwed'
    BY <1>1, Zenon DEF RefuseRead, RetryOwed
  <1>2. ASSUME NEW n, RefuseWrite(n) PROVE RetryOwed'
    BY <1>2, Zenon DEF RefuseWrite, RetryOwed
  <1>3. CASE ProcessRespondEvent
    BY <1>3 DEF ProcessRespondEvent, RetryOwed, TypeOK
  <1>4. ASSUME NEW q, RetryWrites(q), UNCHANGED retryRdReq PROVE RetryOwed'
    BY <1>4 DEF RetryWrites, RetryOwed, TypeOK
  <1>5. CASE UNCHANGED retryVars
    BY <1>5, Zenon DEF RetryOwed, retryVars
  <1>6. CASE ProcessNextReqEvent
    BY <1>4, <1>5, <1>6, ZenonT(30) DEF ProcessNextReqEvent, StallAllBusy, GoIdle, StallRankBusy,
       TurnToWrites, ServeRead, ServeWrite
  <1>7. QED
    BY <1>1, <1>2, <1>3, <1>5, <1>6, Zenon DEF Next, vars, AcceptRead, AcceptWrite, AcceptRowOp,
       TakeResponse, RefreshDue, RefreshPrecharge, RefreshRun, RefreshDone, Drain,
       DrainResume

\* A rank waiting for the request loop is not forgotten.
LEMMA RefreshHandoverStep ==
  ASSUME TypeOK, RefreshHandover, [Next]_vars
  PROVE  RefreshHandover'
  <1> USE DEF refreshVars, eventVars
  <1>1. CASE UNCHANGED <<refreshState, refreshEvent, refreshing>> /\ (nextReqEvent => nextReqEvent')
    BY <1>1, Zenon DEF RefreshHandover
  <1>2. CASE ProcessNextReqEvent
    <2>1. /\ refreshState' = [r \in Ranks |->
               IF refreshState[r] = "REF_DRAIN" THEN "REF_PRE" ELSE refreshState[r]]
          /\ refreshEvent' = [r \in Ranks |-> refreshState[r] = "REF_DRAIN" \/ refreshEvent[r]]
          /\ UNCHANGED refreshing
      BY <1>2, ZenonT(30) DEF ProcessNextReqEvent, CheckDrainDone
    <2>2. QED
      BY <2>1 DEF RefreshHandover, TypeOK
  <1>3. ASSUME NEW r \in Ranks, RefreshDue(r) PROVE RefreshHandover'
    BY <1>3 DEF RefreshDue, RefreshHandover, TypeOK
  <1>4. ASSUME NEW r \in Ranks, RefreshPrecharge(r) PROVE RefreshHandover'
    BY <1>4, ZenonT(30) DEF RefreshPrecharge, RefreshHandover, TypeOK
  <1>5. ASSUME NEW r \in Ranks, RefreshRun(r) PROVE RefreshHandover'
    BY <1>5 DEF RefreshRun, RefreshHandover, TypeOK
  <1>6. ASSUME NEW r \in Ranks, RefreshDone(r) PROVE RefreshHandover'
    BY <1>6 DEF RefreshDone, RefreshHandover, TypeOK
  <1>7. ASSUME NEW r \in Reads, NEW pkt \in ReadPkts, AcceptRead(r, pkt)
        PROVE  RefreshHandover'
    BY <1>1, <1>7, Zenon DEF AcceptRead, AddToReadQueue
  <1>8. CASE Drain
    BY <1>1, <1>8, Zenon DEF Drain
  <1>9. CASE DrainResume \/ ProcessRespondEvent
    BY <1>1, <1>9 DEF DrainResume, ProcessRespondEvent
  <1>10. ASSUME NEW pkt, RefuseRead(pkt) \/ RefuseWrite(pkt) \/ AcceptWrite(pkt)
                           \/ AcceptRowOp(pkt) \/ TakeResponse(pkt)
         PROVE  RefreshHandover'
    BY <1>1, <1>10, Zenon DEF RefuseRead, RefuseWrite, AcceptWrite, AcceptRowOp, TakeResponse
  <1>11. CASE UNCHANGED vars
    BY <1>1, <1>11 DEF vars
  <1>12. QED
    BY <1>2, <1>3, <1>4, <1>5, <1>6, <1>7, <1>8, <1>9, <1>10, <1>11 DEF Next

\* The request loop is asleep only while a rank is refreshing or there is nothing
\* to do.
LEMMA NoLostWakeupStep ==
  ASSUME TypeOK, WritesToServe, NoLostWakeup, [Next]_vars
  PROVE  NoLostWakeup'
  <1> DEFINE Work == readQueue # <<>> \/ WritesDue \/ busState # "READ"
             Busy == \E r \in Ranks : ~Available(r)
  <1>1. ASSUME nextReqEvent' = TRUE PROVE NoLostWakeup'
    BY <1>1, Zenon DEF NoLostWakeup
  <1>2. ASSUME UNCHANGED <<readQueue, writeQueue, pendingRowOps, busState, nextReqEvent>>,
               Busy => Busy', drainState' = "Draining" => drainState = "Draining"
        PROVE  NoLostWakeup'
    BY <1>2, Zenon DEF NoLostWakeup, WritesDue
  <1>3. ASSUME NEW r \in Reads, NEW pkt \in ReadPkts, AcceptRead(r, pkt)
        PROVE  NoLostWakeup'
    <2>1. CASE nextReqEvent' = TRUE
      BY <1>1, <2>1, Zenon
    <2>2. CASE UNCHANGED <<readQueue, nextReqEvent>>
      BY <1>2, <1>3, <2>2 DEF AcceptRead, busVars, refreshVars, Available
    <2>3. QED
      BY <1>3, <2>1, <2>2, Zenon DEF AcceptRead, AddToReadQueue
  <1>4. ASSUME NEW x, \/ RefuseRead(x) \/ RefuseWrite(x) \/ TakeResponse(x)
        PROVE  NoLostWakeup'
    BY <1>2, <1>4 DEF RefuseRead, RefuseWrite, TakeResponse, queueVars, busVars, eventVars,
       refreshVars, Available
  <1>5. ASSUME NEW x, AcceptWrite(x) \/ AcceptRowOp(x) \/ RefreshDone(x)
        PROVE  NoLostWakeup'
    BY <1>1, <1>5, Zenon DEF AcceptWrite, AcceptRowOp, RefreshDone
  <1>6. ASSUME NEW r \in Ranks, RefreshDue(r) \/ RefreshPrecharge(r) \/ RefreshRun(r)
        PROVE  NoLostWakeup'
    <2>1. Busy => Busy'
      BY <1>6 DEF RefreshDue, RefreshPrecharge, RefreshRun, Available, TypeOK
    <2>2. QED
      BY <1>2, <1>6, <2>1 DEF RefreshDue, RefreshPrecharge, RefreshRun, queueVars, busVars,
         eventVars
  <1>7. CASE Drain
    <2>1. CASE writeQueue # <<>>
      BY <1>1, <1>7, <2>1, Zenon DEF Drain
    <2>2. CASE writeQueue = <<>>
      BY <1>7, <2>2 DEF Drain, NoLostWakeup, WritesDue, queueVars, busVars, refreshVars,
         Available, TypeOK
    <2>3. QED
      BY <2>1, <2>2
  <1>8. CASE DrainResume \/ ProcessRespondEvent \/ UNCHANGED vars
    BY <1>2, <1>8 DEF DrainResume, ProcessRespondEvent, vars, queueVars, busVars, eventVars,
       refreshVars, Available
  <1>9. CASE ProcessNextReqEvent
    <2>1. ASSUME NEW r \in Ranks, ~Available(r) PROVE Available(r)' = FALSE
      BY <1>9, <2>1, Zenon DEF ProcessNextReqEvent, CheckDrainDone, Available
    <2>2. CASE StallAllBusy
      <3>1. Busy'
        BY <2>1, <2>2, ConstantAssumption, Zenon DEF StallAllBusy
      <3>2. QED
        BY <3>1, Zenon DEF NoLostWakeup
    <2>3. CASE GoIdle
      BY <2>3, Zenon DEF GoIdle, NoLostWakeup, WritesDue, queueVars
    <2>4. CASE StallRankBusy
      <3>1. ASSUME NEW S, NEW q \in Seq(S), q # <<>>, Ready(q) = {}
            PROVE  ~Available(q[1].rank)
        <4>1. 1 \in DOMAIN q
          BY <3>1
        <4>2. QED
          BY <3>1, <4>1, Zenon DEF Ready
      <3>2. CASE readQueue # <<>> /\ Ready(readQueue) = {}
        <4>1. ~Available(readQueue[1].rank) /\ readQueue[1].rank \in Ranks
          <5>1. readQueue \in Seq(ReadPacket)
            BY Zenon DEF TypeOK
          <5>2. readQueue[1] \in ReadPacket
            BY <3>2, <5>1
          <5>3. ~Available(readQueue[1].rank)
            BY <3>1, <3>2, <5>1
          <5>4. QED
            BY <5>2, <5>3 DEF ReadPacket
        <4>2. Busy'
          BY <2>1, <4>1, Zenon
        <4>3. QED
          BY <4>2, Zenon DEF NoLostWakeup
      <3>3. CASE BusNow = "WRITE" /\ Ready(writeQueue) = {}
        <4>1. writeQueue # <<>>
          BY <3>3 DEF WritesToServe, BusNow, TypeOK
        <4>2. ~Available(writeQueue[1].rank) /\ writeQueue[1].rank \in Ranks
          <5>1. writeQueue \in Seq(WritePacket)
            BY Zenon DEF TypeOK
          <5>2. writeQueue[1] \in WritePacket
            BY <3>3, <4>1, <5>1
          <5>3. ~Available(writeQueue[1].rank)
            BY <3>1, <3>3, <4>1, <5>1
          <5>4. QED
            BY <5>2, <5>3 DEF WritePacket
        <4>3. Busy'
          BY <2>1, <4>2, Zenon
        <4>4. QED
          BY <4>3, Zenon DEF NoLostWakeup
      <3>4. QED
        BY <2>4, <3>2, <3>3, Zenon DEF StallRankBusy
    <2>5. QED
      BY <1>1, <1>9, <2>2, <2>3, <2>4, Zenon DEF ProcessNextReqEvent, TurnToWrites, ServeRead,
         ServeWrite
  <1>10. QED
    BY <1>3, <1>4, <1>5, <1>6, <1>7, <1>8, <1>9 DEF Next

-----------------------------------------------------------------------------
\* Buffers

\* No buffer grows beyond its size.
LEMMA QueueBoundsStep ==
  ASSUME TypeOK, ResponseScheduled, QueueBounds, [Next]_vars
  PROVE  QueueBounds'
  <1> /\ readQueue \in Seq(ReadPacket) /\ respQueue \in Seq(ReadPacket)
      /\ writeQueue \in Seq(WritePacket)
    BY Zenon DEF TypeOK
  <1>1. CASE UNCHANGED <<readQueue, respQueue, writeQueue>>
    BY <1>1, Zenon DEF QueueBounds
  <1>2. ASSUME NEW r \in Reads, NEW pkt \in ReadPkts, AcceptRead(r, pkt)
        PROVE  QueueBounds'
    <2>1. BurstCount(pkt) \in Nat
      BY BurstCountType, ConstantAssumption
    <2>2. /\ Len(readQueue) + Len(respQueue) + BurstCount(pkt) <= ReadBufferSize
          /\ UNCHANGED <<writeQueue, respQueue>>
      BY <1>2, <2>1, ConstantAssumption DEF AcceptRead, ReadQueueFull
    <2>3. CASE UNCHANGED readQueue
      BY <1>1, <2>2, <2>3
    <2>4. ASSUME NEW n \in Nat, NEW t \in [1 .. n -> ReadPacket], n <= BurstCount(pkt),
                 readQueue' = readQueue \o t
          PROVE  QueueBounds'
      <3>1. Len(readQueue') = Len(readQueue) + n
        BY <2>4, ReadsAppended
      <3>2. QED
        BY <2>1, <2>2, <2>4, <3>1, ConstantAssumption DEF QueueBounds
    <2>5. QED
      BY <1>2, <2>3, <2>4, AcceptReadQueue, Zenon
  <1>3. ASSUME NEW pkt \in WritePkts, AcceptWrite(pkt) PROVE QueueBounds'
    <2>1. BurstCount(pkt) \in Nat
      BY BurstCountType, ConstantAssumption
    <2>2. Len(writeQueue) + BurstCount(pkt) <= WriteBufferSize
      <3>1. ~WriteQueueFull(BurstCount(pkt))
        BY <1>3, Zenon DEF AcceptWrite
      <3>2. Len(writeQueue) \in Nat /\ WriteBufferSize \in Nat
        BY ConstantAssumption
      <3>3. QED
        BY <2>1, <3>1, <3>2 DEF WriteQueueFull
    <2>3. UNCHANGED <<readQueue, respQueue>>
      BY <1>3, Zenon DEF AcceptWrite
    <2>0. PICK n \in Nat : \E t \in [1 .. n -> WritePacket] :
            n <= BurstCount(pkt) /\ writeQueue' = writeQueue \o t
      BY <1>3, AcceptWriteQueue, Zenon
    <2>4. PICK t \in [1 .. n -> WritePacket] :
            n <= BurstCount(pkt) /\ writeQueue' = writeQueue \o t
      BY <2>0, Zenon
    <2>5. Len(writeQueue') = Len(writeQueue) + n
      BY <2>4, WritesAppended, ZenonT(30)
    <2>6. QED
      BY <2>1, <2>2, <2>3, <2>4, <2>5, ConstantAssumption DEF QueueBounds
  <1>4. ASSUME NEW dest \in RowOpDests, AcceptRowOp(dest) PROVE QueueBounds'
    <2> DEFINE p == [addr |-> dest, size |-> 0, rowOp |-> TRUE, rank |-> RankOf(dest)]
    <2>1. writeQueue' = Append(writeQueue, p) /\ UNCHANGED <<readQueue, respQueue>>
      BY <1>4 DEF AcceptRowOp
    <2>2. Len(writeQueue) + RowOpBursts <= WriteBufferSize
      <3>1. ~WriteQueueFull(RowOpBursts)
        BY <1>4, Zenon DEF AcceptRowOp
      <3>2. Len(writeQueue) \in Nat /\ WriteBufferSize \in Nat /\ RowOpBursts \in Nat
        BY ConstantAssumption
      <3>3. QED
        BY <3>1, <3>2 DEF WriteQueueFull
    <2> HIDE DEF p
    <2>3. Len(writeQueue') = Len(writeQueue) + 1
      BY <2>1
    <2>4. QED
      BY <2>1, <2>2, <2>3, ConstantAssumption DEF QueueBounds
  <1>5. CASE ProcessRespondEvent
    <2>1. respQueue # <<>> /\ respQueue' = Tail(respQueue) /\ UNCHANGED <<readQueue, writeQueue>>
      BY <1>5 DEF ProcessRespondEvent, ResponseScheduled
    <2>2. QED
      BY <2>1, ConstantAssumption DEF QueueBounds
  <1>6. ASSUME NEW i \in DOMAIN readQueue, ServeRead(i) PROVE QueueBounds'
    <2>1. readQueue[i] \in ReadPacket
      OBVIOUS
    <2>2. Len(readQueue') = Len(readQueue) - 1 /\ Len(respQueue') = Len(respQueue) + 1
      BY <1>6, <2>1, WithoutType DEF ServeRead
    <2>3. QED
      BY <1>6, <2>2, ConstantAssumption, SMTT(30) DEF ServeRead, QueueBounds
  <1>7. ASSUME NEW i \in DOMAIN writeQueue, ServeWrite(i) PROVE QueueBounds'
    <2>1. Len(writeQueue') = Len(writeQueue) - 1 /\ UNCHANGED <<readQueue, respQueue>>
      BY <1>7, WithoutType, ZenonT(30) DEF ServeWrite
    <2>2. QED
      BY <2>1, ConstantAssumption DEF QueueBounds
  <1>8. CASE ProcessNextReqEvent
    BY <1>1, <1>6, <1>7, <1>8, ZenonT(30) DEF ProcessNextReqEvent, StallAllBusy, GoIdle, StallRankBusy,
       TurnToWrites, queueVars
  <1>9. QED
    BY <1>1, <1>2, <1>3, <1>4, <1>5, <1>8, Zenon DEF Next, vars, queueVars, RefuseRead, RefuseWrite,
       TakeResponse, RefreshDue, RefreshPrecharge, RefreshRun, RefreshDone, Drain,
       DrainResume

-----------------------------------------------------------------------------
\* Merging

\* A registered burst address keeps its write.
LEMMA RegisteredIsQueuedStep ==
  ASSUME TypeOK, RegisteredIsQueued, [Next]_vars
  PROVE  RegisteredIsQueued'
  <1> DEFINE Holds(q, a) == \E i \in DOMAIN q : ~q[i].rowOp /\ BurstAlign(q[i].addr) = a
  <1> writeQueue \in Seq(WritePacket)
    BY Zenon DEF TypeOK
  <1>1. CASE UNCHANGED <<writeQueue, isInWriteQueue>>
    BY <1>1 DEF RegisteredIsQueued
  <1>2. ASSUME NEW pkt \in WritePkts, AcceptWrite(pkt) PROVE RegisteredIsQueued'
    <2>0. PICK n \in Nat : \E t \in [1 .. n -> WritePacket] :
            /\ writeQueue' = writeQueue \o t
            /\ \A j \in 1 .. n : ~t[j].rowOp
            /\ isInWriteQueue' = isInWriteQueue \cup {BurstAlign(t[j].addr) : j \in 1 .. n}
      BY <1>2, AcceptWriteQueue
    <2>1. PICK t \in [1 .. n -> WritePacket] :
            /\ writeQueue' = writeQueue \o t
            /\ \A j \in 1 .. n : ~t[j].rowOp
            /\ isInWriteQueue' = isInWriteQueue \cup {BurstAlign(t[j].addr) : j \in 1 .. n}
      BY <2>0, Zenon
    <2>2. /\ Len(writeQueue) \in Nat /\ DOMAIN writeQueue = 1 .. Len(writeQueue)
          /\ DOMAIN writeQueue' = 1 .. Len(writeQueue) + n
          /\ \A i \in 1 .. Len(writeQueue) : writeQueue'[i] = writeQueue[i]
          /\ \A j \in 1 .. n : writeQueue'[Len(writeQueue) + j] = t[j]
      BY <2>1, WritesAppended, ZenonT(30)
    <2>3. ASSUME NEW a \in isInWriteQueue PROVE Holds(writeQueue', a)
      <3>1. PICK i \in DOMAIN writeQueue :
              ~writeQueue[i].rowOp /\ BurstAlign(writeQueue[i].addr) = a
        BY Zenon DEF RegisteredIsQueued
      <3>2. i \in 1 .. Len(writeQueue) /\ i \in DOMAIN writeQueue'
        BY <2>2, SMTT(30)
      <3>3. QED
        BY <2>2, <3>1, <3>2, Zenon
    <2>4. ASSUME NEW j \in 1 .. n PROVE Holds(writeQueue', BurstAlign(t[j].addr))
      <3>1. Len(writeQueue) + j \in DOMAIN writeQueue'
        BY <2>2
      <3>2. QED
        BY <2>1, <2>2, <3>1, Zenon
    <2>5. QED
      BY <2>1, <2>3, <2>4, SMTT(30) DEF RegisteredIsQueued
  <1>3. ASSUME NEW dest \in RowOpDests, AcceptRowOp(dest) PROVE RegisteredIsQueued'
    <2> DEFINE p == [addr |-> dest, size |-> 0, rowOp |-> TRUE, rank |-> RankOf(dest)]
    <2>1. writeQueue' = Append(writeQueue, p) /\ UNCHANGED isInWriteQueue
      BY <1>3, Zenon DEF AcceptRowOp
    <2> HIDE DEF p
    <2>2. \A i \in DOMAIN writeQueue : i \in DOMAIN writeQueue' /\ writeQueue'[i] = writeQueue[i]
      BY <2>1
    <2>3. QED
      BY <2>1, <2>2, Zenon DEF RegisteredIsQueued
  <1>4. ASSUME NEW i \in DOMAIN writeQueue, ServeWrite(i) PROVE RegisteredIsQueued'
    <2>1. /\ writeQueue' = Without(writeQueue, i)
          /\ isInWriteQueue' = isInWriteQueue \ {BurstAlign(writeQueue[i].addr)}
      BY <1>4, Zenon DEF ServeWrite, Deregister
    <2>2. ASSUME NEW j \in DOMAIN writeQueue, j # i
          PROVE  \E k \in DOMAIN writeQueue' : writeQueue'[k] = writeQueue[j]
      <3>1. CASE j < i
        <4>1. j \in DOMAIN writeQueue' /\ writeQueue'[j] = writeQueue[j]
          BY <2>1, <3>1 DEF Without
        <4>2. QED
          BY <4>1, Zenon
      <3>2. CASE j > i
        <4>1. j - 1 \in DOMAIN writeQueue' /\ writeQueue'[j - 1] = writeQueue[j]
          BY <2>1, <3>2 DEF Without
        <4>2. QED
          BY <4>1, Zenon
      <3>3. QED
        BY <2>2, <3>1, <3>2
    <2>3. ASSUME NEW a \in isInWriteQueue' PROVE Holds(writeQueue', a)
      <3>1. a \in isInWriteQueue /\ a # BurstAlign(writeQueue[i].addr)
        BY <2>1, Zenon
      <3>2. PICK j \in DOMAIN writeQueue :
              ~writeQueue[j].rowOp /\ BurstAlign(writeQueue[j].addr) = a
        BY <3>1, Zenon DEF RegisteredIsQueued
      <3>3. j # i
        BY <3>1, <3>2
      <3>4. QED
        BY <2>2, <3>2, <3>3
    <2>4. QED
      BY <2>3, Zenon DEF RegisteredIsQueued
  <1>5. CASE ProcessNextReqEvent
    BY <1>1, <1>4, <1>5, ZenonT(30) DEF ProcessNextReqEvent, StallAllBusy, GoIdle, StallRankBusy,
       TurnToWrites, ServeRead, queueVars
  <1>6. QED
    BY <1>1, <1>2, <1>3, <1>5 DEF Next, vars, queueVars, RefuseRead, RefuseWrite, AcceptRead,
       TakeResponse, ProcessRespondEvent, RefreshDue, RefreshPrecharge, RefreshRun,
       RefreshDone, Drain, DrainResume

-----------------------------------------------------------------------------
\* The invariant and its consequences

\* The conjunction of the safety invariants is inductive.  TypeOK alone is not:
\* doDRAMAccess decrements pendingRowOps (RowOpCount) and processRespondEvent
\* looks at the front of respQueue (ResponseScheduled); a sleeping loop is woken
\* because the queue it stalled on is not empty (WritesToServe).
IInv ==
  /\ TypeOK /\ RowOpCount /\ WritesToServe
  /\ ResponseScheduled /\ RetryOwed /\ RefreshHandover /\ NoLostWakeup
  /\ QueueBounds /\ RegisteredIsQueued

\* The controller starts in a state that satisfies the invariant.
LEMMA InitIInv == Init => IInv
  <1> SUFFICES ASSUME Init PROVE IInv
    OBVIOUS
  <1> USE ConstantAssumption DEF Init
  <1>1. TypeOK
    <2>1. \A S : <<>> \in Seq(S)
      OBVIOUS
    <2>2. helper \in [Reads -> [burstCount : Nat, burstsServiced : Nat]]
      BY ZenonT(30) DEF NoHelper
    <2>3. writesThisTime \in 0 .. MinWritesPerSwitch
      OBVIOUS
    <2>4. QED
      BY <2>1, <2>2, <2>3, ZenonT(30) DEF TypeOK
  <1>2. RowOpCount
    BY RowOpsEmpty, Zenon DEF RowOpCount
  <1>3. QueueBounds
    BY DEF QueueBounds
  <1>4. QED
    BY <1>1, <1>2, <1>3 DEF IInv, WritesToServe, ResponseScheduled, RetryOwed,
       RefreshHandover, NoLostWakeup, RegisteredIsQueued, WritesDue

\* Every step keeps the invariant.
LEMMA NextIInv == IInv /\ [Next]_vars => IInv'
  BY TypeStep, RowOpCountStep, WritesToServeStep, ResponseScheduledStep, RetryOwedStep,
     RefreshHandoverStep, NoLostWakeupStep, QueueBoundsStep, RegisteredIsQueuedStep
  DEF IInv

\* The invariant holds in every reachable state.
THEOREM Invariant == Spec => []IInv
  BY InitIInv, NextIInv, PTL DEF Spec

\* The state of the controller is always well typed: in particular pendingRowOps,
\* an unsigned counter in the code, never wraps below zero.
THEOREM TypeCorrect == Spec => []TypeOK
  BY Invariant, PTL DEF IInv

\* pendingRowOps always counts the row operations in the write queue, whatever the
\* order in which addToWriteQueue and doDRAMAccess touch it.
THEOREM RowOpCountCorrect == Spec => []RowOpCount
  BY Invariant, PTL DEF IInv

\* chooseNext is never called on an empty write queue.
THEOREM ChooseNextSafe == Spec => []WritesToServe
  BY Invariant, PTL DEF IInv

\* Neither buffer overflows, for any sizes and any packets.
THEOREM BuffersBounded == Spec => []QueueBounds
  BY Invariant, PTL DEF IInv

\* processNextReqEvent never goes to sleep with work to do and nobody to wake it.
THEOREM WakeupSafe == Spec => []NoLostWakeup
  BY Invariant, PTL DEF IInv

\* respondEvent is scheduled exactly while a response is due.
THEOREM ResponsesScheduled == Spec => []ResponseScheduled
  BY Invariant, PTL DEF IInv

\* No rank waits for a request loop that is not going to run.
THEOREM HandoverSafe == Spec => []RefreshHandover
  BY Invariant, PTL DEF IInv

\* The port waits exactly when one retry is owed to it.
THEOREM RetryOwedCorrect == Spec => []RetryOwed
  BY Invariant, PTL DEF IInv

\* A write is merged only into a write that is still queued.
THEOREM MergeSafe == Spec => []RegisteredIsQueued
  BY Invariant, PTL DEF IInv

\* The controller reports itself drained only when all queues are empty.
THEOREM DrainSafe == Spec => DrainedMeansEmpty
  <1> DEFINE A == drainState # "Drained" /\ drainState' = "Drained"
                    => readQueue' = <<>> /\ writeQueue' = <<>> /\ respQueue' = <<>>
  <1>1. ASSUME IInv, [Next]_vars PROVE [A]_vars
    <2>1. CASE ProcessRespondEvent
      BY <2>1, Zenon DEF ProcessRespondEvent, NothingQueued
    <2>2. CASE GoIdle
      BY <2>2, Zenon DEF GoIdle, WritesDue, queueVars
    <2>3. CASE UNCHANGED drainState \/ UNCHANGED vars
      BY <2>3, Zenon
    <2>4. CASE ProcessNextReqEvent
      BY <2>2, <2>3, <2>4, ZenonT(30) DEF ProcessNextReqEvent, StallAllBusy, StallRankBusy, TurnToWrites,
         ServeRead, ServeWrite
    <2>5. CASE Drain
      BY <2>5, Zenon DEF Drain, NothingQueued, queueVars
    <2>6. QED
      BY <1>1, <2>1, <2>3, <2>4, <2>5, Zenon DEF Next, RefuseRead, RefuseWrite, AcceptRead,
         AcceptWrite, AcceptRowOp, TakeResponse, RefreshDue, RefreshPrecharge, RefreshRun,
         RefreshDone, DrainResume
  <1>2. QED
    BY <1>1, Invariant, PTL DEF Spec, DrainedMeansEmpty

-----------------------------------------------------------------------------
\* The controller implements the memory service of module MemService

\* The bursts of read r in a queue, and those the controller still owes data.
BurstsOf(queue, r) == Positions(queue, {p \in ReadPacket : p.req = r})

Due(r) == Cardinality(BurstsOf(readQueue, r)) + Cardinality(BurstsOf(respQueue, r))

\* A read that waits for its answer has bursts in the queues: exactly one when it
\* has no BurstHelper, else exactly as many as its helper has not counted.  Any
\* other read has neither bursts nor a helper, and an answer only if the port has
\* not taken it yet.
ReadOK(r) ==
  IF r \in outstanding /\ answers[r] = 0
    THEN IF helper[r] = NoHelper
           THEN Due(r) = 1
           ELSE Due(r) >= 1 /\ helper[r].burstCount = helper[r].burstsServiced + Due(r)
    ELSE /\ Due(r) = 0 /\ helper[r] = NoHelper
         /\ answers[r] = (IF r \in outstanding THEN 1 ELSE 0)

ServiceInv == \A r \in Reads : ReadOK(r)

\* The number of bursts of a read in a queue is a number.
LEMMA BurstsFinite ==
  ASSUME NEW q \in Seq(ReadPacket), NEW r
  PROVE  IsFiniteSet(BurstsOf(q, r)) /\ Cardinality(BurstsOf(q, r)) \in Nat
  BY PositionsFinite, Zenon DEF BurstsOf

\* Queueing n bursts of one read adds n to its number of bursts and nothing to the
\* others'.
LEMMA BurstsAppended ==
  ASSUME NEW q \in Seq(ReadPacket), NEW n \in Nat, NEW t \in [1 .. n -> ReadPacket],
         NEW r \in Reads, \A j \in 1 .. n : t[j].req = r, NEW s \in Reads
  PROVE  /\ s = r => Cardinality(BurstsOf(q \o t, s)) = Cardinality(BurstsOf(q, s)) + n
         /\ s # r => Cardinality(BurstsOf(q \o t, s)) = Cardinality(BurstsOf(q, s))
  <1> DEFINE m == Len(q)
             P == {p \in ReadPacket : p.req = s}
  <1>1. /\ m \in Nat /\ DOMAIN q = 1 .. m /\ DOMAIN (q \o t) = 1 .. m + n
        /\ \A i \in 1 .. m : (q \o t)[i] = q[i]
        /\ \A i \in m + 1 .. m + n : (q \o t)[i] = t[i - m]
    BY AppendMany
  <1>2. ASSUME NEW i \in m + 1 .. m + n
        PROVE  (q \o t)[i] \in ReadPacket /\ (q \o t)[i].req = r
    <2>1. i - m \in 1 .. n
      BY <1>1
    <2>2. QED
      BY <1>1, <2>1, Zenon
  <1> HIDE DEF m
  <1>3. CASE s # r
    <2>0. \A i \in 1 .. m + n : i \in 1 .. m \/ i \in m + 1 .. m + n
      BY <1>1
    <2>1. BurstsOf(q \o t, s) = BurstsOf(q, s)
      BY <1>1, <1>2, <1>3, <2>0, SMTT(30) DEF BurstsOf, Positions
    <2>2. QED
      BY <1>3, <2>1, Zenon
  <1>4. CASE s = r
    <2>1. BurstsOf(q \o t, s) = BurstsOf(q, s) \cup (m + 1 .. m + n)
      BY <1>1, <1>2, <1>4, SMTT(30) DEF BurstsOf, Positions
    <2>2. BurstsOf(q, s) \cap (m + 1 .. m + n) = {}
      BY <1>1 DEF BurstsOf, Positions
    <2>3. IsFiniteSet(m + 1 .. m + n) /\ Cardinality(m + 1 .. m + n) = n
      BY <1>1, FS_Interval, SMTT(30)
    <2>4. Cardinality(BurstsOf(q \o t, s))
            = Cardinality(BurstsOf(q, s)) + n - Cardinality(BurstsOf(q, s) \cap (m + 1 .. m + n))
      BY <2>1, <2>3, BurstsFinite, FS_Union, Zenon
    <2>5. Cardinality({}) = 0
      BY FS_EmptySet, Zenon
    <2>6. Cardinality(BurstsOf(q, s)) \in Nat
      BY BurstsFinite, Zenon
    <2>7. Cardinality(BurstsOf(q \o t, s)) = Cardinality(BurstsOf(q, s)) + n
      <3>1. Cardinality(BurstsOf(q, s) \cap (m + 1 .. m + n)) = 0
        BY <2>2, <2>5, Zenon
      <3>2. QED
        BY <2>4, <2>6, <3>1
    <2>8. QED
      BY <1>4, <2>7, Zenon
  <1>5. QED
    BY <1>3, <1>4, ZenonT(30)

\* Appending one burst.
LEMMA BurstAppended ==
  ASSUME NEW q \in Seq(ReadPacket), NEW p \in ReadPacket, NEW r
  PROVE  Cardinality(BurstsOf(Append(q, p), r))
           = IF p.req = r THEN Cardinality(BurstsOf(q, r)) + 1 ELSE Cardinality(BurstsOf(q, r))
  <1> DEFINE P == {x \in ReadPacket : x.req = r}
  <1>1. /\ Len(q) \in Nat /\ DOMAIN q = 1 .. Len(q) /\ DOMAIN Append(q, p) = 1 .. Len(q) + 1
        /\ \A i \in 1 .. Len(q) : Append(q, p)[i] = q[i]
        /\ Append(q, p)[Len(q) + 1] = p
    OBVIOUS
  <1>2. CASE p.req # r
    <2>0. \A i \in 1 .. Len(q) + 1 : i \in 1 .. Len(q) \/ i = Len(q) + 1
      BY <1>1
    <2>1. BurstsOf(Append(q, p), r) = BurstsOf(q, r)
      BY <1>1, <1>2, <2>0 DEF BurstsOf, Positions
    <2>2. QED
      BY <1>2, <2>1
  <1>3. CASE p.req = r
    <2>1. BurstsOf(Append(q, p), r) = BurstsOf(q, r) \cup {Len(q) + 1}
      BY <1>1, <1>3 DEF BurstsOf, Positions
    <2>2. Len(q) + 1 \notin BurstsOf(q, r)
      BY <1>1 DEF BurstsOf, Positions
    <2>3. IsFiniteSet(BurstsOf(q, r))
      BY BurstsFinite, Zenon
    <2>4. Cardinality(BurstsOf(Append(q, p), r)) = Cardinality(BurstsOf(q, r)) + 1
      BY <2>1, <2>2, <2>3, FS_AddElement, Zenon
    <2>5. QED
      BY <1>3, <2>4, Zenon
  <1>4. QED
    BY <1>2, <1>3

\* Removing a burst.
LEMMA BurstRemoved ==
  ASSUME NEW q \in Seq(ReadPacket), NEW i \in DOMAIN q, NEW r
  PROVE  Cardinality(BurstsOf(Without(q, i), r))
           = IF q[i].req = r THEN Cardinality(BurstsOf(q, r)) - 1 ELSE Cardinality(BurstsOf(q, r))
  <1>1. q[i] \in ReadPacket
    OBVIOUS
  <1>2. QED
    BY <1>1, PositionsWithout DEF BurstsOf

\* Removing the burst at the head.
LEMMA BurstPopped ==
  ASSUME NEW q \in Seq(ReadPacket), q # <<>>, NEW r
  PROVE  /\ Head(q).req = r => Cardinality(BurstsOf(Tail(q), r)) = Cardinality(BurstsOf(q, r)) - 1
         /\ Head(q).req # r => Cardinality(BurstsOf(Tail(q), r)) = Cardinality(BurstsOf(q, r))
  <1>1. 1 \in DOMAIN q /\ Head(q) = q[1] /\ Len(q) \in Nat
    OBVIOUS
  <1>2. /\ Tail(q) \in Seq(ReadPacket) /\ Len(Tail(q)) = Len(q) - 1
        /\ \A j \in 1 .. Len(q) - 1 : Tail(q)[j] = q[j + 1]
    BY <1>1
  <1>3. /\ Without(q, 1) \in Seq(ReadPacket) /\ Len(Without(q, 1)) = Len(q) - 1
        /\ \A j \in 1 .. Len(q) - 1 : Without(q, 1)[j] = q[j + 1]
    BY <1>1, WithoutType DEF Without
  <1>4. Tail(q) = Without(q, 1)
    <2>1. \A s, t \in Seq(ReadPacket) :
            Len(s) = Len(t) /\ (\A j \in 1 .. Len(s) : s[j] = t[j]) => s = t
      OBVIOUS
    <2>2. QED
      BY <1>2, <1>3, <2>1
  <1>5. Cardinality(BurstsOf(Without(q, 1), r))
          = IF q[1].req = r THEN Cardinality(BurstsOf(q, r)) - 1 ELSE Cardinality(BurstsOf(q, r))
    BY <1>1, BurstRemoved
  <1>6. QED
    BY <1>1, <1>4, <1>5, Zenon

\* The bursts due of a read are a number.
LEMMA DueType == ASSUME TypeOK, NEW r PROVE Due(r) \in Nat
  <1>1. /\ Cardinality(BurstsOf(readQueue, r)) \in Nat
        /\ Cardinality(BurstsOf(respQueue, r)) \in Nat
    BY BurstsFinite DEF TypeOK
  <1>2. QED
    BY <1>1 DEF Due

\* addToReadQueue is the service's Accept, or AcceptAndAnswer when the write queue
\* holds all of the read.
LEMMA AcceptReadService ==
  ASSUME TypeOK, ServiceInv, NEW r \in Reads, NEW pkt \in ReadPkts, AcceptRead(r, pkt)
  PROVE  ServiceInv' /\ Service!Next
  <1> DEFINE n == BurstCount(pkt)
             missing == {k \in 1 .. n : ~FoundInWrQ(Burst(pkt, k))}
             m == Cardinality(missing)
             new(s) == [i \in 1 .. m |-> [req |-> r, rank |-> RankOf(Burst(pkt, s[i]).addr)]]
             h == IF n > 1 THEN [burstCount |-> n, burstsServiced |-> n - m] ELSE NoHelper
  <1>1. n \in Nat \ {0} /\ m \in Nat /\ m <= n /\ (missing # {} => m # 0)
    <2>1. n \in Nat \ {0}
      BY BurstCountType, ConstantAssumption
    <2>2. IsFiniteSet(missing) /\ m \in Nat /\ m <= n
      BY <2>1, BurstSetSize
    <2>3. QED
      BY <2>1, <2>2, FS_EmptySet, ZenonT(30)
  <1>2. /\ r \notin outstanding /\ outstanding' = outstanding \cup {r}
        /\ UNCHANGED respQueue
    BY Zenon DEF AcceptRead
  <1>3. Due(r) = 0 /\ helper[r] = NoHelper /\ answers[r] = 0
    BY <1>2, ZenonT(30) DEF ServiceInv, ReadOK
  <1>4. \A x \in Reads \ {r} : x \in outstanding' <=> x \in outstanding
    BY <1>2, Zenon
  <1>5. \A x \in Reads : Due(x) \in Nat
    BY DueType
  <1>6. helper \in [Reads -> [burstCount : Nat, burstsServiced : Nat]] /\ answers \in [Reads -> Nat]
    BY DEF TypeOK
  <1>7. CASE missing = {}
    <2>1. answers' = [answers EXCEPT ![r] = @ + 1] /\ UNCHANGED <<readQueue, helper>>
      BY <1>7, ZenonT(30) DEF AcceptRead, AddToReadQueue
    <2>2. \A x : Due(x)' = Due(x)
      BY <1>2, <2>1 DEF Due
    <2>3. answers'[r] = 1 /\ \A x \in Reads \ {r} : answers'[x] = answers[x]
      BY <1>3, <1>6, <2>1
    <2>4. ReadOK(r)'
      BY <1>2, <1>3, <2>1, <2>2, <2>3, ZenonT(30) DEF ReadOK
    <2>5. ASSUME NEW x \in Reads \ {r} PROVE ReadOK(x)'
      BY <1>4, <2>1, <2>2, <2>3, ZenonT(30) DEF ServiceInv, ReadOK
    <2>6. Service!AcceptAndAnswer(r)
      BY <1>2, <1>3, <2>1 DEF Service!AcceptAndAnswer
    <2>7. QED
      BY <2>4, <2>5, <2>6 DEF ServiceInv, Service!Next
  <1>8. CASE missing # {}
    <2>1. PICK s \in InOrder(missing) : readQueue' = readQueue \o new(s)
      BY <1>8, Zenon DEF AcceptRead, AddToReadQueue
    <2>2. new(s) \in [1 .. m -> ReadPacket]
      BY ReadBurstsType, Zenon
    <2>3. \A j \in 1 .. m : new(s)[j].req = r
      BY ZenonT(30)
    <2>4. helper' = [helper EXCEPT ![r] = h] /\ UNCHANGED answers
      BY <1>8, Zenon DEF AcceptRead, AddToReadQueue
    <2> HIDE DEF missing, m, new
    <2>5. ASSUME NEW x \in Reads
          PROVE  Cardinality(BurstsOf(readQueue', x))
                   = IF x = r THEN Cardinality(BurstsOf(readQueue, x)) + m
                              ELSE Cardinality(BurstsOf(readQueue, x))
      <3>1. readQueue \in Seq(ReadPacket)
        BY Zenon DEF TypeOK
      <3>2. m \in Nat
        BY <1>1
      <3>3. PICK t \in [1 .. m -> ReadPacket] :
              readQueue' = readQueue \o t /\ \A j \in 1 .. m : t[j].req = r
        BY <2>1, <2>2, <2>3, Zenon
      <3>4. /\ x = r => Cardinality(BurstsOf(readQueue \o t, x))
                          = Cardinality(BurstsOf(readQueue, x)) + m
            /\ x # r => Cardinality(BurstsOf(readQueue \o t, x))
                          = Cardinality(BurstsOf(readQueue, x))
        BY <3>1, <3>2, <3>3, BurstsAppended, Zenon
      <3>5. QED
        BY <3>3, <3>4, Zenon
    <2>6. ASSUME NEW x \in Reads PROVE Due(x)' = IF x = r THEN Due(x) + m ELSE Due(x)
      <3>1. Cardinality(BurstsOf(readQueue, x)) \in Nat /\ Cardinality(BurstsOf(respQueue, x)) \in Nat
        BY BurstsFinite, ZenonT(30) DEF TypeOK
      <3>2. QED
        BY <1>1, <1>2, <2>5, <3>1, SMTT(30) DEF Due
    <2>7. Due(r)' = m
      BY <1>1, <1>3, <2>6, SMTT(30)
    <2>8. helper'[r] = h /\ \A x \in Reads \ {r} : helper'[x] = helper[x]
      BY <1>6, <2>4, ZenonT(30)
    <2>9. ReadOK(r)'
      <3>1. r \in outstanding' /\ answers'[r] = 0
        BY <1>2, <1>3, <2>4
      <3>2. CASE n > 1
        <4>1. h = [burstCount |-> n, burstsServiced |-> n - m]
          BY <3>2
        <4>2. h # NoHelper /\ h.burstCount = h.burstsServiced + m
          BY <1>1, <3>2, <4>1, SMTT(30) DEF NoHelper
        <4>3. m >= 1
          BY <1>1, <1>8
        <4> HIDE DEF h
        <4>4. QED
          BY <2>7, <2>8, <3>1, <4>2, <4>3, ZenonT(30) DEF ReadOK
      <3>3. CASE ~(n > 1)
        <4>1. h = NoHelper /\ m = 1
          BY <1>1, <1>8, <3>3
        <4>2. QED
          BY <2>7, <2>8, <3>1, <4>1, ZenonT(30) DEF ReadOK
      <3>4. QED
        BY <3>2, <3>3
    <2>10. ASSUME NEW x \in Reads \ {r} PROVE ReadOK(x)'
      <3>1. Due(x)' = Due(x)
        BY <2>6
      <3>2. QED
        BY <1>4, <2>4, <2>8, <3>1, ZenonT(30) DEF ServiceInv, ReadOK
    <2>11. Service!Accept(r)
      BY <1>2, <2>4 DEF Service!Accept
    <2>12. QED
      BY <2>9, <2>10, <2>11 DEF ServiceInv, Service!Next
  <1>9. QED
    BY <1>7, <1>8

\* A response is the service's Answer when it completes its read, and else invisible.
LEMMA RespondService ==
  ASSUME TypeOK, ServiceInv, ProcessRespondEvent, respQueue # <<>>
  PROVE  ServiceInv' /\ (Service!Next \/ UNCHANGED Service!vars)
  <1>1. /\ readQueue \in Seq(ReadPacket) /\ respQueue \in Seq(ReadPacket)
        /\ helper \in [Reads -> [burstCount : Nat, burstsServiced : Nat]]
        /\ answers \in [Reads -> Nat]
    BY ZenonT(30) DEF TypeOK
  <1>2. Head(respQueue) \in ReadPacket
    BY <1>1
  <1>3. PICK r \in Reads : r = Head(respQueue).req
    BY <1>2, Zenon DEF ReadPacket
  <1>4. respQueue' = Tail(respQueue) /\ UNCHANGED <<readQueue, outstanding>>
    BY Zenon DEF ProcessRespondEvent
  <1>5. ASSUME NEW x \in Reads
        PROVE  Due(x)' = (IF r = x THEN Due(x) - 1 ELSE Due(x)) /\ Due(x) \in Nat /\ Due(x)' \in Nat
    <2>1. /\ Cardinality(BurstsOf(readQueue, x)) \in Nat
          /\ Cardinality(BurstsOf(respQueue, x)) \in Nat
      BY <1>1, BurstsFinite
    <2>2. Cardinality(BurstsOf(respQueue', x))
            = IF r = x THEN Cardinality(BurstsOf(respQueue, x)) - 1
                       ELSE Cardinality(BurstsOf(respQueue, x))
      BY <1>1, <1>3, <1>4, BurstPopped, ZenonT(30)
    <2>3. Cardinality(BurstsOf(respQueue', x)) \in Nat
      <3>1. respQueue' \in Seq(ReadPacket)
        BY <1>1, <1>4
      <3>2. QED
        BY <3>1, BurstsFinite
    <2>4. QED
      BY <1>4, <2>1, <2>2, <2>3, SMTT(30) DEF Due
  <1>6. ProcessRespondEvent =>
          IF CompletesRead(r)
            THEN answers' = [answers EXCEPT ![r] = @ + 1] /\ helper' = [helper EXCEPT ![r] = NoHelper]
            ELSE helper' = [helper EXCEPT ![r].burstsServiced = @ + 1] /\ UNCHANGED answers
    BY <1>3, Zenon DEF ProcessRespondEvent
  <1>7. r \in outstanding /\ answers[r] = 0 /\ Due(r) >= 1
    <2>1. ReadOK(r)
      BY <1>3, Zenon DEF ServiceInv
    <2>2. QED
      BY <1>3, <1>5, <2>1, SMTT(30) DEF ReadOK
  <1>8. CASE CompletesRead(r)
    <2>1. answers' = [answers EXCEPT ![r] = @ + 1] /\ helper' = [helper EXCEPT ![r] = NoHelper]
      BY <1>6, <1>8
    <2>2. /\ answers'[r] = 1 /\ helper'[r] = NoHelper
          /\ \A x \in Reads \ {r} : answers'[x] = answers[x] /\ helper'[x] = helper[x]
      BY <1>1, <1>3, <1>7, <2>1
    <2>3. Due(r)' = 0
      <3>1. Due(r) = 1
        <4>1. CASE helper[r] = NoHelper
          BY <1>3, <1>7, <4>1, Zenon DEF ServiceInv, ReadOK
        <4>2. CASE helper[r] # NoHelper
          <5>1. /\ helper[r].burstsServiced + 1 = helper[r].burstCount
                /\ helper[r].burstCount = helper[r].burstsServiced + Due(r)
            BY <1>3, <1>7, <1>8, <4>2, ZenonT(30) DEF ServiceInv, ReadOK, CompletesRead
          <5>2. helper[r].burstsServiced \in Nat /\ Due(r) \in Nat
            BY <1>1, <1>3, <1>5
          <5>3. QED
            BY <5>1, <5>2
        <4>3. QED
          BY <4>1, <4>2, Zenon
      <3>2. QED
        BY <1>3, <1>5, <3>1
    <2>4. ReadOK(r)'
      BY <1>4, <1>7, <2>2, <2>3, ZenonT(30) DEF ReadOK
    <2>5. ASSUME NEW x \in Reads \ {r} PROVE ReadOK(x)'
      <3>1. Due(x)' = Due(x)
        BY <1>5, Zenon
      <3>2. QED
        BY <1>4, <2>2, <3>1, ZenonT(30) DEF ServiceInv, ReadOK
    <2>6. Service!Answer(r)
      BY <1>4, <1>7, <2>1 DEF Service!Answer
    <2>7. QED
      BY <1>3, <2>4, <2>5, <2>6 DEF ServiceInv, Service!Next
  <1>9. CASE ~CompletesRead(r)
    <2>1. helper' = [helper EXCEPT ![r].burstsServiced = @ + 1] /\ UNCHANGED answers
      BY <1>6, <1>9
    <2>2. /\ helper[r] # NoHelper /\ helper[r].burstsServiced + 1 # helper[r].burstCount
          /\ helper[r].burstCount = helper[r].burstsServiced + Due(r)
      BY <1>3, <1>7, <1>9, ZenonT(30) DEF ServiceInv, ReadOK, CompletesRead
    <2>3. /\ helper'[r].burstCount = helper[r].burstCount
          /\ helper'[r].burstsServiced = helper[r].burstsServiced + 1
          /\ \A x \in Reads \ {r} : helper'[x] = helper[x]
      BY <1>1, <1>3, <2>1
    <2>4. helper[r].burstsServiced \in Nat /\ Due(r) \in Nat /\ Due(r)' = Due(r) - 1
      BY <1>1, <1>3, <1>5
    <2>5. helper'[r] # NoHelper
      BY <2>3, <2>4, SMTT(30) DEF NoHelper
    <2>6. Due(r)' >= 1 /\ helper'[r].burstCount = helper'[r].burstsServiced + Due(r)'
      BY <1>7, <2>2, <2>3, <2>4, SMTT(30)
    <2>7. ReadOK(r)'
      BY <1>4, <1>7, <2>1, <2>5, <2>6, Zenon DEF ReadOK
    <2>8. ASSUME NEW x \in Reads \ {r} PROVE ReadOK(x)'
      <3>1. Due(x)' = Due(x)
        BY <1>5, Zenon
      <3>2. QED
        BY <1>4, <2>1, <2>3, <3>1, Zenon DEF ServiceInv, ReadOK
    <2>9. UNCHANGED Service!vars
      BY <1>4, <2>1 DEF Service!vars
    <2>10. QED
      BY <2>7, <2>8, <2>9 DEF ServiceInv
  <1>10. QED
    BY <1>8, <1>9

\* The port takes an answer: the service's Take.
LEMMA TakeService ==
  ASSUME TypeOK, ServiceInv, NEW r \in Reads, TakeResponse(r)
  PROVE  ServiceInv' /\ Service!Next
  <1>1. /\ answers' = [answers EXCEPT ![r] = @ - 1] /\ outstanding' = outstanding \ {r}
        /\ UNCHANGED <<readQueue, respQueue, helper>> /\ answers[r] > 0
    BY DEF TakeResponse, queueVars
  <1>2. answers \in [Reads -> Nat]
    BY DEF TypeOK
  <1>3. answers[r] = 1 /\ r \in outstanding /\ Due(r) = 0 /\ helper[r] = NoHelper
    <2>1. ReadOK(r) /\ answers[r] # 0
      BY <1>1, <1>2 DEF ServiceInv
    <2>2. QED
      BY <2>1, Zenon DEF ReadOK
  <1>4. answers' = [answers EXCEPT ![r] = 0]
    BY <1>1, <1>2, <1>3
  <1>5. \A x : Due(x)' = Due(x)
    BY <1>1 DEF Due
  <1>6. ReadOK(r)'
    BY <1>1, <1>2, <1>3, <1>4, <1>5, ZenonT(30) DEF ReadOK
  <1>7. ASSUME NEW x \in Reads \ {r} PROVE ReadOK(x)'
    <2>1. answers'[x] = answers[x] /\ (x \in outstanding' <=> x \in outstanding)
      BY <1>1, <1>2
    <2>2. QED
      BY <1>1, <1>5, <2>1, ZenonT(30) DEF ServiceInv, ReadOK
  <1>8. Service!Take(r)
    BY <1>1, <1>3, <1>4 DEF Service!Take
  <1>9. QED
    BY <1>6, <1>7, <1>8 DEF ServiceInv, Service!Next

\* A burst that goes from the read queue to the response queue stays due.
LEMMA ServeReadService ==
  ASSUME TypeOK, ServiceInv, NEW i \in DOMAIN readQueue, ServeRead(i)
  PROVE  ServiceInv' /\ UNCHANGED Service!vars
  <1>1. /\ readQueue' = Without(readQueue, i) /\ respQueue' = Append(respQueue, readQueue[i])
        /\ UNCHANGED <<helper, outstanding, answers>>
    BY DEF ServeRead, readVars
  <1>2. /\ readQueue \in Seq(ReadPacket) /\ respQueue \in Seq(ReadPacket)
        /\ readQueue[i] \in ReadPacket
    BY DEF TypeOK
  <1>3. ASSUME NEW x \in Reads PROVE Due(x)' = Due(x)
    <2>1. Cardinality(BurstsOf(readQueue', x))
            = IF readQueue[i].req = x THEN Cardinality(BurstsOf(readQueue, x)) - 1
                                      ELSE Cardinality(BurstsOf(readQueue, x))
      BY <1>1, <1>2, BurstRemoved, Zenon
    <2>2. Cardinality(BurstsOf(respQueue', x))
            = IF readQueue[i].req = x THEN Cardinality(BurstsOf(respQueue, x)) + 1
                                      ELSE Cardinality(BurstsOf(respQueue, x))
      BY <1>1, <1>2, BurstAppended, ZenonT(30)
    <2>3. /\ Cardinality(BurstsOf(readQueue, x)) \in Nat
          /\ Cardinality(BurstsOf(respQueue, x)) \in Nat
      BY <1>2, BurstsFinite
    <2>4. QED
      BY <2>1, <2>2, <2>3, SMTT(30) DEF Due
  <1>4. QED
    BY <1>1, <1>3, ZenonT(30) DEF ServiceInv, ReadOK, Service!vars

\* Steps that leave the reads alone.
LEMMA OtherService ==
  ASSUME ServiceInv, UNCHANGED <<readQueue, respQueue, helper, outstanding, answers>>
  PROVE  ServiceInv' /\ UNCHANGED Service!vars
  <1>1. \A x : Due(x)' = Due(x)
    BY Zenon DEF Due
  <1>2. QED
    BY <1>1, ZenonT(30) DEF ServiceInv, ReadOK, Service!vars

\* Every step of the controller is a step of the service, or invisible to the port.
LEMMA ServiceStep ==
  ASSUME IInv, ServiceInv, [Next]_vars
  PROVE  ServiceInv' /\ [Service!Next]_(Service!vars)
  <1> USE DEF IInv
  <1> DEFINE Same == UNCHANGED <<readQueue, respQueue, helper, outstanding, answers>>
  <1>1. CASE Same
    BY <1>1, OtherService
  <1>2. ASSUME NEW r \in Reads, NEW pkt \in ReadPkts, AcceptRead(r, pkt)
        PROVE  ServiceInv' /\ Service!Next
    BY <1>2, AcceptReadService
  <1>3. ASSUME NEW r \in Reads, TakeResponse(r) PROVE ServiceInv' /\ Service!Next
    BY <1>3, TakeService
  <1>4. CASE ProcessRespondEvent
    <2>1. respQueue # <<>>
      BY <1>4 DEF ProcessRespondEvent, ResponseScheduled
    <2>2. QED
      BY <1>4, <2>1, RespondService
  <1>5. CASE ProcessNextReqEvent
    <2>1. ASSUME NEW i \in DOMAIN readQueue, ServeRead(i)
          PROVE  ServiceInv' /\ UNCHANGED Service!vars
      BY <2>1, ServeReadService
    <2>2. CASE StallAllBusy \/ GoIdle \/ StallRankBusy \/ TurnToWrites
      BY <1>1, <2>2, ZenonT(30) DEF StallAllBusy, GoIdle, StallRankBusy, TurnToWrites, queueVars, readVars
    <2>3. ASSUME NEW i \in DOMAIN writeQueue, ServeWrite(i) PROVE Same
      BY <2>3, ZenonT(30) DEF ServeWrite, readVars
    <2> HIDE DEF Same
    <2>4. QED
      BY <1>1, <1>5, <2>1, <2>2, <2>3 DEF ProcessNextReqEvent
  <1>6. ASSUME NEW pkt \in WritePkts, AcceptWrite(pkt) PROVE Same
    BY <1>6, ZenonT(30) DEF AcceptWrite, readVars
  <1>7. ASSUME NEW dest \in RowOpDests, AcceptRowOp(dest) PROVE Same
    BY <1>7, ZenonT(30) DEF AcceptRowOp, readVars
  <1>8. ASSUME NEW r \in Ranks,
               RefreshDue(r) \/ RefreshPrecharge(r) \/ RefreshRun(r) \/ RefreshDone(r)
        PROVE  Same
    BY <1>8, ZenonT(30) DEF RefreshDue, RefreshPrecharge, RefreshRun, RefreshDone, queueVars, readVars
  <1>9. CASE \/ \E pkt \in ReadPkts : RefuseRead(pkt)
             \/ \E pkt \in WritePkts : RefuseWrite(BurstCount(pkt))
             \/ RefuseWrite(RowOpBursts) \/ Drain \/ DrainResume
    BY <1>1, <1>9, ZenonT(30) DEF RefuseRead, RefuseWrite, Drain, DrainResume, queueVars, readVars
  <1>10. CASE UNCHANGED vars
    BY <1>1, <1>10 DEF vars, queueVars, readVars
  <1> HIDE DEF Same
  <1>11. QED
    BY <1>1, <1>2, <1>3, <1>4, <1>5, <1>6, <1>7, <1>8, <1>9, <1>10, ZenonT(30) DEF Next

\* Nothing is due initially, and the service is in its initial state.
LEMMA ServiceInit == Init => ServiceInv /\ Service!Init
  <1> SUFFICES ASSUME Init PROVE ServiceInv /\ Service!Init
    OBVIOUS
  <1>1. ASSUME NEW r \in Reads PROVE ReadOK(r)
    <2>1. BurstsOf(readQueue, r) = {} /\ BurstsOf(respQueue, r) = {}
      BY DEF Init, BurstsOf, Positions
    <2>2. Due(r) = 0
      BY <2>1, FS_EmptySet DEF Due
    <2>3. QED
      BY <2>2, ZenonT(30) DEF Init, ReadOK
  <1>2. QED
    BY <1>1 DEF ServiceInv, Init, Service!Init

\* The controller implements the memory service: however bursts are split, forwarded
\* from the write queue, reordered and interleaved with other reads, the port sees
\* every accepted read answered exactly once, when its last burst has arrived.
THEOREM ServiceImplemented == Spec => ServiceSpec
  <1>1. IInv /\ ServiceInv /\ [Next]_vars => ServiceInv' /\ [Service!Next]_(Service!vars)
    BY ServiceStep, Zenon
  <1>2. QED
    BY <1>1, ServiceInit, Invariant, PTL DEF Spec, ServiceSpec, Service!Spec

=============================================================================
