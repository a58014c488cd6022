-------------------------- MODULE ParallelSimProofs --------------------------
(***************************************************************************)
(* No queue of a parallel simulation runs into its past, and a global      *)
(* event is processed while all other threads wait: for any number of      *)
(* threads, any quantum, any events and priorities.                        *)
(*                                                                         *)
(* First the invariant and what the queue operations do; then the steps    *)
(* that a thread takes on its own (entering doSimLoop, servicing a local   *)
(* event, scheduling a global event), the steps at the barriers, and the   *)
(* theorems.                                                               *)
(***************************************************************************)
EXTENDS ParallelSim, FiniteSetTheorems, WellFoundedInduction, TLAPS

Entries == [id : Locals \cup Globals \cup {Sync, Exit}, when : Nat]

PCs == {"run", "meet", "process", "again", "meet2", "leave", "out", "enter"}

\* between the two barriers of a global event
Met == {"process", "again", "meet2"}

Types ==
  /\ eq \in [Threads -> Seq(Entries)]
  /\ asyncq \in [Threads -> Seq(Entries)]
  /\ curTick \in [Threads -> Nat]
  /\ pc \in [Threads -> PCs]
  /\ at \in [Threads -> Globals \cup {Sync, Exit, None}]
  /\ todo \in [Threads -> Seq(Threads \X Entries)]
  /\ used \subseteq Globals

Items(s) == {s[i] : i \in DOMAIN s}
Sorted(s) == \A i, j \in DOMAIN s : i < j => s[i].when <= s[j].when
HasSync(s) == \E i \in DOMAIN s : s[i].id = Sync
OneSync(s) == \A i, j \in DOMAIN s : s[i].id = Sync /\ s[j].id = Sync => i = j

\* The tick of an event, if T is the tick of the next sync and W[g] that of g
Fits(x, T, W) ==
  /\ x.id = Sync => x.when = T
  /\ x.id = Exit => x.when = Limit
  /\ x.id \in Globals => x.id \in used /\ x.when = W[x.id]

\* Thread t merges its async queue before it services another event.
Merges(t) == pc[t] = "enter" \/ (at[t] = Sync /\ pc[t] \in Met \cup {"leave"})

\* Within the quantum that ends at T, and nothing on the async queue is for it
QueueOK(t, T, W) ==
  /\ T - simQuantum <= curTick[t] /\ curTick[t] <= T
  /\ Sorted(eq[t])
  /\ \A x \in Items(eq[t]) : curTick[t] <= x.when /\ Fits(x, T, W)
  /\ \A x \in Items(asyncq[t]) :
        Fits(x, T, W) /\ curTick[t] <= x.when /\ (~Merges(t) => T <= x.when)

\* The barrier event of the loop that has still to come to t
Awaits(t) == \E u \in Threads : \E i \in DOMAIN todo[u] : todo[u][i][1] = t

Processing == \E t \in Threads : pc[t] = "process"

\* The next sync of t is on its main queue, or t is at a sync: then the next one
\* is made by the thread that processes this one.
SyncOK(t, T) ==
  /\ OneSync(eq[t]) /\ OneSync(asyncq[t])
  /\ at[t] # Sync => HasSync(eq[t]) /\ ~HasSync(asyncq[t])
  /\ at[t] = Sync => ~HasSync(eq[t])
  /\ at[t] = Sync /\ (pc[t] = "meet" \/ Processing) /\ pc[t] # "leave" =>
        curTick[t] = T /\ ~HasSync(asyncq[t])
  /\ at[t] = Sync /\ pc[t] \in Met /\ ~Processing =>
        curTick[t] = T - simQuantum /\ (HasSync(asyncq[t]) \/ Awaits(t))
  /\ at[t] = Sync /\ pc[t] = "leave" =>
        curTick[t] = T - simQuantum /\ HasSync(asyncq[t])

\* The loop of BaseGlobalEvent::schedule
LoopOK(t, T, W) ==
  /\ todo[t] # <<>> => pc[t] \in {"run", "again"}
  /\ \A i, j \in DOMAIN todo[t] : todo[t][i][1] = todo[t][j][1] => i = j
  /\ \A i \in DOMAIN todo[t] :
        LET x == todo[t][i][2]
        IN  /\ Fits(x, T, W) /\ T <= x.when
            /\ pc[t] = "run" => x.id \in Globals
            /\ pc[t] = "again" => /\ x.id = Sync /\ at[t] = Sync /\ ~Processing
                                  /\ ~HasSync(asyncq[todo[t][i][1]])

\* Where a thread is, and what it is at
PlaceOK(t, T, W) ==
  /\ at[t] = None <=> pc[t] \in {"run", "out", "enter"}
  /\ at[t] \in Globals => at[t] \in used
  /\ pc[t] = "meet" /\ at[t] = Exit => curTick[t] = Limit
  /\ pc[t] = "meet" /\ at[t] \in Globals => curTick[t] = W[at[t]]

Together ==
  /\ \A t, u \in Threads : pc[t] \in Met =>
        pc[u] \in Met /\ at[u] = at[t] /\ curTick[u] = curTick[t]
  /\ \A t, u \in Threads : pc[t] = "process" /\ pc[u] = "process" => t = u
  /\ \A t, u \in Threads : todo[t] # <<>> /\ todo[u] # <<>> => t = u

\* on the way out of the loop, or out of it
Ends(t) == pc[t] = "out" \/ (pc[t] = "leave" /\ IsExitEvent(at[t]))

Core(T, W) ==
  /\ \A t \in Threads : /\ QueueOK(t, T, W) /\ SyncOK(t, T)
                        /\ LoopOK(t, T, W) /\ PlaceOK(t, T, W)
  /\ Together
  /\ \A t, u \in Threads : Ends(t) => Ends(u) /\ curTick[u] = curTick[t]

IInv == Types /\ \E T \in Nat, W \in [Globals -> Nat] : Core(T, W)

-----------------------------------------------------------------------------
(* Queues *)

(* r is list with e at position i *)
Inserted(r, list, i, e) ==
    /\ r \in Seq(Entries)
    /\ Len(r) = Len(list) + 1
    /\ r[i] = e
    /\ \A j \in 1 .. i - 1 : r[j] = list[j]
    /\ \A j \in i + 1 .. Len(list) + 1 : r[j] = list[j - 1]

(* InsertAt puts e at position i and moves the rest up by one. *)
LEMMA InsertAtFacts ==
    ASSUME NEW list \in Seq(Entries), NEW e \in Entries, NEW i \in 1 .. Len(list) + 1
    PROVE  Inserted(InsertAt(list, i, e), list, i, e)
<1> DEFINE a == SubSeq(list, 1, i - 1)
           b == SubSeq(list, i, Len(list))
<1>1. /\ a \in Seq(Entries) /\ Len(a) = i - 1
      /\ \A j \in 1 .. i - 1 : a[j] = list[j]
  OBVIOUS
<1>2. /\ b \in Seq(Entries) /\ Len(b) = Len(list) - i + 1
      /\ \A j \in 1 .. Len(list) - i + 1 : b[j] = list[i + j - 1]
  OBVIOUS
<1> HIDE DEF a, b
<1>3. InsertAt(list, i, e) = a \o <<e>> \o b
  BY Zenon DEF InsertAt, a, b
<1> DEFINE c == a \o <<e>>
<1>4. /\ c \in Seq(Entries) /\ Len(c) = i
      /\ c[i] = e /\ \A j \in 1 .. i - 1 : c[j] = list[j]
  BY <1>1
<1> HIDE DEF c
<1>5. InsertAt(list, i, e) = c \o b
  BY <1>3, Zenon DEF c
<1>6. /\ c \o b \in Seq(Entries) /\ Len(c \o b) = Len(list) + 1
      /\ \A j \in 1 .. i : (c \o b)[j] = c[j]
      /\ \A j \in i + 1 .. Len(list) + 1 : (c \o b)[j] = b[j - i]
  BY <1>2, <1>4
<1>7. \A j \in i + 1 .. Len(list) + 1 : b[j - i] = list[j - 1]
  BY <1>2
<1>8. Inserted(c \o b, list, i, e)
  BY <1>4, <1>6, <1>7 DEF Inserted
<1> QED BY <1>5, <1>8, Zenon

\* What a new entry comes behind
Earlier(s, x) ==
  {i \in DOMAIN s : \/ s[i].when < x.when
                    \/ s[i].when = x.when /\ Pri(s[i].id) < Pri(x.id)}

(* An entry has a tick. *)
LEMMA EntryTick ==
    /\ \A x \in Entries : x.when \in Nat
    /\ \A s \in Seq(Entries) : \A i \in DOMAIN s : s[i] \in Entries
<1>1. \A x \in Entries : x.when \in Nat
  BY Zenon DEF Entries
<1>2. \A s \in Seq(Entries) : \A i \in DOMAIN s : s[i] \in Entries
  OBVIOUS
<1> QED BY <1>1, <1>2, Zenon

(* EventQueue::insert puts an entry somewhere, and the ticks stay in order. *)
LEMMA InsertPlace ==
    ASSUME NEW s \in Seq(Entries), Sorted(s), NEW x \in Entries
    PROVE  LET r == Insert(s, x)
               n == Len(s)
           IN  /\ r \in Seq(Entries) /\ Len(r) = n + 1 /\ Sorted(r)
               /\ \E k \in 0 .. n : /\ r[k + 1] = x
                                    /\ \A i \in 1 .. n + 1 : i <= k => r[i] = s[i]
                                    /\ \A i \in 1 .. n + 1 : i > k + 1 => r[i] = s[i - 1]
<1> DEFINE n == Len(s)
           E == Earlier(s, x)
           k == Cardinality(E)
           r == InsertAt(s, k + 1, x)
<1>1. n \in Nat /\ DOMAIN s = 1 .. n /\ \A i \in 1 .. n : s[i].when \in Nat
  <2>1. n \in Nat /\ DOMAIN s = 1 .. n
    OBVIOUS
  <2> QED BY <2>1, EntryTick, Zenon
<1>0. x.when \in Nat
  BY EntryTick, Zenon
<1>2. E \subseteq 1 .. n
  BY <1>1, Zenon DEF Earlier
<1>3. \A i \in 1 .. n : /\ s[i].when < x.when => i \in E
                        /\ i \in E => s[i].when <= x.when
  BY <1>0, <1>1 DEF Earlier
<1>4. Insert(s, x) = r
  BY Zenon DEF Insert, Earlier
<1> HIDE DEF E
<1>5. \A m \in Nat : IsFiniteSet(1 .. m) /\ Cardinality(1 .. m) = m
  BY FS_Interval
<1>6. IsFiniteSet(E) /\ k \in 0 .. n
  <2>1. IsFiniteSet(E) /\ Cardinality(E) <= Cardinality(1 .. n)
    BY <1>1, <1>2, <1>5, FS_Subset, Zenon
  <2>2. Cardinality(E) \in Nat
    BY <2>1, FS_CardinalityType, Zenon
  <2> QED BY <1>1, <1>5, <2>1, <2>2
<1>7. \A i \in 1 .. n : i <= k => s[i].when <= x.when
  <2>1. SUFFICES ASSUME NEW i \in 1 .. n, i <= k, x.when < s[i].when PROVE FALSE
    BY <1>0, <1>1
  <2>2. E \subseteq 1 .. i - 1
    <3>1. \A j \in 1 .. n : j >= i => s[j].when >= s[i].when
      BY <1>1 DEF Sorted
    <3> QED BY <1>0, <1>1, <1>2, <1>3, <2>1, <3>1
  <2>3. i - 1 \in Nat /\ IsFiniteSet(1 .. i - 1) /\ Cardinality(1 .. i - 1) = i - 1
    BY <1>1, <1>5
  <2>4. k <= Cardinality(1 .. i - 1)
    BY <2>2, <2>3, FS_Subset, Zenon
  <2> QED BY <1>6, <2>1, <2>3, <2>4
<1>8. \A i \in 1 .. n : i > k => s[i].when >= x.when
  <2>1. SUFFICES ASSUME NEW i \in 1 .. n, i > k, s[i].when < x.when PROVE FALSE
    BY <1>0, <1>1
  <2>2. 1 .. i \subseteq E
    <3>1. \A j \in 1 .. n : j <= i => s[j].when <= s[i].when
      BY <1>1 DEF Sorted
    <3> QED BY <1>0, <1>1, <1>3, <2>1, <3>1
  <2>3. i \in Nat /\ Cardinality(1 .. i) = i
    BY <1>1, <1>5
  <2>4. Cardinality(1 .. i) <= k
    BY <1>6, <2>2, FS_Subset, Zenon
  <2> QED BY <1>6, <2>1, <2>3, <2>4
<1> HIDE DEF k
<1>9. /\ r \in Seq(Entries) /\ Len(r) = n + 1 /\ r[k + 1] = x
      /\ \A i \in 1 .. n + 1 : i <= k => r[i] = s[i]
      /\ \A i \in 1 .. n + 1 : i > k + 1 => r[i] = s[i - 1]
  <2>1. PICK p \in 1 .. Len(s) + 1 : p = k + 1
    BY <1>1, <1>6
  <2>2. Inserted(InsertAt(s, p, x), s, p, x)
    <3> HIDE DEF r, n, E
    <3> QED BY InsertAtFacts, Zenon
  <2>3. r = InsertAt(s, p, x)
    BY <2>1, Zenon
  <2> HIDE DEF r
  <2>4. Inserted(r, s, p, x)
    BY <2>2, <2>3, Zenon
  <2> QED BY <1>1, <1>6, <2>1, <2>4 DEF Inserted
<1> HIDE DEF r
<1>10. Sorted(r)
  <2>1. \A i, j \in 1 .. n : i < j => s[i].when <= s[j].when
    BY <1>1, Zenon DEF Sorted
  <2>2. SUFFICES ASSUME NEW i \in 1 .. n + 1, NEW j \in 1 .. n + 1, i < j
                 PROVE  r[i].when <= r[j].when
    BY <1>1, <1>9 DEF Sorted
  <2>3. CASE j <= k
    BY <1>1, <1>6, <1>9, <2>1, <2>2, <2>3, SMTT(30)
  <2>4. CASE j = k + 1
    BY <1>1, <1>6, <1>7, <1>9, <2>2, <2>4
  <2>5. CASE i = k + 1
    BY <1>1, <1>6, <1>8, <1>9, <2>2, <2>5
  <2>6. CASE i <= k /\ j > k + 1
    <3>1. r[i] = s[i] /\ r[j] = s[j - 1]
      BY <1>1, <1>6, <1>9, <2>2, <2>6, Zenon
    <3>2. i \in 1 .. n /\ j - 1 \in 1 .. n /\ i < j - 1
      BY <1>1, <1>6, <2>2, <2>6
    <3> QED BY <2>1, <3>1, <3>2, Zenon
  <2>7. CASE i > k + 1
    <3>1. r[i] = s[i - 1] /\ r[j] = s[j - 1]
      BY <1>1, <1>6, <1>9, <2>2, <2>7
    <3>2. i - 1 \in 1 .. n /\ j - 1 \in 1 .. n /\ i - 1 < j - 1
      BY <1>1, <1>6, <2>2, <2>7
    <3> QED BY <2>1, <3>1, <3>2, Zenon
  <2> QED BY <1>6, <2>2, <2>3, <2>4, <2>5, <2>6, <2>7
<1> QED BY <1>4, <1>6, <1>9, <1>10, Zenon

(* What that means for the entries of the queue *)
LEMMA InsertFacts ==
    ASSUME NEW s \in Seq(Entries), Sorted(s), NEW x \in Entries
    PROVE  LET r == Insert(s, x)
           IN  /\ r \in Seq(Entries) /\ Sorted(r) /\ Items(r) = Items(s) \cup {x}
               /\ OneSync(s) /\ (x.id = Sync => ~HasSync(s)) => OneSync(r)
<1> DEFINE r == Insert(s, x)
           n == Len(s)
<1>1. n \in Nat /\ DOMAIN s = 1 .. n
  OBVIOUS
<1>2. /\ r \in Seq(Entries) /\ Len(r) = n + 1 /\ Sorted(r)
      /\ \E k \in 0 .. n : /\ r[k + 1] = x
                           /\ \A i \in 1 .. n + 1 : i <= k => r[i] = s[i]
                           /\ \A i \in 1 .. n + 1 : i > k + 1 => r[i] = s[i - 1]
  BY InsertPlace, Zenon
<1> HIDE DEF r
<1>3. PICK k \in 0 .. n : /\ r[k + 1] = x
                          /\ \A i \in 1 .. n + 1 : i <= k => r[i] = s[i]
                          /\ \A i \in 1 .. n + 1 : i > k + 1 => r[i] = s[i - 1]
  BY <1>2, Zenon
<1>4. DOMAIN r = 1 .. n + 1
  BY <1>1, <1>2
<1> HIDE DEF n
<1>5. \A i \in 1 .. n + 1 : r[i] # x => \E j \in 1 .. n : r[i] = s[j]
  <2>1. SUFFICES ASSUME NEW i \in 1 .. n + 1, r[i] # x PROVE \E j \in 1 .. n : r[i] = s[j]
    OBVIOUS
  <2>2. CASE i <= k
    BY <1>1, <1>3, <2>2
  <2>3. CASE i > k + 1
    BY <1>1, <1>3, <2>3
  <2> QED BY <1>1, <1>3, <2>1, <2>2, <2>3
<1>6. \A j \in 1 .. n : \E i \in 1 .. n + 1 : r[i] = s[j]
  <2>1. SUFFICES ASSUME NEW j \in 1 .. n PROVE \E i \in 1 .. n + 1 : r[i] = s[j]
    OBVIOUS
  <2>2. CASE j <= k
    BY <1>1, <1>3, <2>2
  <2>3. CASE j > k
    <3>1. r[j + 1] = s[j] /\ j + 1 \in 1 .. n + 1
      BY <1>1, <1>3, <2>3
    <3> QED BY <3>1, Zenon
  <2> QED BY <1>1, <1>3, <2>2, <2>3
<1>7. Items(r) = Items(s) \cup {x}
  <2>1. \A y \in Items(r) : y = x \/ y \in Items(s)
    BY <1>1, <1>4, <1>5, Zenon DEF Items
  <2>2. \A y \in Items(s) : y \in Items(r)
    BY <1>1, <1>4, <1>6, Zenon DEF Items
  <2>3. k + 1 \in 1 .. n + 1
    BY <1>1
  <2>4. x \in Items(r)
    BY <1>3, <1>4, <2>3, Zenon DEF Items
  <2> QED BY <2>1, <2>2, <2>4, Zenon
<1>8. ASSUME OneSync(s), x.id = Sync => ~HasSync(s) PROVE OneSync(r)
  <2>1. \A i, j \in 1 .. n : s[i].id = Sync /\ s[j].id = Sync => i = j
    BY <1>1, <1>8, Zenon DEF OneSync
  <2>2. x.id = Sync => \A i \in 1 .. n : s[i].id # Sync
    BY <1>1, <1>8, Zenon DEF HasSync
  <2>3. SUFFICES ASSUME NEW i \in 1 .. n + 1, NEW j \in 1 .. n + 1,
                        r[i].id = Sync, r[j].id = Sync, i < j
                 PROVE  FALSE
    BY <1>1, <1>4 DEF OneSync
  <2>4. CASE i = k + 1
    BY <1>1, <1>3, <2>2, <2>3, <2>4
  <2>5. CASE j = k + 1
    BY <1>1, <1>3, <2>2, <2>3, <2>5
  <2>6. CASE j <= k
    BY <1>1, <1>3, <2>1, <2>3, <2>6
  <2>7. CASE i <= k /\ j > k + 1
    BY <1>1, <1>3, <2>1, <2>3, <2>7
  <2>8. CASE i > k + 1
    BY <1>1, <1>3, <2>1, <2>3, <2>8
  <2> QED BY <1>3, <2>3, <2>4, <2>5, <2>6, <2>7, <2>8
<1> QED BY <1>2, <1>7, <1>8, Zenon DEF r

(* A nonempty set of numbers has a least one. *)
LEMMA LeastNumber ==
    ASSUME NEW S, S \subseteq Nat, S # {}
    PROVE  \E m \in S : \A k \in S : m <= k
<1> DEFINE R == OpToRel(<, Nat)
<1>1. IsWellFoundedOn(R, Nat)
  BY NatLessThanWellFounded, Zenon
<1>2. \A x, y \in Nat : <<y, x>> \in R <=> y < x
  BY Zenon DEF OpToRel
<1> HIDE DEF R
<1>3. PICK x \in S : \A y \in S : ~(<<y, x>> \in R)
  BY <1>1, WFMin, Zenon
<1>4. \A y \in S : ~(y < x)
  BY <1>2, <1>3, Zenon
<1>5. \A y \in S : x <= y
  BY <1>4
<1> QED BY <1>5, Zenon

\* The queue after each insertion of handleAsyncInsertions
IsMerge(f, s, new, n) ==
  f = [i \in 0 .. n |-> IF i = 0 THEN s ELSE Insert(f[i - 1], new[i])]

(* The loop of handleAsyncInsertions can be followed to its end. *)
LEMMA MergeExists ==
    ASSUME NEW s, NEW new, NEW n \in Nat
    PROVE  \E f : IsMerge(f, s, new, n)
<1> DEFINE Bad == {m \in Nat : ~ \E f : IsMerge(f, s, new, m)}
<1>1. SUFFICES ASSUME Bad # {} PROVE FALSE
  BY Zenon
<1>2. Bad \subseteq Nat
  BY Zenon
<1>3. PICK m \in Bad : \A k \in Bad : m <= k
  <2> HIDE DEF Bad
  <2> QED BY <1>1, <1>2, LeastNumber, Zenon
<1>4. m \in Nat /\ ~ \E f : IsMerge(f, s, new, m)
  BY Zenon
<1>5. CASE m = 0
  <2> DEFINE f == [i \in 0 .. 0 |-> s]
  <2>1. f = [i \in 0 .. 0 |-> IF i = 0 THEN s ELSE Insert(f[i - 1], new[i])]
    OBVIOUS
  <2>2. IsMerge(f, s, new, 0)
    BY <2>1, Zenon DEF IsMerge
  <2> QED BY <1>4, <1>5, <2>2, Zenon
<1>6. CASE m # 0
  <2>1. m - 1 \in Nat /\ ~(m <= m - 1)
    BY <1>4, <1>6
  <2>2. m - 1 \notin Bad
    BY <1>3, <2>1, Zenon
  <2>3. PICK g : IsMerge(g, s, new, m - 1)
    BY <2>1, <2>2, Zenon
  <2>4. /\ DOMAIN g = 0 .. m - 1
        /\ \A i \in 0 .. m - 1 : g[i] = IF i = 0 THEN s ELSE Insert(g[i - 1], new[i])
    BY <2>3, Zenon DEF IsMerge
  <2> DEFINE f == [i \in 0 .. m |-> IF i <= m - 1 THEN g[i] ELSE Insert(g[m - 1], new[m])]
  <2>5. \A i \in 0 .. m : f[i] = IF i = 0 THEN s ELSE Insert(f[i - 1], new[i])
    <3>1. \A i \in 0 .. m - 1 : f[i] = g[i]
      BY <1>4
    <3>2. f[m] = Insert(g[m - 1], new[m])
      BY <1>4
    <3> HIDE DEF f
    <3>3. ASSUME NEW i \in 0 .. m PROVE f[i] = IF i = 0 THEN s ELSE Insert(f[i - 1], new[i])
      <4>1. CASE i = 0
        BY <1>4, <2>1, <2>4, <3>1, <4>1
      <4>2. CASE i # 0 /\ i <= m - 1
        <5>1. i \in 0 .. m - 1 /\ i - 1 \in 0 .. m - 1
          BY <1>4, <4>2
        <5>2. g[i] = Insert(g[i - 1], new[i])
          BY <2>4, <4>2, <5>1, Zenon
        <5> QED BY <3>1, <4>2, <5>1, <5>2, Zenon
      <4>3. CASE i = m
        <5>1. m - 1 \in 0 .. m - 1
          BY <2>1
        <5>2. f[m - 1] = g[m - 1]
          BY <3>1, <5>1, Zenon
        <5> QED BY <1>6, <3>2, <4>3, <5>2
      <4> QED BY <1>4, <3>3, <4>1, <4>2, <4>3
    <3> QED BY <3>3, Zenon
  <2>6. f = [i \in 0 .. m |-> IF i = 0 THEN s ELSE Insert(f[i - 1], new[i])]
    <3>1. f = [i \in 0 .. m |-> f[i]]
      OBVIOUS
    <3> HIDE DEF f
    <3> QED BY <2>5, <3>1, Zenon
  <2>7. IsMerge(f, s, new, m)
    <3> HIDE DEF f
    <3> QED BY <2>6, Zenon DEF IsMerge
  <2> QED BY <1>4, <2>7, Zenon
<1> QED BY <1>5, <1>6, Zenon

(* Merge is what the last insertion leaves. *)
LEMMA MergeSteps ==
    ASSUME NEW s \in Seq(Entries), NEW new \in Seq(Entries)
    PROVE  \E f : /\ f[0] = s /\ Merge(s, new) = f[Len(new)]
                  /\ \A i \in 1 .. Len(new) : f[i] = Insert(f[i - 1], new[i])
<1> DEFINE f == CHOOSE h : IsMerge(h, s, new, Len(new))
<1>1. Len(new) \in Nat
  OBVIOUS
<1>2. IsMerge(f, s, new, Len(new))
  BY <1>1, MergeExists, Zenon
<1>3. Merge(s, new) = f[Len(new)]
  BY Zenon DEF Merge, IsMerge
<1> HIDE DEF f
<1>4. \A i \in 0 .. Len(new) : f[i] = IF i = 0 THEN s ELSE Insert(f[i - 1], new[i])
  BY <1>2, Zenon DEF IsMerge
<1>5. f[0] = s /\ \A i \in 1 .. Len(new) : f[i] = Insert(f[i - 1], new[i])
  BY <1>1, <1>4
<1> QED BY <1>3, <1>5, Zenon

(* Merging an async queue keeps the ticks in order, loses no entry, and    *)
(* leaves one sync if there was one on one of the queues.                  *)
LEMMA MergeFacts ==
    ASSUME NEW s \in Seq(Entries), Sorted(s), OneSync(s),
           NEW new \in Seq(Entries), OneSync(new), ~(HasSync(s) /\ HasSync(new))
    PROVE  LET r == Merge(s, new)
           IN  /\ r \in Seq(Entries) /\ Sorted(r) /\ OneSync(r)
               /\ Items(r) = Items(s) \cup Items(new)
<1> DEFINE n == Len(new)
           First(i) == {new[j] : j \in 1 .. i}
<1>1. n \in Nat /\ DOMAIN new = 1 .. n
  OBVIOUS
<1>0. \E f : /\ f[0] = s /\ Merge(s, new) = f[n]
            /\ \A i \in 1 .. n : f[i] = Insert(f[i - 1], new[i])
  BY MergeSteps, Zenon
<1>2. PICK f : /\ f[0] = s /\ Merge(s, new) = f[n]
               /\ \A i \in 1 .. n : f[i] = Insert(f[i - 1], new[i])
  BY <1>0, Zenon
<1> DEFINE Good(i) == /\ f[i] \in Seq(Entries) /\ Sorted(f[i]) /\ OneSync(f[i])
                      /\ Items(f[i]) = Items(s) \cup First(i)
           Bad == {i \in 0 .. n : ~Good(i)}
<1>3. Good(0)
  <2>1. First(0) = {}
    OBVIOUS
  <2> HIDE DEF First
  <2> QED BY <1>2, <2>1, Zenon
<1>4. ASSUME NEW i \in 1 .. n, Good(i - 1) PROVE Good(i)
  <2> DEFINE q == f[i - 1]
             x == new[i]
  <2>1. q \in Seq(Entries) /\ Sorted(q) /\ OneSync(q) /\ Items(q) = Items(s) \cup First(i - 1)
    BY <1>4, Zenon
  <2>2. x \in Entries /\ f[i] = Insert(q, x)
    BY <1>1, <1>2
  <2>3. First(i) = First(i - 1) \cup {x}
    <3>1. \A j \in 1 .. i : j = i \/ j \in 1 .. i - 1
      BY <1>1
    <3>2. \A j \in 1 .. i - 1 : j \in 1 .. i
      BY <1>1
    <3>3. i \in 1 .. i
      BY <1>1
    <3> QED BY <3>1, <3>2, <3>3, Zenon
  <2>4. x.id = Sync => ~HasSync(q)
    <3>1. SUFFICES ASSUME x.id = Sync, HasSync(q) PROVE FALSE
      OBVIOUS
    <3>2. HasSync(new)
      BY <1>1, <3>1, Zenon DEF HasSync
    <3>3. PICK k \in DOMAIN q : q[k].id = Sync
      BY <3>1, Zenon DEF HasSync
    <3>4. q[k] \in Items(s) \/ q[k] \in First(i - 1)
      <4>1. q[k] \in Items(q)
        BY Zenon DEF Items
      <4> HIDE DEF First, q
      <4> QED BY <2>1, <4>1, Zenon
    <3>5. CASE q[k] \in Items(s)
      <4>1. PICK j \in DOMAIN s : q[k] = s[j]
        BY <3>5, Zenon DEF Items
      <4>2. HasSync(s)
        BY <3>3, <4>1, Zenon DEF HasSync
      <4> QED BY <3>2, <4>2, Zenon
    <3>6. CASE q[k] \in First(i - 1)
      <4>1. PICK j \in 1 .. i - 1 : q[k] = new[j]
        BY <3>6, Zenon
      <4>2. new[j].id = Sync /\ new[i].id = Sync /\ j \in DOMAIN new /\ i \in DOMAIN new /\ j # i
        BY <1>1, <3>1, <3>3, <4>1
      <4> QED BY <4>2, Zenon DEF OneSync
    <3> QED BY <3>4, <3>5, <3>6
  <2> HIDE DEF q, x, First
  <2>5. /\ Insert(q, x) \in Seq(Entries) /\ Sorted(Insert(q, x))
        /\ Items(Insert(q, x)) = Items(q) \cup {x}
        /\ OneSync(q) /\ (x.id = Sync => ~HasSync(q)) => OneSync(Insert(q, x))
    BY <2>1, <2>2, InsertFacts, Zenon
  <2> QED BY <2>1, <2>2, <2>3, <2>4, <2>5
<1>5. Bad = {}
  <2>1. SUFFICES ASSUME Bad # {} PROVE FALSE
    OBVIOUS
  <2>2. Bad \subseteq Nat
    BY <1>1
  <2> HIDE DEF Good
  <2>3. PICK m \in Bad : \A k \in Bad : m <= k
    <3> HIDE DEF Bad
    <3> QED BY <2>1, <2>2, LeastNumber, Zenon
  <2>4. m \in 0 .. n /\ ~Good(m)
    BY Zenon
  <2>5. m # 0
    BY <1>3, <2>4, Zenon
  <2>6. m \in 1 .. n /\ m - 1 \in 0 .. n /\ ~(m <= m - 1)
    BY <1>1, <2>4, <2>5
  <2>7. Good(m - 1)
    BY <2>3, <2>6, Zenon
  <2> QED BY <1>4, <2>4, <2>6, <2>7, Zenon
<1>6. Good(n)
  <2>1. n \in 0 .. n
    BY <1>1
  <2> HIDE DEF Good
  <2> QED BY <1>5, <2>1, Zenon
<1>7. First(n) = Items(new)
  BY <1>1, Zenon DEF Items
<1> QED BY <1>2, <1>6, <1>7, Zenon

(* Two queues in a row *)
LEMMA ConcatFacts ==
    ASSUME NEW a \in Seq(Entries), NEW b \in Seq(Entries)
    PROVE  /\ a \o b \in Seq(Entries) /\ DOMAIN (a \o b) = 1 .. Len(a) + Len(b)
           /\ \A j \in 1 .. Len(a) : (a \o b)[j] = a[j]
           /\ \A j \in Len(a) + 1 .. Len(a) + Len(b) : (a \o b)[j] = b[j - Len(a)]
OBVIOUS

(* Taking an entry off a queue *)
LEMMA RemoveAtFacts ==
    ASSUME NEW s \in Seq(Entries), Sorted(s), NEW k \in DOMAIN s
    PROVE  LET r == RemoveAt(s, k)
           IN  /\ r \in Seq(Entries) /\ Sorted(r)
               /\ Items(s) = Items(r) \cup {s[k]}
               /\ OneSync(s) => OneSync(r) /\ (s[k].id = Sync => ~HasSync(r))
<1> DEFINE n == Len(s)
           a == SubSeq(s, 1, k - 1)
           b == SubSeq(s, k + 1, n)
           r == a \o b
<1>1. n \in Nat /\ DOMAIN s = 1 .. n /\ k \in 1 .. n
  OBVIOUS
<1>2. RemoveAt(s, k) = r
  BY Zenon DEF RemoveAt
<1>3. a \in Seq(Entries) /\ Len(a) = k - 1 /\ \A j \in 1 .. k - 1 : a[j] = s[j]
  BY <1>1
<1>4. b \in Seq(Entries) /\ Len(b) = n - k /\ \A j \in 1 .. n - k : b[j] = s[k + j]
  BY <1>1
<1> HIDE DEF a, b
<1>5. /\ r \in Seq(Entries) /\ DOMAIN r = 1 .. Len(a) + Len(b)
      /\ \A j \in 1 .. Len(a) : r[j] = a[j]
      /\ \A j \in Len(a) + 1 .. Len(a) + Len(b) : r[j] = b[j - Len(a)]
  BY <1>3, <1>4, ConcatFacts, Zenon
<1> HIDE DEF r, n
<1>6. /\ DOMAIN r = 1 .. n - 1
      /\ \A j \in 1 .. n - 1 : r[j] = IF j < k THEN a[j] ELSE b[j - k + 1]
  <2>1. Len(a) + Len(b) = n - 1 /\ Len(a) = k - 1
    BY <1>1, <1>3, <1>4
  <2>2. \A j \in 1 .. n - 1 : j - (k - 1) = j - k + 1
    BY <1>1
  <2>3. DOMAIN r = 1 .. n - 1
    BY <1>5, <2>1, Zenon
  <2>4. ASSUME NEW j \in 1 .. n - 1, j < k PROVE r[j] = a[j]
    BY <1>1, <1>5, <2>1, <2>4
  <2>5. ASSUME NEW j \in 1 .. n - 1, ~(j < k) PROVE r[j] = b[j - k + 1]
    <3>1. j \in Len(a) + 1 .. Len(a) + Len(b)
      BY <1>1, <2>1, <2>5
    <3>2. r[j] = b[j - Len(a)]
      BY <1>5, <3>1, Zenon
    <3> QED BY <2>1, <2>2, <3>2, Zenon
  <2> QED BY <2>3, <2>4, <2>5, Zenon
<1>7. \A j \in 1 .. n - 1 : r[j] = IF j < k THEN s[j] ELSE s[j + 1]
  <2>1. SUFFICES ASSUME NEW j \in 1 .. n - 1 PROVE r[j] = IF j < k THEN s[j] ELSE s[j + 1]
    OBVIOUS
  <2>2. CASE j < k
    BY <1>1, <1>3, <1>6, <2>2
  <2>3. CASE ~(j < k)
    <3>1. j - k + 1 \in 1 .. n - k /\ k + (j - k + 1) = j + 1
      BY <1>1, <2>3
    <3>2. b[j - k + 1] = s[j + 1]
      BY <1>4, <3>1
    <3> QED BY <1>6, <2>3, <3>2, Zenon
  <2> QED BY <2>2, <2>3, Zenon
<1> DEFINE to(j) == IF j < k THEN j ELSE j + 1
<1>8. /\ \A j \in 1 .. n - 1 : to(j) \in 1 .. n /\ to(j) # k /\ r[j] = s[to(j)]
      /\ \A i, j \in 1 .. n - 1 : i < j => to(i) < to(j)
  <2>1. \A j \in 1 .. n - 1 : to(j) \in 1 .. n /\ to(j) # k
    BY <1>1
  <2>2. \A j \in 1 .. n - 1 : r[j] = s[to(j)]
    BY <1>7, Zenon
  <2>3. \A i, j \in 1 .. n - 1 : i < j => to(i) < to(j)
    BY <1>1
  <2> QED BY <2>1, <2>2, <2>3, Zenon
<1>9. \A i \in 1 .. n : i # k => \E j \in 1 .. n - 1 : to(j) = i
  <2>1. SUFFICES ASSUME NEW i \in 1 .. n, i # k PROVE \E j \in 1 .. n - 1 : to(j) = i
    OBVIOUS
  <2>2. CASE i < k
    <3>1. i \in 1 .. n - 1 /\ to(i) = i
      BY <1>1, <2>2
    <3> QED BY <3>1, Zenon
  <2>3. CASE i > k
    <3>1. i - 1 \in 1 .. n - 1 /\ to(i - 1) = i
      BY <1>1, <2>3
    <3> QED BY <3>1, Zenon
  <2> QED BY <1>1, <2>1, <2>2, <2>3
<1> HIDE DEF to
<1>10. Sorted(r)
  BY <1>1, <1>6, <1>8 DEF Sorted
<1>11. Items(s) = Items(r) \cup {s[k]}
  <2>1. \A j \in DOMAIN r : \E i \in DOMAIN s : r[j] = s[i]
    BY <1>1, <1>6, <1>8, Zenon
  <2>2. \A i \in DOMAIN s : i # k => \E j \in DOMAIN r : s[i] = r[j]
    BY <1>1, <1>6, <1>8, <1>9, Zenon
  <2>3. \A x \in Items(r) : x \in Items(s)
    BY <2>1, Zenon DEF Items
  <2>4. \A x \in Items(s) : x = s[k] \/ x \in Items(r)
    BY <2>2, Zenon DEF Items
  <2>5. s[k] \in Items(s)
    BY Zenon DEF Items
  <2> QED BY <2>3, <2>4, <2>5, Zenon
<1>12. ASSUME OneSync(s) PROVE OneSync(r) /\ (s[k].id = Sync => ~HasSync(r))
  <2>1. \A i, j \in 1 .. n : s[i].id = Sync /\ s[j].id = Sync => i = j
    BY <1>1, <1>12 DEF OneSync
  <2>2. OneSync(r)
    <3>1. SUFFICES ASSUME NEW i \in 1 .. n - 1, NEW j \in 1 .. n - 1,
                          r[i].id = Sync, r[j].id = Sync, i < j
                   PROVE  FALSE
      BY <1>1, <1>6 DEF OneSync
    <3>2. to(i) \in 1 .. n /\ to(j) \in 1 .. n /\ s[to(i)].id = Sync /\ s[to(j)].id = Sync
      BY <1>8, <3>1, Zenon
    <3>3. to(i) < to(j) /\ to(i) = to(j)
      BY <1>8, <2>1, <3>1, <3>2, Zenon
    <3> QED BY <1>1, <3>2, <3>3
  <2>3. ASSUME s[k].id = Sync, NEW j \in 1 .. n - 1, r[j].id = Sync PROVE FALSE
    BY <1>1, <1>8, <2>1, <2>3, Zenon
  <2> QED BY <1>6, <2>2, <2>3 DEF HasSync
<1> QED BY <1>2, <1>5, <1>10, <1>11, <1>12, Zenon

(* Syncs are among the entries. *)
LEMMA SyncItem == \A s : HasSync(s) <=> \E x \in Items(s) : x.id = Sync
BY Zenon DEF HasSync, Items

(* Descheduling an event *)
LEMMA WithoutFacts ==
    ASSUME NEW s \in Seq(Entries), Sorted(s), OneSync(s), NEW e
    PROVE  LET r == Without(s, e)
           IN  /\ r \in Seq(Entries) /\ Sorted(r) /\ OneSync(r)
               /\ Items(r) \subseteq Items(s) /\ (e = Sync => ~HasSync(r))
<1>1. CASE \E i \in DOMAIN s : s[i].id = e
  <2> DEFINE k == CHOOSE i \in DOMAIN s : s[i].id = e
             r == RemoveAt(s, k)
  <2>1. k \in DOMAIN s /\ s[k].id = e
    BY <1>1, Zenon
  <2>2. Without(s, e) = r
    BY <1>1, Zenon DEF Without
  <2> HIDE DEF k
  <2>3. /\ r \in Seq(Entries) /\ Sorted(r)
        /\ Items(s) = Items(r) \cup {s[k]}
        /\ OneSync(s) => OneSync(r) /\ (s[k].id = Sync => ~HasSync(r))
    BY <2>1, RemoveAtFacts, Zenon
  <2> HIDE DEF r
  <2> QED BY <2>1, <2>2, <2>3, Zenon
<1>2. CASE ~ \E i \in DOMAIN s : s[i].id = e
  <2>1. Without(s, e) = s
    BY <1>2, Zenon DEF Without
  <2> QED BY <1>2, <2>1, Zenon DEF HasSync
<1> QED BY <1>1, <1>2, Zenon

(* The next event of a queue, and the others *)
LEMMA TailFacts ==
    ASSUME NEW s \in Seq(Entries), Sorted(s), OneSync(s), s # <<>>
    PROVE  /\ Head(s) \in Entries /\ Head(s) \in Items(s)
           /\ \A x \in Items(s) : Head(s).when <= x.when
           /\ Tail(s) \in Seq(Entries) /\ Sorted(Tail(s)) /\ OneSync(Tail(s))
           /\ Items(s) = Items(Tail(s)) \cup {Head(s)}
           /\ Head(s).id = Sync => ~HasSync(Tail(s))
<1>1. Len(s) \in Nat /\ DOMAIN s = 1 .. Len(s) /\ 1 \in DOMAIN s /\ Head(s) = s[1]
  OBVIOUS
<1>2. Head(s) \in Entries /\ Head(s) \in Items(s)
  BY <1>1, EntryTick, Zenon DEF Items
<1>3. \A x \in Items(s) : Head(s).when <= x.when
  <2>1. \A j \in 1 .. Len(s) : s[1].when <= s[j].when
    <3>1. s[1].when \in Nat
      BY <1>1, EntryTick, Zenon
    <3> QED BY <1>1, <3>1 DEF Sorted
  <2> QED BY <1>1, <2>1, Zenon DEF Items
<1>4. Tail(s) = RemoveAt(s, 1)
  <2>1. SubSeq(s, 1, 1 - 1) = <<>>
    OBVIOUS
  <2>2. RemoveAt(s, 1) = <<>> \o SubSeq(s, 1 + 1, Len(s))
    BY <2>1, Zenon DEF RemoveAt
  <2>3. Tail(s) = SubSeq(s, 2, Len(s)) /\ SubSeq(s, 2, Len(s)) \in Seq(Entries)
    BY <1>1
  <2>4. <<>> \o SubSeq(s, 2, Len(s)) = SubSeq(s, 2, Len(s))
    BY <2>3
  <2> QED BY <2>2, <2>3, <2>4
<1>5. /\ RemoveAt(s, 1) \in Seq(Entries) /\ Sorted(RemoveAt(s, 1))
      /\ Items(s) = Items(RemoveAt(s, 1)) \cup {s[1]}
      /\ OneSync(s) => OneSync(RemoveAt(s, 1)) /\ (s[1].id = Sync => ~HasSync(RemoveAt(s, 1)))
  BY <1>1, RemoveAtFacts, Zenon
<1> QED BY <1>1, <1>2, <1>3, <1>4, <1>5, Zenon

(* An event for another thread *)
LEMMA AppendFacts ==
    ASSUME NEW s \in Seq(Entries), NEW x \in Entries
    PROVE  /\ Append(s, x) \in Seq(Entries) /\ Items(Append(s, x)) = Items(s) \cup {x}
           /\ OneSync(s) /\ (x.id = Sync => ~HasSync(s)) => OneSync(Append(s, x))
<1> DEFINE n == Len(s)
           r == Append(s, x)
<1>1. /\ n \in Nat /\ DOMAIN s = 1 .. n /\ r \in Seq(Entries) /\ DOMAIN r = 1 .. n + 1
      /\ r[n + 1] = x /\ \A i \in 1 .. n : r[i] = s[i]
  OBVIOUS
<1> HIDE DEF n, r
<1>2. /\ n + 1 \in 1 .. n + 1 /\ \A i \in 1 .. n : i \in 1 .. n + 1
      /\ \A i \in 1 .. n + 1 : i = n + 1 \/ i \in 1 .. n
  BY <1>1
<1>3. Items(r) = Items(s) \cup {x}
  <2>1. \A y \in Items(r) : y = x \/ y \in Items(s)
    BY <1>1, <1>2, Zenon DEF Items
  <2>2. \A y \in Items(s) : y \in Items(r)
    BY <1>1, <1>2, Zenon DEF Items
  <2>3. x \in Items(r)
    BY <1>1, <1>2, Zenon DEF Items
  <2> QED BY <2>1, <2>2, <2>3
<1>4. ASSUME OneSync(s), x.id = Sync => ~HasSync(s) PROVE OneSync(r)
  BY <1>1, <1>2, <1>4, Zenon DEF OneSync, HasSync
<1> QED BY <1>1, <1>3, <1>4 DEF r

(* An empty queue *)
LEMMA EmptyFacts ==
    /\ <<>> \in Seq(Entries) /\ Items(<<>>) = {} /\ DOMAIN <<>> = {}
    /\ Sorted(<<>>) /\ OneSync(<<>>) /\ ~HasSync(<<>>)
BY DEF Items, Sorted, OneSync, HasSync

(* simulate() puts the limit and the first sync of its quantum on a queue  *)
(* that has no sync.                                                       *)
LEMMA PreparedFacts ==
    ASSUME NEW s \in Seq(Entries), Sorted(s), ~HasSync(s), NEW now \in Nat
    PROVE  LET r == Prepared(s, now)
           IN  /\ r \in Seq(Entries) /\ Sorted(r) /\ OneSync(r) /\ HasSync(r)
               /\ Items(r) = Items(s) \cup {Entry(Exit, Limit), Entry(Sync, now + simQuantum)}
<1> DEFINE x == Entry(Exit, Limit)
           y == Entry(Sync, now + simQuantum)
           a == Insert(s, x)
           r == Insert(a, y)
<1>1. x \in Entries /\ y \in Entries /\ x.id = Exit /\ y.id = Sync
  BY TicksAssumption DEF Entries, Entry
<1>2. x.id # Sync
  BY <1>1, Zenon DEF Exit, Sync
<1>3. OneSync(s)
  BY Zenon DEF OneSync, HasSync
<1> HIDE DEF x, y
<1>4. a \in Seq(Entries) /\ Sorted(a) /\ Items(a) = Items(s) \cup {x} /\ OneSync(a)
  BY <1>1, <1>2, <1>3, InsertFacts, Zenon
<1>5. ~HasSync(a)
  BY <1>2, <1>4, SyncItem, Zenon
<1> HIDE DEF a
<1>6. r \in Seq(Entries) /\ Sorted(r) /\ Items(r) = Items(a) \cup {y} /\ OneSync(r)
  BY <1>1, <1>4, <1>5, InsertFacts, Zenon
<1> HIDE DEF r
<1>7. HasSync(r) /\ Items(r) = Items(s) \cup {x, y}
  BY <1>1, <1>4, <1>6, SyncItem, Zenon
<1>8. Prepared(s, now) = r
  BY Zenon DEF Prepared, r, a, x, y
<1> QED BY <1>6, <1>7, <1>8, Zenon DEF x, y

-----------------------------------------------------------------------------
(* The steps of a thread *)

(* What a step leaves alone stays right. *)
LEMMA Untouched ==
    ASSUME NEW u \in Threads, NEW T, NEW W,
           eq'[u] = eq[u], asyncq'[u] = asyncq[u], curTick'[u] = curTick[u],
           pc'[u] = pc[u], at'[u] = at[u],
           Processing' <=> Processing, Awaits(u)' <=> Awaits(u),
           \A x : Fits(x, T, W) => Fits(x, T, W)', used \subseteq used'
    PROVE  /\ QueueOK(u, T, W) => QueueOK(u, T, W)'
           /\ SyncOK(u, T) => SyncOK(u, T)'
           /\ PlaceOK(u, T, W) => PlaceOK(u, T, W)'
<1>1. Merges(u)' <=> Merges(u)
  BY Zenon DEF Merges
<1>2. QueueOK(u, T, W) => QueueOK(u, T, W)'
  BY <1>1, Zenon DEF QueueOK
<1>3. SyncOK(u, T) => SyncOK(u, T)'
  BY Zenon DEF SyncOK
<1>4. PlaceOK(u, T, W) => PlaceOK(u, T, W)'
  BY Zenon DEF PlaceOK
<1> QED BY <1>2, <1>3, <1>4, Zenon

(* A thread enters doSimLoop. *)
LEMMA EnterKeeps ==
    ASSUME Types, NEW T \in Nat, NEW W \in [Globals -> Nat], Core(T, W),
           NEW t \in Threads, Enter(t)
    PROVE  Types' /\ Core(T, W)'
<1> DEFINE r == Merge(eq[t], asyncq[t])
<1>1. /\ pc[t] = "enter" /\ pc' = [pc EXCEPT ![t] = "run"]
      /\ eq' = [eq EXCEPT ![t] = r] /\ asyncq' = [asyncq EXCEPT ![t] = <<>>]
      /\ curTick' = curTick /\ at' = at /\ todo' = todo /\ used' = used
  BY Zenon DEF Enter
<1>2. QueueOK(t, T, W) /\ SyncOK(t, T) /\ LoopOK(t, T, W) /\ PlaceOK(t, T, W)
  BY Zenon DEF Core
<1>3. at[t] = None /\ at[t] # Sync
  BY <1>1, <1>2, Zenon DEF PlaceOK, None, Sync
<1>4. /\ eq[t] \in Seq(Entries) /\ asyncq[t] \in Seq(Entries)
      /\ Sorted(eq[t]) /\ OneSync(eq[t]) /\ OneSync(asyncq[t])
      /\ HasSync(eq[t]) /\ ~HasSync(asyncq[t])
  BY <1>2, <1>3, Zenon DEF Types, QueueOK, SyncOK
<1>5. r \in Seq(Entries) /\ Sorted(r) /\ OneSync(r) /\ Items(r) = Items(eq[t]) \cup Items(asyncq[t])
  BY <1>4, MergeFacts, Zenon
<1>6. HasSync(r)
  BY <1>4, <1>5, SyncItem, Zenon
<1> HIDE DEF r
<1>7. Types'
  BY <1>1, <1>5, EmptyFacts, Zenon DEF Types, PCs
<1>8. /\ \A u \in Threads \ {t} : eq'[u] = eq[u] /\ asyncq'[u] = asyncq[u] /\ pc'[u] = pc[u]
      /\ eq'[t] = r /\ asyncq'[t] = <<>> /\ pc'[t] = "run"
  BY <1>1, Zenon DEF Types
<1>9. /\ \A x : Fits(x, T, W)' <=> Fits(x, T, W)
      /\ \A u : Awaits(u)' <=> Awaits(u)
      /\ Processing' <=> Processing
  <2>1. \A x : Fits(x, T, W)' <=> Fits(x, T, W)
    BY <1>1, Zenon DEF Fits
  <2>2. \A u : Awaits(u)' <=> Awaits(u)
    BY <1>1, Zenon DEF Awaits
  <2>3. Processing' <=> Processing
    BY <1>1, <1>8, Zenon DEF Processing
  <2> QED BY <2>1, <2>2, <2>3, Zenon
<1>10. QueueOK(t, T, W)' /\ SyncOK(t, T)' /\ PlaceOK(t, T, W)'
  <2>1. QueueOK(t, T, W)'
    BY <1>1, <1>2, <1>5, <1>8, <1>9, EmptyFacts DEF QueueOK
  <2>2. SyncOK(t, T)'
    BY <1>1, <1>3, <1>5, <1>6, <1>8, EmptyFacts DEF SyncOK
  <2>3. PlaceOK(t, T, W)'
    BY <1>1, <1>2, <1>3, <1>8, Zenon DEF PlaceOK
  <2> QED BY <2>1, <2>2, <2>3, Zenon
<1>11. \A u \in Threads : QueueOK(u, T, W)' /\ SyncOK(u, T)' /\ PlaceOK(u, T, W)'
  <2>1. ASSUME NEW u \in Threads, u # t
        PROVE  QueueOK(u, T, W)' /\ SyncOK(u, T)' /\ PlaceOK(u, T, W)'
    BY <1>1, <1>8, <1>9, <2>1, Untouched, ZenonT(30) DEF Core
  <2> QED BY <1>10, <2>1, Zenon
<1>12. \A u \in Threads : LoopOK(u, T, W)'
  <2>1. SUFFICES ASSUME NEW u \in Threads PROVE LoopOK(u, T, W)'
    OBVIOUS
  <2>2. LoopOK(u, T, W)
    BY Zenon DEF Core
  <2>3. todo'[u] = todo[u] /\ at'[u] = at[u] /\ (pc[u] \in {"run", "again"} => pc'[u] = pc[u])
    BY <1>1, <1>8, Zenon
  <2>4. \A v : ~HasSync(asyncq[v]) => ~HasSync(asyncq'[v])
    BY <1>1, EmptyFacts DEF Types
  <2>5. todo[u] = <<>> => DOMAIN todo[u] = {}
    OBVIOUS
  <2> QED BY <1>9, <2>2, <2>3, <2>4, <2>5, Zenon DEF LoopOK
<1>13. Together'
  BY <1>1, <1>8, SMTT(30) DEF Core, Together, Met
<1>14. \A u, v \in Threads : Ends(u)' => Ends(v)' /\ curTick'[v] = curTick[u]
  BY <1>1, <1>8, SMTT(30) DEF Core, Ends
<1> QED BY <1>1, <1>7, <1>11, <1>12, <1>13, <1>14 DEF Core

(* A thread services a local event. *)
LEMMA ServiceKeeps ==
    ASSUME Types, NEW T \in Nat, NEW W \in [Globals -> Nat], Core(T, W),
           NEW t \in Threads, ServiceLocal(t)
    PROVE  Types' /\ Core(T, W)'
<1> DEFINE h == Head(eq[t])
           now == h.when
<1>1. pc[t] = "run" /\ todo[t] = <<>> /\ ~IsGlobal(h.id)
  BY Zenon DEF ServiceLocal
<1>2. QueueOK(t, T, W) /\ SyncOK(t, T) /\ LoopOK(t, T, W) /\ PlaceOK(t, T, W)
  BY Zenon DEF Core
<1>3. at[t] = None /\ at[t] # Sync
  BY <1>1, <1>2, Zenon DEF PlaceOK, None, Sync
<1>4. eq[t] \in Seq(Entries) /\ Sorted(eq[t]) /\ OneSync(eq[t]) /\ HasSync(eq[t])
  BY <1>2, <1>3, Zenon DEF Types, QueueOK, SyncOK
<1>5. eq[t] # <<>>
  BY <1>4 DEF HasSync
<1>6. /\ h \in Entries /\ h \in Items(eq[t]) /\ \A x \in Items(eq[t]) : now <= x.when
      /\ Tail(eq[t]) \in Seq(Entries) /\ Sorted(Tail(eq[t])) /\ OneSync(Tail(eq[t]))
      /\ Items(eq[t]) = Items(Tail(eq[t])) \cup {h}
  BY <1>4, <1>5, TailFacts, Zenon
<1> HIDE DEF h
<1>7. h.id \in Locals /\ h.id # Sync /\ h.id # Exit /\ h.id \notin Globals /\ now \in Nat
  BY <1>1, <1>6, EventsAssumption DEF IsGlobal, Entries
<1>8. HasSync(Tail(eq[t]))
  BY <1>4, <1>6, <1>7, SyncItem, Zenon
<1>9. T - simQuantum <= now /\ now <= T /\ curTick[t] <= now
  <2>1. PICK x \in Items(eq[t]) : x.id = Sync
    BY <1>4, SyncItem, Zenon
  <2>2. x.when = T /\ curTick[t] <= now
    BY <1>2, <1>6, <2>1, Zenon DEF QueueOK, Fits
  <2>3. curTick[t] \in Nat /\ T - simQuantum <= curTick[t]
    BY <1>2, Zenon DEF Types, QueueOK
  <2>4. T \in Nat /\ now \in Nat /\ now <= T /\ simQuantum \in Nat
    BY <1>6, <1>7, <2>2, TicksAssumption
  <2> QED BY <2>2, <2>3, <2>4
<1>10. \A w \in Nat : Entry(h.id, w) \in Entries /\ Entry(h.id, w).id = h.id /\ Entry(h.id, w).when = w
  BY <1>7, Zenon DEF Entry, Entries
<1>11. \A w : Fits(Entry(h.id, w), T, W)
  BY <1>7, Zenon DEF Fits, Entry
<1>12. PICK q : /\ eq' = [eq EXCEPT ![t] = q]
                /\ q \in Seq(Entries) /\ Sorted(q) /\ OneSync(q) /\ HasSync(q)
                /\ \A x \in Items(q) : now <= x.when /\ Fits(x, T, W)
  <2>1. \A x \in Items(Tail(eq[t])) : now <= x.when /\ Fits(x, T, W)
    BY <1>2, <1>6, Zenon DEF QueueOK
  <2>2. CASE eq' = [eq EXCEPT ![t] = Tail(eq[t])]
    BY <1>6, <1>8, <2>1, <2>2, Zenon
  <2>3. ASSUME NEW w \in now + 1 .. Limit, eq' = [eq EXCEPT ![t] = Insert(Tail(eq[t]), Entry(h.id, w))]
        PROVE  \E q : /\ eq' = [eq EXCEPT ![t] = q]
                      /\ q \in Seq(Entries) /\ Sorted(q) /\ OneSync(q) /\ HasSync(q)
                      /\ \A x \in Items(q) : now <= x.when /\ Fits(x, T, W)
    <3> DEFINE x == Entry(h.id, w)
               q == Insert(Tail(eq[t]), x)
    <3>1. w \in Nat /\ now <= w
      BY <1>7, TicksAssumption
    <3>2. x \in Entries /\ x.id # Sync /\ now <= x.when /\ Fits(x, T, W)
      BY <1>7, <1>10, <1>11, <3>1, Zenon
    <3> HIDE DEF x
    <3>3. q \in Seq(Entries) /\ Sorted(q) /\ Items(q) = Items(Tail(eq[t])) \cup {x} /\ OneSync(q)
      BY <1>6, <3>2, InsertFacts, Zenon
    <3> HIDE DEF q
    <3>4. HasSync(q)
      BY <1>8, <3>3, SyncItem, Zenon
    <3>5. eq' = [eq EXCEPT ![t] = q]
      BY <2>3, Zenon DEF q, x
    <3> QED BY <2>1, <3>2, <3>3, <3>4, <3>5, Zenon
  <2>4. \/ eq' = [eq EXCEPT ![t] = Tail(eq[t])]
        \/ \E w \in now + 1 .. Limit : eq' = [eq EXCEPT ![t] = Insert(Tail(eq[t]), Entry(h.id, w))]
    BY Zenon DEF ServiceLocal, h
  <2> QED BY <2>2, <2>3, <2>4, Zenon
<1>13. \/ asyncq' = asyncq
       \/ \E v \in Threads, x \in Entries :
             /\ asyncq' = [asyncq EXCEPT ![v] = Append(@, x)]
             /\ x.id # Sync /\ T <= x.when /\ Fits(x, T, W)
  <2>1. ASSUME NEW v \in Threads \ {t}, NEW w \in now + simQuantum .. Limit,
               asyncq' = [asyncq EXCEPT ![v] = Append(@, Entry(h.id, w))]
        PROVE  \E x \in Entries : /\ asyncq' = [asyncq EXCEPT ![v] = Append(@, x)]
                                  /\ x.id # Sync /\ T <= x.when /\ Fits(x, T, W)
    <3>1. w \in Nat /\ T <= w
      BY <1>7, <1>9, TicksAssumption
    <3> QED BY <1>7, <1>10, <1>11, <2>1, <3>1, Zenon
  <2>2. \/ asyncq' = asyncq
        \/ \E v \in Threads \ {t}, w \in now + simQuantum .. Limit :
              asyncq' = [asyncq EXCEPT ![v] = Append(@, Entry(h.id, w))]
    BY Zenon DEF ServiceLocal, h
  <2> QED BY <2>1, <2>2, Zenon
<1>14. /\ curTick' = [curTick EXCEPT ![t] = now] /\ pc' = pc /\ at' = at /\ todo' = todo
       /\ used' = used
  BY Zenon DEF ServiceLocal, globalVars, h
<1>15. \A v \in Threads :
          /\ asyncq'[v] \in Seq(Entries)
          /\ \A x \in Items(asyncq'[v]) :
                x \in Items(asyncq[v]) \/ (T <= x.when /\ Fits(x, T, W))
          /\ HasSync(asyncq'[v]) <=> HasSync(asyncq[v])
          /\ OneSync(asyncq[v]) => OneSync(asyncq'[v])
  <2>1. CASE asyncq' = asyncq
    BY <2>1, Zenon DEF Types
  <2>2. ASSUME NEW w \in Threads, NEW x \in Entries, asyncq' = [asyncq EXCEPT ![w] = Append(@, x)],
               x.id # Sync, T <= x.when, Fits(x, T, W), NEW v \in Threads
        PROVE  /\ asyncq'[v] \in Seq(Entries)
               /\ \A y \in Items(asyncq'[v]) :
                     y \in Items(asyncq[v]) \/ (T <= y.when /\ Fits(y, T, W))
               /\ HasSync(asyncq'[v]) <=> HasSync(asyncq[v])
               /\ OneSync(asyncq[v]) => OneSync(asyncq'[v])
    <3>1. asyncq[v] \in Seq(Entries) /\ asyncq'[v] = IF v = w THEN Append(asyncq[v], x) ELSE asyncq[v]
      BY <2>2, Zenon DEF Types
    <3>2. /\ Append(asyncq[v], x) \in Seq(Entries) /\ Items(Append(asyncq[v], x)) = Items(asyncq[v]) \cup {x}
          /\ OneSync(asyncq[v]) => OneSync(Append(asyncq[v], x))
      BY <2>2, <3>1, AppendFacts, Zenon
    <3>3. HasSync(Append(asyncq[v], x)) <=> HasSync(asyncq[v])
      BY <2>2, <3>2, SyncItem
    <3> QED BY <2>2, <3>1, <3>2, <3>3, Zenon
  <2> QED BY <1>13, <2>1, <2>2, Zenon
<1>16. Types'
  <2>1. asyncq' \in [Threads -> Seq(Entries)]
    BY <1>13, <1>15 DEF Types
  <2> QED BY <1>7, <1>12, <1>14, <2>1, Zenon DEF Types
<1>17. /\ \A x : Fits(x, T, W)' <=> Fits(x, T, W)
       /\ \A u : Awaits(u)' <=> Awaits(u)
       /\ Processing' <=> Processing
       /\ \A u : Merges(u)' <=> Merges(u)
  BY <1>14 DEF Fits, Awaits, Processing, Merges
<1>18. /\ eq'[t] = q /\ curTick'[t] = now
       /\ \A u \in Threads : u # t => eq'[u] = eq[u] /\ curTick'[u] = curTick[u]
  BY <1>12, <1>14 DEF Types
<1>19. \A u \in Threads : QueueOK(u, T, W)'
  <2>1. SUFFICES ASSUME NEW u \in Threads PROVE QueueOK(u, T, W)'
    OBVIOUS
  <2>2. QueueOK(u, T, W) /\ curTick[u] \in Nat /\ curTick'[u] \in Nat
    BY <1>16, Zenon DEF Core, Types
  <2>3. T - simQuantum <= curTick'[u] /\ curTick'[u] <= T
    BY <1>9, <1>18, <2>2, ZenonT(30) DEF QueueOK
  <2>4. Sorted(eq'[u]) /\ \A x \in Items(eq'[u]) : curTick'[u] <= x.when /\ Fits(x, T, W)
    BY <1>12, <1>18, <2>2, ZenonT(30) DEF QueueOK
  <2>5. ASSUME NEW x \in Items(asyncq'[u])
        PROVE  Fits(x, T, W) /\ curTick'[u] <= x.when /\ (~Merges(u) => T <= x.when)
    <3>1. x.when \in Nat
      <4>1. asyncq'[u] \in Seq(Entries)
        BY <1>15, Zenon
      <4> QED BY <4>1, EntryTick, Zenon DEF Items
    <3>2. CASE T <= x.when /\ Fits(x, T, W)
      BY <2>2, <2>3, <3>1, <3>2
    <3>3. CASE x \in Items(asyncq[u])
      <4>1. Fits(x, T, W) /\ curTick[u] <= x.when /\ (~Merges(u) => T <= x.when)
        BY <2>2, <3>3, ZenonT(30) DEF QueueOK
      <4>2. u = t => ~Merges(u)
        BY <1>1, <1>3 DEF Merges
      <4> QED BY <1>18, <2>2, <2>3, <3>1, <4>1, <4>2
    <3> QED BY <1>15, <3>2, <3>3, Zenon
  <2> QED BY <1>17, <2>3, <2>4, <2>5, ZenonT(30) DEF QueueOK
<1>20. \A u \in Threads : SyncOK(u, T)'
  <2>1. SUFFICES ASSUME NEW u \in Threads PROVE SyncOK(u, T)'
    OBVIOUS
  <2>2. SyncOK(u, T)
    BY Zenon DEF Core
  <2>3. CASE u = t
    BY <1>3, <1>12, <1>14, <1>15, <1>18, <2>2, <2>3, ZenonT(30) DEF SyncOK
  <2>4. CASE u # t
    BY <1>14, <1>15, <1>17, <1>18, <2>2, <2>4, ZenonT(30) DEF SyncOK
  <2> QED BY <2>3, <2>4
<1>21. \A u \in Threads : LoopOK(u, T, W)' /\ PlaceOK(u, T, W)'
  <2>1. SUFFICES ASSUME NEW u \in Threads PROVE LoopOK(u, T, W)' /\ PlaceOK(u, T, W)'
    OBVIOUS
  <2>2. LoopOK(u, T, W) /\ PlaceOK(u, T, W) /\ todo[u] \in Seq(Threads \X Entries)
    BY Zenon DEF Core, Types
  <2>3. \A i \in DOMAIN todo[u] : todo[u][i][1] \in Threads
    BY <2>2
  <2>4. LoopOK(u, T, W)'
    BY <1>14, <1>15, <1>17, <2>2, <2>3, ZenonT(30) DEF LoopOK
  <2>5. PlaceOK(u, T, W)'
    BY <1>1, <1>14, <1>18, <2>2, ZenonT(30) DEF PlaceOK
  <2> QED BY <2>4, <2>5
<1>22. Together'
  BY <1>1, <1>14, <1>18, ZenonT(30) DEF Core, Together, Met
<1>23. \A u, v \in Threads : Ends(u)' => Ends(v)' /\ curTick'[v] = curTick'[u]
  BY <1>1, <1>14, <1>18, ZenonT(30) DEF Core, Ends
<1> QED BY <1>16, <1>19, <1>20, <1>21, <1>22, <1>23, Zenon DEF Core

\* The loop of BaseGlobalEvent::schedule over all queues, for entry x
Loop(x) == [i \in 1 .. Cardinality(Threads) |-> <<i - 1, x>>]

(* The loop comes to every thread once. *)
LEMMA LoopFacts ==
    ASSUME NEW x \in Entries
    PROVE  /\ Loop(x) \in Seq(Threads \X Entries) /\ Loop(x) # <<>>
           /\ \A i, j \in DOMAIN Loop(x) : Loop(x)[i][1] = Loop(x)[j][1] => i = j
           /\ \A i \in DOMAIN Loop(x) : Loop(x)[i][2] = x
           /\ \A t \in Threads : \E i \in DOMAIN Loop(x) : Loop(x)[i][1] = t
<1> DEFINE n == Cardinality(Threads)
           l == Loop(x)
<1>1. n \in Nat /\ n > 0 /\ Threads = 0 .. n - 1
  BY ThreadsAssumption, FS_CardinalityType, Zenon
<1>2. DOMAIN l = 1 .. n /\ \A i \in 1 .. n : l[i] = <<i - 1, x>>
  BY Zenon DEF Loop
<1>3. \A i \in 1 .. n : i - 1 \in Threads /\ <<i - 1, x>>[1] = i - 1 /\ <<i - 1, x>>[2] = x
  BY <1>1
<1>4. l \in [1 .. n -> Threads \X Entries]
  BY <1>1 DEF Loop
<1> HIDE DEF n, l
<1>5. l \in Seq(Threads \X Entries) /\ Len(l) = n
  BY <1>1, <1>2, <1>4
<1>6. l # <<>>
  BY <1>1, <1>5
<1>7. \A i, j \in DOMAIN l : l[i][1] = l[j][1] => i = j
  BY <1>1, <1>2, <1>3
<1>8. \A t \in Threads : \E i \in DOMAIN l : l[i][1] = t
  <2>1. SUFFICES ASSUME NEW t \in Threads PROVE \E i \in DOMAIN l : l[i][1] = t
    OBVIOUS
  <2>2. t + 1 \in 1 .. n /\ (t + 1) - 1 = t
    BY <1>1
  <2>3. l[t + 1][1] = t
    BY <1>2, <1>3, <2>2, Zenon
  <2> QED BY <1>2, <2>2, <2>3, Zenon
<1> QED BY <1>2, <1>3, <1>5, <1>6, <1>7, <1>8 DEF l

(* A thread asks for a global event. *)
LEMMA RequestKeeps ==
    ASSUME Types, NEW T \in Nat, NEW W \in [Globals -> Nat], Core(T, W),
           NEW t \in Threads, NEW g \in Globals, RequestGlobal(t, g)
    PROVE  Types' /\ \E V \in [Globals -> Nat] : Core(T, V)'
<1>0. curTick[t] \in Nat /\ curTick[t] + simQuantum \in Nat
  BY TicksAssumption DEF Types
<1>15. PICK w \in Nat : w = curTick[t] + simQuantum
  BY <1>0, Zenon
<1> DEFINE x == Entry(g, w)
           l == Loop(x)
<1>1. /\ pc[t] = "run" /\ g \notin used /\ ~Locked
      /\ todo' = [todo EXCEPT ![t] = l] /\ used' = used \cup {g}
      /\ eq' = eq /\ asyncq' = asyncq /\ curTick' = curTick /\ pc' = pc /\ at' = at
  BY <1>15, Zenon DEF RequestGlobal, Loop
<1>2. QueueOK(t, T, W) /\ PlaceOK(t, T, W) /\ curTick[t] \in Nat
  BY Zenon DEF Core, Types
<1>3. w \in Nat /\ T <= w
  BY <1>2, <1>15, TicksAssumption DEF QueueOK
<1>4. x \in Entries /\ x.id = g /\ x.when = w /\ g # Sync /\ g # Exit
  BY <1>3, EventsAssumption, Zenon DEF Entries, Entry
<1> HIDE DEF x
<1>5. PICK V : V = [W EXCEPT ![g] = w]
  BY Zenon
<1>6. V \in [Globals -> Nat] /\ V[g] = w /\ \A e \in used : V[e] = W[e]
  BY <1>1, <1>3, <1>5, Zenon DEF Types
<1>7. /\ l \in Seq(Threads \X Entries) /\ l # <<>>
      /\ \A i, j \in DOMAIN l : l[i][1] = l[j][1] => i = j
      /\ \A i \in DOMAIN l : l[i][2] = x
  BY <1>4, LoopFacts, Zenon
<1> HIDE DEF l
<1>8. Types'
  BY <1>1, <1>7, Zenon DEF Types
<1>9. /\ \A y : Fits(y, T, W) => Fits(y, T, V)'
      /\ Fits(x, T, V)'
      /\ \A u : Merges(u)' <=> Merges(u)
      /\ Processing' <=> Processing
  <2>1. ASSUME NEW y, Fits(y, T, W) PROVE Fits(y, T, V)'
    BY <1>1, <1>6, <2>1 DEF Fits
  <2>2. Fits(x, T, V)'
    BY <1>1, <1>4, <1>6 DEF Fits
  <2>3. \A u : Merges(u)' <=> Merges(u)
    BY <1>1, Zenon DEF Merges
  <2>4. Processing' <=> Processing
    BY <1>1, Zenon DEF Processing
  <2> QED BY <2>1, <2>2, <2>3, <2>4
<1>10. todo'[t] = l /\ \A u \in Threads : todo[u] = <<>> /\ (u # t => todo'[u] = <<>>)
  BY <1>1, Zenon DEF Types, Locked
<1>11. ASSUME NEW u \in Threads
       PROVE  QueueOK(u, T, V)' /\ SyncOK(u, T)' /\ PlaceOK(u, T, V)' /\ LoopOK(u, T, V)'
  <2>1. QueueOK(u, T, W) /\ SyncOK(u, T) /\ PlaceOK(u, T, W)
    BY Zenon DEF Core
  <2>2. pc[u] \notin Met
    BY <1>1, ZenonT(30) DEF Core, Together, Met
  <2>3. QueueOK(u, T, V)'
    BY <1>1, <1>9, <2>1, ZenonT(30) DEF QueueOK
  <2>4. SyncOK(u, T)'
    BY <1>1, <1>9, <2>1, <2>2, ZenonT(30) DEF SyncOK
  <2>5. PlaceOK(u, T, V)'
    BY <1>1, <1>6, <2>1, ZenonT(30) DEF PlaceOK
  <2>6. LoopOK(u, T, V)'
    <3>1. CASE u = t
      <4>1. todo'[t] = l /\ pc'[t] = "run"
        BY <1>1, <1>10
      <4>2. \A i \in DOMAIN l : Fits(l[i][2], T, V)' /\ T <= l[i][2].when /\ l[i][2].id \in Globals
        BY <1>3, <1>4, <1>7, <1>9
      <4> QED BY <1>7, <3>1, <4>1, <4>2 DEF LoopOK
    <3>2. CASE u # t
      <4>1. todo'[u] = <<>> /\ DOMAIN todo'[u] = {}
        BY <1>10, <3>2
      <4> QED BY <4>1, Zenon DEF LoopOK
    <3> QED BY <3>1, <3>2
  <2> QED BY <2>3, <2>4, <2>5, <2>6
<1>12. Together'
  <2>1. \A u, v \in Threads : todo'[u] # <<>> /\ todo'[v] # <<>> => u = v
    BY <1>10, Zenon
  <2> QED BY <1>1, <2>1, ZenonT(30) DEF Core, Together
<1>13. \A u, v \in Threads : Ends(u)' => Ends(v)' /\ curTick'[v] = curTick'[u]
  BY <1>1, ZenonT(30) DEF Core, Ends
<1>14. Core(T, V)'
  BY <1>11, <1>12, <1>13, ZenonT(30) DEF Core
<1> QED BY <1>6, <1>8, <1>14, Zenon

(* One round of the loop of BaseGlobalEvent::schedule *)
LEMMA ScheduleKeeps ==
    ASSUME Types, NEW T \in Nat, NEW W \in [Globals -> Nat], Core(T, W),
           NEW t \in Threads, ScheduleStep(t)
    PROVE  Types' /\ Core(T, W)'
<1> DEFINE l == todo[t]
<1>1. /\ l # <<>> /\ todo' = [todo EXCEPT ![t] = Tail(l)]
      /\ asyncq' = [asyncq EXCEPT ![Head(l)[1]] = Append(@, Head(l)[2])]
      /\ eq' = eq /\ curTick' = curTick /\ pc' = pc /\ at' = at /\ used' = used
  BY Zenon DEF ScheduleStep
<1>2. /\ l \in Seq(Threads \X Entries) /\ Len(l) \in Nat /\ Len(l) > 0
      /\ DOMAIN l = 1 .. Len(l) /\ 1 \in DOMAIN l /\ Head(l) = l[1]
      /\ Tail(l) \in Seq(Threads \X Entries) /\ DOMAIN Tail(l) = 1 .. Len(l) - 1
      /\ \A i \in 1 .. Len(l) - 1 : i + 1 \in DOMAIN l /\ Tail(l)[i] = l[i + 1]
  <2>1. l \in Seq(Threads \X Entries)
    BY Zenon DEF Types
  <2> HIDE DEF l
  <2> QED BY <1>1, <2>1
<1>3. PICK v \in Threads, x \in Entries : l[1] = <<v, x>>
  <2>1. l[1] \in Threads \X Entries
    BY <1>2
  <2> QED BY <2>1
<1>4. l[1][1] = v /\ l[1][2] = x
  BY <1>3
<1>5. /\ Fits(x, T, W) /\ T <= x.when /\ pc[t] \in {"run", "again"}
      /\ pc[t] = "run" => x.id \in Globals
      /\ pc[t] = "again" => x.id = Sync /\ at[t] = Sync /\ ~Processing /\ ~HasSync(asyncq[v])
      /\ \A i, j \in DOMAIN l : l[i][1] = l[j][1] => i = j
  <2>1. LoopOK(t, T, W)
    BY Zenon DEF Core
  <2> QED BY <1>1, <1>2, <1>4, <2>1, ZenonT(30) DEF LoopOK
<1>6. pc[t] = "run" => x.id # Sync
  BY <1>5, EventsAssumption, ZenonT(30)
<1>7. /\ asyncq[v] \in Seq(Entries) /\ asyncq'[v] = Append(asyncq[v], x)
      /\ \A u \in Threads : u # v => asyncq'[u] = asyncq[u]
  <2>1. asyncq' = [asyncq EXCEPT ![v] = Append(@, x)]
    BY <1>1, <1>2, <1>4, Zenon
  <2> QED BY <2>1, Zenon DEF Types
<1>8. /\ Append(asyncq[v], x) \in Seq(Entries)
      /\ Items(Append(asyncq[v], x)) = Items(asyncq[v]) \cup {x}
      /\ OneSync(Append(asyncq[v], x))
  <2>1. OneSync(asyncq[v]) /\ (x.id = Sync => ~HasSync(asyncq[v]))
    BY <1>5, <1>6, ZenonT(30) DEF Core, SyncOK
  <2> QED BY <1>7, <2>1, AppendFacts, Zenon
<1>9. HasSync(asyncq'[v]) <=> HasSync(asyncq[v]) \/ x.id = Sync
  BY <1>7, <1>8, SyncItem, Zenon
<1>10. Types'
  <2>1. asyncq' \in [Threads -> Seq(Entries)]
    BY <1>1, <1>7, <1>8, Zenon DEF Types
  <2>2. todo' \in [Threads -> Seq(Threads \X Entries)]
    <3> HIDE DEF l
    <3> QED BY <1>1, <1>2, Zenon DEF Types
  <2> QED BY <1>1, <2>1, <2>2, Zenon DEF Types
<1>11. todo'[t] = Tail(l) /\ \A u \in Threads : u # t => todo'[u] = todo[u]
  <2> HIDE DEF l
  <2> QED BY <1>1, Zenon DEF Types
<1>12. \A u \in Threads : Awaits(u) => Awaits(u)' \/ u = v
  <2>1. SUFFICES ASSUME NEW u \in Threads, Awaits(u), u # v PROVE Awaits(u)'
    OBVIOUS
  <2>2. PICK p \in Threads : \E i \in DOMAIN todo[p] : todo[p][i][1] = u
    BY <2>1, Zenon DEF Awaits
  <2>5. PICK i \in DOMAIN todo[p] : todo[p][i][1] = u
    BY <2>2, Zenon
  <2>3. CASE p # t
    BY <1>11, <2>5, <2>3 DEF Awaits
  <2>4. CASE p = t
    <3>1. i \in 1 .. Len(l) /\ i # 1 /\ l[i][1] = u
      BY <1>2, <1>4, <2>1, <2>4, <2>5
    <3>2. i - 1 \in 1 .. Len(l) - 1 /\ Tail(l)[i - 1] = l[i]
      <4>1. i - 1 \in 1 .. Len(l) - 1 /\ (i - 1) + 1 = i
        BY <1>2, <3>1
      <4> QED BY <1>2, <4>1
    <3>3. i - 1 \in DOMAIN todo'[t] /\ todo'[t][i - 1][1] = u
      BY <1>2, <1>11, <3>1, <3>2, Zenon
    <3> QED BY <3>3, Zenon DEF Awaits
  <2> QED BY <2>3, <2>4
<1>13. /\ \A y : Fits(y, T, W)' <=> Fits(y, T, W)
       /\ Processing' <=> Processing
       /\ \A u : Merges(u)' <=> Merges(u)
  BY <1>1, Zenon DEF Fits, Processing, Merges
<1>14. ASSUME NEW u \in Threads
       PROVE  QueueOK(u, T, W)' /\ SyncOK(u, T)' /\ PlaceOK(u, T, W)'
  <2>1. /\ QueueOK(u, T, W) /\ SyncOK(u, T) /\ PlaceOK(u, T, W)
        /\ curTick[u] \in Nat /\ curTick[u] <= T /\ x.when \in Nat
    BY EntryTick, Zenon DEF Core, Types, QueueOK
  <2>2. QueueOK(u, T, W)'
    <3>1. \A y \in Items(asyncq'[u]) :
             Fits(y, T, W) /\ curTick[u] <= y.when /\ (~Merges(u) => T <= y.when)
      <4>1. curTick[u] <= x.when
        BY <1>5, <2>1
      <4>2. CASE u = v
        BY <1>5, <1>7, <1>8, <2>1, <4>1, <4>2, Zenon DEF QueueOK
      <4>3. CASE u # v
        BY <1>7, <2>1, <4>3, Zenon DEF QueueOK
      <4> QED BY <4>2, <4>3, ZenonT(30)
    <3> QED BY <1>1, <1>13, <2>1, <3>1, Zenon DEF QueueOK
  <2>3. SyncOK(u, T)'
    <3>1. OneSync(asyncq'[u])
      BY <1>7, <1>8, <2>1, Zenon DEF SyncOK
    <3>2. HasSync(asyncq[u]) \/ Awaits(u) => HasSync(asyncq'[u]) \/ Awaits(u)'
                                             \/ pc[t] # "again"
      BY <1>5, <1>7, <1>9, <1>12, Zenon
    <3>3. pc[t] = "again" => pc[u] \in Met /\ at[u] = Sync
      BY <1>5, ZenonT(30) DEF Core, Together, Met
    <3>4. pc[t] = "run" => pc[u] \notin Met
      BY Zenon DEF Core, Together, Met
    <3>5. pc[t] = "run" => (HasSync(asyncq'[u]) <=> HasSync(asyncq[u]))
      BY <1>6, <1>7, <1>9, Zenon
    <3>6. CASE pc[t] = "again"
      BY <1>1, <1>5, <1>13, <2>1, <3>1, <3>2, <3>3, <3>6, Zenon DEF SyncOK, Met
    <3>7. CASE pc[t] = "run"
      BY <1>1, <1>13, <2>1, <3>1, <3>4, <3>5, <3>7, Zenon DEF SyncOK
    <3> QED BY <1>5, <3>6, <3>7, Zenon
  <2>4. PlaceOK(u, T, W)'
    BY <1>1, <2>1, Zenon DEF PlaceOK
  <2> QED BY <2>2, <2>3, <2>4, Zenon
<1>15. \A u \in Threads : LoopOK(u, T, W)'
  <2>1. LoopOK(t, T, W) /\ \A u \in Threads \ {t} : todo[u] = <<>>
    BY <1>1, Zenon DEF Core, Together
  <2>2. ASSUME NEW u \in Threads, u # t PROVE LoopOK(u, T, W)'
    <3>1. todo'[u] = <<>> /\ DOMAIN todo'[u] = {}
      BY <1>11, <2>1, <2>2
    <3> QED BY <3>1, ZenonT(30) DEF LoopOK
  <2>3. LoopOK(t, T, W)'
    <3>0. PICK m \in Seq(Threads \X Entries) : m = Tail(l)
      BY <1>2, Zenon
    <3>1. /\ \A i \in DOMAIN m : i + 1 \in DOMAIN l /\ m[i] = l[i + 1]
          /\ \A i \in DOMAIN m : i \in Nat /\ i + 1 # 1
      BY <1>2, <3>0
    <3>2. \A i \in DOMAIN l : i # 1 => l[i][1] # v
      BY <1>2, <1>4, <1>5, Zenon
    <3>3. \A i \in DOMAIN m : m[i][1] \in Threads /\ m[i][1] # v
      BY <1>2, <3>0, <3>1, <3>2
    <3>4. \A i, j \in DOMAIN m : m[i][1] = m[j][1] => i = j
      <4>1. SUFFICES ASSUME NEW i \in DOMAIN m, NEW j \in DOMAIN m, m[i][1] = m[j][1] PROVE i = j
        OBVIOUS
      <4>2. i + 1 = j + 1
        BY <1>5, <3>1, <4>1
      <4> QED BY <3>1, <4>2
    <3>5. \A i \in DOMAIN l :
             /\ Fits(l[i][2], T, W) /\ T <= l[i][2].when
             /\ pc[t] = "run" => l[i][2].id \in Globals
             /\ pc[t] = "again" => /\ l[i][2].id = Sync /\ at[t] = Sync /\ ~Processing
                                   /\ ~HasSync(asyncq[l[i][1]])
      BY <2>1, Zenon DEF LoopOK
    <3> HIDE DEF l
    <3>6. \A i \in DOMAIN m :
             /\ Fits(m[i][2], T, W) /\ T <= m[i][2].when
             /\ pc[t] = "run" => m[i][2].id \in Globals
             /\ pc[t] = "again" => /\ m[i][2].id = Sync /\ at[t] = Sync /\ ~Processing
                                   /\ ~HasSync(asyncq'[m[i][1]])
      BY <1>7, <3>1, <3>3, <3>5
    <3>7. todo'[t] = m
      BY <1>11, <3>0 DEF l
    <3>8. \A i \in DOMAIN m : Fits(m[i][2], T, W)'
      BY <1>13, <3>6, ZenonT(30)
    <3>9. pc'[t] = pc[t] /\ at'[t] = at[t] /\ (Processing' <=> Processing)
      BY <1>1, <1>13, Zenon
    <3> QED BY <1>5, <3>4, <3>6, <3>7, <3>8, <3>9, Zenon DEF LoopOK
  <2> QED BY <2>2, <2>3, Zenon
<1>16. Together'
  <2>1. \A u, w \in Threads : todo'[u] # <<>> /\ todo'[w] # <<>> => u = w
    <3>1. \A u \in Threads : todo'[u] # <<>> => todo[u] # <<>>
      BY <1>1, <1>11
    <3> QED BY <3>1, ZenonT(30) DEF Core, Together
  <2> QED BY <1>1, <2>1, ZenonT(30) DEF Core, Together
<1>17. \A u, w \in Threads : Ends(u)' => Ends(w)' /\ curTick'[w] = curTick'[u]
  BY <1>1, Zenon DEF Core, Ends
<1> QED BY <1>10, <1>14, <1>15, <1>16, <1>17, ZenonT(30) DEF Core

-----------------------------------------------------------------------------
(* The steps at the barriers *)

(* Where a global event lets the threads meet *)
LEMMA ArriveKeeps ==
    ASSUME Types, NEW T \in Nat, NEW W \in [Globals -> Nat], Core(T, W),
           NEW t \in Threads, Arrive(t)
    PROVE  Types' /\ Core(T, W)'
<1>0. PICK h : h = Head(eq[t])
  OBVIOUS
<1>1. /\ pc[t] = "run" /\ todo[t] = <<>> /\ IsGlobal(h.id)
      /\ curTick' = [curTick EXCEPT ![t] = h.when] /\ eq' = [eq EXCEPT ![t] = Tail(@)]
      /\ at' = [at EXCEPT ![t] = h.id] /\ Wait(t, "meet", h.id, "process", "again")
      /\ asyncq' = asyncq /\ todo' = todo /\ used' = used
  BY <1>0, Zenon DEF Arrive
<1>2. QueueOK(t, T, W) /\ SyncOK(t, T) /\ LoopOK(t, T, W) /\ PlaceOK(t, T, W)
  BY Zenon DEF Core
<1>3. at[t] = None /\ at[t] # Sync
  BY <1>1, <1>2, Zenon DEF PlaceOK, None, Sync
<1>4. /\ eq[t] \in Seq(Entries) /\ Sorted(eq[t]) /\ OneSync(eq[t]) /\ HasSync(eq[t])
      /\ ~HasSync(asyncq[t])
  BY <1>2, <1>3, Zenon DEF Types, QueueOK, SyncOK
<1>5. eq[t] # <<>>
  BY <1>4 DEF HasSync
<1>6. /\ h \in Entries /\ h \in Items(eq[t]) /\ \A x \in Items(eq[t]) : h.when <= x.when
      /\ Tail(eq[t]) \in Seq(Entries) /\ Sorted(Tail(eq[t])) /\ OneSync(Tail(eq[t]))
      /\ Items(eq[t]) = Items(Tail(eq[t])) \cup {h}
      /\ h.id = Sync => ~HasSync(Tail(eq[t]))
  BY <1>0, <1>4, <1>5, TailFacts, Zenon
<1>7. h.id \in Globals \cup {Sync, Exit} /\ h.when \in Nat /\ Fits(h, T, W) /\ h.id # None
  BY <1>1, <1>2, <1>6, EntryTick, EventsAssumption, ZenonT(30) DEF IsGlobal, QueueOK, Sync, Exit, None
<1>8. T - simQuantum <= h.when /\ h.when <= T /\ curTick[t] <= h.when
  <2>1. PICK x \in Items(eq[t]) : x.id = Sync
    BY <1>4, SyncItem, Zenon
  <2>2. x.when = T /\ curTick[t] <= h.when
    BY <1>2, <1>6, <2>1, Zenon DEF QueueOK, Fits
  <2>3. curTick[t] \in Nat /\ T - simQuantum <= curTick[t]
    BY <1>2, Zenon DEF Types, QueueOK
  <2> QED BY <1>6, <1>7, <2>2, <2>3, TicksAssumption
<1>9. h.id # Sync => HasSync(Tail(eq[t]))
  BY <1>4, <1>6, SyncItem, Zenon
<1>10. /\ eq'[t] = Tail(eq[t]) /\ curTick'[t] = h.when /\ at'[t] = h.id
       /\ \A u \in Threads : u # t => eq'[u] = eq[u] /\ curTick'[u] = curTick[u] /\ at'[u] = at[u]
  BY <1>1, Zenon DEF Types
<1>11. \A u \in Threads : pc[u] \notin Met /\ ~Ends(u)
  BY <1>1, Zenon DEF Core, Together, Met, Ends
<1>12. ~Processing
  BY <1>11, Zenon DEF Processing, Met
<1> DEFINE All == \A u \in Threads : u # t => pc[u] = "meet" /\ at[u] = h.id
<1>13. CASE All
  <2>1. pc' = [u \in Threads |-> IF u = t THEN "process" ELSE "again"]
    BY <1>1, <1>13, Zenon DEF Wait
  <2>2. /\ pc'[t] = "process" /\ \A u \in Threads : u # t => pc'[u] = "again"
        /\ \A u \in Threads : pc'[u] \in Met
    BY <2>1, Zenon DEF Met
  <2>3. Types'
    BY <1>1, <1>6, <1>7, <2>1, Zenon DEF Types, PCs
  <2>4. \A u \in Threads : curTick'[u] = h.when /\ at'[u] = h.id
    <3>1. SUFFICES ASSUME NEW u \in Threads, u # t PROVE curTick[u] = h.when
      BY <1>10, <1>13, Zenon
    <3>2. PlaceOK(u, T, W) /\ SyncOK(u, T) /\ pc[u] = "meet" /\ at[u] = h.id
      BY <1>13, <3>1, Zenon DEF Core
    <3>3. CASE h.id = Sync
      BY <1>7, <3>2, <3>3 DEF SyncOK, Fits
    <3>4. CASE h.id = Exit
      BY <1>7, <3>2, <3>4 DEF PlaceOK, Fits
    <3>5. CASE h.id \in Globals
      BY <1>7, <3>2, <3>5 DEF PlaceOK, Fits
    <3> QED BY <1>7, <3>3, <3>4, <3>5
  <2>5. /\ \A y : Fits(y, T, W)' <=> Fits(y, T, W)
        /\ Processing'
    BY <1>1, <2>2, Zenon DEF Fits, Processing
  <2>6. \A u \in Threads : ~Merges(u)
    BY <1>1, <1>3, <1>13, <2>2 DEF Merges, Met
  <2>7. ASSUME NEW u \in Threads
        PROVE  QueueOK(u, T, W)' /\ SyncOK(u, T)' /\ LoopOK(u, T, W)' /\ PlaceOK(u, T, W)'
    <3>1. QueueOK(u, T, W) /\ SyncOK(u, T) /\ LoopOK(u, T, W) /\ PlaceOK(u, T, W)
      BY Zenon DEF Core
    <3>2. QueueOK(u, T, W)'
      <4>1. Sorted(eq'[u]) /\ \A x \in Items(eq'[u]) : h.when <= x.when /\ Fits(x, T, W)
        <5>1. CASE u = t
          BY <1>6, <1>10, <3>1, <5>1, Zenon DEF QueueOK
        <5>2. CASE u # t
          BY <1>10, <2>4, <3>1, <5>2, ZenonT(30) DEF QueueOK
        <5> QED BY <5>1, <5>2
      <4>2. \A x \in Items(asyncq[u]) : Fits(x, T, W) /\ h.when <= x.when /\ T <= x.when
        <5>1. \A x \in Items(asyncq[u]) : x.when \in Nat
          <6>1. asyncq[u] \in Seq(Entries)
            BY Zenon DEF Types
          <6> QED BY <6>1, EntryTick, Zenon DEF Items
        <5> QED BY <1>7, <1>8, <2>6, <3>1, <5>1 DEF QueueOK
      <4> QED BY <1>1, <1>8, <2>4, <2>5, <4>1, <4>2, Zenon DEF QueueOK
    <3>3. SyncOK(u, T)'
      <4>1. OneSync(eq'[u]) /\ OneSync(asyncq'[u])
        BY <1>1, <1>6, <1>10, <3>1, Zenon DEF SyncOK
      <4>2. h.id # Sync => HasSync(eq'[u]) /\ ~HasSync(asyncq'[u])
        BY <1>1, <1>4, <1>9, <1>10, <1>13, <3>1, Zenon DEF SyncOK
      <4>3. h.id = Sync => ~HasSync(eq'[u]) /\ ~HasSync(asyncq'[u]) /\ curTick'[u] = T
        BY <1>1, <1>4, <1>6, <1>7, <1>10, <1>13, <2>4, <3>1, Zenon DEF SyncOK, Fits
      <4> QED BY <2>2, <2>4, <2>5, <4>1, <4>2, <4>3, ZenonT(30) DEF SyncOK, Met
    <3>4. LoopOK(u, T, W)'
      <4>1. todo'[u] = <<>> /\ DOMAIN todo'[u] = {}
        BY <1>1, <1>13, <3>1, EmptyFacts, Zenon DEF LoopOK
      <4> QED BY <4>1, Zenon DEF LoopOK
    <3>5. PlaceOK(u, T, W)'
      BY <1>1, <1>7, <2>2, <2>4 DEF PlaceOK, Fits, Met
    <3> QED BY <3>2, <3>3, <3>4, <3>5
  <2>8. Together'
    <3>1. \A u, v \in Threads : pc'[u] = "process" /\ pc'[v] = "process" => u = v
      BY <2>2, Zenon
    <3>2. \A u, v \in Threads : todo'[u] # <<>> /\ todo'[v] # <<>> => u = v
      BY <1>1, Zenon DEF Core, Together
    <3> QED BY <2>2, <2>4, <3>1, <3>2 DEF Together
  <2>9. \A u \in Threads : ~Ends(u)'
    BY <2>2, Zenon DEF Ends, Met
  <2> QED BY <2>3, <2>7, <2>8, <2>9, Zenon DEF Core
<1>14. CASE ~All
  <2>1. pc' = [pc EXCEPT ![t] = "meet"]
    <3>1. {u \in Threads : pc[u] = "meet" /\ at[u] = h.id} \cup {t} # Threads
      BY <1>14, Zenon
    <3> QED BY <1>1, <3>1, Zenon DEF Wait
  <2>2. pc'[t] = "meet" /\ \A u \in Threads : u # t => pc'[u] = pc[u]
    BY <2>1, Zenon DEF Types
  <2>3. Types'
    BY <1>1, <1>6, <1>7, <2>1, Zenon DEF Types, PCs
  <2>4. /\ \A y : Fits(y, T, W)' <=> Fits(y, T, W)
        /\ \A u : Awaits(u)' <=> Awaits(u)
        /\ Processing' <=> Processing
    <3>1. Processing' <=> Processing
      BY <1>1, <2>2, Zenon DEF Processing
    <3> QED BY <1>1, <3>1, Zenon DEF Fits, Awaits
  <2>5. QueueOK(t, T, W)' /\ SyncOK(t, T)' /\ PlaceOK(t, T, W)'
    <3>1. QueueOK(t, T, W)'
      <4>1. \A x \in Items(asyncq[t]) : Fits(x, T, W) /\ h.when <= x.when /\ T <= x.when
        <5>1. \A x \in Items(asyncq[t]) : x.when \in Nat
          <6>1. asyncq[t] \in Seq(Entries)
            BY Zenon DEF Types
          <6> QED BY <6>1, EntryTick, Zenon DEF Items
        <5>2. ~Merges(t)
          BY <1>1, <1>3, Zenon DEF Merges
        <5>3. \A x \in Items(asyncq[t]) : Fits(x, T, W) /\ T <= x.when
          BY <1>2, <5>2, Zenon DEF QueueOK
        <5>4. \A x \in Items(asyncq[t]) : h.when <= x.when
          BY <1>7, <1>8, <5>1, <5>3
        <5> QED BY <5>3, <5>4, Zenon
      <4> QED BY <1>1, <1>2, <1>6, <1>8, <1>10, <2>4, <4>1, Zenon DEF QueueOK
    <3>2. SyncOK(t, T)'
      BY <1>1, <1>2, <1>4, <1>6, <1>7, <1>9, <1>10, <2>2, Zenon DEF SyncOK, Fits, Met
    <3>3. PlaceOK(t, T, W)'
      BY <1>1, <1>7, <1>10, <2>2 DEF PlaceOK, Fits
    <3> QED BY <3>1, <3>2, <3>3
  <2>6. \A u \in Threads : QueueOK(u, T, W)' /\ SyncOK(u, T)' /\ PlaceOK(u, T, W)'
    <3>1. ASSUME NEW u \in Threads, u # t
          PROVE  QueueOK(u, T, W)' /\ SyncOK(u, T)' /\ PlaceOK(u, T, W)'
      BY <1>1, <1>10, <2>2, <2>4, <3>1, Untouched, Zenon DEF Core
    <3> QED BY <2>5, <3>1, Zenon
  <2>7. \A u \in Threads : LoopOK(u, T, W)'
    <3>1. SUFFICES ASSUME NEW u \in Threads PROVE LoopOK(u, T, W)'
      OBVIOUS
    <3>2. LoopOK(u, T, W)
      BY Zenon DEF Core
    <3>3. CASE u = t
      <4>1. todo'[u] = <<>> /\ DOMAIN todo'[u] = {}
        BY <1>1, <3>3
      <4> QED BY <4>1, Zenon DEF LoopOK
    <3>4. CASE u # t
      BY <1>1, <1>10, <2>2, <2>4, <3>2, <3>4, Zenon DEF LoopOK
    <3> QED BY <3>3, <3>4, Zenon
  <2>8. Together'
    <3>1. \A u \in Threads : pc'[u] \notin Met
      BY <1>11, <2>2, Zenon DEF Met
    <3> QED BY <1>1, <3>1, Zenon DEF Core, Together, Met
  <2>9. \A u \in Threads : ~Ends(u)'
    <3>1. SUFFICES ASSUME NEW u \in Threads PROVE ~Ends(u)'
      OBVIOUS
    <3>2. CASE u = t
      BY <2>2, <3>2, Zenon DEF Ends
    <3>3. CASE u # t
      BY <1>10, <1>11, <2>2, <3>3 DEF Ends, IsExitEvent
    <3> QED BY <3>2, <3>3, Zenon
  <2> QED BY <2>3, <2>6, <2>7, <2>8, <2>9 DEF Core
<1> QED BY <1>13, <1>14, Zenon

(* The last thread to meet processes the global event; a sync sets up the  *)
(* next quantum.                                                           *)
LEMMA ProcessKeeps ==
    ASSUME Types, NEW T \in Nat, NEW W \in [Globals -> Nat], Core(T, W),
           NEW t \in Threads, Process(t)
    PROVE  Types' /\ \E S \in Nat : Core(S, W)'
<1>1. /\ pc[t] = "process" /\ ~Locked /\ pc' = [pc EXCEPT ![t] = "again"]
      /\ eq' = eq /\ asyncq' = asyncq /\ curTick' = curTick /\ at' = at /\ used' = used
  BY Zenon DEF Process
<1>2. /\ pc'[t] = "again" /\ \A u \in Threads : u # t => pc'[u] = pc[u]
      /\ \A u \in Threads : pc[u] \in Met /\ pc'[u] \in Met /\ at[u] = at[t] /\ curTick[u] = curTick[t]
      /\ \A u \in Threads : todo[u] = <<>>
      /\ Processing /\ ~Processing'
  <2>1. pc'[t] = "again" /\ \A u \in Threads : u # t => pc'[u] = pc[u]
    BY <1>1, Zenon DEF Types
  <2>2. \A u \in Threads : pc[u] \in Met /\ at[u] = at[t] /\ curTick[u] = curTick[t]
    BY <1>1, Zenon DEF Core, Together, Met
  <2>3. ~Processing'
    BY <1>1, <2>1 DEF Processing, Core, Together
  <2> QED BY <1>1, <2>1, <2>2, <2>3, Zenon DEF Locked, Processing, Met
<1>3. \A u \in Threads : ~Ends(u)'
  BY <1>2, Zenon DEF Ends, Met
<1>4. CASE at[t] # Sync
  <2>1. todo' = [todo EXCEPT ![t] = <<>>]
    BY <1>4, Zenon DEF Process
  <2>2. \A u \in Threads : todo'[u] = <<>> /\ DOMAIN todo'[u] = {}
    BY <1>2, <2>1 DEF Types
  <2>3. Types'
    BY <1>1, <2>1 DEF Types, PCs
  <2>4. \A x : Fits(x, T, W)' <=> Fits(x, T, W)
    BY <1>1, Zenon DEF Fits
  <2>5. ASSUME NEW u \in Threads
        PROVE  QueueOK(u, T, W)' /\ SyncOK(u, T)' /\ LoopOK(u, T, W)' /\ PlaceOK(u, T, W)'
    <3>1. QueueOK(u, T, W) /\ SyncOK(u, T) /\ PlaceOK(u, T, W)
      BY Zenon DEF Core
    <3>2. Merges(u)' <=> Merges(u)
      BY <1>1, <1>2, <1>4, Zenon DEF Merges, Met
    <3>3. QueueOK(u, T, W)'
      BY <1>1, <2>4, <3>1, <3>2, Zenon DEF QueueOK
    <3>4. SyncOK(u, T)'
      BY <1>1, <1>2, <1>4, <3>1, Zenon DEF SyncOK
    <3>5. LoopOK(u, T, W)'
      BY <2>2, Zenon DEF LoopOK
    <3>6. PlaceOK(u, T, W)'
      BY <1>1, <1>2, <3>1, Zenon DEF PlaceOK, Met
    <3> QED BY <3>3, <3>4, <3>5, <3>6, Zenon
  <2>6. Together'
    BY <1>1, <1>2, <2>2, Zenon DEF Together, Processing
  <2>7. Core(T, W)'
    BY <1>3, <2>5, <2>6, Zenon DEF Core
  <2> QED BY <2>3, <2>7, Zenon
<1>5. CASE at[t] = Sync
  <2>1. \A u \in Threads : at[u] = Sync /\ curTick[u] = T /\ ~HasSync(asyncq[u]) /\ ~HasSync(eq[u])
    <3>1. SUFFICES ASSUME NEW u \in Threads
                   PROVE  at[u] = Sync /\ curTick[u] = T /\ ~HasSync(asyncq[u]) /\ ~HasSync(eq[u])
      OBVIOUS
    <3>2. SyncOK(u, T)
      BY Zenon DEF Core
    <3> QED BY <1>2, <1>5, <3>2, Zenon DEF SyncOK, Met
  <2>2. PICK S \in Nat : S = T + simQuantum
    BY TicksAssumption
  <2>3. S - simQuantum = T /\ T <= S
    BY <2>2, TicksAssumption
  <2>4. PICK x \in Entries : x = Entry(Sync, S)
    BY Zenon DEF Entries, Entry
  <2>5. x.id = Sync /\ x.when = S
    BY <2>4, Zenon DEF Entry
  <2>6. PICK l : l = Loop(x)
    OBVIOUS
  <2>7. todo' = [todo EXCEPT ![t] = l]
    BY <1>5, <2>1, <2>2, <2>4, <2>6, Zenon DEF Process, Loop
  <2>8. /\ l \in Seq(Threads \X Entries) /\ l # <<>>
        /\ \A i, j \in DOMAIN l : l[i][1] = l[j][1] => i = j
        /\ \A i \in DOMAIN l : l[i][2] = x
        /\ \A u \in Threads : \E i \in DOMAIN l : l[i][1] = u
    <3>1. /\ Loop(x) \in Seq(Threads \X Entries) /\ Loop(x) # <<>>
          /\ \A i, j \in DOMAIN Loop(x) : Loop(x)[i][1] = Loop(x)[j][1] => i = j
          /\ \A i \in DOMAIN Loop(x) : Loop(x)[i][2] = x
          /\ \A u \in Threads : \E i \in DOMAIN Loop(x) : Loop(x)[i][1] = u
      BY LoopFacts, Zenon
    <3> QED BY <2>6, <3>1, Zenon
  <2>9. Types'
    BY <1>1, <2>7, <2>8, Zenon DEF Types, PCs
  <2>10. todo'[t] = l /\ \A u \in Threads : u # t => todo'[u] = <<>> /\ DOMAIN todo'[u] = {}
    BY <1>2, <2>7 DEF Types
  <2>11. \A u \in Threads : Awaits(u)'
    BY <2>8, <2>10 DEF Awaits
  <2>12. /\ \A y : Fits(y, T, W) /\ y.id # Sync => Fits(y, S, W)'
         /\ Fits(x, S, W)'
    <3>1. ASSUME NEW y, Fits(y, T, W), y.id # Sync PROVE Fits(y, S, W)'
      BY <1>1, <3>1, Zenon DEF Fits
    <3>2. Fits(x, S, W)'
      BY <2>5, EventsAssumption, Zenon DEF Fits, Sync, Exit
    <3> QED BY <3>1, <3>2, Zenon
  <2>13. ASSUME NEW u \in Threads
         PROVE  QueueOK(u, S, W)' /\ SyncOK(u, S)' /\ LoopOK(u, S, W)' /\ PlaceOK(u, S, W)'
    <3>1. QueueOK(u, T, W) /\ SyncOK(u, T) /\ PlaceOK(u, T, W)
      BY Zenon DEF Core
    <3>2. QueueOK(u, S, W)'
      <4>1. \A y \in Items(eq[u]) : curTick[u] <= y.when /\ Fits(y, T, W) /\ y.id # Sync
        BY <2>1, <3>1, SyncItem, Zenon DEF QueueOK
      <4>2. \A y \in Items(asyncq[u]) : curTick[u] <= y.when /\ Fits(y, T, W) /\ y.id # Sync
        BY <2>1, <3>1, SyncItem DEF QueueOK
      <4>3. Merges(u)'
        BY <1>1, <1>2, <2>1 DEF Merges
      <4> QED BY <1>1, <2>1, <2>3, <2>12, <3>1, <4>1, <4>2, <4>3, Zenon DEF QueueOK
    <3>3. SyncOK(u, S)'
      BY <1>1, <1>2, <2>1, <2>3, <2>11, <3>1, ZenonT(30) DEF SyncOK, Met
    <3>4. LoopOK(u, S, W)'
      <4>1. CASE u # t
        BY <2>10, <4>1, Zenon DEF LoopOK
      <4>2. CASE u = t
        <5>1. \A i \in DOMAIN l : l[i][1] \in Threads
          BY <2>8
        <5>2. \A i \in DOMAIN l : ~HasSync(asyncq'[l[i][1]])
          BY <1>1, <2>1, <5>1, Zenon
        <5>3. \A i \in DOMAIN l : Fits(l[i][2], S, W)' /\ S <= l[i][2].when /\ l[i][2].id = Sync
          BY <2>5, <2>8, <2>12
        <5>4. pc'[u] = "again" /\ at'[u] = Sync /\ todo'[u] = l
          BY <1>1, <1>2, <2>1, <2>10, <4>2, Zenon
        <5> QED BY <1>2, <2>8, <5>2, <5>3, <5>4, Zenon DEF LoopOK
      <4> QED BY <4>1, <4>2, Zenon
    <3>5. PlaceOK(u, S, W)'
      BY <1>1, <1>2, <3>1, ZenonT(30) DEF PlaceOK, Met
    <3> QED BY <3>2, <3>3, <3>4, <3>5, Zenon
  <2>14. Together'
    BY <1>1, <1>2, <2>10, ZenonT(30) DEF Together, Processing
  <2>15. Core(S, W)'
    BY <1>3, <2>13, <2>14, Zenon DEF Core
  <2> QED BY <2>9, <2>15, Zenon
<1> QED BY <1>4, <1>5, Zenon

(* The threads meet again after the global event. *)
LEMMA MeetKeeps ==
    ASSUME Types, NEW T \in Nat, NEW W \in [Globals -> Nat], Core(T, W),
           NEW t \in Threads, MeetAgain(t)
    PROVE  Types' /\ Core(T, W)'
<1>1. /\ pc[t] = "again" /\ todo[t] = <<>> /\ Wait(t, "meet2", at[t], "leave", "leave")
      /\ eq' = eq /\ asyncq' = asyncq /\ curTick' = curTick /\ at' = at /\ todo' = todo
      /\ used' = used
  BY Zenon DEF MeetAgain
<1>2. \A u \in Threads : pc[u] \in Met /\ at[u] = at[t] /\ curTick[u] = curTick[t]
  BY <1>1, Zenon DEF Core, Together, Met
<1>3. \A u \in Threads : QueueOK(u, T, W) /\ SyncOK(u, T) /\ LoopOK(u, T, W) /\ PlaceOK(u, T, W)
  BY Zenon DEF Core
<1>4. /\ \A x : Fits(x, T, W)' <=> Fits(x, T, W)
      /\ \A u : Awaits(u)' <=> Awaits(u)
  BY <1>1, Zenon DEF Fits, Awaits
<1>5. CASE \A u \in Threads : u # t => pc[u] = "meet2"
  <2>1. pc' = [u \in Threads |-> "leave"]
    <3>1. {u \in Threads : pc[u] = "meet2" /\ at[u] = at[t]} \cup {t} = Threads
      BY <1>2, <1>5, Zenon
    <3> QED BY <1>1, <3>1, Zenon DEF Wait
  <2>2. \A u \in Threads : pc'[u] = "leave" /\ pc[u] # "process"
    BY <1>1, <1>5, <2>1, Zenon
  <2>3. ~Processing /\ ~Processing'
    BY <2>2, Zenon DEF Processing
  <2>4. \A u \in Threads : todo[u] = <<>>
    BY <1>1, <1>3, <1>5, ZenonT(30) DEF LoopOK
  <2>5. \A u \in Threads : ~Awaits(u)
    BY <2>4 DEF Awaits
  <2>6. Types'
    BY <1>1, <2>1 DEF Types, PCs
  <2>7. ASSUME NEW u \in Threads
        PROVE  QueueOK(u, T, W)' /\ SyncOK(u, T)' /\ LoopOK(u, T, W)' /\ PlaceOK(u, T, W)'
    <3>1. Merges(u)' <=> Merges(u)
      BY <1>1, <1>2, <2>2 DEF Merges, Met
    <3>2. QueueOK(u, T, W)'
      BY <1>1, <1>3, <1>4, <3>1, Zenon DEF QueueOK
    <3>3. SyncOK(u, T)'
      BY <1>1, <1>2, <1>3, <2>2, <2>3, <2>5, Zenon DEF SyncOK, Met
    <3>4. LoopOK(u, T, W)'
      <4>1. todo'[u] = <<>> /\ DOMAIN todo'[u] = {}
        BY <1>1, <2>4
      <4> QED BY <4>1, Zenon DEF LoopOK
    <3>5. PlaceOK(u, T, W)'
      BY <1>1, <1>2, <1>3, <2>2 DEF PlaceOK, Met
    <3> QED BY <3>2, <3>3, <3>4, <3>5, Zenon
  <2>8. Together'
    BY <1>1, <2>2, <2>4, Zenon DEF Together, Met
  <2>9. \A u, v \in Threads : Ends(u)' => Ends(v)' /\ curTick'[v] = curTick'[u]
    <3>1. \A u \in Threads : /\ curTick'[u] = curTick[t] /\ pc'[u] = "leave"
                             /\ IsExitEvent(at[u])' <=> IsExitEvent(at[t])
      BY <1>1, <1>2, <2>2 DEF IsExitEvent
    <3>2. \A u \in Threads : Ends(u)' <=> IsExitEvent(at[t])
      BY <3>1 DEF Ends
    <3> QED BY <3>1, <3>2, Zenon
  <2> QED BY <2>6, <2>7, <2>8, <2>9, Zenon DEF Core
<1>6. CASE ~ \A u \in Threads : u # t => pc[u] = "meet2"
  <2>1. pc' = [pc EXCEPT ![t] = "meet2"]
    <3>1. {u \in Threads : pc[u] = "meet2" /\ at[u] = at[t]} \cup {t} # Threads
      BY <1>6, Zenon
    <3> QED BY <1>1, <3>1, Zenon DEF Wait
  <2>2. /\ pc'[t] = "meet2" /\ \A u \in Threads : u # t => pc'[u] = pc[u]
        /\ \A u \in Threads : pc'[u] \in Met
    BY <1>2, <2>1, Zenon DEF Types, Met
  <2>3. Processing' <=> Processing
    BY <1>1, <2>2, Zenon DEF Processing
  <2>4. Types'
    BY <1>1, <2>1 DEF Types, PCs
  <2>5. ASSUME NEW u \in Threads
        PROVE  QueueOK(u, T, W)' /\ SyncOK(u, T)' /\ LoopOK(u, T, W)' /\ PlaceOK(u, T, W)'
    <3>1. Merges(u)' <=> Merges(u)
      BY <1>1, <1>2, <2>2 DEF Merges, Met
    <3>2. QueueOK(u, T, W)'
      BY <1>1, <1>3, <1>4, <3>1, Zenon DEF QueueOK
    <3>3. SyncOK(u, T)'
      BY <1>1, <1>2, <1>3, <1>4, <2>2, <2>3, Zenon DEF SyncOK, Met
    <3>4. LoopOK(u, T, W)'
      <4>1. CASE u = t
        <5>1. todo'[u] = <<>> /\ DOMAIN todo'[u] = {}
          BY <1>1, <4>1
        <5> QED BY <5>1, Zenon DEF LoopOK
      <4>2. CASE u # t
        BY <1>1, <1>3, <1>4, <2>2, <2>3, <4>2, Zenon DEF LoopOK
      <4> QED BY <4>1, <4>2, Zenon
    <3>5. PlaceOK(u, T, W)'
      BY <1>1, <1>2, <1>3, <2>2, Zenon DEF PlaceOK, Met
    <3> QED BY <3>2, <3>3, <3>4, <3>5, Zenon
  <2>6. Together'
    <3>1. \A u, v \in Threads : pc'[u] = "process" /\ pc'[v] = "process" => u = v
      BY <2>2, SMTT(30) DEF Core, Together
    <3> QED BY <1>1, <1>2, <2>2, <3>1, Zenon DEF Core, Together
  <2>7. \A u \in Threads : ~Ends(u)'
    BY <2>2, Zenon DEF Ends, Met
  <2> QED BY <2>4, <2>5, <2>6, <2>7, Zenon DEF Core
<1> QED BY <1>5, <1>6, Zenon

(* A thread leaves the second barrier. *)
LEMMA LeaveKeeps ==
    ASSUME Types, NEW T \in Nat, NEW W \in [Globals -> Nat], Core(T, W),
           NEW t \in Threads, Leave(t)
    PROVE  Types' /\ Core(T, W)'
<1> DEFINE r == Merge(eq[t], asyncq[t])
<1>1. /\ pc[t] = "leave" /\ pc' = [pc EXCEPT ![t] = IF IsExitEvent(at[t]) THEN "out" ELSE "run"]
      /\ at' = [at EXCEPT ![t] = None] /\ curTick' = curTick /\ todo' = todo /\ used' = used
      /\ at[t] = Sync => eq' = [eq EXCEPT ![t] = r] /\ asyncq' = [asyncq EXCEPT ![t] = <<>>]
      /\ at[t] # Sync => eq' = eq /\ asyncq' = asyncq
  BY Zenon DEF Leave
<1>2. QueueOK(t, T, W) /\ SyncOK(t, T) /\ LoopOK(t, T, W) /\ PlaceOK(t, T, W)
  BY Zenon DEF Core
<1>3. ~IsExitEvent(Sync)
  BY EventsAssumption, Zenon DEF IsExitEvent, Sync, Exit
<1>4. /\ pc'[t] \in {"run", "out"} /\ (pc'[t] = "out" <=> IsExitEvent(at[t])) /\ at'[t] = None
      /\ at[t] = Sync => pc'[t] = "run"
      /\ \A u \in Threads : u # t => /\ pc'[u] = pc[u] /\ at'[u] = at[u]
                                     /\ eq'[u] = eq[u] /\ asyncq'[u] = asyncq[u]
  BY <1>1, <1>3 DEF Types
<1>5. eq[t] \in Seq(Entries) /\ asyncq[t] \in Seq(Entries) /\ Sorted(eq[t])
  BY <1>2, Zenon DEF Types, QueueOK
<1>6. at[t] = Sync => /\ r \in Seq(Entries) /\ Sorted(r) /\ OneSync(r) /\ HasSync(r)
                      /\ Items(r) = Items(eq[t]) \cup Items(asyncq[t])
  <2>1. SUFFICES ASSUME at[t] = Sync
                 PROVE  /\ r \in Seq(Entries) /\ Sorted(r) /\ OneSync(r) /\ HasSync(r)
                        /\ Items(r) = Items(eq[t]) \cup Items(asyncq[t])
    BY Zenon
  <2>2. OneSync(eq[t]) /\ OneSync(asyncq[t]) /\ ~HasSync(eq[t]) /\ HasSync(asyncq[t])
    BY <1>1, <1>2, <2>1 DEF SyncOK
  <2>3. r \in Seq(Entries) /\ Sorted(r) /\ OneSync(r) /\ Items(r) = Items(eq[t]) \cup Items(asyncq[t])
    BY <1>5, <2>2, MergeFacts, Zenon
  <2> HIDE DEF r
  <2>4. HasSync(r)
    BY <2>2, <2>3, SyncItem
  <2> QED BY <2>3, <2>4, Zenon
<1> HIDE DEF r
<1>7. Types'
  <2>1. eq' \in [Threads -> Seq(Entries)] /\ asyncq' \in [Threads -> Seq(Entries)]
    BY <1>1, <1>6, EmptyFacts, Zenon DEF Types
  <2> QED BY <1>1, <2>1, Zenon DEF Types, PCs
<1>8. /\ \A x : Fits(x, T, W)' <=> Fits(x, T, W)
      /\ \A u : Awaits(u)' <=> Awaits(u)
      /\ Processing' <=> Processing
  <2>1. Processing' <=> Processing
    BY <1>1, <1>4 DEF Processing
  <2> QED BY <1>1, <2>1, Zenon DEF Fits, Awaits
<1>9. QueueOK(t, T, W)'
  <2>1. CASE at[t] = Sync
    <3>1. eq'[t] = r /\ asyncq'[t] = <<>>
      BY <1>1, <2>1, Zenon DEF Types
    <3> QED BY <1>1, <1>2, <1>6, <1>8, <2>1, <3>1, EmptyFacts, Zenon DEF QueueOK
  <2>2. CASE at[t] # Sync
    <3>1. ~Merges(t)
      BY <1>1, <2>2 DEF Merges
    <3> QED BY <1>1, <1>2, <1>8, <2>2, <3>1 DEF QueueOK
  <2> QED BY <2>1, <2>2, Zenon
<1>10. SyncOK(t, T)'
  <2>1. None # Sync
    BY Zenon DEF None, Sync
  <2>2. OneSync(eq'[t]) /\ OneSync(asyncq'[t]) /\ HasSync(eq'[t]) /\ ~HasSync(asyncq'[t])
    <3>1. CASE at[t] = Sync
      <4>1. eq'[t] = r /\ asyncq'[t] = <<>>
        BY <1>1, <3>1, Zenon DEF Types
      <4> QED BY <1>6, <3>1, <4>1, EmptyFacts
    <3>2. CASE at[t] # Sync
      BY <1>1, <1>2, <3>2 DEF SyncOK
    <3> QED BY <3>1, <3>2
  <2> QED BY <1>4, <2>1, <2>2 DEF SyncOK
<1>11. PlaceOK(t, T, W)'
  BY <1>4, EventsAssumption, Zenon DEF PlaceOK
<1>12. \A u \in Threads : QueueOK(u, T, W)' /\ SyncOK(u, T)' /\ PlaceOK(u, T, W)'
  <2>1. ASSUME NEW u \in Threads, u # t
        PROVE  QueueOK(u, T, W)' /\ SyncOK(u, T)' /\ PlaceOK(u, T, W)'
    BY <1>1, <1>4, <1>8, <2>1, Untouched DEF Core
  <2> QED BY <1>9, <1>10, <1>11, <2>1
<1>13. \A u \in Threads : LoopOK(u, T, W)'
  <2>1. SUFFICES ASSUME NEW u \in Threads PROVE LoopOK(u, T, W)'
    OBVIOUS
  <2>2. LoopOK(u, T, W) /\ todo'[u] = todo[u]
    BY <1>1, Zenon DEF Core
  <2>3. CASE todo[u] = <<>>
    <3>1. DOMAIN todo'[u] = {} /\ todo'[u] = <<>>
      BY <2>2, <2>3, EmptyFacts, Zenon
    <3> QED BY <3>1, Zenon DEF LoopOK
  <2>4. CASE todo[u] # <<>>
    <3>1. u # t
      BY <1>1, <2>2, <2>4, Zenon DEF LoopOK
    <3>2. pc'[u] = pc[u] /\ at'[u] = at[u] /\ pc[u] \in {"run", "again"}
      BY <1>4, <2>2, <2>4, <3>1, Zenon DEF LoopOK
    <3>3. pc[u] # "again"
      BY <1>1, Zenon DEF Core, Together, Met
    <3> QED BY <1>8, <2>2, <3>2, <3>3, Zenon DEF LoopOK
  <2> QED BY <2>3, <2>4, Zenon
<1>14. Together'
  <2>1. \A u \in Threads : pc[u] \notin Met
    BY <1>1, Zenon DEF Core, Together, Met
  <2>2. \A u \in Threads : pc'[u] \notin Met
    BY <1>4, <2>1, Zenon DEF Met
  <2> QED BY <1>1, <2>2, Zenon DEF Core, Together, Met
<1>15. \A u, v \in Threads : Ends(u)' => Ends(v)' /\ curTick'[v] = curTick'[u]
  <2>1. \A u \in Threads : Ends(u)' <=> Ends(u)
    <3>1. SUFFICES ASSUME NEW u \in Threads PROVE Ends(u)' <=> Ends(u)
      OBVIOUS
    <3>2. CASE u = t
      BY <1>1, <1>4, <3>2 DEF Ends
    <3>3. CASE u # t
      BY <1>4, <3>3 DEF Ends, IsExitEvent
    <3> QED BY <3>2, <3>3, Zenon
  <2> QED BY <1>1, <2>1 DEF Core
<1> QED BY <1>7, <1>12, <1>13, <1>14, <1>15, Zenon DEF Core

(* There is a main thread. *)
LEMMA FirstThread == 0 \in Threads
<1>1. Cardinality(Threads) \in Nat
  BY ThreadsAssumption, FS_CardinalityType, Zenon
<1> QED BY <1>1, ThreadsAssumption

(* simulate() is called again. *)
LEMMA ResimulateKeeps ==
    ASSUME Types, NEW T \in Nat, NEW W \in [Globals -> Nat], Core(T, W), Resimulate
    PROVE  Types' /\ \E S \in Nat : Core(S, W)'
<1>0. PICK c \in Nat : c = curTick[0]
  BY FirstThread, Zenon DEF Types
<1>1. /\ \A u \in Threads : pc[u] = "out"
      /\ eq' = [u \in Threads |-> Prepared(Without(Without(eq[u], Sync), Exit), c)]
      /\ pc' = [u \in Threads |-> "enter"]
      /\ asyncq' = asyncq /\ curTick' = curTick /\ at' = at /\ todo' = todo /\ used' = used
  BY <1>0, Zenon DEF Resimulate
<1>2. \A u \in Threads : curTick[u] = c
  <2>1. 0 \in Threads
    BY FirstThread, Zenon
  <2> QED BY <1>0, <1>1, <2>1, Zenon DEF Core, Ends
<1>3. c <= Limit
  <2>1. 0 \in Threads
    BY FirstThread, Zenon
  <2>2. PICK i \in DOMAIN eq[0] : eq[0][i].id = Exit
    BY Zenon DEF Resimulate
  <2>3. eq[0][i] \in Items(eq[0])
    BY Zenon DEF Items
  <2>4. QueueOK(0, T, W)
    BY <2>1, Zenon DEF Core
  <2> QED BY <1>0, <2>2, <2>3, <2>4, Zenon DEF QueueOK, Fits
<1>4. \A u \in Threads : /\ QueueOK(u, T, W) /\ SyncOK(u, T) /\ LoopOK(u, T, W) /\ PlaceOK(u, T, W)
                         /\ at[u] = None /\ todo[u] = <<>>
  BY <1>1, Zenon DEF Core, PlaceOK, LoopOK
<1>5. PICK S \in Nat : S = c + simQuantum
  BY TicksAssumption
<1>6. S - simQuantum = c /\ c <= S
  BY <1>5, TicksAssumption
<1>7. /\ Entry(Exit, Limit).id = Exit /\ Entry(Exit, Limit).when = Limit
      /\ Entry(Sync, S).id = Sync /\ Entry(Sync, S).when = S /\ Sync # Exit /\ None # Sync
      /\ Sync \notin Globals /\ Exit \notin Globals /\ None \notin Globals
  BY EventsAssumption, Zenon DEF Entry, Sync, Exit, None
<1>8. \A y : Fits(y, T, W) /\ y.id # Sync => Fits(y, S, W)'
  <2>1. ASSUME NEW y, Fits(y, T, W), y.id # Sync PROVE Fits(y, S, W)'
    BY <1>1, <2>1, Zenon DEF Fits
  <2> QED BY <2>1, Zenon
<1>9. Fits(Entry(Exit, Limit), S, W)' /\ Fits(Entry(Sync, S), S, W)'
  BY <1>7, Zenon DEF Fits
<1>10. ASSUME NEW u \in Threads
       PROVE  /\ eq'[u] \in Seq(Entries) /\ Sorted(eq'[u]) /\ OneSync(eq'[u]) /\ HasSync(eq'[u])
              /\ \A x \in Items(eq'[u]) : c <= x.when /\ Fits(x, S, W)'
  <2> DEFINE a == Without(eq[u], Sync)
             b == Without(a, Exit)
             r == Prepared(b, c)
  <2>1. eq[u] \in Seq(Entries) /\ Sorted(eq[u]) /\ OneSync(eq[u])
    BY <1>4, Zenon DEF Types, QueueOK, SyncOK
  <2>2. /\ a \in Seq(Entries) /\ Sorted(a) /\ OneSync(a) /\ Items(a) \subseteq Items(eq[u])
        /\ ~HasSync(a)
    BY <2>1, WithoutFacts, Zenon
  <2> HIDE DEF a
  <2>3. b \in Seq(Entries) /\ Sorted(b) /\ OneSync(b) /\ Items(b) \subseteq Items(a)
    BY <2>2, WithoutFacts, Zenon
  <2> HIDE DEF b
  <2>4. ~HasSync(b)
    BY <2>2, <2>3, SyncItem
  <2>5. /\ r \in Seq(Entries) /\ Sorted(r) /\ OneSync(r) /\ HasSync(r)
        /\ Items(r) = Items(b) \cup {Entry(Exit, Limit), Entry(Sync, c + simQuantum)}
    BY <2>3, <2>4, PreparedFacts, Zenon
  <2> HIDE DEF r
  <2>6. eq'[u] = r
    BY <1>1, Zenon DEF r, b, a
  <2>7. ASSUME NEW x \in Items(r) PROVE c <= x.when /\ Fits(x, S, W)'
    <3>1. CASE x \in Items(b)
      <4>1. x \in Items(eq[u]) /\ x.id # Sync
        BY <2>2, <2>3, <2>4, <3>1, SyncItem
      <4>2. c <= x.when /\ Fits(x, T, W)
        BY <1>2, <1>4, <4>1, Zenon DEF QueueOK
      <4> QED BY <1>8, <4>1, <4>2
    <3>2. CASE x = Entry(Exit, Limit)
      BY <1>3, <1>7, <1>9, <3>2
    <3>3. CASE x = Entry(Sync, S)
      BY <1>6, <1>7, <1>9, <3>3
    <3> QED BY <1>5, <2>5, <3>1, <3>2, <3>3
  <2> QED BY <2>5, <2>6, <2>7
<1>11. Types'
  <2>1. eq' \in [Threads -> Seq(Entries)]
    BY <1>1, <1>10, Zenon
  <2> QED BY <1>1, <2>1 DEF Types, PCs
<1>12. ASSUME NEW u \in Threads
       PROVE  QueueOK(u, S, W)' /\ SyncOK(u, S)' /\ LoopOK(u, S, W)' /\ PlaceOK(u, S, W)'
  <2>1. pc'[u] = "enter" /\ Merges(u)'
    BY <1>1, Zenon DEF Merges
  <2>2. QueueOK(u, S, W)'
    <3>1. \A x \in Items(asyncq[u]) : c <= x.when /\ Fits(x, T, W) /\ x.id # Sync
      BY <1>2, <1>4, <1>7, SyncItem, Zenon DEF QueueOK, SyncOK
    <3>2. curTick'[u] = c /\ S - simQuantum <= c /\ c <= S /\ asyncq'[u] = asyncq[u]
      BY <1>1, <1>2, <1>6
    <3>3. \A x \in Items(asyncq'[u]) : Fits(x, S, W)' /\ curTick'[u] <= x.when
      BY <1>8, <3>1, <3>2
    <3>4. Sorted(eq'[u]) /\ \A x \in Items(eq'[u]) : curTick'[u] <= x.when /\ Fits(x, S, W)'
      BY <1>10, <3>2
    <3> QED BY <2>1, <3>2, <3>3, <3>4, Zenon DEF QueueOK
  <2>3. SyncOK(u, S)'
    BY <1>1, <1>4, <1>7, <1>10, Zenon DEF SyncOK
  <2>4. LoopOK(u, S, W)'
    <3>1. todo'[u] = <<>> /\ DOMAIN todo'[u] = {}
      BY <1>1, <1>4
    <3> QED BY <3>1, Zenon DEF LoopOK
  <2>5. PlaceOK(u, S, W)'
    BY <1>1, <1>4, <1>7, <2>1, Zenon DEF PlaceOK
  <2> QED BY <2>2, <2>3, <2>4, <2>5
<1>13. Together'
  BY <1>1, <1>4, Zenon DEF Together, Met
<1>14. \A u \in Threads : ~Ends(u)'
  BY <1>1, Zenon DEF Ends
<1>15. Core(S, W)'
  BY <1>12, <1>13, <1>14, Zenon DEF Core
<1> QED BY <1>11, <1>15, Zenon

-----------------------------------------------------------------------------
(* The first states *)

(* The local events of a thread, in any order: a sequence of their entries *)
LEMMA QueuedFacts ==
    ASSUME NEW w \in [Locals -> Nat], NEW mine \in SUBSET Locals
    PROVE  LET es == {Entry(l, w[l]) : l \in mine}
           IN  Listed(es) \in Seq(es)
<1> DEFINE es == {Entry(l, w[l]) : l \in mine}
           f == [l \in mine |-> Entry(l, w[l])]
<1>1. IsFiniteSet(mine)
  BY EventsAssumption, FS_Subset, Zenon
<1>2. f \in Surjection(mine, es)
  BY Zenon DEF Surjection
<1> HIDE DEF f
<1>3. IsFiniteSet(es)
  BY <1>1, <1>2, FS_Surjection
<1> HIDE DEF es
<1>4. Cardinality(es) \in Nat /\ ExistsBijection(1 .. Cardinality(es), es)
  BY <1>3, FS_CardinalityType, Zenon
<1>5. \E g \in [1 .. Cardinality(es) -> es] : es = {g[i] : i \in DOMAIN g}
  <2>1. PICK g : g \in Bijection(1 .. Cardinality(es), es)
    BY <1>4, Zenon DEF ExistsBijection
  <2>2. /\ g \in [1 .. Cardinality(es) -> es]
        /\ \A x \in es : \E i \in 1 .. Cardinality(es) : g[i] = x
    BY <2>1, Zenon DEF Bijection, Injection, Surjection
  <2>3. es = {g[i] : i \in DOMAIN g}
    BY <2>2, Zenon
  <2> QED BY <2>2, <2>3, Zenon
<1>6. Listed(es) \in [1 .. Cardinality(es) -> es]
  BY <1>5, Zenon DEF Listed
<1>7. Listed(es) \in Seq(es)
  BY <1>4, <1>6
<1> QED BY <1>7, Zenon DEF es

(* The queue of one thread in a first state *)
LEMMA FirstQueue ==
    ASSUME NEW w \in [Locals -> 0 .. simQuantum], NEW mine \in SUBSET Locals
    PROVE  LET r == Prepared(Merge(<<>>, Listed({Entry(l, w[l]) : l \in mine})), 0)
           IN  /\ r \in Seq(Entries) /\ Sorted(r) /\ OneSync(r) /\ HasSync(r)
               /\ \A x \in Items(r) : \/ x.id \in Locals /\ 0 <= x.when
                                      \/ x = Entry(Exit, Limit)
                                      \/ x = Entry(Sync, simQuantum)
<1> DEFINE es == {Entry(l, w[l]) : l \in mine}
           new == Listed(es)
           s == Merge(<<>>, new)
           r == Prepared(s, 0)
<1>1. w \in [Locals -> Nat]
  BY TicksAssumption
<1>2. new \in Seq(es)
  BY <1>1, QueuedFacts, Zenon
<1>3. es \subseteq Entries /\ \A x \in es : x.id \in Locals /\ x.id # Sync /\ 0 <= x.when
  BY <1>1, EventsAssumption DEF Entries, Entry
<1> HIDE DEF es
<1> HIDE DEF new
<1>4. new \in Seq(Entries) /\ Items(new) \subseteq es
  BY <1>2, <1>3 DEF Items
<1>5. ~HasSync(new) /\ OneSync(new)
  <2>1. \A i \in DOMAIN new : new[i].id # Sync
    BY <1>2, <1>3
  <2> QED BY <2>1, Zenon DEF HasSync, OneSync
<1>6. /\ s \in Seq(Entries) /\ Sorted(s) /\ OneSync(s)
      /\ Items(s) = Items(<<>>) \cup Items(new)
  <2>1. /\ <<>> \in Seq(Entries) /\ Sorted(<<>>) /\ OneSync(<<>>)
        /\ ~(HasSync(<<>>) /\ HasSync(new))
    BY <1>5, EmptyFacts
  <2> QED BY <1>4, <1>5, <2>1, MergeFacts, Zenon
<1> HIDE DEF s
<1>7. Items(s) \subseteq es
  BY <1>4, <1>6, EmptyFacts
<1>8. ~HasSync(s)
  BY <1>3, <1>7, SyncItem
<1>9. /\ r \in Seq(Entries) /\ Sorted(r) /\ OneSync(r) /\ HasSync(r)
      /\ Items(r) = Items(s) \cup {Entry(Exit, Limit), Entry(Sync, 0 + simQuantum)}
  <2>1. 0 \in Nat
    OBVIOUS
  <2> QED BY <1>6, <1>8, <2>1, PreparedFacts, Zenon
<1> HIDE DEF r
<1>10. 0 + simQuantum = simQuantum
  BY TicksAssumption
<1>11. \A x \in Items(r) : \/ x.id \in Locals /\ 0 <= x.when
                           \/ x = Entry(Exit, Limit)
                           \/ x = Entry(Sync, simQuantum)
  BY <1>3, <1>7, <1>9, <1>10
<1>12. r = Prepared(Merge(<<>>, Listed({Entry(l, w[l]) : l \in mine})), 0)
  BY Zenon DEF r, s, new, es
<1> QED BY <1>9, <1>11, <1>12, Zenon

(* The first states satisfy the invariant: the quantum ends at simQuantum. *)
LEMMA InitIInv == Init => IInv
<1>0. SUFFICES ASSUME Init PROVE IInv
  OBVIOUS
<1>1. PICK on \in [Locals -> Threads], w \in [Locals -> 0 .. simQuantum] :
        eq = [t \in Threads |->
                LET mine == {l \in Locals : on[l] = t}
                    queued == Listed({Entry(l, w[l]) : l \in mine})
                IN  Prepared(Merge(<<>>, queued), 0)]
  BY <1>0, Zenon DEF Init
<1>2. PICK W \in [Globals -> Nat] : W = [g \in Globals |-> 0]
  BY Zenon
<1>3. \A t \in Threads : /\ asyncq[t] = <<>> /\ curTick[t] = 0 /\ pc[t] = "enter"
                         /\ at[t] = None /\ todo[t] = <<>>
  BY <1>0, Zenon DEF Init
<1>4. /\ Entry(Exit, Limit).id = Exit /\ Entry(Exit, Limit).when = Limit
      /\ Entry(Sync, simQuantum).id = Sync /\ Entry(Sync, simQuantum).when = simQuantum
      /\ Sync # Exit /\ None # Sync /\ Sync \notin Locals /\ Exit \notin Locals
      /\ Locals \cap Globals = {} /\ {Sync, Exit, None} \cap Globals = {}
  BY EventsAssumption, Zenon DEF Entry, Sync, Exit, None
<1>5. ASSUME NEW t \in Threads
      PROVE  /\ eq[t] \in Seq(Entries) /\ Sorted(eq[t]) /\ OneSync(eq[t]) /\ HasSync(eq[t])
             /\ \A x \in Items(eq[t]) : \/ x.id \in Locals /\ 0 <= x.when
                                        \/ x = Entry(Exit, Limit)
                                        \/ x = Entry(Sync, simQuantum)
  <2> DEFINE mine == {l \in Locals : on[l] = t}
             r == Prepared(Merge(<<>>, Listed({Entry(l, w[l]) : l \in mine})), 0)
  <2>1. mine \in SUBSET Locals
    OBVIOUS
  <2>2. eq[t] = r
    BY <1>1, Zenon
  <2> HIDE DEF mine
  <2>3. /\ r \in Seq(Entries) /\ Sorted(r) /\ OneSync(r) /\ HasSync(r)
        /\ \A x \in Items(r) : \/ x.id \in Locals /\ 0 <= x.when
                               \/ x = Entry(Exit, Limit)
                               \/ x = Entry(Sync, simQuantum)
    BY <2>1, FirstQueue, Zenon
  <2> HIDE DEF r
  <2> QED BY <2>2, <2>3, Zenon
<1>6. ASSUME NEW t \in Threads, NEW x \in Items(eq[t])
      PROVE  0 <= x.when /\ Fits(x, simQuantum, W)
  <2>1. CASE x.id \in Locals /\ 0 <= x.when
    BY <1>4, <2>1, Zenon DEF Fits
  <2>2. CASE x = Entry(Exit, Limit)
    BY <1>4, <2>2, TicksAssumption DEF Fits
  <2>3. CASE x = Entry(Sync, simQuantum)
    BY <1>4, <2>3, TicksAssumption DEF Fits
  <2> QED BY <1>5, <2>1, <2>2, <2>3
<1>7. Types
  <2>1. eq \in [Threads -> Seq(Entries)]
    BY <1>1, <1>5, Zenon
  <2>2. /\ asyncq \in [Threads -> Seq(Entries)] /\ curTick \in [Threads -> Nat]
        /\ pc \in [Threads -> PCs] /\ at \in [Threads -> Globals \cup {Sync, Exit, None}]
        /\ todo \in [Threads -> Seq(Threads \X Entries)] /\ used \subseteq Globals
    BY <1>0, EmptyFacts DEF Init, PCs
  <2> QED BY <2>1, <2>2 DEF Types
<1>8. ASSUME NEW t \in Threads
      PROVE  /\ QueueOK(t, simQuantum, W) /\ SyncOK(t, simQuantum)
             /\ LoopOK(t, simQuantum, W) /\ PlaceOK(t, simQuantum, W)
  <2>1. QueueOK(t, simQuantum, W)
    <3>1. /\ simQuantum - simQuantum <= curTick[t] /\ curTick[t] <= simQuantum
          /\ curTick[t] = 0
      BY <1>3, TicksAssumption
    <3>2. Items(asyncq[t]) = {}
      BY <1>3, EmptyFacts, Zenon
    <3>3. \A x \in Items(eq[t]) : curTick[t] <= x.when /\ Fits(x, simQuantum, W)
      BY <1>6, <3>1, Zenon
    <3> QED BY <1>5, <3>1, <3>2, <3>3, ZenonT(30) DEF QueueOK
  <2>2. SyncOK(t, simQuantum)
    BY <1>3, <1>4, <1>5, EmptyFacts, Zenon DEF SyncOK
  <2>3. LoopOK(t, simQuantum, W)
    <3>1. todo[t] = <<>> /\ DOMAIN todo[t] = {}
      BY <1>3
    <3> QED BY <3>1, Zenon DEF LoopOK
  <2>4. PlaceOK(t, simQuantum, W)
    BY <1>3, <1>4, Zenon DEF PlaceOK
  <2> QED BY <2>1, <2>2, <2>3, <2>4, Zenon
<1>9. Together /\ \A t \in Threads : ~Ends(t)
  BY <1>3, Zenon DEF Together, Ends, Met
<1>10. Core(simQuantum, W)
  BY <1>8, <1>9, Zenon DEF Core
<1> QED BY <1>7, <1>10, TicksAssumption DEF IInv

(* Every step keeps the invariant. *)
LEMMA NextIInv == IInv /\ [Next]_vars => IInv'
<1>0. SUFFICES ASSUME IInv, [Next]_vars PROVE IInv'
  OBVIOUS
<1>1. Types
  BY <1>0, Zenon DEF IInv
<1>2. PICK T \in Nat, W \in [Globals -> Nat] : Core(T, W)
  BY <1>0, Zenon DEF IInv
<1>3. ASSUME NEW S \in Nat, NEW V \in [Globals -> Nat], Types' /\ Core(S, V)'
      PROVE  IInv'
  BY <1>3, Zenon DEF IInv
<1>4. CASE UNCHANGED vars
  <2>1. Types' /\ \A x : Fits(x, T, W)' <=> Fits(x, T, W)
    BY <1>1, <1>4, Zenon DEF vars, Types, Fits
  <2>2. Core(T, W)'
    <3>1. /\ eq' = eq /\ asyncq' = asyncq /\ curTick' = curTick /\ pc' = pc
          /\ at' = at /\ todo' = todo /\ used' = used
      BY <1>4, Zenon DEF vars
    <3>2. (Processing' <=> Processing) /\ \A u : Awaits(u)' <=> Awaits(u)
      BY <3>1, Zenon DEF Processing, Awaits
    <3>3. \A u \in Threads : QueueOK(u, T, W)' /\ SyncOK(u, T)' /\ PlaceOK(u, T, W)'
      BY <1>2, <2>1, <3>1, <3>2, Untouched, Zenon DEF Core
    <3>4. \A u \in Threads : LoopOK(u, T, W)'
      <4>1. SUFFICES ASSUME NEW u \in Threads PROVE LoopOK(u, T, W)'
        OBVIOUS
      <4>2. LoopOK(u, T, W)
        BY <1>2, Zenon DEF Core
      <4> QED BY <2>1, <3>1, <3>2, <4>2, ZenonT(30) DEF LoopOK
    <3>5. Together'
      BY <1>2, <3>1, Zenon DEF Core, Together
    <3>6. \A u, v \in Threads : Ends(u)' => Ends(v)' /\ curTick'[v] = curTick'[u]
      BY <1>2, <3>1, Zenon DEF Core, Ends
    <3> QED BY <3>3, <3>4, <3>5, <3>6 DEF Core
  <2> QED BY <1>3, <2>1, <2>2
<1>5. ASSUME NEW t \in Threads, Step(t) PROVE IInv'
  <2>1. CASE Enter(t)
    BY <1>1, <1>2, <1>3, <2>1, EnterKeeps
  <2>2. CASE ServiceLocal(t)
    BY <1>1, <1>2, <1>3, <2>2, ServiceKeeps
  <2>3. CASE ScheduleStep(t)
    BY <1>1, <1>2, <1>3, <2>3, ScheduleKeeps, Zenon
  <2>4. CASE Arrive(t)
    BY <1>1, <1>2, <1>3, <2>4, ArriveKeeps, Zenon
  <2>5. CASE Process(t)
    BY <1>1, <1>2, <1>3, <2>5, ProcessKeeps
  <2>6. CASE MeetAgain(t)
    BY <1>1, <1>2, <1>3, <2>6, MeetKeeps, Zenon
  <2>7. CASE Leave(t)
    BY <1>1, <1>2, <1>3, <2>7, LeaveKeeps, Zenon
  <2> QED BY <1>5, <2>1, <2>2, <2>3, <2>4, <2>5, <2>6, <2>7 DEF Step
<1>6. ASSUME NEW t \in Threads, NEW g \in Globals, RequestGlobal(t, g) PROVE IInv'
  BY <1>1, <1>2, <1>3, <1>6, RequestKeeps
<1>7. CASE Resimulate
  BY <1>1, <1>2, <1>3, <1>7, ResimulateKeeps
<1> QED BY <1>0, <1>4, <1>5, <1>6, <1>7 DEF Next

-----------------------------------------------------------------------------
(* The invariant holds for every number of threads and events, every       *)
(* quantum and every priority of the global events.  The event a thread    *)
(* finds on its async queue is for the quantum that starts when the queue  *)
(* is merged, or a later one.                                              *)
THEOREM ParallelInvariant == Spec => []IInv
BY InitIInv, NextIInv, PTL DEF Spec

(* doSimLoop's assertion that no event is in the past of its queue holds,  *)
(* although events reach the queue of another thread only when both meet.  *)
THEOREM NeverInThePast == Spec => []NotInThePast
<1>1. IInv => NotInThePast
  <2>1. SUFFICES ASSUME IInv, NEW t \in Threads, eq[t] # <<>>
                 PROVE  curTick[t] <= Head(eq[t]).when
    BY Zenon DEF NotInThePast
  <2>2. PICK T \in Nat, W \in [Globals -> Nat] : Core(T, W)
    BY <2>1, Zenon DEF IInv
  <2>3. eq[t] \in Seq(Entries) /\ QueueOK(t, T, W)
    BY <2>1, <2>2 DEF IInv, Types, Core
  <2>4. 1 \in DOMAIN eq[t] /\ Head(eq[t]) = eq[t][1]
    BY <2>1, <2>3
  <2>5. Head(eq[t]) \in Items(eq[t])
    BY <2>4, Zenon DEF Items
  <2> QED BY <2>3, <2>5, Zenon DEF QueueOK
<1> QED BY <1>1, ParallelInvariant, PTL

(* While one thread processes a global event, or schedules the next sync   *)
(* from it, all others wait for it at the same event and the same tick.    *)
THEOREM GlobalAlone == Spec => []GlobalIsAlone
<1>1. IInv => GlobalIsAlone
  <2>1. SUFFICES ASSUME IInv PROVE GlobalIsAlone
    OBVIOUS
  <2>2. Together
    BY <2>1, Zenon DEF IInv, Core
  <2> QED BY <2>2, Zenon DEF Together, GlobalIsAlone, Met
<1> QED BY <1>1, ParallelInvariant, PTL
=============================================================================
