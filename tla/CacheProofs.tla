----------------------------- MODULE CacheProofs ------------------------------
(***************************************************************************)
(* CacheChain for every size of its caches, buffers and rows: what a       *)
(* request, a row operation, an eviction and a fill do to one cache, and   *)
(* the steps in which a cache meets the core or the memory.                *)
(*                                                                         *)
(* A cache is looked at through the sets below: the blocks it holds, the   *)
(* blocks it misses, fetches and is about to evict, and the row operations *)
(* it queues.  The invariant relates the sets of neighbours and the        *)
(* responses between them.                                                 *)
(***************************************************************************)
EXTENDS CacheChain, TLAPS

(* Lists of anything *)
Items(q) == {q[i] : i \in DOMAIN q}
IsList(q) == q \in Seq(Items(q))
ReplaceAt(q, i, x) == [q EXCEPT ![i] = x]
Others(q, i) == {q[j] : j \in 1..Len(q) \ {i}}

-----------------------------------------------------------------------------
(* One cache *)

IsMiss(m)  == m.queue = "miss"
IsEvict(m) == m.queue = "write" /\ ~Uncacheable(m)
IsOp(m)    == m.queue = "write" /\ Uncacheable(m)
OpId(m)    == m.targets[1].id

(* What the requests that reach cache l ask for *)
Cmds(l) == IF l = 1 THEN {"ReadReq", "WriteReq"} ELSE {"ReadExReq", "ReadSharedReq"}
TargetOK(l, p, b) == p.cmd \in Cmds(l) /\ p.blk = b

(* An entry of cache l.  Below the first cache a miss has one target: the  *)
(* cache above sends one request for a block and waits.                    *)
IsEntry(m) ==
    m = [f \in {"queue", "blk", "targets", "deferred", "inService", "pendingDirty"} |-> m[f]]
EntryOK(l, m) ==
    /\ IsEntry(m)
    /\ m.queue \in {"miss", "write"}
    /\ IsList(m.targets) /\ IsList(m.deferred) /\ Len(m.targets) >= 1
    /\ IsMiss(m) => /\ m.blk \in Blocks
                    /\ \A k \in 1..Len(m.targets) : TargetOK(l, m.targets[k], m.blk)
                    /\ \A k \in 1..Len(m.deferred) : TargetOK(l, m.deferred[k], m.blk)
                    /\ l # 1 => Len(m.targets) = 1 /\ Len(m.deferred) = 0
    /\ IsEvict(m) => /\ m.targets[1].cmd \in {"Writeback", "CleanEvict"}
                     /\ m.blk \in Blocks /\ m.targets[1].blk = m.blk /\ ~m.inService
    /\ IsOp(m) => /\ OpId(m) \in Nat
                  /\ m.targets[1].rows \in Rows \X Rows

(* What may stand in a queue when m was allocated before n *)
Before(m, n) ==
    /\ m.blk = n.blk => /\ ~(IsMiss(m) /\ IsMiss(n))
                        /\ ~(IsEvict(m) /\ IsEvict(n))
                        /\ ~(IsMiss(m) /\ IsEvict(n))
                        /\ IsEvict(m) /\ IsMiss(n) => ~n.inService
    /\ IsOp(m) /\ IsOp(n) => OpId(m) # OpId(n)

IsBlk(B) == B = [b \in Blocks |-> B[b]]

CacheOK(l, c) ==
    /\ c = [blk |-> c.blk, q |-> c.q]
    /\ IsBlk(c.blk)
    /\ IsList(c.q)
    /\ \A m \in Items(c.q) :
          EntryOK(l, m) /\ (IsMiss(m) \/ IsEvict(m) => ~c.blk[m.blk].valid)
    /\ \A i, j \in 1..Len(c.q) : i < j => Before(c.q[i], c.q[j])

Valid(c)   == {b \in Blocks : c.blk[b].valid}
Dirty(c)   == {b \in Blocks : c.blk[b].valid /\ c.blk[b].dirty}
Missed(c)  == {b \in Blocks : \E m \in Items(c.q) : IsMiss(m) /\ m.blk = b}
Fetched(c) == {b \in Blocks : \E m \in Items(c.q) : IsMiss(m) /\ m.inService /\ m.blk = b}
Leaving(c) == {b \in Blocks : \E m \in Items(c.q) : IsEvict(m) /\ m.blk = b}
Ops(c)     == {x \in Nat : \E m \in Items(c.q) : IsOp(m) /\ OpId(m) = x}
OpsSent(c) == {x \in Nat : \E m \in Items(c.q) : IsOp(m) /\ m.inService /\ OpId(m) = x}

-----------------------------------------------------------------------------
(* The chain *)

(* The responses under way to cache l, and the blocks and row operations   *)
(* that a set of responses answers                                         *)
To(R, l)   == {r \in R : r.to = l}
Fills(A)   == {b \in Blocks : \E r \in A : r.cmd # "RowOp" /\ r.blk = b}
OpsDone(A) == {x \in Nat : \E r \in A : r.cmd = "RowOp" /\ r.id = x}
MemReads(M) == {b \in Blocks : \E p \in M : p.blk = b}

RespOK(r) ==
    /\ r = [f \in {"to", "cmd", "blk", "id", "data", "dirty"} |-> r[f]]
    /\ r.to \in 0..Depth
    /\ r.cmd # "RowOp" => r.blk \in Blocks
    /\ r.cmd = "RowOp" => r.id \in Nat

(* A cache has one answer at most to each block it fetches and to each row *)
(* operation it sent.                                                      *)
OneEach(A) ==
    \A r, s \in A :
        /\ r.cmd # "RowOp" /\ s.cmd # "RowOp" /\ r.blk = s.blk => r = s
        /\ r.cmd = "RowOp" /\ s.cmd = "RowOp" /\ r.id = s.id => r = s
AnsweredOK(a, A) ==
    OneEach(A) /\ Fills(A) \subseteq Fetched(a) /\ OpsDone(A) \subseteq OpsSent(a)

(* Cache b below cache a works on nothing that is answered to a already.   *)
(* A block that b is about to evict, or could write back, is neither in a  *)
(* nor on its way to or from it.                                           *)
BelowOK(a, A, b) ==
    /\ Missed(b) \subseteq Fetched(a) \ Fills(A)
    /\ Ops(b) \subseteq OpsSent(a) \ OpsDone(A)
    /\ \A x \in Leaving(b) \cup Dirty(b) :
          x \notin Valid(a) /\ x \notin Leaving(a) /\ x \notin Fills(A)

(* ... and so does memory, which only reads blocks. *)
MemOK(a, A, M) ==
    /\ \A p \in M : p.cmd # "RowOp" /\ p.blk \in Blocks
    /\ \A p, s \in M : p.blk = s.blk => p = s
    /\ MemReads(M) \subseteq Fetched(a) \ Fills(A)

(* The chain with caches C, responses R and reads M, after n requests *)
Chain(C, R, M, n) ==
    /\ C = [l \in Levels |-> C[l]] /\ \A l \in Levels : CacheOK(l, C[l])
    /\ \A r \in R : RespOK(r)
    /\ \A l \in Levels : AnsweredOK(C[l], To(R, l))
    /\ 2 \in Levels => BelowOK(C[1], To(R, 1), C[2])
    /\ MemOK(C[Depth], To(R, Depth), M)
    /\ n \in Nat /\ Ops(C[1]) \subseteq 1..n

IInv == IsList(reqs) /\ Chain(cache, resps, reads, Len(reqs))

-----------------------------------------------------------------------------
(* Lists *)

(* The length, the indices and the items of a list *)
LEMMA ListFacts ==
    ASSUME NEW q, IsList(q)
    PROVE  /\ Len(q) \in Nat /\ DOMAIN q = 1..Len(q)
           /\ \A x : x \in Items(q) <=> \E i \in 1..Len(q) : x = q[i]
<1>1. Len(q) \in Nat /\ DOMAIN q = 1..Len(q)
  BY DEF IsList
<1> QED BY <1>1, Zenon DEF Items

(* Functions that are lists *)
LEMMA ListOf ==
    ASSUME NEW n \in Nat, NEW q, q = [i \in 1..n |-> q[i]]
    PROVE  IsList(q) /\ Len(q) = n
<1> DEFINE S == Items(q)
<1>1. DOMAIN q = 1..n
  OBVIOUS
<1>2. \A i \in 1..n : q[i] \in S
  BY <1>1, Zenon DEF Items
<1> HIDE DEF S
<1>3. q \in Seq(S) /\ Len(q) = n
  BY <1>1, <1>2
<1> QED BY <1>3, Zenon DEF IsList, S

(* A member more at the end *)
LEMMA ListAppend ==
    ASSUME NEW q, IsList(q), NEW x
    PROVE  /\ IsList(Append(q, x)) /\ Len(Append(q, x)) = Len(q) + 1
           /\ \A i \in 1..Len(q) : Append(q, x)[i] = q[i]
           /\ Append(q, x)[Len(q) + 1] = x
           /\ Items(Append(q, x)) = Items(q) \cup {x}
<1> DEFINE S == Items(q) \cup {x}
           r == Append(q, x)
<1>1. q \in Seq(S) /\ x \in S
  BY DEF IsList
<1> HIDE DEF S
<1>2. /\ r \in Seq(S) /\ Len(r) = Len(q) + 1 /\ r[Len(q) + 1] = x
      /\ \A i \in 1..Len(q) : r[i] = q[i]
  BY <1>1
<1> HIDE DEF r
<1>3. r \in Seq(Items(r))
  BY <1>2 DEF Items
<1>4. Items(r) = Items(q) \cup {x}
  <2>1. \A i : i \in 1..Len(r) <=> i \in 1..Len(q) \/ i = Len(q) + 1
    BY <1>1, <1>2
  <2>2. \A y : y \in Items(r) <=> y \in Items(q) \/ y = x
    <3>1. \A y : y \in Items(r) <=> \E i \in 1..Len(r) : y = r[i]
      BY <1>3, ListFacts, Zenon DEF IsList
    <3>2. \A y : y \in Items(q) <=> \E i \in 1..Len(q) : y = q[i]
      BY ListFacts, Zenon
    <3> QED BY <1>2, <2>1, <3>1, <3>2
  <2> QED BY <2>2, Zenon
<1> QED BY <1>2, <1>3, <1>4, Zenon DEF IsList, r

(* A member replaced *)
LEMMA ListReplace ==
    ASSUME NEW q, IsList(q), NEW i \in 1..Len(q), NEW x
    PROVE  LET r == ReplaceAt(q, i, x) IN
           /\ IsList(r) /\ Len(r) = Len(q) /\ r[i] = x
           /\ \A j \in 1..Len(q) : j # i => r[j] = q[j]
           /\ Items(r) = Others(q, i) \cup {x}
<1> DEFINE S == Items(q) \cup {x}
           r == ReplaceAt(q, i, x)
<1>1. q \in Seq(S) /\ x \in S
  BY DEF IsList
<1> HIDE DEF S
<1>2. /\ r \in Seq(S) /\ Len(r) = Len(q) /\ r[i] = x
      /\ \A j \in 1..Len(q) : j # i => r[j] = q[j]
  BY <1>1 DEF ReplaceAt
<1> HIDE DEF r
<1>3. r \in Seq(Items(r))
  BY <1>2 DEF Items
<1>4. Items(r) = Others(q, i) \cup {x}
  <2>1. \A y : y \in Items(r) <=> \E j \in 1..Len(r) : y = r[j]
    BY <1>3, ListFacts, Zenon DEF IsList
  <2>2. \A y : y \in Items(r) <=> y = x \/ \E j \in 1..Len(q) : j # i /\ y = q[j]
    BY <1>2, <2>1
  <2> QED BY <2>2 DEF Others
<1> QED BY <1>2, <1>3, <1>4, Zenon DEF IsList, r

(* Two lists joined *)
LEMMA ListConcat ==
    ASSUME NEW S, NEW u \in Seq(S), NEW w \in Seq(S)
    PROVE  /\ u \o w \in Seq(S) /\ Len(u \o w) = Len(u) + Len(w)
           /\ \A j \in 1..Len(u) : (u \o w)[j] = u[j]
           /\ \A j \in Len(u) + 1..Len(u) + Len(w) : (u \o w)[j] = w[j - Len(u)]
OBVIOUS

(* A member less *)
LEMMA ListRemove ==
    ASSUME NEW q, IsList(q), NEW i \in 1..Len(q)
    PROVE  LET r == RemoveAt(q, i)
           IN  /\ IsList(r) /\ Len(r) = Len(q) - 1
               /\ \A j \in 1..Len(r) : r[j] = IF j < i THEN q[j] ELSE q[j + 1]
               /\ Items(r) = Others(q, i)
<1> DEFINE S == Items(q)
           r == RemoveAt(q, i)
           u == SubSeq(q, 1, i - 1)
           w == SubSeq(q, i + 1, Len(q))
<1>1. q \in Seq(S) /\ Len(q) \in Nat /\ i \in Nat
  BY DEF IsList
<1> HIDE DEF S
<1>2. u \in Seq(S) /\ Len(u) = i - 1 /\ \A j \in 1..i - 1 : u[j] = q[j]
  BY <1>1
<1>3. w \in Seq(S) /\ Len(w) = Len(q) - i /\ \A j \in 1..Len(q) - i : w[j] = q[i + j]
  BY <1>1
<1>4. r = u \o w
  BY Zenon DEF RemoveAt
<1> HIDE DEF u, w, r
<1>5. /\ r \in Seq(S) /\ Len(r) = Len(q) - 1
      /\ \A j \in 1..Len(q) - 1 : r[j] = IF j <= Len(u) THEN u[j] ELSE w[j - Len(u)]
  <2>1. Len(u) + Len(w) = Len(q) - 1 /\ Len(u) \in Nat /\ Len(w) \in Nat
    BY <1>1, <1>2, <1>3
  <2>2. /\ r \in Seq(S) /\ Len(r) = Len(u) + Len(w)
        /\ \A j \in 1..Len(u) : r[j] = u[j]
        /\ \A j \in Len(u) + 1..Len(u) + Len(w) : r[j] = w[j - Len(u)]
    BY <1>2, <1>3, <1>4, ListConcat, Zenon
  <2>3. \A j \in 1..Len(q) - 1 : j \in 1..Len(u) \/
            (~(j <= Len(u)) /\ j \in Len(u) + 1..Len(u) + Len(w))
    BY <1>1, <2>1
  <2>4. \A j \in 1..Len(u) : j <= Len(u)
    BY <2>1
  <2> QED BY <2>1, <2>2, <2>3, <2>4, Zenon
<1>6. ASSUME NEW j \in 1..Len(r) PROVE r[j] = IF j < i THEN q[j] ELSE q[j + 1]
  <2>1. j \in 1..Len(q) - 1
    BY <1>5, Zenon
  <2>2. CASE j < i
    <3>1. j <= Len(u) /\ j \in 1..i - 1
      BY <1>1, <1>2, <2>1, <2>2
    <3> QED BY <1>2, <1>5, <2>1, <2>2, <3>1, Zenon
  <2>3. CASE ~(j < i)
    <3>1. ~(j <= Len(u)) /\ j - Len(u) \in 1..Len(q) - i /\ i + (j - Len(u)) = j + 1
      BY <1>1, <1>2, <2>1, <2>3
    <3> QED BY <1>3, <1>5, <2>1, <2>3, <3>1, Zenon
  <2> QED BY <2>2, <2>3, Zenon
<1>7. r \in Seq(Items(r))
  BY <1>5 DEF Items
<1>8. Items(r) = Others(q, i)
  <2>1. \A y : y \in Items(r) <=> \E j \in 1..Len(r) : y = r[j]
    BY <1>7, ListFacts, Zenon DEF IsList
  <2>2. \A j \in 1..Len(r) : /\ j < i => j \in 1..Len(q) /\ j # i
                            /\ ~(j < i) => j + 1 \in 1..Len(q) /\ j + 1 # i
    BY <1>1, <1>5
  <2>3. \A j \in 1..Len(q) : j # i =>
              (j \in 1..Len(r) /\ j < i) \/
              (j - 1 \in 1..Len(r) /\ ~(j - 1 < i) /\ (j - 1) + 1 = j)
    BY <1>1, <1>5
  <2>4. \A j \in 1..Len(q) : j # i => \E k \in 1..Len(r) : r[k] = q[j]
    BY <1>6, <2>3, Zenon
  <2>5. ASSUME NEW j \in 1..Len(r) PROVE \E k \in 1..Len(q) : k # i /\ r[j] = q[k]
    BY <1>6, <2>2
  <2>6. ASSUME NEW y, NEW j \in 1..Len(q), j # i, y = q[j] PROVE y \in Items(r)
    BY <2>1, <2>4, <2>6, Zenon
  <2>7. ASSUME NEW y \in Items(r) PROVE \E j \in 1..Len(q) : j # i /\ y = q[j]
    <3>1. PICK j \in 1..Len(r) : y = r[j]
      BY <2>1, Zenon
    <3> QED BY <2>5, <3>1, Zenon
  <2>8. \A y : y \in Items(r) <=> \E j \in 1..Len(q) : j # i /\ y = q[j]
    BY <2>6, <2>7, Zenon
  <2> QED BY <2>8 DEF Others
<1> QED BY <1>5, <1>6, <1>7, <1>8, Zenon DEF IsList, r

-----------------------------------------------------------------------------
(* What happens to the queue of one cache *)

(* A queue that CacheOK speaks of: no entry is there twice *)
LEMMA QueueFacts ==
    ASSUME NEW l, NEW c, CacheOK(l, c)
    PROVE  /\ IsList(c.q) /\ Len(c.q) \in Nat /\ DOMAIN c.q = 1..Len(c.q)
           /\ c = [blk |-> c.blk, q |-> c.q] /\ IsBlk(c.blk)
           /\ \A x : x \in Items(c.q) <=> \E i \in 1..Len(c.q) : x = c.q[i]
           /\ \A i \in 1..Len(c.q) : EntryOK(l, c.q[i])
           /\ \A i \in 1..Len(c.q) : Others(c.q, i) = Items(c.q) \ {c.q[i]}
<1>1. /\ IsList(c.q) /\ Len(c.q) \in Nat /\ DOMAIN c.q = 1..Len(c.q)
      /\ c = [blk |-> c.blk, q |-> c.q] /\ IsBlk(c.blk)
      /\ \A x : x \in Items(c.q) <=> \E i \in 1..Len(c.q) : x = c.q[i]
  BY ListFacts, Zenon DEF CacheOK
<1>2. \A i \in 1..Len(c.q) : EntryOK(l, c.q[i])
  BY <1>1, Zenon DEF CacheOK
<1>3. \A m : EntryOK(l, m) => IsMiss(m) \/ IsEvict(m) \/ IsOp(m)
  BY Zenon DEF EntryOK, IsMiss, IsEvict, IsOp
<1>4. \A m : EntryOK(l, m) => ~Before(m, m)
  BY <1>3, Zenon DEF Before
<1>5. \A i, j \in 1..Len(c.q) : i < j \/ j < i \/ i = j
  BY <1>1
<1>6. \A i, j \in 1..Len(c.q) : c.q[i] = c.q[j] => i = j
  BY <1>2, <1>4, <1>5, Zenon DEF CacheOK
<1>7. \A i \in 1..Len(c.q) : Others(c.q, i) = Items(c.q) \ {c.q[i]}
  BY <1>1, <1>6 DEF Others
<1> QED BY <1>1, <1>2, <1>7, Zenon

(* An entry that may go to the end of the queue *)
LEMMA NewEntry ==
    ASSUME NEW l, NEW c, CacheOK(l, c), NEW m, ~m.inService,
           m.blk \notin Missed(c) \cup Leaving(c) \/ ~IsEvict(m),
           m.blk \notin Missed(c) \/ ~IsMiss(m),
           OpId(m) \notin Ops(c) \/ ~IsOp(m)
    PROVE  \A n \in Items(c.q) : Before(n, m)
<1>1. SUFFICES ASSUME NEW n \in Items(c.q) PROVE Before(n, m)
  BY Zenon
<1>2. EntryOK(l, n)
  BY Zenon DEF CacheOK
<1>3. IsMiss(n) => n.blk \in Missed(c)
  BY <1>2, Zenon DEF Missed, EntryOK
<1>4. IsEvict(n) => n.blk \in Leaving(c)
  BY <1>2, Zenon DEF Leaving, EntryOK
<1>5. IsOp(n) => OpId(n) \in Ops(c)
  BY <1>2, Zenon DEF Ops, EntryOK
<1> QED BY <1>3, <1>4, <1>5, Zenon DEF Before

\* Entry m may go to the end of the queue of c, and blocks B stay in the cache.
MayAppend(l, c, B, m) ==
    /\ IsBlk(B) /\ \A b \in Blocks : B[b].valid => c.blk[b].valid
    /\ EntryOK(l, m) /\ (IsMiss(m) \/ IsEvict(m) => ~B[m.blk].valid)
    /\ \A n \in Items(c.q) : Before(n, m)
Appended(B, q, m) == [blk |-> B, q |-> Append(q, m)]

(* CacheOK when an entry is appended to the queue (Queue::allocate) *)
LEMMA AppendEntry ==
    ASSUME NEW l, NEW c, CacheOK(l, c), NEW B, NEW m, MayAppend(l, c, B, m),
           NEW d, d = Appended(B, c.q, m)
    PROVE  /\ CacheOK(l, d) /\ Len(d.q) = Len(c.q) + 1 /\ d.blk = B
           /\ Items(d.q) = Items(c.q) \cup {m}
<1> DEFINE q == Append(c.q, m)
           n == Len(c.q)
<1>1. /\ IsList(q) /\ Len(q) = n + 1 /\ q[n + 1] = m /\ Items(q) = Items(c.q) \cup {m}
      /\ \A i \in 1..n : q[i] = c.q[i]
  <2>1. IsList(c.q)
    BY QueueFacts, Zenon
  <2> QED BY <2>1, ListAppend
<1>2. n \in Nat /\ \A i \in 1..n : c.q[i] \in Items(c.q)
  BY QueueFacts, Zenon
<1>3. d.blk = B /\ d.q = q /\ d = [blk |-> d.blk, q |-> d.q]
  BY DEF Appended
<1> HIDE DEF q, n
<1>4. ASSUME NEW x \in Items(d.q)
      PROVE  /\ EntryOK(l, x)
             /\ IsMiss(x) \/ IsEvict(x) => ~d.blk[x.blk].valid
  <2>1. CASE x \in Items(c.q)
    <3>1. EntryOK(l, x) /\ (IsMiss(x) \/ IsEvict(x) => ~c.blk[x.blk].valid)
      BY <2>1, Zenon DEF CacheOK
    <3>2. IsMiss(x) \/ IsEvict(x) => x.blk \in Blocks
      BY <3>1, Zenon DEF EntryOK
    <3> QED BY <1>3, <3>1, <3>2, Zenon DEF MayAppend
  <2>2. CASE x = m
    BY <1>3, <2>2, Zenon DEF MayAppend
  <2> QED BY <1>1, <1>3, <2>1, <2>2, Zenon
<1>5. ASSUME NEW i \in 1..Len(d.q), NEW j \in 1..Len(d.q), i < j
      PROVE  Before(d.q[i], d.q[j])
  <2>1. i \in 1..n /\ (j \in 1..n \/ j = n + 1)
    <3>1. Len(d.q) = n + 1
      BY <1>1, <1>3, Zenon
    <3> QED BY <1>2, <1>5, <3>1
  <2>2. CASE j \in 1..n
    <3>1. Before(c.q[i], c.q[j])
      BY <1>5, <2>1, <2>2, Zenon DEF CacheOK, n
    <3> QED BY <1>1, <1>3, <2>1, <2>2, <3>1, Zenon
  <2>3. CASE j = n + 1
    BY <1>1, <1>2, <1>3, <2>1, <2>3, Zenon DEF MayAppend
  <2> QED BY <2>1, <2>2, <2>3, Zenon
<1>6. CacheOK(l, d)
  BY <1>1, <1>3, <1>4, <1>5, Zenon DEF CacheOK, MayAppend
<1> QED BY <1>1, <1>3, <1>6, Zenon DEF q, n

\* The queue of d is that of c without m.
Lost(c, d, m) == Len(d.q) = Len(c.q) - 1 /\ Items(d.q) = Items(c.q) \ {m} /\ d.blk = c.blk
Without(c, i) == [blk |-> c.blk, q |-> RemoveAt(c.q, i)]

(* An entry leaves the queue *)
LEMMA RemoveEntry ==
    ASSUME NEW l, NEW c, CacheOK(l, c), NEW i \in 1..Len(c.q), NEW d, d = Without(c, i)
    PROVE  CacheOK(l, d) /\ Lost(c, d, c.q[i])
<1> DEFINE q == RemoveAt(c.q, i)
           n == Len(c.q)
<1>0. IsList(c.q) /\ n \in Nat /\ Others(c.q, i) = Items(c.q) \ {c.q[i]}
  BY QueueFacts, Zenon
<1>1. /\ IsList(q) /\ Len(q) = n - 1
      /\ \A j \in 1..Len(q) : q[j] = IF j < i THEN c.q[j] ELSE c.q[j + 1]
      /\ Items(q) = Others(c.q, i)
  BY <1>0, ListRemove, Zenon
<1>2. d.blk = c.blk /\ d.q = q /\ d = [blk |-> d.blk, q |-> d.q]
  BY DEF Without
<1> HIDE DEF q
<1>3. Items(d.q) = Items(c.q) \ {c.q[i]}
  BY <1>0, <1>1, <1>2, Zenon
<1> HIDE DEF n
<1>4. ASSUME NEW x \in Items(d.q)
      PROVE  EntryOK(l, x) /\ (IsMiss(x) \/ IsEvict(x) => ~d.blk[x.blk].valid)
  BY <1>2, <1>3, Zenon DEF CacheOK
<1>5. ASSUME NEW j \in 1..Len(d.q), NEW k \in 1..Len(d.q), j < k
      PROVE  Before(d.q[j], d.q[k])
  <2> DEFINE to(x) == IF x < i THEN x ELSE x + 1
  <2>1. Len(d.q) = n - 1 /\ i \in 1..n
    BY <1>1, <1>2, Zenon DEF n
  <2>2. to(j) \in 1..n /\ to(k) \in 1..n /\ to(j) < to(k)
    BY <1>0, <1>5, <2>1
  <2>3. d.q[j] = c.q[to(j)] /\ d.q[k] = c.q[to(k)]
    BY <1>1, <1>2, Zenon
  <2> HIDE DEF to
  <2>4. Before(c.q[to(j)], c.q[to(k)])
    BY <2>2, Zenon DEF CacheOK, n
  <2> QED BY <2>3, <2>4, Zenon
<1>6. CacheOK(l, d)
  BY <1>1, <1>2, <1>4, <1>5, QueueFacts, Zenon DEF CacheOK
<1> QED BY <1>1, <1>2, <1>3, <1>6, Zenon DEF Lost, q, n

\* m and n are for the same
SameUse(m, n) ==
    /\ m.blk = n.blk /\ OpId(m) = OpId(n) /\ (IsMiss(m) <=> IsMiss(n))
    /\ (IsEvict(m) <=> IsEvict(n)) /\ (IsOp(m) <=> IsOp(n))

\* An entry may change, not in what it is for; it may be sent unless it is a miss
\* and the block still has to leave.
MayReplace(l, c, i, m) ==
    /\ i \in 1..Len(c.q) /\ EntryOK(l, m) /\ SameUse(c.q[i], m)
    /\ IsMiss(m) /\ m.inService => c.q[i].inService \/ m.blk \notin Leaving(c)
With(c, i, m) == [blk |-> c.blk, q |-> ReplaceAt(c.q, i, m)]

(* CacheOK when an entry is replaced in its place *)
LEMMA ReplaceEntry ==
    ASSUME NEW l, NEW c, CacheOK(l, c), NEW i, NEW m, MayReplace(l, c, i, m),
           NEW d, d = With(c, i, m)
    PROVE  /\ CacheOK(l, d) /\ Len(d.q) = Len(c.q) /\ d.blk = c.blk
           /\ Items(d.q) = (Items(c.q) \ {c.q[i]}) \cup {m}
<1> DEFINE q == ReplaceAt(c.q, i, m)
           n == Len(c.q)
<1>. i \in 1..Len(c.q)
  BY Zenon DEF MayReplace
<1>0. IsList(c.q) /\ n \in Nat /\ Others(c.q, i) = Items(c.q) \ {c.q[i]}
  BY QueueFacts, Zenon
<1>1. /\ IsList(q) /\ Len(q) = n /\ q[i] = m
      /\ \A j \in 1..n : j # i => q[j] = c.q[j]
      /\ Items(q) = Others(c.q, i) \cup {m}
  BY <1>0, ListReplace
<1>2. d.blk = c.blk /\ d.q = q /\ d = [blk |-> d.blk, q |-> d.q]
  BY DEF With
<1>a. \A y : y \in Items(c.q) <=> \E j \in 1..n : y = c.q[j]
  BY QueueFacts, Zenon
<1> HIDE DEF q
<1>3. Items(d.q) = (Items(c.q) \ {c.q[i]}) \cup {m}
  BY <1>0, <1>1, <1>2, Zenon
<1>b. c.q[i] \in Items(c.q)
  BY <1>a, Zenon
<1> HIDE DEF n
<1>4. ASSUME NEW x \in Items(d.q)
      PROVE  EntryOK(l, x) /\ (IsMiss(x) \/ IsEvict(x) => ~d.blk[x.blk].valid)
  BY <1>2, <1>3, <1>b, Zenon DEF CacheOK, SameUse, MayReplace
<1>5. ASSUME NEW j \in 1..Len(d.q), NEW k \in 1..Len(d.q), j < k
      PROVE  Before(d.q[j], d.q[k])
  <2>1. j \in 1..n /\ k \in 1..n /\ j # k
    BY <1>0, <1>1, <1>2, <1>5
  <2>2. Before(c.q[j], c.q[k])
    BY <1>5, <2>1, Zenon DEF CacheOK, n
  <2>3. c.q[j] \in Items(c.q) /\ EntryOK(l, c.q[j])
    BY <1>a, <2>1, Zenon DEF CacheOK
  <2>4. IsEvict(c.q[j]) => c.q[j].blk \in Leaving(c)
    BY <2>3, Zenon DEF EntryOK, Leaving
  <2>5. CASE j = i
    <3>1. d.q[j] = m /\ d.q[k] = c.q[k]
      BY <1>1, <1>2, <2>1, <2>5, Zenon
    <3> QED BY <2>2, <2>5, <3>1, Zenon DEF Before, SameUse, MayReplace
  <2>6. CASE k = i
    <3>1. d.q[j] = c.q[j] /\ d.q[k] = m
      BY <1>1, <1>2, <2>1, <2>6, Zenon
    <3> QED BY <2>2, <2>4, <2>6, <3>1, Zenon DEF Before, SameUse, MayReplace
  <2>7. CASE j # i /\ k # i
    BY <1>1, <1>2, <2>1, <2>2, <2>7, Zenon
  <2> QED BY <2>5, <2>6, <2>7, Zenon
<1>6. CacheOK(l, d)
  BY <1>1, <1>2, <1>4, <1>5, QueueFacts, Zenon DEF CacheOK
<1> QED BY <1>1, <1>2, <1>3, <1>6, Zenon DEF q, n

(* A block of the cache changes; it may become valid unless it is missed   *)
(* or leaving.                                                             *)
LEMMA SetBlock ==
    ASSUME NEW l, NEW c, CacheOK(l, c), NEW b \in Blocks, NEW v,
           v.valid => b \notin Missed(c) \cup Leaving(c)
    PROVE  LET d == [blk |-> [c.blk EXCEPT ![b] = v], q |-> c.q]
           IN  /\ CacheOK(l, d) /\ d.q = c.q
               /\ \A a \in Blocks : d.blk[a] = IF a = b THEN v ELSE c.blk[a]
<1> DEFINE B == [c.blk EXCEPT ![b] = v]
           d == [blk |-> B, q |-> c.q]
<1>1. IsBlk(B) /\ \A a \in Blocks : B[a] = IF a = b THEN v ELSE c.blk[a]
  <2>1. IsBlk(c.blk)
    BY Zenon DEF CacheOK
  <2> QED BY <2>1 DEF IsBlk
<1>2. d.blk = B /\ d.q = c.q /\ d = [blk |-> d.blk, q |-> d.q]
  OBVIOUS
<1> HIDE DEF B, d
<1>3. ASSUME NEW x \in Items(d.q)
      PROVE  EntryOK(l, x) /\ (IsMiss(x) \/ IsEvict(x) => ~d.blk[x.blk].valid)
  <2>1. x \in Items(c.q) /\ EntryOK(l, x) /\ (IsMiss(x) \/ IsEvict(x) => ~c.blk[x.blk].valid)
    BY <1>2, Zenon DEF CacheOK
  <2>2. IsMiss(x) => x.blk \in Blocks /\ x.blk \in Missed(c)
    BY <2>1, Zenon DEF EntryOK, Missed
  <2>3. IsEvict(x) => x.blk \in Blocks /\ x.blk \in Leaving(c)
    BY <2>1, Zenon DEF EntryOK, Leaving
  <2> QED BY <1>1, <1>2, <2>1, <2>2, <2>3, Zenon
<1>4. CacheOK(l, d)
  BY <1>1, <1>2, <1>3, Zenon DEF CacheOK
<1> QED BY <1>1, <1>2, <1>4, Zenon DEF B, d

-----------------------------------------------------------------------------
(* What happens to the sets *)

\* What a cache misses, fetches, is about to evict, and the row operations it
\* queues and has sent
Seen(c, M, F, L, O, S) ==
    /\ Missed(c) = M /\ Fetched(c) = F /\ Leaving(c) = L /\ Ops(c) = O /\ OpsSent(c) = S

(* An entry is a miss, an eviction or a row operation. *)
LEMMA Kinds == \A m : /\ ~(IsMiss(m) /\ IsEvict(m)) /\ ~(IsMiss(m) /\ IsOp(m))
                      /\ ~(IsEvict(m) /\ IsOp(m))
BY DEF IsMiss, IsEvict, IsOp

(* A queue has one miss and one eviction for a block, and one entry for a  *)
(* row operation; a block that is leaving is not fetched.                  *)
LEMMA Unique ==
    ASSUME NEW l, NEW c, CacheOK(l, c), NEW m \in Items(c.q), NEW n \in Items(c.q)
    PROVE  /\ IsMiss(m) /\ IsMiss(n) /\ m.blk = n.blk => m = n
           /\ IsEvict(m) /\ IsEvict(n) /\ m.blk = n.blk => m = n
           /\ IsOp(m) /\ IsOp(n) /\ OpId(m) = OpId(n) => m = n
           /\ IsEvict(m) /\ IsMiss(n) /\ m.blk = n.blk => ~n.inService
<1>1. PICK i \in 1..Len(c.q) : m = c.q[i]
  BY QueueFacts, Zenon
<1>2. PICK j \in 1..Len(c.q) : n = c.q[j]
  BY QueueFacts, Zenon
<1>3. i < j \/ j < i \/ i = j
  <2>1. Len(c.q) \in Nat
    BY QueueFacts, Zenon
  <2> QED BY <2>1
<1>4. CASE i < j
  <2>1. Before(m, n)
    BY <1>1, <1>2, <1>4, Zenon DEF CacheOK
  <2> QED BY <2>1, Zenon DEF Before
<1>5. CASE j < i
  <2>1. Before(n, m)
    BY <1>1, <1>2, <1>5, Zenon DEF CacheOK
  <2> QED BY <2>1, Zenon DEF Before
<1>6. CASE i = j
  BY <1>1, <1>2, <1>6, Kinds, Zenon
<1> QED BY <1>3, <1>4, <1>5, <1>6, Zenon

(* What a cache holds, fetches and evicts are different blocks. *)
LEMMA Apart ==
    ASSUME NEW l, NEW c, CacheOK(l, c)
    PROVE  /\ Fetched(c) \subseteq Missed(c) /\ OpsSent(c) \subseteq Ops(c)
           /\ Fetched(c) \cap Leaving(c) = {}
           /\ Valid(c) \cap (Missed(c) \cup Leaving(c)) = {}
<1>1. Fetched(c) \subseteq Missed(c) /\ OpsSent(c) \subseteq Ops(c)
  BY Zenon DEF Fetched, Missed, OpsSent, Ops
<1>2. ASSUME NEW b, b \in Fetched(c), b \in Leaving(c) PROVE FALSE
  <2>1. PICK n \in Items(c.q) : IsMiss(n) /\ n.inService /\ n.blk = b
    BY <1>2, Zenon DEF Fetched
  <2>2. PICK m \in Items(c.q) : IsEvict(m) /\ m.blk = b
    BY <1>2, Zenon DEF Leaving
  <2> QED BY <2>1, <2>2, Unique, Zenon
<1>3. ASSUME NEW b, b \in Valid(c), b \in Missed(c) \cup Leaving(c) PROVE FALSE
  BY <1>3, Zenon DEF CacheOK, Valid, Missed, Leaving
<1> QED BY <1>1, <1>2, <1>3, Zenon

(* One entry more *)
LEMMA Added ==
    ASSUME NEW c, NEW d, NEW m, ~m.inService, Items(d.q) = Items(c.q) \cup {m}
    PROVE  /\ IsMiss(m) /\ m.blk \in Blocks =>
                 Seen(d, Missed(c) \cup {m.blk}, Fetched(c), Leaving(c), Ops(c), OpsSent(c))
           /\ IsEvict(m) /\ m.blk \in Blocks =>
                 Seen(d, Missed(c), Fetched(c), Leaving(c) \cup {m.blk}, Ops(c), OpsSent(c))
           /\ IsOp(m) /\ OpId(m) \in Nat =>
                 Seen(d, Missed(c), Fetched(c), Leaving(c), Ops(c) \cup {OpId(m)}, OpsSent(c))
<1>1. \A x : x \in Items(d.q) <=> x \in Items(c.q) \/ x = m
  BY Zenon
<1>2. Missed(d) = Missed(c) \cup {b \in Blocks : IsMiss(m) /\ m.blk = b}
  BY <1>1 DEF Missed
<1>3. Fetched(d) = Fetched(c)
  BY <1>1 DEF Fetched
<1>4. Leaving(d) = Leaving(c) \cup {b \in Blocks : IsEvict(m) /\ m.blk = b}
  BY <1>1 DEF Leaving
<1>5. Ops(d) = Ops(c) \cup {x \in Nat : IsOp(m) /\ OpId(m) = x}
  BY <1>1 DEF Ops
<1>6. OpsSent(d) = OpsSent(c)
  BY <1>1 DEF OpsSent
<1>7. /\ ~IsMiss(m) => Missed(d) = Missed(c)
      /\ IsMiss(m) /\ m.blk \in Blocks => Missed(d) = Missed(c) \cup {m.blk}
  BY <1>2
<1>8. /\ ~IsEvict(m) => Leaving(d) = Leaving(c)
      /\ IsEvict(m) /\ m.blk \in Blocks => Leaving(d) = Leaving(c) \cup {m.blk}
  BY <1>4
<1>9. /\ ~IsOp(m) => Ops(d) = Ops(c)
      /\ IsOp(m) /\ OpId(m) \in Nat => Ops(d) = Ops(c) \cup {OpId(m)}
  BY <1>5
<1> QED BY <1>3, <1>6, <1>7, <1>8, <1>9, Kinds, Zenon DEF Seen

(* One entry less *)
LEMMA Removed ==
    ASSUME NEW l, NEW c, CacheOK(l, c), NEW m \in Items(c.q),
           NEW d, Lost(c, d, m)
    PROVE  /\ IsMiss(m) => Seen(d, Missed(c) \ {m.blk}, Fetched(c) \ {m.blk}, Leaving(c),
                                Ops(c), OpsSent(c))
           /\ IsEvict(m) => Seen(d, Missed(c), Fetched(c), Leaving(c) \ {m.blk}, Ops(c),
                                 OpsSent(c))
           /\ IsOp(m) => Seen(d, Missed(c), Fetched(c), Leaving(c), Ops(c) \ {OpId(m)},
                              OpsSent(c) \ {OpId(m)})
<1>1. \A x : x \in Items(d.q) <=> x \in Items(c.q) /\ x # m
  BY Zenon DEF Lost
<1>2. \A x \in Items(c.q) :
         /\ IsMiss(m) /\ IsMiss(x) /\ m.blk = x.blk => m = x
         /\ IsEvict(m) /\ IsEvict(x) /\ m.blk = x.blk => m = x
         /\ IsOp(m) /\ IsOp(x) /\ OpId(m) = OpId(x) => m = x
  BY Unique, Zenon
<1>3. /\ ~IsMiss(m) => Missed(d) = Missed(c) /\ Fetched(d) = Fetched(c)
      /\ ~IsEvict(m) => Leaving(d) = Leaving(c)
      /\ ~IsOp(m) => Ops(d) = Ops(c) /\ OpsSent(d) = OpsSent(c)
  BY <1>1 DEF Missed, Fetched, Leaving, Ops, OpsSent
<1>4. IsMiss(m) => Missed(d) = Missed(c) \ {m.blk} /\ Fetched(d) = Fetched(c) \ {m.blk}
  BY <1>1, <1>2 DEF Missed, Fetched
<1>5. IsEvict(m) => Leaving(d) = Leaving(c) \ {m.blk}
  BY <1>1, <1>2 DEF Leaving
<1>6. IsOp(m) => Ops(d) = Ops(c) \ {OpId(m)} /\ OpsSent(d) = OpsSent(c) \ {OpId(m)}
  BY <1>1, <1>2 DEF Ops, OpsSent
<1> QED BY <1>3, <1>4, <1>5, <1>6, Kinds, Zenon DEF Seen

(* One entry replaced by one for the same *)
LEMMA Replaced ==
    ASSUME NEW l, NEW c, CacheOK(l, c), NEW n \in Items(c.q), NEW m, SameUse(n, m),
           NEW d, Items(d.q) = (Items(c.q) \ {n}) \cup {m}
    PROVE  /\ (n.inService <=> m.inService) =>
                 Seen(d, Missed(c), Fetched(c), Leaving(c), Ops(c), OpsSent(c))
           /\ IsMiss(n) /\ m.inService =>
                 Seen(d, Missed(c), Fetched(c) \cup {m.blk}, Leaving(c), Ops(c), OpsSent(c))
           /\ IsOp(n) /\ m.inService =>
                 Seen(d, Missed(c), Fetched(c), Leaving(c), Ops(c), OpsSent(c) \cup {OpId(m)})
<1>1. \A x : x \in Items(d.q) <=> (x \in Items(c.q) /\ x # n) \/ x = m
  BY Zenon
<1>2. EntryOK(l, n)
  BY Zenon DEF CacheOK
<1>3. Missed(d) = Missed(c)
  BY <1>1 DEF Missed, SameUse
<1>4. Leaving(d) = Leaving(c)
  BY <1>1 DEF Leaving, SameUse
<1>5. Ops(d) = Ops(c)
  BY <1>1 DEF Ops, SameUse
<1>6. (n.inService <=> m.inService) \/ ~IsMiss(n) => Fetched(d) = Fetched(c)
  BY <1>1 DEF Fetched, SameUse
<1>7. (n.inService <=> m.inService) \/ ~IsOp(n) => OpsSent(d) = OpsSent(c)
  BY <1>1 DEF OpsSent, SameUse
<1>8. IsMiss(n) /\ m.inService => Fetched(d) = Fetched(c) \cup {m.blk}
  <2>1. IsMiss(n) => n.blk \in Blocks /\ m.blk = n.blk /\ IsMiss(m)
    BY <1>2, Zenon DEF EntryOK, SameUse
  <2> QED BY <1>1, <2>1 DEF Fetched
<1>9. IsOp(n) /\ m.inService => OpsSent(d) = OpsSent(c) \cup {OpId(m)}
  <2>1. IsOp(n) => OpId(n) \in Nat /\ OpId(m) = OpId(n) /\ IsOp(m)
    BY <1>2, Zenon DEF EntryOK, SameUse
  <2> QED BY <1>1, <2>1 DEF OpsSent
<1> QED BY <1>3, <1>4, <1>5, <1>6, <1>7, <1>8, <1>9, Kinds, Zenon DEF Seen

-----------------------------------------------------------------------------
(* New entries, and searching the queues *)

(* A list of one item *)
LEMMA Single ==
    ASSUME NEW p
    PROVE  /\ IsList(<<p>>) /\ Len(<<p>>) = 1 /\ <<p>>[1] = p
           /\ IsList(<<>>) /\ Len(<<>>) = 0
           /\ \A k \in 1..Len(<<p>>) : <<p>>[k] = p
           /\ \A k : k \notin 1..Len(<<>>)
<1>1. Items(<<p>>) = {p} /\ <<p>> \in Seq({p}) /\ Items(<<>>) = {} /\ <<>> \in Seq({})
  BY DEF Items
<1>2. IsList(<<p>>) /\ IsList(<<>>)
  BY <1>1, Zenon DEF IsList
<1>3. Len(<<p>>) = 1 /\ <<p>>[1] = p /\ Len(<<>>) = 0
  OBVIOUS
<1>4. \A k \in 1..Len(<<p>>) : <<p>>[k] = p
  OBVIOUS
<1>5. \A k : k \notin 1..Len(<<>>)
  OBVIOUS
<1> QED BY <1>2, <1>3, <1>4, <1>5, Zenon

(* The entry MSHR::allocate makes for a packet *)
LEMMA EntryFields ==
    ASSUME NEW queue, NEW p
    PROVE  LET m == MSHR(queue, p)
           IN  /\ m.queue = queue /\ m.blk = p.blk /\ m.targets = <<p>> /\ m.targets[1] = p
               /\ m.deferred = <<>> /\ ~m.inService /\ IsEntry(m)
<1>1. IsEntry(MSHR(queue, p))
  BY DEF MSHR, IsEntry
<1> QED BY <1>1 DEF MSHR

(* ... for a miss *)
LEMMA MissEntry ==
    ASSUME NEW l, NEW p, p.cmd \in Cmds(l), p.blk \in Blocks
    PROVE  EntryOK(l, MSHR("miss", p)) /\ IsMiss(MSHR("miss", p))
<1> DEFINE m == MSHR("miss", p)
<1>1. /\ m.queue = "miss" /\ m.blk = p.blk /\ m.targets = <<p>> /\ m.targets[1] = p
      /\ m.deferred = <<>> /\ ~m.inService /\ IsEntry(m)
  BY EntryFields
<1> HIDE DEF m
<1>2. IsMiss(m) /\ ~IsEvict(m) /\ ~IsOp(m)
  BY <1>1, Kinds, Zenon DEF IsMiss
<1>3. IsList(m.targets) /\ IsList(m.deferred) /\ Len(m.targets) = 1 /\ Len(m.deferred) = 0
  BY <1>1, Single, Zenon
<1>4. \A k \in 1..Len(m.targets) : TargetOK(l, m.targets[k], m.blk)
  BY <1>1, Single DEF TargetOK
<1>5. \A k \in 1..Len(m.deferred) : TargetOK(l, m.deferred[k], m.blk)
  BY <1>1, Single, Zenon
<1>6. Len(m.targets) >= 1
  BY <1>3
<1> QED BY <1>1, <1>2, <1>3, <1>4, <1>5, <1>6, Zenon DEF EntryOK, m

(* ... for a writeback or a clean eviction *)
LEMMA EvictEntry ==
    ASSUME NEW l, NEW p, p.cmd \in {"Writeback", "CleanEvict"}, p.blk \in Blocks
    PROVE  EntryOK(l, MSHR("write", p)) /\ IsEvict(MSHR("write", p))
<1> DEFINE m == MSHR("write", p)
<1>1. /\ m.queue = "write" /\ m.blk = p.blk /\ m.targets = <<p>> /\ m.targets[1] = p
      /\ m.deferred = <<>> /\ ~m.inService /\ IsEntry(m)
  BY EntryFields
<1> HIDE DEF m
<1>2. IsEvict(m) /\ ~IsMiss(m) /\ ~IsOp(m)
  <2>1. ~Uncacheable(m)
    BY <1>1, Zenon DEF Uncacheable
  <2> QED BY <1>1, <2>1, Kinds, Zenon DEF IsEvict
<1>3. IsList(m.targets) /\ IsList(m.deferred) /\ Len(m.targets) = 1
  BY <1>1, Single, Zenon
<1>4. Len(m.targets) >= 1
  BY <1>3
<1> QED BY <1>1, <1>2, <1>3, <1>4, Zenon DEF EntryOK, m

(* ... for a row operation *)
LEMMA OpEntry ==
    ASSUME NEW l, NEW p, p.cmd = "RowOp", p.id \in Nat, p.rows \in Rows \X Rows
    PROVE  EntryOK(l, MSHR("write", p)) /\ IsOp(MSHR("write", p)) /\
           OpId(MSHR("write", p)) = p.id
<1> DEFINE m == MSHR("write", p)
<1>1. /\ m.queue = "write" /\ m.blk = p.blk /\ m.targets = <<p>> /\ m.targets[1] = p
      /\ m.deferred = <<>> /\ ~m.inService /\ IsEntry(m)
  BY EntryFields
<1> HIDE DEF m
<1>2. IsOp(m) /\ ~IsMiss(m) /\ ~IsEvict(m)
  <2>1. Uncacheable(m)
    BY <1>1, Zenon DEF Uncacheable
  <2> QED BY <1>1, <2>1, Kinds, Zenon DEF IsOp
<1>3. IsList(m.targets) /\ IsList(m.deferred) /\ Len(m.targets) = 1
  BY <1>1, Single, Zenon
<1>4. Len(m.targets) >= 1
  BY <1>3
<1>5. OpId(m) = p.id
  BY <1>1, Zenon DEF OpId
<1> QED BY <1>1, <1>2, <1>3, <1>4, <1>5, Zenon DEF EntryOK, m

(* What findMatch finds *)
LEMMA Matches ==
    ASSUME NEW l, NEW c, CacheOK(l, c), NEW b
    PROVE  /\ \A i : i \in findMatch(c, "miss", b) <=>
                  i \in 1..Len(c.q) /\ IsMiss(c.q[i]) /\ c.q[i].blk = b
           /\ \A i : i \in findMatch(c, "write", b) <=>
                  i \in 1..Len(c.q) /\ IsEvict(c.q[i]) /\ c.q[i].blk = b
           /\ b \in Blocks => /\ findMatch(c, "miss", b) # {} <=> b \in Missed(c)
                              /\ findMatch(c, "write", b) # {} <=> b \in Leaving(c)
<1>1. DOMAIN c.q = 1..Len(c.q) /\ \A i \in 1..Len(c.q) : EntryOK(l, c.q[i])
  BY QueueFacts, Zenon
<1>2. \A m : EntryOK(l, m) /\ IsMiss(m) => ~Uncacheable(m)
  <2>1. ASSUME NEW m, EntryOK(l, m), IsMiss(m) PROVE ~Uncacheable(m)
    <3>1. Len(m.targets) \in Nat
      BY <2>1, ListFacts, Zenon DEF EntryOK
    <3>2. 1 \in 1..Len(m.targets)
      BY <2>1, <3>1 DEF EntryOK
    <3>3. m.targets[1].cmd \in Cmds(l)
      BY <2>1, <3>2, Zenon DEF EntryOK, TargetOK
    <3> QED BY <3>3 DEF Cmds, Uncacheable
  <2> QED BY <2>1, Zenon
<1>3. \A i : i \in findMatch(c, "miss", b) <=>
          i \in 1..Len(c.q) /\ IsMiss(c.q[i]) /\ c.q[i].blk = b
  BY <1>1, <1>2, Zenon DEF findMatch, Allocated, IsMiss
<1>4. \A i : i \in findMatch(c, "write", b) <=>
          i \in 1..Len(c.q) /\ IsEvict(c.q[i]) /\ c.q[i].blk = b
  BY <1>1, Zenon DEF findMatch, Allocated, IsEvict
<1>5. \A x : x \in Items(c.q) <=> \E i \in 1..Len(c.q) : x = c.q[i]
  BY QueueFacts, Zenon
<1>6. b \in Blocks => (findMatch(c, "miss", b) # {} <=> b \in Missed(c))
  BY <1>3, <1>5 DEF Missed
<1>7. b \in Blocks => (findMatch(c, "write", b) # {} <=> b \in Leaving(c))
  BY <1>4, <1>5 DEF Leaving
<1> QED BY <1>3, <1>4, <1>6, <1>7, Zenon

-----------------------------------------------------------------------------
(* Flushing and making room *)

\* d is cache c of level l after at most n of its blocks were pushed out; clean
\* blocks in `above` were dropped.
FlushOf(above, l, c, d, n) ==
    /\ CacheOK(l, d)
    /\ Missed(d) = Missed(c) /\ Fetched(d) = Fetched(c)
    /\ Ops(d) = Ops(c) /\ OpsSent(d) = OpsSent(c)
    /\ Valid(d) \subseteq Valid(c) /\ Dirty(d) \subseteq Dirty(c)
    /\ Leaving(d) \subseteq Leaving(c) \cup Dirty(c) \cup (Valid(c) \ above)
    /\ Len(d.q) <= Len(c.q) + n

(* A flush of nothing changes nothing. *)
LEMMA FlushNone ==
    ASSUME NEW above, NEW l, NEW c, CacheOK(l, c)
    PROVE  FlushOf(above, l, c, c, 0)
<1>1. Len(c.q) <= Len(c.q) + 0
  <2>1. Len(c.q) \in Nat
    BY QueueFacts, Zenon
  <2> QED BY <2>1
<1> QED BY <1>1, Zenon DEF FlushOf

(* A flush of two sets of blocks, one after the other *)
LEMMA FlushTwice ==
    ASSUME NEW above, NEW l, NEW c, CacheOK(l, c), NEW d, NEW e, NEW n \in Nat, NEW k \in Nat,
           FlushOf(above, l, c, d, n), FlushOf(above, l, d, e, k)
    PROVE  FlushOf(above, l, c, e, n + k)
<1>1. CacheOK(l, d) /\ CacheOK(l, e)
  BY Zenon DEF FlushOf
<1>2. Len(c.q) \in Nat /\ Len(d.q) \in Nat /\ Len(e.q) \in Nat
  BY <1>1, QueueFacts, Zenon
<1>3. Len(e.q) <= Len(c.q) + (n + k)
  <2>1. Len(d.q) <= Len(c.q) + n /\ Len(e.q) <= Len(d.q) + k
    BY Zenon DEF FlushOf
  <2>2. \A x, y, z \in Nat : y <= x + n /\ z <= y + k => z <= x + (n + k)
    OBVIOUS
  <2> QED BY <1>2, <2>1, <2>2, Zenon
<1>4. Leaving(e) \subseteq Leaving(c) \cup Dirty(c) \cup (Valid(c) \ above)
  BY Zenon DEF FlushOf
<1> QED BY <1>1, <1>3, <1>4, Zenon DEF FlushOf

(* writebackAddr *)
LEMMA FlushOne ==
    ASSUME NEW above, NEW l, NEW c, CacheOK(l, c), NEW b \in Blocks
    PROVE  FlushOf(above, l, c, writebackAddr(above, c, b), 1)
<1> DEFINE d == writebackAddr(above, c, b)
<1>0. Len(c.q) \in Nat /\ c = [blk |-> c.blk, q |-> c.q] /\ IsBlk(c.blk)
  BY QueueFacts, Zenon
<1>1. CASE ~c.blk[b].valid
  <2>1. d = c
    BY <1>1, Zenon DEF writebackAddr
  <2>2. FlushOf(above, l, c, c, 0)
    BY FlushNone, Zenon
  <2>3. Len(c.q) <= Len(c.q) + 1
    BY <1>0
  <2> QED BY <2>1, <2>2, <2>3, Zenon DEF FlushOf
<1>2. CASE c.blk[b].valid
  <2> DEFINE B == [c.blk EXCEPT ![b] = Invalid]
             p == EvictPacket(c, b)
             m == MSHR("write", p)
  <2>1. /\ d = [blk |-> B, q |-> IF ~c.blk[b].dirty /\ b \in above THEN c.q ELSE Append(c.q, m)]
    BY <1>2 DEF writebackAddr, doWritebacks
  <2>2. IsBlk(B) /\ ~B[b].valid /\ \A a \in Blocks : a # b => B[a] = c.blk[a]
    <3>1. IsBlk(B) /\ \A a \in Blocks : B[a] = IF a = b THEN Invalid ELSE c.blk[a]
      BY <1>0 DEF IsBlk
    <3>2. ~Invalid.valid
      BY DEF Invalid
    <3> QED BY <3>1, <3>2, Zenon
  <2>3. p.cmd \in {"Writeback", "CleanEvict"} /\ p.blk = b /\ p.blk \in Blocks
    BY DEF EvictPacket, Packet
  <2> HIDE DEF d, B, p
  <2>4. b \notin Missed(c) /\ b \notin Leaving(c) /\ b \in Valid(c)
    BY <1>2, Apart, Zenon DEF Valid
  <2>5. ASSUME d.blk = B
        PROVE  Valid(d) = Valid(c) \ {b} /\ Dirty(d) = Dirty(c) \ {b}
    BY <2>2, <2>5 DEF Valid, Dirty
  <2>6. CASE ~c.blk[b].dirty /\ b \in above
    <3>1. d = [blk |-> B, q |-> c.q] /\ d.blk = B /\ d.q = c.q
      BY <2>1, <2>6
    <3>2. CacheOK(l, d)
      <4>1. ~Invalid.valid
        BY DEF Invalid
      <4>2. d = [blk |-> [c.blk EXCEPT ![b] = Invalid], q |-> c.q]
        BY <3>1, Zenon DEF B
      <4> QED BY <4>1, <4>2, SetBlock, Zenon
    <3>3. /\ Missed(d) = Missed(c) /\ Fetched(d) = Fetched(c) /\ Leaving(d) = Leaving(c)
          /\ Ops(d) = Ops(c) /\ OpsSent(d) = OpsSent(c)
      BY <3>1, Zenon DEF Missed, Fetched, Leaving, Ops, OpsSent
    <3>4. Len(d.q) <= Len(c.q) + 1
      BY <1>0, <3>1
    <3> QED BY <2>5, <3>1, <3>2, <3>3, <3>4, Zenon DEF FlushOf, d
  <2>7. CASE ~(~c.blk[b].dirty /\ b \in above)
    <3>1. d = [blk |-> B, q |-> Append(c.q, m)] /\ d.blk = B
      BY <2>1, <2>7, Zenon
    <3>2. EntryOK(l, m) /\ IsEvict(m) /\ m.blk = b /\ ~m.inService /\ ~IsMiss(m) /\ ~IsOp(m)
      <4>1. EntryOK(l, m) /\ IsEvict(m)
        BY <2>3, EvictEntry
      <4>2. m.blk = b /\ ~m.inService
        BY <2>3, EntryFields
      <4> QED BY <4>1, <4>2, Kinds, Zenon
    <3> HIDE DEF m
    <3>3. \A n \in Items(c.q) : Before(n, m)
      BY <2>4, <3>2, NewEntry, Zenon
    <3>4. \A a \in Blocks : B[a].valid => c.blk[a].valid
      BY <2>2, Zenon
    <3>5. CacheOK(l, d) /\ Len(d.q) = Len(c.q) + 1 /\ Items(d.q) = Items(c.q) \cup {m}
      <4>1. IsMiss(m) \/ IsEvict(m) => ~B[m.blk].valid
        BY <2>2, <3>2, Zenon
      <4>2. MayAppend(l, c, B, m)
        BY <2>2, <3>2, <3>3, <3>4, <4>1, Zenon DEF MayAppend
      <4>3. d = Appended(B, c.q, m)
        BY <3>1, Zenon DEF Appended
      <4> QED BY <4>2, <4>3, AppendEntry
    <3>6. Seen(d, Missed(c), Fetched(c), Leaving(c) \cup {b}, Ops(c), OpsSent(c))
      BY <3>2, <3>5, Added, Zenon
    <3>7. b \in Dirty(c) \/ b \in Valid(c) \ above
      BY <1>2, <2>4, <2>7, Zenon DEF Dirty
    <3>8. Len(d.q) <= Len(c.q) + 1
      BY <1>0, <3>5
    <3> QED BY <2>5, <3>1, <3>5, <3>6, <3>7, <3>8, Zenon DEF FlushOf, Seen, d
  <2> QED BY <2>6, <2>7, Zenon
<1> QED BY <1>1, <1>2, Zenon

(* allocateBlock *)
LEMMA MakeRoom ==
    ASSUME NEW l, NEW c, CacheOK(l, c), NEW b, NEW d \in allocateBlock(l, c, b)
    PROVE  FlushOf(CachedAbove(l), l, c, d, 1) /\ (b \in Valid(c) => d = c)
<1>1. CASE d = c
  <2>1. FlushOf(CachedAbove(l), l, c, c, 0) /\ Len(c.q) \in Nat
    BY FlushNone, QueueFacts, Zenon
  <2>2. Len(c.q) <= Len(c.q) + 1
    BY <2>1
  <2> QED BY <1>1, <2>1, <2>2, Zenon DEF FlushOf
<1>2. CASE d # c
  <2>1. PICK v \in Blocks : d = writebackAddr(CachedAbove(l), c, v)
    BY <1>2, Zenon DEF allocateBlock
  <2>2. b \notin Valid(c)
    BY <1>2, Zenon DEF allocateBlock, Valid
  <2> QED BY <2>1, <2>2, FlushOne, Zenon
<1> QED BY <1>1, <1>2, Zenon

LOCAL INSTANCE WellFoundedInduction

(* A nonempty set of numbers has a least one. *)
LEMMA LeastNumber ==
    ASSUME NEW S, S \subseteq Nat, S # {}
    PROVE  \E m \in S : \A k \in S : m <= k
<1> DEFINE R == OpToRel(<, Nat)
<1>1. IsWellFoundedOn(R, Nat)
  BY NatLessThanWellFounded, Zenon
<1>2. \A x, y \in Nat : <<y, x>> \in R <=> y < x
  BY Zenon DEF OpToRel
<1> HIDE DEF R
<1>3. PICK x \in S : \A y \in S : ~(<<y, x>> \in R)
  BY <1>1, WFMin, Zenon
<1>4. \A y \in S : ~(y < x)
  BY <1>2, <1>3, Zenon
<1>5. \A y \in S : x <= y
  BY <1>4
<1> QED BY <1>5, Zenon

\* The cache after each round of the loop that flushes the rows
IsFlush(f, above, c, dst, src, n) ==
    f = [k \in 0..n |-> IF k = 0 THEN c ELSE FlushBlocks(above, f[k - 1], dst, src, k)]

(* The loop can be followed to its end. *)
LEMMA FlushExists ==
    ASSUME NEW above, NEW c, NEW dst, NEW src, NEW n \in Nat
    PROVE  \E f : IsFlush(f, above, c, dst, src, n)
<1> DEFINE Is(f, m) == IsFlush(f, above, c, dst, src, m)
           step(x, k) == FlushBlocks(above, x, dst, src, k)
           Bad == {m \in Nat : ~ \E f : Is(f, m)}
<1>0. \A f, m : Is(f, m) <=> f = [k \in 0..m |-> IF k = 0 THEN c ELSE step(f[k - 1], k)]
  BY Zenon DEF IsFlush
<1> HIDE DEF Is, step
<1>1. SUFFICES ASSUME Bad # {} PROVE FALSE
  BY Zenon DEF Is
<1>2. Bad \subseteq Nat
  BY Zenon
<1>3. PICK m \in Bad : \A k \in Bad : m <= k
  <2> HIDE DEF Bad
  <2> QED BY <1>1, <1>2, LeastNumber, Zenon
<1>4. m \in Nat /\ ~ \E f : Is(f, m)
  BY Zenon
<1>5. CASE m = 0
  <2> DEFINE f == [k \in 0..0 |-> c]
  <2>1. f = [k \in 0..0 |-> IF k = 0 THEN c ELSE step(f[k - 1], k)]
    OBVIOUS
  <2> HIDE DEF f
  <2> QED BY <1>0, <1>4, <1>5, <2>1, Zenon
<1>6. CASE m # 0
  <2>1. m - 1 \in Nat /\ ~(m <= m - 1)
    BY <1>4, <1>6
  <2>2. m - 1 \notin Bad
    BY <1>3, <2>1, Zenon
  <2>3. PICK g : Is(g, m - 1)
    BY <2>1, <2>2, Zenon
  <2>4. \A k \in 0..m - 1 : g[k] = IF k = 0 THEN c ELSE step(g[k - 1], k)
    <3>1. g = [k \in 0..m - 1 |-> IF k = 0 THEN c ELSE step(g[k - 1], k)]
      BY <1>0, <2>3, Zenon
    <3> DEFINE h == [k \in 0..m - 1 |-> IF k = 0 THEN c ELSE step(g[k - 1], k)]
    <3>2. \A k \in 0..m - 1 : h[k] = IF k = 0 THEN c ELSE step(g[k - 1], k)
      BY Zenon
    <3> HIDE DEF h
    <3>3. g = h
      BY <3>1, Zenon DEF h
    <3> QED BY <3>2, <3>3, Zenon
  <2> DEFINE f == [k \in 0..m |-> IF k <= m - 1 THEN g[k] ELSE step(g[m - 1], m)]
  <2>5. f = [k \in 0..m |-> f[k]]
    OBVIOUS
  <2>6. \A k \in 0..m - 1 : f[k] = g[k]
    BY <1>4
  <2>7. f[m] = step(g[m - 1], m)
    BY <1>4
  <2> HIDE DEF f
  <2>8. ASSUME NEW k \in 0..m PROVE f[k] = IF k = 0 THEN c ELSE step(f[k - 1], k)
    <3>1. CASE k = m
      <4>1. m - 1 \in 0..m - 1
        BY <2>1
      <4> QED BY <1>6, <2>6, <2>7, <3>1, <4>1, Zenon
    <3>2. CASE k # m
      <4>1. k \in 0..m - 1 /\ (k # 0 => k - 1 \in 0..m - 1)
        BY <1>4, <3>2
      <4> QED BY <2>4, <2>6, <4>1, Zenon
    <3> QED BY <3>1, <3>2, Zenon
  <2>9. f = [k \in 0..m |-> IF k = 0 THEN c ELSE step(f[k - 1], k)]
    BY <2>5, <2>8, Zenon
  <2> QED BY <1>0, <1>4, <2>9, Zenon
<1> QED BY <1>5, <1>6, Zenon

(* FlushRows is what the last round leaves. *)
LEMMA FlushSteps ==
    ASSUME NEW l, NEW c, NEW dst, NEW src, Len(dst) \in Nat
    PROVE  \E f : /\ f[0] = c /\ FlushRows(l, c, dst, src) = f[Len(dst)]
                  /\ \A k \in 1..Len(dst) :
                        f[k] = FlushBlocks(CachedAbove(l), f[k - 1], dst, src, k)
<1> DEFINE f == CHOOSE h : IsFlush(h, CachedAbove(l), c, dst, src, Len(dst))
<1>1. IsFlush(f, CachedAbove(l), c, dst, src, Len(dst))
  BY FlushExists, Zenon
<1>2. FlushRows(l, c, dst, src) = f[Len(dst)]
  BY Zenon DEF FlushRows, IsFlush
<1> HIDE DEF f
<1>3. \A k \in 0..Len(dst) :
         f[k] = IF k = 0 THEN c ELSE FlushBlocks(CachedAbove(l), f[k - 1], dst, src, k)
  BY <1>1, Zenon DEF IsFlush
<1>4. 0 \in 0..Len(dst) /\ \A k \in 1..Len(dst) : k \in 0..Len(dst) /\ k # 0
  OBVIOUS
<1>5. f[0] = c /\ \A k \in 1..Len(dst) :
          f[k] = FlushBlocks(CachedAbove(l), f[k - 1], dst, src, k)
  BY <1>3, <1>4, Zenon
<1> QED BY <1>2, <1>5, Zenon

(* Once around the loop *)
LEMMA FlushRound ==
    ASSUME NEW above, NEW l, NEW c, CacheOK(l, c), NEW dst \in Rows, NEW src \in Rows,
           NEW k \in 1..Len(dst)
    PROVE  FlushOf(above, l, c, FlushBlocks(above, c, dst, src, k), IF k = 1 THEN 3 ELSE 2)
<1>1. dst[k] \in Blocks /\ src[k] \in Blocks
  <2>1. dst \in Seq(Blocks) /\ src \in Seq(Blocks) /\ Len(src) = Len(dst)
    BY RowsAssumption, Zenon
  <2> QED BY <2>1
<1> DEFINE d == writebackAddr(above, c, dst[k])
           e == writebackAddr(above, d, src[k])
           z == writebackAddr(above, e, ZeroBlk)
<1>2. FlushOf(above, l, c, d, 1) /\ CacheOK(l, d)
  <2>1. FlushOf(above, l, c, d, 1)
    BY <1>1, FlushOne, Zenon
  <2> QED BY <2>1, Zenon DEF FlushOf
<1>3. FlushOf(above, l, d, e, 1) /\ CacheOK(l, e)
  <2> HIDE DEF d
  <2>1. FlushOf(above, l, d, e, 1)
    BY <1>1, <1>2, FlushOne, Zenon
  <2> HIDE DEF e
  <2> QED BY <2>1, Zenon DEF FlushOf
<1>4. ZeroBlk \in Blocks => FlushOf(above, l, e, z, 1)
  BY <1>3, FlushOne, Zenon
<1>5. FlushBlocks(above, c, dst, src, k) = IF k = 1 /\ ZeroBlk \in Blocks THEN z ELSE e
  BY Zenon DEF FlushBlocks
<1> HIDE DEF d, e, z
<1>6. 1 \in Nat /\ 2 \in Nat /\ 1 + 1 = 2 /\ 2 + 1 = 3
  OBVIOUS
<1>7. FlushOf(above, l, c, e, 2)
  BY <1>2, <1>3, <1>6, FlushTwice, Zenon
<1>8. ZeroBlk \in Blocks => FlushOf(above, l, c, z, 3)
  BY <1>4, <1>6, <1>7, FlushTwice, Zenon
<1>9. FlushOf(above, l, c, e, 3)
  <2>1. Len(c.q) \in Nat /\ Len(e.q) \in Nat /\ Len(e.q) <= Len(c.q) + 2
    BY <1>3, <1>7, QueueFacts, Zenon DEF FlushOf
  <2>2. \A x, y \in Nat : y <= x + 2 => y <= x + 3
    OBVIOUS
  <2>3. Len(e.q) <= Len(c.q) + 3
    BY <2>1, <2>2, Zenon
  <2> QED BY <1>7, <2>3, Zenon DEF FlushOf
<1> QED BY <1>5, <1>7, <1>8, <1>9, Zenon

(* The whole loop pushes out two blocks per round and the block at 0. *)
LEMMA FlushAll ==
    ASSUME NEW l, NEW c, CacheOK(l, c), NEW dst \in Rows, NEW src \in Rows
    PROVE  FlushOf(CachedAbove(l), l, c, FlushRows(l, c, dst, src), 2 * Len(dst) + 1)
<1> DEFINE above == CachedAbove(l)
           n == Len(dst)
<1>1. n \in Nat
  BY RowsAssumption
<1>2. PICK f : /\ f[0] = c /\ FlushRows(l, c, dst, src) = f[n]
               /\ \A k \in 1..n : f[k] = FlushBlocks(above, f[k - 1], dst, src, k)
  BY <1>1, FlushSteps
<1> DEFINE Bad == {k \in 0..n : ~FlushOf(above, l, c, f[k], IF k = 0 THEN 0 ELSE 2 * k + 1)}
<1> HIDE DEF above
<1>3. Bad = {}
  <2>1. SUFFICES ASSUME Bad # {} PROVE FALSE
    OBVIOUS
  <2>2. Bad \subseteq Nat
    BY <1>1
  <2>3. PICK k \in Bad : \A i \in Bad : k <= i
    <3> HIDE DEF Bad
    <3> QED BY <2>1, <2>2, LeastNumber, Zenon
  <2>4. k \in 0..n /\ ~FlushOf(above, l, c, f[k], IF k = 0 THEN 0 ELSE 2 * k + 1)
    BY Zenon
  <2>5. k # 0
    BY <1>2, <2>4, FlushNone, Zenon
  <2>6. k \in 1..n /\ k - 1 \in 0..n /\ ~(k <= k - 1)
    BY <1>1, <2>4, <2>5
  <2>7. FlushOf(above, l, c, f[k - 1], IF k - 1 = 0 THEN 0 ELSE 2 * (k - 1) + 1)
    <3>1. k - 1 \notin Bad
      <4> HIDE DEF Bad
      <4> QED BY <2>3, <2>6, Zenon
    <3> QED BY <2>6, <3>1, Zenon
  <2>8. CacheOK(l, f[k - 1])
    BY <2>7, Zenon DEF FlushOf
  <2>9. FlushOf(above, l, f[k - 1], f[k], IF k = 1 THEN 3 ELSE 2)
    <3>1. FlushOf(above, l, f[k - 1], FlushBlocks(above, f[k - 1], dst, src, k),
                  IF k = 1 THEN 3 ELSE 2)
      BY <2>6, <2>8, FlushRound, Zenon
    <3>2. f[k] = FlushBlocks(above, f[k - 1], dst, src, k)
      BY <1>2, <2>6, Zenon
    <3> QED BY <3>1, <3>2, Zenon
  <2>10. CASE k = 1
    <3>1. k - 1 = 0 /\ 0 + 3 = 2 * k + 1 /\ 0 \in Nat /\ 3 \in Nat
      BY <2>10
    <3>2. FlushOf(above, l, c, f[k], 0 + 3)
      BY <2>7, <2>9, <2>10, <3>1, FlushTwice, Zenon
    <3> QED BY <2>4, <2>5, <3>1, <3>2, Zenon
  <2>11. CASE k # 1
    <3>1. /\ k - 1 # 0 /\ (2 * (k - 1) + 1) + 2 = 2 * k + 1
          /\ 2 * (k - 1) + 1 \in Nat /\ 2 \in Nat
      BY <1>1, <2>6, <2>11
    <3>2. FlushOf(above, l, c, f[k], (2 * (k - 1) + 1) + 2)
      BY <2>7, <2>9, <2>11, <3>1, FlushTwice, Zenon
    <3> QED BY <2>4, <2>5, <3>1, <3>2, Zenon
  <2> QED BY <2>10, <2>11, Zenon
<1>4. FlushOf(above, l, c, f[n], IF n = 0 THEN 0 ELSE 2 * n + 1)
  <2>1. n \in 0..n
    BY <1>1
  <2> QED BY <1>3, <2>1, Zenon
<1>5. FlushOf(above, l, c, f[n], 2 * n + 1)
  <2>1. CASE n = 0
    <3>1. Len(c.q) \in Nat /\ CacheOK(l, f[n])
      BY <1>4, QueueFacts, Zenon DEF FlushOf
    <3>2. Len(f[n].q) \in Nat /\ Len(f[n].q) <= Len(c.q) + 0
      BY <1>4, <2>1, <3>1, QueueFacts, Zenon DEF FlushOf
    <3>3. \A x, y \in Nat : y <= x + 0 => y <= x + (2 * n + 1)
      BY <1>1
    <3>4. Len(f[n].q) <= Len(c.q) + (2 * n + 1)
      BY <3>1, <3>2, <3>3, Zenon
    <3> QED BY <1>4, <3>4, Zenon DEF FlushOf
  <2>2. CASE n # 0
    BY <1>4, <2>2, Zenon
  <2> QED BY <2>1, <2>2, Zenon
<1> QED BY <1>2, <1>5, Zenon DEF above

-----------------------------------------------------------------------------
(* Sending *)

(* The oldest of some queue positions is one of them. *)
LEMMA OldestIn ==
    ASSUME NEW S, S \subseteq Nat, S # {}
    PROVE  Oldest(S) \in S /\ \A k \in S : Oldest(S) <= k
BY LeastNumber, Zenon DEF Oldest

(* What getNextMSHR chooses is not in service; and when it is a miss, the  *)
(* block does not have to leave first.                                     *)
LEMMA NextEntry ==
    ASSUME NEW l, NEW c, CacheOK(l, c), NEW h, NEW i \in getNextMSHR(c, h)
    PROVE  /\ i \in 1..Len(c.q) /\ ~c.q[i].inService
           /\ IsMiss(c.q[i]) => c.q[i].blk \notin Leaving(c)
<1>1. /\ DOMAIN c.q = 1..Len(c.q) /\ Len(c.q) \in Nat
      /\ \A k \in 1..Len(c.q) : EntryOK(l, c.q[k]) /\ c.q[k] \in Items(c.q)
      /\ \A x \in Items(c.q) : \E k \in 1..Len(c.q) : x = c.q[k]
  BY QueueFacts, Zenon
<1>2. \A queue : Ready(c, queue) =
         {k \in 1..Len(c.q) : c.q[k].queue = queue /\ ~c.q[k].inService}
  BY <1>1 DEF Ready, Allocated
<1>3. \A queue : Ready(c, queue) \subseteq Nat
  BY <1>1, <1>2
<1>4. \A k \in 1..Len(c.q) : IsEvict(c.q[k]) => k \in Ready(c, "write")
  BY <1>1, <1>2, Zenon DEF IsEvict, EntryOK
<1>5. \A k \in Ready(c, "write") : ~IsMiss(c.q[k])
  BY <1>2 DEF IsMiss
<1>6. ASSUME NEW b \in Leaving(c)
      PROVE  \E k \in 1..Len(c.q) : IsEvict(c.q[k]) /\ c.q[k].blk = b
  BY <1>1, Zenon DEF Leaving
<1> DEFINE first(queue) == {k \in Ready(c, queue) : k <= h /\ k = Oldest(Ready(c, queue))}
           conflict(queue, m) == {k \in Ready(c, queue) : c.q[k].blk = c.q[m].blk}
           miss == first("miss")
           write == first("write")
           urgent == isFull(c, "write") /\ Ready(c, "write") = Allocated(c, "write")
           w == Oldest(write)
           earlier == {k \in conflict("miss", w) : k < w}
<1>7. getNextMSHR(c, h) =
         IF write # {} /\ (urgent \/ miss = {})
         THEN IF earlier # {} THEN {Oldest(earlier)} ELSE write
         ELSE IF miss # {} /\ conflict("write", Oldest(miss)) # {}
         THEN {Oldest(conflict("write", Oldest(miss)))} ELSE miss
  BY Zenon DEF getNextMSHR
<1>8. /\ \A k \in write : k \in Ready(c, "write") /\ k = Oldest(Ready(c, "write"))
      /\ \A k \in miss : k \in Ready(c, "miss") /\ k = Oldest(Ready(c, "miss"))
  BY Zenon
<1>9. write \subseteq Nat /\ miss \subseteq Nat /\ earlier \subseteq Nat
  BY <1>3, Zenon
<1>10. \A m : conflict("write", m) \subseteq Nat
  BY <1>3, Zenon
<1>11. \A m, k : k \in conflict("write", m) <=> k \in Ready(c, "write") /\ c.q[k].blk = c.q[m].blk
  BY Zenon
<1>12. \A k : k \in earlier <=> k \in Ready(c, "miss") /\ c.q[k].blk = c.q[w].blk /\ k < w
  BY Zenon
<1>13. write # {} => w \in write
  <2> HIDE DEF write
  <2> QED BY <1>9, OldestIn, Zenon
<1>14. miss # {} => Oldest(miss) \in miss
  <2> HIDE DEF miss
  <2> QED BY <1>9, OldestIn, Zenon
<1>15. earlier # {} => Oldest(earlier) \in earlier
  <2> HIDE DEF earlier
  <2> QED BY <1>9, OldestIn, Zenon
<1> HIDE DEF miss, write, urgent, w, earlier, conflict
<1>16. \/ i \in Ready(c, "write")
       \/ i \in earlier /\ w \in Ready(c, "write") /\ w = Oldest(Ready(c, "write"))
       \/ i \in miss /\ i = Oldest(miss) /\ conflict("write", i) = {}
  <2>1. CASE write # {} /\ (urgent \/ miss = {})
    <3>1. CASE earlier # {}
      BY <1>7, <1>8, <1>13, <1>15, <2>1, <3>1, Zenon
    <3>2. CASE earlier = {}
      BY <1>7, <1>8, <2>1, <3>2, Zenon
    <3> QED BY <3>1, <3>2, Zenon
  <2>2. CASE ~(write # {} /\ (urgent \/ miss = {}))
    <3>1. CASE miss # {} /\ conflict("write", Oldest(miss)) # {}
      <4>1. i = Oldest(conflict("write", Oldest(miss)))
        BY <1>7, <2>2, <3>1, Zenon
      <4>2. i \in conflict("write", Oldest(miss))
        BY <1>10, <3>1, <4>1, OldestIn, Zenon
      <4> QED BY <1>11, <4>2, Zenon
    <3>2. CASE ~(miss # {} /\ conflict("write", Oldest(miss)) # {})
      <4>1. i \in miss
        BY <1>7, <2>2, <3>2, Zenon
      <4>2. Oldest(miss) \in miss
        BY <1>14, <4>1, Zenon
      <4>3. i = Oldest(miss)
        BY <1>8, <4>1, <4>2, Zenon
      <4> QED BY <3>2, <4>1, <4>3, Zenon
    <3> QED BY <3>1, <3>2, Zenon
  <2> QED BY <2>1, <2>2, Zenon
<1>17. CASE i \in Ready(c, "write")
  BY <1>2, <1>5, <1>17, Zenon
<1>18. CASE i \in earlier /\ w \in Ready(c, "write") /\ w = Oldest(Ready(c, "write"))
  <2>1. /\ i \in 1..Len(c.q) /\ ~c.q[i].inService /\ IsMiss(c.q[i])
        /\ c.q[i].blk = c.q[w].blk /\ i < w /\ w \in 1..Len(c.q)
    BY <1>2, <1>12, <1>18, Zenon DEF IsMiss
  <2>2. ASSUME c.q[i].blk \in Leaving(c) PROVE FALSE
    <3>1. PICK k \in 1..Len(c.q) : IsEvict(c.q[k]) /\ c.q[k].blk = c.q[i].blk
      BY <1>6, <2>2, Zenon
    <3>2. ~(i < k) /\ i # k
      BY <2>1, <3>1, Kinds, Zenon DEF CacheOK, Before
    <3>3. ~(w <= k)
      BY <1>1, <2>1, <3>2
    <3>4. k \in Ready(c, "write")
      BY <1>4, <3>1, Zenon
    <3> QED BY <1>3, <1>18, <3>3, <3>4, OldestIn, Zenon
  <2> QED BY <2>1, <2>2, Zenon
<1>19. CASE i \in miss /\ i = Oldest(miss) /\ conflict("write", i) = {}
  <2>1. i \in 1..Len(c.q) /\ ~c.q[i].inService
    BY <1>2, <1>8, <1>19, Zenon
  <2>2. ASSUME c.q[i].blk \in Leaving(c) PROVE FALSE
    <3>1. PICK k \in 1..Len(c.q) : IsEvict(c.q[k]) /\ c.q[k].blk = c.q[i].blk
      BY <1>6, <2>2, Zenon
    <3>2. k \in conflict("write", i)
      BY <1>4, <1>11, <3>1, Zenon
    <3> QED BY <1>19, <3>2, Zenon
  <2> QED BY <2>1, <2>2, Zenon
<1> QED BY <1>16, <1>17, <1>18, <1>19, Zenon

(* The three kinds of entries and what is sent for them *)
LEMMA SentPacket ==
    ASSUME NEW l, NEW m, EntryOK(l, m)
    PROVE  /\ IsMiss(m) \/ IsEvict(m) \/ IsOp(m)
           /\ IsMiss(m) => /\ ~NoResponse(m) /\ m.blk \in Blocks
                           /\ getTimingPacket(m).cmd \in {"ReadExReq", "ReadSharedReq"}
                           /\ getTimingPacket(m).blk = m.blk
           /\ IsEvict(m) => /\ NoResponse(m) /\ m.blk \in Blocks
                            /\ getTimingPacket(m).cmd \in {"Writeback", "CleanEvict"}
                            /\ getTimingPacket(m).blk = m.blk
           /\ IsOp(m) => /\ ~NoResponse(m) /\ OpId(m) \in Nat
                         /\ getTimingPacket(m).cmd = "RowOp"
                         /\ getTimingPacket(m).id = OpId(m)
                         /\ getTimingPacket(m).rows \in Rows \X Rows
<1>1. IsMiss(m) \/ IsEvict(m) \/ IsOp(m)
  BY Zenon DEF EntryOK, IsMiss, IsEvict, IsOp
<1>2. ASSUME IsMiss(m)
      PROVE  /\ ~NoResponse(m) /\ m.blk \in Blocks
             /\ getTimingPacket(m).cmd \in {"ReadExReq", "ReadSharedReq"}
             /\ getTimingPacket(m).blk = m.blk
  <2>1. Len(m.targets) \in Nat
    BY ListFacts, Zenon DEF EntryOK
  <2>2. 1 \in 1..Len(m.targets)
    BY <2>1 DEF EntryOK
  <2>3. m.targets[1].cmd \in Cmds(l) /\ m.blk \in Blocks
    BY <1>2, <2>2, Zenon DEF EntryOK, TargetOK
  <2>4. m.targets[1].cmd \in {"ReadReq", "WriteReq", "ReadExReq", "ReadSharedReq"}
    BY <2>3 DEF Cmds
  <2>5. ~NoResponse(m) /\ ~Uncacheable(m)
    BY <2>4 DEF NoResponse, Uncacheable
  <2> DEFINE x == \E i \in DOMAIN m.targets : needsExclusive(m.targets[i])
  <2>6. getTimingPacket(m) =
            Packet(IF x THEN "ReadExReq" ELSE "ReadSharedReq", m.blk, <<>>, 0)
    BY <2>5, Zenon DEF getTimingPacket
  <2> HIDE DEF x
  <2> QED BY <2>3, <2>5, <2>6 DEF Packet
<1>3. ASSUME IsEvict(m)
      PROVE  /\ NoResponse(m) /\ m.blk \in Blocks
             /\ getTimingPacket(m).cmd \in {"Writeback", "CleanEvict"}
             /\ getTimingPacket(m).blk = m.blk
  BY <1>3, Zenon DEF EntryOK, NoResponse, getTimingPacket
<1>4. ASSUME IsOp(m)
      PROVE  /\ ~NoResponse(m) /\ OpId(m) \in Nat
             /\ getTimingPacket(m).cmd = "RowOp" /\ getTimingPacket(m).id = OpId(m)
             /\ getTimingPacket(m).rows \in Rows \X Rows
  <2>1. Uncacheable(m) /\ m.targets[1].cmd = "RowOp"
    BY <1>4, Zenon DEF IsOp, Uncacheable
  <2>2. getTimingPacket(m) = m.targets[1]
    BY <2>1, Zenon DEF getTimingPacket
  <2>3. ~NoResponse(m)
    BY <2>1 DEF NoResponse
  <2> QED BY <1>4, <2>1, <2>2, <2>3, Zenon DEF EntryOK, OpId
<1> QED BY <1>1, <1>2, <1>3, <1>4, Zenon

\* Cache c becomes d when its entry m is marked.
Marked(c, d, m) ==
    /\ d.blk = c.blk /\ Len(d.q) <= Len(c.q)
    /\ IsMiss(m) => Seen(d, Missed(c), Fetched(c) \cup {m.blk}, Leaving(c), Ops(c), OpsSent(c))
    /\ IsEvict(m) => Seen(d, Missed(c), Fetched(c), Leaving(c) \ {m.blk}, Ops(c), OpsSent(c))
    /\ IsOp(m) => Seen(d, Missed(c), Fetched(c), Leaving(c), Ops(c), OpsSent(c) \cup {OpId(m)})

(* markInService *)
LEMMA MarkEntry ==
    ASSUME NEW l, NEW c, CacheOK(l, c), NEW i \in 1..Len(c.q), ~c.q[i].inService,
           IsMiss(c.q[i]) => c.q[i].blk \notin Leaving(c), NEW dirtyResp,
           NEW d, d = markInService(c, i, dirtyResp)
    PROVE  CacheOK(l, d) /\ Marked(c, d, c.q[i])
<1>1. /\ c = [blk |-> c.blk, q |-> c.q] /\ Len(c.q) \in Nat /\ EntryOK(l, c.q[i])
      /\ c.q[i] \in Items(c.q) /\ IsList(c.q)
  BY QueueFacts, Zenon
<1> DEFINE n == c.q[i]
<1>2. CASE IsEvict(n)
  <2>1. d = Without(c, i)
    <3>1. NoResponse(c.q[i])
      BY <1>1, <1>2, SentPacket, Zenon
    <3>2. d = [c EXCEPT !.q = RemoveAt(@, i)]
      BY <3>1, Zenon DEF markInService
    <3> QED BY <1>1, <3>2 DEF Without
  <2>2. CacheOK(l, d) /\ Lost(c, d, n)
    BY <2>1, RemoveEntry, Zenon
  <2>3. Seen(d, Missed(c), Fetched(c), Leaving(c) \ {n.blk}, Ops(c), OpsSent(c))
    BY <1>1, <1>2, <2>2, Removed, Zenon
  <2>4. d.blk = c.blk /\ Len(d.q) = Len(c.q) - 1
    BY <2>2, Zenon DEF Lost
  <2>5. Len(d.q) <= Len(c.q)
    BY <1>1, <2>4
  <2> QED BY <1>2, <2>2, <2>3, <2>4, <2>5, Kinds, Zenon DEF Marked
<1>3. CASE ~IsEvict(n)
  <2> DEFINE m == Sent(n, dirtyResp)
  <2>1. d = With(c, i, m)
    <3>1. ~NoResponse(c.q[i])
      BY <1>1, <1>3, SentPacket, Zenon
    <3>2. d = [c EXCEPT !.q[i] = m]
      BY <3>1, Zenon DEF markInService
    <3> HIDE DEF m
    <3> QED BY <1>1, <3>2 DEF With, ReplaceAt
  <2>2. /\ m.queue = n.queue /\ m.blk = n.blk /\ m.targets = n.targets
        /\ m.deferred = n.deferred /\ m.inService /\ IsEntry(m)
    <3> DEFINE pend == dirtyResp \/ \E k \in DOMAIN n.targets : needsExclusive(n.targets[k])
    <3>1. m = [queue |-> n.queue, blk |-> n.blk, targets |-> n.targets,
               deferred |-> n.deferred, inService |-> TRUE, pendingDirty |-> pend]
      BY Zenon DEF Sent
    <3> HIDE DEF m, n, pend
    <3>2. IsEntry(m)
      BY <3>1 DEF IsEntry
    <3> QED BY <3>1, <3>2
  <2> HIDE DEF m, n
  <2>4. SameUse(n, m)
    BY <2>2, Zenon DEF SameUse, OpId, IsMiss, IsEvict, IsOp, Uncacheable
  <2>5. EntryOK(l, m)
    <3>1. EntryOK(l, n)
      BY <1>1, Zenon DEF n
    <3>2. ~IsEvict(m)
      BY <1>3, <2>4, Zenon DEF SameUse
    <3> QED BY <2>2, <2>4, <3>1, <3>2, Zenon DEF EntryOK, SameUse
  <2>6. IsMiss(m) /\ m.inService => m.blk \notin Leaving(c)
    BY <2>2, <2>4, Zenon DEF SameUse, n
  <2>7. /\ CacheOK(l, d) /\ Len(d.q) = Len(c.q) /\ d.blk = c.blk
        /\ Items(d.q) = (Items(c.q) \ {n}) \cup {m}
    <3>1. MayReplace(l, c, i, m)
      BY <2>4, <2>5, <2>6, Zenon DEF MayReplace, n
    <3> QED BY <2>1, <3>1, ReplaceEntry DEF n
  <2>8. /\ IsMiss(n) => Seen(d, Missed(c), Fetched(c) \cup {m.blk}, Leaving(c), Ops(c), OpsSent(c))
        /\ IsOp(n) => Seen(d, Missed(c), Fetched(c), Leaving(c), Ops(c), OpsSent(c) \cup {OpId(m)})
    BY <1>1, <2>2, <2>4, <2>7, Replaced, Zenon DEF n
  <2>9. m.blk = n.blk /\ OpId(m) = OpId(n)
    BY <2>4, Zenon DEF SameUse
  <2>10. Len(d.q) <= Len(c.q)
    BY <1>1, <2>7
  <2> QED BY <1>3, <2>7, <2>8, <2>9, <2>10, Zenon DEF n, Marked
<1> QED BY <1>2, <1>3, Zenon

-----------------------------------------------------------------------------
(* Answering *)

\* r answers packet p.
Answers(r, to, p) == \E data, dirty : r = Resp(to, p, data, dirty)

(* The response to a packet (Packet::makeResponse) *)
LEMMA AnswerFields ==
    ASSUME NEW r, NEW to \in 0..Depth, NEW p, Answers(r, to, p),
           p.cmd # "RowOp" => p.blk \in Blocks, p.cmd = "RowOp" => p.id \in Nat
    PROVE  RespOK(r) /\ r.to = to /\ r.cmd = p.cmd /\ r.blk = p.blk /\ r.id = p.id
<1>1. PICK data, dirty : r = Resp(to, p, data, dirty)
  BY Zenon DEF Answers
<1>2. r = [to |-> to, cmd |-> p.cmd, blk |-> p.blk, id |-> p.id,
           data |-> data, dirty |-> dirty]
  BY <1>1, Zenon DEF Resp
<1>3. r = [f \in {"to", "cmd", "blk", "id", "data", "dirty"} |-> r[f]]
  BY <1>2
<1>4. r.to = to /\ r.cmd = p.cmd /\ r.blk = p.blk /\ r.id = p.id
  BY <1>2
<1> QED BY <1>3, <1>4, Zenon DEF RespOK

(* satisfyCpuSideRequest *)
LEMMA Satisfied ==
    ASSUME NEW l, NEW p, p.cmd \in Cmds(l), NEW blk, NEW to
    PROVE  LET s == satisfyCpuSideRequest(blk, p, to)
           IN  Answers(s.resp, to, p) /\ (l # 1 => ~s.blk.dirty)
<1> DEFINE s == satisfyCpuSideRequest(blk, p, to)
<1>1. \/ p.cmd = "WriteReq" /\ l = 1
      \/ p.cmd = "ReadReq" /\ l = 1
      \/ p.cmd = "ReadExReq" \/ p.cmd = "ReadSharedReq"
  BY DEF Cmds
<1>2. CASE p.cmd = "WriteReq" /\ l = 1
  <2>1. s = [blk |-> Block(p.data, TRUE), resp |-> Resp(to, p, <<>>, FALSE)]
    BY <1>2 DEF satisfyCpuSideRequest
  <2>2. s.resp = Resp(to, p, <<>>, FALSE)
    BY <2>1
  <2> QED BY <1>2, <2>2, Zenon DEF Answers
<1>3. CASE p.cmd = "ReadReq" /\ l = 1
  <2>1. s = [blk |-> blk, resp |-> Resp(to, p, blk.data, FALSE)]
    BY <1>3 DEF satisfyCpuSideRequest
  <2>2. s.resp = Resp(to, p, blk.data, FALSE)
    BY <2>1
  <2> QED BY <1>3, <2>2, Zenon DEF Answers
<1>4. CASE p.cmd = "ReadExReq"
  <2>1. s = [blk |-> Invalid, resp |-> Resp(to, p, blk.data, blk.dirty)]
    BY <1>4 DEF satisfyCpuSideRequest
  <2>2. s.resp = Resp(to, p, blk.data, blk.dirty) /\ ~s.blk.dirty
    BY <2>1 DEF Invalid
  <2> QED BY <2>2, Zenon DEF Answers
<1>5. CASE p.cmd = "ReadSharedReq"
  <2>1. s = [blk |-> Block(blk.data, FALSE), resp |-> Resp(to, p, blk.data, blk.dirty)]
    BY <1>5 DEF satisfyCpuSideRequest
  <2>2. s.resp = Resp(to, p, blk.data, blk.dirty) /\ ~s.blk.dirty
    BY <2>1 DEF Block
  <2> QED BY <2>2, Zenon DEF Answers
<1> QED BY <1>1, <1>2, <1>3, <1>4, <1>5, Zenon

\* One target served, and the block and responses after each target
ServeOne(x, p, to) ==
    LET s == satisfyCpuSideRequest(x.blk, p, to)
    IN [blk |-> s.blk, resps |-> x.resps \cup {s.resp}]
IsServe(f, blk, targets, to, n) ==
    f = [k \in 0..n |-> IF k = 0 THEN [blk |-> blk, resps |-> {}]
                        ELSE ServeOne(f[k - 1], targets[k], to)]

(* All targets can be served. *)
LEMMA ServeExists ==
    ASSUME NEW blk, NEW targets, NEW to, NEW n \in Nat
    PROVE  \E f : IsServe(f, blk, targets, to, n)
<1> DEFINE Is(f, m) == IsServe(f, blk, targets, to, m)
           step(x, k) == ServeOne(x, targets[k], to)
           c == [blk |-> blk, resps |-> {}]
           Bad == {m \in Nat : ~ \E f : Is(f, m)}
<1>0. \A f, m : Is(f, m) <=> f = [k \in 0..m |-> IF k = 0 THEN c ELSE step(f[k - 1], k)]
  BY Zenon DEF IsServe
<1> HIDE DEF Is, step, c
<1>1. SUFFICES ASSUME Bad # {} PROVE FALSE
  BY Zenon DEF Is
<1>2. Bad \subseteq Nat
  BY Zenon
<1>3. PICK m \in Bad : \A k \in Bad : m <= k
  <2> HIDE DEF Bad
  <2> QED BY <1>1, <1>2, LeastNumber, Zenon
<1>4. m \in Nat /\ ~ \E f : Is(f, m)
  BY Zenon
<1>5. CASE m = 0
  <2> DEFINE f == [k \in 0..0 |-> c]
  <2>1. f = [k \in 0..0 |-> IF k = 0 THEN c ELSE step(f[k - 1], k)]
    OBVIOUS
  <2> HIDE DEF f
  <2> QED BY <1>0, <1>4, <1>5, <2>1, Zenon
<1>6. CASE m # 0
  <2>1. m - 1 \in Nat /\ ~(m <= m - 1)
    BY <1>4, <1>6
  <2>2. m - 1 \notin Bad
    BY <1>3, <2>1, Zenon
  <2>3. PICK g : Is(g, m - 1)
    BY <2>1, <2>2, Zenon
  <2>4. \A k \in 0..m - 1 : g[k] = IF k = 0 THEN c ELSE step(g[k - 1], k)
    <3>1. g = [k \in 0..m - 1 |-> IF k = 0 THEN c ELSE step(g[k - 1], k)]
      BY <1>0, <2>3, Zenon
    <3> DEFINE h == [k \in 0..m - 1 |-> IF k = 0 THEN c ELSE step(g[k - 1], k)]
    <3>2. \A k \in 0..m - 1 : h[k] = IF k = 0 THEN c ELSE step(g[k - 1], k)
      BY Zenon
    <3> HIDE DEF h
    <3>3. g = h
      BY <3>1, Zenon DEF h
    <3> QED BY <3>2, <3>3, Zenon
  <2> DEFINE f == [k \in 0..m |-> IF k <= m - 1 THEN g[k] ELSE step(g[m - 1], m)]
  <2>5. f = [k \in 0..m |-> f[k]]
    OBVIOUS
  <2>6. \A k \in 0..m - 1 : f[k] = g[k]
    BY <1>4
  <2>7. f[m] = step(g[m - 1], m)
    BY <1>4
  <2> HIDE DEF f
  <2>8. ASSUME NEW k \in 0..m PROVE f[k] = IF k = 0 THEN c ELSE step(f[k - 1], k)
    <3>1. CASE k = m
      <4>1. m - 1 \in 0..m - 1
        BY <2>1
      <4> QED BY <1>6, <2>6, <2>7, <3>1, <4>1, Zenon
    <3>2. CASE k # m
      <4>1. k \in 0..m - 1 /\ (k # 0 => k - 1 \in 0..m - 1)
        BY <1>4, <3>2
      <4> QED BY <2>4, <2>6, <4>1, Zenon
    <3> QED BY <3>1, <3>2, Zenon
  <2>9. f = [k \in 0..m |-> IF k = 0 THEN c ELSE step(f[k - 1], k)]
    BY <2>5, <2>8, Zenon
  <2> QED BY <1>0, <1>4, <2>9, Zenon
<1> QED BY <1>5, <1>6, Zenon

ServedAll(l, s, targets, to) ==
    /\ \A r \in s.resps : \E k \in 1..Len(targets) : Answers(r, to, targets[k])
    /\ l # 1 /\ Len(targets) = 1 => ~s.blk.dirty /\ \E r : s.resps = {r}

(* Every response of Serve answers a target; one target below the first    *)
(* cache leaves no dirty block and gets one response.                      *)
LEMMA Served ==
    ASSUME NEW l, NEW blk, NEW targets, NEW to, Len(targets) \in Nat,
           \A k \in 1..Len(targets) : targets[k].cmd \in Cmds(l)
    PROVE  ServedAll(l, Serve(blk, targets, to), targets, to)
<1> DEFINE n == Len(targets)
           f == CHOOSE h : IsServe(h, blk, targets, to, n)
<1>1. IsServe(f, blk, targets, to, n)
  BY ServeExists, Zenon
<1>2. Serve(blk, targets, to) = f[n]
  BY Zenon DEF Serve, IsServe, ServeOne
<1> HIDE DEF f
<1>3. \A k \in 0..n : f[k] = IF k = 0 THEN [blk |-> blk, resps |-> {}]
                             ELSE ServeOne(f[k - 1], targets[k], to)
  BY <1>1, Zenon DEF IsServe
<1> DEFINE good(k) == \A r \in f[k].resps : \E i \in 1..n : Answers(r, to, targets[i])
           Bad == {k \in 0..n : ~good(k)}
<1>4. f[0] = [blk |-> blk, resps |-> {}] /\ f[0].resps = {}
  <2>1. 0 \in 0..n
    OBVIOUS
  <2>2. f[0] = [blk |-> blk, resps |-> {}]
    BY <1>3, <2>1, Zenon
  <2> QED BY <2>2
<1>5. ASSUME NEW k \in 1..n
      PROVE  LET s == satisfyCpuSideRequest(f[k - 1].blk, targets[k], to)
             IN  /\ f[k].blk = s.blk /\ f[k].resps = f[k - 1].resps \cup {s.resp}
                 /\ Answers(s.resp, to, targets[k]) /\ (l # 1 => ~s.blk.dirty)
  <2> DEFINE s == satisfyCpuSideRequest(f[k - 1].blk, targets[k], to)
  <2>1. k \in 0..n /\ k # 0
    OBVIOUS
  <2>2. f[k] = ServeOne(f[k - 1], targets[k], to)
    BY <1>3, <2>1, Zenon
  <2>3. f[k] = [blk |-> s.blk, resps |-> f[k - 1].resps \cup {s.resp}]
    BY <2>2, Zenon DEF ServeOne
  <2>4. Answers(s.resp, to, targets[k]) /\ (l # 1 => ~s.blk.dirty)
    BY Satisfied, Zenon
  <2> HIDE DEF s
  <2>5. f[k].blk = s.blk /\ f[k].resps = f[k - 1].resps \cup {s.resp}
    BY <2>3
  <2> QED BY <2>4, <2>5, Zenon DEF s
<1>6. Bad = {}
  <2>1. SUFFICES ASSUME Bad # {} PROVE FALSE
    BY Zenon
  <2>2. Bad \subseteq Nat
    OBVIOUS
  <2>3. PICK k \in Bad : \A i \in Bad : k <= i
    <3> HIDE DEF Bad
    <3> QED BY <2>1, <2>2, LeastNumber, Zenon
  <2>4. k \in 0..n /\ ~good(k)
    BY Zenon
  <2>5. k # 0
    BY <1>4, <2>4, Zenon
  <2>6. k \in 1..n /\ k - 1 \in 0..n /\ ~(k <= k - 1)
    BY <2>4, <2>5
  <2>7. good(k - 1)
    <3>1. k - 1 \notin Bad
      <4> HIDE DEF Bad
      <4> QED BY <2>3, <2>6, Zenon
    <3> QED BY <2>6, <3>1, Zenon
  <2>8. \E s : f[k].resps = f[k - 1].resps \cup {s} /\ Answers(s, to, targets[k])
    BY <1>5, <2>6, Zenon
  <2> QED BY <2>4, <2>6, <2>7, <2>8, Zenon
<1>7. good(n)
  <2>1. n \in 0..n
    OBVIOUS
  <2> QED BY <1>6, <2>1, Zenon
<1>8. ASSUME l # 1, n = 1 PROVE ~f[n].blk.dirty /\ \E r : f[n].resps = {r}
  <2>1. 1 \in 1..n /\ 1 - 1 = 0
    BY <1>8
  <2>2. ~f[1].blk.dirty /\ \E r : f[1].resps = {} \cup {r}
    BY <1>4, <1>5, <1>8, <2>1
  <2>3. \A r : {} \cup {r} = {r}
    OBVIOUS
  <2>4. \E r : f[1].resps = {r}
    BY <2>2, <2>3, Zenon
  <2> QED BY <1>8, <2>2, <2>4, Zenon
<1> QED BY <1>2, <1>7, <1>8, Zenon DEF ServedAll

-----------------------------------------------------------------------------
(* Accepting a packet and taking a fill *)

\* The blocks an eviction may be queued for when room is made or rows are flushed
MayLeave(l, c) == Leaving(c) \cup Dirty(c) \cup (Valid(c) \ CachedAbove(l))

RowOpTaken(l, c, d, x, n) ==
    /\ CacheOK(l, d)
    /\ Missed(d) = Missed(c) /\ Fetched(d) = Fetched(c)
    /\ Ops(d) = Ops(c) \cup {x} /\ OpsSent(d) = OpsSent(c)
    /\ Valid(d) \subseteq Valid(c) /\ Dirty(d) \subseteq Dirty(c)
    /\ Leaving(d) \subseteq MayLeave(l, c)
    /\ Len(d.q) <= Len(c.q) + n

(* A row operation is queued behind the evictions of its rows. *)
LEMMA TakeRowOp ==
    ASSUME NEW l, NEW c, CacheOK(l, c), NEW p, p.cmd = "RowOp", p.id \in Nat \ Ops(c),
           p.rows \in Rows \X Rows, NEW out, out = AcceptRowOp(l, c, p)
    PROVE  /\ RowOpTaken(l, c, out.c, p.id, 2 * Len(p.rows[1]) + 2)
           /\ out.resps = {}
<1> DEFINE f == FlushRows(l, c, p.rows[1], p.rows[2])
           m == MSHR("write", p)
           n == Len(p.rows[1])
           d == Appended(f.blk, f.q, m)
<1>1. p.rows[1] \in Rows /\ p.rows[2] \in Rows /\ n \in Nat
  BY RowsAssumption
<1>2. FlushOf(CachedAbove(l), l, c, f, 2 * n + 1)
  BY <1>1, FlushAll, Zenon
<1>3. /\ EntryOK(l, m) /\ IsOp(m) /\ OpId(m) = p.id /\ ~m.inService
      /\ ~IsMiss(m) /\ ~IsEvict(m)
  <2>1. EntryOK(l, m) /\ IsOp(m) /\ OpId(m) = p.id
    BY OpEntry
  <2>2. ~m.inService
    BY EntryFields
  <2> QED BY <2>1, <2>2, Kinds, Zenon
<1>4. out = Outcome([f EXCEPT !.q = Append(@, m)], {})
  BY Zenon DEF AcceptRowOp
<1> HIDE DEF f, m, n
<1>5. CacheOK(l, f) /\ Ops(f) = Ops(c)
  BY <1>2, Zenon DEF FlushOf
<1>6. f = [blk |-> f.blk, q |-> f.q] /\ IsBlk(f.blk) /\ Len(f.q) \in Nat
  BY <1>5, QueueFacts, Zenon
<1>7. out.c = d /\ out.resps = {} /\ d.blk = f.blk
  <2> DEFINE q == Append(f.q, m)
  <2>1. out = [c |-> [f EXCEPT !.q = q], resps |-> {}]
    BY <1>4 DEF Outcome
  <2>2. d = [blk |-> f.blk, q |-> q]
    BY Zenon DEF Appended
  <2> HIDE DEF q, d
  <2>3. [f EXCEPT !.q = q] = [blk |-> f.blk, q |-> q]
    BY <1>6
  <2>4. out = [c |-> d, resps |-> {}]
    BY <2>1, <2>2, <2>3, Zenon
  <2> QED BY <2>2, <2>4
<1> HIDE DEF d
<1>8. \A k \in Items(f.q) : Before(k, m)
  BY <1>3, <1>5, NewEntry, Zenon
<1>9. MayAppend(l, f, f.blk, m)
  BY <1>3, <1>6, <1>8, Zenon DEF MayAppend
<1>10. CacheOK(l, d) /\ Len(d.q) = Len(f.q) + 1 /\ Items(d.q) = Items(f.q) \cup {m}
  <2>1. d = Appended(f.blk, f.q, m)
    BY Zenon DEF d
  <2> QED BY <1>5, <1>9, <2>1, AppendEntry
<1>11. Seen(d, Missed(f), Fetched(f), Leaving(f), Ops(f) \cup {OpId(m)}, OpsSent(f))
  BY <1>3, <1>10, Added, Zenon
<1>12. Valid(d) = Valid(f) /\ Dirty(d) = Dirty(f)
  BY <1>7, Zenon DEF Valid, Dirty
<1>13. Len(d.q) <= Len(c.q) + (2 * n + 2)
  <2>1. Len(f.q) <= Len(c.q) + (2 * n + 1) /\ Len(c.q) \in Nat
    BY <1>2, QueueFacts, Zenon DEF FlushOf
  <2>2. \A x, y, z \in Nat : x <= y + (2 * z + 1) => x + 1 <= y + (2 * z + 2)
    OBVIOUS
  <2> QED BY <1>1, <1>6, <1>10, <2>1, <2>2, Zenon
<1>14. /\ Missed(f) = Missed(c) /\ Fetched(f) = Fetched(c) /\ Ops(f) = Ops(c)
       /\ OpsSent(f) = OpsSent(c) /\ Valid(f) \subseteq Valid(c) /\ Dirty(f) \subseteq Dirty(c)
       /\ Leaving(f) \subseteq MayLeave(l, c)
  BY <1>2, Zenon DEF FlushOf, MayLeave
<1>15. /\ Missed(d) = Missed(f) /\ Fetched(d) = Fetched(f) /\ Ops(d) = Ops(f) \cup {p.id}
       /\ OpsSent(d) = OpsSent(f) /\ Leaving(d) = Leaving(f)
  BY <1>3, <1>11, Zenon DEF Seen
<1>16. RowOpTaken(l, c, d, p.id, 2 * n + 2)
  BY <1>10, <1>12, <1>13, <1>14, <1>15, Zenon DEF RowOpTaken
<1> QED BY <1>7, <1>16, Zenon DEF n

EvictTaken(l, c, d, b) ==
    /\ CacheOK(l, d)
    /\ Missed(d) = Missed(c) /\ Fetched(d) = Fetched(c)
    /\ Ops(d) = Ops(c) /\ OpsSent(d) = OpsSent(c)
    /\ Valid(d) \subseteq Valid(c) \cup {b} /\ Dirty(d) \subseteq Dirty(c) \cup {b}
    /\ Leaving(d) \subseteq MayLeave(l, c) \cup {b}
    /\ Len(d.q) <= Len(c.q) + 1

\* Block b of cache room becomes v
Put(room, b, v) == [blk |-> [room.blk EXCEPT ![b] = v], q |-> room.q]

PutIn(c, room, d, b, v) ==
    /\ d.q = room.q
    /\ Seen(d, Missed(c), Fetched(c), Leaving(room), Ops(c), OpsSent(c))
    /\ Valid(d) \subseteq Valid(c) \cup {b} /\ Dirty(d) \subseteq Dirty(c) \cup {b}
    /\ ~v.dirty => Dirty(d) \subseteq Dirty(c)

(* A block is put in, where there was room for it. *)
LEMMA PutBlock ==
    ASSUME NEW l, NEW c, CacheOK(l, c), NEW b \in Blocks, NEW v, NEW room, NEW k,
           FlushOf(CachedAbove(l), l, c, room, k),
           b \notin Missed(room), b \notin Leaving(room), NEW d, d = Put(room, b, v)
    PROVE  CacheOK(l, d) /\ PutIn(c, room, d, b, v)
<1>1. CacheOK(l, room)
  BY Zenon DEF FlushOf
<1>2. /\ CacheOK(l, d) /\ d.q = room.q
      /\ \A a \in Blocks : d.blk[a] = IF a = b THEN v ELSE room.blk[a]
  BY <1>1, SetBlock DEF Put
<1>3. Seen(d, Missed(room), Fetched(room), Leaving(room), Ops(room), OpsSent(room))
  BY <1>2, Zenon DEF Seen, Missed, Fetched, Leaving, Ops, OpsSent
<1>4. Seen(d, Missed(c), Fetched(c), Leaving(room), Ops(c), OpsSent(c))
  BY <1>3, Zenon DEF FlushOf, Seen
<1>5. \A a : a \in Valid(room) => a \in Valid(c)
  BY Zenon DEF FlushOf
<1>6. \A a : a \in Dirty(room) => a \in Dirty(c)
  BY Zenon DEF FlushOf
<1>7. \A a \in Valid(d) : a # b => a \in Valid(room)
  BY <1>2, Zenon DEF Valid
<1>8. \A a \in Dirty(d) : a # b => a \in Dirty(room)
  BY <1>2, Zenon DEF Dirty
<1>9. ~v.dirty => b \notin Dirty(d)
  BY <1>2, Zenon DEF Dirty
<1> QED BY <1>2, <1>4, <1>5, <1>6, <1>7, <1>8, <1>9, Zenon DEF PutIn

PutOut(c, b, v, rs) == Outcome([c EXCEPT !.blk[b] = v], rs)

(* Setting a block of a cache is putting it in. *)
LEMMA PutIs ==
    ASSUME NEW l, NEW c, CacheOK(l, c), NEW b, NEW v, NEW rs,
           NEW out, out = PutOut(c, b, v, rs)
    PROVE  out.c = Put(c, b, v) /\ out.resps = rs
<1>1. c = [blk |-> c.blk, q |-> c.q]
  BY QueueFacts, Zenon
<1> DEFINE B == [c.blk EXCEPT ![b] = v]
<1>2. out = [c |-> [c EXCEPT !.blk = B], resps |-> rs]
  BY Zenon DEF Outcome, PutOut
<1>3. Put(c, b, v) = [blk |-> B, q |-> c.q]
  BY Zenon DEF Put
<1> HIDE DEF B
<1>4. [c EXCEPT !.blk = B] = [blk |-> B, q |-> c.q]
  BY <1>1
<1> QED BY <1>2, <1>3, <1>4

(* An eviction from above is taken in, passed on or dropped. *)
LEMMA TakeEvict ==
    ASSUME NEW l, NEW c, CacheOK(l, c), NEW p, p.cmd \in {"Writeback", "CleanEvict"},
           p.blk \in Blocks, p.blk \notin Missed(c), p.blk \notin Leaving(c),
           NEW out \in AcceptEviction(l, c, p)
    PROVE  EvictTaken(l, c, out.c, p.blk) /\ out.resps = {}
<1> DEFINE b == p.blk
<1>0. Len(c.q) \in Nat /\ c = [blk |-> c.blk, q |-> c.q] /\ IsBlk(c.blk)
  BY QueueFacts, Zenon
<1>1. CASE p.cmd = "Writeback"
  <2> DEFINE v == Block(p.data, TRUE)
  <2>1. PICK room \in allocateBlock(l, c, b) : out = PutOut(room, b, v, {})
    BY <1>1, Zenon DEF AcceptEviction, PutOut
  <2>2. FlushOf(CachedAbove(l), l, c, room, 1) /\ (b \in Valid(c) => room = c)
    BY MakeRoom, Zenon
  <2>3. CacheOK(l, room)
    BY <2>2, Zenon DEF FlushOf
  <2>4. out.c = Put(room, b, v) /\ out.resps = {}
    <3> HIDE DEF v, b
    <3>1. out = PutOut(room, b, v, {})
      BY <2>1, Zenon
    <3> QED BY <2>3, <3>1, PutIs
  <2>5. Leaving(room) \subseteq MayLeave(l, c) /\ Missed(room) = Missed(c)
    BY <2>2, Zenon DEF FlushOf, MayLeave
  <2>6. b \notin Missed(room) /\ b \notin Leaving(room)
    <3>1. b \notin Valid(c) => b \notin MayLeave(l, c)
      BY Zenon DEF MayLeave, Dirty, Valid
    <3> QED BY <2>2, <2>5, <3>1, Zenon
  <2>7. CacheOK(l, out.c) /\ PutIn(c, room, out.c, b, v)
    BY <2>2, <2>4, <2>6, PutBlock, Zenon
  <2>8. Len(out.c.q) <= Len(c.q) + 1
    BY <2>2, <2>7, Zenon DEF FlushOf, PutIn
  <2> QED BY <2>4, <2>5, <2>7, <2>8, Zenon DEF EvictTaken, Seen, PutIn
<1>2. CASE p.cmd # "Writeback" /\ out = Outcome(c, {})
  <2>1. out.c = c /\ out.resps = {}
    BY <1>2 DEF Outcome
  <2>2. Len(c.q) <= Len(c.q) + 1
    BY <1>0
  <2> QED BY <2>1, <2>2, Zenon DEF EvictTaken, MayLeave
<1>3. CASE p.cmd # "Writeback" /\ out # Outcome(c, {})
  <2> DEFINE m == MSHR("write", p)
             q == Append(c.q, m)
             d == Appended(c.blk, c.q, m)
  <2>1. ~c.blk[b].valid /\ out = Outcome([c EXCEPT !.q = q], {})
    BY <1>3, Zenon DEF AcceptEviction
  <2>2. EntryOK(l, m) /\ IsEvict(m) /\ m.blk = b /\ ~m.inService /\ ~IsMiss(m) /\ ~IsOp(m)
    <3>1. EntryOK(l, m) /\ IsEvict(m)
      BY EvictEntry
    <3>2. m.blk = b /\ ~m.inService
      BY EntryFields
    <3> QED BY <3>1, <3>2, Kinds, Zenon
  <2> HIDE DEF m
  <2>3. out.c = d /\ out.resps = {} /\ d.blk = c.blk
    <3>1. out = [c |-> [c EXCEPT !.q = q], resps |-> {}]
      BY <2>1, Zenon DEF Outcome
    <3>2. d = [blk |-> c.blk, q |-> q]
      BY Zenon DEF Appended
    <3> HIDE DEF q, d
    <3>3. [c EXCEPT !.q = q] = [blk |-> c.blk, q |-> q]
      BY <1>0
    <3>4. out = [c |-> d, resps |-> {}]
      BY <3>1, <3>2, <3>3, Zenon
    <3> QED BY <3>2, <3>4
  <2> HIDE DEF d
  <2>4. \A k \in Items(c.q) : Before(k, m)
    BY <2>2, NewEntry, Zenon
  <2>5. MayAppend(l, c, c.blk, m)
    BY <1>0, <2>1, <2>2, <2>4, Zenon DEF MayAppend
  <2>6. CacheOK(l, d) /\ Len(d.q) = Len(c.q) + 1 /\ Items(d.q) = Items(c.q) \cup {m}
    <3>1. d = Appended(c.blk, c.q, m)
      BY Zenon DEF d
    <3> QED BY <2>5, <3>1, AppendEntry
  <2>7. Seen(d, Missed(c), Fetched(c), Leaving(c) \cup {b}, Ops(c), OpsSent(c))
    BY <2>2, <2>6, Added, Zenon
  <2>8. Valid(d) = Valid(c) /\ Dirty(d) = Dirty(c)
    BY <2>3, Zenon DEF Valid, Dirty
  <2>9. Len(d.q) <= Len(c.q) + 1
    BY <1>0, <2>6
  <2> QED BY <2>3, <2>6, <2>7, <2>8, <2>9, Zenon DEF EvictTaken, Seen, MayLeave
<1> QED BY <1>1, <1>2, <1>3, Zenon

AccessTaken(l, c, d, rs, p) ==
    /\ CacheOK(l, d)
    /\ Fetched(d) = Fetched(c) /\ Leaving(d) = Leaving(c)
    /\ Ops(d) = Ops(c) /\ OpsSent(d) = OpsSent(c)
    /\ Valid(d) \subseteq Valid(c)
    /\ Len(d.q) <= Len(c.q) + 1
    /\ \/ /\ p.blk \in Valid(c) /\ Missed(d) = Missed(c)
          /\ l # 1 => Dirty(d) \subseteq Dirty(c) \ {p.blk}
          /\ \E r : rs = {r} /\ Answers(r, l - 1, p)
       \/ rs = {} /\ Missed(d) = Missed(c) \cup {p.blk} /\ Dirty(d) = Dirty(c)

(* A hit is answered at once. *)
LEMMA TakeHit ==
    ASSUME NEW l, NEW c, CacheOK(l, c), NEW p, p.cmd \in Cmds(l), p.blk \in Blocks,
           c.blk[p.blk].valid, NEW out, out = AcceptAccess(l, c, p)
    PROVE  AccessTaken(l, c, out.c, out.resps, p)
<1> DEFINE b == p.blk
           s == satisfyCpuSideRequest(c.blk[b], p, l - 1)
           d == Put(c, b, s.blk)
<1>1. Answers(s.resp, l - 1, p) /\ (l # 1 => ~s.blk.dirty)
  BY Satisfied, Zenon
<1>2. out = PutOut(c, b, s.blk, {s.resp})
  BY Zenon DEF AcceptAccess, PutOut
<1> HIDE DEF s
<1>3. out.c = d /\ out.resps = {s.resp}
  BY <1>2, PutIs
<1>4. Len(c.q) \in Nat /\ c = [blk |-> c.blk, q |-> c.q]
  BY QueueFacts, Zenon
<1>5. b \in Valid(c) /\ b \notin Missed(c) \cup Leaving(c)
  BY Apart, Zenon DEF Valid
<1>6. /\ CacheOK(l, d) /\ d.q = c.q
      /\ \A a \in Blocks : d.blk[a] = IF a = b THEN s.blk ELSE c.blk[a]
  BY <1>5, SetBlock DEF Put
<1> HIDE DEF d
<1>7. Seen(d, Missed(c), Fetched(c), Leaving(c), Ops(c), OpsSent(c))
  BY <1>6, Zenon DEF Seen, Missed, Fetched, Leaving, Ops, OpsSent
<1>8. Valid(d) \subseteq Valid(c)
  BY <1>5, <1>6, Zenon DEF Valid
<1>9. l # 1 => Dirty(d) \subseteq Dirty(c) \ {b}
  <2>1. \A a \in Dirty(d) : a # b => a \in Dirty(c)
    BY <1>6, Zenon DEF Dirty
  <2>2. l # 1 => b \notin Dirty(d)
    BY <1>1, <1>6, Zenon DEF Dirty
  <2> QED BY <2>1, <2>2, Zenon
<1>10. Len(d.q) <= Len(c.q) + 1
  BY <1>4, <1>6
<1> QED BY <1>1, <1>3, <1>5, <1>6, <1>7, <1>8, <1>9, <1>10, Zenon DEF AccessTaken, Seen

(* A target more: the entry stays the entry it was. *)
LEMMA MoreTargets ==
    ASSUME NEW m, EntryOK(1, m), IsMiss(m), NEW p, TargetOK(1, p, m.blk),
           NEW n, n = allocateTarget(m, p)
    PROVE  EntryOK(1, n) /\ SameUse(m, n) /\ (m.inService <=> n.inService)
<1>1. /\ IsEntry(m) /\ m.queue = "miss" /\ IsList(m.targets) /\ IsList(m.deferred)
      /\ Len(m.targets) >= 1 /\ m.blk \in Blocks
      /\ \A k \in 1..Len(m.targets) : TargetOK(1, m.targets[k], m.blk)
      /\ \A k \in 1..Len(m.deferred) : TargetOK(1, m.deferred[k], m.blk)
  BY Zenon DEF EntryOK, IsMiss
<1> DEFINE Longer(t, q) ==
              /\ IsList(t) /\ Len(t) >= Len(q) /\ (Len(q) >= 1 => t[1] = q[1])
              /\ \A k \in 1..Len(t) : TargetOK(1, t[k], m.blk)
           Same(t, e) == /\ IsEntry(n) /\ n.queue = m.queue /\ n.blk = m.blk
                         /\ n.targets = t /\ n.deferred = e
                         /\ n.inService = m.inService
<1>2. ASSUME NEW q, IsList(q), \A k \in 1..Len(q) : TargetOK(1, q[k], m.blk)
      PROVE  Longer(Append(q, p), q) /\ Longer(q, q)
  <2>1. Len(q) \in Nat
    BY <1>2, ListFacts, Zenon
  <2>2. /\ IsList(Append(q, p)) /\ Len(Append(q, p)) = Len(q) + 1
        /\ \A i \in 1..Len(q) : Append(q, p)[i] = q[i]
        /\ Append(q, p)[Len(q) + 1] = p
    BY <1>2, ListAppend
  <2>3. \A k \in 1..Len(q) + 1 : k \in 1..Len(q) \/ k = Len(q) + 1
    BY <2>1
  <2>4. \A k \in 1..Len(Append(q, p)) : TargetOK(1, Append(q, p)[k], m.blk)
    BY <1>2, <2>2, <2>3, Zenon
  <2>5. Len(q) >= 1 => 1 \in 1..Len(q)
    BY <2>1
  <2>6. Len(q) + 1 >= Len(q) /\ Len(q) >= Len(q)
    BY <2>1
  <2> QED BY <1>2, <2>2, <2>4, <2>5, <2>6, Zenon
<1>3. PICK t, e : Longer(t, m.targets) /\ Longer(e, m.deferred) /\ Same(t, e)
  <2> DEFINE Fields == {"queue", "blk", "targets", "deferred", "inService", "pendingDirty"}
             t == Append(m.targets, p)
             e == Append(m.deferred, p)
  <2>1. Longer(t, m.targets) /\ Longer(m.targets, m.targets)
    BY <1>1, <1>2, Zenon
  <2>2. Longer(e, m.deferred) /\ Longer(m.deferred, m.deferred)
    BY <1>1, <1>2, Zenon
  <2>3. m = [f \in Fields |-> m[f]]
    BY <1>1, Zenon DEF IsEntry
  <2>4. n = [m EXCEPT !.deferred = e] \/ n = [m EXCEPT !.targets = t]
    BY Zenon DEF allocateTarget
  <2> HIDE DEF t, e, Longer
  <2>5. ASSUME n = [m EXCEPT !.deferred = e] PROVE Same(m.targets, e)
    BY <2>3, <2>5, Zenon DEF IsEntry
  <2>6. ASSUME n = [m EXCEPT !.targets = t] PROVE Same(t, m.deferred)
    BY <2>3, <2>6, Zenon DEF IsEntry
  <2> QED BY <2>1, <2>2, <2>4, <2>5, <2>6, Zenon
<1>4. n.targets[1] = m.targets[1] /\ IsMiss(n) /\ ~IsEvict(n) /\ ~IsOp(n)
  BY <1>1, <1>3, Kinds, Zenon DEF IsMiss
<1>5. SameUse(m, n)
  BY <1>1, <1>3, <1>4, Kinds, Zenon DEF SameUse, OpId
<1>6. Len(t) >= 1
  <2>1. Len(t) \in Nat /\ Len(m.targets) \in Nat
    BY <1>1, <1>3, ListFacts, Zenon
  <2>2. \A x, y \in Nat : x >= y /\ y >= 1 => x >= 1
    OBVIOUS
  <2> QED BY <1>1, <1>3, <2>1, <2>2, Zenon
<1>7. EntryOK(1, n)
  BY <1>1, <1>3, <1>4, <1>6, Zenon DEF EntryOK
<1> QED BY <1>3, <1>5, <1>7, Zenon

(* A miss waits in the queue: the core's second one for a block with the   *)
(* first, any other in an entry of its own.                                *)
LEMMA TakeMiss ==
    ASSUME NEW l, NEW c, CacheOK(l, c), NEW p, p.cmd \in Cmds(l), p.blk \in Blocks,
           l # 1 => p.blk \notin Missed(c), ~c.blk[p.blk].valid,
           NEW out, out = AcceptAccess(l, c, p)
    PROVE  AccessTaken(l, c, out.c, out.resps, p)
<1> DEFINE b == p.blk
           S == findMatch(c, "miss", b)
<1>1. /\ Len(c.q) \in Nat /\ c = [blk |-> c.blk, q |-> c.q] /\ IsBlk(c.blk) /\ IsList(c.q)
      /\ \A k \in 1..Len(c.q) : EntryOK(l, c.q[k]) /\ c.q[k] \in Items(c.q)
  BY QueueFacts, Zenon
<1>2. /\ \A i : i \in S <=> i \in 1..Len(c.q) /\ IsMiss(c.q[i]) /\ c.q[i].blk = b
      /\ S # {} <=> b \in Missed(c)
  BY Matches, Zenon
<1>3. CASE S # {}
  <2> DEFINE i == CHOOSE i \in S : TRUE
             m == c.q[i]
             n == allocateTarget(m, p)
             d == With(c, i, n)
  <2>1. i \in 1..Len(c.q) /\ IsMiss(m) /\ m.blk = b /\ l = 1 /\ b \in Missed(c)
    <3>1. i \in S
      BY <1>3, Zenon
    <3> QED BY <1>2, <1>3, <3>1, Zenon
  <2>2. out = Outcome([c EXCEPT !.q[i] = n], {})
    BY <1>3, Zenon DEF AcceptAccess
  <2> HIDE DEF i, S
  <2>3. EntryOK(l, n) /\ SameUse(m, n) /\ (m.inService <=> n.inService)
    <3>1. EntryOK(1, m) /\ TargetOK(1, p, m.blk)
      BY <1>1, <2>1, Zenon DEF TargetOK
    <3>2. n = allocateTarget(m, p)
      OBVIOUS
    <3> HIDE DEF n, m
    <3>3. EntryOK(1, n) /\ SameUse(m, n) /\ (m.inService <=> n.inService)
      BY <2>1, <3>1, <3>2, MoreTargets
    <3> QED BY <2>1, <3>3, Zenon
  <2> HIDE DEF n
  <2>4. out.c = d /\ out.resps = {} /\ d.blk = c.blk
    <3> DEFINE q == [c.q EXCEPT ![i] = n]
    <3>1. out = [c |-> [c EXCEPT !.q = q], resps |-> {}]
      BY <2>2, Zenon DEF Outcome
    <3>2. d = [blk |-> c.blk, q |-> q]
      BY Zenon DEF With, ReplaceAt
    <3> HIDE DEF q, d
    <3>3. [c EXCEPT !.q = q] = [blk |-> c.blk, q |-> q]
      BY <1>1
    <3>4. out = [c |-> d, resps |-> {}]
      BY <3>1, <3>2, <3>3, Zenon
    <3> QED BY <3>2, <3>4
  <2> HIDE DEF d
  <2>5. MayReplace(l, c, i, n)
    BY <2>1, <2>3, Zenon DEF MayReplace
  <2>6. CacheOK(l, d) /\ Len(d.q) = Len(c.q) /\ Items(d.q) = (Items(c.q) \ {m}) \cup {n}
    <3>1. d = With(c, i, n)
      BY Zenon DEF d
    <3> QED BY <2>5, <3>1, ReplaceEntry
  <2>7. Seen(d, Missed(c), Fetched(c), Leaving(c), Ops(c), OpsSent(c))
    <3>1. m \in Items(c.q)
      BY <1>1, <2>1, Zenon
    <3> QED BY <2>3, <2>6, <3>1, Replaced, Zenon
  <2>8. Valid(d) = Valid(c) /\ Dirty(d) = Dirty(c)
    BY <2>4, Zenon DEF Valid, Dirty
  <2>9. Len(d.q) <= Len(c.q) + 1 /\ Missed(c) = Missed(c) \cup {b}
    BY <1>1, <2>1, <2>6
  <2> QED BY <2>4, <2>6, <2>7, <2>8, <2>9, Zenon DEF AccessTaken, Seen
<1>4. CASE S = {}
  <2> DEFINE m == MSHR("miss", p)
             q == Append(c.q, m)
             d == Appended(c.blk, c.q, m)
  <2>1. out = Outcome([c EXCEPT !.q = q], {}) /\ b \notin Missed(c)
    BY <1>2, <1>4, Zenon DEF AcceptAccess
  <2>2. EntryOK(l, m) /\ IsMiss(m) /\ m.blk = b /\ ~m.inService /\ ~IsEvict(m) /\ ~IsOp(m)
    <3>1. EntryOK(l, m) /\ IsMiss(m)
      BY MissEntry
    <3>2. m.blk = b /\ ~m.inService
      BY EntryFields
    <3> QED BY <3>1, <3>2, Kinds, Zenon
  <2> HIDE DEF m
  <2>3. out.c = d /\ out.resps = {} /\ d.blk = c.blk
    <3>1. out = [c |-> [c EXCEPT !.q = q], resps |-> {}]
      BY <2>1, Zenon DEF Outcome
    <3>2. d = [blk |-> c.blk, q |-> q]
      BY Zenon DEF Appended
    <3> HIDE DEF q, d
    <3>3. [c EXCEPT !.q = q] = [blk |-> c.blk, q |-> q]
      BY <1>1
    <3>4. out = [c |-> d, resps |-> {}]
      BY <3>1, <3>2, <3>3, Zenon
    <3> QED BY <3>2, <3>4
  <2> HIDE DEF d
  <2>4. \A k \in Items(c.q) : Before(k, m)
    BY <2>1, <2>2, NewEntry, Zenon
  <2>5. MayAppend(l, c, c.blk, m)
    BY <1>1, <2>2, <2>4, Zenon DEF MayAppend
  <2>6. CacheOK(l, d) /\ Len(d.q) = Len(c.q) + 1 /\ Items(d.q) = Items(c.q) \cup {m}
    <3>1. d = Appended(c.blk, c.q, m)
      BY Zenon DEF d
    <3> QED BY <2>5, <3>1, AppendEntry
  <2>7. Seen(d, Missed(c) \cup {b}, Fetched(c), Leaving(c), Ops(c), OpsSent(c))
    BY <2>2, <2>6, Added, Zenon
  <2>8. Valid(d) = Valid(c) /\ Dirty(d) = Dirty(c)
    BY <2>3, Zenon DEF Valid, Dirty
  <2>9. Len(d.q) <= Len(c.q) + 1
    BY <1>1, <2>6
  <2> QED BY <2>3, <2>6, <2>7, <2>8, <2>9, Zenon DEF AccessTaken, Seen
<1> QED BY <1>3, <1>4, Zenon

FillTaken(l, c, d, rs, b) ==
    /\ CacheOK(l, d)
    /\ Missed(d) = Missed(c) \ {b} /\ Fetched(d) = Fetched(c) \ {b}
    /\ Ops(d) = Ops(c) /\ OpsSent(d) = OpsSent(c)
    /\ Valid(d) \subseteq Valid(c) \cup {b}
    /\ l # 1 => Dirty(d) \subseteq Dirty(c) /\ b \notin Dirty(d)
    /\ Leaving(d) \subseteq MayLeave(l, c) /\ b \notin Leaving(d)
    /\ Len(d.q) <= Len(c.q)
    /\ \A r \in rs : RespOK(r) /\ r.to = l - 1 /\ r.cmd # "RowOp" /\ r.blk = b
    /\ l # 1 => \E r : rs = {r}

(* What findMatch finds is a miss of the block. *)
LEMMA MatchAt ==
    ASSUME NEW l, NEW c, CacheOK(l, c), NEW b, NEW i \in findMatch(c, "miss", b)
    PROVE  i \in 1..Len(c.q) /\ IsMiss(c.q[i]) /\ c.q[i].blk = b
<1>1. DOMAIN c.q = 1..Len(c.q)
  BY QueueFacts, Zenon
<1> QED BY <1>1, Zenon DEF findMatch, Allocated, IsMiss

FillResps(l, s, b) ==
    /\ \A r \in s.resps : RespOK(r) /\ r.to = l - 1 /\ r.cmd # "RowOp" /\ r.blk = b
    /\ l # 1 => ~s.blk.dirty /\ \E r : s.resps = {r}

(* The targets of a miss are answered. *)
LEMMA FillAnswers ==
    ASSUME NEW l \in Levels, NEW m, EntryOK(l, m), IsMiss(m), NEW blk, NEW s,
           s = Serve(blk, m.targets \o m.deferred, l - 1)
    PROVE  FillResps(l, s, m.blk)
<1> DEFINE S == Items(m.targets) \cup Items(m.deferred)
           t == m.targets \o m.deferred
<1>1. /\ IsList(m.targets) /\ IsList(m.deferred) /\ m.blk \in Blocks
      /\ \A k \in 1..Len(m.targets) : TargetOK(l, m.targets[k], m.blk)
      /\ \A k \in 1..Len(m.deferred) : TargetOK(l, m.deferred[k], m.blk)
      /\ l # 1 => Len(m.targets) = 1 /\ Len(m.deferred) = 0
  BY Zenon DEF EntryOK
<1>2. m.targets \in Seq(S) /\ m.deferred \in Seq(S)
  BY <1>1 DEF IsList
<1>3. \A x \in S : TargetOK(l, x, m.blk)
  <2>1. ASSUME NEW q, IsList(q), \A k \in 1..Len(q) : TargetOK(l, q[k], m.blk),
               NEW x \in Items(q)
        PROVE  TargetOK(l, x, m.blk)
    BY <2>1, ListFacts, Zenon
  <2> QED BY <1>1, <2>1, Zenon
<1> HIDE DEF S
<1>4. t \in Seq(S) /\ Len(t) = Len(m.targets) + Len(m.deferred)
  BY <1>2
<1> HIDE DEF t
<1>5. /\ Len(t) \in Nat /\ \A k \in 1..Len(t) : t[k] \in S
      /\ l # 1 => Len(t) = 1
  <2>1. Len(t) \in Nat /\ \A k \in 1..Len(t) : t[k] \in S
    <3>1. ASSUME NEW q \in Seq(S) PROVE Len(q) \in Nat /\ \A k \in 1..Len(q) : q[k] \in S
      OBVIOUS
    <3> QED BY <1>4, <3>1, Zenon
  <2>2. l # 1 => Len(t) = 1 + 0
    BY <1>1, <1>4, Zenon
  <2> QED BY <2>1, <2>2
<1>6. \A k \in 1..Len(t) : t[k].cmd \in Cmds(l) /\ t[k].blk = m.blk /\ t[k].cmd # "RowOp"
  <2>1. "RowOp" \notin Cmds(l)
    BY DEF Cmds
  <2> QED BY <1>3, <1>5, <2>1, Zenon DEF TargetOK
<1>7. s = Serve(blk, t, l - 1)
  BY Zenon DEF t
<1>8. /\ \A r \in s.resps : \E k \in 1..Len(t) : Answers(r, l - 1, t[k])
      /\ l # 1 /\ Len(t) = 1 => ~s.blk.dirty /\ \E r : s.resps = {r}
  <2>1. ServedAll(l, s, t, l - 1)
    BY <1>5, <1>6, <1>7, Served, Zenon
  <2> QED BY <2>1, Zenon DEF ServedAll
<1>9. l - 1 \in 0..Depth
  BY DepthAssumption DEF Levels
<1>10. ASSUME NEW r \in s.resps
       PROVE  RespOK(r) /\ r.to = l - 1 /\ r.cmd # "RowOp" /\ r.blk = m.blk
  <2>1. PICK k \in 1..Len(t) : Answers(r, l - 1, t[k])
    BY <1>8, Zenon
  <2> DEFINE p == t[k]
  <2>2. p.blk = m.blk /\ p.cmd # "RowOp" /\ p.blk \in Blocks
    BY <1>1, <1>6, Zenon
  <2> HIDE DEF p
  <2>3. Answers(r, l - 1, p)
    BY <2>1, Zenon DEF p
  <2>4. RespOK(r) /\ r.to = l - 1 /\ r.cmd = p.cmd /\ r.blk = p.blk
    BY <1>9, <2>2, <2>3, AnswerFields, Zenon
  <2> QED BY <2>2, <2>4, Zenon
<1> QED BY <1>5, <1>8, <1>10, Zenon DEF FillResps

(* A fill ends the miss it answers. *)
LEMMA TakeFill ==
    ASSUME NEW l \in Levels, NEW c, CacheOK(l, c), NEW r, r.blk \in Fetched(c),
           NEW out \in Fill(l, c, r)
    PROVE  FillTaken(l, c, out.c, out.resps, r.blk)
<1> DEFINE b == r.blk
           i == CHOOSE j \in findMatch(c, "miss", b) : TRUE
           m == c.q[i]
           blk == Block(r.data, r.dirty)
           s == Serve(blk, m.targets \o m.deferred, l - 1)
           e == Without(c, i)
<1>1. /\ Len(c.q) \in Nat /\ c = [blk |-> c.blk, q |-> c.q]
      /\ \A k \in 1..Len(c.q) : EntryOK(l, c.q[k]) /\ c.q[k] \in Items(c.q)
  BY QueueFacts, Zenon
<1>2. b \in Blocks /\ b \in Missed(c) /\ b \notin Leaving(c) /\ b \notin Valid(c)
  <2>1. b \in Fetched(c) /\ b \in Blocks
    BY Zenon DEF Fetched
  <2> QED BY <2>1, Apart, Zenon
<1>3. i \in 1..Len(c.q) /\ IsMiss(m) /\ m.blk = b
  <2>1. findMatch(c, "miss", b) # {}
    BY <1>2, Matches, Zenon
  <2>2. i \in findMatch(c, "miss", b)
    BY <2>1, Zenon
  <2> HIDE DEF i
  <2> QED BY <2>2, MatchAt
<1>4. PICK room \in allocateBlock(l, e, b) : out = PutOut(room, b, s.blk, s.resps)
  <2>1. PICK room \in allocateBlock(l, [c EXCEPT !.q = RemoveAt(@, i)], b) :
            out = PutOut(room, b, s.blk, s.resps)
    BY Zenon DEF Fill, PutOut
  <2> DEFINE q == RemoveAt(c.q, i)
  <2>2. e = [blk |-> c.blk, q |-> q]
    BY Zenon DEF Without
  <2> HIDE DEF q, e
  <2>3. [c EXCEPT !.q = q] = [blk |-> c.blk, q |-> q]
    BY <1>1
  <2>4. [c EXCEPT !.q = RemoveAt(@, i)] = e
    BY <2>2, <2>3, Zenon DEF q
  <2> QED BY <2>1, <2>4, Zenon
<1> HIDE DEF i
<1>5. /\ \A x \in s.resps : RespOK(x) /\ x.to = l - 1 /\ x.cmd # "RowOp" /\ x.blk = b
      /\ l # 1 => ~s.blk.dirty /\ \E x : s.resps = {x}
  <2>1. EntryOK(l, m)
    BY <1>1, <1>3, Zenon
  <2>2. s = Serve(blk, m.targets \o m.deferred, l - 1)
    OBVIOUS
  <2> HIDE DEF s, m, blk
  <2>3. FillResps(l, s, m.blk)
    BY <1>3, <2>1, <2>2, FillAnswers, Zenon
  <2> QED BY <1>3, <2>3, Zenon DEF FillResps
<1> HIDE DEF s
<1>6. CacheOK(l, e) /\ Lost(c, e, m)
  BY <1>3, RemoveEntry, Zenon
<1>7. Seen(e, Missed(c) \ {b}, Fetched(c) \ {b}, Leaving(c), Ops(c), OpsSent(c))
  <2>1. m \in Items(c.q)
    BY <1>1, <1>3, Zenon
  <2> HIDE DEF e, m
  <2>2. Seen(e, Missed(c) \ {m.blk}, Fetched(c) \ {m.blk}, Leaving(c), Ops(c), OpsSent(c))
    BY <1>3, <1>6, <2>1, Removed, Zenon
  <2> QED BY <1>3, <2>2, Zenon
<1>8. Valid(e) = Valid(c) /\ Dirty(e) = Dirty(c) /\ Len(e.q) = Len(c.q) - 1
  BY <1>6, Zenon DEF Lost, Valid, Dirty
<1> HIDE DEF e, m
<1>9. FlushOf(CachedAbove(l), l, e, room, 1) /\ CacheOK(l, room)
  <2>1. FlushOf(CachedAbove(l), l, e, room, 1)
    BY <1>4, <1>6, MakeRoom, Zenon
  <2> QED BY <2>1, Zenon DEF FlushOf
<1>10. MayLeave(l, e) = MayLeave(l, c) /\ b \notin MayLeave(l, c)
  <2>1. b \notin Dirty(c)
    BY <1>2, Zenon DEF Dirty, Valid
  <2> QED BY <1>2, <1>7, <1>8, <2>1, Zenon DEF Seen, MayLeave
<1>11. Leaving(room) \subseteq MayLeave(l, c) /\ Missed(room) = Missed(e)
  BY <1>9, <1>10, Zenon DEF FlushOf, MayLeave
<1>12. b \notin Missed(room) /\ b \notin Leaving(room)
  BY <1>7, <1>10, <1>11, Zenon DEF Seen
<1>13. out.c = Put(room, b, s.blk) /\ out.resps = s.resps
  <2> HIDE DEF b
  <2> QED BY <1>4, <1>9, PutIs
<1>14. CacheOK(l, out.c) /\ PutIn(e, room, out.c, b, s.blk)
  BY <1>2, <1>6, <1>9, <1>12, <1>13, PutBlock, Zenon
<1>15. Len(out.c.q) <= Len(c.q)
  <2>1. Len(room.q) <= Len(e.q) + 1 /\ out.c.q = room.q
    BY <1>9, <1>14, Zenon DEF FlushOf, PutIn
  <2>2. Len(c.q) - 1 + 1 = Len(c.q)
    BY <1>1
  <2> QED BY <1>8, <2>1, <2>2, Zenon
<1>16. /\ Missed(out.c) = Missed(e) /\ Fetched(out.c) = Fetched(e) /\ Ops(out.c) = Ops(e)
       /\ OpsSent(out.c) = OpsSent(e) /\ Leaving(out.c) = Leaving(room)
       /\ Valid(out.c) \subseteq Valid(e) \cup {b}
       /\ l # 1 => Dirty(out.c) \subseteq Dirty(e)
  BY <1>5, <1>14, Zenon DEF PutIn, Seen
<1>17. /\ Missed(e) = Missed(c) \ {b} /\ Fetched(e) = Fetched(c) \ {b}
       /\ Ops(e) = Ops(c) /\ OpsSent(e) = OpsSent(c)
  BY <1>7, Zenon DEF Seen
<1>18. l # 1 => Dirty(out.c) \subseteq Dirty(c) /\ b \notin Dirty(out.c)
  <2>1. b \notin Dirty(c)
    BY <1>2, Zenon DEF Dirty, Valid
  <2> QED BY <1>8, <1>16, <2>1, Zenon
<1>19. Leaving(out.c) \subseteq MayLeave(l, c) /\ b \notin Leaving(out.c)
  BY <1>11, <1>12, <1>16, Zenon
<1>20. /\ \A x \in out.resps : RespOK(x) /\ x.to = l - 1 /\ x.cmd # "RowOp" /\ x.blk = b
       /\ l # 1 => \E x : out.resps = {x}
  BY <1>5, <1>13, Zenon
<1> QED BY <1>8, <1>14, <1>15, <1>16, <1>17, <1>18, <1>19, <1>20, Zenon DEF FillTaken

-----------------------------------------------------------------------------
(* Responses *)

(* A block is answered that was not. *)
LEMMA FillAdd ==
    ASSUME NEW A, OneEach(A), NEW r, r.cmd # "RowOp", r.blk \in Blocks, r.blk \notin Fills(A)
    PROVE  /\ OneEach(A \cup {r}) /\ OpsDone(A \cup {r}) = OpsDone(A)
           /\ Fills(A \cup {r}) = Fills(A) \cup {r.blk}
<1>1. \A s \in A : s.cmd # "RowOp" => s.blk # r.blk
  BY Zenon DEF Fills
<1>2. OneEach(A \cup {r})
  BY <1>1, Zenon DEF OneEach
<1>3. OpsDone(A \cup {r}) = OpsDone(A)
  BY Zenon DEF OpsDone
<1>4. Fills(A \cup {r}) = Fills(A) \cup {r.blk}
  BY Zenon DEF Fills
<1> QED BY <1>2, <1>3, <1>4, Zenon

(* A row operation is answered that was not. *)
LEMMA OpAdd ==
    ASSUME NEW A, OneEach(A), NEW r, r.cmd = "RowOp", r.id \in Nat, r.id \notin OpsDone(A)
    PROVE  /\ OneEach(A \cup {r}) /\ Fills(A \cup {r}) = Fills(A)
           /\ OpsDone(A \cup {r}) = OpsDone(A) \cup {r.id}
<1>1. \A s \in A : s.cmd = "RowOp" => s.id # r.id
  BY Zenon DEF OpsDone
<1>2. OneEach(A \cup {r})
  BY <1>1, Zenon DEF OneEach
<1>3. OpsDone(A \cup {r}) = OpsDone(A) \cup {r.id}
  BY Zenon DEF OpsDone
<1>4. Fills(A \cup {r}) = Fills(A)
  BY Zenon DEF Fills
<1> QED BY <1>2, <1>3, <1>4, Zenon

(* A response arrives. *)
LEMMA Arrived ==
    ASSUME NEW A, OneEach(A), NEW r \in A
    PROVE  /\ OneEach(A \ {r})
           /\ r.cmd # "RowOp" => Fills(A \ {r}) = Fills(A) \ {r.blk} /\ OpsDone(A \ {r}) = OpsDone(A)
           /\ r.cmd = "RowOp" => OpsDone(A \ {r}) = OpsDone(A) \ {r.id} /\ Fills(A \ {r}) = Fills(A)
<1>1. OneEach(A \ {r})
  BY Zenon DEF OneEach
<1>2. ASSUME r.cmd # "RowOp" PROVE Fills(A \ {r}) = Fills(A) \ {r.blk}
  <2>1. \A s \in A : s.cmd # "RowOp" /\ s.blk = r.blk => s = r
    BY <1>2, Zenon DEF OneEach
  <2> QED BY <1>2, <2>1, Zenon DEF Fills
<1>3. ASSUME r.cmd # "RowOp" PROVE OpsDone(A \ {r}) = OpsDone(A)
  BY <1>3, Zenon DEF OpsDone
<1>4. ASSUME r.cmd = "RowOp" PROVE OpsDone(A \ {r}) = OpsDone(A) \ {r.id}
  <2>1. \A s \in A : s.cmd = "RowOp" /\ s.id = r.id => s = r
    BY <1>4, Zenon DEF OneEach
  <2> QED BY <1>4, <2>1, Zenon DEF OpsDone
<1>5. ASSUME r.cmd = "RowOp" PROVE Fills(A \ {r}) = Fills(A)
  BY <1>5, Zenon DEF Fills
<1> QED BY <1>1, <1>2, <1>3, <1>4, <1>5, Zenon

-----------------------------------------------------------------------------
(* Neighbours *)

(* What makes room in a cache is neither in the cache above nor on its way *)
(* to or from it.                                                          *)
LEMMA LeavesAbove ==
    ASSUME 2 \in Levels, CacheOK(1, cache[1]), NEW A, AnsweredOK(cache[1], A),
           BelowOK(cache[1], A, cache[2])
    PROVE  \A x \in MayLeave(2, cache[2]) :
              x \notin Valid(cache[1]) /\ x \notin Leaving(cache[1]) /\ x \notin Fills(A)
<1> DEFINE a == cache[1]
<1>1. \A x \in Blocks : x \in CachedAbove(2) <=>
          \/ a.blk[x].valid \/ findMatch(a, "miss", x) # {} \/ findMatch(a, "write", x) # {}
  <2>1. 2 # 1 /\ 2 - 1 = 1
    OBVIOUS
  <2> QED BY <2>1, Zenon DEF CachedAbove
<1>2. \A x \in Blocks : /\ findMatch(a, "miss", x) # {} <=> x \in Missed(a)
                        /\ findMatch(a, "write", x) # {} <=> x \in Leaving(a)
  BY Matches, Zenon
<1>3. \A x \in Fills(A) : x \in Missed(a)
  BY Apart, Zenon DEF AnsweredOK
<1>4. \A x \in Blocks : x \in Valid(a) \/ x \in Leaving(a) \/ x \in Missed(a) => x \in CachedAbove(2)
  BY <1>1, <1>2, Zenon DEF Valid
<1>5. Valid(a) \subseteq Blocks /\ Leaving(a) \subseteq Blocks /\ Missed(a) \subseteq Blocks
  BY Zenon DEF Valid, Leaving, Missed
<1> QED BY <1>3, <1>4, <1>5, Zenon DEF MayLeave, BelowOK

(* ... and was in the cache itself. *)
LEMMA LeavesHere ==
    ASSUME NEW l, NEW c
    PROVE  \A x \in MayLeave(l, c) : x \in Valid(c) \/ x \in Leaving(c)
BY Zenon DEF MayLeave, Dirty, Valid

(* An entry that is to be sent answers to nothing yet. *)
LEMMA NotSent ==
    ASSUME NEW l, NEW c, CacheOK(l, c), NEW i \in 1..Len(c.q), ~c.q[i].inService
    PROVE  /\ IsMiss(c.q[i]) => c.q[i].blk \in Missed(c) /\ c.q[i].blk \notin Fetched(c)
           /\ IsEvict(c.q[i]) => c.q[i].blk \in Leaving(c)
           /\ IsOp(c.q[i]) => OpId(c.q[i]) \in Ops(c) /\ OpId(c.q[i]) \notin OpsSent(c)
<1>1. EntryOK(l, c.q[i]) /\ c.q[i] \in Items(c.q)
  BY QueueFacts, Zenon
<1> DEFINE m == c.q[i]
<1> HIDE DEF m
<1>2. EntryOK(l, m) /\ m \in Items(c.q) /\ ~m.inService
  BY <1>1, Zenon DEF m
<1>3. \A n \in Items(c.q) : /\ IsMiss(m) /\ IsMiss(n) /\ m.blk = n.blk => m = n
                            /\ IsOp(m) /\ IsOp(n) /\ OpId(m) = OpId(n) => m = n
  BY <1>2, Unique, Zenon
<1>4. IsMiss(m) => m.blk \in Missed(c) /\ m.blk \notin Fetched(c)
  BY <1>2, <1>3, Zenon DEF Missed, Fetched, EntryOK
<1>5. IsEvict(m) => m.blk \in Leaving(c)
  BY <1>2, Zenon DEF Leaving, EntryOK
<1>6. IsOp(m) => OpId(m) \in Ops(c) /\ OpId(m) \notin OpsSent(c)
  BY <1>2, <1>3, Zenon DEF Ops, OpsSent, EntryOK
<1> QED BY <1>4, <1>5, <1>6, Zenon DEF m

-----------------------------------------------------------------------------
(* Steps at the ends of the chain *)

(* One cache or two *)
LEMMA LevelFacts ==
    /\ 1 \in Levels /\ Depth \in Levels /\ \A l \in Levels : l = 1 \/ l = 2
    /\ 2 \in Levels => Depth = 2
    /\ 2 \notin Levels => Depth = 1
    /\ \A l \in Levels : l + 1 \in Levels => l = 1 /\ l + 1 = 2
BY DepthAssumption DEF Levels

\* Cache 1 is c and becomes d when request k of the core arrives.
TopTaken(c, d, rs, k) ==
    /\ CacheOK(1, d) /\ Fetched(d) = Fetched(c) /\ OpsSent(d) = OpsSent(c)
    /\ \A x : x \in Valid(d) \/ x \in Leaving(d) => x \in Valid(c) \/ x \in Leaving(c)
    /\ \A x \in Ops(d) : x \in Ops(c) \/ x = k
    /\ \A r \in rs : RespOK(r) /\ r.to = 0

\* A request of the core: an access or a row operation
IsRequest(c, p) ==
    \/ p.cmd \in {"ReadReq", "WriteReq"} /\ p.blk \in Blocks
    \/ p.cmd = "RowOp" /\ p.id \in Nat \ Ops(c) /\ p.rows \in Rows \X Rows

(* A request of the core at cache 1 *)
LEMMA TopRequest ==
    ASSUME NEW c, CacheOK(1, c), NEW p, IsRequest(c, p), NEW out \in recvTimingReq(1, c, p)
    PROVE  TopTaken(c, out.c, out.resps, p.id)
<1>1. CASE p.cmd \in {"ReadReq", "WriteReq"} /\ p.blk \in Blocks
  <2>1. out = AcceptAccess(1, c, p)
    BY <1>1 DEF recvTimingReq
  <2>2. p.cmd \in Cmds(1) /\ p.cmd # "RowOp"
    BY <1>1 DEF Cmds
  <2>3. AccessTaken(1, c, out.c, out.resps, p)
    BY <1>1, <2>1, <2>2, TakeHit, TakeMiss, Zenon
  <2>4. \A r \in out.resps : RespOK(r) /\ r.to = 0
    <3>1. 0 \in 0..Depth /\ 1 - 1 = 0
      BY DepthAssumption
    <3>2. out.resps = {} \/ \E r : out.resps = {r} /\ Answers(r, 0, p)
      BY <2>3, <3>1 DEF AccessTaken
    <3>3. ASSUME NEW r, Answers(r, 0, p) PROVE RespOK(r) /\ r.to = 0
      BY <1>1, <2>2, <3>1, <3>3, AnswerFields, Zenon
    <3> QED BY <3>2, <3>3, Zenon
  <2> QED BY <2>3, <2>4, Zenon DEF AccessTaken, TopTaken
<1>2. CASE p.cmd = "RowOp" /\ p.id \in Nat \ Ops(c) /\ p.rows \in Rows \X Rows
  <2>1. out = AcceptRowOp(1, c, p)
    BY <1>2 DEF recvTimingReq
  <2>2. \E n : RowOpTaken(1, c, out.c, p.id, n)
    BY <1>2, <2>1, TakeRowOp, Zenon
  <2>3. out.resps = {}
    BY <1>2, <2>1, TakeRowOp, Zenon
  <2>4. \A x \in MayLeave(1, c) : x \in Valid(c) \/ x \in Leaving(c)
    BY LeavesHere, Zenon
  <2> QED BY <2>2, <2>3, <2>4, Zenon DEF RowOpTaken, TopTaken
<1> QED BY <1>1, <1>2, Zenon DEF IsRequest

(* The chain when only cache 1 changes, as it does for a request *)
LEMMA TopStep ==
    ASSUME NEW C, NEW R, NEW M, NEW n, Chain(C, R, M, n), NEW d, NEW rs,
           TopTaken(C[1], d, rs, n + 1), NEW D, D = [C EXCEPT ![1] = d]
    PROVE  Chain(D, R \cup rs, M, n + 1)
<1>0. /\ C = [l \in Levels |-> C[l]] /\ \A l \in Levels : CacheOK(l, C[l])
      /\ \A l \in Levels : AnsweredOK(C[l], To(R, l))
      /\ 2 \in Levels => BelowOK(C[1], To(R, 1), C[2])
      /\ MemOK(C[Depth], To(R, Depth), M)
      /\ n \in Nat /\ Ops(C[1]) \subseteq 1..n
  BY Zenon DEF Chain
<1>1. 1 \in Levels /\ 1 # 0 /\ 2 # 1 /\ 2 # 0
  BY LevelFacts
<1>2. D = [l \in Levels |-> D[l]] /\ D[1] = d /\ \A l \in Levels : l # 1 => D[l] = C[l]
  BY <1>0, <1>1
<1>3. \A l \in Levels : CacheOK(l, D[l])
  BY <1>0, <1>2, Zenon DEF TopTaken
<1>4. \A l \in Levels : To(R \cup rs, l) = To(R, l)
  <2>1. \A l \in Levels : l # 0
    BY LevelFacts
  <2>2. \A r \in rs : r.to = 0
    BY Zenon DEF TopTaken
  <2> QED BY <2>1, <2>2, Zenon DEF To
<1>5. AnsweredOK(d, To(R, 1))
  BY <1>0, <1>1, Zenon DEF AnsweredOK, TopTaken
<1>6. \A l \in Levels : AnsweredOK(D[l], To(R \cup rs, l))
  BY <1>0, <1>2, <1>4, <1>5, Zenon
<1>7. 2 \in Levels => BelowOK(D[1], To(R \cup rs, 1), D[2])
  <2>1. ASSUME 2 \in Levels PROVE BelowOK(d, To(R, 1), C[2])
    BY <1>0, <2>1, Zenon DEF BelowOK, TopTaken
  <2> QED BY <1>1, <1>2, <1>4, <2>1, Zenon
<1>8. MemOK(D[Depth], To(R \cup rs, Depth), M)
  <2>1. Depth \in Levels /\ Fetched(D[Depth]) = Fetched(C[Depth])
    BY <1>2, LevelFacts, Zenon DEF TopTaken
  <2> QED BY <1>0, <1>4, <2>1, Zenon DEF MemOK
<1>9. n + 1 \in Nat /\ Ops(D[1]) \subseteq 1..(n + 1)
  <2>1. n + 1 \in 1..(n + 1) /\ \A x \in 1..n : x \in 1..(n + 1)
    BY <1>0
  <2>2. n + 1 \in Nat
    BY <1>0
  <2> QED BY <1>0, <1>2, <2>1, <2>2, Zenon DEF TopTaken
<1>10. \A r \in R \cup rs : RespOK(r)
  BY Zenon DEF Chain, TopTaken
<1> QED BY <1>2, <1>3, <1>6, <1>7, <1>8, <1>9, <1>10, Zenon DEF Chain

(* Load, Store and RowOp *)
LEMMA IssueStep ==
    ASSUME IInv, NEW r, NEW p, NEW newSpec, Issue(r, p, newSpec),
           IsRequest(cache[1], p), p.id = Len(reqs) + 1
    PROVE  IInv'
<1> DEFINE n == Len(reqs)
           new == Renew(reqs, newSpec, Written(r))
<1>1. IsList(reqs) /\ Chain(cache, resps, reads, n)
  BY Zenon DEF IInv
<1>2. IsList(new) /\ Len(new) = n
  <2>1. DOMAIN reqs = 1..n /\ n \in Nat
    BY <1>1, ListFacts, Zenon
  <2>2. new = [i \in 1..n |-> new[i]]
    BY <2>1, Zenon DEF Renew
  <2> HIDE DEF n, new
  <2> QED BY <2>1, <2>2, ListOf, Zenon
<1>3. IsList(reqs') /\ Len(reqs') = n + 1
  <2>1. reqs' = Append(new, r)
    BY Zenon DEF Issue
  <2> HIDE DEF n, new
  <2>2. IsList(Append(new, r)) /\ Len(Append(new, r)) = Len(new) + 1
    BY <1>2, ListAppend
  <2> QED BY <1>2, <2>1, <2>2, Zenon
<1>4. PICK out \in recvTimingReq(1, cache[1], p) :
          cache' = [cache EXCEPT ![1] = out.c] /\ resps' = resps \cup out.resps
  BY Zenon DEF Issue
<1>5. reads' = reads
  BY Zenon DEF Issue
<1>6. TopTaken(cache[1], out.c, out.resps, n + 1)
  <2>1. CacheOK(1, cache[1])
    BY <1>1, LevelFacts, Zenon DEF Chain
  <2> QED BY <1>4, <2>1, TopRequest, Zenon
<1>7. Chain(cache', resps', reads, n + 1)
  BY <1>1, <1>4, <1>6, TopStep, Zenon
<1>8. Chain(cache', resps', reads', Len(reqs'))
  BY <1>3, <1>5, <1>7, Zenon
<1> QED BY <1>3, <1>8, Zenon DEF IInv

(* Complete *)
LEMMA CompleteStep ==
    ASSUME IInv, Complete
    PROVE  IInv'
<1>1. IsList(reqs) /\ Chain(cache, resps, reads, Len(reqs))
  BY Zenon DEF IInv
<1>2. PICK r \in resps : /\ r.to = 0 /\ resps' = resps \ {r}
                         /\ reqs' = [reqs EXCEPT ![r.id].done = TRUE]
                         /\ cache' = cache /\ reads' = reads
  BY Zenon DEF Complete
<1>3. IsList(reqs') /\ Len(reqs') = Len(reqs)
  <2>1. DOMAIN reqs = 1..Len(reqs) /\ Len(reqs) \in Nat
    BY <1>1, ListFacts, Zenon
  <2> DEFINE x == [reqs[r.id] EXCEPT !.done = TRUE]
  <2>2. reqs' = ReplaceAt(reqs, r.id, x)
    BY <1>2, Zenon DEF ReplaceAt
  <2> HIDE DEF x
  <2>3. reqs \in Seq(Items(reqs))
    BY <1>1, Zenon DEF IsList
  <2>4. reqs' = [i \in 1..Len(reqs) |-> reqs'[i]]
    BY <2>1, <2>2, <2>3, Zenon DEF ReplaceAt
  <2> QED BY <2>1, <2>4, ListOf, Zenon
<1>4. \A l \in Levels : To(resps', l) = To(resps, l)
  <2>1. \A l \in Levels : l # 0
    BY LevelFacts
  <2> QED BY <1>2, <2>1, Zenon DEF To
<1>5. \A x \in resps' : RespOK(x)
  BY <1>1, <1>2, Zenon DEF Chain
<1>6. Chain(cache', resps', reads', Len(reqs'))
  BY <1>1, <1>2, <1>3, <1>4, <1>5, LevelFacts, Zenon DEF Chain
<1> QED BY <1>3, <1>6, Zenon DEF IInv

\* Cache c becomes d when it sends packet p: a read, an eviction or a row operation
ReadSent(c, d, p) ==
    /\ p.cmd \in {"ReadExReq", "ReadSharedReq"}
    /\ p.blk \in Missed(c) /\ p.blk \notin Fetched(c) /\ p.blk \notin Leaving(c)
    /\ Fetched(d) = Fetched(c) \cup {p.blk}
    /\ Leaving(d) = Leaving(c) /\ OpsSent(d) = OpsSent(c)
EvictSent(c, d, p) ==
    /\ p.cmd \in {"Writeback", "CleanEvict"} /\ p.blk \in Leaving(c)
    /\ Leaving(d) = Leaving(c) \ {p.blk}
    /\ Fetched(d) = Fetched(c) /\ OpsSent(d) = OpsSent(c)
OpSent(c, d, p) ==
    /\ p.cmd = "RowOp" /\ p.rows \in Rows \X Rows
    /\ p.id \in Ops(c) /\ p.id \notin OpsSent(c)
    /\ OpsSent(d) = OpsSent(c) \cup {p.id}
    /\ Leaving(d) = Leaving(c) /\ Fetched(d) = Fetched(c)
Sending(l, c, d, p) ==
    /\ CacheOK(l, d) /\ Missed(d) = Missed(c) /\ Ops(d) = Ops(c)
    /\ Valid(d) = Valid(c) /\ Dirty(d) = Dirty(c) /\ Len(d.q) <= Len(c.q)
    /\ ReadSent(c, d, p) \/ EvictSent(c, d, p) \/ OpSent(c, d, p)

(* sendDeferredPacket: what getNextMSHR chooses is sent and marked. *)
LEMMA SendEntry ==
    ASSUME NEW l, NEW c, CacheOK(l, c), NEW h, NEW i \in getNextMSHR(c, h), NEW dirtyResp,
           NEW d, d = markInService(c, i, dirtyResp)
    PROVE  Sending(l, c, d, getTimingPacket(c.q[i]))
<1> DEFINE m == c.q[i]
           p == getTimingPacket(m)
<1>1. i \in 1..Len(c.q) /\ ~m.inService /\ (IsMiss(m) => m.blk \notin Leaving(c))
  BY NextEntry, Zenon
<1>2. /\ CacheOK(l, d) /\ d.blk = c.blk /\ Len(d.q) <= Len(c.q)
      /\ IsMiss(m) => Seen(d, Missed(c), Fetched(c) \cup {m.blk}, Leaving(c), Ops(c), OpsSent(c))
      /\ IsEvict(m) => Seen(d, Missed(c), Fetched(c), Leaving(c) \ {m.blk}, Ops(c), OpsSent(c))
      /\ IsOp(m) => Seen(d, Missed(c), Fetched(c), Leaving(c), Ops(c), OpsSent(c) \cup {OpId(m)})
  <2>1. CacheOK(l, d) /\ Marked(c, d, m)
    BY <1>1, MarkEntry, Zenon
  <2> QED BY <2>1, Zenon DEF Marked
<1>3. /\ IsMiss(m) => m.blk \in Missed(c) /\ m.blk \notin Fetched(c)
      /\ IsEvict(m) => m.blk \in Leaving(c)
      /\ IsOp(m) => OpId(m) \in Ops(c) /\ OpId(m) \notin OpsSent(c)
  BY <1>1, NotSent, Zenon
<1>4. EntryOK(l, m)
  BY <1>1, QueueFacts, Zenon
<1>5. Valid(d) = Valid(c) /\ Dirty(d) = Dirty(c)
  BY <1>2, Zenon DEF Valid, Dirty
<1> HIDE DEF m
<1>6. /\ IsMiss(m) \/ IsEvict(m) \/ IsOp(m)
      /\ IsMiss(m) => p.cmd \in {"ReadExReq", "ReadSharedReq"} /\ p.blk = m.blk
      /\ IsEvict(m) => p.cmd \in {"Writeback", "CleanEvict"} /\ p.blk = m.blk
      /\ IsOp(m) => p.cmd = "RowOp" /\ p.id = OpId(m) /\ p.rows \in Rows \X Rows
  BY <1>4, SentPacket, Zenon
<1> HIDE DEF p
<1>7. CASE IsMiss(m)
  <2>1. ReadSent(c, d, p)
    BY <1>1, <1>2, <1>3, <1>6, <1>7, Zenon DEF ReadSent, Seen
  <2> QED BY <1>2, <1>5, <1>7, <2>1, Zenon DEF Sending, Seen, p, m
<1>8. CASE IsEvict(m)
  <2>1. EvictSent(c, d, p)
    BY <1>2, <1>3, <1>6, <1>8, Zenon DEF EvictSent, Seen
  <2> QED BY <1>2, <1>5, <1>8, <2>1, Zenon DEF Sending, Seen, p, m
<1>9. CASE IsOp(m)
  <2>1. OpSent(c, d, p)
    BY <1>2, <1>3, <1>6, <1>9, Zenon DEF OpSent, Seen
  <2> QED BY <1>2, <1>5, <1>9, <2>1, Zenon DEF Sending, Seen, p, m
<1> QED BY <1>6, <1>7, <1>8, <1>9, Zenon

(* A cache that sends something loses nothing towards the one above, and   *)
(* keeps the answers it has.                                               *)
LEMMA SendingKeeps ==
    ASSUME NEW l, NEW c, NEW d, NEW p, Sending(l, c, d, p)
    PROVE  /\ \A a, A : BelowOK(a, A, c) => BelowOK(a, A, d)
           /\ \A A : AnsweredOK(c, A) => AnsweredOK(d, A)
           /\ \A x \in Leaving(d) : x \in Leaving(c)
           /\ \A x \in Fetched(c) : x \in Fetched(d)
           /\ \A x \in OpsSent(c) : x \in OpsSent(d)
<1>1. \A x \in Leaving(d) : x \in Leaving(c)
  BY Zenon DEF Sending, ReadSent, EvictSent, OpSent
<1>2. \A x \in Fetched(c) : x \in Fetched(d)
  BY Zenon DEF Sending, ReadSent, EvictSent, OpSent
<1>3. \A x \in OpsSent(c) : x \in OpsSent(d)
  BY Zenon DEF Sending, ReadSent, EvictSent, OpSent
<1>4. Missed(d) = Missed(c) /\ Ops(d) = Ops(c) /\ Dirty(d) = Dirty(c)
  BY Zenon DEF Sending
<1>5. ASSUME NEW a, NEW A, BelowOK(a, A, c) PROVE BelowOK(a, A, d)
  BY <1>1, <1>4, <1>5, Zenon DEF BelowOK
<1>6. ASSUME NEW A, AnsweredOK(c, A) PROVE AnsweredOK(d, A)
  BY <1>2, <1>3, <1>6, Zenon DEF AnsweredOK
<1> QED BY <1>1, <1>2, <1>3, <1>5, <1>6, Zenon

\* What memory makes of packet p
MemGets(R, M, p, R2, M2) ==
    \/ p.cmd \in {"Writeback", "CleanEvict"} /\ R2 = R /\ M2 = M
    \/ p.cmd \in {"ReadExReq", "ReadSharedReq"} /\ R2 = R /\ M2 = M \cup {p}
    \/ p.cmd = "RowOp" /\ M2 = M /\ \E r : R2 = R \cup {r} /\ Answers(r, Depth, p)

(* Memory reads a block for a cache that fetches it from now on. *)
LEMMA MemRead ==
    ASSUME NEW c, NEW A, NEW M, AnsweredOK(c, A), MemOK(c, A, M), NEW p, NEW d, ReadSent(c, d, p)
    PROVE  MemOK(d, A, M \cup {p})
<1>1. p.cmd # "RowOp"
  BY DEF ReadSent
<1>2. p.blk \in Blocks /\ p.blk \notin Fetched(c) /\ Fetched(d) = Fetched(c) \cup {p.blk}
  BY Zenon DEF ReadSent, Missed
<1>3. p.blk \notin Fills(A) /\ p.blk \notin MemReads(M)
  BY <1>2, Zenon DEF AnsweredOK, MemOK
<1>4. \A s \in M : s.blk # p.blk
  BY <1>2, <1>3, Zenon DEF MemReads
<1>5. MemReads(M \cup {p}) = MemReads(M) \cup {p.blk}
  BY <1>2, Zenon DEF MemReads
<1>6. \A x \in M \cup {p} : x.cmd # "RowOp" /\ x.blk \in Blocks
  BY <1>1, <1>2, Zenon DEF MemOK
<1>7. \A x, s \in M \cup {p} : x.blk = s.blk => x = s
  BY <1>4, Zenon DEF MemOK
<1>8. MemReads(M \cup {p}) \subseteq Fetched(d) \ Fills(A)
  BY <1>2, <1>3, <1>5, Zenon DEF MemOK
<1> QED BY <1>6, <1>7, <1>8, Zenon DEF MemOK

(* Memory answers a row operation: the cache has sent it, and has no       *)
(* answer to it yet.                                                       *)
LEMMA MemOp ==
    ASSUME NEW c, NEW A, AnsweredOK(c, A), NEW p, NEW d, OpSent(c, d, p),
           NEW r, r.cmd = "RowOp", r.id = p.id
    PROVE  AnsweredOK(d, A \cup {r}) /\ Fills(A \cup {r}) = Fills(A)
<1>1. p.id \in Nat /\ p.id \notin OpsSent(c) /\ OpsSent(d) = OpsSent(c) \cup {p.id}
      /\ Fetched(d) = Fetched(c)
  BY Zenon DEF OpSent, Ops
<1>2. OneEach(A) /\ Fills(A) \subseteq Fetched(c) /\ OpsDone(A) \subseteq OpsSent(c)
  BY Zenon DEF AnsweredOK
<1>3. r.id \in Nat /\ r.id \notin OpsDone(A)
  BY <1>1, <1>2, Zenon
<1>4. /\ OneEach(A \cup {r}) /\ Fills(A \cup {r}) = Fills(A)
      /\ OpsDone(A \cup {r}) = OpsDone(A) \cup {r.id}
  BY <1>2, <1>3, OpAdd
<1> QED BY <1>1, <1>2, <1>4, Zenon DEF AnsweredOK

(* The chain when the last cache sends to memory *)
LEMMA MemStep ==
    ASSUME NEW C, NEW R, NEW M, NEW n, Chain(C, R, M, n), NEW d, NEW p,
           Sending(Depth, C[Depth], d, p), NEW D, D = [C EXCEPT ![Depth] = d],
           NEW R2, NEW M2, MemGets(R, M, p, R2, M2)
    PROVE  Chain(D, R2, M2, n)
<1> DEFINE c == C[Depth]
           A == To(R, Depth)
           A2 == To(R2, Depth)
<1>0. /\ C = [l \in Levels |-> C[l]] /\ \A l \in Levels : CacheOK(l, C[l])
      /\ \A l \in Levels : AnsweredOK(C[l], To(R, l))
      /\ 2 \in Levels => BelowOK(C[1], To(R, 1), C[2])
      /\ MemOK(C[Depth], To(R, Depth), M)
      /\ n \in Nat /\ Ops(C[1]) \subseteq 1..n
      /\ \A r \in R : RespOK(r)
  BY Zenon DEF Chain
<1>1. /\ 1 \in Levels /\ Depth \in Levels /\ (2 \in Levels => Depth = 2 /\ Depth # 1)
      /\ (2 \notin Levels => Depth = 1)
  BY LevelFacts
<1>2. D = [l \in Levels |-> D[l]] /\ D[Depth] = d /\ \A l \in Levels : l # Depth => D[l] = C[l]
  BY <1>0, <1>1
<1>3. \A l \in Levels : CacheOK(l, D[l])
  BY <1>0, <1>2, Zenon DEF Sending
<1>4. /\ \A a, B : BelowOK(a, B, c) => BelowOK(a, B, d)
      /\ \A B : AnsweredOK(c, B) => AnsweredOK(d, B)
      /\ \A x \in Fetched(c) : x \in Fetched(d)
  BY SendingKeeps, Zenon
<1>5. /\ \A r \in R2 : RespOK(r)
      /\ \A l \in Levels : l # Depth => To(R2, l) = To(R, l)
      /\ AnsweredOK(d, A2) /\ MemOK(d, A2, M2)
  <2>1. CASE p.cmd = "RowOp"
    <3>1. PICK r : R2 = R \cup {r} /\ Answers(r, Depth, p)
      BY <2>1 DEF MemGets
    <3>2. OpSent(c, d, p) /\ M2 = M
      BY <2>1 DEF Sending, ReadSent, EvictSent, MemGets
    <3>3. p.id \in Nat /\ Depth \in 0..Depth
      <4>1. p.id \in Nat
        BY <3>2, Zenon DEF OpSent, Ops
      <4> QED BY <4>1, DepthAssumption
    <3>4. RespOK(r) /\ r.to = Depth /\ r.cmd = "RowOp" /\ r.id = p.id
      BY <2>1, <3>1, <3>3, AnswerFields, Zenon
    <3>5. /\ \A l \in Levels : l # Depth => To(R2, l) = To(R, l)
          /\ A2 = A \cup {r}
      BY <3>1, <3>4 DEF To
    <3>6. AnsweredOK(d, A2) /\ Fills(A2) = Fills(A)
      <4>1. AnsweredOK(c, A)
        BY <1>0, <1>1, Zenon
      <4> HIDE DEF c, A, A2
      <4>2. AnsweredOK(d, A \cup {r}) /\ Fills(A \cup {r}) = Fills(A)
        BY <3>2, <3>4, <4>1, MemOp
      <4> QED BY <3>5, <4>2, Zenon
    <3>7. MemOK(d, A2, M)
      BY <1>0, <1>4, <3>6, Zenon DEF MemOK
    <3> QED BY <1>0, <3>1, <3>2, <3>4, <3>5, <3>6, <3>7, Zenon
  <2>2. CASE p.cmd # "RowOp"
    <3>1. R2 = R
      BY <2>2, Zenon DEF MemGets
    <3>2. AnsweredOK(d, A)
      BY <1>0, <1>1, <1>4, Zenon
    <3>3. MemOK(d, A, M2)
      <4>1. CASE p.cmd \in {"Writeback", "CleanEvict"}
        <5>1. M2 = M
          BY <4>1 DEF MemGets
        <5> QED BY <1>0, <1>4, <5>1, Zenon DEF MemOK
      <4>2. CASE p.cmd \in {"ReadExReq", "ReadSharedReq"}
        <5>1. M2 = M \cup {p} /\ ReadSent(c, d, p)
          BY <4>2 DEF MemGets, Sending, EvictSent, OpSent
        <5> QED BY <1>0, <1>1, <5>1, MemRead, Zenon
      <4> QED BY <2>2, <4>1, <4>2, Zenon DEF MemGets
    <3> QED BY <1>0, <3>1, <3>2, <3>3, Zenon
  <2> QED BY <2>1, <2>2, Zenon
<1>6. \A l \in Levels : AnsweredOK(D[l], To(R2, l))
  BY <1>0, <1>2, <1>5, Zenon
<1>7. 2 \in Levels => BelowOK(D[1], To(R2, 1), D[2])
  BY <1>0, <1>1, <1>2, <1>4, <1>5, Zenon
<1>8. Ops(D[1]) \subseteq 1..n
  BY <1>0, <1>1, <1>2, Zenon DEF Sending
<1> QED BY <1>0, <1>2, <1>3, <1>5, <1>6, <1>7, <1>8, Zenon DEF Chain

(* SendToMem *)
LEMMA SendToMemStep ==
    ASSUME IInv, SendToMem
    PROVE  IInv'
<1>1. IsList(reqs) /\ Chain(cache, resps, reads, Len(reqs))
  BY Zenon DEF IInv
<1> DEFINE c == cache[Depth]
<1>2. PICK h, i : /\ i \in getNextMSHR(c, h)
                  /\ cache' = [cache EXCEPT ![Depth] = markInService(c, i, FALSE)]
                  /\ resps' = IF getTimingPacket(c.q[i]).cmd = "RowOp"
                              THEN resps \cup {Resp(Depth, getTimingPacket(c.q[i]), <<>>, FALSE)}
                              ELSE resps
                  /\ reads' = IF getTimingPacket(c.q[i]).cmd \in {"ReadSharedReq", "ReadExReq"}
                              THEN reads \cup {getTimingPacket(c.q[i])} ELSE reads
  BY Zenon DEF SendToMem
<1>3. reqs' = reqs
  BY Zenon DEF SendToMem
<1> DEFINE p == getTimingPacket(c.q[i])
           d == markInService(c, i, FALSE)
<1>4. Sending(Depth, c, d, p)
  <2>1. CacheOK(Depth, c)
    BY <1>1, LevelFacts, Zenon DEF Chain
  <2> QED BY <1>2, <2>1, SendEntry, Zenon
<1>5. MemGets(resps, reads, p, resps', reads')
  <2>1. /\ resps' = IF p.cmd = "RowOp" THEN resps \cup {Resp(Depth, p, <<>>, FALSE)} ELSE resps
        /\ reads' = IF p.cmd \in {"ReadSharedReq", "ReadExReq"} THEN reads \cup {p} ELSE reads
    BY <1>2, Zenon
  <2>2. \/ p.cmd = "RowOp" \/ p.cmd \in {"Writeback", "CleanEvict"}
        \/ p.cmd \in {"ReadExReq", "ReadSharedReq"}
    BY <1>4, Zenon DEF Sending, ReadSent, EvictSent, OpSent
  <2> HIDE DEF p
  <2>3. Answers(Resp(Depth, p, <<>>, FALSE), Depth, p)
    BY Zenon DEF Answers
  <2> QED BY <2>1, <2>2, <2>3, Zenon DEF MemGets
<1>6. cache' = [cache EXCEPT ![Depth] = d]
  BY <1>2, Zenon
<1> HIDE DEF p, d
<1>7. Chain(cache', resps', reads', Len(reqs))
  BY <1>1, <1>4, <1>5, <1>6, MemStep, Zenon
<1> QED BY <1>1, <1>3, <1>7, Zenon DEF IInv

(* MemRespond *)
LEMMA MemRespondStep ==
    ASSUME IInv, MemRespond
    PROVE  IInv'
<1>1. IsList(reqs) /\ Chain(cache, resps, reads, Len(reqs))
  BY Zenon DEF IInv
<1>2. PICK p \in reads : /\ reads' = reads \ {p} /\ cache' = cache /\ reqs' = reqs
                         /\ resps' = resps \cup {Resp(Depth, p, mem[p.blk], FALSE)}
  BY Zenon DEF MemRespond
<1> DEFINE r == Resp(Depth, p, mem[p.blk], FALSE)
           c == cache[Depth]
           A == To(resps, Depth)
<1>3. /\ AnsweredOK(c, A) /\ MemOK(c, A, reads) /\ Depth \in Levels
  BY <1>1, LevelFacts, Zenon DEF Chain
<1>4. p.cmd # "RowOp" /\ p.blk \in Blocks
  BY <1>3, Zenon DEF MemOK
<1>5. RespOK(r) /\ r.to = Depth /\ r.cmd # "RowOp" /\ r.blk = p.blk
  <2>1. Answers(r, Depth, p)
    BY Zenon DEF Answers
  <2>2. Depth \in 0..Depth
    BY DepthAssumption
  <2> HIDE DEF r
  <2> QED BY <1>4, <2>1, <2>2, AnswerFields, Zenon
<1>6. resps' = resps \cup {r}
  BY <1>2, Zenon
<1> HIDE DEF r
<1>7. p.blk \in Fetched(c) /\ p.blk \notin Fills(A)
  <2>1. p.blk \in MemReads(reads)
    BY <1>4, Zenon DEF MemReads
  <2> QED BY <1>3, <2>1, Zenon DEF MemOK
<1>8. /\ OneEach(A \cup {r}) /\ OpsDone(A \cup {r}) = OpsDone(A)
      /\ Fills(A \cup {r}) = Fills(A) \cup {p.blk}
  <2>1. OneEach(A) /\ r.blk \in Blocks /\ r.blk \notin Fills(A)
    BY <1>3, <1>4, <1>5, <1>7, Zenon DEF AnsweredOK
  <2> HIDE DEF A
  <2> QED BY <1>5, <2>1, FillAdd
<1>9. AnsweredOK(c, A \cup {r})
  BY <1>3, <1>7, <1>8, Zenon DEF AnsweredOK
<1>10. MemOK(c, A \cup {r}, reads')
  <2>1. MemReads(reads') \subseteq MemReads(reads)
    BY <1>2, Zenon DEF MemReads
  <2>2. p.blk \notin MemReads(reads')
    BY <1>2, <1>3, Zenon DEF MemReads, MemOK
  <2>3. MemReads(reads') \subseteq Fetched(c) \ Fills(A \cup {r})
    BY <1>3, <1>8, <2>1, <2>2, Zenon DEF MemOK
  <2> QED BY <1>2, <1>3, <2>3, Zenon DEF MemOK
<1>11. /\ \A l \in Levels : l # Depth => To(resps', l) = To(resps, l)
       /\ To(resps', Depth) = A \cup {r}
  BY <1>5, <1>6 DEF To
<1>12. \A l \in Levels : AnsweredOK(cache[l], To(resps', l))
  BY <1>1, <1>9, <1>11, Zenon DEF Chain
<1>13. 2 \in Levels => BelowOK(cache[1], To(resps', 1), cache[2])
  <2>1. 2 \in Levels => Depth # 1
    BY LevelFacts
  <2> QED BY <1>1, <1>11, <2>1, LevelFacts, Zenon DEF Chain
<1>14. \A x \in resps' : RespOK(x)
  BY <1>1, <1>5, <1>6, Zenon DEF Chain
<1>15. MemOK(cache[Depth], To(resps', Depth), reads')
  BY <1>10, <1>11, Zenon
<1>16. Chain(cache, resps', reads', Len(reqs))
  BY <1>1, <1>12, <1>13, <1>14, <1>15, Zenon DEF Chain
<1> QED BY <1>1, <1>2, <1>16, Zenon DEF IInv
=============================================================================
