--------------------------- MODULE CacheChainProofs ---------------------------
(***************************************************************************)
(* CacheChain for every size of its caches, buffers and rows: an eviction  *)
(* that is queued is the last its cache has of the block, and the free     *)
(* list of the write buffer does not run out.                              *)
(*                                                                         *)
(* CacheProofs has the invariant and the steps of one cache; here are the  *)
(* steps between two caches and the theorems.                              *)
(***************************************************************************)
EXTENDS CacheProofs

-----------------------------------------------------------------------------
(* Steps between two caches *)

\* Caches 1 and 2 are a2 and d when the packet that cache 1, which was a, sent has
\* arrived at cache 2, which was b; A are the answers to cache 1.
Passed(a2, A, b, d, rs) ==
    /\ CacheOK(2, d) /\ Fetched(d) = Fetched(b) /\ OpsSent(d) = OpsSent(b)
    /\ \A r \in rs : RespOK(r) /\ r.to = 1
    /\ AnsweredOK(a2, A \cup rs) /\ BelowOK(a2, A \cup rs, d)

(* Cache 2 has the block cache 1 asks for. *)
LEMMA PassHit ==
    ASSUME NEW a, CacheOK(1, a), NEW b, CacheOK(2, b), NEW A, AnsweredOK(a, A),
           BelowOK(a, A, b), NEW a2, NEW p, Sending(1, a, a2, p), ReadSent(a, a2, p),
           NEW d, NEW r, AccessTaken(2, b, d, {r}, p), RespOK(r), r.to = 1,
           r.cmd # "RowOp", r.blk = p.blk
    PROVE  Passed(a2, A, b, d, {r})
<1> DEFINE x == p.blk
<1>1. /\ x \in Blocks /\ x \notin Fetched(a) /\ Fetched(a2) = Fetched(a) \cup {x}
      /\ Leaving(a2) = Leaving(a) /\ OpsSent(a2) = OpsSent(a) /\ Valid(a2) = Valid(a)
  BY Zenon DEF ReadSent, Sending, Missed
<1>2. OneEach(A) /\ Fills(A) \subseteq Fetched(a) /\ OpsDone(A) \subseteq OpsSent(a)
  BY Zenon DEF AnsweredOK
<1>3. 2 # 1 /\ {r} # {}
  OBVIOUS
<1>4. /\ x \in Valid(b) /\ Missed(d) = Missed(b) /\ Dirty(d) \subseteq Dirty(b) \ {x}
      /\ CacheOK(2, d) /\ Fetched(d) = Fetched(b) /\ OpsSent(d) = OpsSent(b)
      /\ Ops(d) = Ops(b) /\ Leaving(d) = Leaving(b)
  BY <1>3, Zenon DEF AccessTaken
<1>5. x \notin Leaving(b)
  BY <1>4, Apart, Zenon
<1>6. /\ OneEach(A \cup {r}) /\ OpsDone(A \cup {r}) = OpsDone(A)
      /\ Fills(A \cup {r}) = Fills(A) \cup {x}
  <2>1. r.blk \in Blocks /\ r.blk \notin Fills(A)
    BY <1>1, <1>2, Zenon
  <2>2. /\ OneEach(A \cup {r}) /\ OpsDone(A \cup {r}) = OpsDone(A)
        /\ Fills(A \cup {r}) = Fills(A) \cup {r.blk}
    BY <1>2, <2>1, FillAdd
  <2> QED BY <2>2, Zenon
<1>7. AnsweredOK(a2, A \cup {r})
  BY <1>1, <1>2, <1>6, Zenon DEF AnsweredOK
<1>8. Missed(d) \subseteq Fetched(a2) \ Fills(A \cup {r})
  BY <1>1, <1>4, <1>6, Zenon DEF BelowOK
<1>9. Ops(d) \subseteq OpsSent(a2) \ OpsDone(A \cup {r})
  BY <1>1, <1>4, <1>6, Zenon DEF BelowOK
<1>10. ASSUME NEW y \in Leaving(d) \cup Dirty(d)
       PROVE  y \notin Valid(a2) /\ y \notin Leaving(a2) /\ y \notin Fills(A \cup {r})
  <2>1. y # x /\ y \in Leaving(b) \cup Dirty(b)
    BY <1>4, <1>5, Zenon
  <2> QED BY <1>1, <1>6, <2>1, Zenon DEF BelowOK
<1>11. BelowOK(a2, A \cup {r}, d)
  BY <1>8, <1>9, <1>10, Zenon DEF BelowOK
<1> QED BY <1>4, <1>7, <1>11, Zenon DEF Passed

(* Cache 2 has to fetch it. *)
LEMMA PassMiss ==
    ASSUME NEW a, CacheOK(1, a), NEW b, CacheOK(2, b), NEW A, AnsweredOK(a, A),
           BelowOK(a, A, b), NEW a2, NEW p, Sending(1, a, a2, p), ReadSent(a, a2, p),
           NEW d, AccessTaken(2, b, d, {}, p)
    PROVE  Passed(a2, A, b, d, {})
<1> DEFINE x == p.blk
<1>1. /\ x \in Blocks /\ x \notin Fetched(a) /\ Fetched(a2) = Fetched(a) \cup {x}
      /\ Leaving(a2) = Leaving(a) /\ OpsSent(a2) = OpsSent(a) /\ Valid(a2) = Valid(a)
  BY Zenon DEF ReadSent, Sending, Missed
<1>2. OneEach(A) /\ Fills(A) \subseteq Fetched(a) /\ OpsDone(A) \subseteq OpsSent(a)
  BY Zenon DEF AnsweredOK
<1>3. A \cup {} = A /\ \A r : {} # {r}
  OBVIOUS
<1>4. /\ Missed(d) = Missed(b) \cup {x} /\ Dirty(d) = Dirty(b)
      /\ CacheOK(2, d) /\ Fetched(d) = Fetched(b) /\ OpsSent(d) = OpsSent(b)
      /\ Ops(d) = Ops(b) /\ Leaving(d) = Leaving(b)
  BY <1>3, Zenon DEF AccessTaken
<1>5. AnsweredOK(a2, A)
  BY <1>1, <1>2, Zenon DEF AnsweredOK
<1>6. Missed(d) \subseteq Fetched(a2) \ Fills(A)
  BY <1>1, <1>2, <1>4, Zenon DEF BelowOK
<1>7. Ops(d) \subseteq OpsSent(a2) \ OpsDone(A)
  BY <1>1, <1>4, Zenon DEF BelowOK
<1>8. BelowOK(a2, A, d)
  BY <1>1, <1>4, <1>6, <1>7, Zenon DEF BelowOK
<1>9. \A r \in {} : RespOK(r) /\ r.to = 1
  BY Zenon
<1> QED BY <1>3, <1>4, <1>5, <1>8, <1>9, Zenon DEF Passed

(* An eviction goes from cache 1 to cache 2. *)
LEMMA PassEvict ==
    ASSUME 2 \in Levels, CacheOK(1, cache[1]), CacheOK(2, cache[2]), NEW A,
           AnsweredOK(cache[1], A), BelowOK(cache[1], A, cache[2]), NEW a2, NEW p,
           Sending(1, cache[1], a2, p), EvictSent(cache[1], a2, p),
           NEW d, EvictTaken(2, cache[2], d, p.blk)
    PROVE  Passed(a2, A, cache[2], d, {})
<1> DEFINE a == cache[1]
           b == cache[2]
           x == p.blk
<1>0. \A y \in MayLeave(2, b) : y \notin Valid(a) /\ y \notin Leaving(a) /\ y \notin Fills(A)
  BY LeavesAbove, Zenon
<1> HIDE DEF a, b
<1>1. /\ x \in Leaving(a) /\ Leaving(a2) = Leaving(a) \ {x} /\ Fetched(a2) = Fetched(a)
      /\ OpsSent(a2) = OpsSent(a) /\ Valid(a2) = Valid(a)
  BY Zenon DEF EvictSent, Sending, a
<1>2. OneEach(A) /\ Fills(A) \subseteq Fetched(a) /\ OpsDone(A) \subseteq OpsSent(a)
  BY Zenon DEF AnsweredOK, a
<1>3. A \cup {} = A
  OBVIOUS
<1>4. x \notin Valid(a) /\ x \notin Fetched(a)
  BY <1>1, Apart, Zenon DEF a
<1>5. /\ Missed(d) = Missed(b) /\ CacheOK(2, d) /\ Fetched(d) = Fetched(b)
      /\ OpsSent(d) = OpsSent(b) /\ Ops(d) = Ops(b)
      /\ Dirty(d) \subseteq Dirty(b) \cup {x} /\ Leaving(d) \subseteq MayLeave(2, b) \cup {x}
  BY Zenon DEF EvictTaken, b
<1>6. AnsweredOK(a2, A)
  BY <1>1, <1>2, Zenon DEF AnsweredOK
<1>7. BelowOK(a, A, b)
  BY Zenon DEF a, b
<1>8. Missed(d) \subseteq Fetched(a2) \ Fills(A) /\ Ops(d) \subseteq OpsSent(a2) \ OpsDone(A)
  BY <1>1, <1>5, <1>7, Zenon DEF BelowOK
<1>9. ASSUME NEW y \in Leaving(d) \cup Dirty(d)
      PROVE  y \notin Valid(a2) /\ y \notin Leaving(a2) /\ y \notin Fills(A)
  <2>1. y = x \/ y \in MayLeave(2, b) \/ y \in Dirty(b)
    BY <1>5, Zenon
  <2>2. CASE y = x
    BY <1>1, <1>2, <1>4, <2>2, Zenon
  <2>3. CASE y \in MayLeave(2, b)
    BY <1>0, <1>1, <2>3, Zenon
  <2>4. CASE y \in Dirty(b)
    BY <1>1, <1>7, <2>4, Zenon DEF BelowOK
  <2> QED BY <2>1, <2>2, <2>3, <2>4, Zenon
<1>10. BelowOK(a2, A, d)
  BY <1>8, <1>9, Zenon DEF BelowOK
<1>11. \A r \in {} : RespOK(r) /\ r.to = 1
  BY Zenon
<1> QED BY <1>3, <1>5, <1>6, <1>10, <1>11, Zenon DEF Passed, b

(* A row operation goes from cache 1 to cache 2. *)
LEMMA PassOp ==
    ASSUME 2 \in Levels, CacheOK(1, cache[1]), CacheOK(2, cache[2]), NEW A,
           AnsweredOK(cache[1], A), BelowOK(cache[1], A, cache[2]), NEW a2, NEW p,
           Sending(1, cache[1], a2, p), OpSent(cache[1], a2, p),
           NEW d, NEW n, RowOpTaken(2, cache[2], d, p.id, n)
    PROVE  Passed(a2, A, cache[2], d, {})
<1> DEFINE a == cache[1]
           b == cache[2]
<1>0. \A y \in MayLeave(2, b) : y \notin Valid(a) /\ y \notin Leaving(a) /\ y \notin Fills(A)
  BY LeavesAbove, Zenon
<1> HIDE DEF a, b
<1>1. /\ p.id \notin OpsSent(a) /\ Leaving(a2) = Leaving(a) /\ Fetched(a2) = Fetched(a)
      /\ OpsSent(a2) = OpsSent(a) \cup {p.id} /\ Valid(a2) = Valid(a)
  BY Zenon DEF OpSent, Sending, a
<1>2. OneEach(A) /\ Fills(A) \subseteq Fetched(a) /\ OpsDone(A) \subseteq OpsSent(a)
  BY Zenon DEF AnsweredOK, a
<1>3. A \cup {} = A
  OBVIOUS
<1>5. /\ Missed(d) = Missed(b) /\ CacheOK(2, d) /\ Fetched(d) = Fetched(b)
      /\ OpsSent(d) = OpsSent(b) /\ Ops(d) = Ops(b) \cup {p.id}
      /\ Dirty(d) \subseteq Dirty(b) /\ Leaving(d) \subseteq MayLeave(2, b)
  BY Zenon DEF RowOpTaken, b
<1>6. AnsweredOK(a2, A)
  BY <1>1, <1>2, Zenon DEF AnsweredOK
<1>7. BelowOK(a, A, b)
  BY Zenon DEF a, b
<1>8. Missed(d) \subseteq Fetched(a2) \ Fills(A)
  BY <1>1, <1>5, <1>7, Zenon DEF BelowOK
<1>9. Ops(d) \subseteq OpsSent(a2) \ OpsDone(A)
  BY <1>1, <1>2, <1>5, <1>7, Zenon DEF BelowOK
<1>10. ASSUME NEW y \in Leaving(d) \cup Dirty(d)
       PROVE  y \notin Valid(a2) /\ y \notin Leaving(a2) /\ y \notin Fills(A)
  <2>1. y \in MayLeave(2, b) \/ y \in Dirty(b)
    BY <1>5, Zenon
  <2>2. CASE y \in MayLeave(2, b)
    BY <1>0, <1>1, <2>2, Zenon
  <2>3. CASE y \in Dirty(b)
    BY <1>1, <1>7, <2>3, Zenon DEF BelowOK
  <2> QED BY <2>1, <2>2, <2>3, Zenon
<1>11. BelowOK(a2, A, d)
  BY <1>8, <1>9, <1>10, Zenon DEF BelowOK
<1>12. \A r \in {} : RespOK(r) /\ r.to = 1
  BY Zenon
<1> QED BY <1>3, <1>5, <1>6, <1>11, <1>12, Zenon DEF Passed, b

(* recvTimingReq of cache 2 for what cache 1 sends *)
LEMMA PassPacket ==
    ASSUME 2 \in Levels, CacheOK(1, cache[1]), CacheOK(2, cache[2]), NEW A,
           AnsweredOK(cache[1], A), BelowOK(cache[1], A, cache[2]), NEW a2, NEW p,
           Sending(1, cache[1], a2, p), NEW out \in recvTimingReq(2, cache[2], p)
    PROVE  Passed(a2, A, cache[2], out.c, out.resps)
<1> DEFINE a == cache[1]
           b == cache[2]
<1>1. CASE ReadSent(a, a2, p)
  <2>1. p.cmd \in Cmds(2) /\ p.cmd # "RowOp" /\ p.cmd \notin {"Writeback", "CleanEvict"}
    BY <1>1 DEF Cmds, ReadSent
  <2>2. out = AcceptAccess(2, b, p)
    BY <2>1, Zenon DEF recvTimingReq
  <2>3. p.blk \in Blocks /\ p.blk \notin Missed(b)
    BY <1>1, Zenon DEF ReadSent, Missed, BelowOK
  <2>4. AccessTaken(2, b, out.c, out.resps, p)
    BY <2>1, <2>2, <2>3, TakeHit, TakeMiss, Zenon
  <2>5. out.resps = {} \/ \E r : out.resps = {r} /\ Answers(r, 1, p)
    <3>1. 2 - 1 = 1
      OBVIOUS
    <3> QED BY <2>4, <3>1, Zenon DEF AccessTaken
  <2>6. CASE out.resps = {}
    BY <1>1, <2>4, <2>6, PassMiss, Zenon
  <2>7. ASSUME NEW r, out.resps = {r}, Answers(r, 1, p)
        PROVE  Passed(a2, A, b, out.c, out.resps)
    <3>1. 1 \in 0..Depth
      BY DepthAssumption
    <3>2. RespOK(r) /\ r.to = 1 /\ r.cmd # "RowOp" /\ r.blk = p.blk
      <4>1. RespOK(r) /\ r.to = 1 /\ r.cmd = p.cmd /\ r.blk = p.blk
        BY <2>1, <2>3, <2>7, <3>1, AnswerFields
      <4> QED BY <2>1, <4>1, Zenon
    <3>3. AccessTaken(2, b, out.c, {r}, p)
      BY <2>4, <2>7, Zenon
    <3>4. Passed(a2, A, b, out.c, {r})
      BY <1>1, <3>2, <3>3, PassHit, Zenon
    <3> QED BY <2>7, <3>4, Zenon
  <2> QED BY <2>5, <2>6, <2>7, Zenon
<1>2. CASE EvictSent(a, a2, p)
  <2>1. p.cmd \in {"Writeback", "CleanEvict"} /\ p.cmd # "RowOp"
    BY <1>2 DEF EvictSent
  <2>2. out \in AcceptEviction(2, b, p)
    BY <2>1, Zenon DEF recvTimingReq
  <2>3. p.blk \in Leaving(a) /\ p.blk \in Blocks /\ p.blk \notin Fetched(a)
    <3>1. p.blk \in Leaving(a)
      BY <1>2, Zenon DEF EvictSent
    <3> QED BY <3>1, Apart, Zenon DEF Leaving
  <2>4. p.blk \notin Missed(b) /\ p.blk \notin Leaving(b)
    BY <2>3, Zenon DEF BelowOK
  <2>5. EvictTaken(2, b, out.c, p.blk) /\ out.resps = {}
    <3>1. CacheOK(2, b)
      OBVIOUS
    <3> HIDE DEF b
    <3> QED BY <2>1, <2>2, <2>3, <2>4, <3>1, TakeEvict
  <2>6. Passed(a2, A, b, out.c, {})
    BY <1>2, <2>5, PassEvict, Zenon
  <2> QED BY <2>5, <2>6, Zenon
<1>3. CASE OpSent(a, a2, p)
  <2>1. p.cmd = "RowOp" /\ p.rows \in Rows \X Rows
    BY <1>3, Zenon DEF OpSent
  <2>2. out = AcceptRowOp(2, b, p)
    BY <2>1, Zenon DEF recvTimingReq
  <2>3. p.id \in Nat \ Ops(b)
    BY <1>3, Zenon DEF OpSent, Ops, BelowOK
  <2>4. out.resps = {} /\ \E n : RowOpTaken(2, b, out.c, p.id, n)
    BY <2>1, <2>2, <2>3, TakeRowOp, Zenon
  <2>5. Passed(a2, A, b, out.c, {})
    BY <1>3, <2>4, PassOp, Zenon
  <2> QED BY <2>4, <2>5, Zenon
<1> QED BY <1>1, <1>2, <1>3, Zenon DEF Sending

BothSet(C, a2, d) == [C EXCEPT ![1] = a2, ![2] = d]

(* The chain when cache 1 sends to cache 2 *)
LEMMA PairStep ==
    ASSUME 2 \in Levels, NEW C, NEW R, NEW M, NEW n, Chain(C, R, M, n), NEW a2, NEW p,
           Sending(1, C[1], a2, p), NEW d, NEW rs, Passed(a2, To(R, 1), C[2], d, rs),
           NEW D, D = BothSet(C, a2, d)
    PROVE  Chain(D, R \cup rs, M, n)
<1>0. /\ C = [l \in Levels |-> C[l]] /\ \A l \in Levels : CacheOK(l, C[l])
      /\ \A l \in Levels : AnsweredOK(C[l], To(R, l))
      /\ MemOK(C[Depth], To(R, Depth), M)
      /\ n \in Nat /\ Ops(C[1]) \subseteq 1..n
      /\ \A r \in R : RespOK(r)
  BY Zenon DEF Chain
<1>1. 1 \in Levels /\ Depth = 2 /\ (\A l \in Levels : l = 1 \/ l = 2) /\ 2 # 1
  BY LevelFacts
<1>2. D = [l \in Levels |-> D[l]] /\ D[1] = a2 /\ D[2] = d
  BY <1>0, <1>1, Zenon DEF BothSet
<1>3. \A l \in Levels : CacheOK(l, D[l])
  BY <1>1, <1>2, Zenon DEF Sending, Passed
<1>4. To(R \cup rs, 1) = To(R, 1) \cup rs /\ To(R \cup rs, 2) = To(R, 2)
  <2>1. \A r \in rs : r.to = 1
    BY Zenon DEF Passed
  <2> QED BY <1>1, <2>1, Zenon DEF To
<1>5. AnsweredOK(d, To(R, 2))
  BY <1>0, Zenon DEF AnsweredOK, Passed
<1>6. \A l \in Levels : AnsweredOK(D[l], To(R \cup rs, l))
  BY <1>1, <1>2, <1>4, <1>5, Zenon DEF Passed
<1>7. BelowOK(D[1], To(R \cup rs, 1), D[2])
  BY <1>2, <1>4, Zenon DEF Passed
<1>8. MemOK(D[Depth], To(R \cup rs, Depth), M)
  BY <1>0, <1>1, <1>2, <1>4, Zenon DEF MemOK, Passed
<1>9. Ops(D[1]) \subseteq 1..n
  BY <1>0, <1>2, Zenon DEF Sending
<1>10. \A r \in R \cup rs : RespOK(r)
  BY <1>0, Zenon DEF Passed
<1> QED BY <1>0, <1>2, <1>3, <1>6, <1>7, <1>8, <1>9, <1>10, Zenon DEF Chain

(* SendToCache: cache 1 sends an entry that is ready, and cache 2, which   *)
(* is not blocked, takes it.                                               *)
LEMMA SendTakes ==
    ASSUME IInv, NEW l \in Levels, SendToCache(l)
    PROVE  /\ 1 \in Levels /\ 2 \in Levels /\ ~isBlocked(cache[2]) /\ reqs' = reqs /\ reads' = reads
           /\ \E a2, p, out : /\ Sending(1, cache[1], a2, p)
                              /\ out \in recvTimingReq(2, cache[2], p)
                              /\ cache' = BothSet(cache, a2, out.c)
                              /\ resps' = resps \cup out.resps
<1>1. IsList(reqs) /\ Chain(cache, resps, reads, Len(reqs))
  BY Zenon DEF IInv
<1>2. l = 1 /\ l + 1 = 2 /\ 1 \in Levels /\ 2 \in Levels
  BY LevelFacts, Zenon DEF SendToCache
<1>3. /\ CacheOK(1, cache[1]) /\ CacheOK(2, cache[2]) /\ AnsweredOK(cache[1], To(resps, 1))
      /\ BelowOK(cache[1], To(resps, 1), cache[2])
  BY <1>1, <1>2, LevelFacts, Zenon DEF Chain
<1> DEFINE mark(i, rs) == markInService(cache[1], i, \E r \in rs : r.dirty)
<1>4. PICK h, i, out :
          /\ i \in getNextMSHR(cache[1], h)
          /\ out \in recvTimingReq(2, cache[2], getTimingPacket(cache[1].q[i]))
          /\ cache' = BothSet(cache, mark(i, out.resps), out.c)
          /\ resps' = resps \cup out.resps
  <2> DEFINE S(k, j) ==
         \E h \in DOMAIN cache[k].q : \E i \in getNextMSHR(cache[k], h) :
            \E out \in recvTimingReq(j, cache[j], getTimingPacket(cache[k].q[i])) :
               /\ cache' = [cache EXCEPT
                     ![k] = markInService(@, i, \E r \in out.resps : r.dirty),
                     ![j] = out.c]
               /\ resps' = resps \cup out.resps
  <2>1. S(l, l + 1)
    BY Zenon DEF SendToCache
  <2>2. S(1, 2)
    <3> HIDE DEF S
    <3> QED BY <1>2, <2>1, Zenon
  <2>3. \E h, i : i \in getNextMSHR(cache[1], h) /\
         \E out \in recvTimingReq(2, cache[2], getTimingPacket(cache[1].q[i])) :
            /\ cache' = BothSet(cache, mark(i, out.resps), out.c)
            /\ resps' = resps \cup out.resps
    BY <2>2, Zenon DEF BothSet
  <2> HIDE DEF mark
  <2> QED BY <2>3, Zenon
<1>5. reqs' = reqs /\ reads' = reads
  BY Zenon DEF SendToCache
<1>9. ~isBlocked(cache[2])
  BY <1>2, Zenon DEF SendToCache
<1> DEFINE p == getTimingPacket(cache[1].q[i])
           dirtyResp == \E r \in out.resps : r.dirty
           a2 == mark(i, out.resps)
<1>6. Sending(1, cache[1], a2, p)
  <2>1. a2 = markInService(cache[1], i, dirtyResp)
    OBVIOUS
  <2> HIDE DEF dirtyResp, a2
  <2> QED BY <1>3, <1>4, <2>1, SendEntry, Zenon
<1>7. cache' = BothSet(cache, a2, out.c) /\ out \in recvTimingReq(2, cache[2], p)
  BY <1>4, Zenon
<1> HIDE DEF a2, p
<1>8. resps' = resps \cup out.resps
  BY <1>4, Zenon
<1> QED BY <1>2, <1>5, <1>6, <1>7, <1>8, <1>9, Zenon

(* SendToCache keeps IInv. *)
LEMMA SendToCacheStep ==
    ASSUME IInv, NEW l \in Levels, SendToCache(l)
    PROVE  IInv'
<1>1. IsList(reqs) /\ Chain(cache, resps, reads, Len(reqs))
  BY Zenon DEF IInv
<1>2. 1 \in Levels /\ 2 \in Levels /\ reqs' = reqs /\ reads' = reads
  BY SendTakes, Zenon
<1>3. /\ CacheOK(1, cache[1]) /\ CacheOK(2, cache[2]) /\ AnsweredOK(cache[1], To(resps, 1))
      /\ BelowOK(cache[1], To(resps, 1), cache[2])
  BY <1>1, <1>2, Zenon DEF Chain
<1>4. PICK a2, p, out : /\ Sending(1, cache[1], a2, p)
                        /\ out \in recvTimingReq(2, cache[2], p)
                        /\ cache' = BothSet(cache, a2, out.c)
                        /\ resps' = resps \cup out.resps
  BY SendTakes, Zenon
<1>5. Passed(a2, To(resps, 1), cache[2], out.c, out.resps)
  BY <1>2, <1>3, <1>4, PassPacket, Zenon
<1>6. Chain(cache', resps', reads, Len(reqs))
  BY <1>1, <1>2, <1>4, <1>5, PairStep, Zenon
<1> QED BY <1>1, <1>2, <1>6, Zenon DEF IInv

(* A fill arrives at cache c, which is d afterwards. *)
LEMMA FillHere ==
    ASSUME NEW l, NEW c, NEW A, AnsweredOK(c, A), NEW r \in A, r.cmd # "RowOp",
           r.blk \in Blocks, NEW d, NEW rs, FillTaken(l, c, d, rs, r.blk)
    PROVE  /\ AnsweredOK(d, A \ {r})
           /\ \A b : BelowOK(c, A, b) => BelowOK(d, A \ {r}, b)
           /\ \A M : MemOK(c, A, M) => MemOK(d, A \ {r}, M)
<1> DEFINE x == r.blk
<1>1. /\ OneEach(A \ {r}) /\ Fills(A \ {r}) = Fills(A) \ {x}
      /\ OpsDone(A \ {r}) = OpsDone(A)
  BY Arrived, Zenon DEF AnsweredOK
<1>2. x \in Fills(A)
  BY Zenon DEF Fills
<1>3. Fills(A) \subseteq Fetched(c) /\ OpsDone(A) \subseteq OpsSent(c)
  BY Zenon DEF AnsweredOK
<1>4. /\ Fetched(d) = Fetched(c) \ {x} /\ OpsSent(d) = OpsSent(c)
      /\ Valid(d) \subseteq Valid(c) \cup {x} /\ Leaving(d) \subseteq MayLeave(l, c)
  BY Zenon DEF FillTaken
<1>5. AnsweredOK(d, A \ {r})
  BY <1>1, <1>3, <1>4, Zenon DEF AnsweredOK
<1>6. ASSUME NEW b, BelowOK(c, A, b) PROVE BelowOK(d, A \ {r}, b)
  <2>1. Missed(b) \subseteq Fetched(d) \ Fills(A \ {r})
    BY <1>1, <1>2, <1>4, <1>6, Zenon DEF BelowOK
  <2>2. Ops(b) \subseteq OpsSent(d) \ OpsDone(A \ {r})
    BY <1>1, <1>4, <1>6, Zenon DEF BelowOK
  <2>3. ASSUME NEW y \in Leaving(b) \cup Dirty(b)
        PROVE  y \notin Valid(d) /\ y \notin Leaving(d) /\ y \notin Fills(A \ {r})
    <3>1. y \notin Valid(c) /\ y \notin Leaving(c) /\ y \notin Fills(A)
      BY <1>6, Zenon DEF BelowOK
    <3>2. y \notin MayLeave(l, c)
      BY <3>1, LeavesHere, Zenon
    <3> QED BY <1>1, <1>2, <1>4, <3>1, <3>2, Zenon
  <2> QED BY <2>1, <2>2, <2>3, Zenon DEF BelowOK
<1>7. ASSUME NEW M, MemOK(c, A, M) PROVE MemOK(d, A \ {r}, M)
  <2>1. MemReads(M) \subseteq Fetched(d) \ Fills(A \ {r})
    BY <1>1, <1>2, <1>4, <1>7, Zenon DEF MemOK
  <2> QED BY <1>7, <2>1, Zenon DEF MemOK
<1> QED BY <1>5, <1>6, <1>7, Zenon

(* Cache 2 answers cache 1. *)
LEMMA FillAbove ==
    ASSUME 2 \in Levels, CacheOK(1, cache[1]), CacheOK(2, cache[2]), NEW A,
           AnsweredOK(cache[1], A), BelowOK(cache[1], A, cache[2]),
           NEW x \in Fetched(cache[2]), NEW d, NEW rs, FillTaken(2, cache[2], d, rs, x)
    PROVE  AnsweredOK(cache[1], A \cup rs) /\ BelowOK(cache[1], A \cup rs, d)
<1> DEFINE a == cache[1]
           c == cache[2]
<1>0. \A y \in MayLeave(2, c) : y \notin Valid(a) /\ y \notin Leaving(a) /\ y \notin Fills(A)
  BY LeavesAbove, Zenon
<1>1. x \in Missed(c) /\ x \in Blocks
  <2>1. Fetched(cache[2]) \subseteq Missed(cache[2])
    BY Apart, Zenon
  <2> QED BY <2>1, Zenon DEF Missed
<1> HIDE DEF a, c
<1>2. OneEach(A) /\ Fills(A) \subseteq Fetched(a) /\ OpsDone(A) \subseteq OpsSent(a)
  BY Zenon DEF AnsweredOK, a
<1>3. BelowOK(a, A, c) /\ FillTaken(2, c, d, rs, x)
  BY Zenon DEF a, c
<1>4. x \in Fetched(a) /\ x \notin Fills(A)
  BY <1>1, <1>3, Zenon DEF BelowOK
<1>5. PICK r : rs = {r}
  <2>1. 2 # 1
    OBVIOUS
  <2> QED BY <1>3, <2>1, Zenon DEF FillTaken
<1>6. r.cmd # "RowOp" /\ r.blk = x
  BY <1>3, <1>5, Zenon DEF FillTaken
<1>7. /\ OneEach(A \cup {r}) /\ OpsDone(A \cup {r}) = OpsDone(A)
      /\ Fills(A \cup {r}) = Fills(A) \cup {x}
  <2>1. r.blk \in Blocks /\ r.blk \notin Fills(A)
    BY <1>1, <1>4, <1>6, Zenon
  <2>2. /\ OneEach(A \cup {r}) /\ OpsDone(A \cup {r}) = OpsDone(A)
        /\ Fills(A \cup {r}) = Fills(A) \cup {r.blk}
    BY <1>2, <1>6, <2>1, FillAdd
  <2> QED BY <1>6, <2>2, Zenon
<1>8. AnsweredOK(a, A \cup {r})
  BY <1>2, <1>4, <1>7, Zenon DEF AnsweredOK
<1>9. /\ Missed(d) = Missed(c) \ {x} /\ Ops(d) = Ops(c)
      /\ Dirty(d) \subseteq Dirty(c) /\ x \notin Dirty(d)
      /\ Leaving(d) \subseteq MayLeave(2, c) /\ x \notin Leaving(d)
  <2>1. 2 # 1
    OBVIOUS
  <2> QED BY <1>3, <2>1, Zenon DEF FillTaken
<1>10. Missed(d) \subseteq Fetched(a) \ Fills(A \cup {r})
  BY <1>3, <1>7, <1>9, Zenon DEF BelowOK
<1>11. Ops(d) \subseteq OpsSent(a) \ OpsDone(A \cup {r})
  BY <1>3, <1>7, <1>9, Zenon DEF BelowOK
<1>12. ASSUME NEW y \in Leaving(d) \cup Dirty(d)
       PROVE  y \notin Valid(a) /\ y \notin Leaving(a) /\ y \notin Fills(A \cup {r})
  <2>1. y # x /\ (y \in MayLeave(2, c) \/ y \in Dirty(c))
    BY <1>9, Zenon
  <2>2. CASE y \in MayLeave(2, c)
    BY <1>0, <1>7, <2>1, <2>2, Zenon
  <2>3. CASE y \in Dirty(c)
    BY <1>3, <1>7, <2>1, <2>3, Zenon DEF BelowOK
  <2> QED BY <2>1, <2>2, <2>3, Zenon
<1>13. BelowOK(a, A \cup {r}, d)
  BY <1>10, <1>11, <1>12, Zenon DEF BelowOK
<1> QED BY <1>5, <1>8, <1>13, Zenon DEF a

\* Cache l of C becomes d when response r arrives, which is answered by rs: what is
\* left to show of the chain
Arrival(C, R, M, l, d, r, rs) ==
    /\ CacheOK(l, d) /\ r \in R /\ r.to = l
    /\ \A x \in rs : RespOK(x) /\ x.to = l - 1
    /\ AnsweredOK(d, To(R, l) \ {r})
    /\ l = 1 /\ 2 \in Levels => BelowOK(d, To(R, 1) \ {r}, C[2])
    /\ l = 2 => AnsweredOK(C[1], To(R, 1) \cup rs) /\ BelowOK(C[1], To(R, 1) \cup rs, d)
    /\ l = Depth => MemOK(d, To(R, l) \ {r}, M)
    /\ Ops(d) \subseteq Ops(C[l])

(* The chain when a response arrives *)
LEMMA ArrivalStep ==
    ASSUME NEW C, NEW R, NEW M, NEW n, Chain(C, R, M, n), NEW l \in Levels, NEW d,
           NEW r, NEW rs, Arrival(C, R, M, l, d, r, rs), NEW D, D = [C EXCEPT ![l] = d],
           NEW R2, R2 = (R \ {r}) \cup rs
    PROVE  Chain(D, R2, M, n)
<1>0. /\ C = [k \in Levels |-> C[k]] /\ \A k \in Levels : CacheOK(k, C[k])
      /\ \A k \in Levels : AnsweredOK(C[k], To(R, k))
      /\ MemOK(C[Depth], To(R, Depth), M)
      /\ n \in Nat /\ Ops(C[1]) \subseteq 1..n
      /\ \A x \in R : RespOK(x)
  BY Zenon DEF Chain
<1>1. /\ 1 \in Levels /\ Depth \in Levels /\ \A k \in Levels : k = 1 \/ k = 2
      /\ (2 \in Levels => Depth = 2) /\ (2 \notin Levels => Depth = 1) /\ 2 # 1
  BY LevelFacts
<1>2. D = [k \in Levels |-> D[k]] /\ D[l] = d /\ \A k \in Levels : k # l => D[k] = C[k]
  BY <1>0
<1>3. \A k \in Levels : CacheOK(k, D[k])
  BY <1>0, <1>2, Zenon DEF Arrival
<1>4. /\ To(R2, l) = To(R, l) \ {r}
      /\ l = 1 /\ 2 \in Levels => To(R2, 2) = To(R, 2)
      /\ l = 2 => To(R2, 1) = To(R, 1) \cup rs
  <2>1. l \in Nat
    BY <1>1
  <2>2. r \in R /\ r.to = l /\ \A x \in rs : x.to = l - 1
    BY Zenon DEF Arrival
  <2>3. /\ To(R2, l) = To(R, l) \ {r}
        /\ To(R2, l - 1) = To(R, l - 1) \cup rs
        /\ \A k : k # l /\ k # l - 1 => To(R2, k) = To(R, k)
    <3>1. l # l - 1
      BY <2>1
    <3> QED BY <2>2, <3>1, Zenon DEF To
  <2>4. (l = 1 => 2 # l /\ 2 # l - 1) /\ (l = 2 => l - 1 = 1)
    OBVIOUS
  <2> QED BY <2>3, <2>4, Zenon
<1>5. ASSUME NEW k \in Levels PROVE AnsweredOK(D[k], To(R2, k))
  <2>1. CASE k = l
    BY <1>2, <1>4, <2>1, Zenon DEF Arrival
  <2>2. CASE k # l /\ l = 1
    BY <1>0, <1>1, <1>2, <1>4, <2>2, Zenon
  <2>3. CASE k # l /\ l = 2
    BY <1>1, <1>2, <1>4, <2>3, Zenon DEF Arrival
  <2> QED BY <1>1, <2>1, <2>2, <2>3, Zenon
<1>6. ASSUME 2 \in Levels PROVE BelowOK(D[1], To(R2, 1), D[2])
  <2>1. CASE l = 1
    BY <1>1, <1>2, <1>4, <1>6, <2>1, Zenon DEF Arrival
  <2>2. CASE l = 2
    BY <1>1, <1>2, <1>4, <1>6, <2>2, Zenon DEF Arrival
  <2> QED BY <1>1, <2>1, <2>2, Zenon
<1>7. MemOK(D[Depth], To(R2, Depth), M)
  <2>1. CASE l = Depth
    BY <1>2, <1>4, <2>1, Zenon DEF Arrival
  <2>2. CASE l # Depth
    <3>1. l = 1 /\ Depth = 2 /\ 2 \in Levels
      BY <1>1, <2>2
    <3> QED BY <1>0, <1>2, <1>4, <2>2, <3>1, Zenon
  <2> QED BY <2>1, <2>2, Zenon
<1>8. Ops(D[1]) \subseteq 1..n
  BY <1>0, <1>1, <1>2, Zenon DEF Arrival
<1>9. \A x \in R2 : RespOK(x)
  BY <1>0, Zenon DEF Arrival
<1> QED BY <1>0, <1>2, <1>3, <1>5, <1>6, <1>7, <1>8, <1>9, Zenon DEF Chain

(* RecvFill: the fill answers a block that the cache fetches. *)
LEMMA FillTakes ==
    ASSUME IInv, NEW l \in Levels, RecvFill(l)
    PROVE  \E r, out : /\ r \in resps /\ r.to = l /\ r.cmd # "RowOp"
                       /\ r.blk \in Blocks /\ r.blk \in Fetched(cache[l])
                       /\ FillTaken(l, cache[l], out.c, out.resps, r.blk)
                       /\ cache' = [cache EXCEPT ![l] = out.c]
                       /\ resps' = (resps \ {r}) \cup out.resps
                       /\ reads' = reads /\ reqs' = reqs
<1>1. IsList(reqs) /\ Chain(cache, resps, reads, Len(reqs))
  BY Zenon DEF IInv
<1>2. PICK r, out : /\ r \in resps /\ r.to = l /\ r.cmd # "RowOp"
                    /\ out \in Fill(l, cache[l], r)
                    /\ cache' = [cache EXCEPT ![l] = out.c]
                    /\ resps' = (resps \ {r}) \cup out.resps
                    /\ reads' = reads /\ reqs' = reqs
  BY Zenon DEF RecvFill
<1> DEFINE c == cache[l]
           A == To(resps, l)
<1>3. /\ CacheOK(l, c) /\ AnsweredOK(c, A) /\ r \in A /\ r.blk \in Blocks
  BY <1>1, <1>2, Zenon DEF Chain, To, RespOK
<1>4. r.blk \in Fetched(c)
  <2>1. r.blk \in Fills(A)
    BY <1>2, <1>3, Zenon DEF Fills
  <2> QED BY <1>3, <2>1, Zenon DEF AnsweredOK
<1>5. FillTaken(l, c, out.c, out.resps, r.blk)
  BY <1>2, <1>3, <1>4, TakeFill, Zenon
<1> QED BY <1>2, <1>3, <1>4, <1>5, Zenon

(* RecvFill keeps IInv. *)
LEMMA RecvFillStep ==
    ASSUME IInv, NEW l \in Levels, RecvFill(l)
    PROVE  IInv'
<1>1. IsList(reqs) /\ Chain(cache, resps, reads, Len(reqs))
  BY Zenon DEF IInv
<1> DEFINE c == cache[l]
           A == To(resps, l)
<1>2. PICK r, out : /\ r \in resps /\ r.to = l /\ r.cmd # "RowOp"
                    /\ r.blk \in Blocks /\ r.blk \in Fetched(c)
                    /\ FillTaken(l, c, out.c, out.resps, r.blk)
                    /\ cache' = [cache EXCEPT ![l] = out.c]
                    /\ resps' = (resps \ {r}) \cup out.resps
                    /\ reads' = reads /\ reqs' = reqs
  BY FillTakes, Zenon
<1>3. CacheOK(l, c) /\ AnsweredOK(c, A) /\ r \in A
  BY <1>1, <1>2, Zenon DEF Chain, To
<1>6. /\ AnsweredOK(out.c, A \ {r})
      /\ \A b : BelowOK(c, A, b) => BelowOK(out.c, A \ {r}, b)
      /\ \A M : MemOK(c, A, M) => MemOK(out.c, A \ {r}, M)
  BY <1>2, <1>3, FillHere, Zenon
<1>7. ASSUME l = 1, 2 \in Levels PROVE BelowOK(out.c, To(resps, 1) \ {r}, cache[2])
  BY <1>1, <1>6, <1>7, Zenon DEF Chain
<1>8. ASSUME l = 2
      PROVE  /\ AnsweredOK(cache[1], To(resps, 1) \cup out.resps)
             /\ BelowOK(cache[1], To(resps, 1) \cup out.resps, out.c)
  <2>1. /\ 2 \in Levels /\ CacheOK(1, cache[1]) /\ CacheOK(2, cache[2])
        /\ AnsweredOK(cache[1], To(resps, 1)) /\ BelowOK(cache[1], To(resps, 1), cache[2])
    BY <1>1, <1>8, LevelFacts, Zenon DEF Chain
  <2>2. r.blk \in Fetched(cache[2]) /\ FillTaken(2, cache[2], out.c, out.resps, r.blk)
    BY <1>2, <1>8, Zenon
  <2> QED BY <2>1, <2>2, FillAbove, Zenon
<1>9. ASSUME l = Depth PROVE MemOK(out.c, A \ {r}, reads)
  BY <1>1, <1>6, <1>9, Zenon DEF Chain
<1>10. /\ CacheOK(l, out.c) /\ Ops(out.c) \subseteq Ops(c)
       /\ \A x \in out.resps : RespOK(x) /\ x.to = l - 1
  BY <1>2, Zenon DEF FillTaken
<1>11. Arrival(cache, resps, reads, l, out.c, r, out.resps)
  BY <1>2, <1>6, <1>7, <1>8, <1>9, <1>10, Zenon DEF Arrival
<1>12. Chain(cache', resps', reads, Len(reqs))
  BY <1>1, <1>2, <1>11, ArrivalStep, Zenon
<1> QED BY <1>1, <1>2, <1>12, Zenon DEF IInv

OpTaken(l, c, d, x) ==
    /\ CacheOK(l, d) /\ Valid(d) = Valid(c) /\ Dirty(d) = Dirty(c) /\ Len(d.q) <= Len(c.q)
    /\ Seen(d, Missed(c), Fetched(c), Leaving(c), Ops(c) \ {x}, OpsSent(c) \ {x})

(* The response to a row operation finds the entry that sent it. *)
LEMMA TakeOp ==
    ASSUME NEW l, NEW c, CacheOK(l, c), NEW x \in OpsSent(c), NEW i,
           i = CHOOSE j \in Allocated(c, "write") : Uncacheable(c.q[j]) /\ c.q[j].targets[1].id = x
    PROVE  OpTaken(l, c, Without(c, i), x)
<1> DEFINE P(j) == Uncacheable(c.q[j]) /\ c.q[j].targets[1].id = x
           d == Without(c, i)
<1>1. DOMAIN c.q = 1..Len(c.q) /\ Len(c.q) \in Nat
      /\ \A y \in Items(c.q) : \E j \in 1..Len(c.q) : y = c.q[j]
  BY QueueFacts, Zenon
<1>2. \E m \in Items(c.q) : IsOp(m) /\ OpId(m) = x
  BY Zenon DEF OpsSent
<1>3. PICK k \in 1..Len(c.q) : IsOp(c.q[k]) /\ OpId(c.q[k]) = x
  BY <1>1, <1>2, Zenon
<1>4. k \in Allocated(c, "write") /\ P(k)
  BY <1>1, <1>3, Zenon DEF Allocated, IsOp, OpId
<1>5. i \in Allocated(c, "write") /\ P(i)
  BY <1>4, Zenon
<1>6. i \in 1..Len(c.q) /\ IsOp(c.q[i]) /\ OpId(c.q[i]) = x
  BY <1>1, <1>5, Zenon DEF Allocated, IsOp, OpId
<1>7. CacheOK(l, d) /\ Lost(c, d, c.q[i])
  BY <1>6, RemoveEntry, Zenon
<1> HIDE DEF d
<1>8. Seen(d, Missed(c), Fetched(c), Leaving(c), Ops(c) \ {x}, OpsSent(c) \ {x})
  <2> DEFINE m == c.q[i]
  <2>1. m \in Items(c.q)
    BY <1>1, <1>6, Zenon DEF Items
  <2> HIDE DEF m
  <2>2. IsOp(m) /\ OpId(m) = x /\ Lost(c, d, m)
    BY <1>6, <1>7, Zenon DEF m
  <2>3. Seen(d, Missed(c), Fetched(c), Leaving(c), Ops(c) \ {OpId(m)}, OpsSent(c) \ {OpId(m)})
    BY <2>1, <2>2, Removed, Zenon
  <2> QED BY <2>2, <2>3, Zenon
<1>9. d.blk = c.blk /\ Len(d.q) = Len(c.q) - 1
  BY <1>7, Zenon DEF Lost
<1>10. Valid(d) = Valid(c) /\ Dirty(d) = Dirty(c)
  BY <1>9, Zenon DEF Valid, Dirty
<1>11. Len(d.q) <= Len(c.q)
  BY <1>1, <1>9
<1> QED BY <1>7, <1>8, <1>10, <1>11, Zenon DEF OpTaken, d

(* The response to a row operation arrives at cache c, which is d          *)
(* afterwards.                                                             *)
LEMMA OpHere ==
    ASSUME NEW l, NEW c, NEW A, AnsweredOK(c, A), NEW r \in A, r.cmd = "RowOp",
           r.id \in Nat, NEW d, OpTaken(l, c, d, r.id)
    PROVE  /\ AnsweredOK(d, A \ {r})
           /\ \A b : BelowOK(c, A, b) => BelowOK(d, A \ {r}, b)
           /\ \A M : MemOK(c, A, M) => MemOK(d, A \ {r}, M)
<1> DEFINE x == r.id
<1>1. /\ OneEach(A \ {r}) /\ Fills(A \ {r}) = Fills(A)
      /\ OpsDone(A \ {r}) = OpsDone(A) \ {x}
  BY Arrived, Zenon DEF AnsweredOK
<1>2. x \in OpsDone(A)
  BY Zenon DEF OpsDone
<1>3. Fills(A) \subseteq Fetched(c) /\ OpsDone(A) \subseteq OpsSent(c)
  BY Zenon DEF AnsweredOK
<1>4. /\ Fetched(d) = Fetched(c) /\ OpsSent(d) = OpsSent(c) \ {x}
      /\ Valid(d) = Valid(c) /\ Leaving(d) = Leaving(c)
  BY Zenon DEF OpTaken, Seen
<1>5. AnsweredOK(d, A \ {r})
  BY <1>1, <1>3, <1>4, Zenon DEF AnsweredOK
<1>6. ASSUME NEW b, BelowOK(c, A, b) PROVE BelowOK(d, A \ {r}, b)
  <2>1. Missed(b) \subseteq Fetched(d) \ Fills(A \ {r})
    BY <1>1, <1>4, <1>6, Zenon DEF BelowOK
  <2>2. Ops(b) \subseteq OpsSent(d) \ OpsDone(A \ {r})
    BY <1>1, <1>2, <1>4, <1>6, Zenon DEF BelowOK
  <2> QED BY <1>1, <1>4, <1>6, <2>1, <2>2, Zenon DEF BelowOK
<1>7. ASSUME NEW M, MemOK(c, A, M) PROVE MemOK(d, A \ {r}, M)
  BY <1>1, <1>4, <1>7, Zenon DEF MemOK
<1> QED BY <1>5, <1>6, <1>7, Zenon

(* Cache 2 forwards it to cache 1. *)
LEMMA OpAbove ==
    ASSUME NEW a, NEW c, NEW A, AnsweredOK(a, A), BelowOK(a, A, c), CacheOK(2, c),
           NEW x \in OpsSent(c), NEW d, OpTaken(2, c, d, x),
           NEW r, r.cmd = "RowOp", r.id = x
    PROVE  AnsweredOK(a, A \cup {r}) /\ BelowOK(a, A \cup {r}, d)
<1>1. x \in Ops(c) /\ x \in Nat
  <2>1. OpsSent(c) \subseteq Ops(c)
    BY Apart, Zenon
  <2> QED BY <2>1, Zenon DEF Ops
<1>2. OneEach(A) /\ Fills(A) \subseteq Fetched(a) /\ OpsDone(A) \subseteq OpsSent(a)
  BY Zenon DEF AnsweredOK
<1>3. x \in OpsSent(a) /\ x \notin OpsDone(A)
  BY <1>1, Zenon DEF BelowOK
<1>4. /\ OneEach(A \cup {r}) /\ Fills(A \cup {r}) = Fills(A)
      /\ OpsDone(A \cup {r}) = OpsDone(A) \cup {x}
  <2>1. r.id \in Nat /\ r.id \notin OpsDone(A)
    BY <1>1, <1>3, Zenon
  <2>2. /\ OneEach(A \cup {r}) /\ Fills(A \cup {r}) = Fills(A)
        /\ OpsDone(A \cup {r}) = OpsDone(A) \cup {r.id}
    BY <1>2, <2>1, OpAdd
  <2> QED BY <2>2, Zenon
<1>5. AnsweredOK(a, A \cup {r})
  BY <1>2, <1>3, <1>4, Zenon DEF AnsweredOK
<1>6. /\ Missed(d) = Missed(c) /\ Ops(d) = Ops(c) \ {x} /\ Dirty(d) = Dirty(c)
      /\ Leaving(d) = Leaving(c)
  BY Zenon DEF OpTaken, Seen
<1>7. Missed(d) \subseteq Fetched(a) \ Fills(A \cup {r})
  BY <1>4, <1>6, Zenon DEF BelowOK
<1>8. Ops(d) \subseteq OpsSent(a) \ OpsDone(A \cup {r})
  BY <1>4, <1>6, Zenon DEF BelowOK
<1>9. BelowOK(a, A \cup {r}, d)
  BY <1>4, <1>6, <1>7, <1>8, Zenon DEF BelowOK
<1> QED BY <1>5, <1>9, Zenon

(* ForwardRowOpResp: the response answers a row operation that the cache   *)
(* sent.                                                                   *)
LEMMA ForwardTakes ==
    ASSUME IInv, NEW l \in Levels, ForwardRowOpResp(l)
    PROVE  \E r, d : /\ r \in resps /\ r.to = l /\ r.cmd = "RowOp" /\ RespOK(r)
                     /\ r.id \in OpsSent(cache[l]) /\ OpTaken(l, cache[l], d, r.id)
                     /\ cache' = [cache EXCEPT ![l] = d]
                     /\ resps' = (resps \ {r}) \cup {[r EXCEPT !.to = l - 1]}
                     /\ reads' = reads /\ reqs' = reqs
<1>1. IsList(reqs) /\ Chain(cache, resps, reads, Len(reqs))
  BY Zenon DEF IInv
<1> DEFINE c == cache[l]
           A == To(resps, l)
           at(x) == CHOOSE j \in Allocated(c, "write") :
                        Uncacheable(c.q[j]) /\ c.q[j].targets[1].id = x
<1>2. PICK r \in resps : /\ r.to = l /\ r.cmd = "RowOp"
                         /\ cache' = [cache EXCEPT ![l].q = RemoveAt(@, at(r.id))]
                         /\ resps' = (resps \ {r}) \cup {[r EXCEPT !.to = l - 1]}
                         /\ reads' = reads /\ reqs' = reqs
  BY Zenon DEF ForwardRowOpResp
<1> DEFINE x == r.id
           i == at(x)
           d == Without(c, i)
<1>3. /\ CacheOK(l, c) /\ AnsweredOK(c, A) /\ r \in A /\ x \in Nat /\ RespOK(r)
  BY <1>1, <1>2, Zenon DEF Chain, To, RespOK
<1>4. x \in OpsSent(c)
  <2>1. x \in OpsDone(A)
    BY <1>2, <1>3, Zenon DEF OpsDone
  <2> QED BY <1>3, <2>1, Zenon DEF AnsweredOK
<1>5. OpTaken(l, c, d, x)
  <2>1. i = CHOOSE j \in Allocated(c, "write") : Uncacheable(c.q[j]) /\ c.q[j].targets[1].id = x
    OBVIOUS
  <2> HIDE DEF i, x
  <2> QED BY <1>3, <1>4, <2>1, TakeOp, Zenon
<1>6. cache' = [cache EXCEPT ![l] = d]
  <2>1. c = [blk |-> c.blk, q |-> c.q]
    BY <1>3, QueueFacts, Zenon
  <2>2. cache' = [cache EXCEPT ![l].q = RemoveAt(@, i)]
    BY <1>2, Zenon
  <2> HIDE DEF i
  <2> DEFINE e == [c EXCEPT !.q = RemoveAt(c.q, i)]
  <2>3. cache' = [cache EXCEPT ![l] = e]
    BY <2>2, Zenon
  <2>4. e = d
    <3> DEFINE s == RemoveAt(c.q, i)
    <3>1. d = [blk |-> c.blk, q |-> s] /\ e = [c EXCEPT !.q = s]
      BY Zenon DEF Without
    <3> HIDE DEF s, d, e
    <3>2. [c EXCEPT !.q = s] = [blk |-> c.blk, q |-> s]
      BY <2>1
    <3> QED BY <3>1, <3>2, Zenon
  <2> HIDE DEF e, d
  <2> QED BY <2>3, <2>4, Zenon
<1> HIDE DEF d
<1> QED BY <1>2, <1>3, <1>4, <1>5, <1>6, Zenon

(* ForwardRowOpResp keeps IInv. *)
LEMMA ForwardStep ==
    ASSUME IInv, NEW l \in Levels, ForwardRowOpResp(l)
    PROVE  IInv'
<1>1. IsList(reqs) /\ Chain(cache, resps, reads, Len(reqs))
  BY Zenon DEF IInv
<1> DEFINE c == cache[l]
           A == To(resps, l)
<1>2. PICK r, d : /\ r \in resps /\ r.to = l /\ r.cmd = "RowOp" /\ RespOK(r)
                  /\ r.id \in OpsSent(c) /\ OpTaken(l, c, d, r.id)
                  /\ cache' = [cache EXCEPT ![l] = d]
                  /\ resps' = (resps \ {r}) \cup {[r EXCEPT !.to = l - 1]}
                  /\ reads' = reads /\ reqs' = reqs
  BY ForwardTakes, Zenon
<1> DEFINE x == r.id
           q == [r EXCEPT !.to = l - 1]
<1>3. CacheOK(l, c) /\ AnsweredOK(c, A) /\ r \in A /\ x \in Nat
  BY <1>1, <1>2, Zenon DEF Chain, To, RespOK
<1>7. RespOK(q) /\ q.to = l - 1 /\ q.cmd = "RowOp" /\ q.id = x
  <2>1. r = [f \in {"to", "cmd", "blk", "id", "data", "dirty"} |-> r[f]]
    BY <1>2, Zenon DEF RespOK
  <2>2. l - 1 \in 0..Depth
    BY DepthAssumption DEF Levels
  <2>3. /\ q = [f \in {"to", "cmd", "blk", "id", "data", "dirty"} |-> q[f]]
        /\ q.to = l - 1 /\ q.cmd = r.cmd /\ q.id = r.id
    BY <2>1, Zenon
  <2> QED BY <1>2, <2>2, <2>3, Zenon DEF RespOK
<1> HIDE DEF q
<1>8. /\ AnsweredOK(d, A \ {r})
      /\ \A b : BelowOK(c, A, b) => BelowOK(d, A \ {r}, b)
      /\ \A M : MemOK(c, A, M) => MemOK(d, A \ {r}, M)
  BY <1>2, <1>3, OpHere, Zenon
<1>9. ASSUME l = 1, 2 \in Levels PROVE BelowOK(d, To(resps, 1) \ {r}, cache[2])
  BY <1>1, <1>8, <1>9, Zenon DEF Chain
<1>10. ASSUME l = 2
       PROVE  /\ AnsweredOK(cache[1], To(resps, 1) \cup {q})
              /\ BelowOK(cache[1], To(resps, 1) \cup {q}, d)
  <2>1. /\ AnsweredOK(cache[1], To(resps, 1)) /\ BelowOK(cache[1], To(resps, 1), c) /\ CacheOK(2, c)
    BY <1>1, <1>10, LevelFacts, Zenon DEF Chain
  <2>2. OpTaken(2, c, d, x)
    BY <1>2, <1>10, Zenon
  <2> QED BY <1>2, <1>7, <2>1, <2>2, OpAbove, Zenon
<1>11. ASSUME l = Depth PROVE MemOK(d, A \ {r}, reads)
  BY <1>1, <1>8, <1>11, Zenon DEF Chain
<1>12. /\ CacheOK(l, d) /\ Ops(d) \subseteq Ops(c)
       /\ \A y \in {q} : RespOK(y) /\ y.to = l - 1
  BY <1>2, <1>7, Zenon DEF OpTaken, Seen
<1>13. Arrival(cache, resps, reads, l, d, r, {q})
  BY <1>2, <1>8, <1>9, <1>10, <1>11, <1>12, Zenon DEF Arrival
<1>14. resps' = (resps \ {r}) \cup {q}
  BY <1>2, Zenon DEF q
<1>15. Chain(cache', resps', reads, Len(reqs))
  BY <1>1, <1>2, <1>13, <1>14, ArrivalStep, Zenon
<1> QED BY <1>1, <1>2, <1>15, Zenon DEF IInv

-----------------------------------------------------------------------------
(* The invariant *)

(* A cache that holds and queues nothing *)
LEMMA EmptyCache ==
    ASSUME NEW l, NEW c, c = [blk |-> [b \in Blocks |-> Invalid], q |-> <<>>]
    PROVE  /\ CacheOK(l, c) /\ Len(c.q) = 0
           /\ Valid(c) = {} /\ Dirty(c) = {} /\ Leaving(c) = {}
           /\ Missed(c) = {} /\ Fetched(c) = {} /\ Ops(c) = {} /\ OpsSent(c) = {}
<1>1. c.q = <<>> /\ c.blk = [b \in Blocks |-> Invalid] /\ c = [blk |-> c.blk, q |-> c.q]
  OBVIOUS
<1>2. IsBlk(c.blk)
  BY <1>1, Zenon DEF IsBlk
<1>3. Items(c.q) = {} /\ Len(c.q) = 0 /\ IsList(c.q)
  <2>1. Len(<<>>) = 0 /\ DOMAIN <<>> = {} /\ \A S : <<>> \in Seq(S)
    OBVIOUS
  <2> QED BY <1>1, <2>1, Zenon DEF Items, IsList
<1>4. \A i, j \in 1..Len(c.q) : FALSE
  BY <1>3
<1>5. CacheOK(l, c)
  BY <1>1, <1>2, <1>3, <1>4, Zenon DEF CacheOK
<1>6. \A b \in Blocks : ~c.blk[b].valid
  <2>1. ~Invalid.valid
    BY DEF Invalid
  <2> QED BY <1>1, <2>1, Zenon
<1>7. Valid(c) = {} /\ Dirty(c) = {}
  BY <1>6, Zenon DEF Valid, Dirty
<1>8. /\ Leaving(c) = {} /\ Missed(c) = {} /\ Fetched(c) = {}
      /\ Ops(c) = {} /\ OpsSent(c) = {}
  BY <1>3, Zenon DEF Leaving, Missed, Fetched, Ops, OpsSent
<1> QED BY <1>3, <1>5, <1>7, <1>8, Zenon

(* IInv holds at the start: every cache is empty. *)
LEMMA InitIInv == Init => IInv
<1> SUFFICES ASSUME Init PROVE IInv
  OBVIOUS
<1> DEFINE none == [blk |-> [b \in Blocks |-> Invalid], q |-> <<>>]
<1>1. cache = [l \in Levels |-> none] /\ resps = {} /\ reads = {} /\ reqs = <<>>
  BY Zenon DEF Init
<1>2. \A l : CacheOK(l, none)
  BY EmptyCache, Zenon
<1>3. /\ Valid(none) = {} /\ Dirty(none) = {} /\ Leaving(none) = {}
      /\ Missed(none) = {} /\ Fetched(none) = {} /\ Ops(none) = {} /\ OpsSent(none) = {}
  BY EmptyCache, Zenon
<1> HIDE DEF none
<1>4. cache = [l \in Levels |-> cache[l]] /\ \A l \in Levels : cache[l] = none
  BY <1>1, Zenon
<1>5. IsList(reqs) /\ Len(reqs) = 0
  <2>1. Len(<<>>) = 0 /\ \A S : <<>> \in Seq(S)
    OBVIOUS
  <2> QED BY <1>1, <2>1, Zenon DEF IsList
<1>6. \A l : To(resps, l) = {}
  BY <1>1, Zenon DEF To
<1>7. Fills({}) = {} /\ OpsDone({}) = {} /\ OneEach({})
  BY Zenon DEF Fills, OpsDone, OneEach
<1>8. AnsweredOK(none, {})
  BY <1>3, <1>7, Zenon DEF AnsweredOK
<1>9. BelowOK(none, {}, none)
  BY <1>3, <1>7, Zenon DEF BelowOK
<1>10. MemOK(none, {}, {})
  BY <1>7, Zenon DEF MemOK, MemReads
<1>11. 1 \in Levels /\ Depth \in Levels /\ Len(reqs) \in Nat
  BY <1>5, DepthAssumption DEF Levels
<1>12. Ops(cache[1]) \subseteq 1..Len(reqs)
  BY <1>3, <1>4, <1>11, Zenon
<1>13. \A r \in resps : RespOK(r)
  BY <1>1, Zenon
<1>14. /\ \A l \in Levels : CacheOK(l, cache[l]) /\ AnsweredOK(cache[l], To(resps, l))
       /\ 2 \in Levels => BelowOK(cache[1], To(resps, 1), cache[2])
       /\ MemOK(cache[Depth], To(resps, Depth), reads)
  BY <1>1, <1>2, <1>4, <1>6, <1>8, <1>9, <1>10, <1>11, Zenon
<1> QED BY <1>4, <1>5, <1>11, <1>12, <1>13, <1>14, Zenon DEF IInv, Chain

(* Load, Store and RowOp send a new request to cache 1. *)
LEMMA CoreIssues ==
    ASSUME IInv, \/ \E b \in Blocks : Load(b) \/ Store(b)
                 \/ \E dst, src \in Rows : RowOp(dst, src)
    PROVE  \E r, p, new : Issue(r, p, new) /\ IsRequest(cache[1], p) /\ p.id = Len(reqs) + 1
<1> DEFINE Issued == \E r, p, new : /\ Issue(r, p, new) /\ IsRequest(cache[1], p)
                                    /\ p.id = Len(reqs) + 1
<1>1. ASSUME NEW b \in Blocks, NEW cmd \in {"ReadReq", "WriteReq"}, NEW data,
             NEW p, p = Packet(cmd, b, data, Id)
      PROVE  IsRequest(cache[1], p) /\ p.id = Len(reqs) + 1
  <2>1. p.cmd = cmd /\ p.blk = b /\ p.id = Id
    BY <1>1 DEF Packet
  <2> QED BY <1>1, <2>1, Zenon DEF IsRequest, Id
<1>2. ASSUME NEW b \in Blocks, Load(b) PROVE Issued
  <2>1. \E r, p, new : Issue(r, p, new) /\ p = Packet("ReadReq", b, <<>>, Id)
    BY <1>2, Zenon DEF Load
  <2> QED BY <1>1, <2>1, Zenon
<1>3. ASSUME NEW b \in Blocks, Store(b) PROVE Issued
  <2>1. \E r, p, new : Issue(r, p, new) /\ p = Packet("WriteReq", b, <<Id>>, Id)
    BY <1>3, Zenon DEF Store
  <2> QED BY <1>1, <2>1, Zenon
<1>4. ASSUME NEW dst \in Rows, NEW src \in Rows, RowOp(dst, src) PROVE Issued
  <2>1. PICK r, p, new : Issue(r, p, new) /\ p = RowOpPacket(dst, src, Id)
    BY <1>4, Zenon DEF RowOp
  <2>2. p.cmd = "RowOp" /\ p.id = Len(reqs) + 1 /\ p.rows = <<dst, src>>
    BY <2>1 DEF RowOpPacket, Id
  <2>3. Len(reqs) \in Nat /\ Ops(cache[1]) \subseteq 1..Len(reqs)
    BY Zenon DEF IInv, Chain
  <2>4. Len(reqs) + 1 \in Nat \ Ops(cache[1])
    BY <2>3
  <2>5. <<dst, src>> \in Rows \X Rows
    OBVIOUS
  <2>6. IsRequest(cache[1], p)
    BY <2>2, <2>4, <2>5, Zenon DEF IsRequest
  <2> QED BY <2>1, <2>2, <2>6, Zenon
<1> QED BY <1>2, <1>3, <1>4, Zenon

(* Every step keeps IInv. *)
LEMMA NextIInv ==
    ASSUME IInv, [Next]_vars
    PROVE  IInv'
<1>1. CASE \/ \E b \in Blocks : Load(b) \/ Store(b)
           \/ \E dst, src \in Rows : RowOp(dst, src)
  BY <1>1, CoreIssues, IssueStep, Zenon
<1>3. CASE Complete \/ SendToMem \/ MemRespond
  BY <1>3, CompleteStep, SendToMemStep, MemRespondStep, Zenon
<1>4. CASE \E l \in Levels : SendToCache(l) \/ RecvFill(l) \/ ForwardRowOpResp(l)
  BY <1>4, SendToCacheStep, RecvFillStep, ForwardStep, Zenon
<1>5. CASE UNCHANGED vars
  <2>1. cache' = cache /\ resps' = resps /\ reads' = reads /\ reqs' = reqs
    BY <1>5 DEF vars
  <2> QED BY <2>1, Zenon DEF IInv
<1> QED BY <1>1, <1>3, <1>4, <1>5, Zenon DEF Next

(* Whatever the sizes of caches, buffers and rows and however requests,    *)
(* flushes, fills and row operations interleave, neighbouring caches agree *)
(* on the blocks and row operations under way between them.                *)
THEOREM ChainInvariant == Spec => []IInv
<1>1. IInv /\ [Next]_vars => IInv'
  BY NextIInv, Zenon
<1> QED BY InitIInv, <1>1, PTL DEF Spec

(* What IInv says of the evictions a cache has queued *)
LEMMA IInvEviction == IInv => EvictionIsLast
<1> SUFFICES ASSUME IInv, NEW l \in Levels, NEW i \in Allocated(cache[l], "write"),
                    ~Uncacheable(cache[l].q[i])
             PROVE  /\ ~cache[l].blk[cache[l].q[i].blk].valid
                    /\ \A j \in Allocated(cache[l], "miss") :
                          cache[l].q[j].blk = cache[l].q[i].blk => ~cache[l].q[j].inService
                    /\ findMatch(cache[l], "write", cache[l].q[i].blk) = {i}
  BY Zenon DEF EvictionIsLast
<1> DEFINE c == cache[l]
           m == c.q[i]
<1>1. CacheOK(l, c)
  BY Zenon DEF IInv, Chain
<1>2. /\ Len(c.q) \in Nat /\ DOMAIN c.q = 1..Len(c.q)
      /\ \A x : x \in Items(c.q) <=> \E k \in 1..Len(c.q) : x = c.q[k]
  BY <1>1, QueueFacts, Zenon
<1>3. i \in 1..Len(c.q) /\ IsEvict(m) /\ m \in Items(c.q)
  BY <1>2, Zenon DEF Allocated, IsEvict
<1> HIDE DEF c
<1>4. ~c.blk[m.blk].valid
  BY <1>1, <1>3, Zenon DEF CacheOK
<1>5. ASSUME NEW j \in Allocated(c, "miss"), c.q[j].blk = m.blk PROVE ~c.q[j].inService
  <2>1. IsMiss(c.q[j]) /\ c.q[j] \in Items(c.q)
    BY <1>2, Zenon DEF Allocated, IsMiss
  <2> QED BY <1>1, <1>3, <1>5, <2>1, Unique, Zenon
<1>9. \A b, j : j \in findMatch(c, "write", b) <=>
                    j \in 1..Len(c.q) /\ IsEvict(c.q[j]) /\ c.q[j].blk = b
  BY <1>2, Zenon DEF findMatch, Allocated, IsEvict
<1>6. ASSUME NEW j \in findMatch(c, "write", m.blk) PROVE j = i
  <2>1. j \in 1..Len(c.q) /\ IsEvict(c.q[j]) /\ c.q[j].blk = m.blk
    BY <1>9, Zenon
  <2>2. i < j => Before(m, c.q[j])
    BY <1>1, <1>3, <2>1, Zenon DEF CacheOK
  <2>3. j < i => Before(c.q[j], m)
    BY <1>1, <1>3, <2>1, Zenon DEF CacheOK
  <2>4. ~(i < j) /\ ~(j < i)
    BY <1>3, <2>1, <2>2, <2>3, Zenon DEF Before
  <2>5. i \in Int /\ j \in Int
    BY <1>2, <1>3, <2>1
  <2>6. \A x, y \in Int : x < y \/ y < x \/ x = y
    OBVIOUS
  <2> QED BY <2>4, <2>5, <2>6, Zenon
<1>7. i \in findMatch(c, "write", m.blk)
  BY <1>3, <1>9, Zenon
<1>8. findMatch(c, "write", m.blk) = {i}
  BY <1>6, <1>7, Zenon
<1> QED BY <1>4, <1>5, <1>8, Zenon DEF c

(* The asserts in handleFill, getTimingPacket and access: a block whose    *)
(* eviction is queued is neither in the cache nor being fetched, and is    *)
(* queued once; for every depth, size of the caches and buffers and row.   *)
THEOREM EvictionsAreLast == Spec => []EvictionIsLast
BY ChainInvariant, IInvEviction, PTL

-----------------------------------------------------------------------------
(* The free lists *)

(* Rows have N blocks at most *)
RowsOf(N) == N \in Nat /\ \A r \in Rows : Len(r) <= N

(* d is c after a request: one block more that misses, and the evictions a *)
(* row operation queues.                                                   *)
OneMiss(c, d) == \E b : \A x \in Missed(d) : x \in Missed(c) \/ x = b
Longer(c, d, N) == Len(d.q) <= Len(c.q) + 2 * N + 2
Grown(c, d, N) == OneMiss(c, d) /\ Longer(c, d, N)
NotGrown(c, d) == Missed(d) \subseteq Missed(c) /\ Len(d.q) <= Len(c.q)

(* A cache that is blocked does not grow. *)
Changed(c, d, N) == NotGrown(c, d) \/ (~isBlocked(c) /\ Grown(c, d, N))
AllChanged(C, D, N) == \A l \in Levels : Changed(C[l], D[l], N)

(* A request of the core, or one that cache 1 sends to cache 2 *)
Asks(l, c, p) ==
    \/ p.cmd \in Cmds(l) /\ p.blk \in Blocks /\ (l # 1 => p.blk \notin Missed(c))
    \/ /\ p.cmd \in {"Writeback", "CleanEvict"} /\ p.blk \in Blocks
       /\ p.blk \notin Missed(c) /\ p.blk \notin Leaving(c)
    \/ p.cmd = "RowOp" /\ p.id \in Nat \ Ops(c) /\ p.rows \in Rows \X Rows

(* What a request adds to the queues *)
LEMMA RequestGrows ==
    ASSUME NEW l, NEW c, CacheOK(l, c), NEW N, RowsOf(N), NEW p, Asks(l, c, p),
           NEW out \in recvTimingReq(l, c, p)
    PROVE  CacheOK(l, out.c) /\ Grown(c, out.c, N)
<1>1. N \in Nat /\ Len(c.q) \in Nat
  BY QueueFacts, Zenon DEF RowsOf
<1>2. \A d : CacheOK(l, d) => Len(d.q) \in Nat
  BY QueueFacts, Zenon
<1>3. ASSUME NEW x \in Nat, NEW y \in Nat, y <= x + 1 PROVE y <= x + 2 * N + 2
  BY <1>1, <1>3
<1>4. CASE p.cmd \in Cmds(l) /\ p.blk \in Blocks /\ (l # 1 => p.blk \notin Missed(c))
  <2>1. p.cmd # "RowOp" /\ p.cmd \notin {"Writeback", "CleanEvict"}
    BY <1>4 DEF Cmds
  <2>2. out = AcceptAccess(l, c, p)
    BY <2>1, Zenon DEF recvTimingReq
  <2>3. AccessTaken(l, c, out.c, out.resps, p)
    BY <1>4, <2>2, TakeHit, TakeMiss, Zenon
  <2>4. CacheOK(l, out.c) /\ Len(out.c.q) <= Len(c.q) + 1
    BY <2>3, Zenon DEF AccessTaken
  <2>5. OneMiss(c, out.c)
    BY <2>3, Zenon DEF AccessTaken, OneMiss
  <2>6. Longer(c, out.c, N)
    BY <1>1, <1>2, <1>3, <2>4, Zenon DEF Longer
  <2> QED BY <2>4, <2>5, <2>6, Zenon DEF Grown
<1>5. CASE /\ p.cmd \in {"Writeback", "CleanEvict"} /\ p.blk \in Blocks
           /\ p.blk \notin Missed(c) /\ p.blk \notin Leaving(c)
  <2>1. p.cmd # "RowOp"
    BY <1>5
  <2>2. out \in AcceptEviction(l, c, p)
    BY <1>5, <2>1, Zenon DEF recvTimingReq
  <2>3. EvictTaken(l, c, out.c, p.blk)
    BY <1>5, <2>2, TakeEvict
  <2>4. CacheOK(l, out.c) /\ Len(out.c.q) <= Len(c.q) + 1 /\ Missed(out.c) = Missed(c)
    BY <2>3, Zenon DEF EvictTaken
  <2>5. Longer(c, out.c, N)
    BY <1>1, <1>2, <1>3, <2>4, Zenon DEF Longer
  <2>6. OneMiss(c, out.c)
    BY <2>4, Zenon DEF OneMiss
  <2> QED BY <2>4, <2>5, <2>6, Zenon DEF Grown
<1>6. CASE p.cmd = "RowOp" /\ p.id \in Nat \ Ops(c) /\ p.rows \in Rows \X Rows
  <2> DEFINE n == Len(p.rows[1])
  <2>1. out = AcceptRowOp(l, c, p)
    BY <1>6, Zenon DEF recvTimingReq
  <2>2. RowOpTaken(l, c, out.c, p.id, 2 * n + 2)
    BY <1>6, <2>1, TakeRowOp, Zenon
  <2>3. p.rows[1] \in Rows
    BY <1>6
  <2>4. n \in Nat /\ n <= N
    <3>1. \A r \in Rows : Len(r) \in Nat
      BY RowsAssumption
    <3> QED BY <2>3, <3>1, Zenon DEF RowsOf
  <2>5. CacheOK(l, out.c) /\ Len(out.c.q) <= Len(c.q) + (2 * n + 2) /\ Missed(out.c) = Missed(c)
    BY <2>2, Zenon DEF RowOpTaken
  <2> HIDE DEF n
  <2>6. ASSUME NEW x \in Nat, NEW y \in Nat, y <= x + (2 * n + 2) PROVE y <= x + 2 * N + 2
    BY <1>1, <2>4, <2>6
  <2>7. Longer(c, out.c, N)
    BY <1>1, <1>2, <2>5, <2>6, Zenon DEF Longer
  <2>8. OneMiss(c, out.c)
    BY <2>5, Zenon DEF OneMiss
  <2> QED BY <2>5, <2>7, <2>8, Zenon DEF Grown
<1> QED BY <1>4, <1>5, <1>6, Zenon DEF Asks

(* The requests of the core *)
LEMMA IssueAsks ==
    ASSUME NEW c, NEW p, IsRequest(c, p)
    PROVE  Asks(1, c, p)
<1>1. Cmds(1) = {"ReadReq", "WriteReq"}
  BY DEF Cmds
<1> QED BY <1>1, Zenon DEF IsRequest, Asks

(* The requests of cache 1 *)
LEMMA SendAsks ==
    ASSUME NEW a, CacheOK(1, a), NEW A, NEW b, BelowOK(a, A, b), NEW a2, NEW p,
           Sending(1, a, a2, p)
    PROVE  Asks(2, b, p)
<1>1. CASE ReadSent(a, a2, p)
  <2>1. p.cmd \in Cmds(2)
    BY <1>1 DEF Cmds, ReadSent
  <2>2. p.blk \in Blocks /\ p.blk \notin Missed(b)
    BY <1>1, Zenon DEF ReadSent, Missed, BelowOK
  <2> QED BY <2>1, <2>2, Zenon DEF Asks
<1>2. CASE EvictSent(a, a2, p)
  <2>1. p.blk \in Leaving(a) /\ p.cmd \in {"Writeback", "CleanEvict"}
    BY <1>2, Zenon DEF EvictSent
  <2>2. p.blk \in Blocks /\ p.blk \notin Fetched(a)
    BY <2>1, Apart, Zenon DEF Leaving
  <2>3. p.blk \notin Missed(b) /\ p.blk \notin Leaving(b)
    BY <2>1, <2>2, Zenon DEF BelowOK
  <2> QED BY <2>1, <2>2, <2>3, Zenon DEF Asks
<1>3. CASE OpSent(a, a2, p)
  BY <1>3, Zenon DEF OpSent, Ops, BelowOK, Asks
<1> QED BY <1>1, <1>2, <1>3, Zenon DEF Sending

(* A cache that does nothing *)
LEMMA Idle == ASSUME NEW l, NEW c, CacheOK(l, c) PROVE NotGrown(c, c)
<1>1. Len(c.q) \in Nat
  BY QueueFacts, Zenon
<1>2. Len(c.q) <= Len(c.q)
  BY <1>1
<1> QED BY <1>2, Zenon DEF NotGrown

(* One cache changes. *)
LEMMA OneChanged ==
    ASSUME IInv, NEW N, NEW l \in Levels, NEW d, Changed(cache[l], d, N),
           cache' = [cache EXCEPT ![l] = d]
    PROVE  AllChanged(cache, cache', N)
<1>1. \A k \in Levels : CacheOK(k, cache[k])
  BY Zenon DEF IInv, Chain
<1>2. cache = [k \in Levels |-> cache[k]]
  BY Zenon DEF IInv, Chain
<1>3. \A k \in Levels : cache'[k] = IF k = l THEN d ELSE cache[k]
  BY <1>2
<1> QED BY <1>1, <1>3, Idle, Zenon DEF AllChanged, Changed

(* Load, Store and RowOp are sent when cache 1 is not blocked. *)
LEMMA IssueChanges ==
    ASSUME IInv, NEW N, RowsOf(N), NEW r, NEW p, NEW newSpec,
           Issue(r, p, newSpec), IsRequest(cache[1], p)
    PROVE  AllChanged(cache, cache', N)
<1>1. 1 \in Levels /\ CacheOK(1, cache[1])
  BY LevelFacts, Zenon DEF IInv, Chain
<1>2. PICK out \in recvTimingReq(1, cache[1], p) : cache' = [cache EXCEPT ![1] = out.c]
  BY Zenon DEF Issue
<1>3. ~isBlocked(cache[1])
  BY Zenon DEF Issue, MayIssue
<1>4. Grown(cache[1], out.c, N)
  BY <1>1, IssueAsks, RequestGrows, Zenon
<1> QED BY <1>1, <1>2, <1>3, <1>4, OneChanged, Zenon DEF Changed

(* SendToMem adds nothing to the queues. *)
LEMMA SendToMemChanges ==
    ASSUME IInv, NEW N, SendToMem
    PROVE  AllChanged(cache, cache', N)
<1> DEFINE c == cache[Depth]
<1>1. Depth \in Levels /\ CacheOK(Depth, c)
  BY LevelFacts, Zenon DEF IInv, Chain
<1>2. PICK h, i : /\ i \in getNextMSHR(c, h)
                  /\ cache' = [cache EXCEPT ![Depth] = markInService(c, i, FALSE)]
  BY Zenon DEF SendToMem
<1> DEFINE d == markInService(c, i, FALSE)
           p == getTimingPacket(c.q[i])
<1>3. Sending(Depth, c, d, p)
  BY <1>1, <1>2, SendEntry, Zenon
<1>4. cache' = [cache EXCEPT ![Depth] = d]
  BY <1>2, Zenon
<1> HIDE DEF d, p
<1>5. Changed(c, d, N)
  BY <1>3, Zenon DEF Sending, NotGrown, Changed
<1> QED BY <1>1, <1>4, <1>5, OneChanged, Zenon

(* SendToCache: the sender's queues do not grow, and the receiver is not   *)
(* blocked.                                                                *)
LEMMA SendToCacheChanges ==
    ASSUME IInv, NEW N, RowsOf(N), NEW l \in Levels, SendToCache(l)
    PROVE  AllChanged(cache, cache', N)
<1>1. 1 \in Levels /\ 2 \in Levels /\ ~isBlocked(cache[2])
  BY SendTakes, Zenon
<1>2. /\ CacheOK(2, cache[2]) /\ CacheOK(1, cache[1])
      /\ BelowOK(cache[1], To(resps, 1), cache[2]) /\ cache = [k \in Levels |-> cache[k]]
  BY <1>1, Zenon DEF IInv, Chain
<1>3. PICK a2, p, out : /\ Sending(1, cache[1], a2, p)
                        /\ out \in recvTimingReq(2, cache[2], p)
                        /\ cache' = BothSet(cache, a2, out.c)
  BY SendTakes, Zenon
<1>4. Changed(cache[1], a2, N)
  BY <1>3, Zenon DEF Sending, NotGrown, Changed
<1> DEFINE d == out.c
<1>5. Changed(cache[2], d, N)
  <2>1. Asks(2, cache[2], p)
    BY <1>2, <1>3, SendAsks, Zenon
  <2>2. Grown(cache[2], d, N)
    BY <1>2, <1>3, <2>1, RequestGrows, Zenon
  <2> QED BY <1>1, <2>2, Zenon DEF Changed
<1>6. cache' = BothSet(cache, a2, d)
  BY <1>3, Zenon
<1> HIDE DEF d
<1>7. \A k \in Levels : \/ k = 1 /\ cache'[k] = a2
                        \/ k = 2 /\ cache'[k] = d
                        \/ cache'[k] = cache[k]
  BY <1>2, <1>6, Zenon DEF BothSet
<1>8. \A k \in Levels : CacheOK(k, cache[k])
  BY Zenon DEF IInv, Chain
<1> QED BY <1>4, <1>5, <1>7, <1>8, Idle, Zenon DEF AllChanged, Changed

(* RecvFill: a fill frees its entry before it queues an eviction. *)
LEMMA RecvFillChanges ==
    ASSUME IInv, NEW N, NEW l \in Levels, RecvFill(l)
    PROVE  AllChanged(cache, cache', N)
<1>1. PICK r, out : /\ FillTaken(l, cache[l], out.c, out.resps, r.blk)
                    /\ cache' = [cache EXCEPT ![l] = out.c]
  BY FillTakes, Zenon
<1>2. Changed(cache[l], out.c, N)
  BY <1>1, Zenon DEF FillTaken, NotGrown, Changed
<1> QED BY <1>1, <1>2, OneChanged, Zenon

(* ForwardRowOpResp frees the entry of the row operation. *)
LEMMA ForwardChanges ==
    ASSUME IInv, NEW N, NEW l \in Levels, ForwardRowOpResp(l)
    PROVE  AllChanged(cache, cache', N)
<1>1. PICK r, d : OpTaken(l, cache[l], d, r.id) /\ cache' = [cache EXCEPT ![l] = d]
  BY ForwardTakes, Zenon
<1>2. Changed(cache[l], d, N)
  BY <1>1, Zenon DEF OpTaken, Seen, NotGrown, Changed
<1> QED BY <1>1, <1>2, OneChanged, Zenon

(* What a step adds to the queues *)
LEMMA NextChanges ==
    ASSUME IInv, NEW N, RowsOf(N), [Next]_vars
    PROVE  AllChanged(cache, cache', N)
<1>1. CASE \/ \E b \in Blocks : Load(b) \/ Store(b)
           \/ \E dst, src \in Rows : RowOp(dst, src)
  BY <1>1, CoreIssues, IssueChanges, Zenon
<1>2. CASE Complete \/ MemRespond \/ UNCHANGED vars
  <2>1. cache' = cache
    BY <1>2, Zenon DEF Complete, MemRespond, vars
  <2>2. \A k \in Levels : CacheOK(k, cache[k])
    BY Zenon DEF IInv, Chain
  <2> QED BY <2>1, <2>2, Idle, Zenon DEF AllChanged, Changed
<1>3. CASE SendToMem
  BY <1>3, SendToMemChanges, Zenon
<1>4. CASE \E l \in Levels : SendToCache(l) \/ RecvFill(l) \/ ForwardRowOpResp(l)
  BY <1>4, SendToCacheChanges, RecvFillChanges, ForwardChanges, Zenon
<1> QED BY <1>1, <1>2, <1>3, <1>4, Zenon DEF Next

-----------------------------------------------------------------------------
(* Counting.  FiniteSetTheorems has its own copies of IsFiniteSet and      *)
(* Cardinality; these are the ones of CacheChain.                          *)
Finite(S) == IsFiniteSet(S)
Size(S) == Cardinality(S)
CountOf(S) ==
    LET CS[T \in SUBSET S] == IF T = {} THEN 0 ELSE 1 + CS[T \ {CHOOSE x : x \in T}]
    IN  CS[S]

(* A set is finite if a sequence lists it. *)
LEMMA FiniteIs ==
    ASSUME NEW S
    PROVE  Finite(S) <=> \E seq \in Seq(S) : \A s \in S : \E n \in 1..Len(seq) : seq[n] = s
BY Zenon DEF Finite, IsFiniteSet

(* The size of a set is counted member by member. *)
LEMMA SizeIs == ASSUME NEW S PROVE Size(S) = CountOf(S)
BY Zenon DEF Size, CountOf, Cardinality

(* The blocks are finite, a queue is full when its entries are as many as  *)
(* it has room for, and the free lists suffice when they never are more.   *)
LEMMA Sizes ==
    /\ Finite(Blocks)
    /\ \A c : isFull(c, "miss") <=> Size(Allocated(c, "miss")) >= mshrs
    /\ \A c : isFull(c, "write") <=> Size(Allocated(c, "write")) >= write_buffers
    /\ FreeListSuffices <=>
         \A l \in Levels : /\ Size(Allocated(cache[l], "write")) <= write_buffers + wbReserve - 1
                           /\ Size(Allocated(cache[l], "miss")) <= mshrs
<1>1. "write" # "miss"
  OBVIOUS
<1>2. Finite(Blocks)
  BY RowsAssumption, Zenon DEF Finite
<1> QED BY <1>1, <1>2, Zenon DEF Size, isFull, FreeListSuffices

LOCAL INSTANCE FiniteSetTheorems

(* A set is finite in the library's sense as well. *)
LEMMA FiniteSame == ASSUME NEW S PROVE Finite(S) <=> IsFiniteSet(S)
BY FiniteIs, Zenon DEF IsFiniteSet

(* The library counts a set alike. *)
LEMMA SizeSame == ASSUME NEW S PROVE Size(S) = Cardinality(S)
<1>1. Cardinality(S) = CountOf(S)
  BY Zenon DEF Cardinality, CountOf
<1> QED BY <1>1, SizeIs, Zenon

(* An entry of the miss queue is counted by its block; a fill frees one    *)
(* before it queues an eviction, so the whole queue is what is bounded.    *)
Sized(c, N) ==
    Cardinality(Missed(c)) <= mshrs /\ Len(c.q) <= write_buffers + mshrs + 2 * N
AllSized(C, N) == \A l \in Levels : Sized(C[l], N)

(* The miss queue has one entry for each block that misses. *)
LEMMA MissCount ==
    ASSUME NEW l, NEW c, CacheOK(l, c)
    PROVE  /\ Cardinality(Allocated(c, "miss")) = Cardinality(Missed(c))
           /\ IsFiniteSet(Missed(c)) /\ IsFiniteSet(Allocated(c, "miss"))
<1> DEFINE M == Allocated(c, "miss")
           B == Missed(c)
           f == [i \in M |-> c.q[i].blk]
<1>1. /\ Len(c.q) \in Nat /\ DOMAIN c.q = 1..Len(c.q)
      /\ \A x : x \in Items(c.q) <=> \E k \in 1..Len(c.q) : x = c.q[k]
  BY QueueFacts, Zenon
<1>2. \A i : i \in M <=> i \in 1..Len(c.q) /\ IsMiss(c.q[i])
  BY <1>1, Zenon DEF Allocated, IsMiss
<1>3. \A i \in M : c.q[i].blk \in B
  BY <1>1, <1>2, Zenon DEF Missed, CacheOK, EntryOK
<1>4. \A b \in B : \E i \in M : c.q[i].blk = b
  BY <1>1, <1>2, Zenon DEF Missed
<1>5. \A i, j \in M : c.q[i].blk = c.q[j].blk => i = j
  <2> SUFFICES ASSUME NEW i \in M, NEW j \in M, c.q[i].blk = c.q[j].blk PROVE i = j
    BY Zenon
  <2>1. i \in 1..Len(c.q) /\ j \in 1..Len(c.q) /\ IsMiss(c.q[i]) /\ IsMiss(c.q[j])
    BY <1>2, Zenon
  <2>2. i < j => Before(c.q[i], c.q[j])
    BY <2>1, Zenon DEF CacheOK
  <2>3. j < i => Before(c.q[j], c.q[i])
    BY <2>1, Zenon DEF CacheOK
  <2>4. ~(i < j) /\ ~(j < i)
    BY <2>1, <2>2, <2>3, Zenon DEF Before
  <2>5. i \in Int /\ j \in Int
    BY <1>1, <2>1
  <2>6. \A x, y \in Int : x < y \/ y < x \/ x = y
    OBVIOUS
  <2> QED BY <2>4, <2>5, <2>6, Zenon
<1>6. IsFiniteSet(B)
  <2>1. B \in SUBSET Blocks
    BY Zenon DEF Missed
  <2>2. IsFiniteSet(Blocks)
    BY Sizes, FiniteSame, Zenon
  <2> QED BY <2>1, <2>2, FS_Subset, Zenon
<1> HIDE DEF M, B
<1>7. f \in Injection(M, B)
  <2>1. f \in [M -> B] /\ \A i, j \in M : f[i] = f[j] => i = j
    BY <1>3, <1>5, Zenon
  <2> QED BY <2>1, Zenon DEF Injection, IsInjective
<1>8. f \in Surjection(M, B)
  <2>1. f \in [M -> B] /\ \A b \in B : \E i \in M : f[i] = b
    BY <1>3, <1>4, Zenon
  <2> QED BY <2>1, Zenon DEF Surjection
<1>9. IsFiniteSet(M) /\ (Cardinality(M) = Cardinality(B) <=> f \in Surjection(M, B))
  BY <1>6, <1>7, FS_Injection, Zenon
<1> QED BY <1>6, <1>8, <1>9, Zenon DEF M, B

(* Every entry is in one of the two queues. *)
LEMMA QueueCount ==
    ASSUME NEW l, NEW c, CacheOK(l, c)
    PROVE  /\ Len(c.q) \in Nat
           /\ Cardinality(Allocated(c, "write")) \in Nat
           /\ Cardinality(Missed(c)) \in Nat
           /\ Cardinality(Allocated(c, "write")) <= Len(c.q)
           /\ Len(c.q) <= Cardinality(Allocated(c, "write")) + Cardinality(Missed(c))
<1> DEFINE M == Allocated(c, "miss")
           W == Allocated(c, "write")
<1>1. /\ Len(c.q) \in Nat /\ DOMAIN c.q = 1..Len(c.q)
      /\ \A i \in 1..Len(c.q) : EntryOK(l, c.q[i])
  BY QueueFacts, Zenon
<1>2. W \in SUBSET (1..Len(c.q)) /\ 1..Len(c.q) = W \cup M
  BY <1>1, Zenon DEF Allocated, EntryOK
<1>3. IsFiniteSet(1..Len(c.q)) /\ Cardinality(1..Len(c.q)) = Len(c.q)
  <2>1. ASSUME NEW n \in Nat PROVE IsFiniteSet(1..n) /\ Cardinality(1..n) = n
    <3>1. IsFiniteSet(1..n) /\ Cardinality(1..n) = IF 1 > n THEN 0 ELSE n - 1 + 1
      BY FS_Interval
    <3> QED BY <3>1
  <2> QED BY <1>1, <2>1, Zenon
<1>4. IsFiniteSet(M) /\ Cardinality(M) = Cardinality(Missed(c)) /\ IsFiniteSet(Missed(c))
  BY MissCount, Zenon
<1> HIDE DEF M, W
<1>5. IsFiniteSet(W) /\ Cardinality(W) <= Cardinality(1..Len(c.q))
  BY <1>2, <1>3, FS_Subset, Zenon
<1>6. /\ IsFiniteSet(W \cap M)
      /\ Cardinality(W \cup M) = Cardinality(W) + Cardinality(M) - Cardinality(W \cap M)
  BY <1>4, <1>5, FS_Union, FS_Intersection, Zenon
<1>7. /\ Cardinality(W) \in Nat /\ Cardinality(M) \in Nat /\ Cardinality(W \cap M) \in Nat
  BY <1>4, <1>5, <1>6, FS_CardinalityType, Zenon
<1>8. ASSUME NEW w \in Nat, NEW m \in Nat, NEW x \in Nat, NEW n, n = w + m - x
      PROVE  n <= w + m
  BY <1>8
<1>9. Len(c.q) <= Cardinality(W) + Cardinality(M)
  BY <1>2, <1>3, <1>6, <1>7, <1>8, Zenon
<1> QED BY <1>1, <1>3, <1>4, <1>5, <1>7, <1>9, Zenon DEF W

(* A cache that takes requests has room in both queues. *)
LEMMA GrownSized ==
    ASSUME NEW l, NEW c, CacheOK(l, c), ~isBlocked(c), NEW N, RowsOf(N),
           NEW k, NEW d, CacheOK(k, d), Grown(c, d, N)
    PROVE  Sized(d, N)
<1>1. Cardinality(Allocated(c, "miss")) = Cardinality(Missed(c)) /\ IsFiniteSet(Missed(c))
  BY MissCount, Zenon
<1>2. ~isFull(c, "miss") /\ ~isFull(c, "write")
  BY Zenon DEF isBlocked
<1>3. /\ ~(Cardinality(Missed(c)) >= mshrs)
      /\ ~(Cardinality(Allocated(c, "write")) >= write_buffers)
  BY <1>1, <1>2, Sizes, SizeSame, Zenon
<1>4. /\ Len(c.q) \in Nat /\ Len(d.q) \in Nat
      /\ Cardinality(Allocated(c, "write")) \in Nat
      /\ Cardinality(Missed(c)) \in Nat /\ Cardinality(Missed(d)) \in Nat
      /\ Len(c.q) <= Cardinality(Allocated(c, "write")) + Cardinality(Missed(c))
  BY QueueCount, Zenon
<1>5. Cardinality(Missed(d)) <= Cardinality(Missed(c)) + 1
  <2>1. PICK b : \A x \in Missed(d) : x \in Missed(c) \/ x = b
    BY Zenon DEF Grown, OneMiss
  <2> DEFINE B == Missed(c)
             D == Missed(d)
             T == B \cup {b}
  <2>2. IsFiniteSet(B) /\ D \in SUBSET T /\ Cardinality(B) \in Nat
    BY <1>1, <1>4, <2>1, Zenon
  <2> HIDE DEF B, D
  <2>3. /\ IsFiniteSet(T) /\ Cardinality(T) = IF b \in B THEN Cardinality(B) ELSE Cardinality(B) + 1
    BY <2>2, FS_AddElement, Zenon
  <2> HIDE DEF T
  <2>4. Cardinality(D) <= Cardinality(T)
    BY <2>2, <2>3, FS_Subset, Zenon
  <2>5. Cardinality(D) \in Nat
    BY <1>4, Zenon DEF D
  <2>6. Cardinality(D) <= Cardinality(B) + 1
    BY <2>2, <2>3, <2>4, <2>5
  <2> QED BY <2>6, Zenon DEF B, D
<1>6. Len(d.q) <= Len(c.q) + 2 * N + 2 /\ N \in Nat
  BY Zenon DEF Grown, Longer, RowsOf
<1>7. ASSUME NEW x \in Nat, NEW y \in Nat, NEW w \in Nat, NEW m \in Nat, NEW n \in Nat,
             ~(m >= mshrs), ~(w >= write_buffers), x <= w + m, y <= x + 2 * N + 2, n <= m + 1
      PROVE  n <= mshrs /\ y <= write_buffers + mshrs + 2 * N
  BY <1>6, <1>7, SizesAssumption
<1> QED BY <1>3, <1>4, <1>5, <1>6, <1>7, Zenon DEF Sized

(* A step that adds nothing to the queues keeps them within bounds. *)
LEMMA NotGrownSized ==
    ASSUME NEW l, NEW c, CacheOK(l, c), NEW N, RowsOf(N), Sized(c, N),
           NEW k, NEW d, CacheOK(k, d), NotGrown(c, d)
    PROVE  Sized(d, N)
<1>1. IsFiniteSet(Missed(c)) /\ Missed(d) \in SUBSET Missed(c)
  BY MissCount, Zenon DEF NotGrown
<1>2. Cardinality(Missed(d)) <= Cardinality(Missed(c))
  BY <1>1, FS_Subset, Zenon
<1>3. /\ Len(c.q) \in Nat /\ Len(d.q) \in Nat
      /\ Cardinality(Missed(c)) \in Nat /\ Cardinality(Missed(d)) \in Nat
  BY QueueCount, Zenon
<1>4. /\ Len(d.q) <= Len(c.q) /\ N \in Nat /\ Cardinality(Missed(c)) <= mshrs
      /\ Len(c.q) <= write_buffers + mshrs + 2 * N
  BY Zenon DEF NotGrown, RowsOf, Sized
<1>5. ASSUME NEW x \in Nat, NEW y \in Nat, NEW m \in Nat, NEW n \in Nat,
             n <= m, m <= mshrs, y <= x, x <= write_buffers + mshrs + 2 * N
      PROVE  n <= mshrs /\ y <= write_buffers + mshrs + 2 * N
  BY <1>4, <1>5, SizesAssumption
<1> QED BY <1>2, <1>3, <1>4, <1>5, Zenon DEF Sized

(* Every step keeps the queues within bounds. *)
LEMMA NextSized ==
    ASSUME IInv, NEW N, RowsOf(N), AllSized(cache, N), [Next]_vars
    PROVE  AllSized(cache', N)
<1>1. IInv'
  BY NextIInv, Zenon
<1>2. \A l \in Levels : CacheOK(l, cache[l]) /\ CacheOK(l, cache'[l])
  BY <1>1, Zenon DEF IInv, Chain
<1>3. \A l \in Levels : Changed(cache[l], cache'[l], N)
  BY NextChanges, Zenon DEF AllChanged
<1>4. \A l \in Levels : Sized(cache[l], N)
  BY Zenon DEF AllSized
<1>5. \A l \in Levels : Sized(cache'[l], N)
  BY <1>2, <1>3, <1>4, GrownSized, NotGrownSized, Zenon DEF Changed
<1> QED BY <1>5, Zenon DEF AllSized

(* The queues are empty at the start. *)
LEMMA InitSized ==
    ASSUME NEW N, RowsOf(N), Init
    PROVE  AllSized(cache, N)
<1> DEFINE none == [blk |-> [b \in Blocks |-> Invalid], q |-> <<>>]
<1>1. cache = [l \in Levels |-> none]
  BY Zenon DEF Init
<1>2. Len(none.q) = 0 /\ Missed(none) = {}
  BY EmptyCache, Zenon
<1> HIDE DEF none
<1>3. \A l \in Levels : cache[l] = none
  BY <1>1, Zenon
<1>4. Cardinality({}) = 0
  BY FS_EmptySet, Zenon
<1>5. N \in Nat
  BY Zenon DEF RowsOf
<1>6. 0 <= mshrs /\ 0 <= write_buffers + mshrs + 2 * N
  BY <1>5, SizesAssumption
<1>7. Sized(none, N)
  BY <1>2, <1>4, <1>6, Zenon DEF Sized
<1> QED BY <1>3, <1>7, Zenon DEF AllSized

(* The bounds keep the free lists from running out. *)
LEMMA SizedSuffices ==
    ASSUME IInv, NEW N, RowsOf(N), wbReserve >= mshrs + 2 * N + 1, AllSized(cache, N)
    PROVE  FreeListSuffices
<1> SUFFICES ASSUME NEW l \in Levels
             PROVE  /\ Cardinality(Allocated(cache[l], "write")) <= write_buffers + wbReserve - 1
                    /\ Cardinality(Allocated(cache[l], "miss")) <= mshrs
  BY Sizes, SizeSame, Zenon
<1> DEFINE c == cache[l]
<1>1. CacheOK(l, c) /\ Sized(c, N) /\ N \in Nat
  BY Zenon DEF IInv, Chain, AllSized, RowsOf
<1> HIDE DEF c
<1>2. Cardinality(Allocated(c, "miss")) = Cardinality(Missed(c))
  BY <1>1, MissCount, Zenon
<1>3. /\ Len(c.q) \in Nat /\ Cardinality(Allocated(c, "write")) \in Nat
      /\ Cardinality(Allocated(c, "write")) <= Len(c.q)
  BY <1>1, QueueCount, Zenon
<1>4. Cardinality(Missed(c)) <= mshrs /\ Len(c.q) <= write_buffers + mshrs + 2 * N
  BY <1>1, Zenon DEF Sized
<1>5. ASSUME NEW x \in Nat, NEW w \in Nat, w <= x, x <= write_buffers + mshrs + 2 * N
      PROVE  w <= write_buffers + wbReserve - 1
  BY <1>1, <1>5, SizesAssumption
<1>6. Cardinality(Allocated(c, "write")) <= write_buffers + wbReserve - 1
  BY <1>3, <1>4, <1>5, Zenon
<1> QED BY <1>2, <1>4, <1>6, Zenon DEF c

(* The asserts on free lists never fail, whatever the core, the caches and *)
(* the overlaps of requests, when the reserve of the write buffer takes an *)
(* eviction for every entry of the miss queue, for every block of two rows *)
(* and for one more row operation.  The code reserves mshrs + 1000: enough *)
(* for rows of 499 blocks.                                                 *)
THEOREM FreeListsSuffice ==
    ASSUME NEW CONSTANT N, RowsOf(N), wbReserve >= mshrs + 2 * N + 1
    PROVE  Spec => []FreeListSuffices
<1> DEFINE Inv == IInv /\ AllSized(cache, N)
<1>1. Init => Inv
  BY InitIInv, InitSized, Zenon
<1>2. Inv /\ [Next]_vars => Inv'
  <2> SUFFICES ASSUME IInv, AllSized(cache, N), [Next]_vars
               PROVE  IInv' /\ AllSized(cache', N)
    BY Zenon
  <2>1. IInv'
    BY NextIInv, Zenon
  <2>2. AllSized(cache', N)
    BY NextSized, Zenon
  <2> QED BY <2>1, <2>2, Zenon
<1>3. Inv => FreeListSuffices
  BY SizedSuffices, Zenon
<1> HIDE DEF Inv
<1> QED BY <1>1, <1>2, <1>3, PTL DEF Spec
=============================================================================
