------------------------------ MODULE CacheChain ------------------------------
(***************************************************************************)
(* A core, its caches and memory: how cached data and row operations meet. *)
(*                                                                         *)
(* Cache 1 is next to the core, cache Depth next to memory; with one core  *)
(* and at most two caches no copy is ever shared, so the snoop and upgrade *)
(* paths of the cache are not reached and are left out, as are prefetches. *)
(* A row operation is uncacheable: every cache on its way flushes the      *)
(* blocks of its rows into its write buffer, queues the operation behind   *)
(* them, and sends it on; memory performs it.  Misses use the MSHR queue,  *)
(* which goes ahead of the write buffer.                                   *)
(*                                                                         *)
(* Time is abstracted: at any moment any number of the oldest entries of   *)
(* a cache may be ready to be sent, and responses take any time.           *)
(* A value is the sequence of the requests that made it: a store replaces  *)
(* the value, a row operation appends itself to the value of its source.   *)
(***************************************************************************)
EXTENDS Lists

CONSTANTS
    Depth,          \* number of caches on the path, 1 or 2
    Blocks,         \* block addresses
    ZeroBlk,        \* the block at physical address 0
    Rows,           \* the rows row operations name: sequences of blocks
    Capacity,       \* blocks a cache holds
    mshrs, write_buffers, wbReserve, tgts_per_mshr,
    MaxReqs,        \* bound on the requests of the core
    Cpu,            \* "timing": one request at a time;
                    \* "o3": one store at a time, loads at any time
    Overlaps        \* overlaps of loads with row operations that the o3 core
                    \* lets happen: "afterSend", a load is sent while a row
                    \* operation on its row is under way; "beforeSend", the
                    \* other way round

ASSUME DepthAssumption == Depth \in 1..2
ASSUME RowsAssumption ==
    /\ IsFiniteSet(Blocks)
    /\ Rows \subseteq Seq(Blocks)
    /\ \A r, s \in Rows : Len(r) = Len(s)
ASSUME SizesAssumption ==
    /\ Capacity \in Nat \ {0} /\ mshrs \in Nat \ {0}
    /\ write_buffers \in Nat \ {0} /\ wbReserve \in Nat \ {0}
    /\ tgts_per_mshr \in Nat \ {0} /\ MaxReqs \in Nat
ASSUME PolicyAssumption ==
    /\ Cpu \in {"timing", "o3"} /\ Overlaps \subseteq {"afterSend", "beforeSend"}

Levels == 1..Depth
Ids == 1..MaxReqs
Values == UNION {[1..n -> Ids] : n \in 0..MaxReqs}

VARIABLES
    cache,  \* [Levels -> [blk: tags and data, q: MSHR queue + write buffer]]
    resps,  \* responses under way, each with the level it goes to (0: core)
    mem,    \* memory contents
    reads,  \* block reads memory has accepted and not answered
    reqs,   \* requests the core has sent, oldest first
    spec    \* what each block holds when requests take effect in the order
            \* they are sent

vars == <<cache, resps, mem, reads, reqs, spec>>

-----------------------------------------------------------------------------
(* Blocks *)

Invalid == [valid |-> FALSE, dirty |-> FALSE, data |-> <<>>]
Block(data, dirty) == [valid |-> TRUE, dirty |-> dirty, data |-> data]

(* Packets.  id names the core's request, 0 in packets between caches *)
Packet(cmd, b, data, id) ==
    [cmd |-> cmd, blk |-> b, data |-> data, id |-> id, rows |-> <<>>]

(* A row operation has physical address 0; its data are the rows it names  *)
RowOpPacket(dst, src, id) ==
    [cmd |-> "RowOp", blk |-> ZeroBlk, data |-> <<>>, id |-> id,
     rows |-> <<dst, src>>]

needsExclusive(p) == p.cmd \in {"WriteReq", "ReadExReq"}

Resp(to, p, data, dirty) ==
    [to |-> to, cmd |-> p.cmd, blk |-> p.blk, id |-> p.id,
     data |-> data, dirty |-> dirty]

(* An MSHR of the miss queue ("miss") or of the write buffer ("write").    *)
(* Both queues of a cache are one sequence in the order of allocation.     *)
MSHR(queue, p) ==
    [queue |-> queue, blk |-> p.blk, targets |-> <<p>>, deferred |-> <<>>,
     inService |-> FALSE, pendingDirty |-> FALSE]

Allocated(c, queue) == {i \in DOMAIN c.q : c.q[i].queue = queue}
Ready(c, queue) == {i \in Allocated(c, queue) : ~c.q[i].inService}
(* Mutant: the queue is taken to be full one entry too late. *)
isFull_late(c, queue) == Cardinality(Allocated(c, queue)) >
                        (IF queue = "miss" THEN mshrs ELSE write_buffers)

isFull(c, queue) == Cardinality(Allocated(c, queue)) >=
                        (IF queue = "miss" THEN mshrs ELSE write_buffers)

(* Row operations in the write buffer are uncacheable: never matched *)
Uncacheable(m) == m.targets[1].cmd = "RowOp"
findMatch(c, queue, b) ==
    {i \in Allocated(c, queue) : c.q[i].blk = b /\ ~Uncacheable(c.q[i])}

NumTargets(m) == Len(m.targets) + Len(m.deferred)
isBlocked(c) ==
    \/ isFull(c, "miss") \/ isFull(c, "write")
    \/ \E i \in Allocated(c, "miss") : NumTargets(c.q[i]) >= tgts_per_mshr

-----------------------------------------------------------------------------
(* writebackBlk and cleanEvictBlk *)
EvictPacket(c, b) ==
    IF c.blk[b].dirty THEN Packet("Writeback", b, c.blk[b].data, 0)
                      ELSE Packet("CleanEvict", b, <<>>, 0)

(* isCachedAbove: the blocks that the cache above l holds, fetches or is   *)
(* about to evict.                                                         *)
CachedAbove(l) ==
    IF l = 1 THEN {}
    ELSE {b \in Blocks : \/ cache[l - 1].blk[b].valid
                         \/ findMatch(cache[l - 1], "miss", b) # {}
                         \/ findMatch(cache[l - 1], "write", b) # {}}

(* doWritebacks queues the eviction of b, except a clean one of a block    *)
(* that is cached above.                                                   *)
doWritebacks(above, c, b) ==
    IF ~c.blk[b].dirty /\ b \in above THEN c.q
    ELSE Append(c.q, MSHR("write", EvictPacket(c, b)))

(* writebackAddr pushes the block out if it is there. *)
writebackAddr(above, c, b) ==
    IF ~c.blk[b].valid THEN c
    ELSE [blk |-> [c.blk EXCEPT ![b] = Invalid], q |-> doWritebacks(above, c, b)]

(* access for a row operation, once around its loop: block k of the rows   *)
(* is flushed.  The second source of a unary operation is address 0, and   *)
(* flushed as well.                                                        *)
FlushBlocks(above, c, dst, src, k) ==
    LET pair == writebackAddr(above, writebackAddr(above, c, dst[k]), src[k])
    IN IF k = 1 /\ ZeroBlk \in Blocks THEN writebackAddr(above, pair, ZeroBlk)
       ELSE pair

(* Mutant: the source row is not flushed. *)
FlushRows_dst(l, c, dst, src) ==
    LET upTo[k \in 0..Len(dst)] ==
            IF k = 0 THEN c
            ELSE writebackAddr(CachedAbove(l), upTo[k - 1], dst[k])
    IN upTo[Len(dst)]

(* ... and the whole loop *)
FlushRows(l, c, dst, src) ==
    LET upTo[k \in 0..Len(dst)] ==
            IF k = 0 THEN c
            ELSE FlushBlocks(CachedAbove(l), upTo[k - 1], dst, src, k)
    IN upTo[Len(dst)]

(* allocateBlock: the caches that come of making room for block b.  No     *)
(* block leaves when b is there already or the cache has room.             *)
allocateBlock(l, c, b) ==
    LET valid == {a \in Blocks : c.blk[a].valid}
    IN IF b \in valid \/ Cardinality(valid) < Capacity
       THEN {c} ELSE {writebackAddr(CachedAbove(l), c, v) : v \in valid}

(* satisfyCpuSideRequest: the block afterwards and the response.  A read   *)
(* for ownership takes the copy away; a plain read from the cache above    *)
(* takes the duty to write it back, when it is answered at once.           *)
satisfyCpuSideRequest(blk, p, to) ==
    CASE p.cmd = "WriteReq" ->
            [blk |-> Block(p.data, TRUE), resp |-> Resp(to, p, <<>>, FALSE)]
      [] p.cmd = "ReadReq" ->
            [blk |-> blk, resp |-> Resp(to, p, blk.data, FALSE)]
      [] p.cmd = "ReadExReq" ->
            [blk |-> Invalid, resp |-> Resp(to, p, blk.data, blk.dirty)]
      [] p.cmd = "ReadSharedReq" ->
            [blk |-> Block(blk.data, FALSE),
             resp |-> Resp(to, p, blk.data, blk.dirty)]

(* MSHR::allocateTarget *)
allocateTarget(m, p) ==
    IF m.inService /\ (m.deferred # <<>> \/ (needsExclusive(p) /\ ~m.pendingDirty))
    THEN [m EXCEPT !.deferred = Append(@, p)]
    ELSE [m EXCEPT !.targets = Append(@, p)]

-----------------------------------------------------------------------------
(* recvTimingReq of cache l, in three parts: packet p arrives when cache l *)
(* is c; r is the cache afterwards and the set of responses it schedules.  *)

Outcome(c, rs) == [c |-> c, resps |-> rs]

AcceptRowOp(l, c, p) ==
    LET flushed == FlushRows(l, c, p.rows[1], p.rows[2])
    IN Outcome([flushed EXCEPT !.q = Append(@, MSHR("write", p))], {})

(* Writebacks and clean evictions from above: no response *)
AcceptEviction(l, c, p) ==
    IF p.cmd = "Writeback"
    THEN {Outcome([room EXCEPT !.blk[p.blk] = Block(p.data, TRUE)], {}) :
             room \in allocateBlock(l, c, p.blk)}
    ELSE IF \/ findMatch(c, "write", p.blk) # {} \/ c.blk[p.blk].valid
            \/ findMatch(c, "miss", p.blk) # {}
    THEN {Outcome(c, {})}
    ELSE {Outcome([c EXCEPT !.q = Append(@, MSHR("write", p))], {})}

AcceptAccess(l, c, p) ==
    IF c.blk[p.blk].valid
    THEN LET s == satisfyCpuSideRequest(c.blk[p.blk], p, l - 1)
         IN Outcome([c EXCEPT !.blk[p.blk] = s.blk], {s.resp})
    ELSE LET m == findMatch(c, "miss", p.blk)
         IN IF m # {}
            THEN LET i == CHOOSE i \in m : TRUE
                 IN Outcome([c EXCEPT !.q[i] = allocateTarget(@, p)], {})
            ELSE Outcome([c EXCEPT !.q = Append(@, MSHR("miss", p))], {})

(* The outcomes of recvTimingReq: one per choice of a victim *)
recvTimingReq(l, c, p) ==
    IF p.cmd = "RowOp" THEN {AcceptRowOp(l, c, p)}
    ELSE IF p.cmd \in {"Writeback", "CleanEvict"} THEN AcceptEviction(l, c, p)
    ELSE {AcceptAccess(l, c, p)}

-----------------------------------------------------------------------------
(* Sending: CacheReqPacketQueue::sendDeferredPacket *)

Oldest(S) == CHOOSE i \in S : \A j \in S : i <= j

(* Mutant: a miss does not wait for a writeback of its block. *)
getNextMSHR_overtake(c, h) ==
    LET first(queue) == {i \in Ready(c, queue) :
                            i <= h /\ i = Oldest(Ready(c, queue))}
    IN IF first("miss") # {} THEN first("miss") ELSE first("write")

(* Mutant: the write buffer is only emptied when it is full. *)
getNextMSHR_lazy(c, h) ==
    LET first(queue) == {i \in Ready(c, queue) :
                            i <= h /\ i = Oldest(Ready(c, queue))}
        miss == first("miss")
        conflict == {i \in Ready(c, "write") :
                        \E m \in miss : c.q[i].blk = c.q[m].blk}
    IN IF isFull(c, "write") THEN first("write")
       ELSE IF conflict # {} THEN {Oldest(conflict)} ELSE miss

(* Cache::getNextMSHR when the entries up to position h are ready: misses  *)
(* first, unless the write buffer is full and idle; but a writeback to the *)
(* block of the chosen miss, or an earlier miss to the block of the chosen *)
(* writeback, goes first.  Conflicts are searched whether ready or not.    *)
getNextMSHR(c, h) ==
    LET first(queue) == {i \in Ready(c, queue) :
                            i <= h /\ i = Oldest(Ready(c, queue))}
        miss == first("miss")
        write == first("write")
        conflict(queue, m) == {i \in Ready(c, queue) : c.q[i].blk = c.q[m].blk}
        urgent == isFull(c, "write") /\ Ready(c, "write") = Allocated(c, "write")
    IN IF write # {} /\ (urgent \/ miss = {})
       THEN LET w == Oldest(write)
                earlier == {i \in conflict("miss", w) : i < w}
            IN IF earlier # {} THEN {Oldest(earlier)} ELSE write
       ELSE IF miss # {} /\ conflict("write", Oldest(miss)) # {}
       THEN {Oldest(conflict("write", Oldest(miss)))}
       ELSE miss

NoResponse(m) == m.targets[1].cmd \in {"Writeback", "CleanEvict"}

(* getTimingPacket and getBusPacket: evictions and row operations are      *)
(* forwarded as they are, a miss asks for the whole block.                 *)
getTimingPacket(m) ==
    IF NoResponse(m) \/ Uncacheable(m) THEN m.targets[1]
    ELSE Packet(IF \E i \in DOMAIN m.targets : needsExclusive(m.targets[i])
                THEN "ReadExReq" ELSE "ReadSharedReq", m.blk, <<>>, 0)

(* MSHR::markInService: dirtyResp says that the cache below gives up       *)
(* ownership.                                                              *)
Sent(m, dirtyResp) ==
    [queue |-> m.queue, blk |-> m.blk, targets |-> m.targets,
     deferred |-> m.deferred, inService |-> TRUE,
     pendingDirty |-> dirtyResp \/
         \E k \in DOMAIN m.targets : needsExclusive(m.targets[k])]

(* Cache::markInService: an eviction is done with, the others wait for the *)
(* response.                                                               *)
markInService(c, i, dirtyResp) ==
    IF NoResponse(c.q[i]) THEN [c EXCEPT !.q = RemoveAt(@, i)]
    ELSE [c EXCEPT !.q[i] = Sent(@, dirtyResp)]

(* Cache l sends to the cache below, which handles the packet at once.     *)
(* When that one is blocked the packet is refused and chosen anew later.   *)
SendToCache(l) ==
    /\ l + 1 \in Levels
    /\ ~isBlocked(cache[l + 1])
    /\ \E h \in DOMAIN cache[l].q : \E i \in getNextMSHR(cache[l], h) :
         \E out \in recvTimingReq(l + 1, cache[l + 1],
                                  getTimingPacket(cache[l].q[i])) :
            /\ cache' = [cache EXCEPT
                  ![l] = markInService(@, i, \E r \in out.resps : r.dirty),
                  ![l + 1] = out.c]
            /\ resps' = resps \cup out.resps
    /\ UNCHANGED <<mem, reads, reqs, spec>>

(* Memory: writes and row operations take effect when they are accepted *)
RowOpResult(m, p) ==
    [b \in Blocks |->
        IF \E k \in DOMAIN p.rows[1] : p.rows[1][k] = b
        THEN LET k == CHOOSE k \in DOMAIN p.rows[1] : p.rows[1][k] = b
             IN Append(m[p.rows[2][k]], p.id)
        ELSE m[b]]

(* The last cache sends to memory *)
SendToMem ==
    /\ \E h \in DOMAIN cache[Depth].q : \E i \in getNextMSHR(cache[Depth], h) :
         LET p == getTimingPacket(cache[Depth].q[i])
         IN /\ cache' = [cache EXCEPT ![Depth] = markInService(@, i, FALSE)]
            /\ mem' = CASE p.cmd = "Writeback" -> [mem EXCEPT ![p.blk] = p.data]
                         [] p.cmd = "RowOp" -> RowOpResult(mem, p)
                         [] OTHER -> mem
            /\ resps' = IF p.cmd = "RowOp"
                        THEN resps \cup {Resp(Depth, p, <<>>, FALSE)} ELSE resps
            /\ reads' = IF p.cmd \in {"ReadSharedReq", "ReadExReq"}
                        THEN reads \cup {p} ELSE reads
    /\ UNCHANGED <<reqs, spec>>

(* ... a read gets its data when it is answered *)
MemRespond ==
    \E p \in reads :
        /\ reads' = reads \ {p}
        /\ resps' = resps \cup {Resp(Depth, p, mem[p.blk], FALSE)}
        /\ UNCHANGED <<cache, mem, reqs, spec>>

(* The targets of a miss are answered in turn *)
Serve(blk, targets, to) ==
    LET upTo[k \in 0..Len(targets)] ==
            IF k = 0 THEN [blk |-> blk, resps |-> {}]
            ELSE LET s == satisfyCpuSideRequest(upTo[k - 1].blk, targets[k], to)
                 IN [blk |-> s.blk, resps |-> upTo[k - 1].resps \cup {s.resp}]
    IN upTo[Len(targets)]

(* Cache::recvTimingResp for a fill: the block is put in (another makes    *)
(* room), the deferred targets that waited for ownership join the others,  *)
(* every target is answered, and the victim is queued for eviction.        *)
Fill(l, c, r) ==
    LET i == CHOOSE i \in findMatch(c, "miss", r.blk) : TRUE
        done == Serve(Block(r.data, r.dirty), c.q[i].targets \o c.q[i].deferred,
                      l - 1)
    IN {Outcome([room EXCEPT !.blk[r.blk] = done.blk], done.resps) :
           room \in allocateBlock(l, [c EXCEPT !.q = RemoveAt(@, i)], r.blk)}

RecvFill(l) ==
    \E r \in {x \in resps : x.to = l /\ x.cmd # "RowOp"} :
        \E out \in Fill(l, cache[l], r) :
            /\ cache' = [cache EXCEPT ![l] = out.c]
            /\ resps' = (resps \ {r}) \cup out.resps
            /\ UNCHANGED <<mem, reads, reqs, spec>>

(* ... and for a row operation: the response is forwarded by the entry     *)
(* that sent the operation (the sender state of the packet).               *)
ForwardRowOpResp(l) ==
    \E r \in {x \in resps : x.to = l /\ x.cmd = "RowOp"} :
        LET i == CHOOSE i \in Allocated(cache[l], "write") :
                    /\ Uncacheable(cache[l].q[i])
                    /\ cache[l].q[i].targets[1].id = r.id
        IN /\ cache' = [cache EXCEPT ![l].q = RemoveAt(@, i)]
           /\ resps' = (resps \ {r}) \cup {[r EXCEPT !.to = l - 1]}
           /\ UNCHANGED <<mem, reads, reqs, spec>>

-----------------------------------------------------------------------------
(* The core.  A request records the rows or the block it touches, and, for *)
(* a load, the values it may return (for a store, the value it replaces).  *)

InRow(row) == {row[k] : k \in DOMAIN row}
Touched(r) == IF r.kind = "RowOp" THEN InRow(r.rows[1]) \cup InRow(r.rows[2])
              ELSE {r.blk}
Written(r) == CASE r.kind = "RowOp" -> InRow(r.rows[1])
                [] r.kind = "Store" -> {r.blk}
                [] OTHER -> {}

Outstanding == {i \in DOMAIN reqs : ~reqs[i].done}

(* What the core waits for before it sends request r *)
MayIssue(r) ==
    /\ Len(reqs) < MaxReqs
    /\ ~isBlocked(cache[1])
    /\ Cpu = "timing" => Outstanding = {}
    /\ \A i \in Outstanding :
         LET o == reqs[i]
             overlap == Touched(r) \cap Touched(o) # {}
         IN /\ r.kind = "Load" \/ o.kind = "Load"
            /\ r.kind = "Load" /\ o.kind = "RowOp" /\ overlap =>
                  "afterSend" \in Overlaps
            /\ r.kind = "RowOp" /\ o.kind = "Load" /\ overlap =>
                  "beforeSend" \in Overlaps

(* Loads under way may also return what r writes *)
Renew(rs, newSpec, written) ==
    [i \in DOMAIN rs |->
        IF rs[i].kind = "Load" /\ ~rs[i].done /\ rs[i].blk \in written
        THEN [rs[i] EXCEPT !.ok = @ \cup {newSpec[rs[i].blk]}] ELSE rs[i]]

Issue(r, p, newSpec) ==
    /\ MayIssue(r)
    /\ \E out \in recvTimingReq(1, cache[1], p) :
          /\ cache' = [cache EXCEPT ![1] = out.c]
          /\ resps' = resps \cup out.resps
    /\ spec' = newSpec
    /\ reqs' = Append(Renew(reqs, newSpec, Written(r)), r)
    /\ UNCHANGED <<mem, reads>>

Request(kind, b, rows, ok) ==
    [kind |-> kind, blk |-> b, rows |-> rows, ok |-> ok, done |-> FALSE]

Id == Len(reqs) + 1

(* A load of another word of a block that a store is changing may find the *)
(* block as it was (ok of the store) or as it will be.                     *)
Load(b) ==
    LET before == UNION {reqs[i].ok : i \in {j \in Outstanding :
                            reqs[j].kind = "Store" /\ reqs[j].blk = b}}
    IN Issue(Request("Load", b, <<>>, {spec[b]} \cup before),
             Packet("ReadReq", b, <<>>, Id), spec)

Store(b) ==
    Issue(Request("Store", b, <<>>, {spec[b]}), Packet("WriteReq", b, <<Id>>, Id),
          [spec EXCEPT ![b] = <<Id>>])

RowOp(dst, src) ==
    LET p == RowOpPacket(dst, src, Id)
    IN Issue(Request("RowOp", ZeroBlk, <<dst, src>>, {}), p,
             RowOpResult(spec, p))

Complete ==
    \E r \in {x \in resps : x.to = 0} :
        /\ resps' = resps \ {r}
        /\ reqs' = [reqs EXCEPT ![r.id].done = TRUE]
        /\ UNCHANGED <<cache, mem, reads, spec>>

Init ==
    /\ cache = [l \in Levels |-> [blk |-> [b \in Blocks |-> Invalid], q |-> <<>>]]
    /\ resps = {} /\ reads = {} /\ reqs = <<>>
    /\ mem = [b \in Blocks |-> <<>>]
    /\ spec = mem

Next ==
    \/ \E b \in Blocks : Load(b) \/ Store(b)
    \/ \E dst, src \in Rows : RowOp(dst, src)
    \/ Complete
    \/ SendToMem \/ MemRespond
    \/ \E l \in Levels : SendToCache(l) \/ RecvFill(l) \/ ForwardRowOpResp(l)

(* Caches send what is ready, memory answers, responses arrive *)
Fairness ==
    /\ WF_vars(Complete) /\ WF_vars(SendToMem) /\ WF_vars(MemRespond)
    /\ \A l \in Levels : /\ WF_vars(SendToCache(l)) /\ WF_vars(RecvFill(l))
                         /\ WF_vars(ForwardRowOpResp(l))

Spec == Init /\ [][Next]_vars /\ Fairness

-----------------------------------------------------------------------------
(* Properties *)

PacketType ==
    [cmd : {"ReadReq", "WriteReq", "ReadExReq", "ReadSharedReq", "Writeback",
            "CleanEvict", "RowOp"},
     blk : Blocks \cup {ZeroBlk}, data : Values, id : Ids \cup {0},
     rows : {<<>>} \cup (Rows \X Rows)]

TypeOK ==
    /\ \A l \in Levels :
         /\ cache[l].blk \in
               [Blocks -> [valid : BOOLEAN, dirty : BOOLEAN, data : Values]]
         /\ \A i \in DOMAIN cache[l].q :
              LET m == cache[l].q[i]
              IN /\ m.queue \in {"miss", "write"}
                 /\ m.targets # <<>>
                 /\ \A k \in DOMAIN m.targets : m.targets[k] \in PacketType
                 /\ m.deferred # <<>> => m.inService
    /\ \A r \in resps : r.to \in 0..Depth /\ r.data \in Values
    /\ mem \in [Blocks -> Values] /\ spec \in [Blocks -> Values]
    /\ reads \subseteq PacketType

(* The asserts on free lists: a row operation may queue an eviction for    *)
(* every block of its rows at once, on top of the entries that already     *)
(* wait, and the reserve of the write buffer must take them all.           *)
FreeListSuffices ==
    \A l \in Levels :
        /\ Cardinality(Allocated(cache[l], "write")) <=
              write_buffers + wbReserve - 1
        /\ Cardinality(Allocated(cache[l], "miss")) <= mshrs

(* A block whose eviction a cache has queued is neither in the cache nor   *)
(* being fetched, and is queued once (asserts in handleFill,               *)
(* getTimingPacket and access): an older copy cannot overtake a newer one. *)
EvictionIsLast ==
    \A l \in Levels : \A i \in Allocated(cache[l], "write") :
        LET m == cache[l].q[i]
        IN ~Uncacheable(m) =>
              /\ ~cache[l].blk[m.blk].valid
              /\ \A j \in Allocated(cache[l], "miss") :
                    cache[l].q[j].blk = m.blk => ~cache[l].q[j].inService
              /\ findMatch(cache[l], "write", m.blk) = {i}

(* The copy of b that a cache has: in it, on its way up to it from an      *)
(* owner that gave it up, or waiting to be written back.                   *)
Held(l, b) ==
    LET here == IF cache[l].blk[b].valid THEN {cache[l].blk[b].data} ELSE {}
        moving == {r.data : r \in {x \in resps : x.to = l /\ x.blk = b /\ x.dirty}}
        leaving == {cache[l].q[i].targets[1].data :
                       i \in {j \in findMatch(cache[l], "write", b) :
                                cache[l].q[j].targets[1].cmd = "Writeback"}}
    IN IF here # {} THEN here ELSE IF moving # {} THEN moving ELSE leaving

(* The copy that counts: the one nearest to the core *)
Newest(b) ==
    LET holders == {l \in Levels : Held(l, b) # {}}
    IN IF holders = {} THEN {mem[b]} ELSE Held(Oldest(holders), b)

(* No update is lost: when no store or row operation on b is under way,    *)
(* the copy that counts holds what the core wrote last, or what the last   *)
(* row operation made of its up-to-date source; and an owner that handed   *)
(* its copy on, a queued writeback and a flush never leave an older one.   *)
NoUpdateLost ==
    \A b \in Blocks :
        (\A i \in Outstanding : b \notin Written(reqs[i])) =>
            Newest(b) = {spec[b]}

(* A load returns what the block held, in the order the core sent its      *)
(* requests, at some moment since the load was sent.                       *)
LoadsAreCurrent ==
    \A r \in resps : r.to = 0 /\ r.cmd = "ReadReq" => r.data \in reqs[r.id].ok

(* Every request the core sends is answered: flushes, full buffers and     *)
(* conflicting entries never leave a request waiting for ever.             *)
EveryRequestAnswered ==
    \A i \in Ids : (i \in DOMAIN reqs) ~>
                       (i \in DOMAIN reqs /\ i \notin Outstanding)
=============================================================================
