------------------------------ MODULE TileCache ------------------------------
(***************************************************************************)
(* cache/cache.go: the two-level cache of every proxy.  The first level is *)
(* a bigcache instance per proxy, the second a Redis database that all     *)
(* proxies share.  Fetch and Invalidate run in the caller's goroutine, one *)
(* step per access to a level; Set runs in goroutines of its own, which    *)
(* outlive the request that spawned them and are applied in any order.     *)
(***************************************************************************)
EXTENDS LodTypes

VARIABLES
    mem,        \* mem[p][k]: entry k of proxy p's bigcache instance
    redis,      \* redis[k]: entry k of the Redis database
    writes,     \* goroutines spawned by Set that have not touched their level
    hits,       \* Metrics.CacheHits
    misses,     \* Metrics.CacheMisses
    pc,         \* where each goroutine is
    task,       \* the proxy and tile each goroutine works for
    got,        \* the packet that Fetch returned to a request
    unflushed   \* what a flush has yet to reset

cacheVars == <<mem, redis, writes, hits, misses, pc, task, got, unflushed>>

\* A Set in flight.  "by" tells the writes of different goroutines apart.
Write == [by : Procs, level : {"mem", "redis"}, proxy : Proxies,
          key : Keys, packet : Packet]

\* The key of a task, or of a packet.
KeyFor(t) == KeyOf[t.proxy][t.tile]
Key(q) == KeyFor(task[q])

CacheInit ==
    /\ mem = [p \in Proxies |-> [k \in Keys |-> None]]
    /\ redis = [k \in Keys |-> None]
    /\ writes = {}
    /\ hits = [p \in Proxies |-> 0]
    /\ misses = [p \in Proxies |-> 0]
    /\ pc = [q \in Procs |-> "idle"]
    /\ task = [q \in Procs |-> None]
    /\ got = [r \in Requests |-> None]
    /\ unflushed = [a \in Admins |-> {}]

\* Labels of a goroutine whose handler has returned.
Ended == {"done", "invalidated", "failed", "skipped"}
Active(q) == pc[q] # "idle" /\ pc[q] \notin Ended

Goto(q, label) == pc' = [pc EXCEPT ![q] = label]

-----------------------------------------------------------------------------
(***************************************************************************)
(* Set.  The Redis write is always a goroutine; the write to memory runs   *)
(* in the goroutine that called Set, which is itself spawned by every      *)
(* caller.  internalOnly leaves Redis alone.                               *)
(***************************************************************************)
SetWrites(q, packet, internalOnly) ==
    LET p == task[q].proxy
        Levels == (IF p \in MemEnabled THEN {"mem"} ELSE {})
                    \cup (IF p \in RedisEnabled /\ ~internalOnly THEN {"redis"} ELSE {})
    IN  {[by |-> q, level |-> l, proxy |-> p, key |-> Key(q), packet |-> packet] :
            l \in Levels}

\* bigcache.Set replaces the entry.  An entry larger than its shard is refused
\* after the old one was dropped.
WriteMem(w) ==
    /\ w \in writes
    /\ w.level = "mem"
    /\ \E entry \in {w.packet, None} : mem' = [mem EXCEPT ![w.proxy][w.key] = entry]
    /\ writes' = writes \ {w}
    /\ UNCHANGED <<redis, hits, misses, pc, task, got, unflushed>>

\* The SET command is applied, or fails and is only logged.
WriteRedis(w) ==
    /\ w \in writes
    /\ w.level = "redis"
    /\ \/ redis' = [redis EXCEPT ![w.key] = w.packet]
       \/ UNCHANGED redis
    /\ writes' = writes \ {w}
    /\ UNCHANGED <<mem, hits, misses, pc, task, got, unflushed>>

-----------------------------------------------------------------------------
(***************************************************************************)
(* Fetch.  The first label is the first level the proxy has enabled.       *)
(***************************************************************************)
FetchStart(p) == IF p \in MemEnabled THEN "mem" ELSE "redis"
InvalidateStart(p) == IF p \in MemEnabled THEN "delMem" ELSE "delRedis"

CountHit(r) == hits' = [hits EXCEPT ![task[r].proxy] = @ + 1]
CountMiss(r) == misses' = [misses EXCEPT ![task[r].proxy] = @ + 1]

\* An entry was found: count a hit, validate it, and either return it and spawn
\* a Set that refreshes the in-memory level, or wipe it from both levels.
Deliver(r, entry) ==
    /\ CountHit(r)
    /\ IF Valid(entry)
         THEN /\ got' = [got EXCEPT ![r] = entry]
              /\ writes' = writes \cup SetWrites(r, entry, TRUE)
              /\ Goto(r, "hit")
         ELSE /\ Goto(r, InvalidateStart(task[r].proxy))
              /\ UNCHANGED <<got, writes>>
    /\ UNCHANGED misses

\* Faulty variant: the first level counts its miss before asking the second.
FetchMemCountsTwice(r) ==
    LET p == task[r].proxy
        entry == mem[p][Key(r)]
    IN  /\ pc[r] = "mem"
        /\ \/ /\ entry # None
              /\ Deliver(r, entry)
           \/ /\ entry = None
              /\ CountMiss(r)
              /\ Goto(r, IF p \in RedisEnabled THEN "redis" ELSE "miss")
              /\ UNCHANGED <<writes, hits, got>>
        /\ UNCHANGED <<mem, redis, task, unflushed>>

\* Faulty variant: one in-memory instance for all proxies, keyed by the tile.
FetchMemShared(r) ==
    /\ pc[r] = "mem"
    /\ \E p \in Proxies :
          LET entry == mem[p][KeyOf[p][task[r].tile]]
          IN  \/ /\ entry # None
                 /\ Deliver(r, entry)
              \/ /\ entry = None
                 /\ CountMiss(r)
                 /\ Goto(r, "miss")
                 /\ UNCHANGED <<writes, hits, got>>
    /\ UNCHANGED <<mem, redis, task, unflushed>>

\* The first level.  Without a second level a missing entry is a counted miss;
\* an error other than ErrEntryNotFound returns no tile and counts nothing.
FetchMem(r) ==
    LET p == task[r].proxy
        entry == mem[p][Key(r)]
    IN  /\ pc[r] = "mem"
        /\ \/ /\ entry # None
              /\ Deliver(r, entry)
           \/ /\ entry = None
              /\ p \in RedisEnabled
              /\ Goto(r, "redis")
              /\ UNCHANGED <<writes, hits, misses, got>>
           \/ /\ entry = None
              /\ p \notin RedisEnabled
              /\ CountMiss(r)
              /\ Goto(r, "miss")
              /\ UNCHANGED <<writes, hits, got>>
           \/ /\ Goto(r, "miss")
              /\ UNCHANGED <<writes, hits, misses, got>>
        /\ UNCHANGED <<mem, redis, task, unflushed>>

\* Faulty variant: the error path of the second level always dereferences nil.
FetchRedisPanics(r) ==
    LET entry == redis[Key(r)]
    IN  /\ pc[r] = "redis"
        /\ \/ /\ entry # None
              /\ Deliver(r, entry)
           \/ /\ entry = None
              /\ CountMiss(r)
              /\ Goto(r, "miss")
              /\ UNCHANGED <<writes, hits, got>>
           \/ /\ Goto(r, "panic")
              /\ UNCHANGED <<writes, hits, misses, got>>
        /\ UNCHANGED <<mem, redis, task, unflushed>>

\* The second level: GETEX returns the entry, redis.Nil or an error.  The error
\* path logs err, the variable of the first level's lookup, which is nil when
\* that level is disabled: err.Error() then panics.
FetchRedis(r) ==
    LET p == task[r].proxy
        entry == redis[Key(r)]
    IN  /\ pc[r] = "redis"
        /\ \/ /\ entry # None
              /\ Deliver(r, entry)
           \/ /\ entry = None
              /\ CountMiss(r)
              /\ Goto(r, "miss")
              /\ UNCHANGED <<writes, hits, got>>
           \/ /\ Goto(r, IF p \in MemEnabled THEN "miss" ELSE "panic")
              /\ UNCHANGED <<writes, hits, misses, got>>
        /\ UNCHANGED <<mem, redis, task, unflushed>>

-----------------------------------------------------------------------------
(***************************************************************************)
(* Invalidate, called by Fetch for a corrupt entry and by the admin        *)
(* endpoint.  Fetch ignores its error and reports no tile.                 *)
(***************************************************************************)
InvalidateReturns(q, label) ==
    Goto(q, IF q \in Requests THEN "miss" ELSE label)

\* bigcache.Delete; an error other than ErrEntryNotFound ends Invalidate.
InvalidateMem(q) ==
    LET p == task[q].proxy
    IN  /\ pc[q] = "delMem"
        /\ \/ /\ mem' = [mem EXCEPT ![p][Key(q)] = None]
              /\ IF p \in RedisEnabled
                   THEN Goto(q, "delRedis")
                   ELSE InvalidateReturns(q, "invalidated")
           \/ /\ InvalidateReturns(q, "failed")
              /\ UNCHANGED mem
        /\ UNCHANGED <<redis, writes, hits, misses, task, got, unflushed>>

\* DEL; a command that reports an error may have been applied all the same.
InvalidateRedis(q) ==
    /\ pc[q] = "delRedis"
    /\ \/ /\ redis' = [redis EXCEPT ![Key(q)] = None]
          /\ \E label \in {"invalidated", "failed"} : InvalidateReturns(q, label)
       \/ /\ InvalidateReturns(q, "failed")
          /\ UNCHANGED redis
    /\ UNCHANGED <<mem, writes, hits, misses, task, got, unflushed>>

\* FlushInternal: bigcache.Reset locks and empties one shard after the other, so
\* the keys of one proxy are reset together only if they share a shard.
FlushShard(a) ==
    /\ pc[a] = "flush"
    /\ \E p \in Proxies : \E K \in SUBSET {k \in Keys : <<p, k>> \in unflushed[a]} :
          /\ K # {}
          /\ mem' = [mem EXCEPT ![p] = [k \in Keys |-> IF k \in K THEN None ELSE @[k]]]
          /\ unflushed' = [unflushed EXCEPT ![a] = @ \ ({p} \X K)]
    /\ UNCHANGED <<redis, writes, hits, misses, pc, task, got>>

-----------------------------------------------------------------------------
(***************************************************************************)
(* What happens to the levels by themselves: bigcache evicts for space and *)
(* expires entries, Redis expires keys, and a stored value goes bad.       *)
(***************************************************************************)
MemDrop(p, k) ==
    /\ mem[p][k] # None
    /\ mem' = [mem EXCEPT ![p][k] = None]
    /\ UNCHANGED <<redis, writes, hits, misses, pc, task, got, unflushed>>

RedisDrop(k) ==
    /\ redis[k] # None
    /\ redis' = [redis EXCEPT ![k] = None]
    /\ UNCHANGED <<mem, writes, hits, misses, pc, task, got, unflushed>>

RedisCorrupt(k) ==
    /\ redis[k] \in Packet
    /\ redis' = [redis EXCEPT ![k] = Corrupt]
    /\ UNCHANGED <<mem, writes, hits, misses, pc, task, got, unflushed>>

\* The process stops: the in-memory level, the counters and every goroutine are
\* gone, Redis is not.
CacheRestart ==
    /\ mem' = [p \in Proxies |-> [k \in Keys |-> None]]
    /\ writes' = {}
    /\ hits' = [p \in Proxies |-> 0]
    /\ misses' = [p \in Proxies |-> 0]
    /\ pc' = [q \in Procs |-> IF Active(q) THEN "done" ELSE pc[q]]
    /\ unflushed' = [a \in Admins |-> {}]
    /\ UNCHANGED <<redis, task, got>>
=============================================================================
