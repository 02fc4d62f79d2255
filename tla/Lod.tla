-------------------------------- MODULE Lod --------------------------------
(***************************************************************************)
(* One LOD process in front of its upstreams and a Redis database: tile    *)
(* requests, calls of the admin endpoints that drop cached tiles, the      *)
(* writes they leave behind, and what happens around them.                 *)
(***************************************************************************)
EXTENDS ProxyHandler

vars == handlerVars

Init == HandlerInit

-----------------------------------------------------------------------------
(***************************************************************************)
(* /admin/<proxy>/invalidate/:z/:x/:y: InvalidateAndPrime computes the     *)
(* list of tiles, which for a single tile holds that tile or, when the     *)
(* collector of DeepChildren is late, nothing, and invalidates each.       *)
(***************************************************************************)
StartInvalidate(a, p, t) ==
    /\ pc[a] = "idle"
    /\ task' = [task EXCEPT ![a] = [proxy |-> p, tile |-> t]]
    /\ Goto(a, InvalidateStart(p)) \/ Goto(a, "skipped")
    /\ UNCHANGED <<mem, redis, writes, hits, misses, got, unflushed,
                   flightVars, version, reply>>

\* /admin/<proxy>/prime/:z/:x/:y: the same list, handed to a worker.
StartPrime(a, p, t) ==
    /\ pc[a] = "idle"
    /\ task' = [task EXCEPT ![a] = [proxy |-> p, tile |-> t]]
    /\ Goto(a, "prime") \/ Goto(a, "skipped")
    /\ UNCHANGED <<mem, redis, writes, hits, misses, got, unflushed,
                   flightVars, version, reply>>

\* The worker asks the upstream without joining a flight and spawns EncodeSet.
\* A response that ProcessResponse refuses ends the worker.
Prime(a) ==
    /\ pc[a] = "prime"
    /\ \/ writes' = writes \cup SetWrites(a, Fresh(a), FALSE)
       \/ UNCHANGED writes
    /\ Goto(a, "done")
    /\ UNCHANGED <<mem, redis, hits, misses, task, got, unflushed,
                   flightVars, version, reply>>

\* Flush, of one proxy or of all of them.
StartFlush(a, P) ==
    /\ pc[a] = "idle"
    /\ unflushed' = [unflushed EXCEPT ![a] = (P \cap MemEnabled) \X Keys]
    /\ Goto(a, "flush")
    /\ UNCHANGED <<mem, redis, writes, hits, misses, task, got,
                   flightVars, version, reply>>

EndFlush(a) ==
    /\ pc[a] = "flush"
    /\ unflushed[a] = {}
    /\ Goto(a, "done")
    /\ UNCHANGED <<mem, redis, writes, hits, misses, task, got, unflushed,
                   flightVars, version, reply>>

AdminStep(a) ==
    \/ (InvalidateMem(a) \/ InvalidateRedis(a) \/ FlushShard(a))
          /\ UNCHANGED <<flightVars, version, reply>>
    \/ EndFlush(a)
    \/ Prime(a)

-----------------------------------------------------------------------------
\* The upstream's data changes.
Publish ==
    /\ version < MaxVersion
    /\ version' = version + 1
    /\ UNCHANGED <<cacheVars, flightVars, reply>>

\* A goroutine spawned by Set reaches its level.
ApplyWrite(w) ==
    /\ WriteMem(w) \/ WriteRedis(w)
    /\ UNCHANGED <<flightVars, version, reply>>

Decay ==
    /\ \/ \E p \in Proxies, k \in Keys : MemDrop(p, k)
       \/ \E k \in Keys : RedisDrop(k) \/ RedisCorrupt(k)
    /\ UNCHANGED <<flightVars, version, reply>>

\* The process is killed and started again.  Open connections break.
Restart ==
    /\ CacheRestart
    /\ FlightRestart
    /\ reply' = [r \in Requests |->
                    IF Active(r) THEN [code |-> 0, body |-> None] ELSE reply[r]]
    /\ UNCHANGED version

\* A worker whose upstream call fails or panics panics itself (the error path
\* logs err, which is nil there) in a goroutine that no middleware recovers.
PrimeCrash(a) == pc[a] = "prime" /\ Restart

-----------------------------------------------------------------------------
Next ==
    \/ \E r \in Requests :
          \/ \E p \in Proxies, t \in Tiles : Arrive(r, p, t)
          \/ BadRequest(r)
          \/ RequestStep(r)
    \/ \E a \in Admins :
          \/ \E p \in Proxies, t \in Tiles : StartInvalidate(a, p, t) \/ StartPrime(a, p, t)
          \/ \E P \in {Proxies} \cup {{p} : p \in Proxies} : StartFlush(a, P)
          \/ AdminStep(a)
          \/ PrimeCrash(a)
    \/ \E w \in writes : ApplyWrite(w)
    \/ Publish
    \/ Decay
    \/ Restart

Spec == Init /\ [][Next]_vars

(***************************************************************************)
(* A runnable goroutine is eventually scheduled, and an upstream that was  *)
(* asked eventually answers or fails.  Nothing makes clients send requests, *)
(* the upstream publish, entries decay or the process restart.             *)
(***************************************************************************)
Fairness ==
    /\ \A r \in Requests : WF_vars(RequestStep(r))
    /\ \A a \in Admins : WF_vars(AdminStep(a))
    /\ WF_vars(\E w \in writes : ApplyWrite(w))

FairSpec == Spec /\ Fairness

-----------------------------------------------------------------------------
Labels == {"idle", "mem", "redis", "delMem", "delRedis", "hit", "miss", "lead",
           "wait", "process", "forget", "panic", "flush", "prime"} \cup Ended

(***************************************************************************)
(* The types of all variables.  Bytes that fail validation stay in Redis:  *)
(* neither the in-memory level nor a write, a fetch, a flight or a reply   *)
(* ever holds them (cache.go 296-306).                                     *)
(***************************************************************************)
TypeOK ==
    /\ mem \in [Proxies -> [Keys -> Packet \cup {None}]]
    /\ redis \in [Keys -> Packet \cup {None, Corrupt}]
    /\ writes \in SUBSET Write
    /\ hits \in [Proxies -> Nat]
    /\ misses \in [Proxies -> Nat]
    /\ pc \in [Procs -> Labels]
    /\ task \in [Procs -> Task \cup {None}]
    /\ got \in [Requests -> Packet \cup {None}]
    /\ unflushed \in [Admins -> SUBSET (Proxies \X Keys)]
    /\ flight \in [Keys -> Requests \cup {None}]
    /\ call \in [Requests -> Call]
    /\ joined \in [Requests -> Requests \cup {None}]
    /\ version \in 0..MaxVersion
    /\ reply \in [Requests -> Reply \cup {None}]
=============================================================================
