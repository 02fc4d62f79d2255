---------------------------- MODULE ProxyHandler ----------------------------
(***************************************************************************)
(* www/handlers/proxy/proxy.go and the helpers it calls: a tile request    *)
(* tries the cache, then joins or leads the upstream call for its key, and *)
(* hands the result to the client and to the cache.  The label of a        *)
(* request names the call it is about to make or to return from.           *)
(***************************************************************************)
EXTENDS TileCache, SingleFlight

VARIABLES
    version,    \* how often the upstream's data has changed
    reply       \* what a request wrote to its client, None while it has not

handlerVars == <<cacheVars, flightVars, version, reply>>

HandlerInit ==
    /\ CacheInit
    /\ FlightInit
    /\ version = 0
    /\ reply = [r \in Requests |-> None]

Respond(r, code, body) == reply' = [reply EXCEPT ![r] = [code |-> code, body |-> body]]

\* What the upstream of q's proxy has for q's tile at this moment.
Fresh(q) == [proxy |-> task[q].proxy, tile |-> task[q].tile, version |-> version]

-----------------------------------------------------------------------------
\* A request whose URL yields a tile: buildKeyAndUrl returns, Fetch begins.
Arrive(r, p, t) ==
    /\ pc[r] = "idle"
    /\ task' = [task EXCEPT ![r] = [proxy |-> p, tile |-> t]]
    /\ Goto(r, FetchStart(p))
    /\ UNCHANGED <<mem, redis, writes, hits, misses, got, unflushed,
                   flightVars, version, reply>>

\* tile.Get or url.Parse refuses what the URL holds.
BadRequest(r) ==
    /\ pc[r] = "idle"
    /\ Respond(r, 400, None)
    /\ Goto(r, "done")
    /\ UNCHANGED <<mem, redis, writes, hits, misses, task, got, unflushed,
                   flightVars, version>>

\* returnCachedTile.  fiber's ctx.Write appends to a buffer and cannot fail.
ServeCached(r) ==
    /\ pc[r] = "hit"
    /\ Respond(r, 200, got[r])
    /\ Goto(r, "done")
    /\ UNCHANGED <<mem, redis, writes, hits, misses, task, got, unflushed,
                   flightVars, version>>

-----------------------------------------------------------------------------
\* Faulty variant: the group is keyed by the tile without the proxy's template.
StartFlightByTile(r) ==
    /\ pc[r] = "miss"
    /\ \/ Lead(r, Key(r)) /\ Goto(r, "lead")
       \/ /\ Goto(r, "wait")
          /\ \E p \in Proxies : Join(r, KeyOf[p][task[r].tile])
    /\ UNCHANGED <<mem, redis, writes, hits, misses, task, got, unflushed,
                   version, reply>>

\* flightGroup.Do.  The group is shared by all proxies and knows the bare key.
StartFlight(r) ==
    /\ pc[r] = "miss"
    /\ \/ Lead(r, Key(r)) /\ Goto(r, "lead")
       \/ Join(r, Key(r)) /\ Goto(r, "wait")
    /\ UNCHANGED <<mem, redis, writes, hits, misses, task, got, unflushed,
                   version, reply>>

\* FetchUpstream, at the moment the upstream reads its data.  The answer may
\* travel for any time: the flight is finished by a later step.
UpstreamAnswers(r) ==
    /\ pc[r] = "lead"
    /\ \/ Return(r, [kind |-> "ok", packet |-> Fresh(r)])
       \/ \E kind \in {"badStatus", "error", "panic"} :
             Return(r, [kind |-> kind, packet |-> None])
    /\ UNCHANGED <<cacheVars, version, reply>>

\* The leader's Do returns or panics.
FinishFlight(r) ==
    /\ pc[r] = "lead"
    /\ Finish(r, Key(r))
    /\ Goto(r, "process")
    /\ UNCHANGED <<mem, redis, writes, hits, misses, task, got, unflushed,
                   version, reply>>

\* A waiting request's Do does.
WakeUp(r) ==
    /\ pc[r] = "wait"
    /\ Released(r)
    /\ Goto(r, "process")
    /\ UNCHANGED <<mem, redis, writes, hits, misses, task, got, unflushed,
                   flightVars, version, reply>>

\* Faulty variant: the status of the response is not looked at.
UseResultUnchecked(r) ==
    LET result == ResultOf(r)
    IN  /\ pc[r] = "process"
        /\ \/ /\ result.kind \in {"ok", "badStatus"}
              /\ Respond(r, 200, result.packet)
              /\ UNCHANGED writes
           \/ /\ result.kind = "error"
              /\ Respond(r, 500, None)
              /\ UNCHANGED writes
           \/ /\ result.kind = "panic"
              /\ UNCHANGED <<reply, writes>>
        /\ Goto(r, "forget")
        /\ UNCHANGED <<mem, redis, hits, misses, task, got, unflushed,
                       flightVars, version>>

\* The rest of the handler.  ProcessResponse writes usable data to the client
\* and spawns EncodeSet for the request's own proxy and key; a refused status
\* or an error gives a 500; a panic leaves without a reply.
UseResult(r) ==
    LET result == ResultOf(r)
    IN  /\ pc[r] = "process"
        /\ \/ /\ result.kind = "ok"
              /\ Respond(r, 200, result.packet)
              /\ writes' = writes \cup SetWrites(r, result.packet, FALSE)
           \/ /\ result.kind \in {"badStatus", "error"}
              /\ Respond(r, 500, None)
              /\ UNCHANGED writes
           \/ /\ result.kind = "panic"
              /\ UNCHANGED <<reply, writes>>
        /\ Goto(r, "forget")
        /\ UNCHANGED <<mem, redis, hits, misses, task, got, unflushed,
                       flightVars, version>>

\* The deferred flightGroup.Forget.
ForgetKey(r) ==
    /\ pc[r] = "forget"
    /\ Forget(Key(r))
    /\ Goto(r, IF reply[r] = None THEN "panic" ELSE "done")
    /\ UNCHANGED <<mem, redis, writes, hits, misses, task, got, unflushed,
                   version, reply>>

\* The recover middleware turns a panic into an error, the error handler the
\* error into a 500.
RecoverPanic(r) ==
    /\ pc[r] = "panic"
    /\ Respond(r, 500, None)
    /\ Goto(r, "done")
    /\ UNCHANGED <<mem, redis, writes, hits, misses, task, got, unflushed,
                   flightVars, version>>

\* Fetch, in the request's goroutine.
Lookup(r) ==
    /\ FetchMem(r) \/ FetchRedis(r) \/ InvalidateMem(r) \/ InvalidateRedis(r)
    /\ UNCHANGED <<flightVars, version, reply>>

RequestStep(r) ==
    \/ Lookup(r)
    \/ ServeCached(r)
    \/ StartFlight(r)
    \/ UpstreamAnswers(r)
    \/ FinishFlight(r)
    \/ WakeUp(r)
    \/ UseResult(r)
    \/ ForgetKey(r)
    \/ RecoverPanic(r)
=============================================================================
