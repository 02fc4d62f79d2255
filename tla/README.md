# LOD in TLA+

LOD (`src/`) is a caching proxy for map tiles.  A request for a tile is answered
from a two-level cache (bigcache in the process, Redis outside) or from an
upstream tileserver; concurrent upstream calls for one key are coalesced; admin
endpoints flush, invalidate and prime tiles and reload the configuration.  This
directory models its request path, its admin endpoints, its configuration and
routes and the packet it caches, model-checks them with TLC and proves the main
invariants with TLAPS.

## 1. Inventory

| Part (source) | State | Operations | Meets | Hard behaviour | Right when |
|---|---|---|---|---|---|
| Tile cache (`cache/cache.go`) | a bigcache instance per proxy, one Redis database for all, hit and miss counters, writes under way | `Fetch`, `Set`, `EncodeSet`, `Invalidate`, `FlushInternal` | called by request and admin goroutines; `Set` runs in goroutines that outlive their request | late and reordered writes; reads between the two deletes of `Invalidate`; eviction, expiry, corrupt values, Redis errors; process restart | what is held under a key belongs to it; damaged bytes stay in Redis; nothing comes back after its last copy is gone; a lookup counts once |
| Registry of caches (`cache.Init`, `BuildInstance`, `WipeOldCaches`) | `Caches`, Prometheus registrations | build, rebuild and drop instances | called at start and by reload while requests run | unlocked map; second registration of a metric; failure between steps | handlers and admin endpoints work on one cache per proxy; between reloads just the configured ones exist |
| Proxy handler (`www/handlers/proxy/proxy.go`, `helpers/helpers.go`) | the request: key, cached tile, flight result, response | `handle`, `FetchUpstream`, `ProcessResponse` | cache, flight group, upstream, client | leaders that fail or panic, waiters, the deferred `Forget` | the right tile is answered; failures of the upstream, and nothing else, give a 500; everybody is answered |
| Coalescing (`vendor/golang.org/x/sync/singleflight`) | map from key to call | `Do`, `doCall`, `Forget` | shared by all proxies | `Forget` while another call runs | the map names only live calls; bounded duplication |
| Tile arithmetic (`tile/tile.go`) | channel, WaitGroup, list | `Get`, `Children`, `DeepChildren` | called by the admin endpoints | recursion over goroutines, a collector nobody waits for | the list holds each descendant |
| Invalidate and prime (`www/handlers/admin/cache.go`) | job channel, success channel, worker pool | `InvalidateAndPrime`, `tileWorker` | `DeepChildren`, cache, upstream | a failing worker; the wait for the pool | the report is true, the pool ends before the handler does |
| Flush (`www/handlers/admin/flush.go`) | none | flush one proxy or all | in-memory level | shards are reset one after the other | only removes |
| Reload and configuration (`admin/reload.go`, `config/config.go`, `config/errors.go`) | the configuration, what the handlers were wired with | `Load`, validation, defaults | registry, handlers | partial failure, stale handlers, overlapping reloads | what is accepted is usable; configuration and caches agree |
| Packet codec (`packet/`) | none | `Encode`, `Decode`, `Validate`, the accessors | cache, handler | field widths of 8, 16 and 32 bits, offsets read from the bytes themselves | decode inverts encode; nothing beyond the end is read |
| Routes and middleware (`www/handlers/*/wire.go`, `www/middleware`) | the routes, as registered at start | match, pass on, refuse | every request | order of registration, prefixes that are other names | tokens guard, names and origins are a proxy's own |
| Statistics, status, capabilities | none | format JSON | counters | 0/0 | counters are right |
| Start-up (`cmd/lod/main.go`) | none | load, build, wire, serve | all | order | nothing is wired before it is built |
| Environment, logging, strings | none that outlives a call | | | | |

`PROJECT.json` names the state of each part (`components`) and lists the hazards
with the line at which each bites (`hazards`).

## 2. Modules

    LodTypes        proxies, tiles, keys, packets, results, replies; assumptions
      TileCache     the two levels, Set's goroutines, Fetch, Invalidate, flush
      SingleFlight  the flight group: Do, doCall, Forget
        ProxyHandler  a tile request, over TileCache and SingleFlight
          Lod           the process: requests, admin calls, decay, restart
            LodProperties   what is asked of it; the inductive invariant
              LodProofs       the invariant and what follows from it
                LodRequestProofs  the course of a request: calls, counts, failures
                  LodServiceProofs  nothing comes back, TileService is implemented
              MCLod           constants for TLC
      TileService   abstract specification of what clients are promised
    DeepChildren    the goroutines that list a tile's descendants
      TileJobs        one call of the invalidate or prime endpoint
        TileJobsProofs  the inductive invariant and what follows from it
        MCTileJobs      constants for TLC
    ConfigRules     validation, defaults, and what the rest of LOD relies on
      ConfigProofs    what is accepted is usable
      Router          the routes of a configuration and fiber's way through them
        RouterProofs    tokens, names and origins, for any configuration
        Registry        the process: boot, reloads, flushes, the map of caches
          RegistryProperties  what is asked of it
            MCRegistry        files and requests for TLC
            RegistryProofs    the inductive invariant and what follows from it
    Packet          a tile and its headers as bytes
      Delivery        status, headers and body from the upstream to the clients
        DeliveryProofs  decode inverts encode; what the clients receive
        MCDelivery      constants for TLC

### How code becomes state and actions

Each goroutine that runs a handler is a member of `Requests` or `Admins`; `pc`
holds the call it is about to make or return from, and one action is one access
to a shared object: a level of the cache, the flight group's critical section,
the upstream, the response.

* **TileCache.** `mem[p][k]` and `redis[k]` hold a packet, nothing, or (Redis
  only) bytes that fail `Validate`.  `Fetch` is `FetchMem`, then `FetchRedis`,
  then `Deliver`, which counts the hit, validates, and returns the packet while
  spawning a refresh of the first level, or goes on to `InvalidateMem` and
  `InvalidateRedis`.  `Set` becomes members of `writes`; `WriteMem` and
  `WriteRedis` apply them in any order, and may fail.  `FlushShard` resets part
  of an instance, because `bigcache.Reset` locks one shard at a time.
* **SingleFlight.** A call is named by the request that leads it.  `Lead` and
  `Join` are the two outcomes of `Do`'s critical section, `Return` is the end of
  the function, `Finish` is `doCall`'s deferred function, which removes the
  entry only if it is still its own, `Forget` removes whatever is there.
* **ProxyHandler.** `Arrive`, `BadRequest`, the lookup, `ServeCached`,
  `StartFlight`, `UpstreamAnswers` (the moment at which the upstream reads its
  data), `FinishFlight`, `WakeUp`, `UseResult` (`ProcessResponse` with the
  response and the cache write), `ForgetKey` (the deferred call) and
  `RecoverPanic` (the middleware).
* **Lod** adds the effect of the admin endpoints on a single tile, the change of
  the upstream's data, decay, and the restart of the process, which keeps Redis
  and breaks the connections of whoever was waiting.  A priming worker whose
  upstream call fails takes the process with it (`PrimeCrash`).
* **DeepChildren, TileJobs.** One goroutine per tile sends itself on an
  unbuffered channel, spawns four more and is counted by a WaitGroup; the
  collector appends; `Return` reads the list without waiting for it and may see
  an append under way, half done if the slice is being moved, which happens at
  the capacities that are powers of two up to 256 and, beyond, where the
  allocator has it.  `TileJobs` continues with the loop that invalidates, or the job channel and the workers,
  which share the response of the request: a 204 of one tile becomes its status.
* **ConfigRules.** `Load` up to the assignment of the configuration, as a
  function.  A file is what the TOML decoder returns.  Validation is a list of
  rules `<<broken, error>>` in the order of the code's ifs; `Accepted` says that
  none is broken, `Refusal` gives the first error, `Effective` is what validation
  and `setDefaults` leave.  `Usable` is what the other parts rely on.
* **Router.** A route is a record with the place at which it was registered: by
  part of the program, then by proxy, then by line.  `Matches` and `Ends` are
  fiber's: the path of a `Use` is compared as text, so that `/osm` matches
  `/osm2`, while the path of a handler must be equal.  `EndsAt` is where a
  request ends and `SawLast` which middleware spoke last before that.
* **Registry.** One step is one access to a shared variable: the configuration,
  the map of caches, the metric registrations.  A reload goes through `Load`,
  `BeginInit`, for each name `NextProxy`, `OpenLevels`, `Register` and `Store`,
  then `BeginWipe`, `Wipe` and `EndReload`.  Between any two of them another
  call of reload or flush may step.  `overlapped` and `spoiled` are history
  variables that only properties read.  The handler of an admin call is reached
  by the routes (`Reaches`), not by assumption.
* **Packet, Delivery.** `Encode`, `Validate` and the accessors byte by byte, with
  `Base` for 256 and `Weight[i]` for its i-th power.  `Delivery` follows one tile: `FetchUpstream` for the requests
  that share a flight, `ProcessResponse`, `EncodeSet`, and `Hit`
  (`returnCachedTile`), while the stored bytes may be cut or changed.

### Abstractions

* A packet is the proxy and the tile it was read for and the version the
  upstream's data had.  Headers travel in the packet; the statuses 200 and 204
  are one code.
* A proxy's `key_template` is the function `KeyOf[p][t]`.  Two proxies may
  render the same key, and do in the run `shared_flight`.
* An upstream call succeeds, is refused by `ProcessResponse` (status or empty
  body), fails, or panics.  The agent has no timeout, so there is no timeout.
* A graceful shutdown is not distinguished from a kill: `Restart` allows
  everything it does.
* One LOD instance.  Other writers of Redis appear only as `RedisDrop` and
  `RedisCorrupt`.
* A name is a sequence of pieces, so that one can begin another; a template is
  the set of what occurs in it; a duration is a number, missing, or one that
  `time.ParseDuration` refuses.
* `Lod`, `Registry` and `Delivery` describe the same process and do not share
  variables: `Lod` has a fixed configuration, `Registry` no tiles, `Delivery` one
  tile.  What joins them are properties: `Lod` assumes of a configuration what
  `ConfigUsable` gives (every proxy has a cache level) and one cache per proxy, which is `ServedFromOneCache`; its packet is whole or
  damaged, which is what `RoundTrip` and `Delivery`'s `TypeOK` say of bytes.
* That keys tell tiles apart is a hypothesis wherever it is used.  Validation
  only looks for the three coordinates in a template, and `{z}{x}{y}` has them
  and gives tile 1/11/1 and tile 1/1/11 one key.
* The workers of a priming call write to the one response of the request without
  a lock.  Of that data race only the status is modelled, and that a 204 takes
  the body along; what the bytes of the body may become is not.
* A call in `TileJobs` begins with its cache, tile and depth at hand: the
  refusals of an unknown proxy, a bad tile and a bad depth
  (`admin/cache.go:26-57`) answer and change nothing.
* The checksum is collision-free.

## 3. Properties and runs

| Run | Instance | What it shows |
|---|---|---|
| `core` | 1 proxy with both levels, 3 requests for one tile, 1 change of data | `TypeOK`; `FlightsAreLive`; `BoundedStampede`: at most one upstream call per key plus one per request that already forgot it; `CountedOnce`; `NoResurrection`; `OnlyUpstreamFails` |
| `shared` | 2 proxies with both levels and keys of their own, 2 requests, under fairness | `FiledUnderItsKey`, `RightTile`, and `ServiceSpec`: LOD implements `TileService`; `EveryCallEnds`: every request is answered or disconnected |
| `admin` | 1 proxy, 2 requests, 1 admin call of any kind | `ServiceSpec` and `NoResurrection` while tiles are invalidated, flushed or primed |
| `jobs` | 5 tiles (a tile and its children), one of them empty upstream, 2 workers, under fairness | `AtMostLastTileLost`, `NoSendOnClosed`, `ReportIsTrue`, `NoWorkerOutlivesHandler`, `CallEnds`, `TypeOK`; `ReportLostToEmptyTile`: a priming report arrives with its body unless a tile it primed was empty |
| `registry` | 5 files over 3 names, 2 calls at a time, 3 in a life of the process, under fairness | `ConfigUsable`, `ServedFromOneCache`, `Settled`, `FlushFailure`, `RemovedStaysRemoved`, the four route properties `EveryTokenGuards`, `EveryRightGroup`, `EveryOwnOrigins`, `EveryRefusedByPrefix` for every request that can tell them apart, `EveryCallAnswered`, `TypeOK` |
| `delivery` | 3 clients, bytes of 3 values, bodies and headers up to just beyond their fields | `RoundTrip`, `HitRepeats`, `EmptyMeansNoContent`, `TypeOK` |
| `stampede` | as `core` | violated: `SingleUpstreamCall` |
| `shared_flight` | 2 proxies with one key, in-memory levels only | violated: `SeparateCaches` |
| `redis_error` | 1 proxy with Redis only | violated: `OnlyUpstreamFails` |
| `deep_lost` | as `jobs` | violated: `AllListed` |
| `readded` | as `registry` | violated: `ReloadPicksUpProxies` |
| `shared_token` | as `registry` | violated: `OwnTokenIsEnough` |

**Bounds.**  `MaxVersion` bounds how often the upstream's data changes; one
change is what tells an old copy from a new one.  Three requests are needed for a `Forget` to
hit a foreign flight (one that leaves, one that leads, one that joins or leads
again); two suffice for sharing between proxies and for an admin call between a
reader and a writer.  One tile per proxy is enough, since tiles with different
keys touch no common entry, and tiles with the same key behave as two proxies
with the same key do.  In `jobs` one level below the root gives the WaitGroup
goroutines that add while others leave, and two workers give one that gives up
while the other goes on.  Requests are interchangeable and symmetric where no
liveness is checked.

In `registry` the name "osm" begins "osm2" and "admin2" begins with the admin
group's segment; the files name one, two or three proxies, add and drop names
between them, repeat a name with other settings, and one breaks a rule behind a
valid proxy.  `MaxCalls` bounds the calls of one life of the process to three:
a third is what meets the state that two overlapping or failed ones left, and a
reboot resets it.  Two calls at a time show every overlap of two; that a third
adds nothing is what the proofs say, which know no bound.  In `delivery` three
byte values make a field of one byte overflow with the third header, one of two
bytes at a text of nine and one of four at a tile of eighty-one; an entry is
damaged once (cut off anywhere, or one byte changed anywhere), because what
fails validation is replaced before it is damaged again.  Three clients are one
that fills the cache, one that joins it or meets the damage, and one that reads.

**Deadlock** is checked in the `Lod` runs: some entry can always decay or the
process be restarted, and a stuck request is what `EveryCallEnds` rules out.
`TileJobs` models a single call that ends, so its runs do not check deadlock and
`CallEnds` takes its place.  `registry` checks it: a process that is up can be
killed, one that is down can boot.  `delivery` ends when all clients are served
and nothing is left to store, so it does not.

**Fairness.**  Every goroutine that can run is eventually scheduled (Go's
scheduler): weak fairness of each request's steps, each admin call's steps, and
of the writes under way.  Weak fairness suffices because no step of a goroutine
is disabled by others for good: a waiter released by `Finish` stays released.
It also makes the upstream answer or fail, which the code does not enforce; an
upstream that holds a connection for ever holds the leader and its followers for
ever.  Nothing makes clients send requests, data change, entries decay or the
process restart.  `EveryCallEnds` is checked of requests: a single-tile admin call
is a straight line of steps that nothing blocks, and of the deep ones `CallEnds`
speaks in `jobs`.  In `registry` it is weak fairness of each call's steps except
`Load`.  It includes that Redis answers the ping of a new instance or its client
gives up (`initExternal` pings with a background context, and go-redis has
timeouts of its own).  It does not include that the configuration arrives: it may
be at a URL, and `config.go:171` waits for it without a limit.  A reload may
therefore hang in `Load` for ever, and `EveryCallAnswered` says that every other
call ends all the same, as does each reload that has its file.  Nothing makes
calls begin.

### Disagreements between statements and code

Six have a run that ends in a violation:

1. `proxy.go:57`: `Forget` in the handler's defer deletes whatever flight the
   key has by then, so that two upstream calls for one key can run together
   (`stampede`).  `BoundedStampede` says how many at most.
2. `proxy.go:60`: one flight group for all proxies, keyed by the bare cache key.
   Proxies with the same template answer with and cache each other's tiles even
   without a common Redis (`shared_flight`).
3. `cache.go:272`: the error path of the Redis lookup dereferences the wrong
   error, nil when the in-memory level is off (`redis_error`).
4. `tile.go:119`: `DeepChildren` does not wait for its collector (`deep_lost`).
   `AtMostLastTileLost` says how much is lost at most.
5. `cache.go:189`: a proxy that is removed and added again panics the reload that
   adds it, where `reload.go:12` promises to pick up any changes (`readded`);
   flushes then find the name without a cache.  `RemovedStaysRemoved` says that
   this lasts as long as the process.
6. `proxy/wire.go:33`: the token of "osm" is demanded for "osm2" as well, if "osm"
   has one, where the project's README promises separate authentication
   (`shared_token`).  `EveryRefusedByPrefix` says how far this goes,
   `SeparateIfNamesAreApart` that it cannot happen where no name begins another.

One is proved:

7. `helpers.go:165`: the response is copied before the request is made, so that
   no header of the upstream arrives, although `config.go:62` and the project's
   README promise `pull_headers`.  `HeadersAreNeverPulled` refutes them for every
   configuration and every answer of the upstream.

The others are described by the models and have no run of their own:

8. `admin/cache.go:164`: a tile whose upstream call fails ends the process, by the
   `Error()` of a nil `err` (`FailTile`, `PrimeCrash`); line 165 shows that the
   worker was to go on.
9. `admin/cache.go:187`: a tile that is refused ends its worker, and when all
   have ended the rest of the list is never asked for.  `NoWorkerOutlivesHandler`
   says that jobs are left over in no other case.
10. `cache.go:313`, `:349`: a request that reads Redis between the two deletes of
    an invalidation brings the deleted tile back into memory, where line 349
    speaks of "all cache levels".
11. `helpers.go:233`: what a request has yet to store is stored behind the back of
    an invalidation.  `NoResurrection` is the bound of 10 and 11, and no more: what
    comes back was held by somebody all the time.
12. `cache.go:245`, `:273`, `:280`: a lookup that ends in an error of a level is
    neither a hit nor a miss, and `stats.go:14` reports the sum of both as the
    requests.  `CountedOnce` says that it is never too large.
13. `config.go:408`: zero is accepted for a TTL that line 406 wants refused.
    bigcache takes it for a life of a second or two.  `ConfigUsable` leaves the
    life of entries out.
14. `cache.go:53`: a proxy whose settings changed keeps its cache.  Its routes, too,
    are those of the start, and a new proxy has a cache and no routes.
15. `proxy.go:126`: a tile first answered with 204 is answered with 200 and an
    empty body from the cache.  `HitRepeats` says that nothing else differs.

The following contradict no statement of the repository:

16. A 204 of a single primed tile takes the body of the report with it
    (`ReportLostToEmptyTile`).
17. The defaults of the cache section (`config.go:104`, `:206`) are out of reach:
    a proxy without the section is refused with `ErrNoCacheEnabled` before.
    `DefaultCache` is in `ConfigRules` for all that.
18. A preflight is answered by the first proxy that was wired.  That a request
    which reaches a handler gets its own proxy's origins is `EveryOwnOrigins`.
19. Two overlapping reloads can delete each other's caches, for good because of
    5 (`Settled` excuses what comes after).
20. `/admin/flush/`, with the slash, reaches the flush of a single proxy without
    a name in the locals and panics (`FlushAllBySlash`).
21. Two proxies may have one name; the second is wired and never reached.

## 4. Proofs

Every property of the passing runs except the three of liveness is a theorem,
for every value of the constants.

### Requests, caches and flights

`LodProofs`, `LodRequestProofs` and `LodServiceProofs` prove, for any number of
proxies, tiles, keys, requests, admin calls and any assignment of cache levels:

| Theorem | Says | Hypothesis |
|---|---|---|
| `Invariance` | `Spec => []IInv` | |
| `TypeCorrectness` | `Spec => []TypeOK` | |
| `FlightsStayLive` | `Spec => []FlightsAreLive` | |
| `Filing` | `Spec => []FiledUnderItsKey` | |
| `RightTileServed` | `Spec => []RightTile` | no two proxies and tiles share a key |
| `RequestOrder` | `Spec => [](IInv /\ RequestsInOrder)` | |
| `StampedesAreBounded` | `Spec => []BoundedStampede` | finitely many requests |
| `LookupsAreCountedOnce` | `Spec => []CountedOnce` | finitely many requests |
| `FailuresAreUpstream` | `Spec => OnlyUpstreamFails`, an action property | every proxy has an in-memory level |
| `NothingReturns` | `Spec => NoResurrection`, an action property | |
| `TilesAreServed` | `Spec => ServiceSpec`: LOD implements `TileService` | no two proxies and tiles share a key |

The assumptions are those of `LodTypes`: keys are keys, every proxy has a cache
level (`config.validateCache` refuses others), requests and admin calls are
different goroutines, and the values that stand for "nothing" and "damaged" are
not packets, tasks or replies.  The hypotheses are there because the
code needs them: with a common key, two proxies answer with each other's tiles
(`shared_flight`); without the in-memory level, a Redis error is a panic and a
500 (`redis_error`); and a number of requests is what the counting theorems
compare, so there must be one.

**Argument.**  That a reply carries the right tile is not inductive: the packet
comes out of a flight led by somebody else, or out of a level into which a
goroutine of a request long gone wrote it.  `IInv` (`LodProperties`) therefore
says of each place where a packet can be that it is filed under the place's key:
`StoredFiled` for levels and late writes, `FetchedFiled` for what a lookup
returned, `CallsFiled` for results of calls and `RepliesFiled` for what was
sent.  Results cross from the leader to those who joined, hence `JoinsMatch`
(who joined has the leader's key), which needs `FlightsLed` (the table's entry
for a key is led by a request for that key that is still in `Do`) and `CallsLed`
(a call is live exactly while its leader is in `Do`).  `TasksKnown` and
`IdleIsBlank` say that whoever acts on a key has one, and that an arriving
request has left no trace that its task could falsify.

There is one lemma per action, with one step per conjunct.  Two frame lemmas
carry what most actions leave alone: `RequestsUntouched` for steps that no
request takes part in, `LookupFrame` for the steps between a request's arrival
and its flight.

`LodRequestProofs` first says of each step which request takes it, from which
label to which, and that the other requests stand still (`StepKinds`); what
follows is done by kind of step, not by action.  `RequestsInOrder` adds to `IInv`
that a request has a task from its arrival on and a reply from the first write
to its client on, which is data or an admitted failure.

* `BoundedStampede` compares two counts that change for different reasons, so
  what is inductive is `OneJoinable`: of the calls that run for a key, those that
  nobody can join any more are at most as many as the requests that forgot the
  key.  The call in the flight table is the one that is left over.  A `Forget`
  adds one to the right, and to the left the call it strikes from the table, if
  any; a leader that finishes takes one from the left or nothing; a restart empties
  the left.
* `CountedOnce` holds because a step that raises one of the two counters raises it
  by one, leaves the other, and adds its request to those that are done looking.
* `OnlyUpstreamFails` needs `PanicsExplained`: who panics led or joined a call whose
  function did.  This is where the in-memory level is needed.

`NothingReturns` needs `IInv` but no further invariant: for each of the five
kinds of places that count as holding a packet, a step leaves there what was held
under the same key before, or what the upstream had at that moment.  The one
delicate case is a request that joins a flight whose function is back already:
its result is held by the leader, because `FlightsLed` says that the leader has
not left `Do`.

`TilesAreServed` maps `mem`, `redis`, late writes, fetches and flights to the
service's copies, and the reply of a request to the service's answer.  A step of
`Lod` is one of the service's reading of the upstream, losing copies, taking or
answering a request, refusing one, stopping, or a stutter (`NextServes`, one
lemma per kind).  That copies appear only by reading is what `NothingReturns`
rests on.  What a handler has written and not yet returned from counts as a copy
(`Written`), because the client has it only then; that it is a copy of the tile
that was asked for follows from `RepliesFiled` if keys tell tiles apart.

### Configuration, routes and registry

| Theorem | Says |
|---|---|
| `ConfigProofs!AcceptedIsUsable` | what validation accepts is usable after the defaults |
| `RegistryInvariance` | `Spec => []IInv` |
| `RegistryTypes` | `Spec => []TypeOK` |
| `InForceIsUsable` | `Spec => []ConfigUsable` |
| `HandlersShareTheRegistry` | `Spec => []ServedFromOneCache` |
| `RegistrySettles` | `Spec => []Settled` |
| `FlushesFail` | `Spec => []FlushFailure` |
| `RemovalIsFinal` | `Spec => RemovedStaysRemoved`, an action property |
| `TokensGuardHandlers`, `NamesReachTheirProxy`, `OwnOriginsSent`, `PrefixesRefuse` | the four route properties |
| `RouterProofs!SeparateIfNamesAreApart` | the token of a proxy is all one needs, if no name is the beginning of another |

They hold for any set of files, any number of proxies in each, any names, and
any number of calls at a time.  Assumed are `FilesAssumption` (files are what
the decoder can return, `Names` has the names in them), `NoneAssumption`
("nothing" is not a configuration, proxy or cache), `AdminAssumption` and
`RequestsAssumption` (segments are sequences) and `DurationAssumption` (the two
marks are not numbers).  TLC evaluates them on the run's instance.

`ConfigProofs` takes the lists of rules apart: a concatenation is unbroken if
its parts are (`BrokenParts`), each rule says what it demands, and each default
keeps it.  `RouterProofs` first lists the kinds of routes (`RouteKinds`), then
shows for each property which of them can be where a request ends or what spoke
last.  That a handler of "osm2" finds "osm2" in the locals although the groups of
"osm" and "osm2" have both marked the request follows from the order in which
the groups are registered: the one that matches by prefix is not the one whose
mark stands directly before the handler (`GroupsAreRight`).

In `RegistryProofs`, `Settled` and `FlushFailure` are far from inductive.  `IInv`
adds what makes them so: `Overlaps` (of two reloads that run beside each other
both are marked, and so is a flush beside a reload), which gives a call that is
not marked the map and the configuration for itself; `Progress`, the stages of
such a reload (every configured name has a cache or is still to be treated; when
it wipes, all have one, and all else was there when the range began); `Agreed`,
which is `Settled` while no reload is beyond loading; and `Flushing` (a lone
flush treats configured names).  `ServedFromOneCache` needs that a wired name is
registered as long as the process runs, so that whoever is about to store a
cache does so under another name (`OneCache`).  Of a list of proxies with one
name the first is taken; that there is a first is the well-founded induction of
the library (`Least`).

### The list of descendants and the priming of tiles

| Theorem (`TileJobsProofs`) | Says |
|---|---|
| `JobInvariant` | `Spec => []JobInv` |
| `JobTypeCorrect` | `Spec => []TypeOK`: what is listed, queued, worked on or cached is a descendant |
| `NeverSendsOnClosed` | `Spec => []NoSendOnClosed` |
| `LosesAtMostOne` | `Spec => []AtMostLastTileLost` |
| `ReportsAreTrue` | `Spec => []ReportIsTrue` |
| `WorkersAreGone` | `Spec => []NoWorkerOutlivesHandler` |
| `EmptyTileHidesReport` | `Spec => []ReportLostToEmptyTile` |

They hold for any tile, any depth, any workers and any tiles that are empty
upstream; assumed is `DeepAssumption` alone (the root is a tile, "nothing" is
none, and a torn list is not a missing one).

What makes `wg` count the goroutines is that each tile is handed over once, and
that is a fact about arithmetic: a tile of a level below the root has exactly one
parent in the level above (`OneParent`, by halving coordinates), four children
(`FourChildren`), and the squares of side 2^k are the levels (`ChildrenOfLevel`,
`ParentLevel`).  `DeepInv` therefore says that what was spawned is the root and
children of tiles whose goroutine has spawned (`SpawnedInOrder`), that nothing is
at the same time still to be sent and received (`HandedOverOnce`), and that the
counter is the number of goroutines (`Counted`).  When it is zero nobody sends,
and if a descendant were missing there would be a topmost one, whose parent was
received and has spawned it: `ClosedIsComplete`, by the least number of levels
below the root.  What the slice lacks is then what the collector has in hand, at most
one tile.

`JobInv` adds the pool: a listed tile is in one place at most (waiting to be
submitted, in the channel, with one worker, treated; one whose URL cannot be
parsed is in none), each worker that gave up failed a tile of its own
(`EachFailedOne`: as long as there are jobs, at least as many tiles were treated
and not cached as workers have ended), and when the handler has answered, the
report is the verdict over these sets (`Reported`).

### The packet and what clients receive

| Theorem (`DeliveryProofs`) | Says | Hypothesis |
|---|---|---|
| `CodecRoundTrips` | `Spec => []RoundTrip` | |
| `DeliveryInvariant` | `Spec => []DeliveryInv` | `Fitting` |
| `DeliveryTypeCorrect` | `Spec => []TypeOK` | `Fitting` |
| `CacheRepeats` | `Spec => []HitRepeats` | `Fitting` |
| `EmptyIsNoContent` | `Spec => []EmptyMeansNoContent` | `Fitting` |
| `HeadersAreNeverPulled` | `Spec => []HeadersNeverPulled`: the promise of `pull_headers` is never kept | `Fitting` |

They hold for any base (256 is one), any finite set of header names, any values,
bodies and answers that are sequences of bytes, and any number of clients.
`CodecRoundTrips` says for every tile and every headers, fitting or not, and for
every order in which Go visits the map, that the packet decodes to what was
encoded exactly if all numbers fit their fields.  `Fitting` says that they do, of
the answers the upstream gives and of fasthttp's default header: bodies below
4 GiB, names and values below 64 KiB.  `encode.go` checks neither, and
`CodecRoundTrips` says that whatever is beyond does not come back as it was.

**Argument.**  `Put` writes a number digit by digit and `Number` reads it back:
`NumberPut` gives the remainder by `Weight[n]`, from division with remainder and
one more digit at a time (`OneDigitMore`).  The lines of the headers stand in the
packet one behind the other (`LinesAre`, `LineIs`); after any number of rounds the
reader is at the next line and knows the headers before it (`RoundReads`,
`HeadersRead`), provided that each field fits.  An order of the names visits them
all, because an injective sequence of as many names as there are is surjective
(`OrdersAre`).  In the other direction, what does not fit is read back smaller:
the tile, the number of headers, or a header's length (`DecodeLoses`).  The
functions that `Packet` defines by recursion on numbers are reasoned about by
induction over the set of numbers for which a fact holds (`InductiveSet`, from the
library's well-founded induction), and exist by the same argument
(`RecursionDefines`).

`DeliveryInv` says where things come from: a reply is what the client's own result
calls for or a 200 with a tile that another client was answered with; what waits
to be stored, and what is stored and passes `Validate`, is such a tile with the
headers that `PullHeaders` takes from an empty response.  The damage of stored
bytes keeps it because cut or changed bytes fail the checksum (`CutIsInvalid`,
`ChangedIsInvalid`), which the model assumes to be collision-free.

### What stays with TLC

Liveness (`EveryCallEnds`, `CallEnds`, `EveryCallAnswered`), which with `ENABLED`
is out of the prover's reach, and the runs that expect a violation.

The induction theorems of the library take an operator as a parameter, which the
provers cannot instantiate.  Where a recursive function has to be followed, a set
takes the place of the operator (`InductiveSet`), and what is needed of powers of
two comes from counting subsets (`PowerCounts`, `PowerDoubles`).

## 5. Plan

Everything the inventory calls hard is modelled, and every safety property is
proved.  What is left:

1. discharge from `ConfigUsable` what `Lod` assumes of a configuration (a cache
   level for each proxy), so that the two are joined by a theorem instead of prose;
2. a bound on stampedes that counts only the `Forget`s since the call began;
3. the rest of the fields' limits: which replies differ, and how, when a tile does
   not satisfy `Fitting`.

### Not modelled

* **Torn reads.**  `config.capabilities` and `cache.Caches` are read and written
  without a lock.  A read is taken to return what was there before or after a
  write, and what Go's runtime makes of concurrent map accesses is `Die`.
* **TOML decoding, environment variables, HTTP download of the file.**  Libraries;
  a file that cannot be read or decoded is the answer "unreadable".
* **URLs and keys as text** (`BuildTileUrl`, `BuildCacheKey`): one key per tile
  and proxy, or one for several proxies.
* **`Tile.Bounds`, `DeepIntersect`.**  Floating-point geometry without a caller.
* **The hit rate** of a proxy without lookups is 0/0, which JSON cannot encode
  (`cache.go:220`); the counters are modelled, the quotient is not.
* **An invalidation that fails** is counted as succeeded (`admin/cache.go:79`).
  The model counts it so too; no document says otherwise, so no property does.
* **Compression, request ids, logging, flags, statistics as JSON:** they keep no
  state that outlives a call.
