------------------------------ MODULE Registry ------------------------------
(***************************************************************************)
(* The configuration in force and the caches built from it, from start to  *)
(* end of the process: cmd/lod/main.go boots, admin/reload.go loads and    *)
(* calls cache.Init, admin/flush.go looks caches up.  Calls of these       *)
(* endpoints run concurrently and share config.capabilities, cache.Caches  *)
(* and the Prometheus registry, none of them guarded by a lock of LOD's.   *)
(* One step is one access to them.                                         *)
(***************************************************************************)
EXTENDS Router

CONSTANTS
    Files,          \* what the configuration file may hold
    Names,          \* the names of proxies in them
    Calls,          \* goroutines that serve a call of reload or flush
    MaxCalls,       \* bound: how many such calls begin in one life of the process
    None            \* no cache, no configuration, no answer

ASSUME FilesAssumption ==
    /\ Files \subseteq RawConfigs
    /\ \A f \in Files : Accepted(f) => NamesIn(f) \subseteq Names
    /\ MaxCalls \in Nat

VARIABLES
    up,             \* whether the process serves
    config,         \* config.capabilities
    wired,          \* the configuration the routes were built from
    serving,        \* serving[i]: the cache that tile handler i was given
    caches,         \* cache.Caches
    registered,     \* names whose metrics are registered
    pc,             \* where each call is
    todo,           \* names a call has yet to treat
    building,       \* the proxy that BuildInstance works on
    keep,           \* names that WipeOldCaches found in the configuration
    doomed,         \* other names in the map when it began to range over it
    answer,         \* what a call answered
    started,        \* calls begun since the process booted
    overlapped,     \* history: a reload ran beside the call
    spoiled         \* history: a reload failed in Init or overlapped another

regVars == <<up, config, wired, serving, caches, registered>>
callVars == <<pc, todo, building, keep, doomed, answer>>
history == <<started, overlapped, spoiled>>
vars == <<regVars, callVars, history>>

\* BuildInstance takes the first proxy of a name.
FirstNamed(c, n) ==
    c.proxies[CHOOSE i \in DOMAIN c.proxies :
                /\ c.proxies[i].name = n
                /\ \A j \in DOMAIN c.proxies : c.proxies[j].name = n => i <= j]

\* A cache instance, built at the start or by a reload.
NewCache(p, builder) == [settings |-> p, builder |-> builder]

\* The proxies a configuration in force may have.
Settings ==
    UNION {{Effective(f).proxies[i] : i \in DOMAIN f.proxies} : f \in {g \in Files : Accepted(g)}}

ASSUME NoneAssumption ==
    /\ \A f \in Files : Effective(f) # None
    /\ \A p \in Settings :
          /\ p # None
          /\ \A b \in {"boot", "reload"} : NewCache(p, b) # None

NamesOf(c) == [i \in DOMAIN c.proxies |-> c.proxies[i].name]

Cached == {n \in Names : caches[n] # None}

Init ==
    /\ up = FALSE
    /\ config = None
    /\ wired = None
    /\ serving = <<>>
    /\ caches = [n \in Names |-> None]
    /\ registered = {}
    /\ pc = [c \in Calls |-> "idle"]
    /\ todo = [c \in Calls |-> <<>>]
    /\ building = [c \in Calls |-> None]
    /\ keep = [c \in Calls |-> {}]
    /\ doomed = [c \in Calls |-> {}]
    /\ answer = [c \in Calls |-> None]
    /\ started = 0
    /\ overlapped = [c \in Calls |-> FALSE]
    /\ spoiled = FALSE

-----------------------------------------------------------------------------
\* Faulty variant: routes are wired before the caches are built.
BootUnbuilt ==
    /\ ~up
    /\ up' = TRUE
    /\ \E f \in {g \in Files : Accepted(g)} :
          LET c == Effective(f)
              built == [n \in Names |->
                          IF n \in NamesIn(c) THEN NewCache(FirstNamed(c, n), "boot") ELSE None]
          IN  /\ config' = c
              /\ caches' = built
              /\ registered' = NamesIn(c)
              /\ wired' = c
              /\ serving' = [i \in DOMAIN c.proxies |-> caches[c.proxies[i].name]]
    /\ UNCHANGED <<callVars, history>>

\* main: load, build all caches, wire the routes, serve.  Where one of these
\* fails the process exits and nothing has happened.
Boot ==
    /\ ~up
    /\ up' = TRUE
    /\ \E f \in {g \in Files : Accepted(g)} :
          LET c == Effective(f)
              built == [n \in Names |->
                          IF n \in NamesIn(c) THEN NewCache(FirstNamed(c, n), "boot") ELSE None]
          IN  /\ config' = c
              /\ caches' = built
              /\ registered' = NamesIn(c)
              /\ wired' = c
              /\ serving' = [i \in DOMAIN c.proxies |-> built[c.proxies[i].name]]
    /\ UNCHANGED <<callVars, history>>

\* The process is killed, or dies of the runtime's "concurrent map writes".
Die ==
    /\ up
    /\ up' = FALSE
    /\ config' = None
    /\ wired' = None
    /\ serving' = <<>>
    /\ caches' = [n \in Names |-> None]
    /\ registered' = {}
    /\ pc' = [c \in Calls |-> "idle"]
    /\ todo' = [c \in Calls |-> <<>>]
    /\ building' = [c \in Calls |-> None]
    /\ keep' = [c \in Calls |-> {}]
    /\ doomed' = [c \in Calls |-> {}]
    /\ answer' = [c \in Calls |-> None]
    /\ started' = 0
    /\ overlapped' = [c \in Calls |-> FALSE]
    /\ spoiled' = FALSE

-----------------------------------------------------------------------------
Goto(c, label) == pc' = [pc EXCEPT ![c] = label]

Reloading(c) == pc[c] \notin {"idle", "flush"}

\* The handler returns or panics, and what it held in variables is gone.
Finish(c, call, status, error) ==
    /\ answer' = [answer EXCEPT ![c] = [call |-> call, status |-> status, error |-> error]]
    /\ Goto(c, "idle")
    /\ todo' = [todo EXCEPT ![c] = <<>>]
    /\ building' = [building EXCEPT ![c] = None]
    /\ keep' = [keep EXCEPT ![c] = {}]
    /\ doomed' = [doomed EXCEPT ![c] = {}]

\* The routes have a handler for an admin request with the token it asks for.
Reaches(path, leaf) ==
    \E endpoint \in BOOLEAN :
        LET q == Request(FALSE, path, endpoint, leaf, wired.adminToken, NoText)
        IN  \E rt \in EndsAt(wired, q) : rt.does = "handle"

Begin(c, path, leaf) ==
    /\ up
    /\ pc[c] = "idle"
    /\ started < MaxCalls
    /\ Reaches(path, leaf)
    /\ started' = started + 1

BeginReload(c) ==
    /\ Begin(c, <<AdminName>>, "reload")
    /\ Goto(c, "load")
    /\ answer' = [answer EXCEPT ![c] = None]
    /\ overlapped' = [d \in Calls |->
          IF d = c THEN \E e \in Calls : Reloading(e)
          ELSE overlapped[d] \/ pc[d] # "idle"]
    /\ UNCHANGED <<regVars, todo, building, keep, doomed, spoiled>>

\* Faulty variant: validation ends with the first proxy.
LoadFirstOnly(c) ==
    /\ pc[c] = "load"
    /\ \E f \in Files :
          IF Len(f.proxies) > 0 /\ Broken(ProxyRules(f.proxies[1])) = {}
            THEN /\ config' = Effective(f)
                 /\ Goto(c, "init")
                 /\ UNCHANGED <<todo, building, keep, doomed, answer>>
            ELSE Finish(c, "reload", "failed", "refused") /\ UNCHANGED config
    /\ UNCHANGED <<up, wired, serving, caches, registered, history>>

\* config.Load: the file cannot be read or decoded, is refused, or is taken over.
Load(c) ==
    /\ pc[c] = "load"
    /\ \/ /\ Finish(c, "reload", "failed", "unreadable")
          /\ UNCHANGED config
       \/ \E f \in Files :
             IF Accepted(f)
               THEN /\ config' = Effective(f)
                    /\ Goto(c, "init")
                    /\ UNCHANGED <<todo, building, keep, doomed, answer>>
               ELSE Finish(c, "reload", "failed", Refusal(f)) /\ UNCHANGED config
    /\ UNCHANGED <<up, wired, serving, caches, registered, history>>

\* cache.Init ranges over the proxies that are configured when it begins.
BeginInit(c) ==
    /\ pc[c] = "init"
    /\ todo' = [todo EXCEPT ![c] = NamesOf(config)]
    /\ Goto(c, "next")
    /\ UNCHANGED <<regVars, building, keep, doomed, answer, history>>

\* A name that has a cache keeps it, whatever became of its settings.  For any
\* other, BuildInstance looks for the name in the configuration of the moment.
NextProxy(c) ==
    LET n == Head(todo[c])
    IN  /\ pc[c] = "next"
        /\ todo[c] # <<>>
        /\ todo' = [todo EXCEPT ![c] = Tail(@)]
        /\ IF caches[n] = None /\ n \in NamesIn(config)
             THEN building' = [building EXCEPT ![c] = FirstNamed(config, n)] /\ Goto(c, "open")
             ELSE UNCHANGED <<building, pc>>
        /\ UNCHANGED <<regVars, keep, doomed, answer, history>>

\* Faulty variant: a ping of Redis that fails is repeated.
OpenLevelsRepeats(c) ==
    /\ pc[c] = "open"
    /\ ~building[c].cache.redis
    /\ Goto(c, "register")
    /\ UNCHANGED <<regVars, todo, building, keep, doomed, answer, history>>

\* initInternal and initExternal, which waits for Redis to answer a ping.
OpenLevels(c) ==
    /\ pc[c] = "open"
    /\ \/ /\ Goto(c, "register")
          /\ UNCHANGED <<todo, building, keep, doomed, answer, spoiled>>
       \/ /\ Finish(c, "reload", "failed", "ErrBuildInstance")
          /\ spoiled' = TRUE
    /\ UNCHANGED <<regVars, started, overlapped>>

\* Faulty variant: metrics that exist already are used again.
RegisterAgain(c) ==
    /\ pc[c] = "register"
    /\ registered' = registered \cup {building[c].name}
    /\ Goto(c, "store")
    /\ UNCHANGED <<up, config, wired, serving, caches, todo, building, keep, doomed,
                   answer, history>>

\* promauto panics when a metric of that name and proxy exists.  The recover
\* middleware answers.
Register(c) ==
    /\ pc[c] = "register"
    /\ \/ /\ building[c].name \in registered
          /\ Finish(c, "reload", "panic", "duplicate metrics")
          /\ spoiled' = TRUE
          /\ UNCHANGED registered
       \/ /\ building[c].name \notin registered
          /\ registered' = registered \cup {building[c].name}
          /\ Goto(c, "store")
          /\ UNCHANGED <<todo, building, keep, doomed, answer, spoiled>>
    /\ UNCHANGED <<up, config, wired, serving, caches, started, overlapped>>

Store(c) ==
    /\ pc[c] = "store"
    /\ caches' = [caches EXCEPT ![building[c].name] = NewCache(building[c], "reload")]
    /\ building' = [building EXCEPT ![c] = None]
    /\ Goto(c, "next")
    /\ UNCHANGED <<up, config, wired, serving, registered, todo, keep, doomed, answer, history>>

\* WipeOldCaches reads the configuration once more, and ranges over the map.
BeginWipe(c) ==
    /\ pc[c] = "next"
    /\ todo[c] = <<>>
    /\ keep' = [keep EXCEPT ![c] = NamesIn(config)]
    /\ doomed' = [doomed EXCEPT ![c] = Cached \ NamesIn(config)]
    /\ Goto(c, "wipe")
    /\ UNCHANGED <<regVars, todo, building, answer, history>>

\* Faulty variant: the test is the wrong way round.
WipeConfigured(c) ==
    /\ pc[c] = "wipe"
    /\ \E n \in Cached \cap keep[c] : caches' = [caches EXCEPT ![n] = None]
    /\ UNCHANGED <<up, config, wired, serving, registered, callVars, history>>

Wipe(c) ==
    /\ pc[c] = "wipe"
    /\ \E n \in Cached \ keep[c] : caches' = [caches EXCEPT ![n] = None]
    /\ UNCHANGED <<up, config, wired, serving, registered, callVars, history>>

\* Faulty variant: old caches are not looked for.
EndReloadUnwiped(c) ==
    /\ pc[c] = "wipe"
    /\ spoiled' = (spoiled \/ overlapped[c])
    /\ Finish(c, "reload", "ok", "none")
    /\ UNCHANGED <<regVars, started, overlapped>>

\* What was there when the range began and is not configured is deleted; what
\* is stored meanwhile may or may not be visited.
EndReload(c) ==
    /\ pc[c] = "wipe"
    /\ doomed[c] \cap Cached = {}
    /\ spoiled' = (spoiled \/ overlapped[c])
    /\ Finish(c, "reload", "ok", "none")
    /\ UNCHANGED <<regVars, started, overlapped>>

-----------------------------------------------------------------------------
BeginAnyFlush(c) ==
    /\ overlapped' = [overlapped EXCEPT ![c] = \E d \in Calls : Reloading(d)]
    /\ UNCHANGED <<regVars, spoiled>>

WithNames(c, names) ==
    /\ todo' = [todo EXCEPT ![c] = names]
    /\ Goto(c, "flush")
    /\ answer' = [answer EXCEPT ![c] = None]
    /\ UNCHANGED <<building, keep, doomed>>

\* /admin/flush takes the names that are configured now.
BeginFlushAll(c) ==
    /\ Begin(c, <<AdminName>>, "flush")
    /\ WithNames(c, NamesOf(config))
    /\ BeginAnyFlush(c)

\* The same path with a slash at the end finds the same handler, which compares
\* it as text and then misses the name in the request's locals.
FlushAllBySlash(c) ==
    /\ Begin(c, <<AdminName>>, "flush")
    /\ Finish(c, "flush", "panic", "no name")
    /\ BeginAnyFlush(c)

\* /admin/<name>/flush takes the name, if it is configured now.
BeginFlush(c, n) ==
    /\ Begin(c, <<AdminName, n>>, "flush")
    /\ \/ n \in NamesIn(config) /\ WithNames(c, <<n>>)
       \/ n \notin NamesIn(config) /\ Finish(c, "flush", "notFound", "none")
    /\ BeginAnyFlush(c)

\* FlushInternal of a name without a cache dereferences nil.
FlushNext(c) ==
    /\ pc[c] = "flush"
    /\ todo[c] # <<>>
    /\ \/ /\ caches[Head(todo[c])] = None
          /\ Finish(c, "flush", "panic", "nil cache")
       \/ /\ caches[Head(todo[c])] # None
          /\ todo' = [todo EXCEPT ![c] = Tail(@)]
          /\ UNCHANGED <<pc, building, keep, doomed, answer>>
    /\ UNCHANGED <<regVars, history>>

EndFlush(c) ==
    /\ pc[c] = "flush"
    /\ todo[c] = <<>>
    /\ Finish(c, "flush", "ok", "none")
    /\ UNCHANGED <<regVars, history>>

-----------------------------------------------------------------------------
Step(c) ==
    \/ Load(c) \/ BeginInit(c) \/ NextProxy(c) \/ OpenLevels(c)
    \/ Register(c) \/ Store(c) \/ BeginWipe(c) \/ Wipe(c) \/ EndReload(c)
    \/ FlushNext(c) \/ EndFlush(c)

Next ==
    \/ Boot
    \/ Die
    \/ \E c \in Calls :
          \/ BeginReload(c)
          \/ BeginFlushAll(c)
          \/ FlushAllBySlash(c)
          \/ \E n \in Names : BeginFlush(c, n)
          \/ Step(c)

Spec == Init /\ [][Next]_vars

(***************************************************************************)
(* Goroutines that can run do, and Redis answers a ping or the client      *)
(* gives up, which go-redis does by itself.  Loading is left out: the file *)
(* may be a URL, and http.Get waits for its server without a limit         *)
(* (config.go:171).                                                        *)
(***************************************************************************)
Proceed(c) == pc[c] # "load" /\ Step(c)

FairSpec == Spec /\ \A c \in Calls : WF_vars(Proceed(c))
=============================================================================
