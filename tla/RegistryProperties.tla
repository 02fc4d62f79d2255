------------------------- MODULE RegistryProperties -------------------------
(***************************************************************************)
(* What holds of the configuration, the routes and the registry of caches  *)
(* while reloads and flushes run beside each other.                        *)
(***************************************************************************)
EXTENDS Registry

CONSTANT Requests       \* requests that the routes are judged by

ASSUME RequestsAssumption == \A q \in Requests : q.path \in Seq(Seq(STRING))

Labels == {"idle", "load", "init", "next", "open", "register", "store", "wipe", "flush"}

IsAnswer(a) ==
    \/ a.status = "ok" /\ a.error = "none"
    \/ a.status = "notFound" /\ a.error = "none" /\ a.call = "flush"
    \/ /\ a.status = "failed" /\ a.call = "reload"
       /\ a.error \in ErrorKinds \cup {"unreadable", "ErrBuildInstance"}
    \/ a.status = "panic" /\ a.error \in {"duplicate metrics", "nil cache", "no name"}

IsInstance(k) ==
    /\ DOMAIN k = {"settings", "builder"}
    /\ k.settings.name \in Names
    /\ k.builder \in {"boot", "reload"}

(***************************************************************************)
(* The variables have their types; every tile handler was given a cache    *)
(* when its route was wired (proxy.go:25), a call holds a proxy just while *)
(* BuildInstance runs, and a refused file is answered with its error.      *)
(***************************************************************************)
TypeOK ==
    /\ up \in BOOLEAN
    /\ up => config # None /\ wired # None /\ DOMAIN serving = DOMAIN wired.proxies
    /\ \A i \in DOMAIN serving : serving[i] # None /\ IsInstance(serving[i])
    /\ DOMAIN caches = Names
    /\ \A n \in Cached : IsInstance(caches[n]) /\ caches[n].settings.name = n
    /\ registered \subseteq Names
    /\ pc \in [Calls -> Labels]
    /\ \A c \in Calls :
          /\ \A i \in DOMAIN todo[c] : todo[c][i] \in Names
          /\ (building[c] # None) = (pc[c] \in {"open", "register", "store"})
          /\ keep[c] \subseteq Names /\ doomed[c] \subseteq Names
          /\ answer[c] # None => IsAnswer(answer[c])
    /\ started \in 0..MaxCalls
    /\ overlapped \in [Calls -> BOOLEAN]
    /\ spoiled \in BOOLEAN

(***************************************************************************)
(* Whatever file is loaded, at the start or by a reload, the configuration *)
(* in force is one the rest of LOD can work with: no rule is skipped, for  *)
(* no proxy of the file, and the defaults fit (config.go:229).             *)
(***************************************************************************)
ConfigUsable == up => Usable(config)

(***************************************************************************)
(* A tile handler keeps the cache it was wired with (proxy.go:25).  As     *)
(* long as the registry has one of that name it is that very cache, so     *)
(* that invalidations, priming and flushes reach the tiles the handler     *)
(* serves and agree with it on the key template; it has the settings of    *)
(* the handler unless two proxies share the name.                          *)
(***************************************************************************)
ServedFromOneCache ==
    \A i \in DOMAIN serving :
        LET p == wired.proxies[i]
        IN  /\ caches[p.name] \in {None, serving[i]}
            /\ serving[i].settings = FirstNamed(wired, p.name)

(***************************************************************************)
(* Between reloads the registry holds exactly the configured proxies,      *)
(* unless a reload has failed after it replaced the configuration, or two  *)
(* have overlapped (reload.go:16, cache.go:76).                            *)
(***************************************************************************)
Settled ==
    up /\ ~spoiled /\ (\A c \in Calls : ~Reloading(c)) => Cached = NamesIn(config)

(***************************************************************************)
(* A name whose cache was deleted never has one again in this process,     *)
(* whatever is loaded: its metrics stay registered (cache.go:189).  That   *)
(* is a fault, which ReloadPicksUpProxies shows; this says how long it     *)
(* lasts, and that no order of calls brings two caches of one name about.  *)
(***************************************************************************)
Removed(n) ==
    /\ n \in registered /\ caches[n] = None
    /\ \A c \in Calls : pc[c] = "store" => building[c].name # n

RemovedStaysRemoved == [][\A n \in Names : Removed(n) /\ up' => Removed(n)']_vars

(***************************************************************************)
(* A flush finds a configured proxy without a cache only beside a reload   *)
(* or after one that failed or overlapped another (flush.go:17).           *)
(***************************************************************************)
FlushFailure ==
    \A c \in Calls :
        answer[c] # None /\ answer[c].call = "flush" /\ answer[c].error = "nil cache"
          => spoiled \/ overlapped[c]

(***************************************************************************)
(* The routes of a process that has just started, judged by all requests.  *)
(***************************************************************************)
Booted == ~up /\ up'

\* Handlers run only with the token they ask for (middleware.go:71).
EveryTokenGuards == [][Booted => \A q \in Requests : TokenGuards(wired', q)]_vars

\* Handlers serve the proxy whose name the path has (admin/wire.go:61).
EveryRightGroup == [][Booted => \A q \in Requests : RightGroup(wired', q)]_vars

\* Tiles are sent with the origins of their own proxy (middleware.go:40).
EveryOwnOrigins == [][Booted => \A q \in Requests : OwnOrigins(wired', q)]_vars

\* The right token is refused (see OwnTokenIsEnough), but on behalf of a group
\* whose name begins the name in the path and of no other (proxy/wire.go:33).
EveryRefusedByPrefix == [][Booted => \A q \in Requests : RefusedByPrefix(wired', q)]_vars

(***************************************************************************)
(* Every flush is answered, and every reload that has its file, beside     *)
(* whatever other calls, one of which may hang in Load (config.go:171).    *)
(***************************************************************************)
EveryCallAnswered ==
    \A c \in Calls : (pc[c] \notin {"idle", "load"}) ~> (pc[c] = "idle")

-----------------------------------------------------------------------------
(***************************************************************************)
(* Statements of the repository that the code does not keep.               *)
(***************************************************************************)

\* A reload ends that ran alone and was not told that its file or Redis is bad.
ReloadsAlone(c) ==
    /\ up /\ up'
    /\ Reloading(c) /\ pc'[c] = "idle"
    /\ ~overlapped[c]
    /\ answer'[c].status # "failed"

(***************************************************************************)
(* reload.go:12: "ReloadCapabilities performs a config reload, picking up  *)
(* any changes to the instance capabilities configuration": proxies that   *)
(* the file adds or drops, here.                                           *)
(***************************************************************************)
ReloadPicksUpProxies ==
    [][\A c \in Calls : ReloadsAlone(c) => Cached' = NamesIn(config)']_vars

(***************************************************************************)
(* README.md:112: "Separate authentication (bearer tokens and CORS)" for   *)
(* the configured proxies: the token of the proxy is all one needs.        *)
(***************************************************************************)
OwnTokenIsEnough == up => \A q \in Requests : OwnTokenSuffices(wired, q)
=============================================================================
