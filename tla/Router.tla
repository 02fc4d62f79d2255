------------------------------- MODULE Router -------------------------------
(***************************************************************************)
(* The routes that handlers.Wire, admin.Wire and proxy.Wire register when  *)
(* the process starts, and how fiber finds its way through them.  A path   *)
(* is a sequence of segments, each a sequence of pieces like a name, then  *)
(* a leaf: the fixed end of an admin path, or "tile" for /:z/:x/:y.*       *)
(***************************************************************************)
EXTENDS ConfigRules

CONSTANT AdminName      \* the segment "admin"

ASSUME AdminAssumption == AdminName \in Seq(STRING)

\* A request, seen from the router.
Request(preflight, path, endpoint, leaf, bearer, query) ==
    [preflight |-> preflight, path |-> path, endpoint |-> endpoint, leaf |-> leaf,
     bearer |-> bearer, query |-> query]

InstanceLeaves(c) ==
    {"status", "monitor", "capabilities", "reload", "stats", "flush"}
      \cup (IF c.metrics THEN {"prometheus"} ELSE {})

NamedLeaves == {"stats", "flush", "invalidate", "invalidateDeep", "prime", "primeDeep"}

-----------------------------------------------------------------------------
(***************************************************************************)
(* Routes are tried in the order of registration: by part of the program,  *)
(* then by proxy, then by line.  Middleware passes a request on unless it  *)
(* says otherwise; a handler ends it.                                      *)
(***************************************************************************)
Middleware(at, path, does, arg) ==
    [at |-> at, use |-> TRUE, path |-> path, does |-> does, arg |-> arg,
     leaf |-> "any", endpoint |-> FALSE]

Handler(at, path, endpoint, leaf, arg) ==
    [at |-> at, use |-> FALSE, path |-> path, does |-> "handle", arg |-> arg,
     leaf |-> leaf, endpoint |-> endpoint]

Before(a, b) ==
    \/ a[1] < b[1]
    \/ a[1] = b[1] /\ a[2] < b[2]
    \/ a[1] = b[1] /\ a[2] = b[2] /\ a[3] < b[3]

Origins(p) == IF p.cors = NoText THEN "*" ELSE p.cors

\* The admin group, if it is not disabled.
InstanceRoutes(c) ==
    {Middleware(<<1, 0, 1>>, <<AdminName>>, "cors", "*")}
    \cup {Middleware(<<1, 0, 2>>, <<AdminName>>, "bearer", token) :
            token \in {c.adminToken} \ {NoText}}
    \cup {Handler(<<1, 0, 3>>, <<AdminName>>, FALSE, leaf, 0) : leaf \in InstanceLeaves(c)}

\* Faulty variant: all cache name middleware first, then the endpoints.
NamedRoutesHoisted(c, i) ==
    LET p == c.proxies[i]
    IN  {Middleware(<<1, 0, 3 + i>>, <<AdminName, p.name>>, "name", p.name)}
        \cup {Handler(<<1, i, 2>>, <<AdminName, p.name>>, p.endpoint, leaf, i) :
                leaf \in NamedLeaves}

\* The endpoints of one proxy within the admin group.
NamedRoutes(c, i) ==
    LET p == c.proxies[i]
    IN  {Middleware(<<1, i, 1>>, <<AdminName, p.name>>, "name", p.name)}
        \cup {Handler(<<1, i, 2>>, <<AdminName, p.name>>, p.endpoint, leaf, i) :
                leaf \in NamedLeaves}

\* Faulty variant: the access check is registered after the handler.
ProxyRoutesUnguarded(c, i) ==
    LET p == c.proxies[i]
    IN  {Middleware(<<2, i, 1>>, <<>>, "cors", Origins(p))}
        \cup {Handler(<<2, i, 2>>, <<p.name>>, p.endpoint, "tile", i)}
        \cup {Middleware(<<2, i, 3>>, <<p.name>>, "query", token) : token \in {p.token} \ {NoText}}

\* Faulty variant: CORS is configured when the handler is in place.
ProxyRoutesLateCors(c, i) ==
    LET p == c.proxies[i]
    IN  {Middleware(<<2, i, 2>>, <<p.name>>, "query", token) : token \in {p.token} \ {NoText}}
        \cup {Handler(<<2, i, 3>>, <<p.name>>, p.endpoint, "tile", i)}
        \cup {Middleware(<<2, i, 4>>, <<>>, "cors", Origins(p))}

\* Faulty variant: the access check is wired like CORS, for the whole application.
ProxyRoutesAppWide(c, i) ==
    LET p == c.proxies[i]
    IN  {Middleware(<<2, i, 1>>, <<>>, "cors", Origins(p))}
        \cup {Middleware(<<2, i, 2>>, <<>>, "query", token) : token \in {p.token} \ {NoText}}
        \cup {Handler(<<2, i, 3>>, <<p.name>>, p.endpoint, "tile", i)}

\* wireProxy: CORS for the whole application, the access check and the handler
\* for the proxy's own group.
ProxyRoutes(c, i) ==
    LET p == c.proxies[i]
    IN  {Middleware(<<2, i, 1>>, <<>>, "cors", Origins(p))}
        \cup {Middleware(<<2, i, 2>>, <<p.name>>, "query", token) : token \in {p.token} \ {NoText}}
        \cup {Handler(<<2, i, 3>>, <<p.name>>, p.endpoint, "tile", i)}

\* handlers.Wire.
Routes(c) ==
    (IF c.adminDisabled THEN {}
       ELSE InstanceRoutes(c) \cup (UNION {NamedRoutes(c, i) : i \in DOMAIN c.proxies}))
    \cup (UNION {ProxyRoutes(c, i) : i \in DOMAIN c.proxies})
    \cup {Middleware(<<3, 0, 0>>, <<>>, "notFound", 0)}

-----------------------------------------------------------------------------
(***************************************************************************)
(* fiber's matching.  The path of a Use is compared as text, so that its   *)
(* last segment may end within one of the request's.                       *)
(***************************************************************************)
Begins(a, b) == Len(a) <= Len(b) /\ \A i \in 1..Len(a) : a[i] = b[i]

PathBegins(prefix, path) ==
    prefix # <<>> =>
        LET n == Len(prefix)
        IN  /\ n <= Len(path)
            /\ \A i \in 1..(n - 1) : prefix[i] = path[i]
            /\ Begins(prefix[n], path[n])

Matches(rt, q) ==
    IF rt.use THEN PathBegins(rt.path, q.path)
    ELSE /\ ~q.preflight
         /\ rt.path = q.path
         /\ rt.leaf = q.leaf
         /\ rt.endpoint = q.endpoint

\* Whether a matching route keeps the request to itself.
Ends(rt, q) ==
    \/ rt.does \in {"handle", "notFound"}
    \/ rt.does = "bearer" /\ q.bearer # rt.arg
    \/ rt.does = "query" /\ q.query # rt.arg
    \/ rt.does = "cors" /\ q.preflight

\* Where the request ends: at the first route that keeps it.
EndsAt(c, q) ==
    LET ending == {rt \in Routes(c) : Matches(rt, q) /\ Ends(rt, q)}
    IN  {rt \in ending : \A other \in ending : ~Before(other.at, rt.at)}

\* The route of a kind that saw the request last before it ended at rt.
SawLast(c, q, rt, does) ==
    LET seen == {m \in Routes(c) : m.does = does /\ Matches(m, q) /\ Before(m.at, rt.at)}
    IN  {last \in seen : \A other \in seen : ~Before(last.at, other.at)}

-----------------------------------------------------------------------------
(***************************************************************************)
(* A handler runs only for requests that carry the token it asks for.      *)
(***************************************************************************)
TokenGuards(c, q) ==
    \A rt \in EndsAt(c, q) : rt.does = "handle" =>
        IF rt.leaf = "tile"
          THEN c.proxies[rt.arg].token \in {NoText, q.query}
          ELSE c.adminToken \in {NoText, q.bearer}

(***************************************************************************)
(* A tile request is handled by a proxy of the name in its path, and a     *)
(* named admin handler finds that name in the request's locals, although   *)
(* groups of names that begin like it have set theirs on the way.          *)
(***************************************************************************)
RightGroup(c, q) ==
    \A rt \in EndsAt(c, q) : rt.does = "handle" =>
        /\ rt.leaf = "tile" => q.path = <<c.proxies[rt.arg].name>>
        /\ Len(q.path) = 2 => {last.arg : last \in SawLast(c, q, rt, "name")} = {q.path[2]}

(***************************************************************************)
(* A tile is sent with the origins its own proxy allows, although the      *)
(* CORS middleware of every proxy sees the requests of all later ones.     *)
(***************************************************************************)
OwnOrigins(c, q) ==
    \A rt \in EndsAt(c, q) : rt.leaf = "tile" =>
        {last.arg : last \in SawLast(c, q, rt, "cors")} = {Origins(c.proxies[rt.arg])}

(***************************************************************************)
(* A tile request that has the token of every proxy of the name it asks.   *)
(***************************************************************************)
HasOwnToken(c, q) ==
    /\ Len(q.path) = 1
    /\ \A i \in DOMAIN c.proxies :
          <<c.proxies[i].name>> = q.path => c.proxies[i].token \in {NoText, q.query}

(***************************************************************************)
(* Such a request is turned away only on behalf of a group whose name      *)
(* begins the name in the path.                                            *)
(***************************************************************************)
RefusedByPrefix(c, q) ==
    \A rt \in EndsAt(c, q) :
        rt.does \in {"bearer", "query"} /\ HasOwnToken(c, q) =>
           /\ rt.path # <<>>
           /\ Begins(rt.path[1], q.path[1])
           /\ \/ rt.path[1] = AdminName
              \/ rt.path[1] # q.path[1]

(***************************************************************************)
(* No other proxy's token is asked of it: what the README promises and     *)
(* RefusedByPrefix bounds the failure of.                                  *)
(***************************************************************************)
OwnTokenSuffices(c, q) ==
    HasOwnToken(c, q) /\ (\E i \in DOMAIN c.proxies : <<c.proxies[i].name>> = q.path) =>
        \A rt \in EndsAt(c, q) : rt.does # "query"
=============================================================================
