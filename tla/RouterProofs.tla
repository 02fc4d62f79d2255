---------------------------- MODULE RouterProofs ----------------------------
(***************************************************************************)
(* What Router states of a configuration and a request holds for all of    *)
(* them: any number of proxies, any names, tokens and origins.             *)
(***************************************************************************)
EXTENDS Router, TLAPS

\* A configuration whose proxies are listed and have names.
Named(c) ==
    /\ DOMAIN c.proxies \subseteq Nat \ {0}
    /\ \A i \in DOMAIN c.proxies : c.proxies[i].name \in Seq(STRING)

\* Names for the routes.
AdminCors == Middleware(<<1, 0, 1>>, <<AdminName>>, "cors", "*")
AdminCheck(c) == Middleware(<<1, 0, 2>>, <<AdminName>>, "bearer", c.adminToken)
AdminHandler(leaf) == Handler(<<1, 0, 3>>, <<AdminName>>, FALSE, leaf, 0)

NameMark(c, i) ==
    Middleware(<<1, i, 1>>, <<AdminName, c.proxies[i].name>>, "name", c.proxies[i].name)
NamedHandler(c, i, leaf) ==
    Handler(<<1, i, 2>>, <<AdminName, c.proxies[i].name>>, c.proxies[i].endpoint, leaf, i)

TileCors(c, i) == Middleware(<<2, i, 1>>, <<>>, "cors", Origins(c.proxies[i]))
TileCheck(c, i) ==
    Middleware(<<2, i, 2>>, <<c.proxies[i].name>>, "query", c.proxies[i].token)
TileHandler(c, i) ==
    Handler(<<2, i, 3>>, <<c.proxies[i].name>>, c.proxies[i].endpoint, "tile", i)

NotFound == Middleware(<<3, 0, 0>>, <<>>, "notFound", 0)

-----------------------------------------------------------------------------
(***************************************************************************)
(* Which routes there are.                                                 *)
(***************************************************************************)

\* A middleware has the parts it was wired with, and no leaf.
LEMMA MiddlewareParts ==
    ASSUME NEW at, NEW path, NEW does, NEW arg, NEW m,
           m = Middleware(at, path, does, arg)
    PROVE  m.use /\ m.at = at /\ m.path = path /\ m.does = does /\ m.arg = arg
           /\ m.leaf = "any"
BY DEF Middleware

\* So has a handler.
LEMMA HandlerParts ==
    ASSUME NEW at, NEW path, NEW endpoint, NEW leaf, NEW arg, NEW h,
           h = Handler(at, path, endpoint, leaf, arg)
    PROVE  ~h.use /\ h.at = at /\ h.path = path /\ h.does = "handle" /\ h.arg = arg
           /\ h.leaf = leaf
BY DEF Handler

\* A route is registered by the admin group, for a proxy in it, for a proxy's
\* tiles, or at the end.
LEMMA RouteGroups ==
    ASSUME NEW c, NEW rt \in Routes(c)
    PROVE  \/ ~c.adminDisabled /\ rt \in InstanceRoutes(c)
           \/ ~c.adminDisabled /\ \E i \in DOMAIN c.proxies : rt \in NamedRoutes(c, i)
           \/ \E i \in DOMAIN c.proxies : rt \in ProxyRoutes(c, i)
           \/ rt = NotFound
<1> DEFINE named == UNION {NamedRoutes(c, i) : i \in DOMAIN c.proxies}
           tiles == UNION {ProxyRoutes(c, i) : i \in DOMAIN c.proxies}
<1>1. Routes(c) = (IF c.adminDisabled THEN {} ELSE InstanceRoutes(c) \cup named)
                    \cup tiles \cup {NotFound}
    BY DEF Routes, NotFound
<1>2. rt \in named => \E i \in DOMAIN c.proxies : rt \in NamedRoutes(c, i)
    OBVIOUS
<1>3. rt \in tiles => \E i \in DOMAIN c.proxies : rt \in ProxyRoutes(c, i)
    OBVIOUS
<1> HIDE DEF named, tiles
<1>4. \/ ~c.adminDisabled /\ (rt \in InstanceRoutes(c) \/ rt \in named)
      \/ rt \in tiles
      \/ rt = NotFound
    BY <1>1
<1> QED
    BY <1>2, <1>3, <1>4

\* The routes of the admin group.
LEMMA InstanceKinds ==
    ASSUME NEW c, NEW rt \in InstanceRoutes(c)
    PROVE  \/ rt = AdminCors
           \/ c.adminToken # NoText /\ rt = AdminCheck(c)
           \/ \E leaf \in InstanceLeaves(c) : rt = AdminHandler(leaf)
BY DEF InstanceRoutes, AdminCors, AdminCheck, AdminHandler

\* The routes of one proxy in it.
LEMMA NamedKinds ==
    ASSUME NEW c, NEW i, NEW rt \in NamedRoutes(c, i)
    PROVE  \/ rt = NameMark(c, i)
           \/ \E leaf \in NamedLeaves : rt = NamedHandler(c, i, leaf)
BY DEF NamedRoutes, NameMark, NamedHandler

\* The routes of a proxy's tiles.
LEMMA ProxyKinds ==
    ASSUME NEW c, NEW i, NEW rt \in ProxyRoutes(c, i)
    PROVE  \/ rt = TileCors(c, i)
           \/ c.proxies[i].token # NoText /\ rt = TileCheck(c, i)
           \/ rt = TileHandler(c, i)
BY DEF ProxyRoutes, TileCors, TileCheck, TileHandler

\* All routes, one by one.
LEMMA RouteKinds ==
    ASSUME NEW c, NEW rt \in Routes(c)
    PROVE  \/ rt = NotFound
           \/ /\ ~c.adminDisabled
              /\ \/ rt = AdminCors
                 \/ c.adminToken # NoText /\ rt = AdminCheck(c)
                 \/ \E leaf \in InstanceLeaves(c) : rt = AdminHandler(leaf)
                 \/ \E i \in DOMAIN c.proxies :
                       \/ rt = NameMark(c, i)
                       \/ \E leaf \in NamedLeaves : rt = NamedHandler(c, i, leaf)
           \/ \E i \in DOMAIN c.proxies :
                 \/ rt = TileCors(c, i)
                 \/ c.proxies[i].token # NoText /\ rt = TileCheck(c, i)
                 \/ rt = TileHandler(c, i)
<1>1. CASE ~c.adminDisabled /\ rt \in InstanceRoutes(c)
    BY <1>1, InstanceKinds
<1>2. CASE ~c.adminDisabled /\ \E i \in DOMAIN c.proxies : rt \in NamedRoutes(c, i)
    BY <1>2, NamedKinds
<1>3. CASE \E i \in DOMAIN c.proxies : rt \in ProxyRoutes(c, i)
    BY <1>3, ProxyKinds
<1> QED
    BY <1>1, <1>2, <1>3, RouteGroups

\* Conversely, the middleware is among the routes.
LEMMA RoutesWired ==
    ASSUME NEW c
    PROVE  /\ ~c.adminDisabled /\ c.adminToken # NoText => AdminCheck(c) \in Routes(c)
           /\ \A i \in DOMAIN c.proxies :
                 /\ ~c.adminDisabled => NameMark(c, i) \in Routes(c)
                 /\ TileCors(c, i) \in Routes(c)
                 /\ c.proxies[i].token # NoText => TileCheck(c, i) \in Routes(c)
<1>1. ~c.adminDisabled => InstanceRoutes(c) \subseteq Routes(c)
    BY DEF Routes
<1>2. c.adminToken # NoText => AdminCheck(c) \in InstanceRoutes(c)
    BY DEF InstanceRoutes, AdminCheck
<1>3. ASSUME NEW i \in DOMAIN c.proxies
      PROVE  /\ ~c.adminDisabled => NamedRoutes(c, i) \subseteq Routes(c)
             /\ ProxyRoutes(c, i) \subseteq Routes(c)
    BY DEF Routes
<1>4. ASSUME NEW i \in DOMAIN c.proxies
      PROVE  /\ NameMark(c, i) \in NamedRoutes(c, i)
             /\ TileCors(c, i) \in ProxyRoutes(c, i)
    BY DEF NamedRoutes, ProxyRoutes, NameMark, TileCors
<1>5. ASSUME NEW i \in DOMAIN c.proxies, c.proxies[i].token # NoText
      PROVE  TileCheck(c, i) \in ProxyRoutes(c, i)
    BY <1>5 DEF ProxyRoutes, TileCheck
<1> QED
    BY <1>1, <1>2, <1>3, <1>4, <1>5

\* A handler is that of an admin endpoint, of a proxy's, or of its tiles.
LEMMA HandlerKinds ==
    ASSUME NEW c, NEW rt \in Routes(c), rt.does = "handle"
    PROVE  \/ /\ ~c.adminDisabled
              /\ \/ \E leaf \in InstanceLeaves(c) : rt = AdminHandler(leaf)
                 \/ \E i \in DOMAIN c.proxies : \E leaf \in NamedLeaves :
                       rt = NamedHandler(c, i, leaf)
           \/ \E i \in DOMAIN c.proxies : rt = TileHandler(c, i)
<1>1. rt # NotFound /\ rt # AdminCors /\ rt # AdminCheck(c)
    BY MiddlewareParts DEF NotFound, AdminCors, AdminCheck
<1>2. ASSUME NEW i
      PROVE  rt # NameMark(c, i) /\ rt # TileCors(c, i) /\ rt # TileCheck(c, i)
    BY MiddlewareParts DEF NameMark, TileCors, TileCheck
<1> QED
    BY <1>1, <1>2, RouteKinds

-----------------------------------------------------------------------------
(***************************************************************************)
(* Where they stand, and which requests they are for.                      *)
(***************************************************************************)
Stands(rt, part, proxy, line) ==
    rt.at[1] = part /\ rt.at[2] = proxy /\ rt.at[3] = line

Starts(path, name) == Len(path) >= 1 /\ path[1] = name

\* The parts of the handlers.
LEMMA AdminHandlerParts ==
    ASSUME NEW leaf
    PROVE  /\ Stands(AdminHandler(leaf), 1, 0, 3)
           /\ AdminHandler(leaf).path = <<AdminName>>
           /\ Starts(AdminHandler(leaf).path, AdminName)
           /\ ~AdminHandler(leaf).use /\ AdminHandler(leaf).leaf = leaf
BY DEF AdminHandler, Handler, Stands, Starts

\* So does a handler of a proxy's admin endpoints.
LEMMA NamedHandlerParts ==
    ASSUME NEW c, NEW i, NEW leaf
    PROVE  /\ Stands(NamedHandler(c, i, leaf), 1, i, 2)
           /\ NamedHandler(c, i, leaf).path = <<AdminName, c.proxies[i].name>>
           /\ Starts(NamedHandler(c, i, leaf).path, AdminName)
           /\ ~NamedHandler(c, i, leaf).use
           /\ NamedHandler(c, i, leaf).leaf = leaf /\ NamedHandler(c, i, leaf).arg = i
BY DEF NamedHandler, Handler, Stands, Starts

\* So does a proxy's tile handler.
LEMMA TileHandlerParts ==
    ASSUME NEW c, NEW i
    PROVE  /\ Stands(TileHandler(c, i), 2, i, 3)
           /\ TileHandler(c, i).path = <<c.proxies[i].name>>
           /\ Starts(TileHandler(c, i).path, c.proxies[i].name)
           /\ ~TileHandler(c, i).use
           /\ TileHandler(c, i).leaf = "tile" /\ TileHandler(c, i).arg = i
BY DEF TileHandler, Handler, Stands, Starts

\* The parts of the middleware.
LEMMA AdminCheckParts ==
    ASSUME NEW c
    PROVE  /\ Stands(AdminCheck(c), 1, 0, 2)
           /\ AdminCheck(c).path = <<AdminName>>
           /\ AdminCheck(c).use
           /\ AdminCheck(c).does = "bearer" /\ AdminCheck(c).arg = c.adminToken
BY DEF AdminCheck, Middleware, Stands

\* So does the CORS middleware of the admin group.
LEMMA AdminCorsParts ==
    /\ Stands(AdminCors, 1, 0, 1) /\ AdminCors.use /\ AdminCors.does = "cors"
BY DEF AdminCors, Middleware, Stands

\* So does the middleware that marks requests with a name.
LEMMA NameMarkParts ==
    ASSUME NEW c, NEW i
    PROVE  /\ Stands(NameMark(c, i), 1, i, 1)
           /\ NameMark(c, i).path = <<AdminName, c.proxies[i].name>>
           /\ NameMark(c, i).use
           /\ NameMark(c, i).does = "name" /\ NameMark(c, i).arg = c.proxies[i].name
BY DEF NameMark, Middleware, Stands

\* So does a proxy's CORS middleware, which sees every path.
LEMMA TileCorsParts ==
    ASSUME NEW c, NEW i
    PROVE  /\ Stands(TileCors(c, i), 2, i, 1)
           /\ TileCors(c, i).path = <<>> /\ TileCors(c, i).use
           /\ TileCors(c, i).does = "cors" /\ TileCors(c, i).arg = Origins(c.proxies[i])
BY DEF TileCors, Middleware, Stands

\* So does a proxy's token check.
LEMMA TileCheckParts ==
    ASSUME NEW c, NEW i
    PROVE  /\ Stands(TileCheck(c, i), 2, i, 2)
           /\ TileCheck(c, i).path = <<c.proxies[i].name>>
           /\ TileCheck(c, i).use
           /\ TileCheck(c, i).does = "query" /\ TileCheck(c, i).arg = c.proxies[i].token
BY DEF TileCheck, Middleware, Stands

\* Routes are tried by part, proxy and line: the token check of a proxy is tried before its tile handler.
LEMMA CheckBeforeHandler ==
    ASSUME NEW m, NEW rt, NEW i \in Nat, Stands(m, 2, i, 2), Stands(rt, 2, i, 3)
    PROVE  Before(m.at, rt.at)
BY DEF Before, Stands

\* The admin group's token check is tried before its handlers and all later ones.
LEMMA AdminCheckFirst ==
    ASSUME NEW m, NEW rt, NEW k \in Nat, NEW l \in Nat, k > 0 \/ l > 2,
           Stands(m, 1, 0, 2), Stands(rt, 1, k, l)
    PROVE  Before(m.at, rt.at)
BY DEF Before, Stands

\* Its CORS middleware is tried before those of the proxies.
LEMMA AdminCorsFirst ==
    ASSUME NEW m, NEW rt, NEW i \in Nat, Stands(m, 1, 0, 1), Stands(rt, 2, i, 1)
    PROVE  Before(m.at, rt.at) /\ ~Before(rt.at, m.at)
BY DEF Before, Stands

\* What names and origins are set by is tried proxy by proxy, and so are the
\* handlers behind it.
LEMMA NamesInOrder ==
    ASSUME NEW c, NEW i \in Nat, NEW j \in Nat, NEW leaf
    PROVE  /\ Before(NameMark(c, j).at, NameMark(c, i).at) <=> j < i
           /\ Before(NameMark(c, j).at, NamedHandler(c, i, leaf).at) <=> j <= i
BY DEF Before, NameMark, NamedHandler, Middleware, Handler

\* So are the CORS middleware of two proxies.
LEMMA OriginsInOrder ==
    ASSUME NEW c, NEW i \in Nat, NEW j \in Nat
    PROVE  /\ Before(TileCors(c, j).at, TileCors(c, i).at) <=> j < i
           /\ Before(TileCors(c, j).at, TileHandler(c, i).at) <=> j <= i
BY DEF Before, TileCors, TileHandler, Middleware, Handler

-----------------------------------------------------------------------------
(***************************************************************************)
(* Order and matching.                                                     *)
(***************************************************************************)

\* A route that keeps a request to itself comes no later than where it ends.
LEMMA NoneBefore ==
    ASSUME NEW c, NEW q, NEW rt \in EndsAt(c, q), NEW other \in Routes(c),
           Matches(other, q), Ends(other, q)
    PROVE  ~Before(other.at, rt.at)
BY DEF EndsAt

\* The end of a request is a route that matches and keeps it.
LEMMA EndIsRoute ==
    ASSUME NEW c, NEW q, NEW rt \in EndsAt(c, q)
    PROVE  rt \in Routes(c) /\ Matches(rt, q) /\ Ends(rt, q)
BY DEF EndsAt

\* A request that a handler matches has its path.
LEMMA HandlerPath ==
    ASSUME NEW q, NEW rt, ~rt.use, Matches(rt, q)
    PROVE  q.path = rt.path
BY DEF Matches

\* A middleware for one segment matches what has this segment first.
LEMMA FirstSegmentMatches ==
    ASSUME NEW q, NEW m, NEW name \in Seq(STRING), m.use, m.path = <<name>>, Starts(q.path, name)
    PROVE  Matches(m, q)
<1>1. Begins(name, name)
    BY DEF Begins
<1>2. PathBegins(m.path, q.path)
    BY <1>1 DEF PathBegins, Starts
<1> QED
    BY <1>2 DEF Matches

-----------------------------------------------------------------------------
(***************************************************************************)
(* TokenGuards for any configuration: a handler runs only for a request    *)
(* that carries the token it asks for (middleware.go:71).                  *)
(***************************************************************************)
LEMMA TokensGuard ==
    ASSUME NEW c, Named(c), NEW q
    PROVE  TokenGuards(c, q)
<1> SUFFICES ASSUME NEW rt \in EndsAt(c, q), rt.does = "handle"
             PROVE  IF rt.leaf = "tile"
                      THEN c.proxies[rt.arg].token \in {NoText, q.query}
                      ELSE c.adminToken \in {NoText, q.bearer}
    BY DEF TokenGuards
<1>1. rt \in Routes(c) /\ Matches(rt, q)
    BY EndIsRoute
<1>2. ASSUME NEW i \in DOMAIN c.proxies, rt = TileHandler(c, i),
             c.proxies[i].token # NoText
      PROVE  c.proxies[i].token = q.query
    <2>1. Stands(rt, 2, i, 3) /\ Starts(q.path, c.proxies[i].name)
        <3>1. Stands(rt, 2, i, 3) /\ Starts(rt.path, c.proxies[i].name) /\ ~rt.use
            BY <1>2, TileHandlerParts
        <3>2. q.path = rt.path
            BY <1>1, <3>1, HandlerPath
        <3> QED
            BY <3>1, <3>2
    <2>2. Matches(TileCheck(c, i), q)
        BY <2>1, TileCheckParts, FirstSegmentMatches DEF Named
    <2>3. Before(TileCheck(c, i).at, rt.at)
        <3>1. Stands(TileCheck(c, i), 2, i, 2)
            BY TileCheckParts
        <3>2. i \in Nat
            BY DEF Named
        <3> QED
            BY <2>1, <3>1, <3>2, CheckBeforeHandler
    <2>4. TileCheck(c, i) \in Routes(c)
        BY <1>2, RoutesWired
    <2>5. ~Ends(TileCheck(c, i), q)
        BY <2>2, <2>3, <2>4, NoneBefore
    <2> QED
        BY <2>5, TileCheckParts DEF Ends
<1>3. ASSUME ~c.adminDisabled, c.adminToken # NoText, NEW k \in Nat, NEW l \in Nat,
             Stands(rt, 1, k, l), k > 0 \/ l > 2,
             Starts(q.path, AdminName)
      PROVE  c.adminToken = q.bearer
    <2>1. Matches(AdminCheck(c), q)
        BY <1>3, AdminCheckParts, AdminAssumption, FirstSegmentMatches
    <2>2. Before(AdminCheck(c).at, rt.at)
        <3>1. Stands(AdminCheck(c), 1, 0, 2)
            BY AdminCheckParts
        <3> QED
            BY <1>3, <3>1, AdminCheckFirst
    <2>3. AdminCheck(c) \in Routes(c)
        BY <1>3, RoutesWired
    <2>4. ~Ends(AdminCheck(c), q)
        BY <2>1, <2>2, <2>3, NoneBefore
    <2> QED
        BY <2>4, AdminCheckParts DEF Ends
<1>4. CASE ~c.adminDisabled /\ \E leaf \in InstanceLeaves(c) : rt = AdminHandler(leaf)
    <2>1. rt.leaf # "tile" /\ Stands(rt, 1, 0, 3) /\ Starts(q.path, AdminName)
        BY <1>1, <1>4, AdminHandlerParts, HandlerPath DEF InstanceLeaves
    <2>2. c.adminToken # NoText => c.adminToken = q.bearer
        BY <1>3, <1>4, <2>1
    <2> QED
        BY <2>1, <2>2
<1>5. CASE /\ ~c.adminDisabled
           /\ \E i \in DOMAIN c.proxies : \E leaf \in NamedLeaves :
                 rt = NamedHandler(c, i, leaf)
    <2>1. PICK i \in DOMAIN c.proxies, leaf \in NamedLeaves : rt = NamedHandler(c, i, leaf)
        BY <1>5
    <2>2. /\ rt.leaf # "tile" /\ Stands(rt, 1, i, 2)
          /\ Starts(q.path, AdminName)
        BY <1>1, <2>1, NamedHandlerParts, HandlerPath DEF NamedLeaves
    <2>3. i \in Nat /\ i > 0
        BY DEF Named
    <2> QED
        BY <1>3, <1>5, <2>2, <2>3
<1>6. CASE \E i \in DOMAIN c.proxies : rt = TileHandler(c, i)
    <2>1. PICK i \in DOMAIN c.proxies : rt = TileHandler(c, i)
        BY <1>6
    <2>2. rt.leaf = "tile" /\ rt.arg = i
        BY <2>1, TileHandlerParts
    <2> QED
        BY <1>2, <2>1, <2>2
<1> QED
    BY <1>1, <1>4, <1>5, <1>6, HandlerKinds

-----------------------------------------------------------------------------
(***************************************************************************)
(* What a request has seen.                                                *)
(***************************************************************************)

\* A middleware that all others of its kind come before is the last.
LEMMA LastSeen ==
    ASSUME NEW c, NEW q, NEW rt, NEW does, NEW m \in Routes(c),
           m.does = does, Matches(m, q), Before(m.at, rt.at), ~Before(m.at, m.at),
           \A other \in Routes(c) :
              other.does = does /\ Matches(other, q) /\ Before(other.at, rt.at)
                => \/ other = m
                   \/ Before(other.at, m.at) /\ ~Before(m.at, other.at)
    PROVE  {last.arg : last \in SawLast(c, q, rt, does)} = {m.arg}
<1>1. SawLast(c, q, rt, does) = {m}
    BY DEF SawLast
<1> QED
    BY <1>1

\* Middleware that sets a name is that of a proxy's group.
LEMMA NameKinds ==
    ASSUME NEW c, NEW rt \in Routes(c), rt.does = "name"
    PROVE  \E i \in DOMAIN c.proxies : rt = NameMark(c, i)
<1>1. NotFound.does # "name"
    BY DEF NotFound, Middleware
<1>2. AdminCors.does # "name" /\ AdminCheck(c).does # "name"
    BY AdminCorsParts, AdminCheckParts
<1>3. \A leaf : AdminHandler(leaf).does # "name"
    BY DEF AdminHandler, Handler
<1>4. \A i, leaf : NamedHandler(c, i, leaf).does # "name"
    BY DEF NamedHandler, Handler
<1>5. \A i : TileCors(c, i).does # "name" /\ TileCheck(c, i).does # "name"
    BY TileCorsParts, TileCheckParts
<1>6. \A i : TileHandler(c, i).does # "name"
    BY DEF TileHandler, Handler
<1> QED
    BY <1>1, <1>2, <1>3, <1>4, <1>5, <1>6, RouteKinds

\* Middleware that sets origins is that of the admin group or of a proxy.
LEMMA CorsKinds ==
    ASSUME NEW c, NEW rt \in Routes(c), rt.does = "cors"
    PROVE  rt = AdminCors \/ \E i \in DOMAIN c.proxies : rt = TileCors(c, i)
<1>1. NotFound.does # "cors"
    BY DEF NotFound, Middleware
<1>2. AdminCheck(c).does # "cors"
    BY AdminCheckParts
<1>3. \A leaf : AdminHandler(leaf).does # "cors"
    BY DEF AdminHandler, Handler
<1>4. \A i, leaf : NamedHandler(c, i, leaf).does # "cors"
    BY DEF NamedHandler, Handler
<1>5. \A i : NameMark(c, i).does # "cors" /\ TileCheck(c, i).does # "cors"
    BY NameMarkParts, TileCheckParts
<1>6. \A i : TileHandler(c, i).does # "cors"
    BY DEF TileHandler, Handler
<1> QED
    BY <1>1, <1>2, <1>3, <1>4, <1>5, <1>6, RouteKinds

(***************************************************************************)
(* RightGroup for any configuration: the path of a tile request names the  *)
(* proxy that handles it, and a named admin handler finds the name of its  *)
(* own group, which was set last (admin/wire.go:61).                       *)
(***************************************************************************)
LEMMA GroupsAreRight ==
    ASSUME NEW c, Named(c), NEW q
    PROVE  RightGroup(c, q)
<1> SUFFICES ASSUME NEW rt \in EndsAt(c, q), rt.does = "handle"
             PROVE  /\ rt.leaf = "tile" => q.path = <<c.proxies[rt.arg].name>>
                    /\ Len(q.path) = 2 =>
                         {last.arg : last \in SawLast(c, q, rt, "name")} = {q.path[2]}
    BY DEF RightGroup
<1>1. rt \in Routes(c) /\ Matches(rt, q)
    BY EndIsRoute
<1>2. CASE ~c.adminDisabled /\ \E leaf \in InstanceLeaves(c) : rt = AdminHandler(leaf)
    <2>1. rt.leaf # "tile" /\ q.path = <<AdminName>>
        BY <1>1, <1>2, AdminHandlerParts, HandlerPath DEF InstanceLeaves
    <2>2. Len(q.path) # 2
        BY <2>1
    <2> QED
        BY <2>1, <2>2
<1>3. CASE \E i \in DOMAIN c.proxies : rt = TileHandler(c, i)
    <2>1. PICK i \in DOMAIN c.proxies : rt = TileHandler(c, i)
        BY <1>3
    <2>2. rt.arg = i /\ q.path = <<c.proxies[i].name>>
        BY <1>1, <2>1, TileHandlerParts, HandlerPath
    <2>3. Len(q.path) # 2
        BY <2>2
    <2> QED
        BY <2>2, <2>3
<1>4. CASE /\ ~c.adminDisabled
           /\ \E i \in DOMAIN c.proxies : \E leaf \in NamedLeaves :
                 rt = NamedHandler(c, i, leaf)
    <2>1. PICK i \in DOMAIN c.proxies, leaf \in NamedLeaves : rt = NamedHandler(c, i, leaf)
        BY <1>4
    <2>2. /\ rt.leaf # "tile" /\ Stands(rt, 1, i, 2)
          /\ q.path = <<AdminName, c.proxies[i].name>>
        BY <1>1, <2>1, NamedHandlerParts, HandlerPath DEF NamedLeaves
    <2>3. \A j \in DOMAIN c.proxies : j \in Nat
        BY DEF Named
    <2>4. NameMark(c, i) \in Routes(c)
        BY <1>4, RoutesWired
    <2>5. Matches(NameMark(c, i), q)
        <3>1. PathBegins(<<AdminName, c.proxies[i].name>>, q.path)
            BY <2>2 DEF PathBegins, Begins, Named
        <3> QED
            BY <3>1, NameMarkParts DEF Matches
    <2>6. \A j \in DOMAIN c.proxies :
             /\ Before(NameMark(c, j).at, rt.at) <=> j <= i
             /\ Before(NameMark(c, j).at, NameMark(c, i).at) <=> j < i
             /\ Before(NameMark(c, i).at, NameMark(c, j).at) <=> i < j
        BY <2>1, <2>3, NamesInOrder
    <2>7. ASSUME NEW other \in Routes(c), other.does = "name", Before(other.at, rt.at)
          PROVE  \/ other = NameMark(c, i)
                 \/ /\ Before(other.at, NameMark(c, i).at)
                    /\ ~Before(NameMark(c, i).at, other.at)
        <3>1. PICK j \in DOMAIN c.proxies : other = NameMark(c, j)
            BY <2>7, NameKinds
        <3>2. j \in Nat /\ i \in Nat /\ j <= i
            BY <2>3, <2>6, <2>7, <3>1
        <3> QED
            BY <2>6, <3>1, <3>2
    <2>8. Before(NameMark(c, i).at, rt.at) /\ ~Before(NameMark(c, i).at, NameMark(c, i).at)
        BY <2>3, <2>6
    <2>9. {last.arg : last \in SawLast(c, q, rt, "name")} = {c.proxies[i].name}
        <3>1. NameMark(c, i).does = "name" /\ NameMark(c, i).arg = c.proxies[i].name
            BY NameMarkParts
        <3>2. {last.arg : last \in SawLast(c, q, rt, "name")} = {NameMark(c, i).arg}
            BY <2>4, <2>5, <2>7, <2>8, <3>1, LastSeen
        <3> QED
            BY <3>1, <3>2
    <2> QED
        BY <2>2, <2>9
<1> QED
    BY <1>1, <1>2, <1>3, <1>4, HandlerKinds

(***************************************************************************)
(* OwnOrigins for any configuration: a tile is sent with the origins of    *)
(* the proxy that handles it, whose CORS middleware comes last although    *)
(* all earlier ones see the request too (middleware.go:40).                *)
(***************************************************************************)
LEMMA OriginsAreOwn ==
    ASSUME NEW c, Named(c), NEW q
    PROVE  OwnOrigins(c, q)
<1> SUFFICES ASSUME NEW rt \in EndsAt(c, q), rt.leaf = "tile"
             PROVE  {last.arg : last \in SawLast(c, q, rt, "cors")}
                      = {Origins(c.proxies[rt.arg])}
    BY DEF OwnOrigins
<1>1. rt \in Routes(c)
    BY EndIsRoute
<1>2. PICK i \in DOMAIN c.proxies : rt = TileHandler(c, i)
    <2>1. NotFound.leaf # "tile" /\ AdminCors.leaf # "tile" /\ AdminCheck(c).leaf # "tile"
        BY DEF NotFound, AdminCors, AdminCheck, Middleware
    <2>2. \A leaf \in InstanceLeaves(c) : AdminHandler(leaf).leaf # "tile"
        BY AdminHandlerParts DEF InstanceLeaves
    <2>3. \A i, leaf : leaf \in NamedLeaves => NamedHandler(c, i, leaf).leaf # "tile"
        BY NamedHandlerParts DEF NamedLeaves
    <2>4. \A i : /\ NameMark(c, i).leaf # "tile" /\ TileCors(c, i).leaf # "tile"
                 /\ TileCheck(c, i).leaf # "tile"
        BY DEF NameMark, TileCors, TileCheck, Middleware
    <2> QED
        BY <1>1, <2>1, <2>2, <2>3, <2>4, RouteKinds
<1>3. rt.arg = i /\ Stands(rt, 2, i, 3)
    BY <1>2, TileHandlerParts
<1>4. TileCors(c, i) \in Routes(c) /\ TileCors(c, i).does = "cors"
    BY RoutesWired, TileCorsParts
<1>5. Matches(TileCors(c, i), q)
    BY TileCorsParts DEF Matches, PathBegins
<1>6. \A j \in DOMAIN c.proxies : j \in Nat /\ j > 0
    BY DEF Named
<1>7. \A j \in DOMAIN c.proxies :
         /\ Before(TileCors(c, j).at, rt.at) <=> j <= i
         /\ Before(TileCors(c, j).at, TileCors(c, i).at) <=> j < i
         /\ Before(TileCors(c, i).at, TileCors(c, j).at) <=> i < j
    BY <1>2, <1>6, OriginsInOrder
<1>8. Before(AdminCors.at, TileCors(c, i).at) /\ ~Before(TileCors(c, i).at, AdminCors.at)
    <2>1. Stands(TileCors(c, i), 2, i, 1) /\ Stands(AdminCors, 1, 0, 1)
        BY TileCorsParts, AdminCorsParts
    <2>2. i \in Nat
        BY <1>6
    <2> QED
        BY <2>1, <2>2, AdminCorsFirst
<1>9. ASSUME NEW other \in Routes(c), other.does = "cors", Before(other.at, rt.at)
      PROVE  \/ other = TileCors(c, i)
             \/ Before(other.at, TileCors(c, i).at) /\ ~Before(TileCors(c, i).at, other.at)
    <2>1. CASE other = AdminCors
        BY <1>8, <2>1
    <2>2. CASE \E j \in DOMAIN c.proxies : other = TileCors(c, j)
        <3>1. PICK j \in DOMAIN c.proxies : other = TileCors(c, j)
            BY <2>2
        <3>2. j \in Nat /\ i \in Nat /\ j <= i
            BY <1>6, <1>7, <1>9, <3>1
        <3> QED
            BY <1>7, <3>1, <3>2
    <2> QED
        BY <1>9, <2>1, <2>2, CorsKinds
<1>10. Before(TileCors(c, i).at, rt.at) /\ ~Before(TileCors(c, i).at, TileCors(c, i).at)
    BY <1>6, <1>7
<1>11. {last.arg : last \in SawLast(c, q, rt, "cors")} = {TileCors(c, i).arg}
    BY <1>4, <1>5, <1>9, <1>10, LastSeen
<1> QED
    BY <1>3, <1>11, TileCorsParts

(***************************************************************************)
(* RefusedByPrefix for any configuration: with the token of the proxy it   *)
(* asks, a request is turned away by a group whose name its path begins    *)
(* with, and by no other (proxy/wire.go:33).                               *)
(***************************************************************************)
LEMMA OnlyPrefixesRefuse ==
    ASSUME NEW c, Named(c), NEW q, q.path \in Seq(Seq(STRING))
    PROVE  RefusedByPrefix(c, q)
<1> SUFFICES ASSUME NEW rt \in EndsAt(c, q), rt.does \in {"bearer", "query"},
                    Len(q.path) = 1,
                    \A i \in DOMAIN c.proxies : <<c.proxies[i].name>> = q.path =>
                        c.proxies[i].token \in {NoText, q.query}
             PROVE  /\ rt.path # <<>>
                    /\ Begins(rt.path[1], q.path[1])
                    /\ rt.path[1] = AdminName \/ rt.path[1] # q.path[1]
    BY DEF RefusedByPrefix, HasOwnToken
<1>1. rt \in Routes(c) /\ Matches(rt, q) /\ Ends(rt, q)
    BY EndIsRoute
<1>2. q.path = <<q.path[1]>>
    OBVIOUS
<1>3. \/ rt = AdminCheck(c)
      \/ \E i \in DOMAIN c.proxies : c.proxies[i].token # NoText /\ rt = TileCheck(c, i)
    <2>1. NotFound.does \notin {"bearer", "query"} /\ AdminCors.does \notin {"bearer", "query"}
        BY AdminCorsParts DEF NotFound, Middleware
    <2>2. \A leaf : AdminHandler(leaf).does \notin {"bearer", "query"}
        BY DEF AdminHandler, Handler
    <2>3. \A i, leaf : NamedHandler(c, i, leaf).does \notin {"bearer", "query"}
        BY DEF NamedHandler, Handler
    <2>4. \A i : /\ NameMark(c, i).does \notin {"bearer", "query"}
                 /\ TileCors(c, i).does \notin {"bearer", "query"}
        BY NameMarkParts, TileCorsParts
    <2>5. \A i : TileHandler(c, i).does \notin {"bearer", "query"}
        BY DEF TileHandler, Handler
    <2> QED
        BY <1>1, <2>1, <2>2, <2>3, <2>4, <2>5, RouteKinds
<1>4. ASSUME NEW name, rt.path = <<name>>, rt.use
      PROVE  rt.path # <<>> /\ rt.path[1] = name /\ Begins(name, q.path[1])
    <2>1. rt.path # <<>> /\ rt.path[1] = name
        BY <1>4
    <2>2. PathBegins(<<name>>, q.path)
        BY <1>1, <1>4 DEF Matches
    <2>3. Begins(name, q.path[1])
        BY <2>2 DEF PathBegins
    <2> QED
        BY <2>1, <2>3
<1>5. CASE rt = AdminCheck(c)
    <2>1. rt.path = <<AdminName>> /\ rt.use
        BY <1>5, AdminCheckParts
    <2> QED
        BY <1>4, <2>1
<1>6. ASSUME NEW i \in DOMAIN c.proxies, c.proxies[i].token # NoText, rt = TileCheck(c, i)
      PROVE  /\ rt.path # <<>>
             /\ Begins(rt.path[1], q.path[1])
             /\ rt.path[1] # q.path[1]
    <2>1. rt.path = <<c.proxies[i].name>> /\ rt.use
        BY <1>6, TileCheckParts
    <2>2. q.query # c.proxies[i].token
        BY <1>1, <1>6, TileCheckParts DEF Ends
    <2>3. <<c.proxies[i].name>> # q.path
        BY <1>6, <2>2
    <2>4. c.proxies[i].name # q.path[1]
        BY <1>2, <2>3
    <2> QED
        BY <1>4, <2>1, <2>4
<1> QED
    BY <1>3, <1>5, <1>6

(***************************************************************************)
(* OwnTokenSuffices for any configuration in which no name is the          *)
(* beginning of another: then every proxy has its authentication to        *)
(* itself, as the README promises (proxy/wire.go:33).                      *)
(***************************************************************************)
THEOREM SeparateIfNamesAreApart ==
    ASSUME NEW c, Named(c), NEW q, q.path \in Seq(Seq(STRING)),
           \A i, j \in DOMAIN c.proxies :
               Begins(c.proxies[i].name, c.proxies[j].name)
                 => c.proxies[i].name = c.proxies[j].name
    PROVE  OwnTokenSuffices(c, q)
<1> SUFFICES ASSUME HasOwnToken(c, q),
                    NEW j \in DOMAIN c.proxies, <<c.proxies[j].name>> = q.path,
                    NEW rt \in EndsAt(c, q), rt.does = "query"
             PROVE  FALSE
    BY DEF OwnTokenSuffices
<1>1. rt \in Routes(c) /\ Matches(rt, q) /\ Ends(rt, q)
    BY EndIsRoute
<1>2. q.path[1] = c.proxies[j].name
    OBVIOUS
<1>3. PICK i \in DOMAIN c.proxies : c.proxies[i].token # NoText /\ rt = TileCheck(c, i)
    <2>1. NotFound.does # "query" /\ AdminCors.does # "query" /\ AdminCheck(c).does # "query"
        BY AdminCorsParts, AdminCheckParts DEF NotFound, Middleware
    <2>2. \A leaf : AdminHandler(leaf).does # "query"
        BY DEF AdminHandler, Handler
    <2>3. \A i, leaf : NamedHandler(c, i, leaf).does # "query"
        BY DEF NamedHandler, Handler
    <2>4. \A i : NameMark(c, i).does # "query" /\ TileCors(c, i).does # "query"
        BY NameMarkParts, TileCorsParts
    <2>5. \A i : TileHandler(c, i).does # "query"
        BY DEF TileHandler, Handler
    <2> QED
        BY <1>1, <2>1, <2>2, <2>3, <2>4, <2>5, RouteKinds
<1>4. /\ rt.path = <<c.proxies[i].name>> /\ rt.use
      /\ q.query # c.proxies[i].token
    BY <1>1, <1>3, TileCheckParts DEF Ends
<1>5. Begins(c.proxies[i].name, q.path[1])
    <2>1. PathBegins(<<c.proxies[i].name>>, q.path)
        BY <1>1, <1>4 DEF Matches
    <2> QED
        BY <2>1 DEF PathBegins
<1>6. <<c.proxies[i].name>> = q.path
    BY <1>2, <1>5
<1>7. c.proxies[i].token \in {NoText, q.query}
    BY <1>6 DEF HasOwnToken
<1> QED
    BY <1>3, <1>4, <1>7
=============================================================================
