------------------------------ MODULE LodTypes ------------------------------
(***************************************************************************)
(* The vocabulary of the LOD models: the proxies of a configuration, the   *)
(* tiles they serve, the keys their templates render to, and the values    *)
(* that travel between the upstream, the caches and the clients.           *)
(***************************************************************************)
EXTENDS Naturals, FiniteSets

CONSTANTS
    Proxies,        \* configured proxies (config.Capabilities.Proxies)
    Tiles,          \* tile coordinates (tile.Tile) that are asked for
    Keys,           \* cache keys
    KeyOf,          \* KeyOf[p][t]: the key that p's key_template renders for t
    MemEnabled,     \* proxies with mem_enabled = true
    RedisEnabled,   \* proxies with redis_enabled = true
    Requests,       \* request goroutines, each serving one request
    Admins,         \* goroutines serving one call of an admin endpoint each
    MaxVersion,     \* bound: how often the upstream's data changes
    None,           \* no entry, no call, no value
    Corrupt         \* bytes that TilePacket.Validate rejects

\* Goroutines that run a handler.
Procs == Requests \cup Admins

(***************************************************************************)
(* A tile packet.  Header bytes and tile bytes are abstracted to what      *)
(* tells two packets apart: the proxy whose upstream sent the data, the    *)
(* tile it was asked for, and how recent the data was.                     *)
(***************************************************************************)
Packet == [proxy : Proxies, tile : Tiles, version : Nat]

\* Faulty variant: FromBytes wraps the bytes without comparing the checksum.
ValidUnchecked(entry) == entry # None

\* packet.FromBytes: what a cache level returns is a packet only if it validates.
Valid(entry) == entry # Corrupt

\* What an agent request to the upstream came to (helpers.FetchUpstream,
\* helpers.ProcessResponse): usable data, a response whose status or empty body
\* is refused, a transport error, or a panic of agent.Parse.
Result == [kind : {"ok", "badStatus", "error", "panic"}, packet : Packet \cup {None}]

\* What a client receives: a status code and a body.  Code 0 is a connection
\* that broke because the process stopped.
Reply == [code : {0, 200, 400, 500}, body : Packet \cup {None}]

Task == [proxy : Proxies, tile : Tiles]

(***************************************************************************)
(* config.validateCache accepts no proxy without a cache level.            *)
(***************************************************************************)
ASSUME CacheAssumption ==
    /\ KeyOf \in [Proxies -> [Tiles -> Keys]]
    /\ MemEnabled \subseteq Proxies
    /\ RedisEnabled \subseteq Proxies
    /\ Proxies \subseteq MemEnabled \cup RedisEnabled

ASSUME ProcsAssumption == Requests \cap Admins = {}

ASSUME VersionAssumption == MaxVersion \in Nat

ASSUME ValueAssumption ==
    /\ None # Corrupt
    /\ None \notin Packet
    /\ Corrupt \notin Packet
    /\ None \notin Requests
    /\ None \notin Task
    /\ None \notin Reply
=============================================================================
