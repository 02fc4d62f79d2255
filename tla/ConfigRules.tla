---------------------------- MODULE ConfigRules ----------------------------
(***************************************************************************)
(* config/config.go: which configuration files Load accepts, what it makes *)
(* of them, and what the rest of LOD may rely on.  A name is a sequence of *)
(* pieces, so that one can be the beginning of another; a template is the  *)
(* set of what occurs in it, empty if there is none.                       *)
(***************************************************************************)
EXTENDS Integers, Sequences, FiniteSets

CONSTANTS
    Legal,          \* pieces of a name that match [a-zA-Z0-9_-]+
    Unset,          \* a duration that is not given
    Unparsable      \* a duration that time.ParseDuration refuses

ASSUME DurationAssumption == Unset \notin Int /\ Unparsable \notin Int

NoText == ""            \* a text that is not set
Coordinates == {"z", "x", "y"}
ContentHeaders == {"Content-Type", "Content-Encoding"}
Reserved == {"e", "z", "x", "y"}

Elements(s) == {s[i] : i \in DOMAIN s}

-----------------------------------------------------------------------------
(***************************************************************************)
(* What a TOML file decodes to.  memLife and redisLife are the durations   *)
(* that validation parses, endpoint is what it derives from the URL.       *)
(***************************************************************************)
Durations == Int \cup {Unset, Unparsable}

RawCaches ==
    [mem : BOOLEAN, memCap : Int, memTTL : Durations, memLife : {0},
     redis : BOOLEAN, redisURL : {NoText, "bad", "good"}, redisTTL : Durations,
     redisLife : {0}, key : SUBSET STRING]

RawProxies ==
    [name : Seq(STRING), url : SUBSET STRING, endpoint : BOOLEAN, cors : STRING,
     token : STRING, params : Seq(STRING), workers : Int, pull : Seq(STRING),
     cache : RawCaches]

RawConfigs ==
    [port : Int, adminDisabled : BOOLEAN, adminToken : STRING, metrics : BOOLEAN,
     proxies : Seq(RawProxies)]

-----------------------------------------------------------------------------
(***************************************************************************)
(* Validation is a list of rules <<broken, error>>; the first that is      *)
(* broken gives the error.                                                 *)
(***************************************************************************)
Broken(rules) == {i \in DOMAIN rules : rules[i][1]}

FirstError(rules) ==
    rules[CHOOSE i \in Broken(rules) : \A j \in Broken(rules) : i <= j][2]

Parses(ttl) == ttl \notin {Unset, Unparsable}

InternalCacheRules(c) == <<
    <<c.mem /\ c.memCap < 1, "ErrInvalidMemCap">>,
    <<c.mem /\ ~Parses(c.memTTL), "ErrInvalidMemTTL">>,
    <<c.mem /\ Parses(c.memTTL) /\ c.memTTL < 0, "ErrInvalidMemTTL">> >>

ExternalCacheRules(c) == <<
    <<c.redis /\ c.redisURL # "good", "ErrInvalidRedisURL">>,
    <<c.redis /\ c.redisTTL = Unparsable, "ErrInvalidRedisTTL">>,
    <<c.redis /\ Parses(c.redisTTL) /\ c.redisTTL < 0, "ErrInvalidRedisTTL">> >>

TemplateRules(template, error) ==
    << <<"z" \notin template, error>>, <<"x" \notin template, error>>,
       <<"y" \notin template, error>> >>

\* Faulty variant: a proxy without a cache level is let through.
CacheRulesLax(c) ==
    InternalCacheRules(c) \o ExternalCacheRules(c)
    \o TemplateRules(c.key, "ErrMissingCacheTemplate")

CacheRules(c) ==
    << <<~c.mem /\ ~c.redis, "ErrNoCacheEnabled">> >>
    \o InternalCacheRules(c) \o ExternalCacheRules(c)
    \o TemplateRules(c.key, "ErrMissingCacheTemplate")

\* The errors that tell why a configuration is refused.
ErrorKinds ==
    {"ErrInvalidPort", "ErrProxyNoName", "ErrProxyInvalidName", "ErrMissingTileURL",
     "ErrMissingTileURLTemplate", "ErrNoCacheEnabled", "ErrInvalidMemCap",
     "ErrInvalidMemTTL", "ErrInvalidRedisTTL", "ErrInvalidRedisURL",
     "ErrMissingCacheTemplate", "ErrParamNoName", "ErrParamNameDuplicate"}

\* A parameter needs a name that is neither reserved nor used before it.
ParamRules(params) ==
    [i \in DOMAIN params |->
        <<params[i] \in {NoText} \cup Reserved \cup {params[j] : j \in 1..(i - 1)},
          IF params[i] = NoText THEN "ErrParamNoName" ELSE "ErrParamNameDuplicate">>]

NameRules(p) ==
    << <<p.name = <<>>, "ErrProxyNoName">>,
       <<~(Elements(p.name) \subseteq Legal), "ErrProxyInvalidName">>,
       <<p.url = {}, "ErrMissingTileURL">> >>

ProxyRules(p) ==
    NameRules(p) \o TemplateRules(p.url, "ErrMissingTileURLTemplate")
    \o CacheRules(p.cache) \o ParamRules(p.params)

BadPort(c) == c.port < 0 \/ c.port > 65535

Accepted(c) ==
    /\ ~BadPort(c)
    /\ \A i \in DOMAIN c.proxies : Broken(ProxyRules(c.proxies[i])) = {}

\* The error of a configuration that is not accepted: that of its first bad proxy.
Refusal(c) ==
    IF BadPort(c)
      THEN "ErrInvalidPort"
      ELSE FirstError([i \in DOMAIN c.proxies |->
              LET rules == ProxyRules(c.proxies[i])
              IN  <<Broken(rules) # {},
                    IF Broken(rules) # {} THEN FirstError(rules) ELSE "none">>])

-----------------------------------------------------------------------------
(***************************************************************************)
(* What validation fills in and the defaults that follow.                  *)
(***************************************************************************)
ZeroCache == [mem |-> FALSE, memCap |-> 0, memTTL |-> Unset, memLife |-> 0,
              redis |-> FALSE, redisURL |-> NoText, redisTTL |-> Unset, redisLife |-> 0,
              key |-> {}]
DefaultCache == [ZeroCache EXCEPT !.memCap = 1000, !.memTTL = 86400, !.key = Coordinates]

\* TTLs are parsed into durations if their level is enabled.
WithLives(c) ==
    [c EXCEPT !.memLife = IF c.mem THEN c.memTTL ELSE @,
              !.redisLife = IF ~c.redis THEN @
                            ELSE IF c.redisTTL = Unset THEN 0 ELSE c.redisTTL]

CacheDefaults(c) ==
    IF c = ZeroCache THEN DefaultCache
    ELSE [c EXCEPT !.key = IF @ = {} THEN DefaultCache.key ELSE @]

\* registerHeader appends a header unless it is listed.
RegisterHeader(pull, header) ==
    IF header \in Elements(pull) THEN pull ELSE Append(pull, header)

WithContentHeaders(pull) ==
    RegisterHeader(RegisterHeader(pull, "Content-Type"), "Content-Encoding")

\* Faulty variant: a negative number of workers is kept.
ProxyDefaultsNegative(p) ==
    [p EXCEPT !.endpoint = "e" \in p.url,
              !.cache = CacheDefaults(WithLives(p.cache)),
              !.workers = IF @ = 0 THEN 8 ELSE @,
              !.pull = WithContentHeaders(@)]

ProxyDefaults(p) ==
    [p EXCEPT !.endpoint = "e" \in p.url,
              !.cache = CacheDefaults(WithLives(p.cache)),
              !.workers = IF @ <= 0 THEN 8 ELSE @,
              !.pull = WithContentHeaders(@)]

\* The configuration in force once Load has accepted c.
Effective(c) ==
    [c EXCEPT !.port = IF @ = 0 THEN 3100 ELSE @,
              !.proxies = [i \in DOMAIN @ |-> ProxyDefaults(@[i])]]

NamesIn(c) == {c.proxies[i].name : i \in DOMAIN c.proxies}

-----------------------------------------------------------------------------
(***************************************************************************)
(* What the rest of LOD relies on: a port to listen on, names that are     *)
(* path segments, a level to cache in, key and URL templates in which      *)
(* every coordinate occurs, workers to prime with, headers that describe   *)
(* the tile, parameters that are not mixed up.  Two things are not in it,  *)
(* because validation does not give them: that tiles in memory expire as   *)
(* config.go:406 wants (a TTL of zero passes line 408), and that keys tell *)
(* tiles apart ({z}{x}{y} has all coordinates and gives some one key).     *)
(***************************************************************************)
CacheUsable(c) ==
    /\ c.mem \/ c.redis
    /\ c.mem => c.memCap >= 1
    /\ c.redis => c.redisURL = "good" /\ c.redisLife >= 0
    /\ Coordinates \subseteq c.key

ParamsUsable(params) ==
    \A i \in DOMAIN params :
        /\ params[i] \notin {NoText} \cup Reserved
        /\ \A j \in DOMAIN params : params[i] = params[j] => i = j

ProxyUsable(p) ==
    /\ p.name # <<>> /\ Elements(p.name) \subseteq Legal
    /\ Coordinates \subseteq p.url
    /\ p.endpoint = ("e" \in p.url)
    /\ CacheUsable(p.cache)
    /\ ContentHeaders \subseteq Elements(p.pull)
    /\ p.workers >= 1
    /\ ParamsUsable(p.params)

Usable(c) ==
    /\ c.port >= 1 /\ c.port <= 65535
    /\ \A i \in DOMAIN c.proxies : ProxyUsable(c.proxies[i])
=============================================================================
