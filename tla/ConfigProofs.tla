---------------------------- MODULE ConfigProofs ----------------------------
(***************************************************************************)
(* A configuration that validation accepts is usable once validation and   *)
(* the defaults have filled it in, for any file that can be decoded.       *)
(***************************************************************************)
EXTENDS ConfigRules, TLAPS

Rule == BOOLEAN \X ErrorKinds

\* Rules that are put together hold one by one.
LEMMA BrokenParts ==
    ASSUME NEW a \in Seq(Rule), NEW b \in Seq(Rule), Broken(a \o b) = {}
    PROVE  Broken(a) = {} /\ Broken(b) = {}
<1>1. ASSUME NEW i \in DOMAIN a
      PROVE  ~a[i][1]
    <2>1. i \in DOMAIN (a \o b) /\ (a \o b)[i] = a[i]
        OBVIOUS
    <2> QED
        BY <2>1 DEF Broken
<1>2. ASSUME NEW i \in DOMAIN b
      PROVE  ~b[i][1]
    <2> DEFINE j == Len(a) + i
    <2>1. j \in DOMAIN (a \o b) /\ (a \o b)[j] = b[i]
        OBVIOUS
    <2> QED
        BY <2>1 DEF Broken
<1> QED
    BY <1>1, <1>2 DEF Broken

\* Lists of rules that are written down hold if none of the rules is broken.
LEMMA OneRule ==
    ASSUME NEW r \in Rule
    PROVE  <<r>> \in Seq(Rule) /\ (Broken(<<r>>) = {} => ~r[1])
<1>1. ASSUME NEW rules, rules = <<r>>, Broken(rules) = {}
      PROVE  ~r[1]
    BY <1>1 DEF Broken
<1> QED
    BY <1>1

\* Three rules are a list of rules, unbroken if none of them is broken.
LEMMA ThreeRules ==
    ASSUME NEW r1 \in Rule, NEW r2 \in Rule, NEW r3 \in Rule
    PROVE  /\ <<r1, r2, r3>> \in Seq(Rule)
           /\ Broken(<<r1, r2, r3>>) = {} => ~r1[1] /\ ~r2[1] /\ ~r3[1]
<1>1. ASSUME NEW rules, rules = <<r1, r2, r3>>, Broken(rules) = {}
      PROVE  ~r1[1] /\ ~r2[1] /\ ~r3[1]
    <2>1. DOMAIN rules = 1..3 /\ rules[1] = r1 /\ rules[2] = r2 /\ rules[3] = r3
        BY <1>1
    <2> QED
        BY <1>1, <2>1 DEF Broken
<1> QED
    BY <1>1

\* The rules for the in-memory level.
LEMMA InternalRules ==
    ASSUME NEW c \in RawCaches
    PROVE  /\ InternalCacheRules(c) \in Seq(Rule)
           /\ Broken(InternalCacheRules(c)) = {} /\ c.mem =>
                 c.memCap >= 1 /\ Parses(c.memTTL) /\ ~(c.memTTL < 0)
<1> DEFINE b1 == c.mem /\ c.memCap < 1
           b2 == c.mem /\ ~Parses(c.memTTL)
           b3 == c.mem /\ Parses(c.memTTL) /\ c.memTTL < 0
           r1 == <<b1, "ErrInvalidMemCap">>
           r2 == <<b2, "ErrInvalidMemTTL">>
           r3 == <<b3, "ErrInvalidMemTTL">>
<1>1. b1 \in BOOLEAN /\ b2 \in BOOLEAN /\ b3 \in BOOLEAN
    OBVIOUS
<1>2. InternalCacheRules(c) = <<r1, r2, r3>>
    BY DEF InternalCacheRules
<1>3. ~b1 /\ ~b2 /\ ~b3 /\ c.mem =>
          c.memCap >= 1 /\ Parses(c.memTTL) /\ ~(c.memTTL < 0)
    BY DEF RawCaches
<1> HIDE DEF b1, b2, b3
<1>4. r1 \in Rule /\ (r1[1] <=> b1)
    BY <1>1 DEF Rule, ErrorKinds
<1>5. r2 \in Rule /\ (r2[1] <=> b2)
    BY <1>1 DEF Rule, ErrorKinds
<1>6. r3 \in Rule /\ (r3[1] <=> b3)
    BY <1>1 DEF Rule, ErrorKinds
<1> HIDE DEF r1, r2, r3
<1> QED
    BY <1>2, <1>3, <1>4, <1>5, <1>6, ThreeRules

\* The rules for Redis.
LEMMA ExternalRules ==
    ASSUME NEW c \in RawCaches
    PROVE  /\ ExternalCacheRules(c) \in Seq(Rule)
           /\ Broken(ExternalCacheRules(c)) = {} /\ c.redis =>
                 /\ c.redisURL = "good" /\ c.redisTTL # Unparsable
                 /\ Parses(c.redisTTL) => ~(c.redisTTL < 0)
<1> DEFINE b1 == c.redis /\ c.redisURL # "good"
           b2 == c.redis /\ c.redisTTL = Unparsable
           b3 == c.redis /\ Parses(c.redisTTL) /\ c.redisTTL < 0
           r1 == <<b1, "ErrInvalidRedisURL">>
           r2 == <<b2, "ErrInvalidRedisTTL">>
           r3 == <<b3, "ErrInvalidRedisTTL">>
<1>1. b1 \in BOOLEAN /\ b2 \in BOOLEAN /\ b3 \in BOOLEAN
    OBVIOUS
<1>2. ExternalCacheRules(c) = <<r1, r2, r3>>
    BY DEF ExternalCacheRules
<1>3. ~b1 /\ ~b2 /\ ~b3 /\ c.redis =>
          /\ c.redisURL = "good" /\ c.redisTTL # Unparsable
          /\ Parses(c.redisTTL) => ~(c.redisTTL < 0)
    OBVIOUS
<1> HIDE DEF b1, b2, b3
<1>4. r1 \in Rule /\ (r1[1] <=> b1)
    BY <1>1 DEF Rule, ErrorKinds
<1>5. r2 \in Rule /\ (r2[1] <=> b2)
    BY <1>1 DEF Rule, ErrorKinds
<1>6. r3 \in Rule /\ (r3[1] <=> b3)
    BY <1>1 DEF Rule, ErrorKinds
<1> HIDE DEF r1, r2, r3
<1> QED
    BY <1>2, <1>3, <1>4, <1>5, <1>6, ThreeRules

\* The rules for a template: it has all coordinates.
LEMMA TemplateComplete ==
    ASSUME NEW template, NEW e \in ErrorKinds
    PROVE  /\ TemplateRules(template, e) \in Seq(Rule)
           /\ Broken(TemplateRules(template, e)) = {} => Coordinates \subseteq template
<1> DEFINE b1 == "z" \notin template
           b2 == "x" \notin template
           b3 == "y" \notin template
           r1 == <<b1, e>>
           r2 == <<b2, e>>
           r3 == <<b3, e>>
<1>1. b1 \in BOOLEAN /\ b2 \in BOOLEAN /\ b3 \in BOOLEAN
    OBVIOUS
<1>2. TemplateRules(template, e) = <<r1, r2, r3>>
    BY DEF TemplateRules
<1>3. ~b1 /\ ~b2 /\ ~b3 => Coordinates \subseteq template
    BY DEF Coordinates
<1> HIDE DEF b1, b2, b3
<1>4. r1 \in Rule /\ (r1[1] <=> b1)
    BY <1>1 DEF Rule
<1>5. r2 \in Rule /\ (r2[1] <=> b2)
    BY <1>1 DEF Rule
<1>6. r3 \in Rule /\ (r3[1] <=> b3)
    BY <1>1 DEF Rule
<1> HIDE DEF r1, r2, r3
<1> QED
    BY <1>2, <1>3, <1>4, <1>5, <1>6, ThreeRules

\* All rules for a cache.
LEMMA AllCacheRules ==
    ASSUME NEW c \in RawCaches
    PROVE  /\ CacheRules(c) \in Seq(Rule)
           /\ Broken(CacheRules(c)) = {} =>
                /\ c.mem \/ c.redis
                /\ Broken(InternalCacheRules(c)) = {}
                /\ Broken(ExternalCacheRules(c)) = {}
                /\ Coordinates \subseteq c.key
<1> DEFINE none == ~c.mem /\ ~c.redis
           r1 == <<none, "ErrNoCacheEnabled">>
           level == <<r1>>
           key == TemplateRules(c.key, "ErrMissingCacheTemplate")
           mem == InternalCacheRules(c)
           redis == ExternalCacheRules(c)
<1>1. level \in Seq(Rule) /\ (Broken(level) = {} => c.mem \/ c.redis)
    <2>1. none \in BOOLEAN /\ (~none => c.mem \/ c.redis)
        OBVIOUS
    <2> HIDE DEF none
    <2>2. r1 \in Rule /\ (r1[1] <=> none)
        BY <2>1 DEF Rule, ErrorKinds
    <2> HIDE DEF r1
    <2> QED
        BY <2>1, <2>2, OneRule
<1>2. key \in Seq(Rule) /\ (Broken(key) = {} => Coordinates \subseteq c.key)
    <2>1. "ErrMissingCacheTemplate" \in ErrorKinds
        BY DEF ErrorKinds
    <2> QED
        BY <2>1, TemplateComplete
<1>3. mem \in Seq(Rule) /\ redis \in Seq(Rule)
    BY InternalRules, ExternalRules
<1>4. CacheRules(c) = ((level \o mem) \o redis) \o key
    BY DEF CacheRules
<1> HIDE DEF none, r1, level, key, mem, redis
<1>5. (level \o mem) \in Seq(Rule) /\ ((level \o mem) \o redis) \in Seq(Rule)
      /\ CacheRules(c) \in Seq(Rule)
    BY <1>1, <1>2, <1>3, <1>4
<1>6. ASSUME Broken(CacheRules(c)) = {}
      PROVE  Broken(level) = {} /\ Broken(mem) = {} /\ Broken(redis) = {} /\ Broken(key) = {}
    <2>1. Broken((level \o mem) \o redis) = {} /\ Broken(key) = {}
        BY <1>2, <1>4, <1>5, <1>6, BrokenParts
    <2>2. Broken(level \o mem) = {} /\ Broken(redis) = {}
        BY <1>3, <1>5, <2>1, BrokenParts
    <2> QED
        BY <1>1, <1>3, <2>1, <2>2, BrokenParts
<1> QED
    BY <1>1, <1>2, <1>5, <1>6 DEF mem, redis

\* The rules for parameters.
LEMMA AllParamRules ==
    ASSUME NEW params \in Seq(STRING)
    PROVE  /\ ParamRules(params) \in Seq(Rule)
           /\ Broken(ParamRules(params)) = {} => ParamsUsable(params)
<1> DEFINE bad(i) == params[i] \in {NoText} \cup Reserved \cup {params[j] : j \in 1..(i - 1)}
           e(i) == IF params[i] = NoText THEN "ErrParamNoName" ELSE "ErrParamNameDuplicate"
           rules == ParamRules(params)
<1>1. rules = [i \in DOMAIN params |-> <<bad(i), e(i)>>]
    BY DEF ParamRules
<1>2. DOMAIN params = 1..Len(params) /\ Len(params) \in Nat
    OBVIOUS
<1>3. \A i : bad(i) \in BOOLEAN /\ e(i) \in ErrorKinds
    BY DEF ErrorKinds
<1>4. ASSUME \A i \in DOMAIN params : ~bad(i)
      PROVE  ParamsUsable(params)
    <2>1. \A i \in DOMAIN params : params[i] \notin {NoText} \cup Reserved
        BY <1>4
    <2>2. \A i, j \in DOMAIN params : j < i => params[i] # params[j]
        <3> SUFFICES ASSUME NEW i \in DOMAIN params, NEW j \in DOMAIN params, j < i
                     PROVE  params[i] # params[j]
            OBVIOUS
        <3>1. j \in 1..(i - 1)
            BY <1>2
        <3> QED
            BY <1>4, <3>1
    <2>3. \A i, j \in DOMAIN params : i = j \/ i < j \/ j < i
        BY <1>2
    <2> QED
        BY <2>1, <2>2, <2>3 DEF ParamsUsable
<1> HIDE DEF bad, e, rules
<1>5. \A i \in DOMAIN params : rules[i] \in Rule /\ (rules[i][1] <=> bad(i))
    BY <1>1, <1>3 DEF Rule
<1>6. rules \in Seq(Rule)
    BY <1>1, <1>2, <1>5
<1>7. Broken(rules) = {} => \A i \in DOMAIN params : ~bad(i)
    BY <1>1, <1>5 DEF Broken
<1> QED
    BY <1>4, <1>6, <1>7 DEF rules

\* The rules for the name of a proxy and its URL.
LEMMA NameLegal ==
    ASSUME NEW p
    PROVE  /\ NameRules(p) \in Seq(Rule)
           /\ Broken(NameRules(p)) = {} => p.name # <<>> /\ Elements(p.name) \subseteq Legal
<1> DEFINE b1 == p.name = <<>>
           b2 == ~(Elements(p.name) \subseteq Legal)
           b3 == p.url = {}
           r1 == <<b1, "ErrProxyNoName">>
           r2 == <<b2, "ErrProxyInvalidName">>
           r3 == <<b3, "ErrMissingTileURL">>
<1>1. b1 \in BOOLEAN /\ b2 \in BOOLEAN /\ b3 \in BOOLEAN
    OBVIOUS
<1>2. NameRules(p) = <<r1, r2, r3>>
    BY DEF NameRules
<1>3. ~b1 /\ ~b2 /\ ~b3 => p.name # <<>> /\ Elements(p.name) \subseteq Legal
    OBVIOUS
<1> HIDE DEF b1, b2, b3
<1>4. r1 \in Rule /\ (r1[1] <=> b1)
    BY <1>1 DEF Rule, ErrorKinds
<1>5. r2 \in Rule /\ (r2[1] <=> b2)
    BY <1>1 DEF Rule, ErrorKinds
<1>6. r3 \in Rule /\ (r3[1] <=> b3)
    BY <1>1 DEF Rule, ErrorKinds
<1> HIDE DEF r1, r2, r3
<1> QED
    BY <1>2, <1>3, <1>4, <1>5, <1>6, ThreeRules

\* All rules for a proxy.
LEMMA AllProxyRules ==
    ASSUME NEW p \in RawProxies
    PROVE  /\ ProxyRules(p) \in Seq(Rule)
           /\ Broken(ProxyRules(p)) = {} =>
                /\ p.name # <<>> /\ Elements(p.name) \subseteq Legal
                /\ Coordinates \subseteq p.url
                /\ Broken(CacheRules(p.cache)) = {}
                /\ ParamsUsable(p.params)
<1> DEFINE url == TemplateRules(p.url, "ErrMissingTileURLTemplate")
           name == NameRules(p)
           cache == CacheRules(p.cache)
           params == ParamRules(p.params)
<1>1. p.cache \in RawCaches /\ p.params \in Seq(STRING)
    BY DEF RawProxies
<1>2. url \in Seq(Rule) /\ (Broken(url) = {} => Coordinates \subseteq p.url)
    <2>1. "ErrMissingTileURLTemplate" \in ErrorKinds
        BY DEF ErrorKinds
    <2> QED
        BY <2>1, TemplateComplete
<1>3. name \in Seq(Rule) /\ cache \in Seq(Rule) /\ params \in Seq(Rule)
    BY <1>1, NameLegal, AllCacheRules, AllParamRules
<1>4. ProxyRules(p) = ((name \o url) \o cache) \o params
    BY DEF ProxyRules
<1> HIDE DEF url, name, cache, params
<1>5. (name \o url) \in Seq(Rule) /\ ((name \o url) \o cache) \in Seq(Rule)
      /\ ProxyRules(p) \in Seq(Rule)
    BY <1>2, <1>3, <1>4
<1>6. ASSUME Broken(ProxyRules(p)) = {}
      PROVE  Broken(name) = {} /\ Broken(url) = {} /\ Broken(cache) = {} /\ Broken(params) = {}
    <2>1. Broken((name \o url) \o cache) = {} /\ Broken(params) = {}
        BY <1>3, <1>4, <1>5, <1>6, BrokenParts
    <2>2. Broken(name \o url) = {} /\ Broken(cache) = {}
        BY <1>3, <1>5, <2>1, BrokenParts
    <2> QED
        BY <1>2, <1>3, <2>1, <2>2, BrokenParts
<1> QED
    BY <1>1, <1>2, <1>5, <1>6, NameLegal, AllParamRules DEF name, cache, params

-----------------------------------------------------------------------------
(***************************************************************************)
(* What validation and the defaults make of what is accepted.              *)
(***************************************************************************)

\* A cache that is accepted is usable.
LEMMA CacheBecomesUsable ==
    ASSUME NEW c \in RawCaches, Broken(CacheRules(c)) = {}
    PROVE  CacheUsable(CacheDefaults(WithLives(c)))
<1> DEFINE d == WithLives(c)
           e == CacheDefaults(d)
<1>1. /\ c.mem \in BOOLEAN /\ c.redis \in BOOLEAN /\ c.memCap \in Int
      /\ c.memTTL \in Durations /\ c.redisTTL \in Durations /\ c.redisLife = 0
    BY DEF RawCaches
<1>2. c.mem \/ c.redis
    BY AllCacheRules
<1>3. c.mem => c.memCap >= 1 /\ Parses(c.memTTL) /\ ~(c.memTTL < 0)
    BY AllCacheRules, InternalRules
<1>4. c.redis => /\ c.redisURL = "good" /\ c.redisTTL # Unparsable
                 /\ Parses(c.redisTTL) => ~(c.redisTTL < 0)
    BY AllCacheRules, ExternalRules
<1>5. Coordinates \subseteq c.key
    BY AllCacheRules
<1>6. /\ d.mem = c.mem /\ d.redis = c.redis /\ d.memCap = c.memCap
      /\ d.redisURL = c.redisURL /\ d.key = c.key
    BY DEF WithLives, RawCaches
<1>7. c.redis => d.redisLife = IF c.redisTTL = Unset THEN 0 ELSE c.redisTTL
    BY DEF WithLives, RawCaches
<1>8. d # ZeroCache
    BY <1>1, <1>2, <1>6 DEF ZeroCache
<1>9. e = [d EXCEPT !.key = IF @ = {} THEN DefaultCache.key ELSE @]
    BY <1>8 DEF CacheDefaults
<1>10. d.key # {}
    BY <1>5, <1>6 DEF Coordinates
<1>11. "key" \in DOMAIN d
    BY DEF WithLives, RawCaches
<1> HIDE DEF d
<1>12. /\ e.mem = d.mem /\ e.redis = d.redis /\ e.memCap = d.memCap
       /\ e.redisURL = d.redisURL /\ e.key = d.key
       /\ e.redisLife = d.redisLife
    BY <1>9, <1>10, <1>11
<1> HIDE DEF e
<1>13. c.mem => e.memCap >= 1
    BY <1>3, <1>6, <1>12
<1>14. c.redis => e.redisURL = "good" /\ e.redisLife >= 0
    <2>1. CASE c.redisTTL = Unset
        BY <1>4, <1>6, <1>7, <1>12, <2>1
    <2>2. CASE c.redisTTL # Unset
        BY <1>1, <1>4, <1>6, <1>7, <1>12, <2>2 DEF Parses, Durations
    <2> QED
        BY <2>1, <2>2
<1>15. Coordinates \subseteq e.key
    BY <1>5, <1>6, <1>12
<1> QED
    BY <1>2, <1>6, <1>12, <1>13, <1>14, <1>15 DEF CacheUsable, e, d

\* A header that is registered is listed, and so are those before it.
LEMMA RegisteredIsListed ==
    ASSUME NEW S, NEW pull \in Seq(S), NEW header \in S
    PROVE  /\ RegisterHeader(pull, header) \in Seq(S)
           /\ Elements(pull) \cup {header} \subseteq Elements(RegisterHeader(pull, header))
<1>1. CASE header \in Elements(pull)
    BY <1>1 DEF RegisterHeader
<1>2. CASE header \notin Elements(pull)
    <2> DEFINE longer == Append(pull, header)
    <2>1. RegisterHeader(pull, header) = longer
        BY <1>2 DEF RegisterHeader
    <2>2. longer \in Seq(S) /\ longer[Len(pull) + 1] = header
          /\ Len(pull) + 1 \in DOMAIN longer
        OBVIOUS
    <2>3. \A i \in DOMAIN pull : i \in DOMAIN longer /\ longer[i] = pull[i]
        OBVIOUS
    <2> QED
        BY <2>1, <2>2, <2>3 DEF Elements
<1> QED
    BY <1>1, <1>2

\* The content headers are pulled.
LEMMA ContentHeadersPulled ==
    ASSUME NEW pull \in Seq(STRING)
    PROVE  ContentHeaders \subseteq Elements(WithContentHeaders(pull))
<1> DEFINE S == STRING \cup ContentHeaders
           first == RegisterHeader(pull, "Content-Type")
           second == RegisterHeader(first, "Content-Encoding")
<1>1. pull \in Seq(S) /\ "Content-Type" \in S /\ "Content-Encoding" \in S
    BY DEF ContentHeaders
<1> HIDE DEF S
<1>2. first \in Seq(S) /\ "Content-Type" \in Elements(first)
    BY <1>1, RegisteredIsListed
<1>3. Elements(first) \cup {"Content-Encoding"} \subseteq Elements(second)
    BY <1>1, <1>2, RegisteredIsListed
<1> QED
    BY <1>2, <1>3 DEF WithContentHeaders, ContentHeaders

\* A proxy that is accepted is usable.
LEMMA ProxyBecomesUsable ==
    ASSUME NEW p \in RawProxies, Broken(ProxyRules(p)) = {}
    PROVE  ProxyUsable(ProxyDefaults(p))
<1> DEFINE q == ProxyDefaults(p)
<1>1. p.cache \in RawCaches /\ p.workers \in Int /\ p.pull \in Seq(STRING)
    BY DEF RawProxies
<1>2. /\ q.name = p.name /\ q.url = p.url /\ q.params = p.params
      /\ q.endpoint = ("e" \in p.url)
      /\ q.cache = CacheDefaults(WithLives(p.cache))
      /\ q.workers = IF p.workers <= 0 THEN 8 ELSE p.workers
      /\ q.pull = WithContentHeaders(p.pull)
    BY DEF ProxyDefaults, RawProxies
<1>3. /\ p.name # <<>> /\ Elements(p.name) \subseteq Legal
      /\ Coordinates \subseteq p.url
      /\ Broken(CacheRules(p.cache)) = {}
      /\ ParamsUsable(p.params)
    BY AllProxyRules
<1> HIDE DEF q
<1>4. CacheUsable(q.cache)
    BY <1>1, <1>2, <1>3, CacheBecomesUsable
<1>5. ContentHeaders \subseteq Elements(q.pull)
    BY <1>1, <1>2, ContentHeadersPulled
<1>6. q.workers >= 1
    BY <1>1, <1>2
<1>7. ProxyUsable(q)
    BY <1>2, <1>3, <1>4, <1>5, <1>6 DEF ProxyUsable
<1> QED
    BY <1>7 DEF q

(***************************************************************************)
(* Whatever validation accepts is usable once the defaults are filled in   *)
(* (config.go:229): there is no way around a rule through a default, and   *)
(* no default that breaks one.                                             *)
(***************************************************************************)
THEOREM AcceptedIsUsable ==
    ASSUME NEW c \in RawConfigs, Accepted(c)
    PROVE  Usable(Effective(c))
<1> DEFINE d == Effective(c)
<1>1. c.port \in Int /\ c.proxies \in Seq(RawProxies)
    BY DEF RawConfigs
<1>2. /\ d.port = IF c.port = 0 THEN 3100 ELSE c.port
      /\ d.proxies = [i \in DOMAIN c.proxies |-> ProxyDefaults(c.proxies[i])]
    BY DEF Effective, RawConfigs
<1>3. d.port >= 1 /\ d.port <= 65535
    <2>1. ~(c.port < 0) /\ ~(c.port > 65535)
        BY DEF Accepted, BadPort
    <2> HIDE DEF d
    <2> QED
        BY <1>1, <1>2, <2>1
<1>4. ASSUME NEW i \in DOMAIN c.proxies
      PROVE  ProxyUsable(ProxyDefaults(c.proxies[i]))
    <2>1. c.proxies[i] \in RawProxies
        BY <1>1
    <2> QED
        BY <2>1, ProxyBecomesUsable DEF Accepted
<1> HIDE DEF d
<1>5. Usable(d)
    BY <1>2, <1>3, <1>4 DEF Usable
<1> QED
    BY <1>5 DEF d
=============================================================================
