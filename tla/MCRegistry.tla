----------------------------- MODULE MCRegistry -----------------------------
(***************************************************************************)
(* Files for TLC.  "osm" begins the name "osm2", and "admin2" begins with  *)
(* the segment of the admin group; each refused file breaks one rule.      *)
(***************************************************************************)
EXTENDS RegistryProperties

CONSTANTS c1, c2

MCCalls == {c1, c2}

Osm == <<"osm">>
Osm2 == <<"osm", "2">>
Admin2 == <<"admin", "2">>
MCNames == {Osm, Osm2, Admin2}
MCLegal == {"osm", "2", "admin"}
MCAdminName == <<"admin">>

Mem == [ZeroCache EXCEPT !.mem = TRUE, !.memCap = 1, !.memTTL = 60, !.key = Coordinates]
Redis == [ZeroCache EXCEPT !.redis = TRUE, !.redisURL = "good", !.key = Coordinates]

Proxy(name, cache, token, cors) ==
    [name |-> name, url |-> {"host"} \cup Coordinates, endpoint |-> FALSE, cors |-> cors,
     token |-> token, params |-> <<>>, workers |-> 0, pull |-> <<>>, cache |-> cache]

File(token, proxies) ==
    [port |-> 0, adminDisabled |-> FALSE, adminToken |-> token, metrics |-> FALSE,
     proxies |-> proxies]

O == Proxy(Osm, Mem, "t", "o.org")
O2 == Proxy(Osm2, Redis, "t2", NoText)
A2 == [Proxy(Admin2, Mem, NoText, "a.org") EXCEPT !.url = @ \cup {"e"}, !.workers = -1]

Bad == [O EXCEPT !.cache.mem = FALSE]

MCFiles == {
    File("a", <<O, O2>>),
    File("a", <<O2, A2, O>>),
    File(NoText, <<O2>>),
    File("a", <<[O EXCEPT !.cache.memTTL = 0], O>>),
    File("a", <<O2, Bad>>) }

MCRequests ==
    [preflight : BOOLEAN,
     path : {<<Osm>>, <<Osm2>>, <<Admin2>>, <<MCAdminName>>,
             <<MCAdminName, Osm>>, <<MCAdminName, Osm2>>, <<MCAdminName, Admin2>>},
     endpoint : BOOLEAN, leaf : {"tile", "flush", "reload"},
     bearer : {NoText, "a"}, query : {NoText, "t", "t2"}]
=============================================================================
