------------------------------ MODULE Delivery ------------------------------
(***************************************************************************)
(* One tile of one proxy on its way from the upstream to the clients, with *)
(* status, headers and body: helpers.FetchUpstream, helpers.ProcessResponse*)
(* and returnCachedTile of proxy.go.  The cache is one entry; its levels,  *)
(* keys and the flights are the business of TileCache and SingleFlight.    *)
(*                                                                         *)
(* Texts are sequences of bytes, and the empty one stands for a header     *)
(* that is not there.                                                      *)
(***************************************************************************)
EXTENDS Packet

CONSTANTS
    Clients,        \* requests
    Bodies,         \* tiles
    Names,          \* names of headers
    Values,         \* and their values
    Answers,        \* what the upstream may send
    ContentType,    \* the name that fasthttp gives a default value
    DefaultType,    \* and that value
    Pulled,         \* pull_headers, with those registered by default
    Deleted,        \* del_headers
    None

ASSUME NamesAssumption ==
    /\ ContentType \in Names
    /\ Pulled \subseteq Names /\ Deleted \subseteq Names
    /\ DefaultType \in Values /\ <<>> \in Values
    /\ <<>> \in Bodies
    /\ IsFiniteSet(Names)
    /\ Names \cup Values \cup Bodies \subseteq Seq(Bytes)

Codes == {200, 204, 500}

ASSUME AnswersAssumption ==
    /\ Answers \subseteq [code : Codes, body : Bodies, headers : [Names -> Values]]
    /\ \A a \in Answers : a.code = 204 => a.body = <<>>

ASSUME NoneAssumption ==
    /\ None \notin [status : Codes, headers : [Names -> Values], body : Bodies]
    /\ None \notin [code : Codes, body : Bodies, resp : [Names -> Values]]

VARIABLES
    pc,             \* where each request is
    result,         \* result[c]: the ProxyResponse that request c was given
    reply,          \* reply[c]: what the client received
    pending,        \* tiles and headers that an EncodeSet has yet to store
    entry,          \* the cached packet
    sample          \* arguments of Encode, to judge the codec by alone

vars == <<pc, result, reply, pending, entry, sample>>

-----------------------------------------------------------------------------
(***************************************************************************)
(* fasthttp's responses: header values can be missing, Content-Type only   *)
(* if another is set; deleting it brings the default back.                 *)
(***************************************************************************)
NoHeaders == [n \in Names |-> IF n = ContentType THEN DefaultType ELSE <<>>]

Without(headers, names) == [n \in Names |-> IF n \in names THEN NoHeaders[n] ELSE headers[n]]

\* ctx.Set of each header in a map.
With(headers, map) == [n \in Names |-> IF n \in DOMAIN map THEN map[n] ELSE headers[n]]

\* DoPullHeaders.
PullHeaders(resp) == [n \in {m \in Pulled : resp[m] # <<>>} |-> resp[n]]

-----------------------------------------------------------------------------
Init ==
    /\ pc = [c \in Clients |-> "arriving"]
    /\ result = [c \in Clients |-> None]
    /\ reply = [c \in Clients |-> None]
    /\ pending = {}
    /\ entry = None
    /\ sample \in {None}
          \cup [tile : Bodies, headers : UNION {[s -> Values] : s \in SUBSET Names}]

Respond(c, status, headers, body) ==
    reply' = [reply EXCEPT ![c] = [status |-> status, headers |-> headers, body |-> body]]

\* returnCachedTile.  The packet does not know the status.
Hit(c) ==
    /\ pc[c] = "arriving"
    /\ entry # None /\ Validate(entry)
    /\ LET tile == Decoded(entry)
       IN  IF tile.fit THEN Respond(c, 200, Without(With(NoHeaders, tile.headers), Deleted), tile.tile)
           ELSE Respond(c, 500, NoHeaders, <<>>)
    /\ pc' = [pc EXCEPT ![c] = "done"]
    /\ UNCHANGED <<result, pending, entry, sample>>

\* Fetch finds nothing; a damaged entry is wiped.
Miss(c) ==
    /\ pc[c] = "arriving"
    /\ entry # None => ~Validate(entry)
    /\ entry' = None
    /\ pc' = [pc EXCEPT ![c] = "flight"]
    /\ UNCHANGED <<result, reply, pending, sample>>

\* Faulty variant: the response is copied after the request.
FetchUpstreamCopiedLate(group) ==
    /\ group # {} /\ \A c \in group : pc[c] = "flight"
    /\ \E a \in Answers :
          result' = [c \in Clients |->
             IF c \in group THEN [code |-> a.code, body |-> a.body, resp |-> a.headers]
             ELSE result[c]]
    /\ pc' = [c \in Clients |-> IF c \in group THEN "process" ELSE pc[c]]
    /\ UNCHANGED <<reply, pending, entry, sample>>

\* FetchUpstream, for the requests that share a flight.  The response from which
\* headers are pulled is copied before the request is made.
FetchUpstream(group) ==
    /\ group # {} /\ \A c \in group : pc[c] = "flight"
    /\ \E a \in Answers :
          result' = [c \in Clients |->
             IF c \in group THEN [code |-> a.code, body |-> a.body, resp |-> NoHeaders]
             ELSE result[c]]
    /\ pc' = [c \in Clients |-> IF c \in group THEN "process" ELSE pc[c]]
    /\ UNCHANGED <<reply, pending, entry, sample>>

\* Faulty variant: an empty tile is taken with any status of success.
AcceptsEmpty(r) == r.code \in {200, 204}

Accepts(r) == r.code = 204 \/ (r.code = 200 /\ r.body # <<>>)

\* ProcessResponse and, where it returns an error, the rest of handle.
ProcessResponse(c) ==
    /\ pc[c] = "process"
    /\ LET r == result[c]
       IN  IF Accepts(r)
             THEN /\ Respond(c, r.code, Without(NoHeaders, Deleted), r.body)
                  /\ pending' = pending \cup {[tile |-> r.body, headers |-> PullHeaders(r.resp)]}
             ELSE /\ Respond(c, 500, NoHeaders, <<>>)
                  /\ UNCHANGED pending
    /\ pc' = [pc EXCEPT ![c] = "done"]
    /\ UNCHANGED <<result, entry, sample>>

\* The goroutine that caches the tile.
EncodeSet(w) ==
    /\ \E order \in Orders(w.headers) : entry' = Encode(w.tile, w.headers, order)
    /\ pending' = pending \ {w}
    /\ UNCHANGED <<pc, result, reply, sample>>

\* The cache drops its entry, or keeps some other bytes: cut off, or one changed
\* (a bound: a damaged entry is not damaged again).
Damage ==
    /\ entry # None /\ Validate(entry)
    /\ \/ entry' = None
       \/ \E n \in 0..(Len(entry) - 1) : entry' = SubSeq(entry, 1, n)
       \/ \E i \in 2..Len(entry) : \E b \in Bytes \ {entry[i]} :
             entry' = [entry EXCEPT ![i] = b]
    /\ UNCHANGED <<pc, result, reply, pending, sample>>

Serve ==
    \/ \E c \in Clients : Hit(c) \/ Miss(c) \/ ProcessResponse(c)
    \/ \E group \in SUBSET Clients : FetchUpstream(group)
    \/ \E w \in pending : EncodeSet(w)
    \/ Damage

Next == sample = None /\ Serve

Spec == Init /\ [][Next]_vars

-----------------------------------------------------------------------------
FromCache(c) == reply[c] # None /\ result[c] = None

(***************************************************************************)
(* Who has been served has a reply with all of its parts, and nobody else  *)
(* has; what waits to be stored carries pulled headers only; a packet that *)
(* passes Validate is never indexed beyond its end (packet.go:75).         *)
(***************************************************************************)
TypeOK ==
    /\ pc \in [Clients -> {"arriving", "flight", "process", "done"}]
    /\ \A c \in Clients : (reply[c] # None) = (pc[c] = "done")
    /\ \A c \in Clients : reply[c] # None =>
          /\ reply[c].status \in Codes
          /\ DOMAIN reply[c].headers = Names
    /\ \A w \in pending : w.tile \in Bodies /\ DOMAIN w.headers \subseteq Pulled
    /\ entry # None /\ Validate(entry) => Decoded(entry).fit

(***************************************************************************)
(* A packet gives back the tile and the headers that were encoded, in      *)
(* whatever order the map was visited, just if every number fits its field *)
(* (encode.go:24): beyond that something is lost, and never silently only  *)
(* for some orders.                                                        *)
(***************************************************************************)
RoundTrip ==
    sample # None => \A order \in Orders(sample.headers) :
        LET packet == Encode(sample.tile, sample.headers, order)
        IN  /\ Validate(packet)
            /\ (Decoded(packet) = [fit |-> TRUE, tile |-> sample.tile,
                                   headers |-> sample.headers])
                  = Encodable(sample.tile, sample.headers)

(***************************************************************************)
(* A client that is served from the cache receives what an earlier one     *)
(* received from the upstream: the body and all headers, damaged entries   *)
(* notwithstanding (proxy.go:126).  The status alone may differ: what was  *)
(* first sent with 204 comes with 200.                                     *)
(***************************************************************************)
HitRepeats ==
    \A c \in Clients : FromCache(c) =>
        \E d \in Clients :
            /\ reply[d] # None /\ ~FromCache(d)
            /\ reply[d].status \in {200, 204}
            /\ reply[c] = [reply[d] EXCEPT !.status = 200]

(***************************************************************************)
(* An empty body with 200 has been sent for a tile that the upstream says  *)
(* has no content (helpers.go:203), never for a lost or refused one.       *)
(***************************************************************************)
EmptyMeansNoContent ==
    \A c \in Clients :
        (reply[c] # None /\ reply[c].status = 200 /\ reply[c].body = <<>>) =>
            \E d \in Clients : result[d] # None /\ result[d].code = 204

(***************************************************************************)
(* No reply has a header of the upstream's, whatever is configured to be   *)
(* pulled: helpers.go:165 copies a response that has yet to be filled.     *)
(* This is not what the code is meant to do, it is how far it is from it:  *)
(* config.go:62 says "additional headers to pull and cache from the        *)
(* tileserver".                                                            *)
(***************************************************************************)
HeadersNeverPulled ==
    \A c \in Clients : reply[c] # None => reply[c].headers = NoHeaders

-----------------------------------------------------------------------------
(***************************************************************************)
(* The inductive invariant: what is stored was sent to a client to whom    *)
(* the upstream answered.                                                  *)
(***************************************************************************)
Results == {[code |-> a.code, body |-> a.body, resp |-> NoHeaders] : a \in Answers}

\* What handle sends to whom it has a result for.
Sent(r) ==
    IF Accepts(r) THEN [status |-> r.code, headers |-> NoHeaders, body |-> r.body]
    ELSE [status |-> 500, headers |-> NoHeaders, body |-> <<>>]

\* Some client received this tile from the upstream.
Passed(tile) ==
    \E c \in Clients :
        /\ pc[c] = "done"
        /\ result[c] # None
        /\ Accepts(result[c])
        /\ result[c].body = tile

Stages ==
    /\ pc \in [Clients -> {"arriving", "flight", "process", "done"}]
    /\ result \in [Clients -> Results \cup {None}]
    /\ reply \in [Clients -> [status : Codes, headers : {NoHeaders}, body : Bodies] \cup {None}]
    /\ \A c \in Clients :
          /\ (reply[c] # None) = (pc[c] = "done")
          /\ pc[c] \in {"arriving", "flight"} => result[c] = None
          /\ pc[c] = "process" => result[c] # None

RepliesKnown ==
    \A c \in Clients : pc[c] = "done" =>
        \/ result[c] # None /\ reply[c] = Sent(result[c])
        \/ /\ result[c] = None
           /\ \E tile \in Bodies :
                 /\ Passed(tile)
                 /\ reply[c] = [status |-> 200, headers |-> NoHeaders, body |-> tile]

StoredKnown ==
    /\ \A w \in pending : \E tile \in Bodies :
          Passed(tile) /\ w = [tile |-> tile, headers |-> PullHeaders(NoHeaders)]
    /\ entry # None /\ Validate(entry) =>
          \E tile \in Bodies : \E order \in Orders(PullHeaders(NoHeaders)) :
              Passed(tile) /\ entry = Encode(tile, PullHeaders(NoHeaders), order)

DeliveryInv == Stages /\ RepliesKnown /\ StoredKnown
=============================================================================
