---------------------------- MODULE TileService ----------------------------
(***************************************************************************)
(* What LOD promises its clients, with no cache levels, goroutines, keys   *)
(* or flights: an answer carries data of the tile and the proxy that were  *)
(* asked for, and no data comes back once its last copy is gone: a copy is *)
(* made from another one or by reading the upstream.                       *)
(***************************************************************************)
EXTENDS LodTypes

VARIABLES
    version,    \* how often the upstream's data has changed
    copies,     \* copies[p][t]: the versions of tile t that proxy p's side holds
    asked,      \* what each request asked for
    answer      \* what each request was answered

svars == <<version, copies, asked, answer>>

Init ==
    /\ version = 0
    /\ copies = [p \in Proxies |-> [t \in Tiles |-> {}]]
    /\ asked = [r \in Requests |-> None]
    /\ answer = [r \in Requests |-> None]

Waiting(r) == asked[r] # None /\ answer[r] = None

Publish ==
    /\ version < MaxVersion
    /\ version' = version + 1
    /\ UNCHANGED <<copies, asked, answer>>

Ask(r, p, t) ==
    /\ asked[r] = None
    /\ answer[r] = None
    /\ asked' = [asked EXCEPT ![r] = [proxy |-> p, tile |-> t]]
    /\ UNCHANGED <<version, copies, answer>>

\* A request that names no tile is refused.
Refuse(r) ==
    /\ asked[r] = None
    /\ answer[r] = None
    /\ answer' = [answer EXCEPT ![r] = [code |-> 400, body |-> None]]
    /\ UNCHANGED <<version, copies, asked>>

\* The upstream is read, for a waiting request or for an operator who primes.
ReadUpstream(p, t) ==
    /\ copies' = [copies EXCEPT ![p][t] = @ \cup {version}]
    /\ UNCHANGED <<version, asked, answer>>

\* Copies may disappear: eviction, expiry, an admin call, a lost write.
Fewer ==
    /\ copies' \in [Proxies -> [Tiles -> SUBSET Nat]]
    /\ \A p \in Proxies, t \in Tiles : copies'[p][t] \subseteq copies[p][t]

Lose ==
    /\ Fewer
    /\ UNCHANGED <<version, asked, answer>>

\* An answer is a copy of what was asked for, or the admission of a failure.
Answer(r) ==
    /\ Waiting(r)
    /\ \/ \E v \in copies[asked[r].proxy][asked[r].tile] :
             answer' = [answer EXCEPT ![r] =
                [code |-> 200, body |-> [proxy |-> asked[r].proxy,
                                         tile |-> asked[r].tile, version |-> v]]]
       \/ answer' = [answer EXCEPT ![r] = [code |-> 500, body |-> None]]
    /\ Fewer
    /\ UNCHANGED <<version, asked>>

\* The service stops: whoever waits is disconnected.
Stop ==
    /\ answer' = [r \in Requests |->
                    IF Waiting(r) THEN [code |-> 0, body |-> None] ELSE answer[r]]
    /\ Fewer
    /\ UNCHANGED <<version, asked>>

Next ==
    \/ Publish
    \/ \E r \in Requests :
          \/ \E p \in Proxies, t \in Tiles : Ask(r, p, t)
          \/ Refuse(r)
          \/ Answer(r)
    \/ \E p \in Proxies, t \in Tiles : ReadUpstream(p, t)
    \/ Lose
    \/ Stop

Spec == Init /\ [][Next]_svars
=============================================================================
