--------------------------- MODULE LodProperties ---------------------------
(***************************************************************************)
(* What is asked of the LOD process.                                       *)
(***************************************************************************)
EXTENDS Lod

\* Packets that some party holds for key k and may still hand to a client or to
\* a cache level: stored, being written, fetched, or the result of a flight
\* that a request has yet to use.
Held(k) ==
    {mem[p][k] : p \in Proxies} \cup {redis[k]}
      \cup {w.packet : w \in {u \in writes : u.key = k}}
      \cup {got[r] : r \in {s \in Requests : pc[s] = "hit" /\ Key(s) = k}}
      \cup {ResultOf(r).packet : r \in
              {s \in Requests : /\ pc[s] \in {"lead", "wait", "process"}
                                /\ Key(s) = k
                                /\ call[joined[s]].state \in {"returned", "done"}}}

Copies(k) == Held(k) \ {None, Corrupt}

\* Two proxies or tiles never share a key.
Injective ==
    \A p, q \in Proxies, t, u \in Tiles :
        KeyOf[p][t] = KeyOf[q][u] => p = q /\ t = u

-----------------------------------------------------------------------------
(***************************************************************************)
(* Every packet held under a key is a packet of that key: no refresh, no   *)
(* late write, no shared flight and no restart files a tile elsewhere.     *)
(***************************************************************************)
FiledUnderItsKey == \A k \in Keys : \A d \in Copies(k) : KeyFor(d) = k

(***************************************************************************)
(* A 200 carries the tile and the proxy that were asked for, although      *)
(* flights and the Redis database are shared by all proxies.               *)
(***************************************************************************)
RightTile ==
    \A r \in Requests : (reply[r] # None /\ reply[r].code = 200) =>
        /\ reply[r].body # None
        /\ reply[r].body.proxy = task[r].proxy
        /\ reply[r].body.tile = task[r].tile

(***************************************************************************)
(* Once the last copy of old data is gone it stays gone: what appears      *)
(* under a key was there already or was read from the upstream just now.   *)
(* A flight whose result outlived its callers would break this.            *)
(***************************************************************************)
NoResurrection ==
    [][\A k \in Keys : \A d \in Copies(k)' : d \in Copies(k) \/ d.version = version]_vars

(***************************************************************************)
(* The flight table names only calls whose function or deferred function   *)
(* is still to run, so a Do that joins is woken; and whoever waits does so *)
(* for a call that is live or over.                                        *)
(***************************************************************************)
FlightsAreLive ==
    /\ \A k \in Keys : flight[k] # None =>
          /\ pc[flight[k]] = "lead"
          /\ Key(flight[k]) = k
    /\ \A r \in Requests : pc[r] = "wait" =>
          \/ Released(r)
          \/ /\ pc[joined[r]] = "lead"
             /\ call[joined[r]].state \in {"running", "returned"}

Leaders(k) == {r \in Requests : pc[r] = "lead" /\ Key(r) = k}
Forgetters(k) ==
    {r \in Requests : joined[r] # None /\ pc[r] \in {"panic", "done"} /\ Key(r) = k}

(***************************************************************************)
(* Upstream calls for one key are coalesced except that each deferred      *)
(* Forget may let one more begin: a burst of n misses costs at most one    *)
(* call plus one per request that already left.                            *)
(***************************************************************************)
BoundedStampede ==
    \A k \in Keys : Cardinality(Leaders(k)) <= 1 + Cardinality(Forgetters(k))

(***************************************************************************)
(* A lookup counts at most one hit or miss, however many levels it asks.   *)
(***************************************************************************)
CountedOnce ==
    \A p \in Proxies : hits[p] + misses[p] <=
        Cardinality({r \in Requests : /\ task[r] # None /\ task[r].proxy = p
                                      /\ pc[r] \notin {"mem", "redis"}})

(***************************************************************************)
(* A client is told 500 only when the upstream call failed it (proxy.go    *)
(* 63-66 and 92-96).                                                       *)
(***************************************************************************)
OnlyUpstreamFails ==
    [][\A r \in Requests : (/\ reply[r] = None
                            /\ reply'[r] # None
                            /\ reply'[r].code = 500) =>
            joined[r] # None /\ ResultOf(r).kind # "ok"]_vars

(***************************************************************************)
(* Every request that arrives is answered, and every admin call ends.      *)
(***************************************************************************)
EveryCallEnds == \A q \in Procs : Active(q) ~> ~Active(q)

-----------------------------------------------------------------------------
(***************************************************************************)
(* The inductive invariant: what keeps packets filed under their keys      *)
(* while they travel through flights, fetches and late writes.             *)
(***************************************************************************)
Filed(d, k) == d \in Packet /\ KeyFor(d) = k

\* Whoever works on a tile knows which.
TasksKnown ==
    \A q \in Procs : pc[q] \notin {"idle", "flush", "panic"} \cup Ended => task[q] \in Task

\* A request that has yet to begin has left no trace.
IdleIsBlank ==
    \A r \in Requests : pc[r] = "idle" => reply[r] = None

FetchedFiled == \A r \in Requests : pc[r] = "hit" => Filed(got[r], Key(r))

\* A call lives while its leader is in Do, and is led once.
CallsLed ==
    \A r \in Requests :
        /\ pc[r] = "lead" => joined[r] = r /\ call[r].state \in {"running", "returned"}
        /\ call[r].state \in {"running", "returned"} => pc[r] = "lead"
        /\ call[r].state = "done" => pc[r] \in {"process", "forget", "panic", "done"}

\* What a call returned belongs to the key of its leader.
CallsFiled ==
    \A r \in Requests : call[r].state \in {"returned", "done"} =>
        /\ task[r] \in Task
        /\ call[r].result \in Result
        /\ IF call[r].result.kind = "ok"
             THEN Filed(call[r].result.packet, Key(r))
             ELSE call[r].result.packet = None

FlightsLed ==
    \A k \in Keys : flight[k] # None => pc[flight[k]] = "lead" /\ Key(flight[k]) = k

\* Who waits for a call, or uses its result, has the key of its leader.
JoinsMatch ==
    \A r \in Requests :
        /\ pc[r] = "wait" => joined[r] # None /\ call[joined[r]].state # "none"
        /\ pc[r] = "process" => joined[r] # None /\ call[joined[r]].state = "done"
        /\ pc[r] \in {"wait", "process"} =>
              task[joined[r]] \in Task /\ Key(joined[r]) = Key(r)

StoredFiled ==
    /\ \A p \in Proxies, k \in Keys : mem[p][k] # None => Filed(mem[p][k], k)
    /\ \A k \in Keys : redis[k] \in Packet => Filed(redis[k], k)
    /\ \A w \in writes : Filed(w.packet, w.key)

RepliesFiled ==
    \A r \in Requests : (reply[r] # None /\ reply[r].code = 200) =>
        task[r] \in Task /\ Filed(reply[r].body, Key(r))

IInv ==
    /\ TypeOK
    /\ TasksKnown
    /\ IdleIsBlank
    /\ FetchedFiled
    /\ CallsLed
    /\ CallsFiled
    /\ FlightsLed
    /\ JoinsMatch
    /\ StoredFiled
    /\ RepliesFiled

-----------------------------------------------------------------------------
(***************************************************************************)
(* More of the inductive invariant, for what is counted and answered.      *)
(***************************************************************************)

\* A request has a task from its arrival on, and a reply from its first write to
\* the client on, which is data or an admitted failure.
RequestsInOrder ==
    \A r \in Requests :
        /\ pc[r] \notin {"flush", "prime"} \cup (Ended \ {"done"})
        /\ pc[r] = "idle" => task[r] = None
        /\ Active(r) => task[r] \in Task
        /\ pc[r] \notin {"forget", "done"} => reply[r] = None
        /\ pc[r] = "done" => reply[r] # None
        /\ pc[r] = "forget" => /\ joined[r] # None
                               /\ reply[r] # None => \/ reply[r].code = 200
                                                     \/ reply[r] = [code |-> 500, body |-> None]

\* Of the leaders for a key one can be joined; for each other one somebody has
\* removed an entry that was not his.
OneJoinable ==
    \A k \in Keys : Cardinality(Leaders(k) \ {flight[k]}) <= Cardinality(Forgetters(k))

\* Where every proxy has an in-memory level, a request panics because its
\* upstream call did.
PanicsExplained ==
    \A r \in Requests :
        pc[r] = "panic" \/ (pc[r] = "forget" /\ reply[r] = None) =>
            /\ joined[r] \in Requests
            /\ call[joined[r]].state = "done"
            /\ ResultOf(r).kind = "panic"

-----------------------------------------------------------------------------
(***************************************************************************)
(* LOD implements the abstract tile service.  A reply is an answer once    *)
(* the handler has returned; until then the data it carries counts as a    *)
(* copy.                                                                   *)
(***************************************************************************)
Written(k) == {reply[r].body : r \in {s \in Requests :
                  pc[s] = "forget" /\ Key(s) = k /\ reply[s] # None}}

Service == INSTANCE TileService WITH
    version <- version,
    copies <- [p \in Proxies |-> [t \in Tiles |->
                 {d.version : d \in (Copies(KeyOf[p][t]) \cup Written(KeyOf[p][t])) \ {None}}]],
    asked <- [r \in Requests |-> task[r]],
    answer <- [r \in Requests |-> IF pc[r] = "done" THEN reply[r] ELSE None]

ServiceSpec == Service!Spec

-----------------------------------------------------------------------------
(***************************************************************************)
(* Statements of the repository that the code does not keep.               *)
(***************************************************************************)

(***************************************************************************)
(* proxy.go:59: "ensuring only a single request is in flight at a given    *)
(* time".                                                                  *)
(***************************************************************************)
SingleUpstreamCall == \A k \in Keys : Cardinality(Leaders(k)) <= 1

(***************************************************************************)
(* README.md:113: "Separate internal cache instances per proxy".           *)
(***************************************************************************)
SeparateCaches ==
    \A p \in Proxies, k \in Keys : mem[p][k] # None => mem[p][k].proxy = p
=============================================================================
