-------------------------- MODULE LodRequestProofs --------------------------
(***************************************************************************)
(* What a request does from its arrival to its reply, for any number of    *)
(* proxies, tiles, keys, requests and admin calls: RequestsInOrder is      *)
(* shown to be inductive beside IInv, and then what is counted (upstream   *)
(* calls, hits and misses) and why a client is told of a failure.          *)
(***************************************************************************)
EXTENDS LodProofs, FiniteSetTheorems

\* Nothing of any request but r changes.
OthersStand(r) ==
    \A s \in Requests \ {r} :
        /\ pc'[s] = pc[s] /\ task'[s] = task[s] /\ Key(s)' = Key(s)
        /\ reply'[s] = reply[s] /\ joined'[s] = joined[s]

\* What a step may do to the request r that takes it.
Moves(r, from, to) == pc[r] \in from /\ pc'[r] \in to /\ OthersStand(r)

Lookups == {"mem", "redis", "delMem", "delRedis"}

-----------------------------------------------------------------------------
(***************************************************************************)
(* The steps of a request, as far as its own label, task, reply and flight *)
(* are concerned.                                                          *)
(***************************************************************************)

\* A change of one label changes no other.
LEMMA LabelMoves ==
    ASSUME IInv, NEW q \in Procs, NEW label, Goto(q, label)
    PROVE  /\ pc'[q] = label
           /\ \A s \in Requests : s # q => pc'[s] = pc[s]
BY DEF IInv, TypeOK, Goto, Procs

\* Nor does a reply to one client change another's.
LEMMA Responds ==
    ASSUME IInv, NEW r \in Requests, NEW code, NEW body, Respond(r, code, body)
    PROVE  /\ reply'[r] = [code |-> code, body |-> body]
           /\ \A s \in Requests : s # r => reply'[s] = reply[s]
BY DEF IInv, TypeOK, Respond

\* The arrival of a request, with a tile or without one.
LEMMA ArriveMoves ==
    ASSUME IInv, NEW r \in Requests,
           BadRequest(r) \/ \E p \in Proxies, t \in Tiles : Arrive(r, p, t)
    PROVE  /\ UNCHANGED <<flightVars, hits, misses>>
           /\ \/ /\ Moves(r, {"idle"}, {"mem", "redis"})
                 /\ task'[r] \in Task /\ reply'[r] = reply[r]
              \/ /\ Moves(r, {"idle"}, {"done"})
                 /\ task'[r] = task[r]
                 /\ reply'[r] = [code |-> 400, body |-> None]
<1>1. r \in Procs
    BY DEF Procs
<1>2. CASE BadRequest(r)
  <2>1. /\ pc[r] = "idle" /\ Goto(r, "done") /\ Respond(r, 400, None)
        /\ UNCHANGED <<task, flightVars, hits, misses>>
      BY <1>2 DEF BadRequest
  <2>2. pc'[r] = "done" /\ \A s \in Requests : s # r => pc'[s] = pc[s]
      BY <1>1, <2>1, LabelMoves
  <2>3. /\ reply'[r] = [code |-> 400, body |-> None]
        /\ \A s \in Requests : s # r => reply'[s] = reply[s]
      BY <2>1 DEF IInv, TypeOK, Respond
  <2> QED
      BY <2>1, <2>2, <2>3 DEF Moves, OthersStand, Key, flightVars
<1>3. ASSUME NEW p \in Proxies, NEW t \in Tiles, Arrive(r, p, t)
      PROVE  /\ UNCHANGED <<flightVars, hits, misses>>
             /\ Moves(r, {"idle"}, {"mem", "redis"})
             /\ task'[r] \in Task /\ reply'[r] = reply[r]
  <2>1. PICK label \in {"mem", "redis"} : Goto(r, label)
      BY <1>3 DEF Arrive, FetchStart
  <2>2. /\ pc[r] = "idle"
        /\ task' = [task EXCEPT ![r] = [proxy |-> p, tile |-> t]]
        /\ UNCHANGED <<flightVars, hits, misses, reply>>
      BY <1>3 DEF Arrive
  <2>3. pc'[r] = label /\ \A s \in Requests : s # r => pc'[s] = pc[s]
      BY <1>1, <2>1, LabelMoves
  <2>4. /\ task'[r] = [proxy |-> p, tile |-> t]
        /\ \A s \in Requests : s # r => task'[s] = task[s]
      BY <1>1, <2>2 DEF IInv, TypeOK, Procs
  <2> QED
      BY <2>1, <2>2, <2>3, <2>4 DEF Moves, OthersStand, Key, Task, flightVars
<1> QED
    BY <1>2, <1>3

\* A lookup ends in a panic only if the proxy has no in-memory level (cache.go:272).
LEMMA LookupMoves ==
    ASSUME IInv, NEW r \in Requests, Lookup(r)
    PROVE  /\ UNCHANGED <<task, reply, flightVars>>
           /\ \/ Moves(r, Lookups, {"delMem", "delRedis", "redis", "hit", "miss"})
              \/ task[r].proxy \notin MemEnabled /\ Moves(r, Lookups, {"panic"})
<1>1. r \in Procs /\ UNCHANGED <<task, reply, flightVars>>
    BY DEF Lookup, FetchMem, FetchRedis, InvalidateMem, InvalidateRedis, Procs
<1>2. pc[r] \in Lookups
    BY DEF Lookup, FetchMem, FetchRedis, InvalidateMem, InvalidateRedis, Lookups
<1>3. PICK label : /\ Goto(r, label)
                   /\ \/ label \in {"delMem", "delRedis", "redis", "hit", "miss"}
                      \/ label = "panic" /\ task[r].proxy \notin MemEnabled
    BY DEF Lookup, FetchMem, FetchRedis, InvalidateMem, InvalidateRedis, Deliver,
           InvalidateStart, InvalidateReturns
<1>4. pc'[r] = label /\ \A s \in Requests : s # r => pc'[s] = pc[s]
    BY <1>1, <1>3, LabelMoves
<1>5. OthersStand(r)
    BY <1>1, <1>4 DEF OthersStand, Key, flightVars
<1> QED
    BY <1>1, <1>2, <1>3, <1>4, <1>5 DEF Moves

\* Do leads a new flight if there is none, and joins the one there is.
LEMMA StartFlightMoves ==
    ASSUME IInv, NEW r \in Requests, StartFlight(r)
    PROVE  /\ UNCHANGED <<task, reply, hits, misses>>
           /\ Moves(r, {"miss"}, {"lead", "wait"})
           /\ joined'[r] \in Requests
           /\ \/ pc'[r] = "wait" /\ UNCHANGED <<flight, call>>
              \/ /\ pc'[r] = "lead" /\ Key(r) \in Keys
                 /\ flight[Key(r)] = None
                 /\ flight' = [flight EXCEPT ![Key(r)] = r]
                 /\ call' = [call EXCEPT ![r] = [state |-> "running", result |-> None]]
<1>1. pc[r] = "miss" /\ UNCHANGED <<task, reply, hits, misses>>
    BY DEF StartFlight
<1>2. r \in Procs /\ Key(r) \in Keys
    BY <1>1, FlightTask
<1>3. PICK label \in {"lead", "wait"}, l \in Requests :
         /\ Goto(r, label)
         /\ joined' = [joined EXCEPT ![r] = l]
         /\ \/ label = "wait" /\ UNCHANGED <<flight, call>>
            \/ /\ label = "lead" /\ flight[Key(r)] = None
               /\ flight' = [flight EXCEPT ![Key(r)] = r]
               /\ call' = [call EXCEPT ![r] = [state |-> "running", result |-> None]]
  <2>1. CASE Lead(r, Key(r)) /\ Goto(r, "lead")
      BY <2>1 DEF Lead
  <2>2. CASE Join(r, Key(r)) /\ Goto(r, "wait")
    <3>1. flight[Key(r)] \in Requests
        BY <1>2, <2>2 DEF Join, IInv, TypeOK
    <3> QED
        BY <2>2, <3>1 DEF Join
  <2> QED
      BY <2>1, <2>2 DEF StartFlight
<1>4. pc'[r] = label /\ \A s \in Requests : s # r => pc'[s] = pc[s]
    BY <1>2, <1>3, LabelMoves
<1>5. joined'[r] = l /\ \A s \in Requests : s # r => joined'[s] = joined[s]
    BY <1>3 DEF IInv, TypeOK
<1>6. OthersStand(r)
    BY <1>1, <1>4, <1>5 DEF OthersStand, Key
<1> QED
    BY <1>1, <1>2, <1>3, <1>4, <1>5, <1>6 DEF Moves

\* A call returns in the goroutine that leads it.
LEMMA AnswerMoves ==
    ASSUME IInv, NEW r \in Requests, UpstreamAnswers(r)
    PROVE  /\ UNCHANGED <<pc, task, reply, flight, joined, hits, misses>>
           /\ call[r].state = "running"
           /\ \A s \in Requests : s # r => call'[s] = call[s]
<1>1. /\ UNCHANGED <<pc, task, reply, flight, joined, hits, misses>>
      /\ call[r].state = "running"
    BY DEF UpstreamAnswers, Return, cacheVars
<1>2. PICK d : call' = [call EXCEPT ![r] = d]
    BY DEF UpstreamAnswers, Return
<1> QED
    BY <1>1, <1>2 DEF IInv, TypeOK

\* The end of Do, for a leader and for who has waited.
LEMMA DoEndMoves ==
    ASSUME IInv, NEW r \in Requests, FinishFlight(r) \/ WakeUp(r)
    PROVE  /\ UNCHANGED <<task, reply, joined, hits, misses>>
           /\ Moves(r, {"lead", "wait"}, {"process"})
           /\ \/ UNCHANGED flight /\ pc[r] = "wait"
              \/ /\ pc[r] = "lead" /\ Key(r) \in Keys
                 /\ flight' = [flight EXCEPT ![Key(r)] = IF @ = r THEN None ELSE @]
           /\ \A s \in Requests : /\ call'[s].result = call[s].result
                                  /\ call[s].state = "done" => call'[s].state = "done"
<1>1. /\ pc[r] \in {"lead", "wait"} /\ Goto(r, "process")
      /\ UNCHANGED <<task, reply, joined, hits, misses>>
    BY DEF FinishFlight, WakeUp, Finish, flightVars
<1>2. r \in Procs /\ Key(r) \in Keys
    BY <1>1, FlightTask
<1>3. pc'[r] = "process" /\ \A s \in Requests : s # r => pc'[s] = pc[s]
    BY <1>1, <1>2, LabelMoves
<1>4. Moves(r, {"lead", "wait"}, {"process"})
    BY <1>1, <1>3 DEF Moves, OthersStand, Key
<1>5. CASE WakeUp(r)
    BY <1>1, <1>4, <1>5 DEF WakeUp, flightVars
<1>6. CASE FinishFlight(r)
  <2>1. /\ pc[r] = "lead"
        /\ call' = [call EXCEPT ![r].state = "done"]
        /\ flight' = [flight EXCEPT ![Key(r)] = IF @ = r THEN None ELSE @]
      BY <1>6 DEF FinishFlight, Finish
  <2>2. \A s \in Requests : /\ call'[s].result = call[s].result
                            /\ call[s].state = "done" => call'[s].state = "done"
      BY <2>1 DEF IInv, TypeOK, Call
  <2> QED
      BY <1>1, <1>2, <1>4, <2>1, <2>2
<1> QED
    BY <1>5, <1>6

\* A handler writes data, admits a failure, or panics with its call.
LEMMA UseResultMoves ==
    ASSUME IInv, NEW r \in Requests, UseResult(r)
    PROVE  /\ UNCHANGED <<task, flightVars, hits, misses>>
           /\ Moves(r, {"process"}, {"forget"})
           /\ \/ /\ reply'[r] = [code |-> 200, body |-> ResultOf(r).packet]
                 /\ ResultOf(r).kind = "ok"
              \/ /\ reply'[r] = [code |-> 500, body |-> None]
                 /\ ResultOf(r).kind # "ok"
              \/ reply'[r] = reply[r] /\ ResultOf(r).kind = "panic"
<1>1. /\ pc[r] = "process" /\ Goto(r, "forget")
      /\ UNCHANGED <<task, flightVars, hits, misses>>
    BY DEF UseResult
<1>2. pc'[r] = "forget" /\ \A s \in Requests : s # r => pc'[s] = pc[s]
    BY <1>1, LabelMoves DEF Procs
<1>3. \/ Respond(r, 200, ResultOf(r).packet) /\ ResultOf(r).kind = "ok"
      \/ Respond(r, 500, None) /\ ResultOf(r).kind # "ok"
      \/ UNCHANGED reply /\ ResultOf(r).kind = "panic"
    BY DEF UseResult
<1>4. \A s \in Requests : s # r => reply'[s] = reply[s]
    BY <1>3, Responds
<1>5. \/ reply'[r] = [code |-> 200, body |-> ResultOf(r).packet] /\ ResultOf(r).kind = "ok"
      \/ reply'[r] = [code |-> 500, body |-> None] /\ ResultOf(r).kind # "ok"
      \/ reply'[r] = reply[r] /\ ResultOf(r).kind = "panic"
    BY <1>3, Responds
<1>6. OthersStand(r)
    BY <1>1, <1>2, <1>4 DEF OthersStand, Key, flightVars
<1> QED
    BY <1>1, <1>2, <1>5, <1>6 DEF Moves

\* The deferred Forget, and where the handler ends.
LEMMA ForgetMoves ==
    ASSUME IInv, NEW r \in Requests, ForgetKey(r)
    PROVE  /\ UNCHANGED <<task, reply, call, joined, hits, misses>>
           /\ Moves(r, {"forget"}, {IF reply[r] = None THEN "panic" ELSE "done"})
           /\ Key(r) \in Keys
           /\ flight' = [flight EXCEPT ![Key(r)] = None]
<1>1. /\ UNCHANGED <<task, reply, call, joined, hits, misses>>
      /\ pc[r] = "forget" /\ Goto(r, IF reply[r] = None THEN "panic" ELSE "done")
      /\ flight' = [flight EXCEPT ![Key(r)] = None]
    BY DEF ForgetKey, Forget
<1>2. r \in Procs /\ Key(r) \in Keys
    BY <1>1, FlightTask
<1>3. /\ pc'[r] = IF reply[r] = None THEN "panic" ELSE "done"
      /\ \A s \in Requests : s # r => pc'[s] = pc[s]
    BY <1>1, <1>2, LabelMoves
<1> QED
    BY <1>1, <1>2, <1>3 DEF Moves, OthersStand, Key

\* The other ends of a request: served from the cache, or recovered.
LEMMA EndMoves ==
    ASSUME IInv, NEW r \in Requests, ServeCached(r) \/ RecoverPanic(r)
    PROVE  /\ UNCHANGED <<task, flightVars, hits, misses>>
           /\ \/ /\ Moves(r, {"hit"}, {"done"})
                 /\ reply'[r] = [code |-> 200, body |-> got[r]]
              \/ /\ Moves(r, {"panic"}, {"done"})
                 /\ reply'[r] = [code |-> 500, body |-> None]
<1>1. /\ UNCHANGED <<task, flightVars, hits, misses>> /\ Goto(r, "done")
      /\ \/ pc[r] = "hit" /\ Respond(r, 200, got[r])
         \/ pc[r] = "panic" /\ Respond(r, 500, None)
    BY DEF ServeCached, RecoverPanic
<1>2. pc'[r] = "done" /\ \A s \in Requests : s # r => pc'[s] = pc[s]
    BY <1>1, LabelMoves DEF Procs
<1>3. /\ \A s \in Requests : s # r => reply'[s] = reply[s]
      /\ \/ pc[r] = "hit" /\ reply'[r] = [code |-> 200, body |-> got[r]]
         \/ pc[r] = "panic" /\ reply'[r] = [code |-> 500, body |-> None]
    BY <1>1 DEF IInv, TypeOK, Respond
<1>4. OthersStand(r)
    BY <1>1, <1>2, <1>3 DEF OthersStand, Key, flightVars
<1> QED
    BY <1>1, <1>2, <1>3, <1>4 DEF Moves

\* All of them but the return of a call leave the other requests alone.
LEMMA MoversLeaveOthers ==
    ASSUME IInv, NEW r \in Requests, ~UpstreamAnswers(r),
           BadRequest(r) \/ (\E p \in Proxies, t \in Tiles : Arrive(r, p, t)) \/ RequestStep(r)
    PROVE  OthersStand(r)
<1>1. CASE BadRequest(r) \/ \E p \in Proxies, t \in Tiles : Arrive(r, p, t)
    BY <1>1, ArriveMoves DEF Moves
<1>2. CASE Lookup(r)
    BY <1>2, LookupMoves DEF Moves
<1>3. CASE StartFlight(r)
    BY <1>3, StartFlightMoves DEF Moves
<1>4. CASE FinishFlight(r) \/ WakeUp(r)
    BY <1>4, DoEndMoves DEF Moves
<1>5. CASE UseResult(r)
    BY <1>5, UseResultMoves DEF Moves
<1>6. CASE ForgetKey(r)
    BY <1>6, ForgetMoves DEF Moves
<1>7. CASE ServeCached(r) \/ RecoverPanic(r)
    BY <1>7, EndMoves DEF Moves
<1> QED
    BY <1>1, <1>2, <1>3, <1>4, <1>5, <1>6, <1>7 DEF RequestStep

\* A process that stops breaks the connections of whoever has no reply.
LEMMA RestartMoves ==
    ASSUME IInv, Restart
    PROVE  /\ UNCHANGED <<task, redis>>
           /\ \A r \in Requests :
                 /\ Key(r)' = Key(r) /\ joined'[r] = None
                 /\ \/ /\ Active(r) /\ pc'[r] = "done"
                       /\ reply'[r] = [code |-> 0, body |-> None]
                    \/ ~Active(r) /\ pc'[r] = pc[r] /\ reply'[r] = reply[r]
           /\ \A p \in Proxies : hits'[p] = 0 /\ misses'[p] = 0
<1>1. /\ pc' = [q \in Procs |-> IF Active(q) THEN "done" ELSE pc[q]]
      /\ joined' = [r \in Requests |-> None]
      /\ reply' = [r \in Requests |->
                      IF Active(r) THEN [code |-> 0, body |-> None] ELSE reply[r]]
      /\ hits' = [p \in Proxies |-> 0]
      /\ misses' = [p \in Proxies |-> 0]
      /\ UNCHANGED <<task, redis>>
    BY DEF Restart, CacheRestart, FlightRestart
<1> QED
    BY <1>1 DEF Procs, Key

\* What admin calls, late writes, the upstream and the levels do by themselves.
Elsewhere ==
    \/ \E a \in Admins :
          \/ \E p \in Proxies, t \in Tiles : StartInvalidate(a, p, t) \/ StartPrime(a, p, t)
          \/ \E P \in {Proxies} \cup {{p} : p \in Proxies} : StartFlush(a, P)
          \/ AdminStep(a)
    \/ \E w \in writes : ApplyWrite(w)
    \/ Publish
    \/ Decay
    \/ UNCHANGED vars

\* None of it concerns a request.
LEMMA ElsewhereMoves ==
    ASSUME IInv, Elsewhere
    PROVE  /\ UNCHANGED <<reply, flightVars, hits, misses>>
           /\ \A r \in Requests : pc'[r] = pc[r] /\ task'[r] = task[r] /\ Key(r)' = Key(r)
<1>1. ASSUME NEW a \in Admins, NEW p \in Proxies, NEW t \in Tiles,
             StartInvalidate(a, p, t) \/ StartPrime(a, p, t)
      PROVE  /\ UNCHANGED <<reply, flightVars, hits, misses>>
             /\ \A r \in Requests : pc'[r] = pc[r] /\ task'[r] = task[r] /\ Key(r)' = Key(r)
  <2>1. /\ UNCHANGED <<reply, flightVars, hits, misses>>
        /\ task' = [task EXCEPT ![a] = [proxy |-> p, tile |-> t]]
        /\ \E label : Goto(a, label)
      BY <1>1 DEF StartInvalidate, StartPrime
  <2>2. \A r \in Requests : r \in Procs /\ r # a
      BY ProcsAssumption DEF Procs
  <2>3. \A r \in Requests : task'[r] = task[r]
      BY <2>1, <2>2 DEF IInv, TypeOK
  <2>4. \A r \in Requests : pc'[r] = pc[r]
      BY <2>1, <2>2, LabelMoves DEF Procs
  <2> QED
      BY <2>1, <2>3, <2>4 DEF Key
<1>2. ASSUME NEW a \in Admins,
             AdminStep(a) \/ \E P \in {Proxies} \cup {{p} : p \in Proxies} : StartFlush(a, P)
      PROVE  /\ UNCHANGED <<reply, flightVars, hits, misses>>
             /\ \A r \in Requests : pc'[r] = pc[r] /\ task'[r] = task[r] /\ Key(r)' = Key(r)
  <2>1. /\ UNCHANGED <<task, reply, flightVars, hits, misses>>
        /\ UNCHANGED pc \/ \E label : Goto(a, label)
      BY <1>2 DEF AdminStep, StartFlush, EndFlush, Prime, FlushShard, InvalidateMem,
                  InvalidateRedis, InvalidateReturns
  <2>2. \A r \in Requests : pc'[r] = pc[r]
      BY <2>1, LabelMoves, ProcsAssumption DEF Procs
  <2> QED
      BY <2>1, <2>2 DEF Key
<1>3. CASE (\E w \in writes : ApplyWrite(w)) \/ Publish \/ Decay \/ UNCHANGED vars
  <2>1. UNCHANGED <<pc, task, reply, flightVars, hits, misses>>
      BY <1>3 DEF ApplyWrite, WriteMem, WriteRedis, Publish, Decay, MemDrop, RedisDrop,
                  RedisCorrupt, vars, handlerVars, cacheVars
  <2> QED
      BY <2>1 DEF Key
<1> QED
    BY <1>1, <1>2, <1>3 DEF Elsewhere

\* Every step is one of these.
LEMMA StepKinds ==
    ASSUME [Next]_vars
    PROVE  \/ Elsewhere
           \/ Restart
           \/ \E r \in Requests :
                 \/ BadRequest(r) \/ \E p \in Proxies, t \in Tiles : Arrive(r, p, t)
                 \/ RequestStep(r)
BY DEF Next, Elsewhere, PrimeCrash

-----------------------------------------------------------------------------
(***************************************************************************)
(* Requests keep their order.                                              *)
(***************************************************************************)

\* RequestsInOrder, for one request.
InOrder(r) ==
    /\ pc[r] \notin {"flush", "prime"} \cup (Ended \ {"done"})
    /\ pc[r] = "idle" => task[r] = None
    /\ Active(r) => task[r] \in Task
    /\ pc[r] \notin {"forget", "done"} => reply[r] = None
    /\ pc[r] = "done" => reply[r] # None
    /\ pc[r] = "forget" => /\ joined[r] # None
                           /\ reply[r] # None => \/ reply[r].code = 200
                                                 \/ reply[r] = [code |-> 500, body |-> None]

\* A reply is not nothing.
LEMMA ReplyIsSome ==
    ASSUME NEW code \in {0, 200, 400, 500}, NEW body \in Packet \cup {None}
    PROVE  [code |-> code, body |-> body] # None
BY ValueAssumption DEF Reply

\* The request that steps stays in order.
LEMMA StepInOrder ==
    ASSUME IInv, NEW r \in Requests, InOrder(r),
           BadRequest(r) \/ (\E p \in Proxies, t \in Tiles : Arrive(r, p, t)) \/ RequestStep(r)
    PROVE  InOrder(r)'
<1> USE DEF InOrder, Active, Ended
<1>1. CASE BadRequest(r) \/ \E p \in Proxies, t \in Tiles : Arrive(r, p, t)
    BY <1>1, ArriveMoves, ReplyIsSome DEF Moves
<1>2. CASE Lookup(r)
    BY <1>2, LookupMoves DEF Moves, Lookups
<1>3. CASE StartFlight(r)
    BY <1>3, StartFlightMoves DEF Moves
<1>4. CASE UpstreamAnswers(r)
    BY <1>4, AnswerMoves
<1>5. CASE FinishFlight(r) \/ WakeUp(r)
    BY <1>5, DoEndMoves DEF Moves
<1>6. CASE UseResult(r)
  <2>1. /\ pc[r] = "process" /\ pc'[r] = "forget"
        /\ UNCHANGED <<task, flightVars>>
      BY <1>6, UseResultMoves DEF Moves
  <2>2. \/ reply'[r].code = 200
        \/ reply'[r] = [code |-> 500, body |-> None]
        \/ reply'[r] = None
    <3> HIDE DEF InOrder, Active, Ended
    <3>1. \/ reply'[r] = [code |-> 200, body |-> ResultOf(r).packet]
          \/ reply'[r] = [code |-> 500, body |-> None]
          \/ reply'[r] = reply[r]
        BY <1>6, UseResultMoves
    <3>2. reply[r] = None
        BY <2>1 DEF InOrder
    <3> QED
        BY <3>1, <3>2
  <2>3. joined'[r] # None
      BY <2>1 DEF IInv, JoinsMatch, flightVars
  <2>4. task'[r] \in Task
      BY <2>1
  <2> HIDE DEF InOrder
  <2> QED
      BY <2>1, <2>2, <2>3, <2>4 DEF InOrder
<1>7. CASE ForgetKey(r)
    BY <1>7, ForgetMoves DEF Moves
<1>8. CASE ServeCached(r) \/ RecoverPanic(r)
  <2>1. got[r] \in Packet \cup {None}
      BY DEF IInv, TypeOK
  <2>2. pc'[r] = "done" /\ UNCHANGED task
      BY <1>8, EndMoves DEF Moves
  <2>3. \/ reply'[r] = [code |-> 200, body |-> got[r]]
        \/ reply'[r] = [code |-> 500, body |-> None]
      BY <1>8, EndMoves
  <2>4. reply'[r] # None
      BY <2>1, <2>3, ReplyIsSome
  <2> QED
      BY <2>2, <2>4
<1> QED
    BY <1>1, <1>2, <1>3, <1>4, <1>5, <1>6, <1>7, <1>8 DEF RequestStep

\* So do all others.
LEMMA OrderKept ==
    ASSUME IInv, RequestsInOrder, [Next]_vars
    PROVE  RequestsInOrder'
<1>1. \A s \in Requests : InOrder(s)
    BY DEF RequestsInOrder, InOrder
<1> SUFFICES ASSUME NEW s \in Requests
             PROVE  InOrder(s)'
    BY DEF RequestsInOrder, InOrder
<1>2. CASE Elsewhere
    BY <1>1, <1>2, ElsewhereMoves DEF InOrder, Active, flightVars
<1>3. CASE Restart
    BY <1>1, <1>3, RestartMoves, ReplyIsSome DEF InOrder, Active, Ended
<1>4. ASSUME NEW r \in Requests,
             BadRequest(r) \/ (\E p \in Proxies, t \in Tiles : Arrive(r, p, t)) \/ RequestStep(r)
      PROVE  InOrder(s)'
  <2>1. CASE s = r
      BY <1>1, <1>4, <2>1, StepInOrder
  <2>2. CASE s # r
    <3>1. /\ pc'[s] = pc[s] /\ task'[s] = task[s]
          /\ reply'[s] = reply[s] /\ joined'[s] = joined[s]
      <4>1. CASE UpstreamAnswers(r)
          BY <4>1, AnswerMoves
      <4>2. CASE ~UpstreamAnswers(r)
        <5>1. OthersStand(r)
            BY <1>4, <4>2, MoversLeaveOthers
        <5> QED
            BY <2>2, <5>1 DEF OthersStand
      <4> QED
          BY <4>1, <4>2
    <3> QED
        BY <1>1, <3>1 DEF InOrder, Active
  <2> QED
      BY <2>1, <2>2
<1> QED
    BY <1>2, <1>3, <1>4, StepKinds

\* A process that begins has no requests yet.
LEMMA OrderAtFirst == Init => RequestsInOrder
<1> SUFFICES ASSUME Init, NEW r \in Requests
             PROVE  InOrder(r)
    BY DEF RequestsInOrder, InOrder
<1>1. pc[r] = "idle" /\ task[r] = None /\ reply[r] = None
    BY DEF Init, HandlerInit, CacheInit, Procs
<1> QED
    BY <1>1 DEF InOrder, Active, Ended

\* Requests are in order, at any time.
THEOREM RequestOrder == Spec => [](IInv /\ RequestsInOrder)
<1>1. Init => RequestsInOrder
    BY OrderAtFirst
<1>2. IInv /\ RequestsInOrder /\ [Next]_vars => RequestsInOrder'
    BY OrderKept
<1> QED
    BY <1>1, <1>2, Invariance, PTL DEF Spec

-----------------------------------------------------------------------------
(***************************************************************************)
(* How many upstream calls there are for a key.                            *)
(***************************************************************************)

\* A bound that stands when the bounded set shrinks and the other one grows.
LEMMA StillAtMost ==
    ASSUME NEW A, NEW B, NEW A2, NEW B2,
           IsFiniteSet(A), IsFiniteSet(B2),
           A2 \subseteq A, B \subseteq B2,
           Cardinality(A) <= Cardinality(B)
    PROVE  Cardinality(A2) <= Cardinality(B2)
<1>1. /\ Cardinality(A) \in Nat /\ Cardinality(A2) \in Nat
      /\ Cardinality(A2) <= Cardinality(A)
    BY FS_Subset, FS_CardinalityType
<1>2. /\ Cardinality(B) \in Nat /\ Cardinality(B2) \in Nat
      /\ Cardinality(B) <= Cardinality(B2)
    BY FS_Subset, FS_CardinalityType
<1> QED
    BY <1>1, <1>2

\* An element more makes a set larger by one at most.
LEMMA OneMore ==
    ASSUME NEW S, NEW x, IsFiniteSet(S)
    PROVE  /\ IsFiniteSet(S \cup {x})
           /\ Cardinality(S) \in Nat /\ Cardinality(S \cup {x}) \in Nat
           /\ Cardinality(S \cup {x}) <= Cardinality(S) + 1
           /\ x \notin S => Cardinality(S \cup {x}) = Cardinality(S) + 1
<1>1. /\ IsFiniteSet(S \cup {x})
      /\ Cardinality(S \cup {x}) = IF x \in S THEN Cardinality(S) ELSE Cardinality(S) + 1
    BY FS_AddElement
<1>2. Cardinality(S) \in Nat
    BY FS_CardinalityType
<1> QED
    BY <1>1, <1>2

\* A bound that stands when one more is balanced by one more.
LEMMA OneMoreEach ==
    ASSUME NEW A, NEW B, NEW A2, NEW B2, NEW x, NEW y,
           IsFiniteSet(A), IsFiniteSet(B2),
           A2 \subseteq A \cup {x}, B \subseteq B2, y \in B2 \ B,
           Cardinality(A) <= Cardinality(B)
    PROVE  Cardinality(A2) <= Cardinality(B2)
<1>1. IsFiniteSet(B)
    BY FS_Subset
<1>2. /\ Cardinality(A) \in Nat /\ Cardinality(B) \in Nat
      /\ IsFiniteSet(A \cup {x}) /\ IsFiniteSet(B \cup {y})
      /\ Cardinality(A \cup {x}) <= Cardinality(A) + 1
      /\ Cardinality(B \cup {y}) = Cardinality(B) + 1
  <2>1. Cardinality(A) \in Nat /\ IsFiniteSet(A \cup {x})
        /\ Cardinality(A \cup {x}) <= Cardinality(A) + 1
      BY OneMore
  <2>2. Cardinality(B) \in Nat /\ IsFiniteSet(B \cup {y})
        /\ Cardinality(B \cup {y}) = Cardinality(B) + 1
      BY <1>1, OneMore
  <2> QED
      BY <2>1, <2>2
<1>3. /\ Cardinality(A2) \in Nat /\ Cardinality(A2) <= Cardinality(A \cup {x})
    BY <1>2, FS_Subset, FS_CardinalityType
<1>4. /\ Cardinality(B2) \in Nat /\ Cardinality(B \cup {y}) <= Cardinality(B2)
  <2>1. B \cup {y} \subseteq B2
      OBVIOUS
  <2> QED
      BY <2>1, FS_Subset, FS_CardinalityType
<1>5. Cardinality(A \cup {x}) \in Nat
    BY <1>2, FS_CardinalityType
<1> QED
    BY <1>2, <1>3, <1>4, <1>5

\* The leaders for k that nobody can join any more.
Unjoinable(k) == Leaders(k) \ {flight[k]}

\* A step of a request other than the deferred Forget leaves no more of them
\* than there were, and takes nobody out of those who have forgotten.
LEMMA StepCounts ==
    ASSUME IInv, RequestsInOrder, NEW k \in Keys, NEW r \in Requests, ~ForgetKey(r),
           BadRequest(r) \/ (\E p \in Proxies, t \in Tiles : Arrive(r, p, t)) \/ RequestStep(r)
    PROVE  Unjoinable(k)' \subseteq Unjoinable(k) /\ Forgetters(k) \subseteq Forgetters(k)'
<1> USE DEF Unjoinable, Leaders, Forgetters
<1>1. CASE BadRequest(r) \/ \E p \in Proxies, t \in Tiles : Arrive(r, p, t)
    BY <1>1, ArriveMoves DEF Moves, OthersStand, flightVars
<1>2. CASE Lookup(r)
    BY <1>2, LookupMoves DEF Moves, OthersStand, Lookups, flightVars
<1>3. CASE StartFlight(r)
  <2>1. /\ Moves(r, {"miss"}, {"lead", "wait"})
        /\ \/ pc'[r] = "wait" /\ UNCHANGED <<flight, call>>
           \/ /\ pc'[r] = "lead" /\ Key(r) \in Keys
              /\ flight[Key(r)] = None
              /\ flight' = [flight EXCEPT ![Key(r)] = r]
      BY <1>3, StartFlightMoves
  <2>2. Key(r)' = Key(r)
      BY <1>3 DEF StartFlight, Key
  <2>3. CASE pc'[r] = "wait" /\ UNCHANGED flight
      BY <2>1, <2>2, <2>3 DEF Moves, OthersStand
  <2>4. CASE /\ pc'[r] = "lead" /\ Key(r) \in Keys
             /\ flight[Key(r)] = None
             /\ flight' = [flight EXCEPT ![Key(r)] = r]
    <3>1. flight'[k] = IF k = Key(r) THEN r ELSE flight[k]
        BY <2>4 DEF IInv, TypeOK
    <3>2. flight'[k] # r => Key(r) # k
        BY <3>1
    <3>3. \A s \in Requests : s # r /\ flight[k] = s => flight'[k] = s
        BY <2>4, <3>1, ValueAssumption
    <3>4. Unjoinable(k)' \subseteq Unjoinable(k)
        BY <2>1, <2>2, <3>2, <3>3 DEF Moves, OthersStand
    <3>5. Forgetters(k) \subseteq Forgetters(k)'
        BY <2>1 DEF Moves, OthersStand
    <3> QED
        BY <3>4, <3>5
  <2> QED
      BY <2>1, <2>3, <2>4
<1>4. CASE UpstreamAnswers(r)
    BY <1>4, AnswerMoves DEF Key
<1>5. CASE FinishFlight(r) \/ WakeUp(r)
  <2>1. /\ Moves(r, {"lead", "wait"}, {"process"})
        /\ \/ UNCHANGED flight
           \/ /\ Key(r) \in Keys
              /\ flight' = [flight EXCEPT ![Key(r)] = IF @ = r THEN None ELSE @]
      BY <1>5, DoEndMoves
  <2>2. flight'[k] = flight[k] \/ flight[k] = r
      BY <2>1 DEF IInv, TypeOK
  <2> QED
      BY <2>1, <2>2 DEF Moves, OthersStand
<1>6. CASE UseResult(r)
    BY <1>6, UseResultMoves DEF Moves, OthersStand, flightVars
<1>7. CASE ServeCached(r) \/ RecoverPanic(r)
  <2>1. UNCHANGED <<task, flight, joined>> /\ pc[r] \in {"hit", "panic"}
        /\ pc'[r] = "done" /\ OthersStand(r)
      BY <1>7, EndMoves DEF Moves, flightVars
  <2> QED
      BY <2>1 DEF OthersStand, Key
<1> QED
    BY <1>1, <1>2, <1>3, <1>4, <1>5, <1>6, <1>7 DEF RequestStep

\* Every step leaves each unjoinable leader a request that forgot a flight.
LEMMA JoinableKept ==
    ASSUME IsFiniteSet(Requests), IInv, RequestsInOrder, OneJoinable, [Next]_vars
    PROVE  OneJoinable'
<1> SUFFICES ASSUME NEW k \in Keys
             PROVE  Cardinality(Unjoinable(k)') <= Cardinality(Forgetters(k)')
    BY DEF OneJoinable, Unjoinable
<1>1. /\ IsFiniteSet(Unjoinable(k)) /\ IsFiniteSet(Unjoinable(k)')
      /\ IsFiniteSet(Forgetters(k)) /\ IsFiniteSet(Forgetters(k)')
  <2>1. /\ Unjoinable(k) \in SUBSET Requests /\ Unjoinable(k)' \in SUBSET Requests
        /\ Forgetters(k) \in SUBSET Requests /\ Forgetters(k)' \in SUBSET Requests
      BY DEF Unjoinable, Leaders, Forgetters
  <2> QED
      BY <2>1, FS_Subset
<1>2. Cardinality(Unjoinable(k)) <= Cardinality(Forgetters(k))
    BY DEF OneJoinable, Unjoinable
<1>3. CASE Elsewhere
  <2>1. Unjoinable(k)' \subseteq Unjoinable(k) /\ Forgetters(k) \subseteq Forgetters(k)'
      BY <1>3, ElsewhereMoves DEF Unjoinable, Leaders, Forgetters, flightVars
  <2> QED
      BY <1>1, <1>2, <2>1, StillAtMost
<1>4. CASE Restart
  <2>1. Unjoinable(k)' = {}
      BY <1>4, RestartMoves DEF Unjoinable, Leaders, Active, Ended
  <2> QED
      BY <1>1, <2>1, FS_EmptySet, FS_CardinalityType
<1>5. ASSUME NEW r \in Requests, ForgetKey(r)
      PROVE  Cardinality(Unjoinable(k)') <= Cardinality(Forgetters(k)')
  <2>1. /\ Moves(r, {"forget"}, {"panic", "done"})
        /\ flight' = [flight EXCEPT ![Key(r)] = None]
        /\ Key(r) \in Keys /\ UNCHANGED <<task, joined>>
      BY <1>5, ForgetMoves DEF Moves
  <2>2. joined[r] # None
      BY <2>1 DEF RequestsInOrder, Moves
  <2>3. Forgetters(k) \subseteq Forgetters(k)'
      BY <2>1 DEF Forgetters, Moves, OthersStand
  <2>4. CASE Key(r) = k
    <3>1. Unjoinable(k)' \subseteq Unjoinable(k) \cup {flight[k]}
        BY <2>1 DEF Unjoinable, Leaders, Moves, OthersStand
    <3>2. r \in Forgetters(k)' \ Forgetters(k)
        BY <2>1, <2>2, <2>4 DEF Forgetters, Moves, Key
    <3> QED
        BY <1>1, <1>2, <2>3, <3>1, <3>2, OneMoreEach
  <2>5. CASE Key(r) # k
    <3>1. flight'[k] = flight[k]
        BY <2>1, <2>5 DEF IInv, TypeOK
    <3>2. Unjoinable(k)' \subseteq Unjoinable(k)
        BY <2>1, <3>1 DEF Unjoinable, Leaders, Moves, OthersStand
    <3> QED
        BY <1>1, <1>2, <2>3, <3>2, StillAtMost
  <2> QED
      BY <2>4, <2>5
<1>6. ASSUME NEW r \in Requests, ~ForgetKey(r),
             BadRequest(r) \/ (\E p \in Proxies, t \in Tiles : Arrive(r, p, t)) \/ RequestStep(r)
      PROVE  Cardinality(Unjoinable(k)') <= Cardinality(Forgetters(k)')
    BY <1>1, <1>2, <1>6, StepCounts, StillAtMost
<1> QED
    BY <1>3, <1>4, <1>5, <1>6, StepKinds

\* Upstream calls for one key are coalesced, but that each deferred Forget may
\* let one more begin (proxy.go:57): if finitely many requests are served, there
\* is never more than one call plus one per request that left after a flight.
THEOREM StampedesAreBounded ==
    ASSUME IsFiniteSet(Requests)
    PROVE  Spec => []BoundedStampede
<1>1. Init => OneJoinable
  <2> SUFFICES ASSUME Init, NEW k \in Keys
               PROVE  Cardinality(Unjoinable(k)) <= Cardinality(Forgetters(k))
      BY DEF OneJoinable, Unjoinable
  <2>1. Unjoinable(k) = {} /\ Forgetters(k) \in SUBSET Requests
      BY DEF Init, HandlerInit, CacheInit, Unjoinable, Leaders, Forgetters, Procs
  <2>2. IsFiniteSet(Forgetters(k))
      BY <2>1, FS_Subset
  <2> QED
      BY <2>1, <2>2, FS_EmptySet, FS_CardinalityType
<1>2. IInv /\ RequestsInOrder /\ OneJoinable /\ [Next]_vars => OneJoinable'
    BY JoinableKept
<1>3. OneJoinable => BoundedStampede
  <2> SUFFICES ASSUME OneJoinable, NEW k \in Keys
               PROVE  Cardinality(Leaders(k)) <= 1 + Cardinality(Forgetters(k))
      BY DEF BoundedStampede
  <2>1. IsFiniteSet(Leaders(k)) /\ IsFiniteSet(Forgetters(k))
    <3>1. Leaders(k) \in SUBSET Requests /\ Forgetters(k) \in SUBSET Requests
        BY DEF Leaders, Forgetters
    <3> QED
        BY <3>1, FS_Subset
  <2>2. Cardinality(Leaders(k)) <= 1 + Cardinality(Unjoinable(k))
    <3>1. IsFiniteSet(Unjoinable(k))
        BY <2>1, FS_RemoveElement DEF Unjoinable
    <3>2. /\ Cardinality(Unjoinable(k)) \in Nat
          /\ IsFiniteSet(Unjoinable(k) \cup {flight[k]})
          /\ Cardinality(Unjoinable(k) \cup {flight[k]}) \in Nat
          /\ Cardinality(Unjoinable(k) \cup {flight[k]}) <= Cardinality(Unjoinable(k)) + 1
        BY <3>1, OneMore
    <3>3. Leaders(k) \in SUBSET (Unjoinable(k) \cup {flight[k]})
        BY DEF Unjoinable
    <3>4. Cardinality(Leaders(k)) <= Cardinality(Unjoinable(k) \cup {flight[k]})
        BY <3>2, <3>3, FS_Subset
    <3>5. Cardinality(Leaders(k)) \in Nat
        BY <2>1, FS_CardinalityType
    <3> QED
        BY <3>2, <3>4, <3>5
  <2>3. Cardinality(Unjoinable(k)) <= Cardinality(Forgetters(k))
      BY DEF OneJoinable, Unjoinable
  <2>4. Cardinality(Unjoinable(k)) \in Nat
      BY <2>1, FS_RemoveElement, FS_CardinalityType DEF Unjoinable
  <2> QED
      BY <2>1, <2>2, <2>3, <2>4, FS_CardinalityType
<1> QED
    BY <1>1, <1>2, <1>3, RequestOrder, PTL DEF Spec

-----------------------------------------------------------------------------
(***************************************************************************)
(* How many hits and misses there are of a proxy.                          *)
(***************************************************************************)

\* The requests whose Fetch may have counted for p.
Counted(p) ==
    {r \in Requests : /\ task[r] # None /\ task[r].proxy = p
                      /\ pc[r] \notin {"mem", "redis"}}

\* A lookup counts once at most, and has then returned from its levels.
LEMMA LookupCounts ==
    ASSUME IInv, NEW r \in Requests, Lookup(r)
    PROVE  /\ pc'[r] \in {"mem", "redis"} => pc[r] \in {"mem", "redis"}
           /\ \/ UNCHANGED <<hits, misses>>
              \/ /\ pc[r] \in {"mem", "redis"} /\ pc'[r] \notin {"mem", "redis"}
                 /\ \/ CountHit(r) /\ UNCHANGED misses
                    \/ CountMiss(r) /\ UNCHANGED hits
<1>1. r \in Procs
    BY DEF Procs
<1>2. CASE FetchMem(r) \/ FetchRedis(r)
  <2>1. pc[r] \in {"mem", "redis"}
      BY <1>2 DEF FetchMem, FetchRedis
  <2>2. \/ UNCHANGED <<hits, misses>>
        \/ \E label \in {"hit", "miss", "delMem", "delRedis"} :
              /\ Goto(r, label)
              /\ \/ CountHit(r) /\ UNCHANGED misses
                 \/ CountMiss(r) /\ UNCHANGED hits
      BY <1>2 DEF FetchMem, FetchRedis, Deliver, InvalidateStart
  <2> QED
      BY <1>1, <2>1, <2>2, LabelMoves
<1>3. CASE InvalidateMem(r) \/ InvalidateRedis(r)
  <2>1. UNCHANGED <<hits, misses>>
      BY <1>3 DEF InvalidateMem, InvalidateRedis
  <2>2. \E label \in {"miss", "delRedis"} : Goto(r, label)
      BY <1>3 DEF InvalidateMem, InvalidateRedis, InvalidateReturns
  <2> QED
      BY <1>1, <2>1, <2>2, LabelMoves
<1> QED
    BY <1>2, <1>3 DEF Lookup

\* What is counted by one step, and who has counted then.
LEMMA StepCountsOnce ==
    ASSUME IInv, RequestsInOrder, NEW p \in Proxies, NEW r \in Requests,
           BadRequest(r) \/ (\E o \in Proxies, t \in Tiles : Arrive(r, o, t)) \/ RequestStep(r)
    PROVE  /\ Counted(p) \subseteq Counted(p)'
           /\ \/ hits'[p] = hits[p] /\ misses'[p] = misses[p]
              \/ /\ r \in Counted(p)' \ Counted(p)
                 /\ \/ hits'[p] = hits[p] + 1 /\ misses'[p] = misses[p]
                    \/ hits'[p] = hits[p] /\ misses'[p] = misses[p] + 1
<1>1. CASE BadRequest(r) \/ \E o \in Proxies, t \in Tiles : Arrive(r, o, t)
  <2>1. pc[r] = "idle" /\ OthersStand(r) /\ UNCHANGED <<hits, misses>>
      BY <1>1, ArriveMoves DEF Moves
  <2>2. r \notin Counted(p)
      BY <2>1 DEF RequestsInOrder, Counted
  <2> QED
      BY <2>1, <2>2 DEF Counted, OthersStand
<1>2. CASE Lookup(r)
  <2>1. UNCHANGED task /\ OthersStand(r) /\ Active(r)
      BY <1>2, LookupMoves DEF Moves, Lookups, Active, Ended
  <2>2. Counted(p) \subseteq Counted(p)'
      BY <1>2, <2>1, LookupCounts DEF Counted, OthersStand
  <2>3. task[r] \in Task /\ task[r] # None /\ task[r].proxy \in Proxies
      BY <2>1, ValueAssumption DEF RequestsInOrder, Task
  <2>4. CASE UNCHANGED <<hits, misses>>
      BY <2>2, <2>4
  <2>5. CASE /\ pc[r] \in {"mem", "redis"} /\ pc'[r] \notin {"mem", "redis"}
             /\ \/ CountHit(r) /\ UNCHANGED misses
                \/ CountMiss(r) /\ UNCHANGED hits
    <3>1. \/ /\ \/ hits'[p] = hits[p] + 1 /\ misses'[p] = misses[p]
                \/ hits'[p] = hits[p] /\ misses'[p] = misses[p] + 1
             /\ task[r].proxy = p
          \/ hits'[p] = hits[p] /\ misses'[p] = misses[p]
        BY <2>3, <2>5 DEF CountHit, CountMiss, IInv, TypeOK
    <3>2. task[r].proxy = p => r \in Counted(p)' \ Counted(p)
        BY <2>1, <2>3, <2>5 DEF Counted
    <3> QED
        BY <2>2, <3>1, <3>2
  <2> QED
      BY <1>2, <2>4, <2>5, LookupCounts
<1>3. CASE RequestStep(r) /\ ~Lookup(r)
  <2>1. /\ UNCHANGED <<hits, misses, task>>
        /\ pc'[r] \notin {"mem", "redis"}
    <3>1. CASE StartFlight(r)
        BY <3>1, StartFlightMoves DEF Moves
    <3>2. CASE UpstreamAnswers(r)
        BY <3>2, AnswerMoves DEF UpstreamAnswers
    <3>3. CASE FinishFlight(r) \/ WakeUp(r)
        BY <3>3, DoEndMoves DEF Moves
    <3>4. CASE UseResult(r)
        BY <3>4, UseResultMoves DEF Moves
    <3>5. CASE ForgetKey(r)
        BY <3>5, ForgetMoves DEF Moves
    <3>6. CASE ServeCached(r) \/ RecoverPanic(r)
        BY <3>6, EndMoves DEF Moves
    <3> QED
        BY <1>3, <3>1, <3>2, <3>3, <3>4, <3>5, <3>6 DEF RequestStep
  <2>2. \A s \in Requests : s # r => pc'[s] = pc[s]
    <3>1. CASE UpstreamAnswers(r)
        BY <3>1, AnswerMoves
    <3>2. CASE ~UpstreamAnswers(r)
        BY <1>3, <3>2, MoversLeaveOthers DEF OthersStand
    <3> QED
        BY <3>1, <3>2
  <2> QED
      BY <2>1, <2>2 DEF Counted
<1> QED
    BY <1>1, <1>2, <1>3

\* A set that gains an element is larger by one at least.
LEMMA Grows ==
    ASSUME NEW B, NEW B2, NEW x, IsFiniteSet(B2), B \subseteq B2
    PROVE  /\ Cardinality(B) \in Nat /\ Cardinality(B2) \in Nat
           /\ Cardinality(B) <= Cardinality(B2)
           /\ x \in B2 \ B => Cardinality(B) + 1 <= Cardinality(B2)
<1>1. IsFiniteSet(B) /\ Cardinality(B) <= Cardinality(B2)
    BY FS_Subset
<1>2. /\ Cardinality(B) \in Nat /\ Cardinality(B2) \in Nat
      /\ IsFiniteSet(B \cup {x}) /\ Cardinality(B \cup {x}) \in Nat
      /\ x \notin B => Cardinality(B \cup {x}) = Cardinality(B) + 1
    BY <1>1, OneMore, FS_CardinalityType
<1>3. CASE x \in B2 \ B
  <2>1. B \cup {x} \in SUBSET B2
      BY <1>3
  <2>2. Cardinality(B \cup {x}) <= Cardinality(B2)
      BY <2>1, FS_Subset
  <2> QED
      BY <1>1, <1>2, <1>3, <2>2
<1> QED
    BY <1>1, <1>2, <1>3

\* A lookup counts at most one hit or one miss, however many levels it asks and
\* whatever errors they return (cache.go 231-290): if finitely many requests are
\* served, no proxy counts more than its requests that are done looking.
THEOREM LookupsAreCountedOnce ==
    ASSUME IsFiniteSet(Requests)
    PROVE  Spec => []CountedOnce
<1>1. \A p \in Proxies : IsFiniteSet(Counted(p)) /\ IsFiniteSet(Counted(p)')
  <2> SUFFICES ASSUME NEW p \in Proxies
               PROVE  IsFiniteSet(Counted(p)) /\ IsFiniteSet(Counted(p)')
      OBVIOUS
  <2>1. Counted(p) \in SUBSET Requests /\ Counted(p)' \in SUBSET Requests
      BY DEF Counted
  <2> QED
      BY <2>1, FS_Subset
<1>2. Init => CountedOnce
  <2> SUFFICES ASSUME Init, NEW p \in Proxies
               PROVE  hits[p] + misses[p] <= Cardinality(Counted(p))
      BY DEF CountedOnce, Counted
  <2>1. hits[p] = 0 /\ misses[p] = 0
      BY DEF Init, HandlerInit, CacheInit
  <2>2. Cardinality(Counted(p)) \in Nat
      BY <1>1, FS_CardinalityType
  <2> QED
      BY <2>1, <2>2
<1>3. IInv /\ RequestsInOrder /\ CountedOnce /\ [Next]_vars /\ IInv' => CountedOnce'
  <2> SUFFICES ASSUME IInv, RequestsInOrder, CountedOnce, [Next]_vars, IInv', NEW p \in Proxies
               PROVE  hits'[p] + misses'[p] <= Cardinality(Counted(p)')
      BY DEF CountedOnce, Counted
  <2>1. /\ hits[p] \in Nat /\ misses[p] \in Nat
        /\ hits'[p] \in Nat /\ misses'[p] \in Nat
      BY DEF IInv, TypeOK
  <2>2. hits[p] + misses[p] <= Cardinality(Counted(p))
      BY DEF CountedOnce, Counted
  <2>3. CASE Elsewhere
    <3>1. Counted(p)' = Counted(p) /\ UNCHANGED <<hits, misses>>
        BY <2>3, ElsewhereMoves DEF Counted
    <3> QED
        BY <2>2, <3>1
  <2>4. CASE Restart
    <3>1. hits'[p] = 0 /\ misses'[p] = 0
        BY <2>4, RestartMoves
    <3>2. Cardinality(Counted(p)') \in Nat
        BY <1>1, FS_CardinalityType
    <3> QED
        BY <3>1, <3>2
  <2>5. ASSUME NEW r \in Requests,
               BadRequest(r) \/ (\E o \in Proxies, t \in Tiles : Arrive(r, o, t)) \/ RequestStep(r)
        PROVE  hits'[p] + misses'[p] <= Cardinality(Counted(p)')
    <3>1. /\ Counted(p) \subseteq Counted(p)'
          /\ \/ hits'[p] = hits[p] /\ misses'[p] = misses[p]
             \/ /\ r \in Counted(p)' \ Counted(p)
                /\ \/ hits'[p] = hits[p] + 1 /\ misses'[p] = misses[p]
                   \/ hits'[p] = hits[p] /\ misses'[p] = misses[p] + 1
        BY <2>5, StepCountsOnce
    <3>2. /\ Cardinality(Counted(p)) \in Nat /\ Cardinality(Counted(p)') \in Nat
          /\ Cardinality(Counted(p)) <= Cardinality(Counted(p)')
          /\ r \in Counted(p)' \ Counted(p)
                => Cardinality(Counted(p)) + 1 <= Cardinality(Counted(p)')
        BY <1>1, <3>1, Grows
    <3> QED
        BY <2>1, <2>2, <3>1, <3>2
  <2> QED
      BY <2>3, <2>4, <2>5, StepKinds
<1> QED
    BY <1>2, <1>3, RequestOrder, PTL DEF Spec

-----------------------------------------------------------------------------
(***************************************************************************)
(* Why a client is told 500.                                               *)
(***************************************************************************)

\* The panic of r is that of its upstream call.
Explained(r) ==
    pc[r] = "panic" \/ (pc[r] = "forget" /\ reply[r] = None) =>
        /\ joined[r] \in Requests
        /\ call[joined[r]].state = "done"
        /\ ResultOf(r).kind = "panic"

\* A call that is over stays as it is until the process stops.
LEMMA DoneStays ==
    ASSUME IInv, NEW l \in Requests, call[l].state = "done", NEW r \in Requests,
           BadRequest(r) \/ (\E p \in Proxies, t \in Tiles : Arrive(r, p, t)) \/ RequestStep(r)
    PROVE  call'[l].state = "done" /\ call'[l].result = call[l].result
<1>1. pc[l] \in {"process", "forget", "panic", "done"}
    BY DEF IInv, CallsLed
<1>2. CASE StartFlight(r)
  <2>1. l # r
      BY <1>1, <1>2 DEF StartFlight
  <2>2. \/ UNCHANGED call
        \/ call' = [call EXCEPT ![r] = [state |-> "running", result |-> None]]
      BY <1>2, StartFlightMoves
  <2> QED
      BY <2>1, <2>2 DEF IInv, TypeOK
<1>3. CASE UpstreamAnswers(r)
    BY <1>3, AnswerMoves
<1>4. CASE FinishFlight(r) \/ WakeUp(r)
    BY <1>4, DoEndMoves
<1>5. CASE BadRequest(r) \/ \E p \in Proxies, t \in Tiles : Arrive(r, p, t)
    BY <1>5, ArriveMoves DEF flightVars
<1>6. CASE Lookup(r)
    BY <1>6, LookupMoves DEF flightVars
<1>7. CASE UseResult(r)
    BY <1>7, UseResultMoves DEF flightVars
<1>8. CASE ForgetKey(r)
    BY <1>8, ForgetMoves
<1>9. CASE ServeCached(r) \/ RecoverPanic(r)
    BY <1>9, EndMoves DEF flightVars
<1> QED
    BY <1>2, <1>3, <1>4, <1>5, <1>6, <1>7, <1>8, <1>9 DEF RequestStep

\* If no lookup can panic, a request that steps into a panic has been handed one.
LEMMA StepExplained ==
    ASSUME Proxies \subseteq MemEnabled,
           IInv, RequestsInOrder, NEW r \in Requests, Explained(r),
           BadRequest(r) \/ (\E p \in Proxies, t \in Tiles : Arrive(r, p, t)) \/ RequestStep(r)
    PROVE  Explained(r)'
<1>1. CASE UseResult(r)
  <2>1. /\ pc[r] = "process" /\ pc'[r] = "forget"
        /\ UNCHANGED flightVars
        /\ \/ reply'[r] = [code |-> 200, body |-> ResultOf(r).packet]
           \/ reply'[r] = [code |-> 500, body |-> None]
           \/ reply'[r] = reply[r] /\ ResultOf(r).kind = "panic"
      BY <1>1, UseResultMoves DEF Moves
  <2>2. joined[r] \in Requests /\ call[joined[r]].state = "done"
      BY <2>1 DEF IInv, TypeOK, JoinsMatch
  <2>3. ResultOf(r).packet \in Packet \cup {None}
      BY <2>2 DEF IInv, CallsFiled, Result, ResultOf
  <2>4. reply'[r] = None => ResultOf(r).kind = "panic"
      BY <2>1, <2>3, ReplyIsSome
  <2> QED
      BY <2>1, <2>2, <2>4 DEF Explained, ResultOf, flightVars
<1>2. CASE ForgetKey(r)
    BY <1>2, ForgetMoves DEF Explained, Moves, ResultOf
<1>3. CASE Lookup(r)
  <2>1. task[r] \in Task
      BY <1>3, LookupMoves DEF Moves, Lookups, RequestsInOrder, Active, Ended
  <2>2. pc'[r] \notin {"panic", "forget"}
      BY <1>3, <2>1, LookupMoves DEF Moves, Task
  <2> QED
      BY <2>2 DEF Explained
<1>4. CASE UpstreamAnswers(r)
  <2>1. pc[r] = "lead" /\ pc'[r] = pc[r]
      BY <1>4, AnswerMoves DEF UpstreamAnswers
  <2> QED
      BY <2>1 DEF Explained
<1>5. CASE \/ BadRequest(r) \/ \E p \in Proxies, t \in Tiles : Arrive(r, p, t)
           \/ StartFlight(r) \/ FinishFlight(r) \/ WakeUp(r)
           \/ ServeCached(r) \/ RecoverPanic(r)
  <2>1. pc'[r] \notin {"panic", "forget"}
    <3>1. CASE BadRequest(r) \/ \E p \in Proxies, t \in Tiles : Arrive(r, p, t)
        BY <3>1, ArriveMoves DEF Moves
    <3>2. CASE StartFlight(r)
        BY <3>2, StartFlightMoves DEF Moves
    <3>3. CASE FinishFlight(r) \/ WakeUp(r)
        BY <3>3, DoEndMoves DEF Moves
    <3>4. CASE ServeCached(r) \/ RecoverPanic(r)
        BY <3>4, EndMoves DEF Moves
    <3> QED
        BY <1>5, <3>1, <3>2, <3>3, <3>4
  <2> QED
      BY <2>1 DEF Explained
<1> QED
    BY <1>1, <1>2, <1>3, <1>4, <1>5 DEF RequestStep

\* Panics stay explained.
LEMMA PanicsStayExplained ==
    ASSUME Proxies \subseteq MemEnabled,
           IInv, RequestsInOrder, PanicsExplained, [Next]_vars
    PROVE  PanicsExplained'
<1>1. \A s \in Requests : Explained(s)
    BY DEF PanicsExplained, Explained
<1> SUFFICES ASSUME NEW s \in Requests
             PROVE  Explained(s)'
    BY DEF PanicsExplained, Explained
<1>2. CASE Elsewhere
    BY <1>1, <1>2, ElsewhereMoves DEF Explained, ResultOf, flightVars
<1>3. CASE Restart
  <2>1. pc'[s] \notin {"panic", "forget"}
      BY <1>3, RestartMoves DEF Active, Ended
  <2> QED
      BY <2>1 DEF Explained
<1>4. ASSUME NEW r \in Requests,
             BadRequest(r) \/ (\E p \in Proxies, t \in Tiles : Arrive(r, p, t)) \/ RequestStep(r)
      PROVE  Explained(s)'
  <2>1. CASE s = r
      BY <1>1, <1>4, <2>1, StepExplained
  <2>2. CASE s # r
    <3>1. pc'[s] = pc[s] /\ reply'[s] = reply[s] /\ joined'[s] = joined[s]
      <4>1. CASE UpstreamAnswers(r)
          BY <4>1, AnswerMoves
      <4>2. CASE ~UpstreamAnswers(r)
          BY <1>4, <2>2, <4>2, MoversLeaveOthers DEF OthersStand
      <4> QED
          BY <4>1, <4>2
    <3>2. CASE pc[s] = "panic" \/ (pc[s] = "forget" /\ reply[s] = None)
      <4>1. /\ joined[s] \in Requests /\ call[joined[s]].state = "done"
            /\ call[joined[s]].result.kind = "panic"
          BY <1>1, <3>2 DEF Explained, ResultOf
      <4>2. /\ call'[joined[s]].state = "done"
            /\ call'[joined[s]].result = call[joined[s]].result
          BY <1>4, <4>1, DoneStays
      <4> QED
          BY <3>1, <4>1, <4>2 DEF Explained, ResultOf
    <3>3. CASE ~(pc[s] = "panic" \/ (pc[s] = "forget" /\ reply[s] = None))
        BY <3>1, <3>3 DEF Explained
    <3> QED
        BY <3>2, <3>3
  <2> QED
      BY <2>1, <2>2
<1> QED
    BY <1>2, <1>3, <1>4, StepKinds

\* Whoever is told 500 has an upstream call that failed.
LEMMA ToldOfFailure ==
    ASSUME IInv, RequestsInOrder, PanicsExplained, [Next]_vars, NEW s \in Requests,
           reply[s] = None, reply'[s] # None, reply'[s].code = 500
    PROVE  joined[s] # None /\ ResultOf(s).kind # "ok"
<1>1. CASE Elsewhere
    BY <1>1, ElsewhereMoves
<1>2. CASE Restart
  <2>1. reply'[s] = reply[s] \/ reply'[s] = [code |-> 0, body |-> None]
      BY <1>2, RestartMoves
  <2> QED
      BY <2>1
<1>3. ASSUME NEW r \in Requests,
             BadRequest(r) \/ (\E p \in Proxies, t \in Tiles : Arrive(r, p, t)) \/ RequestStep(r)
      PROVE  joined[s] # None /\ ResultOf(s).kind # "ok"
  <2>1. reply'[s] # reply[s]
      OBVIOUS
  <2>2. s = r /\ ~UpstreamAnswers(r)
      BY <1>3, <2>1, MoversLeaveOthers, AnswerMoves DEF OthersStand
  <2>3. CASE BadRequest(r) \/ \E p \in Proxies, t \in Tiles : Arrive(r, p, t)
    <3>1. reply'[s] = reply[s] \/ reply'[s] = [code |-> 400, body |-> None]
        BY <2>2, <2>3, ArriveMoves
    <3> QED
        BY <3>1
  <2>4. CASE UseResult(r)
    <3>1. /\ pc[s] = "process"
          /\ \/ reply'[s] = [code |-> 200, body |-> ResultOf(s).packet]
             \/ ResultOf(s).kind # "ok"
             \/ reply'[s] = reply[s]
        BY <2>2, <2>4, UseResultMoves DEF Moves
    <3>2. joined[s] # None
        BY <3>1 DEF IInv, JoinsMatch
    <3> QED
        BY <3>1, <3>2
  <2>5. CASE RecoverPanic(r)
    <3>1. pc[s] = "panic"
        BY <2>2, <2>5 DEF RecoverPanic
    <3> QED
        BY <3>1, ValueAssumption DEF PanicsExplained
  <2>6. CASE ServeCached(r)
    <3>1. reply'[s] = [code |-> 200, body |-> got[s]]
        BY <2>2, <2>6, Responds DEF ServeCached
    <3> QED
        BY <3>1
  <2>7. CASE Lookup(r) \/ StartFlight(r) \/ FinishFlight(r) \/ WakeUp(r) \/ ForgetKey(r)
    <3>1. UNCHANGED reply
        BY <2>7 DEF Lookup, StartFlight, FinishFlight, WakeUp, ForgetKey
    <3> QED
        BY <2>1, <3>1
  <2> QED
      BY <1>3, <2>2, <2>3, <2>4, <2>5, <2>6, <2>7 DEF RequestStep
<1> QED
    BY <1>1, <1>2, <1>3, StepKinds

\* Only a failed upstream call makes a client's reply a 500 (proxy.go 63-66 and
\* 92-96, the recover middleware), when every proxy has an in-memory level: the
\* lookup of one that has none may panic over a Redis error (cache.go:272).
THEOREM FailuresAreUpstream ==
    ASSUME Proxies \subseteq MemEnabled
    PROVE  Spec => OnlyUpstreamFails
<1>1. Init => PanicsExplained
    BY DEF Init, HandlerInit, CacheInit, PanicsExplained, Procs
<1>2. IInv /\ RequestsInOrder /\ PanicsExplained /\ [Next]_vars => PanicsExplained'
    BY PanicsStayExplained
<1>3. IInv /\ RequestsInOrder /\ PanicsExplained /\ [Next]_vars =>
        [\A r \in Requests : (/\ reply[r] = None
                              /\ reply'[r] # None
                              /\ reply'[r].code = 500) =>
            joined[r] # None /\ ResultOf(r).kind # "ok"]_vars
    BY ToldOfFailure
<1> QED
    BY <1>1, <1>2, <1>3, RequestOrder, PTL DEF Spec, OnlyUpstreamFails
=============================================================================
