-------------------------- MODULE LodServiceProofs --------------------------
(***************************************************************************)
(* Nothing comes back once its last copy is gone, and LOD implements       *)
(* TileService, for any number of proxies, tiles, requests and admin       *)
(* calls.                                                                  *)
(***************************************************************************)
EXTENDS LodRequestProofs

-----------------------------------------------------------------------------
(***************************************************************************)
(* A step can put a packet in five kinds of places.  For each it is shown  *)
(* that the packet was held under the same key before, unless the step     *)
(* reads the upstream, which adds what the upstream has and nothing else.  *)
(***************************************************************************)

\* What may be held under k after a step from this state.
Kept(d, k) == d \in Copies(k) \/ d \in {None, Corrupt}

UsesResult(r) ==
    pc[r] \in {"lead", "wait", "process"} /\ call[joined[r]].state \in {"returned", "done"}

\* The five kinds of places after a step.
LevelsKept(k) == Kept(redis'[k], k) /\ \A p \in Proxies : Kept(mem'[p][k], k)
WritesKept(k) == \A w \in writes' : w.key = k => Kept(w.packet, k)
FetchedKept(k) == \A r \in Requests : pc'[r] = "hit" /\ Key(r)' = k => Kept(got'[r], k)
ResultsKept(k) == \A r \in Requests :
    UsesResult(r)' /\ Key(r)' = k => Kept(call'[joined'[r]].result.packet, k)

AllKept(k) == LevelsKept(k) /\ WritesKept(k) /\ FetchedKept(k) /\ ResultsKept(k)

\* Copies(k) is what these places hold.
LEMMA KeptCopies ==
    ASSUME NEW k \in Keys, AllKept(k)
    PROVE  Copies(k)' \subseteq Copies(k)
<1> SUFFICES ASSUME NEW d \in Copies(k)'
             PROVE  Kept(d, k) /\ d \notin {None, Corrupt}
    BY DEF Kept
<1>1. d \in Held(k)' /\ d \notin {None, Corrupt}
    BY DEF Copies
<1>2. CASE d = redis'[k] \/ \E p \in Proxies : d = mem'[p][k]
    BY <1>1, <1>2 DEF AllKept, LevelsKept
<1>3. CASE \E w \in writes' : w.key = k /\ d = w.packet
    BY <1>1, <1>3 DEF AllKept, WritesKept
<1>4. CASE \E r \in Requests : pc'[r] = "hit" /\ Key(r)' = k /\ d = got'[r]
    BY <1>1, <1>4 DEF AllKept, FetchedKept
<1>5. CASE \E r \in Requests :
              UsesResult(r)' /\ Key(r)' = k /\ d = call'[joined'[r]].result.packet
    BY <1>1, <1>5 DEF AllKept, ResultsKept
<1> QED
    BY <1>1, <1>2, <1>3, <1>4, <1>5 DEF Held, ResultOf, UsesResult

\* What is in one of these places is held now.
LEMMA HeldNow ==
    ASSUME NEW k \in Keys
    PROVE  /\ Kept(redis[k], k)
           /\ \A p \in Proxies : Kept(mem[p][k], k)
           /\ \A w \in writes : w.key = k => Kept(w.packet, k)
           /\ \A r \in Requests : pc[r] = "hit" /\ Key(r) = k => Kept(got[r], k)
           /\ \A r \in Requests :
                 UsesResult(r) /\ Key(r) = k => Kept(call[joined[r]].result.packet, k)
<1>1. \A d \in Held(k) : Kept(d, k)
    BY DEF Kept, Copies
<1>2. redis[k] \in Held(k) /\ \A p \in Proxies : mem[p][k] \in Held(k)
    BY DEF Held
<1>3. \A w \in writes : w.key = k => w.packet \in Held(k)
    BY DEF Held
<1>4. \A r \in Requests : pc[r] = "hit" /\ Key(r) = k => got[r] \in Held(k)
    BY DEF Held
<1>5. \A r \in Requests :
         UsesResult(r) /\ Key(r) = k => call[joined[r]].result.packet \in Held(k)
    BY DEF Held, UsesResult, ResultOf
<1> QED
    BY <1>1, <1>2, <1>3, <1>4, <1>5

\* Steps that leave flights and requests alone.
LEMMA ElsewhereKept ==
    ASSUME NEW k \in Keys,
           \A r \in Requests : /\ pc'[r] = pc[r] \/ pc'[r] \notin {"hit", "lead", "wait", "process"}
                               /\ pc'[r] = pc[r] => Key(r)' = Key(r),
           UNCHANGED <<got, call, joined>>
    PROVE  FetchedKept(k) /\ ResultsKept(k)
<1>1. FetchedKept(k)
    BY HeldNow DEF FetchedKept
<1>2. ResultsKept(k)
    BY HeldNow DEF ResultsKept, UsesResult
<1> QED
    BY <1>1, <1>2

\* Set writes the packet it was given, under the key of its caller's task.
LEMMA SpawnedKept ==
    ASSUME NEW k \in Keys, NEW q, NEW d, NEW internalOnly,
           Key(q) = k => Kept(d, k),
           writes' = writes \cup SetWrites(q, d, internalOnly)
    PROVE  WritesKept(k)
<1> SUFFICES ASSUME NEW w \in writes', w.key = k
             PROVE  Kept(w.packet, k)
    BY DEF WritesKept
<1>1. CASE w \in writes
    BY <1>1, HeldNow
<1>2. CASE w \in SetWrites(q, d, internalOnly)
  <2>1. w.packet = d /\ w.key = Key(q)
      BY <1>2 DEF SetWrites
  <2> QED
      BY <2>1
<1> QED
    BY <1>1, <1>2

-----------------------------------------------------------------------------
(***************************************************************************)
(* The steps that move or make packets.                                    *)
(***************************************************************************)

\* A late write stores what was being written.
LEMMA ApplyWriteFresh ==
    ASSUME IInv, NEW k \in Keys, NEW w \in writes, ApplyWrite(w)
    PROVE  AllKept(k)
<1>1. w.key \in Keys /\ w.proxy \in Proxies
    BY DEF IInv, TypeOK, Write
<1>2. writes' \subseteq writes /\ UNCHANGED <<pc, task, got, call, joined>>
    BY DEF ApplyWrite, WriteMem, WriteRedis, flightVars
<1>3. LevelsKept(k)
  <2>1. CASE WriteMem(w)
    <3>1. PICK entry \in {w.packet, None} : mem' = [mem EXCEPT ![w.proxy][w.key] = entry]
        BY <2>1 DEF WriteMem
    <3>2. \A p \in Proxies : mem'[p][k] = mem[p][k] \/ (w.key = k /\ mem'[p][k] = entry)
        BY <1>1, <3>1 DEF IInv, TypeOK
    <3>3. Kept(None, k) /\ (w.key = k => Kept(w.packet, k))
        BY HeldNow DEF Kept
    <3>4. UNCHANGED redis
        BY <2>1 DEF WriteMem
    <3> QED
        BY <3>1, <3>2, <3>3, <3>4, HeldNow DEF LevelsKept
  <2>2. CASE WriteRedis(w)
    <3>1. UNCHANGED mem /\ (redis' = redis \/ redis' = [redis EXCEPT ![w.key] = w.packet])
        BY <2>2 DEF WriteRedis
    <3>2. redis'[k] = redis[k] \/ (w.key = k /\ redis'[k] = w.packet)
        BY <1>1, <3>1 DEF IInv, TypeOK
    <3> QED
        BY <3>1, <3>2, HeldNow DEF LevelsKept
  <2> QED
      BY <2>1, <2>2 DEF ApplyWrite
<1>4. WritesKept(k)
    BY <1>2, HeldNow DEF WritesKept
<1>5. FetchedKept(k) /\ ResultsKept(k)
    BY <1>2, ElsewhereKept DEF Key
<1> QED
    BY <1>3, <1>4, <1>5 DEF AllKept

\* Fetch returns, and writes back, the entry it found.
LEMMA FetchFresh ==
    ASSUME IInv, NEW k \in Keys, NEW r \in Requests, FetchMem(r) \/ FetchRedis(r),
           UNCHANGED <<flightVars, version, reply>>
    PROVE  AllKept(k)
<1>1. r \in Procs /\ task[r] \in Task /\ Key(r) \in Keys /\ task[r].proxy \in Proxies
  <2>1. r \in Procs /\ task[r] \in Task
      BY DEF IInv, TasksKnown, FetchMem, FetchRedis, Ended, Procs
  <2> QED
      BY <2>1, KeyTyped DEF Key, Task
<1>2. UNCHANGED <<mem, redis, task, call, joined>> /\ pc[r] \in {"mem", "redis"}
    BY DEF FetchMem, FetchRedis, flightVars
<1>3. \A s \in Requests : Key(s)' = Key(s)
    BY <1>2 DEF Key
<1>4. \/ /\ UNCHANGED <<writes, got>>
         /\ \E label \in {"redis", "delMem", "delRedis", "miss", "panic"} : Goto(r, label)
      \/ \E d \in {redis[Key(r)], mem[task[r].proxy][Key(r)]} :
            /\ got' = [got EXCEPT ![r] = d]
            /\ writes' = writes \cup SetWrites(r, d, TRUE)
            /\ Goto(r, "hit")
    BY DEF FetchMem, FetchRedis, Deliver, InvalidateStart
<1>5. LevelsKept(k)
    BY <1>2, HeldNow DEF LevelsKept
<1>6. CASE UNCHANGED <<writes, got>>
           /\ \E label \in {"redis", "delMem", "delRedis", "miss", "panic"} : Goto(r, label)
  <2>1. WritesKept(k)
      BY <1>6, HeldNow DEF WritesKept
  <2>2. \A s \in Requests : pc'[s] = pc[s] \/ pc'[s] \notin {"hit", "lead", "wait", "process"}
      BY <1>1, <1>6 DEF IInv, TypeOK, Goto, Procs
  <2> QED
      BY <1>2, <1>3, <1>5, <1>6, <2>1, <2>2, ElsewhereKept DEF AllKept
<1>7. ASSUME NEW d \in {redis[Key(r)], mem[task[r].proxy][Key(r)]},
             got' = [got EXCEPT ![r] = d],
             writes' = writes \cup SetWrites(r, d, TRUE),
             Goto(r, "hit")
      PROVE  AllKept(k)
  <2>1. Key(r) = k => Kept(d, k)
      BY <1>1, <1>7, HeldNow
  <2>2. /\ pc'[r] = "hit" /\ got'[r] = d
        /\ \A s \in Requests : s # r => pc'[s] = pc[s] /\ got'[s] = got[s]
      BY <1>1, <1>7 DEF IInv, TypeOK, Goto, Procs
  <2>3. WritesKept(k)
      BY <1>7, <2>1, SpawnedKept
  <2>4. FetchedKept(k)
      BY <1>3, <2>1, <2>2, HeldNow DEF FetchedKept
  <2>5. ResultsKept(k)
      BY <1>2, <1>3, <2>2, HeldNow DEF ResultsKept, UsesResult
  <2> QED
      BY <1>5, <2>3, <2>4, <2>5 DEF AllKept
<1> QED
    BY <1>4, <1>6, <1>7

\* Who joins a flight whose function is back gets what its leader holds.
LEMMA StartFlightFresh ==
    ASSUME IInv, NEW k \in Keys, NEW r \in Requests, StartFlight(r)
    PROVE  AllKept(k)
<1>1. pc[r] = "miss" /\ UNCHANGED <<mem, redis, writes, task, got>>
    BY DEF StartFlight
<1>2. r \in Procs /\ Key(r) \in Keys
    BY <1>1, FlightTask
<1>3. \A s \in Requests : Key(s)' = Key(s)
    BY <1>1 DEF Key
<1>4. LevelsKept(k) /\ WritesKept(k)
    BY <1>1, HeldNow DEF LevelsKept, WritesKept
<1>5. CASE Lead(r, Key(r)) /\ Goto(r, "lead")
  <2>1. /\ pc' = [pc EXCEPT ![r] = "lead"]
        /\ call' = [call EXCEPT ![r] = [state |-> "running", result |-> None]]
        /\ joined' = [joined EXCEPT ![r] = r]
      BY <1>5 DEF Lead, Goto
  <2>2. /\ pc'[r] = "lead" /\ call'[r].state = "running" /\ joined'[r] = r
        /\ \A s \in Requests : s # r =>
              pc'[s] = pc[s] /\ call'[s] = call[s] /\ joined'[s] = joined[s]
      BY <1>2, <2>1 DEF IInv, TypeOK, Procs
  <2>3. FetchedKept(k)
      BY <1>1, <1>3, <2>2, HeldNow DEF FetchedKept
  <2>4. ASSUME NEW s \in Requests, UsesResult(s)', Key(s)' = k
        PROVE  Kept(call'[joined'[s]].result.packet, k)
    <3>1. s # r
        BY <2>2, <2>4 DEF UsesResult
    <3>2. pc[s] \in {"lead", "wait", "process"} /\ joined'[s] = joined[s] /\ Key(s) = k
        BY <1>3, <2>2, <2>4, <3>1 DEF UsesResult
    <3>3. joined[s] \in Requests
        BY <3>2 DEF IInv, TypeOK, CallsLed, JoinsMatch
    <3>4. joined[s] # r
        BY <2>2, <2>4, <3>2 DEF UsesResult
    <3>5. call'[joined'[s]] = call[joined[s]]
        BY <2>2, <3>2, <3>3, <3>4
    <3>6. UsesResult(s)
        BY <2>4, <3>2, <3>5 DEF UsesResult
    <3> QED
        BY <3>2, <3>5, <3>6, HeldNow
  <2> QED
      BY <1>4, <2>3, <2>4 DEF AllKept, ResultsKept
<1>6. CASE Join(r, Key(r)) /\ Goto(r, "wait")
  <2>1. /\ pc' = [pc EXCEPT ![r] = "wait"]
        /\ flight[Key(r)] # None
        /\ joined' = [joined EXCEPT ![r] = flight[Key(r)]]
        /\ UNCHANGED call
      BY <1>6 DEF Join, Goto
  <2>2. PICK l \in Requests : l = flight[Key(r)] /\ pc[l] = "lead" /\ Key(l) = Key(r)
                              /\ joined[l] = l
      BY <1>2, <2>1 DEF IInv, TypeOK, FlightsLed, CallsLed
  <2>3. /\ pc'[r] = "wait" /\ joined'[r] = l
        /\ \A s \in Requests : s # r => pc'[s] = pc[s] /\ joined'[s] = joined[s]
      BY <1>2, <2>1, <2>2 DEF IInv, TypeOK, Procs
  <2>4. FetchedKept(k)
      BY <1>1, <1>3, <2>3, HeldNow DEF FetchedKept
  <2>5. ResultsKept(k)
      BY <1>3, <2>1, <2>2, <2>3, HeldNow DEF ResultsKept, UsesResult
  <2> QED
      BY <1>4, <2>4, <2>5 DEF AllKept
<1> QED
    BY <1>5, <1>6 DEF StartFlight

\* A call returns what the upstream has at this moment, or nothing.
LEMMA UpstreamAnswersReads ==
    ASSUME IInv, NEW r \in Requests, UpstreamAnswers(r)
    PROVE  \/ \A k \in Keys : Copies(k)' = Copies(k)
           \/ \A k \in Keys :
                 Copies(k)' = Copies(k) \cup (IF k = Key(r) THEN {Fresh(r)} ELSE {})
<1>1. UNCHANGED <<mem, redis, writes, pc, task, got, joined>> /\ pc[r] = "lead"
    BY DEF UpstreamAnswers, Return, cacheVars
<1>2. joined[r] = r /\ r \in Procs /\ task[r] \in Task /\ Key(r) \in Keys
    BY <1>1, FlightTask DEF IInv, CallsLed
<1>3. \A s \in Requests : Key(s)' = Key(s)
    BY <1>1 DEF Key
<1>4. PICK result : /\ call[r].state = "running"
                    /\ call' = [call EXCEPT ![r] = [state |-> "returned", result |-> result]]
                    /\ result.packet \in {Fresh(r), None}
  <2>1. PICK kind, packet : /\ Return(r, [kind |-> kind, packet |-> packet])
                            /\ packet \in {Fresh(r), None}
      BY DEF UpstreamAnswers
  <2> DEFINE result == [kind |-> kind, packet |-> packet]
  <2>2. /\ call[r].state = "running"
        /\ call' = [call EXCEPT ![r] = [state |-> "returned", result |-> result]]
      BY <2>1 DEF Return
  <2>3. result.packet = packet
      OBVIOUS
  <2> HIDE DEF result
  <2> QED
      BY <2>1, <2>2, <2>3
<1>5. /\ call'[r].state = "returned" /\ call'[r].result = result
      /\ \A s \in Requests : s # r => call'[s] = call[s]
    BY <1>4 DEF IInv, TypeOK
<1>6. ASSUME NEW s \in Requests
      PROVE  IF joined[s] = r
               THEN ~UsesResult(s) /\ (UsesResult(s)' => Key(s) = Key(r))
               ELSE /\ UsesResult(s)' <=> UsesResult(s)
                    /\ UsesResult(s) => ResultOf(s)' = ResultOf(s)
  <2>1. pc[s] \in {"lead", "wait", "process"} => joined[s] \in Requests /\ Key(joined[s]) = Key(s)
      BY DEF IInv, TypeOK, CallsLed, JoinsMatch
  <2>2. CASE joined[s] = r
      BY <1>1, <1>4, <2>1, <2>2 DEF UsesResult
  <2>3. CASE joined[s] # r
      BY <1>1, <1>5, <2>1, <2>3 DEF UsesResult, ResultOf
  <2> QED
      BY <2>2, <2>3
<1>7. UsesResult(r)' /\ ResultOf(r)' = result
    BY <1>1, <1>2, <1>5 DEF UsesResult, ResultOf
<1>8. ASSUME NEW k \in Keys
      PROVE  Held(k)' = Held(k) \cup (IF k = Key(r) THEN {result.packet} ELSE {})
  <2> DEFINE Given(j) == {ResultOf(s).packet : s \in {u \in Requests : UsesResult(u) /\ Key(u) = j}}
  <2>1. Given(k)' = Given(k) \cup (IF k = Key(r) THEN {result.packet} ELSE {})
    <3>1. ASSUME NEW s \in Requests, UsesResult(s)', Key(s)' = k
          PROVE  ResultOf(s)'.packet \in Given(k) \cup (IF k = Key(r) THEN {result.packet} ELSE {})
      <4>1. CASE joined[s] = r
        <5>1. ResultOf(s)' = result
            BY <1>1, <1>5, <4>1 DEF ResultOf
        <5> QED
            BY <1>3, <1>6, <3>1, <4>1, <5>1
      <4>2. CASE joined[s] # r
          BY <1>3, <1>6, <3>1, <4>2
      <4> QED
          BY <4>1, <4>2
    <3>2. ASSUME NEW s \in Requests, UsesResult(s), Key(s) = k
          PROVE  ResultOf(s).packet \in Given(k)'
      <4>1. UsesResult(s)' /\ ResultOf(s)' = ResultOf(s) /\ Key(s)' = k
          BY <1>3, <1>6, <3>2
      <4> QED
          BY <4>1
    <3>3. k = Key(r) => result.packet \in Given(k)'
        BY <1>3, <1>7
    <3> QED
        BY <3>1, <3>2, <3>3
  <2>2. /\ Held(k) = {mem[p][k] : p \in Proxies} \cup {redis[k]}
                       \cup {w.packet : w \in {u \in writes : u.key = k}}
                       \cup {got[s] : s \in {u \in Requests : pc[u] = "hit" /\ Key(u) = k}}
                       \cup Given(k)
        /\ Held(k)' = {mem'[p][k] : p \in Proxies} \cup {redis'[k]}
                       \cup {w.packet : w \in {u \in writes' : u.key = k}}
                       \cup {got'[s] : s \in {u \in Requests : pc'[u] = "hit" /\ Key(u)' = k}}
                       \cup Given(k)'
      BY DEF Held, UsesResult
  <2>3. {got'[s] : s \in {u \in Requests : pc'[u] = "hit" /\ Key(u)' = k}}
          = {got[s] : s \in {u \in Requests : pc[u] = "hit" /\ Key(u) = k}}
      BY <1>1, <1>3
  <2> HIDE DEF Given
  <2> QED
      BY <1>1, <2>1, <2>2, <2>3
<1>9. CASE result.packet = None
    BY <1>8, <1>9 DEF Copies
<1>10. CASE result.packet = Fresh(r)
  <2>1. Fresh(r) \in Packet
      BY <1>2 DEF Fresh, Task, Packet, IInv, TypeOK
  <2> QED
      BY <1>8, <1>10, <2>1, ValueAssumption DEF Copies
<1> QED
    BY <1>4, <1>9, <1>10

\* A leader or a waiting request goes on with the result it had.
LEMMA FlightEndsFresh ==
    ASSUME IInv, NEW k \in Keys, NEW r \in Requests, FinishFlight(r) \/ WakeUp(r)
    PROVE  AllKept(k)
<1>1. UNCHANGED <<mem, redis, writes, task, got, joined>> /\ pc[r] \in {"lead", "wait"}
      /\ pc' = [pc EXCEPT ![r] = "process"]
    BY DEF FinishFlight, WakeUp, Finish, Goto, flightVars
<1>2. \A s \in Requests : Key(s)' = Key(s)
    BY <1>1 DEF Key
<1>3. pc'[r] = "process" /\ \A s \in Requests : s # r => pc'[s] = pc[s]
    BY <1>1 DEF IInv, TypeOK, Procs
<1>4. \A s \in Requests : /\ call'[s].result = call[s].result
                          /\ call'[s].state = call[s].state \/ call[s].state = "returned"
  <2>1. CASE WakeUp(r)
      BY <2>1 DEF WakeUp, flightVars
  <2>2. CASE FinishFlight(r)
    <3>1. call' = [call EXCEPT ![r].state = "done"] /\ call[r].state = "returned"
        BY <2>2 DEF FinishFlight, Finish
    <3> QED
        BY <3>1 DEF IInv, TypeOK, Call
  <2> QED
      BY <2>1, <2>2
<1>5. LevelsKept(k) /\ WritesKept(k) /\ FetchedKept(k)
    BY <1>1, <1>2, <1>3, HeldNow DEF LevelsKept, WritesKept, FetchedKept
<1>6. ResultsKept(k)
  <2> SUFFICES ASSUME NEW s \in Requests, UsesResult(s)', Key(s)' = k
               PROVE  Kept(call'[joined'[s]].result.packet, k)
      BY DEF ResultsKept
  <2>1. pc[s] \in {"lead", "wait", "process"} /\ joined'[s] = joined[s] /\ Key(s) = k
      BY <1>1, <1>2, <1>3 DEF UsesResult
  <2>2. joined[s] \in Requests
      BY <2>1 DEF IInv, TypeOK, CallsLed, JoinsMatch
  <2>3. UsesResult(s)
      BY <1>4, <2>1, <2>2 DEF UsesResult
  <2> QED
      BY <1>4, <2>1, <2>2, <2>3, HeldNow
<1> QED
    BY <1>5, <1>6 DEF AllKept

\* What is written after a flight is the flight's result.
LEMMA UseResultFresh ==
    ASSUME IInv, NEW k \in Keys, NEW r \in Requests, UseResult(r)
    PROVE  AllKept(k)
<1>1. UNCHANGED <<mem, redis, task, got, call, joined>> /\ pc[r] = "process"
      /\ pc' = [pc EXCEPT ![r] = "forget"]
    BY DEF UseResult, Goto, flightVars
<1>2. \A s \in Requests : Key(s)' = Key(s)
    BY <1>1 DEF Key
<1>3. pc'[r] = "forget" /\ \A s \in Requests : s # r => pc'[s] = pc[s]
    BY <1>1 DEF IInv, TypeOK, Procs
<1>4. Key(r) = k => Kept(call[joined[r]].result.packet, k)
  <2>1. UsesResult(r)
      BY <1>1 DEF IInv, JoinsMatch, UsesResult
  <2> QED
      BY <2>1, HeldNow
<1>5. WritesKept(k)
  <2>1. \/ UNCHANGED writes
        \/ writes' = writes \cup SetWrites(r, call[joined[r]].result.packet, FALSE)
      BY DEF UseResult, ResultOf
  <2>2. CASE UNCHANGED writes
      BY <2>2, HeldNow DEF WritesKept
  <2> QED
      BY <1>4, <2>1, <2>2, SpawnedKept
<1>6. LevelsKept(k)
    BY <1>1, HeldNow DEF LevelsKept
<1> QED
    BY <1>1, <1>2, <1>3, <1>5, <1>6, ElsewhereKept DEF AllKept

-----------------------------------------------------------------------------
(***************************************************************************)
(* The steps that move no packet, or only lose some.                       *)
(***************************************************************************)

\* A step that at most takes entries out of the levels.
LEMMA LosingKeeps ==
    ASSUME NEW k \in Keys,
           redis'[k] \in {redis[k], None, Corrupt},
           \A p \in Proxies : mem'[p][k] \in {mem[p][k], None},
           \A r \in Requests : /\ pc'[r] = pc[r] \/ pc'[r] \notin {"hit", "lead", "wait", "process"}
                               /\ pc'[r] = pc[r] => Key(r)' = Key(r),
           UNCHANGED <<writes, got, call, joined>>
    PROVE  AllKept(k)
<1>1. Kept(None, k) /\ Kept(Corrupt, k)
    BY DEF Kept
<1>2. LevelsKept(k)
    BY <1>1, HeldNow DEF LevelsKept
<1>3. WritesKept(k)
    BY HeldNow DEF WritesKept
<1>4. FetchedKept(k) /\ ResultsKept(k)
    BY ElsewhereKept
<1> QED
    BY <1>2, <1>3, <1>4 DEF AllKept

\* Invalidation, flush and decay.
LEMMA RemovalFresh ==
    ASSUME IInv, NEW k \in Keys,
           \/ \E q \in Procs : (InvalidateMem(q) \/ InvalidateRedis(q)) /\ UNCHANGED flightVars
           \/ \E a \in Admins : FlushShard(a) /\ UNCHANGED flightVars
           \/ Decay
    PROVE  AllKept(k)
<1>1. CASE \E q \in Procs : (InvalidateMem(q) \/ InvalidateRedis(q)) /\ UNCHANGED flightVars
  <2>1. PICK q \in Procs : (InvalidateMem(q) \/ InvalidateRedis(q)) /\ UNCHANGED flightVars
      BY <1>1
  <2>2. UNCHANGED <<writes, task, got, call, joined>>
      BY <2>1 DEF InvalidateMem, InvalidateRedis, flightVars
  <2>3. Key(q) \in Keys /\ task[q].proxy \in Proxies
    <3>1. task[q] \in Task
        BY <2>1 DEF IInv, TasksKnown, InvalidateMem, InvalidateRedis, Ended
    <3> QED
        BY <3>1, KeyTyped DEF Key, Task
  <2>4. PICK p \in Proxies, j \in Keys : mem' = mem \/ mem' = [mem EXCEPT ![p][j] = None]
      BY <2>1, <2>3 DEF InvalidateMem, InvalidateRedis
  <2>5. PICK j2 \in Keys : redis' = redis \/ redis' = [redis EXCEPT ![j2] = None]
      BY <2>1, <2>3 DEF InvalidateMem, InvalidateRedis
  <2>6. PICK label \in {"delRedis", "miss", "invalidated", "failed"} : Goto(q, label)
      BY <2>1 DEF InvalidateMem, InvalidateRedis, InvalidateReturns
  <2>7. \A r \in Requests : pc'[r] = pc[r] \/ pc'[r] \in {"delRedis", "miss", "invalidated", "failed"}
      BY <2>6 DEF IInv, TypeOK, Goto, Procs
  <2>8. \A o \in Proxies : mem'[o][k] \in {mem[o][k], None}
      BY <2>4 DEF IInv, TypeOK
  <2>9. redis'[k] \in {redis[k], None}
      BY <2>5 DEF IInv, TypeOK
  <2> QED
      BY <2>2, <2>7, <2>8, <2>9, LosingKeeps DEF Key
<1>2. CASE \E a \in Admins : FlushShard(a) /\ UNCHANGED flightVars
  <2>1. UNCHANGED <<redis, writes, pc, task, got, call, joined>>
      BY <1>2 DEF FlushShard, flightVars
  <2>2. PICK p \in Proxies, K \in SUBSET Keys :
           mem' = [mem EXCEPT ![p] = [j \in Keys |-> IF j \in K THEN None ELSE @[j]]]
      BY <1>2 DEF FlushShard
  <2>3. \A o \in Proxies : mem'[o][k] \in {mem[o][k], None}
      BY <2>2 DEF IInv, TypeOK
  <2> QED
      BY <2>1, <2>3, LosingKeeps DEF Key
<1>3. CASE Decay
  <2>1. UNCHANGED <<writes, pc, task, got, call, joined>>
      BY <1>3 DEF Decay, MemDrop, RedisDrop, RedisCorrupt, flightVars
  <2>2. CASE \E p \in Proxies, j \in Keys : MemDrop(p, j)
    <3>1. UNCHANGED redis /\ \A o \in Proxies : mem'[o][k] \in {mem[o][k], None}
        BY <2>2 DEF IInv, TypeOK, MemDrop
    <3> QED
        BY <2>1, <3>1, LosingKeeps DEF Key
  <2>3. CASE \E j \in Keys : RedisDrop(j) \/ RedisCorrupt(j)
    <3>1. UNCHANGED mem
        BY <2>3 DEF RedisDrop, RedisCorrupt
    <3>2. PICK j \in Keys, d \in {None, Corrupt} : redis' = [redis EXCEPT ![j] = d]
        BY <2>3 DEF RedisDrop, RedisCorrupt
    <3>3. redis'[k] \in {redis[k], None, Corrupt}
        BY <3>2 DEF IInv, TypeOK
    <3> QED
        BY <2>1, <3>1, <3>3, LosingKeeps DEF Key
  <2> QED
      BY <1>3, <2>2, <2>3 DEF Decay
<1> QED
    BY <1>1, <1>2, <1>3

\* Arrivals, ends and the steps of admin calls between others.
LEMMA QuietFresh ==
    ASSUME IInv, NEW k \in Keys,
           \/ \E r \in Requests :
                 \/ \E p \in Proxies, t \in Tiles : Arrive(r, p, t)
                 \/ BadRequest(r) \/ ServeCached(r) \/ ForgetKey(r) \/ RecoverPanic(r)
           \/ \E a \in Admins :
                 \/ \E p \in Proxies, t \in Tiles : StartInvalidate(a, p, t) \/ StartPrime(a, p, t)
                 \/ \E P \in {Proxies} \cup {{p} : p \in Proxies} : StartFlush(a, P)
                 \/ EndFlush(a)
           \/ Publish
           \/ UNCHANGED vars
    PROVE  AllKept(k)
<1> DEFINE Unmoved ==
       \A r \in Requests : /\ pc'[r] = pc[r] \/ pc'[r] \notin {"hit", "lead", "wait", "process"}
                           /\ pc'[r] = pc[r] => Key(r)' = Key(r)
<1>1. UNCHANGED <<mem, redis, writes, got, call, joined>>
    BY DEF Arrive, BadRequest, ServeCached, ForgetKey, Forget, RecoverPanic,
           StartInvalidate, StartPrime, StartFlush, EndFlush, Publish,
           vars, handlerVars, cacheVars, flightVars
<1>2. Unmoved
  <2>1. ASSUME NEW r \in Requests, NEW p \in Proxies, NEW t \in Tiles, Arrive(r, p, t)
        PROVE  Unmoved
    <3>1. /\ pc[r] = "idle" /\ task' = [task EXCEPT ![r] = [proxy |-> p, tile |-> t]]
          /\ \E label \in {"mem", "redis"} : pc' = [pc EXCEPT ![r] = label]
        BY <2>1 DEF Arrive, FetchStart, Goto
    <3> QED
        BY <3>1 DEF IInv, TypeOK, Procs, Key
  <2>2. ASSUME NEW r \in Requests,
               BadRequest(r) \/ ServeCached(r) \/ ForgetKey(r) \/ RecoverPanic(r)
        PROVE  Unmoved
    <3>1. UNCHANGED task /\ \E label \in {"panic", "done"} : pc' = [pc EXCEPT ![r] = label]
        BY <2>2 DEF BadRequest, ServeCached, ForgetKey, RecoverPanic, Goto
    <3> QED
        BY <3>1 DEF IInv, TypeOK, Procs, Key
  <2>3. ASSUME NEW a \in Admins, NEW p \in Proxies, NEW t \in Tiles,
               StartInvalidate(a, p, t) \/ StartPrime(a, p, t)
        PROVE  Unmoved
    <3>1. /\ task' = [task EXCEPT ![a] = [proxy |-> p, tile |-> t]]
          /\ \E label : pc' = [pc EXCEPT ![a] = label]
        BY <2>3 DEF StartInvalidate, StartPrime, Goto
    <3> QED
        BY <3>1, ProcsAssumption DEF IInv, TypeOK, Procs, Key
  <2>4. ASSUME NEW a \in Admins,
               (\E P \in {Proxies} \cup {{p} : p \in Proxies} : StartFlush(a, P)) \/ EndFlush(a)
        PROVE  Unmoved
    <3>1. UNCHANGED task /\ \E label : pc' = [pc EXCEPT ![a] = label]
        BY <2>4 DEF StartFlush, EndFlush, Goto
    <3> QED
        BY <3>1, ProcsAssumption DEF IInv, TypeOK, Procs, Key
  <2>5. CASE Publish \/ UNCHANGED vars
      BY <2>5 DEF Publish, vars, handlerVars, cacheVars, Key
  <2> QED
      BY <2>1, <2>2, <2>3, <2>4, <2>5
<1> QED
    BY <1>1, <1>2, LosingKeeps

\* A worker writes what the upstream has at this moment, or nothing.
LEMMA PrimeReads ==
    ASSUME IInv, NEW a \in Admins, Prime(a)
    PROVE  \/ \A k \in Keys : Copies(k)' = Copies(k)
           \/ \A k \in Keys :
                 Copies(k)' = Copies(k) \cup (IF k = Key(a) THEN {Fresh(a)} ELSE {})
<1>1. UNCHANGED <<mem, redis, task, got, call, joined>> /\ pc' = [pc EXCEPT ![a] = "done"]
    BY DEF Prime, Goto, flightVars
<1>2. \A r \in Requests : pc'[r] = pc[r] /\ Key(r)' = Key(r)
    BY <1>1, ProcsAssumption DEF IInv, TypeOK, Procs, Key
<1>3. task[a] \in Task
    BY DEF Prime, IInv, TasksKnown, Ended, Procs
<1> DEFINE PacketsAt(W, k) == {w.packet : w \in {u \in W : u.key = k}}
<1>4. ASSUME NEW k \in Keys, NEW D, PacketsAt(writes', k) = PacketsAt(writes, k) \cup D
      PROVE  Held(k)' = Held(k) \cup D
  <2>1. {ResultOf(r)'.packet : r \in {u \in Requests :
            pc'[u] \in {"lead", "wait", "process"} /\ Key(u)' = k
              /\ call'[joined'[u]].state \in {"returned", "done"}}}
          = {ResultOf(r).packet : r \in {u \in Requests :
                pc[u] \in {"lead", "wait", "process"} /\ Key(u) = k
                  /\ call[joined[u]].state \in {"returned", "done"}}}
      BY <1>1, <1>2 DEF ResultOf
  <2>2. {got'[r] : r \in {u \in Requests : pc'[u] = "hit" /\ Key(u)' = k}}
          = {got[r] : r \in {u \in Requests : pc[u] = "hit" /\ Key(u) = k}}
      BY <1>1, <1>2
  <2> QED
      BY <1>1, <1>4, <2>1, <2>2 DEF Held
<1>5. CASE UNCHANGED writes
    BY <1>4, <1>5 DEF Copies
<1>6. CASE writes' = writes \cup SetWrites(a, Fresh(a), FALSE)
  <2>1. PICK w \in SetWrites(a, Fresh(a), FALSE) : TRUE
    <3>1. task[a].proxy \in MemEnabled \/ task[a].proxy \in RedisEnabled
        BY <1>3, CacheAssumption DEF Task
    <3>2. CASE task[a].proxy \in MemEnabled
        BY <3>2 DEF SetWrites
    <3>3. CASE task[a].proxy \in RedisEnabled
        BY <3>3 DEF SetWrites
    <3> QED
        BY <3>1, <3>2, <3>3
  <2>2. \A u \in SetWrites(a, Fresh(a), FALSE) : u.packet = Fresh(a) /\ u.key = Key(a)
      BY DEF SetWrites
  <2>3. ASSUME NEW k \in Keys
        PROVE  PacketsAt(writes', k) = PacketsAt(writes, k) \cup (IF k = Key(a) THEN {Fresh(a)} ELSE {})
      BY <1>6, <2>1, <2>2
  <2>4. Fresh(a) \in Packet
      BY <1>3 DEF Fresh, Task, Packet, IInv, TypeOK
  <2> HIDE DEF PacketsAt
  <2>5. ASSUME NEW k \in Keys
        PROVE  Held(k)' = Held(k) \cup (IF k = Key(a) THEN {Fresh(a)} ELSE {})
      BY <1>4, <2>3
  <2> QED
      BY <2>4, <2>5, ValueAssumption DEF Copies
<1> QED
    BY <1>5, <1>6 DEF Prime

\* A process that stops takes everything but Redis with it.
LEMMA RestartFresh ==
    ASSUME IInv, NEW k \in Keys, Restart
    PROVE  AllKept(k)
<1>1. /\ mem' = [p \in Proxies |-> [j \in Keys |-> None]]
      /\ writes' = {}
      /\ pc' = [q \in Procs |-> IF Active(q) THEN "done" ELSE pc[q]]
      /\ UNCHANGED redis
    BY DEF Restart, CacheRestart
<1>2. \A r \in Requests : pc'[r] \notin {"hit", "lead", "wait", "process"}
    BY <1>1 DEF Active, Ended, Procs
<1>3. LevelsKept(k)
    BY <1>1, HeldNow DEF LevelsKept, Kept
<1>4. WritesKept(k) /\ FetchedKept(k) /\ ResultsKept(k)
    BY <1>1, <1>2 DEF WritesKept, FetchedKept, ResultsKept, UsesResult
<1> QED
    BY <1>3, <1>4 DEF AllKept

\* The steps in which the upstream is read.
Reads == (\E r \in Requests : UpstreamAnswers(r)) \/ (\E a \in Admins : Prime(a))

\* Every other step keeps to what was held.
LEMMA NextFresh ==
    ASSUME IInv, NEW k \in Keys, [Next]_vars, ~Reads
    PROVE  AllKept(k)
<1>1. ASSUME NEW r \in Requests, RequestStep(r)
      PROVE  AllKept(k)
  <2>1. CASE Lookup(r)
    <3>1. CASE FetchMem(r) \/ FetchRedis(r)
        BY <2>1, <3>1, FetchFresh DEF Lookup
    <3>2. CASE InvalidateMem(r) \/ InvalidateRedis(r)
        BY <2>1, <3>2, RemovalFresh DEF Lookup, Procs
    <3> QED
        BY <2>1, <3>1, <3>2 DEF Lookup
  <2> QED
      BY <1>1, <2>1, QuietFresh, StartFlightFresh, FlightEndsFresh, UseResultFresh
         DEF RequestStep, Reads
<1>2. ASSUME NEW r \in Requests,
             BadRequest(r) \/ \E p \in Proxies, t \in Tiles : Arrive(r, p, t)
      PROVE  AllKept(k)
    BY <1>2, QuietFresh
<1>3. ASSUME NEW a \in Admins,
             \/ \E p \in Proxies, t \in Tiles : StartInvalidate(a, p, t) \/ StartPrime(a, p, t)
             \/ \E P \in {Proxies} \cup {{p} : p \in Proxies} : StartFlush(a, P)
             \/ AdminStep(a)
             \/ PrimeCrash(a)
      PROVE  AllKept(k)
  <2>1. CASE AdminStep(a)
    <3>1. CASE (InvalidateMem(a) \/ InvalidateRedis(a) \/ FlushShard(a)) /\ UNCHANGED flightVars
        BY <3>1, RemovalFresh DEF Procs
    <3> QED
        BY <2>1, <3>1, QuietFresh DEF AdminStep, Reads
  <2> QED
      BY <1>3, <2>1, QuietFresh, RestartFresh DEF PrimeCrash
<1>4. CASE \E w \in writes : ApplyWrite(w)
    BY <1>4, ApplyWriteFresh
<1>5. CASE Publish \/ Decay \/ Restart \/ UNCHANGED vars
    BY <1>5, QuietFresh, RemovalFresh, RestartFresh
<1> QED
    BY <1>1, <1>2, <1>3, <1>4, <1>5 DEF Next

-----------------------------------------------------------------------------
\* What appears under a key was held there already or was read from the upstream
\* in that step: no flight, refresh or late write revives data whose last copy
\* is gone (cache.go 293-347, proxy.go 56-71).
THEOREM NothingReturns == Spec => NoResurrection
<1>1. ASSUME IInv, [Next]_vars, NEW k \in Keys, NEW d \in Copies(k)'
      PROVE  d \in Copies(k) \/ d.version = version
  <2>1. CASE ~Reads
      BY <1>1, <2>1, NextFresh, KeptCopies
  <2>2. ASSUME NEW q, \/ \A j \in Keys : Copies(j)' = Copies(j)
                      \/ \A j \in Keys : Copies(j)' =
                             Copies(j) \cup (IF j = Key(q) THEN {Fresh(q)} ELSE {})
        PROVE  d \in Copies(k) \/ d.version = version
    <3>1. Fresh(q).version = version
        BY DEF Fresh
    <3> QED
        BY <1>1, <2>2, <3>1
  <2> QED
      BY <1>1, <2>1, <2>2, UpstreamAnswersReads, PrimeReads DEF Reads
<1>2. IInv /\ [Next]_vars =>
        [\A k \in Keys : \A d \in Copies(k)' : d \in Copies(k) \/ d.version = version]_vars
    BY <1>1
<1> QED
    BY <1>2, Invariance, PTL DEF Spec, NoResurrection

-----------------------------------------------------------------------------
(***************************************************************************)
(* Where no two proxies and tiles share a key, every step of the process   *)
(* is a step of the service or invisible to it.                            *)
(***************************************************************************)

\* What there is of the tile and proxy of key k, replies being written included.
AllCopies(k) == (Copies(k) \cup Written(k)) \ {None}

\* The state of the service.
Side == [p \in Proxies |-> [t \in Tiles |-> {d.version : d \in AllCopies(KeyOf[p][t])}]]
Asked == [r \in Requests |-> task[r]]
Answers == [r \in Requests |-> IF pc[r] = "done" THEN reply[r] ELSE None]

\* The steps of the service, in these words.
LEMMA ServiceSteps ==
    /\ Service!svars = <<version, Side, Asked, Answers>>
    /\ Service!Publish <=> version < MaxVersion /\ version' = version + 1
                           /\ UNCHANGED <<Side, Asked, Answers>>
    /\ Service!Fewer <=> /\ Side' \in [Proxies -> [Tiles -> SUBSET Nat]]
                         /\ \A p \in Proxies, t \in Tiles : Side'[p][t] \subseteq Side[p][t]
    /\ Service!Lose <=> Service!Fewer /\ UNCHANGED <<version, Asked, Answers>>
    /\ \A r \in Requests : Service!Waiting(r) <=> Asked[r] # None /\ Answers[r] = None
BY DEF Service!svars, Service!Publish, Service!Fewer, Service!Lose, Service!Waiting,
       Side, Asked, Answers, AllCopies

-----------------------------------------------------------------------------
(***************************************************************************)
(* What becomes of the copies.                                             *)
(***************************************************************************)

\* Every copy is a packet of its key, and so are replies that are being written.
LEMMA CopiesTyped ==
    ASSUME IInv, RequestsInOrder, NEW k \in Keys, NEW d \in AllCopies(k)
    PROVE  Filed(d, k)
<1>1. CASE d \in Copies(k)
    BY <1>1, CopiesFiled
<1>2. ASSUME NEW r \in Requests, pc[r] = "forget", Key(r) = k, reply[r] # None, d = reply[r].body
      PROVE  Filed(d, k)
  <2>1. reply[r].code = 200 \/ reply[r] = [code |-> 500, body |-> None]
      BY <1>2 DEF RequestsInOrder
  <2>2. d # None
      BY DEF AllCopies
  <2>3. reply[r].code = 200
      BY <1>2, <2>1, <2>2
  <2> QED
      BY <1>2, <2>3 DEF IInv, RepliesFiled
<1> QED
    BY <1>1, <1>2 DEF AllCopies, Written

\* Replies being written stay where no request comes to write or stops to.
LEMMA WrittenStays ==
    ASSUME NEW k \in Keys,
           \A r \in Requests :
              \/ pc'[r] = pc[r] /\ Key(r)' = Key(r) /\ reply'[r] = reply[r]
              \/ pc[r] # "forget" /\ pc'[r] # "forget"
    PROVE  Written(k)' = Written(k)
BY DEF Written

\* They may become fewer.
LEMMA WrittenShrinks ==
    ASSUME NEW k \in Keys,
           \A r \in Requests : pc'[r] = "forget" =>
              pc[r] = "forget" /\ Key(r)' = Key(r) /\ reply'[r] = reply[r]
    PROVE  Written(k)' \subseteq Written(k)
BY DEF Written

\* A handler writes what its flight gave it, or nothing.
LEMMA WrittenByResult ==
    ASSUME IInv, RequestsInOrder, NEW k \in Keys, NEW r \in Requests, UseResult(r)
    PROVE  Written(k)' \subseteq Written(k) \cup Copies(k) \cup {None}
<1>1. /\ pc[r] = "process" /\ UNCHANGED task
      /\ \A s \in Requests : s # r => pc'[s] = pc[s] /\ reply'[s] = reply[s]
      /\ \/ reply'[r] = [code |-> 200, body |-> ResultOf(r).packet]
         \/ reply'[r] = [code |-> 500, body |-> None]
         \/ reply'[r] = reply[r]
    BY UseResultMoves DEF Moves, OthersStand
<1>2. \A s \in Requests : Key(s)' = Key(s)
    BY <1>1 DEF Key
<1>3. Key(r) = k => ResultOf(r).packet \in Copies(k) \cup {None}
  <2>1. pc[r] = "process" /\ joined[r] \in Requests /\ call[joined[r]].state = "done"
      BY <1>1 DEF IInv, TypeOK, JoinsMatch
  <2>2. ResultOf(r).packet \in Packet \cup {None}
      BY <2>1 DEF IInv, CallsFiled, Result, ResultOf
  <2>3. Key(r) = k => ResultOf(r).packet \in Held(k)
      BY <2>1 DEF Held
  <2> QED
      BY <2>2, <2>3, ValueAssumption DEF Copies
<1>4. reply[r] = None
    BY <1>1 DEF RequestsInOrder
<1>5. ASSUME NEW s \in Requests, pc'[s] = "forget", Key(s)' = k, reply'[s] # None
      PROVE  reply'[s].body \in Written(k) \cup Copies(k) \cup {None}
  <2>1. CASE s # r
      BY <1>1, <1>2, <1>5, <2>1 DEF Written
  <2>2. CASE s = r
    <3>1. reply'[r].body \in {ResultOf(r).packet, None}
      <4>1. CASE reply'[r] = [code |-> 200, body |-> ResultOf(r).packet]
          BY <4>1
      <4>2. CASE reply'[r] = [code |-> 500, body |-> None]
          BY <4>2
      <4> QED
          BY <1>1, <1>4, <1>5, <2>2, <4>1, <4>2
    <3> QED
        BY <1>2, <1>3, <1>5, <2>2, <3>1
  <2> QED
      BY <2>1, <2>2
<1> QED
    BY <1>5 DEF Written

\* Copies stay where no request comes to hold one or lets go of one.
LEMMA CopiesStay ==
    ASSUME NEW k \in Keys,
           UNCHANGED <<mem, redis, writes, got, call, joined>>,
           \A r \in Requests :
              \/ pc'[r] = pc[r] /\ Key(r)' = Key(r)
              \/ {pc[r], pc'[r]} \cap {"hit", "lead", "wait", "process"} = {}
    PROVE  Copies(k)' = Copies(k)
<1>1. {got'[r] : r \in {s \in Requests : pc'[s] = "hit" /\ Key(s)' = k}}
        = {got[r] : r \in {s \in Requests : pc[s] = "hit" /\ Key(s) = k}}
    OBVIOUS
<1>2. {ResultOf(r)'.packet : r \in {s \in Requests :
          pc'[s] \in {"lead", "wait", "process"} /\ Key(s)' = k
            /\ call'[joined'[s]].state \in {"returned", "done"}}}
        = {ResultOf(r).packet : r \in {s \in Requests :
              pc[s] \in {"lead", "wait", "process"} /\ Key(s) = k
                /\ call[joined[s]].state \in {"returned", "done"}}}
    BY DEF ResultOf
<1> QED
    BY <1>1, <1>2 DEF Copies, Held

\* No step but a read of the upstream adds a copy.
LEMMA NoCopyAppears ==
    ASSUME IInv, RequestsInOrder, NEW k \in Keys, [Next]_vars, ~Reads
    PROVE  AllCopies(k)' \subseteq AllCopies(k)
<1>1. Copies(k)' \subseteq Copies(k)
    BY NextFresh, KeptCopies
<1>2. Written(k)' \subseteq Written(k) \cup Copies(k) \cup {None}
  <2>1. CASE Elsewhere
    <3>1. \A r \in Requests : pc'[r] = pc[r] /\ Key(r)' = Key(r) /\ reply'[r] = reply[r]
        BY <2>1, ElsewhereMoves
    <3> QED
        BY <3>1, WrittenShrinks
  <2>2. CASE Restart
    <3>1. \A r \in Requests : pc'[r] # "forget"
        BY <2>2, RestartMoves DEF Active, Ended
    <3> QED
        BY <3>1, WrittenShrinks
  <2>3. ASSUME NEW r \in Requests, ~UseResult(r),
               BadRequest(r) \/ (\E p \in Proxies, t \in Tiles : Arrive(r, p, t)) \/ RequestStep(r)
        PROVE  Written(k)' \subseteq Written(k)
    <3>1. OthersStand(r)
        BY <2>3, MoversLeaveOthers DEF Reads
    <3>2. pc'[r] # "forget"
      <4>1. CASE BadRequest(r) \/ \E p \in Proxies, t \in Tiles : Arrive(r, p, t)
          BY <4>1, ArriveMoves DEF Moves
      <4>2. CASE Lookup(r)
          BY <4>2, LookupMoves DEF Moves
      <4>3. CASE StartFlight(r)
          BY <4>3, StartFlightMoves DEF Moves
      <4>4. CASE FinishFlight(r) \/ WakeUp(r)
          BY <4>4, DoEndMoves DEF Moves
      <4>5. CASE ForgetKey(r)
          BY <4>5, ForgetMoves DEF Moves
      <4>6. CASE ServeCached(r) \/ RecoverPanic(r)
          BY <4>6, EndMoves DEF Moves
      <4> QED
          BY <2>3, <4>1, <4>2, <4>3, <4>4, <4>5, <4>6 DEF RequestStep, Reads
    <3> QED
        BY <3>1, <3>2, WrittenShrinks DEF OthersStand
  <2> QED
      BY <2>1, <2>2, <2>3, StepKinds, WrittenByResult
<1> QED
    BY <1>1, <1>2 DEF AllCopies

-----------------------------------------------------------------------------
(***************************************************************************)
(* Every step is a step of the service.                                    *)
(***************************************************************************)

\* Fewer copies in the process are fewer copies in the service.
LEMMA FewerOnTheSide ==
    ASSUME IInv, RequestsInOrder, \A k \in Keys : AllCopies(k)' \subseteq AllCopies(k)
    PROVE  Service!Fewer
<1>1. ASSUME NEW p \in Proxies, NEW t \in Tiles
      PROVE  /\ {d.version : d \in AllCopies(KeyOf[p][t])'}
                   \subseteq {d.version : d \in AllCopies(KeyOf[p][t])}
             /\ {d.version : d \in AllCopies(KeyOf[p][t])'} \in SUBSET Nat
  <2>1. KeyOf[p][t] \in Keys
      BY CacheAssumption
  <2>2. AllCopies(KeyOf[p][t])' \subseteq AllCopies(KeyOf[p][t])
      BY <2>1
  <2>3. \A d \in AllCopies(KeyOf[p][t]) : d.version \in Nat
      BY <2>1, CopiesTyped DEF Filed, Packet
  <2> QED
      BY <2>2, <2>3
<1>2. /\ Side = [p \in Proxies |-> [t \in Tiles |-> {d.version : d \in AllCopies(KeyOf[p][t])}]]
      /\ Side' = [p \in Proxies |-> [t \in Tiles |-> {d.version : d \in AllCopies(KeyOf[p][t])'}]]
    BY DEF Side
<1>3. /\ Side' \in [Proxies -> [Tiles -> SUBSET Nat]]
      /\ \A p \in Proxies, t \in Tiles : Side'[p][t] \subseteq Side[p][t]
    BY <1>1, <1>2
<1> QED
    BY <1>3, ServiceSteps

\* The same copies are the same in the service.
LEMMA SameOnTheSide ==
    ASSUME \A k \in Keys : Copies(k)' = Copies(k) /\ Written(k)' = Written(k)
    PROVE  UNCHANGED Side
BY CacheAssumption DEF Side, AllCopies

\* Requests that nobody answers have no other answer after than before.
LEMMA NoAnswer ==
    ASSUME \A r \in Requests : /\ task'[r] = task[r]
                               /\ \/ pc[r] # "done" /\ pc'[r] # "done"
                                  \/ pc'[r] = pc[r] /\ reply'[r] = reply[r]
    PROVE  UNCHANGED <<Asked, Answers>>
BY DEF Asked, Answers

\* The request that is done has its reply for an answer.
LEMMA ReplyAnswers ==
    ASSUME NEW r \in Requests, OthersStand(r), pc'[r] = "done", NEW a, reply'[r] = a
    PROVE  Answers' = [Answers EXCEPT ![r] = a]
BY DEF Answers, OthersStand

\* A request arrives: the service is asked.
LEMMA ArriveAsks ==
    ASSUME IInv, RequestsInOrder, NEW r \in Requests, NEW p \in Proxies, NEW t \in Tiles,
           Arrive(r, p, t)
    PROVE  Service!Ask(r, p, t)
<1>1. /\ pc[r] = "idle" /\ pc'[r] \in {"mem", "redis"} /\ OthersStand(r)
      /\ reply'[r] = reply[r]
    <2>1. \E label \in {"mem", "redis"} : Goto(r, label)
        BY DEF Arrive, FetchStart
    <2>2. pc'[r] \in {"mem", "redis"}
        BY <2>1, LabelMoves DEF Procs
    <2>3. pc[r] = "idle" /\ UNCHANGED reply
        BY DEF Arrive
    <2> QED
        BY <2>2, <2>3, ArriveMoves DEF Moves
<1>2. UNCHANGED <<mem, redis, writes, got, call, joined, version>>
    BY DEF Arrive, flightVars
<1>3. UNCHANGED Side
  <2>1. \A k \in Keys : Copies(k)' = Copies(k)
      BY <1>1, <1>2, CopiesStay DEF OthersStand
  <2>2. \A k \in Keys : Written(k)' = Written(k)
      BY <1>1, WrittenStays DEF OthersStand
  <2> QED
      BY <2>1, <2>2, SameOnTheSide
<1>4. Asked' = [Asked EXCEPT ![r] = [proxy |-> p, tile |-> t]]
  <2>1. task'[r] = [proxy |-> p, tile |-> t]
      BY DEF Arrive, IInv, TypeOK, Procs
  <2> QED
      BY <1>1, <2>1 DEF Asked, OthersStand
<1>5. UNCHANGED Answers
    BY <1>1 DEF Answers, OthersStand
<1>6. Asked[r] = None /\ Answers[r] = None
    BY <1>1 DEF Asked, Answers, RequestsInOrder
<1> QED
    BY <1>2, <1>3, <1>4, <1>5, <1>6 DEF Service!Ask, Side, Asked, Answers, AllCopies

\* A request that names no tile is refused.
LEMMA BadRequestRefuses ==
    ASSUME IInv, RequestsInOrder, NEW r \in Requests, BadRequest(r)
    PROVE  Service!Refuse(r)
<1>1. /\ pc[r] = "idle" /\ pc'[r] = "done" /\ OthersStand(r)
      /\ reply'[r] = [code |-> 400, body |-> None]
  <2>1. /\ pc[r] = "idle" /\ Goto(r, "done") /\ Respond(r, 400, None)
      BY DEF BadRequest
  <2>2. pc'[r] = "done"
      BY <2>1, LabelMoves DEF Procs
  <2> QED
      BY <2>1, <2>2, Responds, ArriveMoves DEF Moves
<1>2. UNCHANGED <<mem, redis, writes, got, call, joined, version, task>>
    BY DEF BadRequest, flightVars
<1>3. UNCHANGED Side
  <2>1. \A k \in Keys : Copies(k)' = Copies(k)
      BY <1>1, <1>2, CopiesStay DEF OthersStand
  <2>2. \A k \in Keys : Written(k)' = Written(k)
      BY <1>1, WrittenStays DEF OthersStand
  <2> QED
      BY <2>1, <2>2, SameOnTheSide
<1>4. UNCHANGED Asked
    BY <1>2 DEF Asked
<1>5. Answers' = [Answers EXCEPT ![r] = [code |-> 400, body |-> None]]
    BY <1>1, ReplyAnswers
<1>6. Asked[r] = None /\ Answers[r] = None
    BY <1>1 DEF Asked, Answers, RequestsInOrder
<1> QED
    BY <1>2, <1>3, <1>4, <1>5, <1>6 DEF Service!Refuse, Side, Asked, Answers, AllCopies

\* The upstream's data changes for both.
LEMMA PublishPublishes ==
    ASSUME Publish
    PROVE  Service!Publish
<1>1. /\ version < MaxVersion /\ version' = version + 1
      /\ UNCHANGED <<mem, redis, writes, pc, task, got, call, joined, reply>>
    BY DEF Publish, cacheVars, flightVars
<1>2. \A k \in Keys : Copies(k)' = Copies(k) /\ Written(k)' = Written(k)
    BY <1>1, CopiesStay, WrittenStays DEF Key
<1> QED
    BY <1>1, <1>2, SameOnTheSide, ServiceSteps DEF Asked, Answers

\* A read of the upstream on behalf of q adds what it has, or nothing.
LEMMA ReadsRead ==
    ASSUME Injective, IInv, RequestsInOrder, NEW q \in Procs, task[q] \in Task,
           \/ \A k \in Keys : Copies(k)' = Copies(k)
           \/ \A k \in Keys :
                 Copies(k)' = Copies(k) \cup (IF k = Key(q) THEN {Fresh(q)} ELSE {}),
           \A k \in Keys : Written(k)' = Written(k),
           UNCHANGED <<version, Asked, Answers>>
    PROVE  UNCHANGED Service!svars \/ \E p \in Proxies, t \in Tiles : Service!ReadUpstream(p, t)
<1>1. CASE \A k \in Keys : Copies(k)' = Copies(k)
  <2>1. UNCHANGED Side
      BY <1>1, SameOnTheSide
  <2>2. UNCHANGED <<version, Side, Asked, Answers>>
      BY <2>1
  <2> QED
      BY <2>2 DEF Service!svars, Side, Asked, Answers, AllCopies
<1>2. CASE \A k \in Keys :
              Copies(k)' = Copies(k) \cup (IF k = Key(q) THEN {Fresh(q)} ELSE {})
  <2>1. PICK p \in Proxies, t \in Tiles :
           p = task[q].proxy /\ t = task[q].tile /\ KeyOf[p][t] = Key(q)
      BY DEF Task, Key, KeyFor
  <2>2. Fresh(q) # None /\ Fresh(q).version = version
    <3>1. Fresh(q) \in Packet
        BY <2>1 DEF Fresh, Packet, IInv, TypeOK
    <3> QED
        BY <3>1, ValueAssumption DEF Fresh
  <2>3. ASSUME NEW o \in Proxies, NEW u \in Tiles
        PROVE  {d.version : d \in AllCopies(KeyOf[o][u])'}
                 = {d.version : d \in AllCopies(KeyOf[o][u])}
                     \cup (IF o = p /\ u = t THEN {version} ELSE {})
    <3>1. KeyOf[o][u] \in Keys
        BY CacheAssumption
    <3>2. KeyOf[o][u] = Key(q) <=> o = p /\ u = t
        BY <2>1, Injective DEF Injective
    <3>3. AllCopies(KeyOf[o][u])' =
             AllCopies(KeyOf[o][u]) \cup (IF o = p /\ u = t THEN {Fresh(q)} ELSE {})
        BY <1>2, <2>2, <3>1, <3>2 DEF AllCopies
    <3> QED
        BY <2>2, <3>3
  <2>4. Side' = [Side EXCEPT ![p][t] = @ \cup {version}]
    <3>1. /\ Side = [o \in Proxies |-> [u \in Tiles |->
                        {d.version : d \in AllCopies(KeyOf[o][u])}]]
          /\ Side' = [o \in Proxies |-> [u \in Tiles |->
                        {d.version : d \in AllCopies(KeyOf[o][u])'}]]
        BY DEF Side
    <3>2. \A o \in Proxies, u \in Tiles :
             Side'[o][u] = Side[o][u] \cup (IF o = p /\ u = t THEN {version} ELSE {})
        BY <2>3, <3>1
    <3>3. \A o \in Proxies : o # p => Side'[o] = Side[o]
        BY <2>3, <3>1
    <3>4. Side'[p] = [Side[p] EXCEPT ![t] = @ \cup {version}]
        BY <3>1, <3>2
    <3>5. \A o \in Proxies : Side'[o] = [Side EXCEPT ![p] = [Side[p] EXCEPT ![t] = @ \cup {version}]][o]
        BY <3>1, <3>3, <3>4
    <3> QED
        BY <3>1, <3>5
  <2>5. Service!ReadUpstream(p, t)
      BY <2>4 DEF Service!ReadUpstream, Side, Asked, Answers, AllCopies
  <2> QED
      BY <2>5
<1> QED
    BY <1>1, <1>2

\* Both kinds of reads.
LEMMA ReadSteps ==
    ASSUME Injective, IInv, RequestsInOrder, [Next]_vars, Reads
    PROVE  UNCHANGED Service!svars \/ \E p \in Proxies, t \in Tiles : Service!ReadUpstream(p, t)
<1>1. ASSUME NEW r \in Requests, UpstreamAnswers(r)
      PROVE  UNCHANGED Service!svars \/ \E p \in Proxies, t \in Tiles : Service!ReadUpstream(p, t)
  <2>1. pc[r] = "lead" /\ UNCHANGED <<version, pc, task, reply>>
      BY <1>1 DEF UpstreamAnswers, cacheVars
  <2>2. r \in Procs /\ task[r] \in Task
      BY <2>1, FlightTask
  <2>3. UNCHANGED <<Asked, Answers>> /\ \A k \in Keys : Written(k)' = Written(k)
      BY <2>1, WrittenStays DEF Asked, Answers, Key
  <2> QED
      BY <1>1, <2>1, <2>2, <2>3, UpstreamAnswersReads, ReadsRead
<1>2. ASSUME NEW a \in Admins, Prime(a)
      PROVE  UNCHANGED Service!svars \/ \E p \in Proxies, t \in Tiles : Service!ReadUpstream(p, t)
  <2>1. a \in Procs /\ task[a] \in Task
      BY <1>2 DEF Prime, IInv, TasksKnown, Ended, Procs
  <2>2. Elsewhere /\ version' = version
      BY <1>2 DEF Elsewhere, AdminStep, Prime
  <2>3. \A r \in Requests : /\ pc'[r] = pc[r] /\ task'[r] = task[r]
                            /\ Key(r)' = Key(r) /\ reply'[r] = reply[r]
      BY <2>2, ElsewhereMoves
  <2>4. UNCHANGED <<Asked, Answers>> /\ \A k \in Keys : Written(k)' = Written(k)
      BY <2>3, WrittenStays DEF Asked, Answers
  <2> QED
      BY <1>2, <2>1, <2>2, <2>4, PrimeReads, ReadsRead
<1> QED
    BY <1>1, <1>2 DEF Reads

\* An answer of the service, in these words.
LEMMA AnswerMeans ==
    ASSUME NEW r \in Requests,
           Asked[r] # None, Answers[r] = None, Service!Fewer, UNCHANGED <<version, Asked>>,
           \/ \E v \in Side[Asked[r].proxy][Asked[r].tile] :
                 Answers' = [Answers EXCEPT ![r] =
                    [code |-> 200, body |-> [proxy |-> Asked[r].proxy,
                                             tile |-> Asked[r].tile, version |-> v]]]
           \/ Answers' = [Answers EXCEPT ![r] = [code |-> 500, body |-> None]]
    PROVE  Service!Answer(r)
BY Zenon DEF Service!Answer, Service!Waiting, Side, Asked, Answers, AllCopies

\* A request is served: the answer is a copy of what it asked for, or a 500.
LEMMA EndsAnswer ==
    ASSUME Injective, IInv, RequestsInOrder, [Next]_vars, NEW r \in Requests,
           ServeCached(r) \/ RecoverPanic(r) \/ (ForgetKey(r) /\ reply[r] # None)
    PROVE  Service!Answer(r)
<1>1. /\ pc[r] \in {"hit", "panic", "forget"} /\ pc'[r] = "done" /\ OthersStand(r)
      /\ UNCHANGED task
  <2>1. CASE ServeCached(r) \/ RecoverPanic(r)
      BY <2>1, EndMoves DEF Moves
  <2>2. CASE ForgetKey(r) /\ reply[r] # None
      BY <2>2, ForgetMoves DEF Moves
  <2> QED
      BY <2>1, <2>2
<1>2. version' = version
    BY DEF ServeCached, RecoverPanic, ForgetKey
<1>3. UNCHANGED Asked
    BY <1>1 DEF Asked
<1>4. Asked[r] # None /\ Answers[r] = None
    BY <1>1, ValueAssumption DEF Asked, Answers, RequestsInOrder, Active, Ended
<1>5. Service!Fewer
  <2>1. ~Reads
    <3>1. ~\E s \in Requests : UpstreamAnswers(s)
        BY <1>1, AnswerMoves
    <3>2. ~\E a \in Admins : Prime(a)
      <4>1. ASSUME NEW a \in Admins, Prime(a) PROVE FALSE
        <5>1. pc'[r] = pc[r]
            BY <4>1, ElsewhereMoves DEF Elsewhere, AdminStep
        <5> QED
            BY <1>1, <5>1
      <4> QED
          BY <4>1
    <3> QED
        BY <3>1, <3>2 DEF Reads
  <2> QED
      BY <2>1, NoCopyAppears, FewerOnTheSide
<1>6. task[r] \in Task /\ Key(r) \in Keys
    BY <1>1, KeyTyped DEF RequestsInOrder, Active, Ended, Key
<1>7. \/ reply'[r] = [code |-> 500, body |-> None]
      \/ \E d \in AllCopies(Key(r)) : reply'[r] = [code |-> 200, body |-> d]
  <2>1. CASE ServeCached(r)
    <3>1. pc[r] = "hit" /\ reply'[r] = [code |-> 200, body |-> got[r]]
        BY <2>1, EndMoves DEF Moves, ServeCached
    <3>2. got[r] \in Packet
        BY <3>1 DEF IInv, FetchedFiled, Filed
    <3>3. got[r] \in AllCopies(Key(r))
        BY <3>1, <3>2, ValueAssumption DEF AllCopies, Copies, Held
    <3> QED
        BY <3>1, <3>3
  <2>2. CASE RecoverPanic(r)
      BY <2>2, Responds DEF RecoverPanic
  <2>3. CASE ForgetKey(r) /\ reply[r] # None
    <3>1. pc[r] = "forget" /\ reply'[r] = reply[r]
        BY <2>3, ForgetMoves DEF Moves
    <3>2. CASE reply[r].code = 200
      <4>1. reply[r] = [code |-> 200, body |-> reply[r].body]
        <5>1. reply[r] \in Reply
            BY <2>3 DEF IInv, TypeOK
        <5> QED
            BY <3>2, <5>1 DEF Reply
      <4>2. reply[r].body \in Packet
          BY <2>3, <3>2 DEF IInv, RepliesFiled, Filed
      <4>3. reply[r].body \in AllCopies(Key(r))
          BY <2>3, <3>1, <4>2, ValueAssumption DEF AllCopies, Written
      <4> QED
          BY <3>1, <4>1, <4>3
    <3> QED
        BY <2>3, <3>1, <3>2 DEF RequestsInOrder
  <2> QED
      BY <2>1, <2>2, <2>3
<1>8. Asked[r] = task[r]
    BY DEF Asked
<1>9. CASE reply'[r] = [code |-> 500, body |-> None]
  <2>1. Answers' = [Answers EXCEPT ![r] = [code |-> 500, body |-> None]]
      BY <1>1, <1>9, ReplyAnswers
  <2> QED
      BY <1>2, <1>3, <1>4, <1>5, <2>1, AnswerMeans
<1>10. CASE \E d \in AllCopies(Key(r)) : reply'[r] = [code |-> 200, body |-> d]
  <2>1. PICK d \in AllCopies(Key(r)) : reply'[r] = [code |-> 200, body |-> d]
      BY <1>10
  <2>2. PICK p \in Proxies, t \in Tiles :
           task[r].proxy = p /\ task[r].tile = t /\ Key(r) = KeyOf[p][t]
      BY <1>6 DEF Task, Key, KeyFor
  <2>3. d \in Packet /\ KeyOf[d.proxy][d.tile] = KeyOf[p][t]
      BY <1>6, <2>2, CopiesTyped DEF Filed, KeyFor
  <2>4. d.proxy = p /\ d.tile = t
      BY <2>2, <2>3, Injective DEF Injective, Packet
  <2>5. d = [proxy |-> p, tile |-> t, version |-> d.version]
      BY <2>3, <2>4 DEF Packet
  <2>6. d.version \in Side[p][t]
      BY <2>2 DEF Side
  <2>7. Answers' = [Answers EXCEPT ![r] = [code |-> 200, body |-> d]]
      BY <1>1, <2>1, ReplyAnswers
  <2>8. \E v \in Side[Asked[r].proxy][Asked[r].tile] :
           Answers' = [Answers EXCEPT ![r] =
              [code |-> 200, body |-> [proxy |-> Asked[r].proxy,
                                       tile |-> Asked[r].tile, version |-> v]]]
      BY <1>8, <2>2, <2>5, <2>6, <2>7
  <2> QED
      BY <1>2, <1>3, <1>4, <1>5, <2>8, AnswerMeans
<1> QED
    BY <1>7, <1>9, <1>10

\* The process stops, and with it the service.
LEMMA RestartStops ==
    ASSUME IInv, RequestsInOrder, Restart
    PROVE  Service!Stop
<1>1. version' = version /\ UNCHANGED Asked
    BY RestartMoves DEF Restart, Asked
<1>2. Service!Fewer
  <2>1. ASSUME NEW k \in Keys
        PROVE  AllCopies(k)' \subseteq AllCopies(k)
    <3>1. Copies(k)' \subseteq Copies(k)
        BY RestartFresh, KeptCopies
    <3>2. Written(k)' \subseteq Written(k)
      <4>1. \A r \in Requests : pc'[r] # "forget"
          BY RestartMoves DEF Active, Ended
      <4> QED
          BY <4>1, WrittenShrinks
    <3> QED
        BY <3>1, <3>2 DEF AllCopies
  <2> QED
      BY <2>1, FewerOnTheSide
<1>3. Answers' = [r \in Requests |-> IF Asked[r] # None /\ Answers[r] = None
                                       THEN [code |-> 0, body |-> None] ELSE Answers[r]]
  <2> SUFFICES ASSUME NEW r \in Requests
               PROVE  (IF pc'[r] = "done" THEN reply'[r] ELSE None) =
                         IF Asked[r] # None /\ Answers[r] = None
                           THEN [code |-> 0, body |-> None] ELSE Answers[r]
      BY DEF Answers
  <2>1. CASE Active(r)
    <3>1. pc'[r] = "done" /\ reply'[r] = [code |-> 0, body |-> None]
        BY <2>1, RestartMoves
    <3>2. task[r] \in Task /\ pc[r] # "done"
        BY <2>1 DEF RequestsInOrder, Active, Ended
    <3>3. Asked[r] # None /\ Answers[r] = None
        BY <3>2, ValueAssumption DEF Asked, Answers
    <3> QED
        BY <3>1, <3>3
  <2>2. CASE ~Active(r)
    <3>1. pc'[r] = pc[r] /\ reply'[r] = reply[r]
        BY <2>2, RestartMoves
    <3>2. ~(Asked[r] # None /\ Answers[r] = None)
        BY <2>2 DEF RequestsInOrder, Active, Ended, Asked, Answers
    <3> QED
        BY <3>1, <3>2 DEF Answers
  <2> QED
      BY <2>1, <2>2
<1> QED
    BY <1>1, <1>2, <1>3 DEF Service!Stop, Service!Waiting, Side, Asked, Answers, AllCopies

\* The steps of a request that answer nothing only lose copies.
LEMMA OtherStepsLose ==
    ASSUME IInv, RequestsInOrder, [Next]_vars, ~Reads, version' = version,
           UNCHANGED <<Asked, Answers>>
    PROVE  Service!Lose
BY NoCopyAppears, FewerOnTheSide, ServiceSteps

\* Every step is one of the service's, or none.
LEMMA NextServes ==
    ASSUME Injective, IInv, RequestsInOrder, [Next]_vars
    PROVE  [Service!Next]_Service!svars
<1>1. CASE Reads
    BY <1>1, ReadSteps DEF Service!Next
<1>2. CASE Elsewhere /\ ~Reads
  <2>1. CASE Publish
      BY <2>1, PublishPublishes DEF Service!Next
  <2>2. CASE ~Publish
    <3>1. version' = version
        BY <1>2, <2>2 DEF Elsewhere, StartInvalidate, StartPrime, StartFlush, AdminStep, EndFlush,
                          Prime, ApplyWrite, Decay, vars, handlerVars
    <3>2. UNCHANGED <<Asked, Answers>>
        BY <1>2, ElsewhereMoves DEF Asked, Answers
    <3> QED
        BY <1>2, <3>1, <3>2, OtherStepsLose DEF Service!Next
  <2> QED
      BY <2>1, <2>2
<1>3. CASE Restart
    BY <1>3, RestartStops DEF Service!Next
<1>4. ASSUME NEW r \in Requests, BadRequest(r) \/ \E p \in Proxies, t \in Tiles : Arrive(r, p, t)
      PROVE  [Service!Next]_Service!svars
    BY <1>4, ArriveAsks, BadRequestRefuses DEF Service!Next
<1>5. ASSUME NEW r \in Requests, RequestStep(r), ~Reads
      PROVE  [Service!Next]_Service!svars
  <2>1. CASE ServeCached(r) \/ RecoverPanic(r) \/ (ForgetKey(r) /\ reply[r] # None)
      BY <2>1, EndsAnswer DEF Service!Next
  <2>2. CASE \/ Lookup(r) \/ StartFlight(r) \/ FinishFlight(r) \/ WakeUp(r) \/ UseResult(r)
             \/ ForgetKey(r) /\ reply[r] = None
    <3>1. /\ version' = version /\ UNCHANGED task /\ OthersStand(r)
          /\ pc[r] # "done" /\ pc'[r] # "done"
      <4>1. CASE Lookup(r)
          BY <4>1, LookupMoves DEF Moves, Lookups, Lookup
      <4>2. CASE StartFlight(r)
          BY <4>2, StartFlightMoves DEF Moves, StartFlight
      <4>3. CASE FinishFlight(r) \/ WakeUp(r)
          BY <4>3, DoEndMoves DEF Moves, FinishFlight, WakeUp
      <4>4. CASE UseResult(r)
          BY <4>4, UseResultMoves DEF Moves, UseResult
      <4>5. CASE ForgetKey(r) /\ reply[r] = None
          BY <4>5, ForgetMoves DEF Moves, ForgetKey
      <4> QED
          BY <2>2, <4>1, <4>2, <4>3, <4>4, <4>5
    <3>2. UNCHANGED <<Asked, Answers>>
        BY <3>1 DEF Asked, Answers, OthersStand
    <3> QED
        BY <1>5, <3>1, <3>2, OtherStepsLose DEF Service!Next
  <2> QED
      BY <1>5, <2>1, <2>2 DEF RequestStep, Reads
<1> QED
    BY <1>1, <1>2, <1>3, <1>4, <1>5, StepKinds

\* Where no two proxies and tiles share a key, LOD implements the tile service:
\* with the caches, the flights, the late writes and the admin calls hidden, each
\* client gets a tile of those there were copies of, and copies come from the
\* upstream alone.
THEOREM TilesAreServed ==
    ASSUME Injective
    PROVE  Spec => ServiceSpec
<1>1. Init => Service!Init
  <2> SUFFICES ASSUME Init PROVE Service!Init
      OBVIOUS
  <2>1. /\ mem = [p \in Proxies |-> [k \in Keys |-> None]] /\ redis = [k \in Keys |-> None]
        /\ writes = {} /\ version = 0
        /\ \A r \in Requests : pc[r] = "idle" /\ task[r] = None
      BY DEF Init, HandlerInit, CacheInit, Procs
  <2>2. \A k \in Keys : AllCopies(k) = {}
      BY <2>1 DEF AllCopies, Copies, Held, Written
  <2>3. Side = [p \in Proxies |-> [t \in Tiles |-> {}]]
      BY <2>2, CacheAssumption DEF Side
  <2>4. /\ Asked = [r \in Requests |-> None]
        /\ Answers = [r \in Requests |-> None]
      BY <2>1 DEF Asked, Answers
  <2> QED
      BY <2>1, <2>3, <2>4 DEF Service!Init, Side, Asked, Answers, AllCopies
<1>2. IInv /\ RequestsInOrder /\ [Next]_vars => [Service!Next]_Service!svars
    BY NextServes
<1> QED
    BY <1>1, <1>2, RequestOrder, PTL DEF Spec, ServiceSpec, Service!Spec
=============================================================================
