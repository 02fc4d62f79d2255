----------------------------- MODULE LodProofs -----------------------------
(***************************************************************************)
(* Proofs about the LOD process, for any number of proxies, tiles,         *)
(* requests and admin calls.  IInv (LodProperties) is shown to be          *)
(* inductive, one lemma per action; the theorems at the end follow.        *)
(***************************************************************************)
EXTENDS LodProperties, TLAPS

\* A task and a packet name a proxy and a tile, so they have a key.
LEMMA KeyTyped ==
    ASSUME NEW t \in Task \cup Packet
    PROVE  KeyFor(t) \in Keys
BY CacheAssumption DEF KeyFor, Task, Packet

-----------------------------------------------------------------------------
(***************************************************************************)
(* Frames: most actions leave whole groups of conjuncts alone.             *)
(***************************************************************************)

\* Steps that no request takes part in.
LEMMA RequestsUntouched ==
    ASSUME IInv, TypeOK', TasksKnown', StoredFiled',
           \A r \in Requests : pc'[r] = pc[r] /\ task'[r] = task[r],
           UNCHANGED <<got, flightVars, reply>>
    PROVE  IInv'
<1>1. IdleIsBlank'
    BY DEF IInv, IdleIsBlank
<1>2. FetchedFiled'
    BY DEF IInv, FetchedFiled, Key
<1>3. CallsLed'
    BY DEF IInv, CallsLed, flightVars
<1>4. CallsFiled'
    BY DEF IInv, CallsFiled, flightVars, Key
<1>5. FlightsLed'
    BY DEF IInv, TypeOK, FlightsLed, flightVars, Key
<1>6. JoinsMatch'
    BY DEF IInv, TypeOK, JoinsMatch, flightVars, Key
<1>7. RepliesFiled'
    BY DEF IInv, RepliesFiled, Key
<1> QED
    BY <1>1, <1>2, <1>3, <1>4, <1>5, <1>6, <1>7 DEF IInv

\* Steps of a request between its arrival and its flight.
LEMMA LookupFrame ==
    ASSUME IInv, NEW r \in Requests, NEW label,
           pc[r] \in {"mem", "redis", "delMem", "delRedis"},
           label \in {"redis", "delMem", "delRedis", "hit", "miss", "panic"},
           Goto(r, label),
           UNCHANGED <<task, flightVars, reply>>,
           TypeOK', FetchedFiled', StoredFiled'
    PROVE  IInv'
<1>1. TasksKnown'
    BY DEF IInv, TypeOK, TasksKnown, Goto, Ended, Procs
<1>2. IdleIsBlank'
    BY DEF IInv, TypeOK, IdleIsBlank, Goto, Procs
<1>3. CallsLed'
    BY DEF IInv, TypeOK, CallsLed, Goto, flightVars, Procs, Call
<1>4. CallsFiled'
    BY DEF IInv, CallsFiled, flightVars, Key
<1>5. FlightsLed'
    BY DEF IInv, TypeOK, FlightsLed, Goto, flightVars, Key, Procs
<1>6. JoinsMatch'
    BY DEF IInv, TypeOK, JoinsMatch, Goto, flightVars, Key, Procs
<1>7. RepliesFiled'
    BY DEF IInv, RepliesFiled, Key
<1> QED
    BY <1>1, <1>2, <1>3, <1>4, <1>5, <1>6, <1>7 DEF IInv

-----------------------------------------------------------------------------
(***************************************************************************)
(* What Set spawns.                                                        *)
(***************************************************************************)

\* Set files a packet where the task of its caller belongs.
LEMMA SetWritesFiled ==
    ASSUME TypeOK, NEW q \in Procs, task[q] \in Task, NEW d, Filed(d, Key(q)),
           NEW internalOnly \in BOOLEAN, NEW w \in SetWrites(q, d, internalOnly)
    PROVE  w \in Write /\ Filed(w.packet, w.key)
<1>1. Key(q) \in Keys
    BY KeyTyped DEF Key
<1>2. task[q].proxy \in Proxies
    BY DEF Task
<1>3. d \in Packet
    BY DEF Filed
<1> QED
    BY <1>1, <1>2, <1>3 DEF SetWrites, Write

-----------------------------------------------------------------------------
(***************************************************************************)
(* Steps of writers, of the upstream and of decay.                         *)
(***************************************************************************)

\* A late write stores its packet under the key it was filed under.
LEMMA ApplyWriteKeeps ==
    ASSUME IInv, NEW w \in writes, ApplyWrite(w)
    PROVE  IInv'
<1>1. w \in Write /\ w.key \in Keys /\ w.proxy \in Proxies /\ w.packet \in Packet
    BY DEF IInv, TypeOK, Write
<1>2. Filed(w.packet, w.key)
    BY DEF IInv, StoredFiled
<1>3. UNCHANGED <<hits, misses, pc, task, got, unflushed, flightVars, version, reply>>
    BY DEF ApplyWrite, WriteMem, WriteRedis
<1>4. TasksKnown'
    BY <1>3 DEF IInv, TasksKnown
<1>5. CASE WriteMem(w)
  <2>1. TypeOK'
      BY <1>1, <1>3, <1>5 DEF IInv, TypeOK, WriteMem, flightVars
  <2>2. StoredFiled'
      BY <1>1, <1>2, <1>5 DEF IInv, TypeOK, StoredFiled, WriteMem
  <2> QED
      BY <1>3, <1>4, <2>1, <2>2, RequestsUntouched
<1>6. CASE WriteRedis(w)
  <2>1. TypeOK'
      BY <1>1, <1>3, <1>6 DEF IInv, TypeOK, WriteRedis, flightVars
  <2>2. StoredFiled'
      BY <1>1, <1>2, <1>6 DEF IInv, TypeOK, StoredFiled, WriteRedis
  <2> QED
      BY <1>3, <1>4, <2>1, <2>2, RequestsUntouched
<1> QED
    BY <1>5, <1>6 DEF ApplyWrite

\* New data at the upstream is nowhere yet.
LEMMA PublishKeeps ==
    ASSUME IInv, Publish
    PROVE  IInv'
<1>1. TypeOK'
    BY VersionAssumption DEF IInv, TypeOK, Publish, cacheVars, flightVars
<1>2. TasksKnown' /\ StoredFiled'
    BY DEF IInv, TasksKnown, StoredFiled, Publish, cacheVars
<1> QED
    BY <1>1, <1>2, RequestsUntouched DEF Publish, cacheVars

\* Entries that vanish or go bad are not misfiled.
LEMMA DecayKeeps ==
    ASSUME IInv, Decay
    PROVE  IInv'
<1>1. UNCHANGED <<writes, hits, misses, pc, task, got, unflushed,
                  flightVars, version, reply>>
    BY DEF Decay, MemDrop, RedisDrop, RedisCorrupt
<1>2. TasksKnown'
    BY <1>1 DEF IInv, TasksKnown
<1>3. /\ \A p \in Proxies, k \in Keys : mem'[p][k] \in {mem[p][k], None}
      /\ \A k \in Keys : redis'[k] \in {redis[k], None, Corrupt}
      /\ mem' \in [Proxies -> [Keys -> Packet \cup {None}]]
      /\ redis' \in [Keys -> Packet \cup {None, Corrupt}]
  <2>1. CASE \E p \in Proxies, k \in Keys : MemDrop(p, k)
      BY <2>1 DEF IInv, TypeOK, MemDrop
  <2>2. CASE \E k \in Keys : RedisDrop(k) \/ RedisCorrupt(k)
    <3>1. mem' = mem
        BY <2>2 DEF RedisDrop, RedisCorrupt
    <3>2. PICK k \in Keys, d \in {None, Corrupt} : redis' = [redis EXCEPT ![k] = d]
        BY <2>2 DEF RedisDrop, RedisCorrupt
    <3> QED
        BY <3>1, <3>2 DEF IInv, TypeOK
  <2> QED
      BY <2>1, <2>2 DEF Decay
<1>4. TypeOK'
    BY <1>1, <1>3 DEF IInv, TypeOK, flightVars
<1>5. StoredFiled'
    BY <1>1, <1>3, ValueAssumption DEF IInv, StoredFiled
<1> QED
    BY <1>1, <1>2, <1>4, <1>5, RequestsUntouched

-----------------------------------------------------------------------------
(***************************************************************************)
(* Steps of the admin endpoints.                                           *)
(***************************************************************************)

\* An admin call that starts learns its task and goes to its first label.
LEMMA StartKeeps ==
    ASSUME IInv, NEW a \in Admins, NEW p \in Proxies, NEW t \in Tiles,
           StartInvalidate(a, p, t) \/ StartPrime(a, p, t)
    PROVE  IInv'
<1>1. a \in Procs /\ a \notin Requests
    BY ProcsAssumption DEF Procs
<1>2. [proxy |-> p, tile |-> t] \in Task
    BY DEF Task
<1>3. PICK label \in {"delMem", "delRedis", "prime", "skipped"} : Goto(a, label)
    BY DEF StartInvalidate, StartPrime, InvalidateStart
<1>4. /\ task' = [task EXCEPT ![a] = [proxy |-> p, tile |-> t]]
      /\ UNCHANGED <<mem, redis, writes, hits, misses, got, unflushed,
                     flightVars, version, reply>>
    BY DEF StartInvalidate, StartPrime
<1>5. TypeOK'
    BY <1>1, <1>2, <1>3, <1>4 DEF IInv, TypeOK, Goto, Labels, Ended, flightVars
<1>6. TasksKnown'
    BY <1>1, <1>2, <1>3, <1>4 DEF IInv, TypeOK, TasksKnown, Goto
<1>7. StoredFiled'
    BY <1>4 DEF IInv, StoredFiled
<1>8. \A r \in Requests : pc'[r] = pc[r] /\ task'[r] = task[r]
    BY <1>1, <1>3, <1>4 DEF IInv, TypeOK, Goto, Procs
<1> QED
    BY <1>4, <1>5, <1>6, <1>7, <1>8, RequestsUntouched

\* A worker files what it read under the key of its own task.
LEMMA PrimeKeeps ==
    ASSUME IInv, NEW a \in Admins, Prime(a)
    PROVE  IInv'
<1>1. a \in Procs /\ a \notin Requests
    BY ProcsAssumption DEF Procs
<1>2. task[a] \in Task
    BY <1>1 DEF IInv, TasksKnown, Prime, Ended
<1>3. Filed(Fresh(a), Key(a))
    BY <1>2, VersionAssumption
       DEF IInv, TypeOK, Fresh, Filed, Key, KeyFor, Packet, Task
<1>4. \A w \in writes' : w \in writes \/ (w \in Write /\ Filed(w.packet, w.key))
    BY <1>1, <1>2, <1>3, SetWritesFiled DEF IInv, Prime
<1>5. Goto(a, "done") /\ UNCHANGED <<mem, redis, hits, misses, task, got, unflushed,
                                     flightVars, version, reply>>
    BY DEF Prime
<1>6. TypeOK'
    BY <1>1, <1>4, <1>5 DEF IInv, TypeOK, Goto, Labels, Ended, flightVars
<1>7. TasksKnown'
    BY <1>1, <1>5 DEF IInv, TypeOK, TasksKnown, Goto, Ended
<1>8. StoredFiled'
    BY <1>4, <1>5 DEF IInv, StoredFiled
<1>9. \A r \in Requests : pc'[r] = pc[r] /\ task'[r] = task[r]
    BY <1>1, <1>5 DEF IInv, TypeOK, Goto, Procs
<1> QED
    BY <1>5, <1>6, <1>7, <1>8, <1>9, RequestsUntouched

\* A flush only takes entries out of the in-memory level.
LEMMA FlushKeeps ==
    ASSUME IInv, NEW a \in Admins,
           \/ \E P \in {Proxies} \cup {{p} : p \in Proxies} : StartFlush(a, P)
           \/ FlushShard(a) /\ UNCHANGED <<flightVars, version, reply>>
           \/ EndFlush(a)
    PROVE  IInv'
<1>1. a \in Procs /\ a \notin Requests
    BY ProcsAssumption DEF Procs
<1>2. PICK label \in {"flush", "done"} : Goto(a, label)
  <2>1. CASE FlushShard(a)
    <3>1. Goto(a, "flush")
        BY <1>1, <2>1 DEF IInv, TypeOK, FlushShard, Goto
    <3> QED
        BY <3>1
  <2> QED
      BY <2>1 DEF StartFlush, EndFlush
<1>3. UNCHANGED <<redis, writes, hits, misses, task, got, flightVars, version, reply>>
    BY DEF StartFlush, FlushShard, EndFlush
<1>4. /\ mem' \in [Proxies -> [Keys -> Packet \cup {None}]]
      /\ \A p \in Proxies, k \in Keys : mem'[p][k] \in {mem[p][k], None}
  <2>1. CASE FlushShard(a)
    <3>1. PICK p \in Proxies, K \in SUBSET Keys :
             mem' = [mem EXCEPT ![p] = [k \in Keys |-> IF k \in K THEN None ELSE @[k]]]
        BY <2>1 DEF FlushShard
    <3> QED
        BY <3>1 DEF IInv, TypeOK
  <2> QED
      BY <2>1 DEF IInv, TypeOK, StartFlush, EndFlush
<1>5. unflushed' \in [Admins -> SUBSET (Proxies \X Keys)]
  <2>1. CASE FlushShard(a)
      BY <2>1 DEF IInv, TypeOK, FlushShard
  <2>2. ASSUME NEW P \in {Proxies} \cup {{p} : p \in Proxies}, StartFlush(a, P)
        PROVE  unflushed' \in [Admins -> SUBSET (Proxies \X Keys)]
    <3>1. (P \cap MemEnabled) \X Keys \in SUBSET (Proxies \X Keys)
        OBVIOUS
    <3> QED
        BY <2>2, <3>1 DEF IInv, TypeOK, StartFlush
  <2>3. CASE EndFlush(a)
      BY <2>3 DEF IInv, TypeOK, EndFlush
  <2> QED
      BY <2>1, <2>2, <2>3
<1>6. TypeOK'
    BY <1>1, <1>2, <1>3, <1>4, <1>5 DEF IInv, TypeOK, Goto, Labels, Ended, flightVars
<1>7. TasksKnown'
    BY <1>1, <1>2, <1>3 DEF IInv, TypeOK, TasksKnown, Goto, Ended
<1>8. StoredFiled'
    BY <1>3, <1>4 DEF IInv, StoredFiled
<1>9. \A r \in Requests : pc'[r] = pc[r] /\ task'[r] = task[r]
    BY <1>1, <1>2, <1>3 DEF IInv, TypeOK, Goto, Procs
<1> QED
    BY <1>3, <1>6, <1>7, <1>8, <1>9, RequestsUntouched

-----------------------------------------------------------------------------
(***************************************************************************)
(* Fetch and Invalidate.                                                   *)
(***************************************************************************)

\* Invalidate takes entries away, for a request or for an admin call.
LEMMA InvalidateKeeps ==
    ASSUME IInv, NEW q \in Procs, InvalidateMem(q) \/ InvalidateRedis(q),
           UNCHANGED <<flightVars, version, reply>>
    PROVE  IInv'
<1>1. task[q] \in Task /\ Key(q) \in Keys /\ task[q].proxy \in Proxies
  <2>1. task[q] \in Task
      BY DEF IInv, TasksKnown, InvalidateMem, InvalidateRedis, Ended
  <2> QED
      BY <2>1, KeyTyped DEF Key, Task
<1>2. PICK label \in {"delRedis", "miss", "invalidated", "failed"} :
         Goto(q, label) /\ (q \in Requests => label \in {"delRedis", "miss"})
    BY DEF InvalidateMem, InvalidateRedis, InvalidateReturns
<1>3. UNCHANGED <<writes, hits, misses, task, got, unflushed>>
    BY DEF InvalidateMem, InvalidateRedis
<1>4. /\ mem' \in [Proxies -> [Keys -> Packet \cup {None}]]
      /\ \A p \in Proxies, k \in Keys : mem'[p][k] \in {mem[p][k], None}
  <2>1. PICK p \in Proxies, k \in Keys : mem' = mem \/ mem' = [mem EXCEPT ![p][k] = None]
      BY <1>1 DEF InvalidateMem, InvalidateRedis
  <2>2. mem \in [Proxies -> [Keys -> Packet \cup {None}]]
      BY DEF IInv, TypeOK
  <2>3. CASE mem' = mem
      BY <2>2, <2>3
  <2>4. CASE mem' = [mem EXCEPT ![p][k] = None]
      BY <2>2, <2>4
  <2> QED
      BY <2>1, <2>3, <2>4
<1>5. /\ redis' \in [Keys -> Packet \cup {None, Corrupt}]
      /\ \A k \in Keys : redis'[k] \in {redis[k], None}
    BY <1>1 DEF IInv, TypeOK, InvalidateMem, InvalidateRedis
<1>6. TypeOK'
    BY <1>2, <1>3, <1>4, <1>5
       DEF IInv, TypeOK, Goto, Labels, Ended, flightVars
<1>7. StoredFiled'
    BY <1>3, <1>4, <1>5, ValueAssumption DEF IInv, StoredFiled
<1>8. CASE q \in Requests
  <2>1. pc[q] \in {"delMem", "delRedis"}
      BY DEF InvalidateMem, InvalidateRedis
  <2>2. FetchedFiled'
      BY <1>2, <1>3, <1>8 DEF IInv, TypeOK, FetchedFiled, Goto, Key
  <2> QED
      BY <1>2, <1>3, <1>6, <1>7, <1>8, <2>1, <2>2, LookupFrame
<1>9. CASE q \notin Requests
  <2>1. TasksKnown'
      BY <1>1, <1>2, <1>3 DEF IInv, TypeOK, TasksKnown, Goto, Ended
  <2>2. \A r \in Requests : pc'[r] = pc[r] /\ task'[r] = task[r]
      BY <1>2, <1>3, <1>9 DEF IInv, TypeOK, Goto, Procs
  <2> QED
      BY <1>3, <1>6, <1>7, <2>1, <2>2, RequestsUntouched
<1> QED
    BY <1>8, <1>9

\* A fetch returns, and refreshes memory with, what its key holds.
LEMMA FetchKeeps ==
    ASSUME IInv, NEW r \in Requests, FetchMem(r) \/ FetchRedis(r),
           UNCHANGED <<flightVars, version, reply>>
    PROVE  IInv'
<1>1. r \in Procs /\ task[r] \in Task /\ Key(r) \in Keys /\ task[r].proxy \in Proxies
  <2>1. r \in Procs /\ task[r] \in Task
      BY DEF IInv, TasksKnown, FetchMem, FetchRedis, Ended, Procs
  <2> QED
      BY <2>1, KeyTyped DEF Key, Task
<1>2. UNCHANGED <<mem, redis, task, unflushed>> /\ pc[r] \in {"mem", "redis"}
    BY DEF FetchMem, FetchRedis
<1>3. CASE UNCHANGED <<writes, got>>
           /\ \E label \in {"redis", "delMem", "delRedis", "miss", "panic"} : Goto(r, label)
  <2>1. TypeOK'
    <3>1. PICK p \in Proxies : /\ hits' = hits \/ hits' = [hits EXCEPT ![p] = @ + 1]
                               /\ misses' = misses \/ misses' = [misses EXCEPT ![p] = @ + 1]
        BY <1>1 DEF FetchMem, FetchRedis, Deliver, CountHit, CountMiss
    <3>2. hits' \in [Proxies -> Nat] /\ misses' \in [Proxies -> Nat]
      <4>1. hits \in [Proxies -> Nat] /\ misses \in [Proxies -> Nat]
          BY DEF IInv, TypeOK
      <4>2. hits' \in [Proxies -> Nat]
          BY <3>1, <4>1
      <4>3. misses' \in [Proxies -> Nat]
          BY <3>1, <4>1
      <4> QED
          BY <4>2, <4>3
    <3> QED
        BY <1>1, <1>2, <1>3, <3>2 DEF IInv, TypeOK, Goto, Labels, flightVars
  <2>2. FetchedFiled'
      BY <1>1, <1>2, <1>3 DEF IInv, TypeOK, FetchedFiled, Goto, Key
  <2>3. StoredFiled'
      BY <1>2, <1>3 DEF IInv, StoredFiled
  <2> QED
      BY <1>2, <1>3, <2>1, <2>2, <2>3, LookupFrame
<1>4. ASSUME NEW d, Filed(d, Key(r)), Goto(r, "hit"), CountHit(r), UNCHANGED misses,
             got' = [got EXCEPT ![r] = d],
             writes' = writes \cup SetWrites(r, d, TRUE)
      PROVE  IInv'
  <2>1. \A w \in writes' : w \in writes \/ (w \in Write /\ Filed(w.packet, w.key))
      BY <1>1, <1>4, SetWritesFiled DEF IInv
  <2>2. hits' \in [Proxies -> Nat]
      BY <1>1, <1>4 DEF IInv, TypeOK, CountHit
  <2>3. TypeOK'
      BY <1>1, <1>2, <1>4, <2>1, <2>2
         DEF IInv, TypeOK, Goto, Labels, Ended, flightVars, Filed
  <2>4. FetchedFiled'
      BY <1>1, <1>2, <1>4 DEF IInv, TypeOK, FetchedFiled, Goto, Key
  <2>5. StoredFiled'
      BY <1>2, <2>1 DEF IInv, StoredFiled
  <2> QED
      BY <1>2, <1>4, <2>3, <2>4, <2>5, LookupFrame
<1>5. ASSUME NEW entry \in Packet \cup {None, Corrupt}, entry # None, Deliver(r, entry),
             entry \in Packet => Filed(entry, Key(r))
      PROVE  IInv'
  <2>1. CASE Valid(entry)
      BY <1>4, <1>5, <2>1 DEF Deliver, Valid
  <2>2. CASE ~Valid(entry)
      BY <1>3, <1>5, <2>2 DEF Deliver, InvalidateStart
  <2> QED
      BY <2>1, <2>2
<1>6. CASE FetchMem(r)
  <2>1. /\ mem[task[r].proxy][Key(r)] \in Packet \cup {None}
        /\ mem[task[r].proxy][Key(r)] # None => Filed(mem[task[r].proxy][Key(r)], Key(r))
      BY <1>1 DEF IInv, TypeOK, StoredFiled
  <2> QED
      BY <1>3, <1>5, <1>6, <2>1, ValueAssumption DEF FetchMem
<1>7. CASE FetchRedis(r)
  <2>1. /\ redis[Key(r)] \in Packet \cup {None, Corrupt}
        /\ redis[Key(r)] \in Packet => Filed(redis[Key(r)], Key(r))
      BY <1>1 DEF IInv, TypeOK, StoredFiled
  <2> QED
      BY <1>3, <1>5, <1>7, <2>1 DEF FetchRedis
<1> QED
    BY <1>6, <1>7

-----------------------------------------------------------------------------
(***************************************************************************)
(* The rest of a request.                                                  *)
(***************************************************************************)

\* A request that begins joins nothing and holds nothing.
LEMMA ArriveKeeps ==
    ASSUME IInv, NEW r \in Requests, NEW p \in Proxies, NEW t \in Tiles, Arrive(r, p, t)
    PROVE  IInv'
<1>1. /\ r \in Procs /\ pc[r] = "idle"
      /\ task' = [task EXCEPT ![r] = [proxy |-> p, tile |-> t]]
      /\ UNCHANGED <<mem, redis, writes, hits, misses, got, unflushed,
                     flightVars, version, reply>>
    BY DEF Arrive, Procs
<1>2. PICK label \in {"mem", "redis"} : Goto(r, label)
    BY DEF Arrive, FetchStart
<1>3. [proxy |-> p, tile |-> t] \in Task
    BY DEF Task
<1>4. reply[r] = None /\ call[r].state = "none"
    BY <1>1 DEF IInv, TypeOK, IdleIsBlank, CallsLed, Call
<1>5. \A s \in Requests : s # r => pc'[s] = pc[s] /\ task'[s] = task[s] /\ Key(s)' = Key(s)
    BY <1>1, <1>2 DEF IInv, TypeOK, Goto, Key, Procs
<1>6. pc'[r] \in {"mem", "redis"} /\ task'[r] \in Task
    BY <1>1, <1>2, <1>3 DEF IInv, TypeOK, Goto
<1>7. TypeOK'
    BY <1>1, <1>2, <1>3 DEF IInv, TypeOK, Goto, Labels, flightVars
<1>8. TasksKnown'
    BY <1>1, <1>2, <1>3 DEF IInv, TypeOK, TasksKnown, Goto, Ended
<1>9. IdleIsBlank'
    BY <1>1, <1>5, <1>6 DEF IInv, IdleIsBlank
<1>10. FetchedFiled'
    BY <1>1, <1>5, <1>6 DEF IInv, FetchedFiled
<1>11. CallsLed'
    BY <1>1, <1>4, <1>5, <1>6 DEF IInv, CallsLed, flightVars
<1>12. CallsFiled'
    BY <1>1, <1>4, <1>5 DEF IInv, CallsFiled, flightVars
<1>13. FlightsLed'
    BY <1>1, <1>5 DEF IInv, TypeOK, FlightsLed, flightVars
<1>14. JoinsMatch'
    BY <1>1, <1>4, <1>5, <1>6 DEF IInv, TypeOK, JoinsMatch, CallsLed, flightVars
<1>15. StoredFiled'
    BY <1>1 DEF IInv, StoredFiled
<1>16. RepliesFiled'
    BY <1>1, <1>4, <1>5 DEF IInv, RepliesFiled
<1> QED
    BY <1>7, <1>8, <1>9, <1>10, <1>11, <1>12, <1>13, <1>14, <1>15, <1>16 DEF IInv

\* A request that ends without data of a flight: refused, served from the
\* cache, or recovered from a panic.
LEMMA RespondKeeps ==
    ASSUME IInv, NEW r \in Requests, BadRequest(r) \/ ServeCached(r) \/ RecoverPanic(r)
    PROVE  IInv'
<1>1. /\ r \in Procs /\ pc[r] \in {"idle", "hit", "panic"} /\ Goto(r, "done")
      /\ UNCHANGED <<mem, redis, writes, hits, misses, task, got, unflushed,
                     flightVars, version>>
    BY DEF BadRequest, ServeCached, RecoverPanic, Procs
<1>2. PICK code \in {200, 400, 500}, body \in Packet \cup {None} :
         /\ Respond(r, code, body)
         /\ code = 200 => task[r] \in Task /\ Filed(body, Key(r))
  <2>1. CASE ServeCached(r)
    <3>1. task[r] \in Task /\ Filed(got[r], Key(r)) /\ got[r] \in Packet
        BY <1>1, <2>1
           DEF IInv, TasksKnown, FetchedFiled, ServeCached, Ended, Filed
    <3> QED
        BY <2>1, <3>1 DEF ServeCached
  <2>2. CASE BadRequest(r) \/ RecoverPanic(r)
      BY <2>2 DEF BadRequest, RecoverPanic
  <2> QED
      BY <2>1, <2>2
<1>3. [code |-> code, body |-> body] \in Reply
    BY DEF Reply
<1>4. \A s \in Requests : s # r => pc'[s] = pc[s] /\ reply'[s] = reply[s]
    BY <1>1, <1>2 DEF IInv, TypeOK, Goto, Respond, Procs
<1>5. pc'[r] = "done" /\ reply'[r] = [code |-> code, body |-> body]
    BY <1>1, <1>2 DEF IInv, TypeOK, Goto, Respond
<1>6. \A s \in Requests : Key(s)' = Key(s)
    BY <1>1 DEF Key
<1>7. TypeOK'
    BY <1>1, <1>2, <1>3 DEF IInv, TypeOK, Goto, Respond, Labels, Ended, flightVars
<1>8. TasksKnown'
    BY <1>1 DEF IInv, TypeOK, TasksKnown, Goto, Ended
<1>9. IdleIsBlank'
    BY <1>4, <1>5 DEF IInv, IdleIsBlank
<1>10. FetchedFiled'
    BY <1>1, <1>4, <1>5, <1>6 DEF IInv, FetchedFiled
<1>11. CallsLed'
    BY <1>1, <1>4, <1>5 DEF IInv, CallsLed, flightVars
<1>12. CallsFiled'
    BY <1>1, <1>6 DEF IInv, CallsFiled, flightVars
<1>13. FlightsLed'
    BY <1>1, <1>4, <1>6 DEF IInv, TypeOK, FlightsLed, flightVars
<1>14. JoinsMatch'
    BY <1>1, <1>4, <1>5, <1>6 DEF IInv, TypeOK, JoinsMatch, flightVars
<1>15. StoredFiled'
    BY <1>1 DEF IInv, StoredFiled
<1>16. RepliesFiled'
    BY <1>1, <1>2, <1>4, <1>5, <1>6 DEF IInv, RepliesFiled
<1> QED
    BY <1>7, <1>8, <1>9, <1>10, <1>11, <1>12, <1>13, <1>14, <1>15, <1>16 DEF IInv

-----------------------------------------------------------------------------
(***************************************************************************)
(* Steps of a flight.                                                      *)
(***************************************************************************)

\* A request past its fetch knows its task, and so its key.
LEMMA FlightTask ==
    ASSUME IInv, NEW r \in Requests,
           pc[r] \in {"miss", "lead", "wait", "process", "forget"}
    PROVE  r \in Procs /\ task[r] \in Task /\ Key(r) \in Keys
<1>1. r \in Procs /\ task[r] \in Task
    BY DEF IInv, TasksKnown, Ended, Procs
<1> QED
    BY <1>1, KeyTyped DEF Key

\* Whoever leads enters an empty place, and whoever joins finds a leader that
\* works for the same key.
LEMMA StartFlightKeeps ==
    ASSUME IInv, NEW r \in Requests, StartFlight(r)
    PROVE  IInv'
<1>1. /\ pc[r] = "miss"
      /\ UNCHANGED <<mem, redis, writes, hits, misses, task, got, unflushed,
                     version, reply>>
    BY DEF StartFlight
<1>2. r \in Procs /\ task[r] \in Task /\ Key(r) \in Keys
    BY <1>1, FlightTask
<1>3. \A s \in Requests : Key(s)' = Key(s)
    BY <1>1 DEF Key
<1>4. StoredFiled'
    BY <1>1 DEF IInv, StoredFiled
<1>5. RepliesFiled'
    BY <1>1, <1>3 DEF IInv, RepliesFiled
<1>6. call[r].state \in {"none", "running", "returned", "done"} /\ call[r].state = "none"
    BY <1>1 DEF IInv, TypeOK, Call, CallsLed
<1>7. CASE Lead(r, Key(r)) /\ Goto(r, "lead")
  <2>1. /\ pc' = [pc EXCEPT ![r] = "lead"]
        /\ flight[Key(r)] = None
        /\ flight' = [flight EXCEPT ![Key(r)] = r]
        /\ call' = [call EXCEPT ![r] = [state |-> "running", result |-> None]]
        /\ joined' = [joined EXCEPT ![r] = r]
      BY <1>7 DEF Lead, Goto
  <2>2. [state |-> "running", result |-> None] \in Call
      BY DEF Call
  <2>3. /\ pc'[r] = "lead" /\ call'[r].state = "running" /\ joined'[r] = r
        /\ \A s \in Requests : s # r =>
              pc'[s] = pc[s] /\ call'[s] = call[s] /\ joined'[s] = joined[s]
      BY <1>2, <2>1 DEF IInv, TypeOK, Procs
  <2>4. TypeOK'
      BY <1>1, <1>2, <2>1, <2>2 DEF IInv, TypeOK, Labels
  <2>5. TasksKnown'
      BY <1>1, <1>2, <2>1 DEF IInv, TypeOK, TasksKnown
  <2>6. IdleIsBlank'
      BY <1>1, <2>3 DEF IInv, IdleIsBlank
  <2>7. FetchedFiled'
      BY <1>1, <1>3, <2>3 DEF IInv, FetchedFiled
  <2>8. CallsLed'
      BY <2>3 DEF IInv, CallsLed
  <2>9. CallsFiled'
      BY <1>1, <1>3, <2>3 DEF IInv, CallsFiled
  <2>10. FlightsLed'
      BY <1>1, <1>2, <1>3, <2>1, <2>3, ValueAssumption DEF IInv, TypeOK, FlightsLed
  <2>11. JoinsMatch'
    <3>1. \A s \in Requests : pc'[s] \in {"wait", "process"} =>
             /\ pc'[s] = pc[s] /\ joined'[s] = joined[s]
             /\ joined[s] \in Requests /\ call'[joined[s]] = call[joined[s]]
        BY <1>6, <2>3 DEF IInv, TypeOK, JoinsMatch
    <3>2. \A s \in Requests : pc'[s] \in {"wait", "process"} =>
             /\ task'[joined'[s]] \in Task
             /\ Key(joined[s])' = Key(s)'
        BY <1>1, <1>3, <3>1 DEF IInv, JoinsMatch
    <3> QED
        BY <3>1, <3>2, ValueAssumption DEF IInv, JoinsMatch
  <2> QED
      BY <1>4, <1>5, <2>4, <2>5, <2>6, <2>7, <2>8, <2>9, <2>10, <2>11 DEF IInv
<1>8. CASE Join(r, Key(r)) /\ Goto(r, "wait")
  <2>1. /\ pc' = [pc EXCEPT ![r] = "wait"]
        /\ flight[Key(r)] # None
        /\ joined' = [joined EXCEPT ![r] = flight[Key(r)]]
        /\ UNCHANGED <<flight, call>>
      BY <1>8 DEF Join, Goto
  <2>2. PICK l \in Requests : /\ l = flight[Key(r)]
                              /\ pc[l] = "lead" /\ task[l] \in Task /\ Key(l) = Key(r)
                              /\ call[l].state \in {"running", "returned"}
    <3>1. flight[Key(r)] \in Requests
        BY <1>2, <2>1 DEF IInv, TypeOK
    <3>2. pc[flight[Key(r)]] = "lead" /\ Key(flight[Key(r)]) = Key(r)
        BY <1>2, <2>1 DEF IInv, FlightsLed
    <3>3. call[flight[Key(r)]].state \in {"running", "returned"}
        BY <3>1, <3>2 DEF IInv, CallsLed
    <3> QED
        BY <3>1, <3>2, <3>3, FlightTask
  <2>3. /\ pc'[r] = "wait" /\ joined'[r] = l
        /\ \A s \in Requests : s # r => pc'[s] = pc[s] /\ joined'[s] = joined[s]
      BY <1>2, <2>1, <2>2 DEF IInv, TypeOK, Procs
  <2>4. TypeOK'
      BY <1>1, <1>2, <2>1, <2>2 DEF IInv, TypeOK, Labels
  <2>5. TasksKnown'
      BY <1>1, <1>2, <2>1 DEF IInv, TypeOK, TasksKnown
  <2>6. IdleIsBlank'
      BY <1>1, <2>3 DEF IInv, IdleIsBlank
  <2>7. FetchedFiled'
      BY <1>1, <1>3, <2>3 DEF IInv, FetchedFiled
  <2>8. CallsLed'
      BY <1>6, <2>1, <2>3 DEF IInv, CallsLed
  <2>9. CallsFiled'
      BY <1>1, <1>3, <2>1 DEF IInv, CallsFiled
  <2>10. FlightsLed'
      BY <1>1, <1>3, <2>1, <2>3 DEF IInv, TypeOK, FlightsLed
  <2>11. JoinsMatch'
      BY <1>1, <1>3, <2>1, <2>2, <2>3, ValueAssumption DEF IInv, TypeOK, JoinsMatch
  <2> QED
      BY <1>4, <1>5, <2>4, <2>5, <2>6, <2>7, <2>8, <2>9, <2>10, <2>11 DEF IInv
<1> QED
    BY <1>7, <1>8 DEF StartFlight

\* The upstream answers what it was asked, or fails.
LEMMA UpstreamAnswersKeeps ==
    ASSUME IInv, NEW r \in Requests, UpstreamAnswers(r)
    PROVE  IInv'
<1>1. /\ pc[r] = "lead" /\ call[r].state = "running"
      /\ UNCHANGED <<cacheVars, flight, joined, version, reply>>
    BY DEF UpstreamAnswers, Return
<1>2. r \in Procs /\ task[r] \in Task /\ Key(r) \in Keys
    BY <1>1, FlightTask
<1>3. Filed(Fresh(r), Key(r))
    BY <1>2, VersionAssumption
       DEF IInv, TypeOK, Fresh, Filed, Key, KeyFor, Packet, Task
<1>4. PICK result \in Result :
         /\ call' = [call EXCEPT ![r] = [state |-> "returned", result |-> result]]
         /\ IF result.kind = "ok" THEN Filed(result.packet, Key(r)) ELSE result.packet = None
  <2>1. CASE Return(r, [kind |-> "ok", packet |-> Fresh(r)])
    <3>1. [kind |-> "ok", packet |-> Fresh(r)] \in Result
        BY <1>3 DEF Result, Filed
    <3> QED
        BY <1>3, <2>1, <3>1 DEF Return
  <2>2. ASSUME NEW kind \in {"badStatus", "error", "panic"},
               Return(r, [kind |-> kind, packet |-> None])
        PROVE  \E result \in Result :
                  /\ call' = [call EXCEPT ![r] = [state |-> "returned", result |-> result]]
                  /\ result.kind # "ok" /\ result.packet = None
    <3>1. [kind |-> kind, packet |-> None] \in Result
        BY DEF Result
    <3> QED
        BY <2>2, <3>1 DEF Return
  <2> QED
      BY <2>1, <2>2 DEF UpstreamAnswers
<1>5. UNCHANGED <<mem, redis, writes, hits, misses, pc, task, got, unflushed>>
    BY <1>1 DEF cacheVars
<1>6. \A s \in Requests : Key(s)' = Key(s)
    BY <1>5 DEF Key
<1>7. /\ call'[r].state = "returned" /\ call'[r].result = result
      /\ \A s \in Requests : s # r => call'[s] = call[s]
    BY <1>4 DEF IInv, TypeOK
<1>8. TypeOK'
  <2>1. [state |-> "returned", result |-> result] \in Call
      BY DEF Call
  <2> QED
      BY <1>1, <1>4, <1>5, <2>1 DEF IInv, TypeOK
<1>9. TasksKnown' /\ IdleIsBlank' /\ FetchedFiled'
    BY <1>1, <1>5, <1>6 DEF IInv, TasksKnown, IdleIsBlank, FetchedFiled
<1>10. CallsLed'
    BY <1>1, <1>5, <1>7 DEF IInv, CallsLed
<1>11. CallsFiled'
    BY <1>2, <1>4, <1>5, <1>6, <1>7 DEF IInv, CallsFiled
<1>12. FlightsLed'
    BY <1>1, <1>5, <1>6 DEF IInv, TypeOK, FlightsLed
<1>13. JoinsMatch'
    BY <1>1, <1>5, <1>6, <1>7 DEF IInv, TypeOK, JoinsMatch
<1>14. StoredFiled' /\ RepliesFiled'
    BY <1>1, <1>5, <1>6 DEF IInv, StoredFiled, RepliesFiled
<1> QED
    BY <1>8, <1>9, <1>10, <1>11, <1>12, <1>13, <1>14 DEF IInv

\* The leader leaves a call that is over, and an entry that is nobody else's.
LEMMA FinishFlightKeeps ==
    ASSUME IInv, NEW r \in Requests, FinishFlight(r)
    PROVE  IInv'
<1>1. /\ pc[r] = "lead" /\ call[r].state = "returned"
      /\ pc' = [pc EXCEPT ![r] = "process"]
      /\ call' = [call EXCEPT ![r].state = "done"]
      /\ flight' = [flight EXCEPT ![Key(r)] = IF @ = r THEN None ELSE @]
      /\ UNCHANGED <<joined, mem, redis, writes, hits, misses, task, got, unflushed,
                     version, reply>>
    BY DEF FinishFlight, Finish, Goto
<1>2. r \in Procs /\ task[r] \in Task /\ Key(r) \in Keys
    BY <1>1, FlightTask
<1>3. \A s \in Requests : Key(s)' = Key(s)
    BY <1>1 DEF Key
<1>4. joined[r] = r
    BY <1>1 DEF IInv, CallsLed
<1>5. /\ pc'[r] = "process"
      /\ \A s \in Requests : s # r => pc'[s] = pc[s] /\ call'[s] = call[s]
    BY <1>1, <1>2 DEF IInv, TypeOK, Procs
<1>6. call' \in [Requests -> Call] /\ call'[r].state = "done" /\ call'[r].result = call[r].result
    BY <1>1 DEF IInv, TypeOK, Call
<1>7. TypeOK'
    BY <1>1, <1>2, <1>6 DEF IInv, TypeOK, Labels
<1>8. TasksKnown'
    BY <1>1, <1>2 DEF IInv, TypeOK, TasksKnown
<1>9. IdleIsBlank' /\ FetchedFiled'
    BY <1>1, <1>3, <1>5 DEF IInv, IdleIsBlank, FetchedFiled
<1>10. CallsLed'
    BY <1>1, <1>5, <1>6 DEF IInv, CallsLed
<1>11. CallsFiled'
    BY <1>1, <1>3, <1>5, <1>6 DEF IInv, CallsFiled
<1>12. FlightsLed'
  <2>1. ASSUME NEW k \in Keys, flight'[k] # None
        PROVE  flight'[k] = flight[k] /\ flight[k] \in Requests /\ flight[k] # r
    <3>1. flight'[k] = flight[k] /\ flight[k] \in Requests
        BY <1>1, <1>2, <2>1 DEF IInv, TypeOK
    <3>2. flight[k] # r
        BY <1>1, <1>2, <2>1, <3>1 DEF IInv, TypeOK, FlightsLed
    <3> QED
        BY <3>1, <3>2
  <2> QED
      BY <1>3, <1>5, <2>1 DEF IInv, FlightsLed
<1>13. JoinsMatch'
  <2>1. \A s \in Requests : pc'[s] \in {"wait", "process"} =>
           /\ joined[s] \in Requests /\ joined'[s] = joined[s]
           /\ task[joined[s]] \in Task /\ Key(joined[s]) = Key(s)
           /\ call'[joined[s]].state # "none"
           /\ pc'[s] = "process" => call'[joined[s]].state = "done"
      BY <1>1, <1>2, <1>4, <1>5, <1>6 DEF IInv, TypeOK, JoinsMatch
  <2>2. \A s \in Requests : pc'[s] \in {"wait", "process"} =>
           task'[joined'[s]] \in Task /\ Key(joined[s])' = Key(s)'
      BY <1>1, <1>3, <2>1
  <2> QED
      BY <2>1, <2>2, ValueAssumption DEF JoinsMatch
<1>14. StoredFiled' /\ RepliesFiled'
    BY <1>1, <1>3 DEF IInv, StoredFiled, RepliesFiled
<1> QED
    BY <1>7, <1>8, <1>9, <1>10, <1>11, <1>12, <1>13, <1>14 DEF IInv

\* A waiting request goes on with a call that is over.
LEMMA WakeUpKeeps ==
    ASSUME IInv, NEW r \in Requests, WakeUp(r)
    PROVE  IInv'
<1>1. /\ pc[r] = "wait" /\ call[joined[r]].state = "done"
      /\ pc' = [pc EXCEPT ![r] = "process"]
      /\ UNCHANGED <<flight, call, joined, mem, redis, writes, hits, misses, task, got,
                     unflushed, version, reply>>
    BY DEF WakeUp, Released, Goto, flightVars
<1>2. r \in Procs /\ task[r] \in Task
    BY <1>1, FlightTask
<1>3. \A s \in Requests : Key(s)' = Key(s)
    BY <1>1 DEF Key
<1>4. pc'[r] = "process" /\ \A s \in Requests : s # r => pc'[s] = pc[s]
    BY <1>1, <1>2 DEF IInv, TypeOK, Procs
<1>5. TypeOK'
    BY <1>1 DEF IInv, TypeOK, Labels
<1>6. TasksKnown'
    BY <1>1, <1>2 DEF IInv, TypeOK, TasksKnown
<1>7. IdleIsBlank' /\ FetchedFiled'
    BY <1>1, <1>3, <1>4 DEF IInv, IdleIsBlank, FetchedFiled
<1>8. CallsLed' /\ CallsFiled'
    BY <1>1, <1>3, <1>4 DEF IInv, CallsLed, CallsFiled
<1>9. FlightsLed'
    BY <1>1, <1>3, <1>4 DEF IInv, TypeOK, FlightsLed
<1>10. JoinsMatch'
    BY <1>1, <1>3, <1>4 DEF IInv, TypeOK, JoinsMatch
<1>11. StoredFiled' /\ RepliesFiled'
    BY <1>1, <1>3 DEF IInv, StoredFiled, RepliesFiled
<1> QED
    BY <1>5, <1>6, <1>7, <1>8, <1>9, <1>10, <1>11 DEF IInv

\* The result of a call, written to the client and to the cache, belongs to the
\* key of every request that waited for it.
LEMMA UseResultKeeps ==
    ASSUME IInv, NEW r \in Requests, UseResult(r)
    PROVE  IInv'
<1> DEFINE result == call[joined[r]].result
<1>1. /\ pc[r] = "process" /\ pc' = [pc EXCEPT ![r] = "forget"]
      /\ UNCHANGED <<flight, call, joined, mem, redis, hits, misses, task, got,
                     unflushed, version>>
    BY DEF UseResult, Goto, flightVars
<1>2. r \in Procs /\ task[r] \in Task /\ Key(r) \in Keys
    BY <1>1, FlightTask
<1>3. \A s \in Requests : Key(s)' = Key(s)
    BY <1>1 DEF Key
<1>4. pc'[r] = "forget" /\ \A s \in Requests : s # r => pc'[s] = pc[s]
    BY <1>1, <1>2 DEF IInv, TypeOK, Procs
<1>5. result.kind = "ok" => Filed(result.packet, Key(r))
  <2>1. joined[r] \in Requests /\ call[joined[r]].state = "done" /\ Key(joined[r]) = Key(r)
      BY <1>1 DEF IInv, TypeOK, JoinsMatch
  <2> QED
      BY <2>1 DEF IInv, CallsFiled
<1>6. \/ UNCHANGED reply
      \/ \E code \in {200, 500}, body \in Packet \cup {None} :
            Respond(r, code, body) /\ (code = 200 => Filed(body, Key(r)))
  <2>1. CASE result.kind = "ok" /\ Respond(r, 200, result.packet)
    <3>1. result.packet \in Packet
        BY <1>5, <2>1 DEF Filed
    <3> QED
        BY <1>5, <2>1, <3>1
  <2>2. \/ result.kind = "ok" /\ Respond(r, 200, result.packet)
        \/ Respond(r, 500, None)
        \/ UNCHANGED reply
      BY DEF UseResult, ResultOf
  <2> QED
      BY <2>1, <2>2
<1>7. /\ reply' \in [Requests -> Reply \cup {None}]
      /\ \A s \in Requests : s # r => reply'[s] = reply[s]
      /\ reply'[r] = reply[r] \/ (reply'[r].code = 200 => Filed(reply'[r].body, Key(r)))
  <2>1. CASE UNCHANGED reply
      BY <2>1 DEF IInv, TypeOK
  <2>2. ASSUME NEW code \in {200, 500}, NEW body \in Packet \cup {None},
               Respond(r, code, body), code = 200 => Filed(body, Key(r))
        PROVE  /\ reply' \in [Requests -> Reply \cup {None}]
               /\ \A s \in Requests : s # r => reply'[s] = reply[s]
               /\ reply'[r].code = 200 => Filed(reply'[r].body, Key(r))
    <3>1. [code |-> code, body |-> body] \in Reply
        BY DEF Reply
    <3> QED
        BY <2>2, <3>1 DEF IInv, TypeOK, Respond
  <2> QED
      BY <1>6, <2>1, <2>2
<1>8. \A w \in writes' : w \in writes \/ (w \in Write /\ Filed(w.packet, w.key))
  <2>1. \/ UNCHANGED writes
        \/ result.kind = "ok" /\ writes' = writes \cup SetWrites(r, result.packet, FALSE)
      BY DEF UseResult, ResultOf
  <2> QED
      BY <1>2, <1>5, <2>1, SetWritesFiled DEF IInv
<1>9. TypeOK'
    BY <1>1, <1>2, <1>7, <1>8 DEF IInv, TypeOK, Labels
<1>10. TasksKnown'
    BY <1>1, <1>2 DEF IInv, TypeOK, TasksKnown
<1>11. IdleIsBlank' /\ FetchedFiled'
    BY <1>1, <1>3, <1>4, <1>7 DEF IInv, IdleIsBlank, FetchedFiled
<1>12. CallsLed' /\ CallsFiled'
    BY <1>1, <1>3, <1>4 DEF IInv, CallsLed, CallsFiled
<1>13. FlightsLed'
    BY <1>1, <1>3, <1>4 DEF IInv, TypeOK, FlightsLed
<1>14. JoinsMatch'
    BY <1>1, <1>3, <1>4 DEF IInv, TypeOK, JoinsMatch
<1>15. StoredFiled'
    BY <1>1, <1>8 DEF IInv, StoredFiled
<1>16. RepliesFiled'
    BY <1>1, <1>2, <1>3, <1>7 DEF IInv, RepliesFiled
<1> QED
    BY <1>9, <1>10, <1>11, <1>12, <1>13, <1>14, <1>15, <1>16 DEF IInv

\* The deferred Forget takes an entry away, whatever call it holds.
LEMMA ForgetKeyKeeps ==
    ASSUME IInv, NEW r \in Requests, ForgetKey(r)
    PROVE  IInv'
<1>1. /\ pc[r] = "forget"
      /\ flight' = [flight EXCEPT ![Key(r)] = None]
      /\ UNCHANGED <<call, joined, mem, redis, writes, hits, misses, task, got, unflushed,
                     version, reply>>
    BY DEF ForgetKey, Forget
<1>2. PICK label \in {"panic", "done"} : pc' = [pc EXCEPT ![r] = label]
    BY DEF ForgetKey, Goto
<1>3. r \in Procs /\ task[r] \in Task /\ Key(r) \in Keys
    BY <1>1, FlightTask
<1>4. \A s \in Requests : Key(s)' = Key(s)
    BY <1>1 DEF Key
<1>5. pc'[r] \in {"panic", "done"} /\ \A s \in Requests : s # r => pc'[s] = pc[s]
    BY <1>2, <1>3 DEF IInv, TypeOK, Procs
<1>6. TypeOK'
    BY <1>1, <1>2 DEF IInv, TypeOK, Labels, Ended
<1>7. TasksKnown'
    BY <1>1, <1>2, <1>3 DEF IInv, TypeOK, TasksKnown, Ended
<1>8. IdleIsBlank' /\ FetchedFiled'
    BY <1>1, <1>4, <1>5 DEF IInv, IdleIsBlank, FetchedFiled
<1>9. CallsLed' /\ CallsFiled'
    BY <1>1, <1>4, <1>5 DEF IInv, CallsLed, CallsFiled
<1>10. FlightsLed'
  <2>1. ASSUME NEW k \in Keys, flight'[k] # None
        PROVE  flight'[k] = flight[k] /\ flight[k] \in Requests
      BY <1>1, <1>3, <2>1 DEF IInv, TypeOK
  <2> QED
      BY <1>1, <1>4, <1>5, <2>1 DEF IInv, FlightsLed
<1>11. JoinsMatch'
    BY <1>1, <1>4, <1>5 DEF IInv, TypeOK, JoinsMatch
<1>12. StoredFiled' /\ RepliesFiled'
    BY <1>1, <1>4 DEF IInv, StoredFiled, RepliesFiled
<1> QED
    BY <1>6, <1>7, <1>8, <1>9, <1>10, <1>11, <1>12 DEF IInv

-----------------------------------------------------------------------------
(***************************************************************************)
(* Restart, start and the whole.                                           *)
(***************************************************************************)

\* A process that stops leaves Redis and broken connections behind.
LEMMA RestartKeeps ==
    ASSUME IInv, Restart
    PROVE  IInv'
<1>1. /\ mem' = [p \in Proxies |-> [k \in Keys |-> None]]
      /\ writes' = {}
      /\ hits' = [p \in Proxies |-> 0]
      /\ misses' = [p \in Proxies |-> 0]
      /\ pc' = [q \in Procs |-> IF Active(q) THEN "done" ELSE pc[q]]
      /\ unflushed' = [a \in Admins |-> {}]
      /\ flight' = [k \in Keys |-> None]
      /\ call' = [r \in Requests |-> NoCall]
      /\ joined' = [r \in Requests |-> None]
      /\ reply' = [r \in Requests |->
                      IF Active(r) THEN [code |-> 0, body |-> None] ELSE reply[r]]
      /\ UNCHANGED <<redis, task, got, version>>
    BY DEF Restart, CacheRestart, FlightRestart
<1>2. \A q \in Procs : pc'[q] \in {"idle"} \cup Ended
    BY <1>1 DEF Active, Ended
<1>3. \A r \in Requests : pc'[r] = "idle" => pc[r] = "idle" /\ reply'[r] = reply[r]
    BY <1>1 DEF Active, Ended, Procs
<1>4. \A s \in Requests : Key(s)' = Key(s)
    BY <1>1 DEF Key
<1>5. NoCall \in Call /\ NoCall.state = "none" /\ [code |-> 0, body |-> None] \in Reply
    BY DEF NoCall, Call, Reply
<1>6. TypeOK'
  <2>1. pc' \in [Procs -> Labels]
      BY <1>1 DEF IInv, TypeOK, Labels, Ended
  <2>2. reply' \in [Requests -> Reply \cup {None}]
      BY <1>1, <1>5 DEF IInv, TypeOK
  <2> QED
      BY <1>1, <1>5, <2>1, <2>2 DEF IInv, TypeOK
<1>7. TasksKnown'
    BY <1>2 DEF TasksKnown
<1>8. IdleIsBlank'
    BY <1>3 DEF IInv, IdleIsBlank
<1>9. FetchedFiled' /\ JoinsMatch'
    BY <1>2 DEF FetchedFiled, JoinsMatch, Procs, Ended
<1>10. CallsLed' /\ CallsFiled'
    BY <1>1, <1>2, <1>5 DEF CallsLed, CallsFiled, Procs, Ended
<1>11. FlightsLed'
    BY <1>1 DEF FlightsLed
<1>12. StoredFiled'
    BY <1>1 DEF IInv, StoredFiled
<1>13. RepliesFiled'
    BY <1>1, <1>4 DEF IInv, RepliesFiled
<1> QED
    BY <1>6, <1>7, <1>8, <1>9, <1>10, <1>11, <1>12, <1>13 DEF IInv

\* An empty process satisfies the invariant.
LEMMA InitHolds == Init => IInv
<1> SUFFICES ASSUME Init PROVE IInv
    OBVIOUS
<1> USE DEF Init, HandlerInit, CacheInit, FlightInit, NoCall
<1>1. TypeOK
  <2>1. NoCall \in Call
      BY DEF Call
  <2> QED
      BY <2>1, VersionAssumption DEF TypeOK, Labels
<1>2. TasksKnown /\ IdleIsBlank /\ FetchedFiled
    BY DEF TasksKnown, IdleIsBlank, FetchedFiled, Procs
<1>3. CallsLed /\ CallsFiled /\ FlightsLed /\ JoinsMatch
    BY DEF CallsLed, CallsFiled, FlightsLed, JoinsMatch, Procs
<1>4. StoredFiled /\ RepliesFiled
    BY ValueAssumption DEF StoredFiled, RepliesFiled
<1> QED
    BY <1>1, <1>2, <1>3, <1>4 DEF IInv

\* Every step keeps the invariant.
LEMMA NextKeeps == IInv /\ [Next]_vars => IInv'
<1> SUFFICES ASSUME IInv, [Next]_vars PROVE IInv'
    OBVIOUS
<1>1. ASSUME NEW r \in Requests, RequestStep(r)
      PROVE  IInv'
  <2>1. CASE Lookup(r)
      BY <2>1, FetchKeeps, InvalidateKeeps DEF Lookup, Procs
  <2> QED
      BY <1>1, <2>1, RespondKeeps, StartFlightKeeps, UpstreamAnswersKeeps,
         FinishFlightKeeps, WakeUpKeeps, UseResultKeeps, ForgetKeyKeeps
         DEF RequestStep
<1>2. ASSUME NEW r \in Requests,
             BadRequest(r) \/ \E p \in Proxies, t \in Tiles : Arrive(r, p, t)
      PROVE  IInv'
    BY <1>2, RespondKeeps, ArriveKeeps
<1>3. ASSUME NEW a \in Admins,
             \E p \in Proxies, t \in Tiles : StartInvalidate(a, p, t) \/ StartPrime(a, p, t)
      PROVE  IInv'
    BY <1>3, StartKeeps
<1>4. ASSUME NEW a \in Admins,
             \/ \E P \in {Proxies} \cup {{p} : p \in Proxies} : StartFlush(a, P)
             \/ AdminStep(a)
             \/ PrimeCrash(a)
      PROVE  IInv'
  <2>1. CASE (InvalidateMem(a) \/ InvalidateRedis(a)) /\ UNCHANGED <<flightVars, version, reply>>
      BY <2>1, InvalidateKeeps DEF Procs
  <2> QED
      BY <1>4, <2>1, FlushKeeps, PrimeKeeps, RestartKeeps DEF AdminStep, PrimeCrash
<1>5. CASE (\E w \in writes : ApplyWrite(w)) \/ Publish \/ Decay \/ Restart
    BY <1>5, ApplyWriteKeeps, PublishKeeps, DecayKeeps, RestartKeeps
<1>6. CASE UNCHANGED vars
  <2>1. TypeOK' /\ TasksKnown' /\ StoredFiled'
      BY <1>6 DEF IInv, TypeOK, TasksKnown, StoredFiled,
                  vars, handlerVars, cacheVars, flightVars
  <2> QED
      BY <1>6, <2>1, RequestsUntouched DEF vars, handlerVars, cacheVars
<1> QED
    BY <1>1, <1>2, <1>3, <1>4, <1>5, <1>6 DEF Next

-----------------------------------------------------------------------------
(***************************************************************************)
(* What follows from the invariant.                                        *)
(***************************************************************************)

\* IInv holds in every reachable state.
THEOREM Invariance == Spec => []IInv
<1>1. Init => IInv
    BY InitHolds
<1>2. IInv /\ [Next]_vars => IInv'
    BY NextKeeps
<1> QED
    BY <1>1, <1>2, PTL DEF Spec

\* Every variable keeps its type; in particular bytes that fail validation
\* never leave Redis (cache.go 296-306).
THEOREM TypeCorrectness == Spec => []TypeOK
<1>1. IInv => TypeOK
    BY DEF IInv
<1> QED
    BY <1>1, Invariance, PTL

\* The table of the flight group names only calls that are still to be finished,
\* and every waiting Do is waiting for one of those or for none (proxy.go 59-66).
THEOREM FlightsStayLive == Spec => []FlightsAreLive
<1>1. IInv => FlightsAreLive
  <2> SUFFICES ASSUME IInv PROVE FlightsAreLive
      OBVIOUS
  <2>1. \A k \in Keys : flight[k] # None => pc[flight[k]] = "lead" /\ Key(flight[k]) = k
      BY DEF IInv, FlightsLed
  <2>2. ASSUME NEW r \in Requests, pc[r] = "wait", call[joined[r]].state # "done"
        PROVE  pc[joined[r]] = "lead" /\ call[joined[r]].state \in {"running", "returned"}
    <3>1. joined[r] \in Requests /\ call[joined[r]].state # "none"
        BY <2>2 DEF IInv, TypeOK, JoinsMatch
    <3>2. call[joined[r]].state \in {"running", "returned"}
        BY <2>2, <3>1 DEF IInv, TypeOK, Call
    <3> QED
        BY <3>1, <3>2 DEF IInv, CallsLed
  <2> QED
      BY <2>1, <2>2 DEF FlightsAreLive, Released
<1> QED
    BY <1>1, Invariance, PTL

\* Every copy is a packet of its key.
LEMMA CopiesFiled ==
    ASSUME IInv, NEW k \in Keys, NEW d \in Copies(k)
    PROVE  Filed(d, k)
<1>1. d # None /\ d # Corrupt /\ d \in Held(k)
    BY DEF Copies
<1>2. CASE \E p \in Proxies : d = mem[p][k]
    BY <1>1, <1>2 DEF IInv, StoredFiled
<1>3. CASE d = redis[k]
  <2>1. redis[k] \in Packet
      BY <1>1, <1>3 DEF IInv, TypeOK
  <2> QED
      BY <1>3, <2>1 DEF IInv, StoredFiled
<1>4. CASE \E w \in writes : w.key = k /\ d = w.packet
    BY <1>4 DEF IInv, StoredFiled
<1>5. CASE \E r \in Requests : pc[r] = "hit" /\ Key(r) = k /\ d = got[r]
    BY <1>5 DEF IInv, FetchedFiled
<1>6. ASSUME NEW r \in Requests, pc[r] \in {"lead", "wait", "process"}, Key(r) = k,
             call[joined[r]].state \in {"returned", "done"},
             d = call[joined[r]].result.packet
      PROVE  Filed(d, k)
  <2>1. joined[r] \in Requests /\ Key(joined[r]) = k
      BY <1>6 DEF IInv, TypeOK, CallsLed, JoinsMatch
  <2> QED
      BY <1>1, <1>6, <2>1 DEF IInv, CallsFiled
<1> QED
    BY <1>1, <1>2, <1>3, <1>4, <1>5, <1>6 DEF Held, ResultOf

\* Whatever is stored, being written, fetched or returned by a flight under a
\* key was read from the upstream for that key.
THEOREM Filing == Spec => []FiledUnderItsKey
<1>1. IInv => FiledUnderItsKey
    BY CopiesFiled DEF FiledUnderItsKey, Filed
<1> QED
    BY <1>1, Invariance, PTL

\* Where no two proxies and tiles share a key, a 200 carries the tile and the
\* proxy that were asked for (proxy.go 49-57 and 81-90).
THEOREM RightTileServed == ASSUME Injective PROVE Spec => []RightTile
<1>1. IInv => RightTile
  <2> SUFFICES ASSUME IInv, NEW r \in Requests, reply[r] # None, reply[r].code = 200
               PROVE  /\ reply[r].body # None
                      /\ reply[r].body.proxy = task[r].proxy
                      /\ reply[r].body.tile = task[r].tile
      BY DEF RightTile
  <2>1. task[r] \in Task /\ reply[r].body \in Packet /\ KeyFor(reply[r].body) = KeyFor(task[r])
      BY DEF IInv, RepliesFiled, Filed, Key
  <2>2. /\ task[r].proxy \in Proxies /\ task[r].tile \in Tiles
        /\ reply[r].body.proxy \in Proxies /\ reply[r].body.tile \in Tiles
      BY <2>1 DEF Task, Packet
  <2> QED
      BY <2>1, <2>2, ValueAssumption, Injective DEF Injective, KeyFor
<1> QED
    BY <1>1, Invariance, PTL
=============================================================================
