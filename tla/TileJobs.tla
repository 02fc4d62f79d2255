------------------------------ MODULE TileJobs ------------------------------
(***************************************************************************)
(* www/handlers/admin/cache.go: one call of InvalidateAndPrime.  It lists  *)
(* the tiles with DeepChildren and then either invalidates them in turn or *)
(* feeds them to a pool of workers that fetch each from the upstream and   *)
(* cache it.                                                               *)
(***************************************************************************)
EXTENDS DeepChildren

CONSTANTS
    Workers,    \* the goroutines running tileWorker (proxy.NumWorkers of them)
    EmptyTiles  \* tiles for which the upstream answers 204

VARIABLES
    prime,      \* payload.Prime
    phase,      \* where the handler is
    todo,       \* tiles of the list that the handler has yet to treat or submit
    jobs,       \* tiles in the jobs channel
    job,        \* what each worker works on
    ended,      \* workers that have returned
    treated,    \* tiles that were invalidated, or asked from the upstream
    cached,     \* tiles for which EncodeSet was spawned
    succeeded,  \* the number reported as "primed"
    status,     \* the answer's "status"
    code,       \* the status code of the response all workers write to
    crashed     \* whether a panic of a worker took the process down

workVars == <<treated, cached, succeeded, status, code, crashed>>
vars == <<deepVars, prime, phase, todo, jobs, job, ended, workVars>>

Init ==
    /\ DeepInit
    /\ prime \in BOOLEAN
    /\ phase = "list"
    /\ todo = {}
    /\ jobs = {}
    /\ job = [w \in Workers |-> Nothing]
    /\ ended = {}
    /\ treated = {}
    /\ cached = {}
    /\ succeeded = 0
    /\ status = "none"
    /\ code = 200
    /\ crashed = FALSE

-----------------------------------------------------------------------------
\* DeepChildren runs; its collector may still do so after it returned.
ListTiles ==
    /\ ~crashed
    /\ DeepStep
    /\ UNCHANGED <<prime, phase, todo, jobs, job, ended, workVars>>

\* The handler has the list.  What it makes of a torn one is undefined.
BeginWork ==
    /\ phase = "list"
    /\ \/ /\ listed \notin {Nothing, Torn}
          /\ phase' = "work"
          /\ todo' = listed
       \/ /\ listed = Torn
          /\ phase' = "undefined"
          /\ UNCHANGED todo
    /\ UNCHANGED <<deepVars, prime, jobs, job, ended, workVars>>

\* The loop that invalidates: a tile whose Invalidate fails counts all the same.
InvalidateTile(t) ==
    /\ phase = "work"
    /\ ~prime
    /\ t \in todo
    /\ todo' = todo \ {t}
    /\ treated' \in {treated, treated \cup {t}}
    /\ succeeded' = succeeded + 1
    /\ UNCHANGED <<deepVars, prime, phase, jobs, job, ended, cached, status, code, crashed>>

\* jobs is as large as the list, so submitting does not block.
Submit(t) ==
    /\ phase = "work"
    /\ prime
    /\ ~crashed
    /\ t \in todo
    /\ todo' = todo \ {t}
    /\ jobs' = jobs \cup {t}
    /\ UNCHANGED <<deepVars, prime, phase, job, ended, workVars>>

-----------------------------------------------------------------------------
Running(w) == phase = "work" /\ prime /\ ~crashed /\ w \notin ended

\* Faulty variant: the channel is not closed when all jobs are submitted.
TakeUnclosed(w) ==
    /\ Running(w)
    /\ job[w] = Nothing
    /\ \E t \in jobs :
          /\ job' = [job EXCEPT ![w] = t]
          /\ jobs' = jobs \ {t}
    /\ UNCHANGED <<deepVars, prime, phase, todo, ended, workVars>>

\* A worker takes a job, or finds the channel empty and closed and returns.
Take(w) ==
    /\ Running(w)
    /\ job[w] = Nothing
    /\ \/ /\ \E t \in jobs :
                /\ job' = [job EXCEPT ![w] = t]
                /\ jobs' = jobs \ {t}
          /\ UNCHANGED ended
       \/ /\ jobs = {}
          /\ todo = {}
          /\ ended' = ended \cup {w}
          /\ UNCHANGED <<job, jobs>>
    /\ UNCHANGED <<deepVars, prime, phase, todo, workVars>>

\* BuildTileUrl cannot parse the URL: on to the next job.
SkipJob(w) ==
    /\ Running(w)
    /\ job[w] # Nothing
    /\ job' = [job EXCEPT ![w] = Nothing]
    /\ UNCHANGED <<deepVars, prime, phase, todo, jobs, ended, workVars>>

\* Faulty variant: the code of every tile is handed on.
PrimeTileAnyCode(w) ==
    /\ Running(w)
    /\ job[w] # Nothing
    /\ treated' = treated \cup {job[w]}
    /\ cached' = cached \cup {job[w]}
    /\ succeeded' = succeeded + 1
    /\ code' = IF job[w] \in EmptyTiles THEN 204 ELSE 200
    /\ job' = [job EXCEPT ![w] = Nothing]
    /\ UNCHANGED <<deepVars, prime, phase, todo, jobs, ended, status, crashed>>

\* Usable data: EncodeSet is spawned and a success reported.  The status of an
\* empty tile goes to the response of the call.
PrimeTile(w) ==
    /\ Running(w)
    /\ job[w] # Nothing
    /\ treated' = treated \cup {job[w]}
    /\ cached' = cached \cup {job[w]}
    /\ succeeded' = succeeded + 1
    /\ code' = IF job[w] \in EmptyTiles THEN 204 ELSE code
    /\ job' = [job EXCEPT ![w] = Nothing]
    /\ UNCHANGED <<deepVars, prime, phase, todo, jobs, ended, status, crashed>>

\* Faulty variant: the refusal is logged and the success reported all the same.
RefuseTileCounted(w) ==
    /\ Running(w)
    /\ job[w] # Nothing
    /\ treated' = treated \cup {job[w]}
    /\ succeeded' = succeeded + 1
    /\ job' = [job EXCEPT ![w] = Nothing]
    /\ ended' = ended \cup {w}
    /\ UNCHANGED <<deepVars, prime, phase, todo, jobs, cached, status, code, crashed>>

\* ProcessResponse refuses the response: the worker returns.
RefuseTile(w) ==
    /\ Running(w)
    /\ job[w] # Nothing
    /\ treated' = treated \cup {job[w]}
    /\ job' = [job EXCEPT ![w] = Nothing]
    /\ ended' = ended \cup {w}
    /\ UNCHANGED <<deepVars, prime, phase, todo, jobs, cached, succeeded, status, code, crashed>>

\* The agent reports an error or panics.  The error path logs err.Error(), where
\* err is the nil that BuildCacheKey returned; nothing recovers the panic.
FailTile(w) ==
    /\ Running(w)
    /\ job[w] # Nothing
    /\ treated' = treated \cup {job[w]}
    /\ crashed' = TRUE
    /\ UNCHANGED <<deepVars, prime, phase, todo, jobs, job, ended, cached,
                   succeeded, status, code>>

WorkerStep(w) == Take(w) \/ SkipJob(w) \/ PrimeTile(w) \/ RefuseTile(w) \/ FailTile(w)

-----------------------------------------------------------------------------
Verdict == IF succeeded = Cardinality(listed) THEN "ok" ELSE "failed"

\* Faulty variant: the handler does not wait for its workers.
AnswerAtOnce ==
    /\ phase = "work"
    /\ ~crashed
    /\ todo = {}
    /\ phase' = "answered"
    /\ status' = Verdict
    /\ UNCHANGED <<deepVars, prime, todo, jobs, job, ended, treated, cached,
                   succeeded, code, crashed>>

\* The list is exhausted, all workers have returned: the handler answers.
Answer ==
    /\ phase = "work"
    /\ ~crashed
    /\ todo = {}
    /\ prime => ended = Workers
    /\ phase' = "answered"
    /\ status' = Verdict
    /\ UNCHANGED <<deepVars, prime, todo, jobs, job, ended, treated, cached,
                   succeeded, code, crashed>>

HandlerStep ==
    \/ ListTiles
    \/ BeginWork
    \/ \E t \in todo : InvalidateTile(t) \/ Submit(t)
    \/ Answer

Next == HandlerStep \/ \E w \in Workers : WorkerStep(w)

Spec == Init /\ [][Next]_vars

(***************************************************************************)
(* Goroutines that can run do, and the upstream answers or fails.          *)
(***************************************************************************)
Fairness == WF_vars(HandlerStep) /\ \A w \in Workers : WF_vars(WorkerStep(w))

FairSpec == Spec /\ Fairness

-----------------------------------------------------------------------------
Lists == SUBSET Descendants

(***************************************************************************)
(* The types of all variables.  What is in hand, listed, submitted or      *)
(* cached is a descendant of the tile that was asked for.                  *)
(***************************************************************************)
TypeOK ==
    /\ sending \in Lists
    /\ sent \in Lists
    /\ wg \in Nat
    /\ closed \in BOOLEAN
    /\ inHand \in Descendants \cup {Nothing}
    /\ tiles \in Lists
    /\ listed \in Lists \cup {Nothing, Torn}
    /\ prime \in BOOLEAN
    /\ phase \in {"list", "work", "answered", "undefined"}
    /\ todo \in Lists
    /\ jobs \in Lists
    /\ job \in [Workers -> Descendants \cup {Nothing}]
    /\ ended \in SUBSET Workers
    /\ treated \in Lists
    /\ cached \in Lists
    /\ succeeded \in Nat
    /\ status \in {"none", "ok", "failed"}
    /\ code \in {200, 204}
    /\ crashed \in BOOLEAN

(***************************************************************************)
(* The list misses at most one tile, the last to be received, although     *)
(* the caller does not wait for the collector.                             *)
(***************************************************************************)
AtMostLastTileLost ==
    listed \notin {Nothing, Torn} =>
        \/ listed = Descendants
        \/ \E t \in Descendants : listed = Descendants \ {t}

(***************************************************************************)
(* The WaitGroup counts the goroutines that live, so the channel is not    *)
(* closed while one of them may send on it, which would panic.             *)
(***************************************************************************)
NoSendOnClosed ==
    /\ wg = Cardinality(sending) + Cardinality(sent)
    /\ closed => sending = {} /\ sent = {}

(***************************************************************************)
(* What a priming call reports is what it cached: "ok" exactly if every    *)
(* listed tile was.                                                        *)
(***************************************************************************)
ReportIsTrue ==
    (phase = "answered" /\ prime) =>
        /\ succeeded = Cardinality(cached)
        /\ (status = "ok") = (cached = listed)

(***************************************************************************)
(* No worker runs on with the request's context after the handler returned *)
(* it to fiber's pool, and every job that is left was left by workers that *)
(* all gave up.                                                            *)
(***************************************************************************)
NoWorkerOutlivesHandler ==
    (phase = "answered" /\ prime) =>
        /\ \A w \in Workers : job[w] = Nothing /\ w \in ended
        /\ jobs # {} => Cardinality(treated \ cached) >= Cardinality(Workers)

(***************************************************************************)
(* A report is sent with 204, and its JSON thereby lost to the caller, if  *)
(* and only if one of the primed tiles is empty, whatever the workers      *)
(* write to the response at the same time (helpers.go:221).                *)
(***************************************************************************)
ReportLostToEmptyTile ==
    phase = "answered" => (code = 204) = (cached \cap EmptyTiles # {})

(***************************************************************************)
(* The inductive invariant: a tile of the list is in one place, until the  *)
(* process goes down.                                                      *)
(***************************************************************************)
JobTypes ==
    /\ prime \in BOOLEAN
    /\ phase \in {"list", "work", "answered", "undefined"}
    /\ job \in [Workers -> Descendants \cup {Nothing}]
    /\ ended \in SUBSET Workers /\ IsFiniteSet(ended)
    /\ succeeded \in Nat
    /\ status \in {"none", "ok", "failed"}
    /\ code \in {200, 204}
    /\ crashed \in BOOLEAN

\* Without a list there is no work; with one the work is on its tiles.
WorkOnList ==
    /\ phase \in {"list", "undefined"} =>
          /\ todo \cup jobs \cup treated \cup cached = {}
          /\ ended = {} /\ succeeded = 0 /\ ~crashed
          /\ \A w \in Workers : job[w] = Nothing
    /\ phase \in {"work", "answered"} =>
          /\ listed \notin {Nothing, Torn}
          /\ todo \cup jobs \cup treated \subseteq listed
    /\ cached \subseteq treated

\* While workers run, no tile is in two hands.
InOnePlace ==
    (prime /\ ~crashed) =>
        /\ todo \cap jobs = {}
        /\ (todo \cup jobs) \cap treated = {}
        /\ \A w \in Workers : job[w] # Nothing =>
              /\ job[w] \in listed \ (todo \cup jobs \cup treated)
              /\ w \notin ended
              /\ \A v \in Workers : v # w => job[v] # job[w]

\* A worker that gives up while there are jobs has failed one of its own.
EachFailedOne ==
    todo \cup jobs # {} => Cardinality(treated \ cached) >= Cardinality(ended)

Reported ==
    /\ prime => succeeded = Cardinality(cached)
    /\ (code = 204) = (cached \cap EmptyTiles # {})
    /\ phase = "answered" => /\ status = Verdict
                             /\ todo = {} /\ ~crashed
                             /\ prime => ended = Workers

JobInv ==
    /\ DeepInv
    /\ JobTypes
    /\ WorkOnList
    /\ InOnePlace
    /\ EachFailedOne
    /\ Reported

(***************************************************************************)
(* A call ends, unless a worker takes the process down.                    *)
(***************************************************************************)
CallEnds == <>(phase \in {"answered", "undefined"} \/ crashed)

-----------------------------------------------------------------------------
(***************************************************************************)
(* tile.go:100: "DeepChildren returns a list of all tiles that are         *)
(* descendant of the given tile up to the given zoom level".               *)
(***************************************************************************)
AllListed == listed # Nothing => listed = Descendants
=============================================================================
