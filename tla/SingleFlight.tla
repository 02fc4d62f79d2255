---------------------------- MODULE SingleFlight ----------------------------
(***************************************************************************)
(* golang.org/x/sync/singleflight as the proxy handler uses it (Do and     *)
(* Forget).  A call is named by the request that leads it, since a request *)
(* leads at most one.  Every operator is one critical section of Group.mu. *)
(***************************************************************************)
EXTENDS LodTypes

VARIABLES
    flight,     \* Group.m: the call that a Do for a key would join
    call,       \* call[r]: the call that request r led
    joined      \* the call whose result a request returns from Do

flightVars == <<flight, call, joined>>

\* "running": fn has not come back.  "returned": fn did, doCall's deferred
\* function has yet to run.  "done": wg.Done was called.
Call == [state : {"none", "running", "returned", "done"}, result : Result \cup {None}]

NoCall == [state |-> "none", result |-> None]

FlightInit ==
    /\ flight = [k \in Keys |-> None]
    /\ call = [r \in Requests |-> NoCall]
    /\ joined = [r \in Requests |-> None]

\* Faulty variant: the map is read before the lock is taken, so that another
\* call may be there by the time the new one is entered.
LeadUnlocked(r, k) ==
    /\ flight' = [flight EXCEPT ![k] = r]
    /\ call' = [call EXCEPT ![r] = [state |-> "running", result |-> None]]
    /\ joined' = [joined EXCEPT ![r] = r]

\* Do finds no call for k and enters a new one into the map.
Lead(r, k) ==
    /\ flight[k] = None
    /\ flight' = [flight EXCEPT ![k] = r]
    /\ call' = [call EXCEPT ![r] = [state |-> "running", result |-> None]]
    /\ joined' = [joined EXCEPT ![r] = r]

\* Do finds a call for k and waits for it, whoever leads it.
Join(r, k) ==
    /\ flight[k] # None
    /\ joined' = [joined EXCEPT ![r] = flight[k]]
    /\ UNCHANGED <<flight, call>>

\* fn returns or panics; doCall keeps what came out of it in the call.
Return(r, result) ==
    /\ call[r].state = "running"
    /\ call' = [call EXCEPT ![r] = [state |-> "returned", result |-> result]]
    /\ UNCHANGED <<flight, joined>>

\* Faulty variant: a finished call stays in the map until somebody forgets it.
FinishKeepsEntry(r, k) ==
    /\ call[r].state = "returned"
    /\ call' = [call EXCEPT ![r].state = "done"]
    /\ UNCHANGED <<flight, joined>>

\* Faulty variant: a panic of fn skips wg.Done.
FinishLosesPanic(r, k) ==
    /\ call[r].state = "returned"
    /\ call' = IF call[r].result.kind = "panic"
                  THEN call
                  ELSE [call EXCEPT ![r].state = "done"]
    /\ flight' = [flight EXCEPT ![k] = IF @ = r THEN None ELSE @]
    /\ UNCHANGED joined

\* doCall's deferred function: release the waiters, and delete the map entry if
\* it is still this call.  A Forget may have made room for another one.
Finish(r, k) ==
    /\ call[r].state = "returned"
    /\ call' = [call EXCEPT ![r].state = "done"]
    /\ flight' = [flight EXCEPT ![k] = IF @ = r THEN None ELSE @]
    /\ UNCHANGED joined

\* Forget deletes the entry whatever call it holds.
Forget(k) ==
    /\ flight' = [flight EXCEPT ![k] = None]
    /\ UNCHANGED <<call, joined>>

\* wg.Wait of a request that joined a call returns.
Released(r) == call[joined[r]].state = "done"

ResultOf(r) == call[joined[r]].result

FlightRestart ==
    /\ flight' = [k \in Keys |-> None]
    /\ call' = [r \in Requests |-> NoCall]
    /\ joined' = [r \in Requests |-> None]
=============================================================================
