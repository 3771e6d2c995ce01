------------------------------ MODULE LoadBench ------------------------------
(***************************************************************************)
(* dispatch of the load generator: one goroutine admits requests on a      *)
(* schedule or drops them, each admitted request runs in a goroutine of    *)
(* its own, and the dispatcher closes the sample channel when it sees the  *)
(* semaphore empty - nobody reads a sample before that.                    *)
(***************************************************************************)
EXTENDS Integers, FiniteSets

CONSTANTS
  MaxRequests,   \* bound on n, the requests one window schedules
  MaxInflight    \* maxInflight

ASSUME BenchAssumption == MaxRequests \in Nat /\ MaxInflight \in Nat \ {0}

VARIABLES
  n, i,          \* the schedule and the next request of it
  pc,            \* of the dispatcher: dispatch, wait, collect, returned
  worker,        \* of each request: none, running, sent, gone; or panicked
  out, closed,   \* samples in the channel, by request; is it closed
  dropped,       \* requests that were not admitted
  samples        \* the samples returned

windowVars == <<n, i, pc, worker, out, closed, dropped, samples>>

Requests == 1..MaxRequests

\* The requests whose token is in the semaphore.
sem == {k \in Requests : worker[k] \in {"running", "sent"}}

WindowTypes ==
  /\ n \in 0..MaxRequests /\ i \in 1..n+1
  /\ pc \in {"dispatch", "wait", "collect", "returned"}
  /\ worker \in [Requests -> {"none", "running", "sent", "gone", "panicked"}]
  /\ out \in SUBSET Requests /\ closed \in BOOLEAN
  /\ dropped \in 0..MaxRequests /\ samples \in SUBSET Requests

WindowInit ==
  /\ n \in 0..MaxRequests /\ i = 1
  /\ pc = "dispatch" /\ worker = [k \in Requests |-> "none"]
  /\ out = {} /\ closed = FALSE /\ dropped = 0 /\ samples = {}

Admit ==
  /\ pc = "dispatch" /\ i <= n
  /\ Cardinality(sem) < MaxInflight
  /\ worker' = [worker EXCEPT ![i] = "running"]
  /\ i' = i + 1
  /\ UNCHANGED <<n, pc, out, closed, dropped, samples>>

Drop ==
  /\ pc = "dispatch" /\ i <= n
  /\ Cardinality(sem) >= MaxInflight
  /\ dropped' = dropped + 1
  /\ i' = i + 1
  /\ UNCHANGED <<n, pc, worker, out, closed, samples>>

AllScheduled ==
  /\ pc = "dispatch" /\ i > n
  /\ pc' = "wait"
  /\ UNCHANGED <<n, i, worker, out, closed, dropped, samples>>

\* Mutant of Capacity: one slot per request in flight.
CapacityInflight == MaxInflight

Capacity == n

doRequest(k) ==
  /\ worker[k] = "running"
  /\ \/ /\ closed
        /\ worker' = [worker EXCEPT ![k] = "panicked"] /\ UNCHANGED out
     \/ /\ ~closed /\ Cardinality(out) < Capacity
        /\ worker' = [worker EXCEPT ![k] = "sent"] /\ out' = out \cup {k}
  /\ UNCHANGED <<n, i, pc, closed, dropped, samples>>

\* The deferred receive.
Release(k) ==
  /\ worker[k] = "sent"
  /\ worker' = [worker EXCEPT ![k] = "gone"]
  /\ UNCHANGED <<n, i, pc, out, closed, dropped, samples>>

\* Mutant of Close: after the last request was scheduled.
CloseAtOnce ==
  /\ pc = "wait"
  /\ closed' = TRUE /\ pc' = "collect"
  /\ UNCHANGED <<n, i, worker, out, dropped, samples>>

Close ==
  /\ pc = "wait" /\ sem = {}
  /\ closed' = TRUE /\ pc' = "collect"
  /\ UNCHANGED <<n, i, worker, out, dropped, samples>>

Collect ==
  /\ pc = "collect"
  /\ samples' = out /\ out' = {} /\ pc' = "returned"
  /\ UNCHANGED <<n, i, worker, closed, dropped>>

Dispatcher == Admit \/ Drop \/ AllScheduled \/ Close \/ Collect

WindowStep == Dispatcher \/ \E k \in Requests : doRequest(k) \/ Release(k)

WindowSpec ==
  /\ WindowInit /\ [][WindowStep]_windowVars
  /\ WF_windowVars(Dispatcher) /\ \A k \in Requests : WF_windowVars(doRequest(k) \/ Release(k))
-----------------------------------------------------------------------------
\* No goroutine of a request outlives the channel it sends its sample to, although the
\* dispatcher looks at the semaphore only (cmd/loadbench/main.go dispatch).
NoSendOnClosed == closed => \A k \in Requests : worker[k] \in {"none", "gone"}

\* Every scheduled request is counted once, as a sample or as dropped, failed ones as
\* samples (dispatch; summarize derives the error count and the rate from the samples).
EachCountedOnce == pc = "returned" => Cardinality(samples) + dropped = n

\* A window comes to its end although no sample is read while requests run: the channel
\* must hold them all (dispatch).
WindowEnds == <>(pc = "returned")
=============================================================================
