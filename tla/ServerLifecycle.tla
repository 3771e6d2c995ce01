---------------------------- MODULE ServerLifecycle ----------------------------
(***************************************************************************)
(* The API process from its start to its exit: the pools it opens, the     *)
(* pipelines it loads one by one, and what it goes without when one of     *)
(* them cannot be had; requests on their way through the pool of embedding *)
(* pipelines and the database pool; the signal that stops the listener,    *)
(* the drain with its deadline, and the deferred closes: first the ONNX    *)
(* session, then the database pool.                                        *)
(*                                                                         *)
(* A search embeds its query and then makes two reads, each on a           *)
(* connection of its own; a readiness probe makes one.  What an embed or a *)
(* read returns is left out; an error makes the steps that remain shorter, *)
(* never longer.                                                           *)
(***************************************************************************)
EXTENDS Integers, FiniteSets

CONSTANTS
  Requests,   \* requests that may arrive
  Pipelines,  \* the pooled pipelines, poolSize of them
  MaxConns,   \* pgxpool MaxConns
  None        \* no pipeline

ASSUME LifecycleAssumption ==
  /\ IsFiniteSet(Pipelines) /\ Pipelines # {} /\ None \notin Pipelines
  /\ MaxConns \in Nat \ {0}

VARIABLES
  server,    \* run, serve and the deferred closes of run
  signalled, \* the context of main is done
  exit,      \* how serve returned
  svc,       \* the search service by its embedder
  session,   \* the ONNX session
  dbPool,    \* the database pool
  pool,      \* pipelines in the channel Embedder.pool
  request,   \* where each request is
  reads,     \* reads a request has made
  pipeline   \* the pipeline a request has checked out

vars == <<server, signalled, exit, svc, session, dbPool, pool, request, reads, pipeline>>

process  == <<server, signalled, exit, svc, session, dbPool>>
requests == <<request, reads, pipeline>>

Phases == {"none", "await", "embed", "call", "acquire", "query", "reply", "answered", "cut"}

Starting == {"openPool", "loadRanking", "buildEmbedder", "loadPipelines"}

TypeOK ==
  /\ server \in Starting \cup {"serving", "draining", "closeEmb", "closePool", "ended"}
  /\ signalled \in BOOLEAN /\ exit \in {"none", "clean", "error"}
  /\ svc \in {"none", "lexical", "onnx", "ollama"}
  /\ session \in {"none", "open", "destroyed"} /\ dbPool \in {"none", "open", "closed"}
  /\ pool \subseteq Pipelines
  /\ request \in [Requests -> Phases]
  /\ reads \in [Requests -> 0..2]
  /\ pipeline \in [Requests -> Pipelines \cup {None}]

Init ==
  /\ server = "openPool" /\ signalled = FALSE /\ exit = "none"
  /\ svc = "none" /\ session = "none" /\ dbPool = "none" /\ pool = {}
  /\ request = [r \in Requests |-> "none"]
  /\ reads = [r \in Requests |-> 0]
  /\ pipeline = [r \in Requests |-> None]
-----------------------------------------------------------------------------
\* Without a usable URL the server goes on without a database.
OpenPool ==
  /\ server = "openPool" /\ server' = "loadRanking"
  /\ dbPool' \in {"none", "open"}
  /\ UNCHANGED <<signalled, exit, svc, session, pool, requests>>

\* A search service needs a database and a ranking configuration.
LoadRanking ==
  /\ server = "loadRanking"
  /\ \E loaded \in BOOLEAN :
       server' = IF loaded /\ dbPool = "open" THEN "buildEmbedder" ELSE "serving"
  /\ UNCHANGED <<signalled, exit, svc, session, dbPool, pool, requests>>

\* The flag is off or an embedder cannot be built; Ollama; or an ONNX session is there.
BuildEmbedder ==
  /\ server = "buildEmbedder"
  /\ \/ svc' \in {"lexical", "ollama"} /\ server' = "serving" /\ session' = session
     \/ svc' = svc /\ server' = "loadPipelines" /\ session' = "open"
  /\ UNCHANGED <<signalled, exit, dbPool, pool, requests>>

LoadPipeline ==
  /\ server = "loadPipelines"
  /\ \E p \in Pipelines \ pool : pool' = pool \cup {p}
  /\ UNCHANGED <<process, requests>>

\* Mutant of LoadFails: the session is left behind.
LoadFailsLeaking ==
  /\ server = "loadPipelines" /\ pool # Pipelines
  /\ svc' = "lexical" /\ server' = "serving" /\ pool' = {}
  /\ UNCHANGED <<signalled, exit, session, dbPool, requests>>

\* The session goes, and with it the pipelines loaded so far.
LoadFails ==
  /\ server = "loadPipelines" /\ pool # Pipelines
  /\ svc' = "lexical" /\ server' = "serving" /\ pool' = {}
  /\ session' = "destroyed"
  /\ UNCHANGED <<signalled, exit, dbPool, requests>>

EmbedderReady ==
  /\ server = "loadPipelines" /\ pool = Pipelines
  /\ svc' = "onnx" /\ server' = "serving"
  /\ UNCHANGED <<signalled, exit, session, dbPool, pool, requests>>

Start == OpenPool \/ LoadRanking \/ BuildEmbedder \/ LoadPipeline \/ LoadFails \/ EmbedderReady
-----------------------------------------------------------------------------
Up == server # "ended"
Active(r) == request[r] \in {"await", "embed", "call", "acquire", "query", "reply"}

Goes(r, phase) == request' = [request EXCEPT ![r] = phase]

\* Where the search of the service begins.
First == CASE svc = "none" -> "reply" [] svc = "lexical" -> "acquire"
           [] svc = "onnx" -> "await" [] svc = "ollama" -> "call"

\* GET /search; parameters that do not parse and an empty query are answered at once.
Arrive(r) ==
  /\ server = "serving" /\ request[r] = "none"
  /\ \E phase \in {First, "reply"} : Goes(r, phase)
  /\ UNCHANGED <<process, pool, reads, pipeline>>

\* GET /readyz: a ping is one read.
Probe(r) ==
  /\ server = "serving" /\ request[r] = "none"
  /\ Goes(r, IF dbPool = "open" THEN "acquire" ELSE "reply")
  /\ reads' = [reads EXCEPT ![r] = 1]
  /\ UNCHANGED <<process, pool, pipeline>>

\* Mutant of TakePipeline: a pipeline is picked, not received.
TakePipelineShared(r) ==
  /\ Up /\ request[r] = "await"
  /\ \E p \in Pipelines : /\ pool' = pool \ {p}
                          /\ pipeline' = [pipeline EXCEPT ![r] = p]
  /\ Goes(r, "embed")
  /\ UNCHANGED <<process, reads>>

\* pipeline = <-e.pool
TakePipeline(r) ==
  /\ Up /\ request[r] = "await"
  /\ \E p \in pool : /\ pool' = pool \ {p}
                     /\ pipeline' = [pipeline EXCEPT ![r] = p]
  /\ Goes(r, "embed")
  /\ UNCHANGED <<process, reads>>

\* <-ctx.Done(): the client has gone, and the search goes on without a vector.
StopWaiting(r) ==
  /\ Up /\ request[r] = "await"
  /\ Goes(r, "acquire")
  /\ UNCHANGED <<process, pool, reads, pipeline>>

\* Mutant of Embedded: only a successful embed returns its pipeline.
EmbeddedLeakingOnError(r) ==
  /\ Up /\ request[r] = "embed"
  /\ \/ pool' = pool \cup {pipeline[r]}
     \/ pool' = pool
  /\ pipeline' = [pipeline EXCEPT ![r] = None]
  /\ Goes(r, "acquire")
  /\ UNCHANGED <<process, reads>>

\* RunPipeline returns, with vectors or an error; the deferred send returns the pipeline.
Embedded(r) ==
  /\ Up /\ request[r] = "embed"
  /\ pool' = pool \cup {pipeline[r]}
  /\ pipeline' = [pipeline EXCEPT ![r] = None]
  /\ Goes(r, "acquire")
  /\ UNCHANGED <<process, reads>>

\* Ollama answers, fails or takes longer than httpTimeout, or the client has gone.
CallEnds(r) ==
  /\ Up /\ request[r] = "call"
  /\ Goes(r, "acquire")
  /\ UNCHANGED <<process, pool, reads, pipeline>>

Acquired == {r \in Requests : request[r] = "query"}

AcquireConn(r) ==
  /\ Up /\ request[r] = "acquire"
  /\ dbPool = "open" /\ Cardinality(Acquired) < MaxConns
  /\ Goes(r, "query")
  /\ UNCHANGED <<process, pool, reads, pipeline>>

\* The pool is closed, the query's deadline passes, or the client has gone.
AcquireFails(r) ==
  /\ Up /\ request[r] = "acquire"
  /\ Goes(r, "reply")
  /\ UNCHANGED <<process, pool, reads, pipeline>>

\* A read ends and gives its connection back.
Read(r) ==
  /\ Up /\ request[r] = "query"
  /\ reads' = [reads EXCEPT ![r] = @ + 1]
  /\ Goes(r, IF reads[r] = 0 THEN "acquire" ELSE "reply")
  /\ UNCHANGED <<process, pool, pipeline>>

ReadFails(r) ==
  /\ Up /\ request[r] = "query"
  /\ Goes(r, "reply")
  /\ UNCHANGED <<process, pool, reads, pipeline>>

\* The handler has written the answer; a client may read as slowly as it likes.
Reply(r) ==
  /\ Up /\ request[r] = "reply"
  /\ Goes(r, "answered")
  /\ UNCHANGED <<process, pool, reads, pipeline>>

\* SIGINT or SIGTERM, at any time.
Signal ==
  /\ Up /\ ~signalled /\ signalled' = TRUE
  /\ UNCHANGED <<server, exit, svc, session, dbPool, pool, requests>>

\* serve sees it, and Shutdown closes the listener.
StopListening ==
  /\ server = "serving" /\ signalled /\ server' = "draining"
  /\ UNCHANGED <<signalled, exit, svc, session, dbPool, pool, requests>>

ServeReturns(how) ==
  /\ server' = "closeEmb" /\ exit' = how
  /\ UNCHANGED <<signalled, svc, session, dbPool, pool, requests>>

\* ListenAndServe fails.
ListenFails == server = "serving" /\ ServeReturns("error")

\* Mutant of Drained: Shutdown is not waited for.
DrainedAtOnce == server = "draining" /\ ServeReturns("clean")

Drained ==
  /\ server = "draining" /\ \A r \in Requests : ~Active(r)
  /\ ServeReturns("clean")

\* Mutant of DrainTimesOut: Shutdown gets a context without deadline.
DrainTimesNever == FALSE /\ ServeReturns("error")

\* shutdownTimeout passes with a request still active.
DrainTimesOut ==
  /\ server = "draining" /\ \E r \in Requests : Active(r)
  /\ ServeReturns("error")

\* closeEmb, if there is an ONNX embedder.
CloseEmbedder ==
  /\ server = "closeEmb" /\ server' = "closePool"
  /\ session' = IF svc = "onnx" THEN "destroyed" ELSE session
  /\ UNCHANGED <<signalled, exit, svc, dbPool, pool, requests>>

\* pgxpool's Close refuses new acquires ...
ClosePool ==
  /\ server = "closePool" /\ dbPool = "open"
  /\ dbPool' = "closed"
  /\ UNCHANGED <<server, signalled, exit, svc, session, pool, requests>>

\* ... and waits for the connections that are out; then the process ends, and with it
\* the requests that are left.
Exit ==
  /\ server = "closePool" /\ dbPool # "open" /\ Acquired = {}
  /\ server' = "ended"
  /\ request' = [r \in Requests |-> IF Active(r) THEN "cut" ELSE request[r]]
  /\ UNCHANGED <<signalled, exit, svc, session, dbPool, pool, reads, pipeline>>

Handler(r) ==
  \/ Arrive(r) \/ Probe(r) \/ TakePipeline(r) \/ StopWaiting(r) \/ Embedded(r) \/ CallEnds(r)
  \/ AcquireConn(r) \/ AcquireFails(r) \/ Read(r) \/ ReadFails(r) \/ Reply(r)

Serve ==
  \/ Signal \/ StopListening \/ ListenFails \/ Drained \/ DrainTimesOut
  \/ CloseEmbedder \/ ClosePool \/ Exit

Next == Start \/ Serve \/ \E r \in Requests : Handler(r)

\* The start waits for nobody; embeds and calls end; a connection is waited for and a read
\* runs no longer than their timeouts; receivers of a Go channel are served in order; the
\* drain has a deadline.  Nothing makes a client read its answer.
Spec ==
  /\ Init /\ [][Next]_vars
  /\ WF_vars(Start)
  /\ \A r \in Requests :
       /\ WF_vars(Embedded(r) \/ CallEnds(r))
       /\ SF_vars(TakePipeline(r))
       /\ WF_vars(AcquireConn(r) \/ AcquireFails(r))
       /\ WF_vars(Read(r) \/ ReadFails(r))
  /\ WF_vars(StopListening \/ Drained \/ DrainTimesOut \/ CloseEmbedder \/ ClosePool \/ Exit)
-----------------------------------------------------------------------------
Held == {pipeline[r] : r \in Requests} \ {None}

\* Each pipeline of a service is in the channel or checked out by exactly one request that
\* embeds or was cut while it did, whatever fails or is cancelled, and a service without
\* pipelines has none checked out (embedder.go New, run).
PipelinesConserved ==
  /\ \A r, s \in Requests : pipeline[r] = pipeline[s] /\ pipeline[r] # None => r = s
  /\ Held \cap pool = {}
  /\ IF svc = "onnx" THEN Held \cup pool = Pipelines ELSE Held = {}
  /\ \A r \in Requests : request[r] = "embed" => pipeline[r] # None

\* Whatever the start went without, a service has what it was built on until its server has
\* returned, and nothing is left open behind it (main.go run, embedder.go New, Close).
ResourcesOutliveService ==
  /\ exit = "none" /\ svc # "none" => dbPool = "open" /\ (svc = "onnx" <=> session = "open")
  /\ server = "ended" => session # "open" /\ dbPool # "open"

\* After a clean shutdown nothing was cut, and no embed or read ran on a resource that was
\* closed (main.go serve and the deferred closes of run).
CleanExitCutsNothing ==
  exit = "clean" => \A r \in Requests : request[r] \in {"none", "answered"}

\* A signal ends the process, whenever it comes, even with clients that never read (main.go
\* run, serve).
SignalStops == signalled ~> server = "ended"

\* No request waits for a pipeline for ever (embedder.go run).
WaitersServed == \A r \in Requests : request[r] = "await" ~> request[r] # "await"
=============================================================================
