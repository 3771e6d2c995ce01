------------------------ MODULE ServerLifecycleProofs ------------------------
(***************************************************************************)
(* Safety of the pipeline pool, of what a start with failures leaves and   *)
(* of the clean shutdown, for any number of requests, pipelines and        *)
(* connections.                                                            *)
(***************************************************************************)
EXTENDS ServerLifecycle, TLAPS

\* Only a request that embeds, or was cut while it did, holds a pipeline.
HoldersEmbed == \A r \in Requests : pipeline[r] # None => request[r] \in {"embed", "cut"}

\* serve has not returned before the closes begin.
ServeReturnedOnce ==
  /\ exit # "none" <=> server \in {"closeEmb", "closePool", "ended"}
  /\ \A r \in Requests : request[r] = "cut" => server = "ended"

\* A request that has not come to its answer has a read left.
ReadsLeft ==
  \A r \in Requests : request[r] \notin {"reply", "answered", "cut"} => reads[r] \in 0..1

\* How far the start is shows in what is there, and nobody is served before its end.
Wired ==
  /\ server \in Starting => /\ svc = "none" /\ exit = "none"
                            /\ \A r \in Requests : request[r] = "none"
  /\ server \in Starting \ {"loadPipelines"} => session = "none"
  /\ server \in {"buildEmbedder", "loadPipelines"} => dbPool = "open"
  /\ server = "loadPipelines" => session = "open"
  /\ session = "open" => svc = "onnx" \/ server = "loadPipelines"
  /\ server \in {"closePool", "ended"} => session # "open"

\* Only a service with pipelines has requests that wait for one.
WaitersHavePool == \A r \in Requests : request[r] \in {"await", "embed"} => svc = "onnx"

IInv == /\ TypeOK /\ PipelinesConserved /\ HoldersEmbed /\ ReadsLeft /\ ServeReturnedOnce
        /\ Wired /\ WaitersHavePool /\ ResourcesOutliveService /\ CleanExitCutsNothing

\* The process starts in the invariant.
LEMMA InitIInv == Init => IInv
  <1> SUFFICES ASSUME Init PROVE IInv
    OBVIOUS
  <1>1. TypeOK
    <2>1. request \in [Requests -> Phases]
      BY DEF Init, Phases
    <2>2. reads \in [Requests -> 0..2]
      BY DEF Init
    <2>3. pipeline \in [Requests -> Pipelines \cup {None}]
      BY DEF Init
    <2>4. /\ server \in Starting /\ svc \in {"none", "lexical", "onnx", "ollama"}
          /\ session \in {"none", "open", "destroyed"} /\ dbPool \in {"none", "open", "closed"}
          /\ signalled \in BOOLEAN /\ exit \in {"none", "clean", "error"} /\ pool \subseteq Pipelines
      BY DEF Init, Starting
    <2> QED
      BY <2>1, <2>2, <2>3, <2>4 DEF TypeOK
  <1>2. PipelinesConserved
    BY LifecycleAssumption DEF Init, PipelinesConserved, Held
  <1>3. Wired /\ WaitersHavePool
    BY DEF Init, Wired, WaitersHavePool, Starting
  <1> QED
    BY <1>1, <1>2, <1>3 DEF Init, IInv, HoldersEmbed, ReadsLeft, ServeReturnedOnce,
       ResourcesOutliveService, CleanExitCutsNothing

\* While the server starts no request is there, so none holds a pipeline.
LEMMA NobodyHolds ==
  ASSUME IInv, server \in Starting
  PROVE  \A r \in Requests : request[r] = "none" /\ pipeline[r] = None
  BY DEF IInv, Wired, HoldersEmbed

\* What the start does about pools, session and service.
LEMMA StartStep == IInv /\ Start => IInv'
  <1> SUFFICES ASSUME IInv, Start PROVE IInv'
    OBVIOUS
  <1>1. server \in Starting /\ svc = "none" /\ exit = "none" /\ UNCHANGED <<signalled, exit, requests>>
    BY DEF Start, OpenPool, LoadRanking, BuildEmbedder, LoadPipeline, LoadFails, EmbedderReady,
       Starting, IInv, Wired, process
  <1>2. \A r \in Requests : request'[r] = "none" /\ pipeline'[r] = None
    BY <1>1, NobodyHolds DEF requests
  <1>3. /\ server' \in Starting \cup {"serving"} /\ svc' \in {"none", "lexical", "onnx", "ollama"}
        /\ session' \in {"none", "open", "destroyed"} /\ dbPool' \in {"none", "open", "closed"}
        /\ pool' \subseteq Pipelines
    BY DEF Start, OpenPool, LoadRanking, BuildEmbedder, LoadPipeline, LoadFails, EmbedderReady,
       Starting, IInv, TypeOK, process
  <1>4. TypeOK'
    BY <1>1, <1>3 DEF IInv, TypeOK, requests
  <1>5. svc' = "onnx" => pool' = Pipelines /\ session' = "open" /\ dbPool' = "open"
    BY <1>1 DEF Start, OpenPool, LoadRanking, BuildEmbedder, LoadPipeline, LoadFails,
       EmbedderReady, IInv, Wired, process
  <1>6. PipelinesConserved'
    <2>1. Held' = {}
      BY <1>2 DEF Held
    <2> QED
      BY <1>2, <1>5, <2>1 DEF PipelinesConserved
  <1>7. Wired'
    BY <1>1, <1>2
    DEF Start, OpenPool, LoadRanking, BuildEmbedder, LoadPipeline, LoadFails, EmbedderReady,
        Starting, IInv, Wired, process
  <1>8. ResourcesOutliveService'
    BY <1>1, <1>5
    DEF Start, OpenPool, LoadRanking, BuildEmbedder, LoadPipeline, LoadFails, EmbedderReady,
        Starting, IInv, Wired, ResourcesOutliveService, process
  <1>9. ServeReturnedOnce'
    BY <1>1, <1>2, <1>3 DEF Starting, ServeReturnedOnce
  <1> QED
    BY <1>1, <1>2, <1>4, <1>6, <1>7, <1>8, <1>9
    DEF IInv, HoldersEmbed, ReadsLeft, WaitersHavePool, CleanExitCutsNothing, requests, TypeOK

\* Steps of a request that leave the pool and the pipelines held alone.
LEMMA PoolUntouched ==
  ASSUME IInv, NEW r \in Requests, UNCHANGED <<svc, pool, pipeline>>,
         NEW phase \in Phases, Goes(r, phase), phase # "embed", request[r] # "embed",
         request[r] # "cut"
  PROVE  PipelinesConserved' /\ HoldersEmbed'
  <1>1. \A s \in Requests : request'[s] = IF s = r THEN phase ELSE request[s]
    BY DEF Goes, IInv, TypeOK
  <1>2. PipelinesConserved'
    BY <1>1 DEF IInv, PipelinesConserved, Held
  <1>3. HoldersEmbed'
    BY <1>1 DEF IInv, HoldersEmbed
  <1> QED
    BY <1>2, <1>3

\* Steps of a request change nothing about the process, and are none of a process that
\* starts or has ended.
LEMMA ProcessUntouched ==
  ASSUME IInv, NEW r \in Requests, UNCHANGED process, Up, server \notin Starting,
         NEW phase \in Phases, Goes(r, phase), phase # "cut",
         phase \in {"await", "embed"} => svc = "onnx",
         exit = "clean" => phase \in {"none", "answered"}
  PROVE  /\ ServeReturnedOnce' /\ Wired' /\ WaitersHavePool' /\ ResourcesOutliveService'
         /\ CleanExitCutsNothing'
  <1>1. \A s \in Requests : request'[s] = IF s = r THEN phase ELSE request[s]
    BY DEF Goes, IInv, TypeOK
  <1>2. ServeReturnedOnce'
    BY <1>1 DEF IInv, ServeReturnedOnce, Up, process
  <1>3. Wired' /\ ResourcesOutliveService'
    BY DEF IInv, Wired, ResourcesOutliveService, process
  <1>4. WaitersHavePool'
    BY <1>1 DEF IInv, WaitersHavePool, process
  <1>5. CleanExitCutsNothing'
    BY <1>1 DEF IInv, CleanExitCutsNothing, process
  <1> QED
    BY <1>2, <1>3, <1>4, <1>5

\* A search or a probe arrives.
LEMMA ArriveStep ==
  ASSUME IInv, NEW r \in Requests, Arrive(r) \/ Probe(r) PROVE IInv'
  <1> DEFINE phase == request'[r]
  <1>1. /\ server = "serving" /\ request[r] = "none" /\ exit # "clean" /\ Up
        /\ server \notin Starting /\ UNCHANGED <<process, pool, pipeline>>
    BY DEF Arrive, Probe, IInv, ServeReturnedOnce, Up, Starting
  <1>2. /\ phase \in {"await", "call", "acquire", "reply"} /\ Goes(r, phase)
        /\ phase = "await" => svc = "onnx"
    <2>1. First \in {"await", "call", "acquire", "reply"} /\ (First = "await" => svc = "onnx")
      BY DEF First, IInv, TypeOK
    <2> QED
      BY <2>1 DEF Arrive, Probe, Goes, IInv, TypeOK
  <1>3. reads' \in [Requests -> 0..2] /\ \A s \in Requests : reads'[s] \in {reads[s], 1}
    BY DEF Arrive, Probe, IInv, TypeOK
  <1>4. TypeOK'
    BY <1>1, <1>2, <1>3 DEF Goes, IInv, TypeOK, Phases, process
  <1>5. PipelinesConserved' /\ HoldersEmbed'
    BY <1>1, <1>2, PoolUntouched DEF Phases, process
  <1>6. /\ ServeReturnedOnce' /\ Wired' /\ WaitersHavePool' /\ ResourcesOutliveService'
        /\ CleanExitCutsNothing'
    BY <1>1, <1>2, ProcessUntouched DEF Phases
  <1>7. ReadsLeft'
    <2>1. \A s \in Requests : request'[s] = IF s = r THEN phase ELSE request[s]
      BY <1>2 DEF Goes, IInv, TypeOK
    <2> QED
      BY <1>1, <1>3, <2>1 DEF IInv, ReadsLeft
  <1> QED
    BY <1>4, <1>5, <1>6, <1>7 DEF IInv

\* A waiting request receives a pipeline nobody else holds.
LEMMA TakePipelineStep == ASSUME IInv, NEW r \in Requests, TakePipeline(r) PROVE IInv'
  <1>1. PICK p \in pool : /\ pool' = pool \ {p}
                          /\ pipeline' = [pipeline EXCEPT ![r] = p]
    BY DEF TakePipeline
  <1>2. p \in Pipelines /\ p # None
    BY <1>1, LifecycleAssumption DEF IInv, TypeOK
  <1>3. /\ pipeline[r] = None /\ svc = "onnx" /\ exit # "clean" /\ server \notin Starting
        /\ UNCHANGED process
    BY DEF TakePipeline, IInv, HoldersEmbed, WaitersHavePool, Wired, CleanExitCutsNothing
  <1>4. \A s \in Requests : pipeline'[s] = IF s = r THEN p ELSE pipeline[s]
    BY <1>1 DEF IInv, TypeOK
  <1>5. "embed" \in Phases /\ Goes(r, "embed") /\ Up
    BY DEF TakePipeline, Phases
  <1>6. \A s \in Requests : request'[s] = IF s = r THEN "embed" ELSE request[s]
    BY <1>5 DEF Goes, IInv, TypeOK
  <1>7. TypeOK'
    BY <1>1, <1>2 DEF TakePipeline, Goes, IInv, TypeOK, Phases, process
  <1>8. PipelinesConserved'
    <2>1. Held' = Held \cup {p}
      BY <1>4, <1>3, <1>2 DEF Held
    <2>2. p \notin Held /\ \A s \in Requests : pipeline[s] # p
      BY <1>1, <1>2 DEF IInv, PipelinesConserved, Held
    <2>3. \A s, t \in Requests : pipeline'[s] = pipeline'[t] /\ pipeline'[s] # None => s = t
      BY <1>4, <2>2 DEF IInv, PipelinesConserved
    <2>4. Held' \cap pool' = {} /\ Held' \cup pool' = Pipelines
      BY <1>1, <1>3, <2>1 DEF IInv, PipelinesConserved
    <2>5. \A s \in Requests : request'[s] = "embed" => pipeline'[s] # None
      BY <1>4, <1>6, <1>2 DEF IInv, PipelinesConserved
    <2> QED
      BY <1>3, <2>3, <2>4, <2>5 DEF PipelinesConserved, process
  <1>9. HoldersEmbed'
    BY <1>4, <1>6 DEF IInv, HoldersEmbed
  <1>10. /\ ServeReturnedOnce' /\ Wired' /\ WaitersHavePool' /\ ResourcesOutliveService'
         /\ CleanExitCutsNothing'
    BY <1>3, <1>5, ProcessUntouched
  <1>11. ReadsLeft'
    BY <1>6 DEF TakePipeline, IInv, ReadsLeft
  <1> QED
    BY <1>7, <1>8, <1>9, <1>10, <1>11 DEF IInv

\* An embed returns its pipeline to the channel.
LEMMA EmbeddedStep == ASSUME IInv, NEW r \in Requests, Embedded(r) PROVE IInv'
  <1>1. /\ pipeline[r] \in Pipelines /\ pipeline[r] # None /\ svc = "onnx" /\ exit # "clean"
        /\ server \notin Starting /\ UNCHANGED process
    BY DEF Embedded, IInv, TypeOK, PipelinesConserved, WaitersHavePool, Wired,
       CleanExitCutsNothing
  <1>2. pool' = pool \cup {pipeline[r]}
    BY DEF Embedded
  <1>3. \A s \in Requests : pipeline'[s] = IF s = r THEN None ELSE pipeline[s]
    BY DEF Embedded, IInv, TypeOK
  <1>4. "acquire" \in Phases /\ Goes(r, "acquire") /\ Up
    BY DEF Embedded, Phases
  <1>5. \A s \in Requests : request'[s] = IF s = r THEN "acquire" ELSE request[s]
    BY <1>4 DEF Goes, IInv, TypeOK
  <1>6. TypeOK'
    BY <1>1 DEF Embedded, Goes, IInv, TypeOK, Phases, process
  <1>7. PipelinesConserved'
    <2>1. \A s \in Requests : s # r => pipeline[s] # pipeline[r]
      BY <1>1 DEF IInv, PipelinesConserved
    <2>2. Held' = Held \ {pipeline[r]} /\ pipeline[r] \in Held
      BY <1>1, <1>3, <2>1 DEF Held
    <2>3. \A s, t \in Requests : pipeline'[s] = pipeline'[t] /\ pipeline'[s] # None => s = t
      BY <1>3 DEF IInv, PipelinesConserved
    <2>4. Held' \cap pool' = {} /\ Held' \cup pool' = Pipelines
      BY <1>1, <1>2, <2>2 DEF IInv, PipelinesConserved
    <2>5. \A s \in Requests : request'[s] = "embed" => pipeline'[s] # None
      BY <1>3, <1>5 DEF IInv, PipelinesConserved
    <2> QED
      BY <1>1, <2>3, <2>4, <2>5 DEF PipelinesConserved, process
  <1>8. HoldersEmbed'
    BY <1>3, <1>5 DEF IInv, HoldersEmbed
  <1>9. /\ ServeReturnedOnce' /\ Wired' /\ WaitersHavePool' /\ ResourcesOutliveService'
        /\ CleanExitCutsNothing'
    BY <1>1, <1>4, ProcessUntouched
  <1>10. ReadsLeft'
    BY <1>5 DEF Embedded, IInv, ReadsLeft
  <1> QED
    BY <1>6, <1>7, <1>8, <1>9, <1>10 DEF IInv

\* Waiting given up, calls, connections and answers leave the pipelines alone.
LEMMA OtherHandlerStep ==
  ASSUME IInv, NEW r \in Requests,
         \/ StopWaiting(r) \/ CallEnds(r) \/ AcquireConn(r) \/ AcquireFails(r) \/ Read(r)
         \/ ReadFails(r) \/ Reply(r)
  PROVE  IInv'
  <1> DEFINE phase == request'[r]
  <1>1. /\ request[r] \in {"await", "call", "acquire", "query", "reply"} /\ Up
        /\ UNCHANGED <<process, pool, pipeline>>
    BY DEF StopWaiting, CallEnds, AcquireConn, AcquireFails, Read, ReadFails, Reply
  <1>2. phase \in Phases \ {"await", "embed", "cut"} /\ Goes(r, phase)
    BY DEF StopWaiting, CallEnds, AcquireConn, AcquireFails, Read, ReadFails, Reply, Goes, IInv,
       TypeOK, Phases
  <1>3. reads' \in [Requests -> 0..2] /\ ReadsLeft'
    <2>1. CASE Read(r)
      <3>1. reads[r] \in 0..1 /\ reads \in [Requests -> 0..2]
        BY <2>1 DEF Read, IInv, TypeOK, ReadsLeft
      <3>2. \A s \in Requests : reads'[s] = IF s = r THEN reads[r] + 1 ELSE reads[s]
        BY <3>1, <2>1 DEF Read
      <3>3. reads' \in [Requests -> 0..2]
        BY <3>1, <2>1 DEF Read
      <3>4. \A s \in Requests :
              request'[s] = IF s = r THEN (IF reads[r] = 0 THEN "acquire" ELSE "reply")
                            ELSE request[s]
        BY <2>1 DEF Read, Goes, IInv, TypeOK
      <3> QED
        BY <3>1, <3>2, <3>3, <3>4 DEF IInv, ReadsLeft
    <2>2. CASE ~Read(r)
      <3>1. reads' = reads
        BY <2>2 DEF StopWaiting, CallEnds, AcquireConn, AcquireFails, ReadFails, Reply
      <3>2. \A s \in Requests : request'[s] = IF s = r THEN phase ELSE request[s]
        BY <1>2 DEF Goes, IInv, TypeOK
      <3>3. request[r] = "reply" => phase = "answered"
        BY <2>2, <3>2 DEF StopWaiting, CallEnds, AcquireConn, AcquireFails, ReadFails, Reply,
           Goes, IInv, TypeOK
      <3> QED
        BY <3>1, <3>2, <3>3, <1>1 DEF IInv, TypeOK, ReadsLeft
    <2> QED
      BY <2>1, <2>2
  <1>4. TypeOK'
    BY <1>1, <1>2, <1>3 DEF IInv, TypeOK, Goes, process
  <1>5. PipelinesConserved' /\ HoldersEmbed'
    BY <1>1, <1>2, PoolUntouched DEF process
  <1>6. exit # "clean" /\ server \notin Starting
    BY <1>1 DEF IInv, CleanExitCutsNothing, Wired
  <1>7. /\ ServeReturnedOnce' /\ Wired' /\ WaitersHavePool' /\ ResourcesOutliveService'
        /\ CleanExitCutsNothing'
    BY <1>1, <1>2, <1>6, ProcessUntouched
  <1> QED
    BY <1>3, <1>4, <1>5, <1>7 DEF IInv

\* What concerns requests and pool alone holds on when neither they nor the service change.
LEMMA RequestsUntouched ==
  ASSUME IInv, UNCHANGED <<svc, pool, requests>>
  PROVE  PipelinesConserved' /\ HoldersEmbed' /\ ReadsLeft' /\ WaitersHavePool'
  BY DEF IInv, PipelinesConserved, Held, HoldersEmbed, ReadsLeft, WaitersHavePool, requests

\* Signal, drain and closes; the exit cuts what is left.
LEMMA ServeStep == IInv /\ Serve => IInv'
  <1> SUFFICES ASSUME IInv, Serve PROVE IInv'
    OBVIOUS
  <1>1. CASE Signal \/ StopListening
    <2>1. /\ UNCHANGED <<exit, svc, session, dbPool, pool, requests>> /\ signalled' \in BOOLEAN
          /\ server' = server \/ (server = "serving" /\ server' = "draining")
      BY <1>1 DEF Signal, StopListening, IInv, TypeOK
    <2>2. TypeOK'
      BY <2>1 DEF IInv, TypeOK, requests
    <2>3. Wired' /\ ResourcesOutliveService' /\ ServeReturnedOnce' /\ CleanExitCutsNothing'
      BY <2>1 DEF IInv, Wired, ResourcesOutliveService, ServeReturnedOnce,
         CleanExitCutsNothing, Starting, requests
    <2> QED
      BY <2>1, <2>2, <2>3, RequestsUntouched DEF IInv
  <1>2. CASE ListenFails \/ Drained \/ DrainTimesOut
    <2>1. /\ server \in {"serving", "draining"} /\ server' = "closeEmb"
          /\ exit' \in {"clean", "error"}
          /\ UNCHANGED <<signalled, svc, session, dbPool, pool, requests>>
      BY <1>2 DEF ListenFails, Drained, DrainTimesOut, ServeReturns
    <2>2. TypeOK' /\ Wired' /\ ResourcesOutliveService' /\ ServeReturnedOnce'
      BY <2>1 DEF IInv, TypeOK, Wired, ResourcesOutliveService, ServeReturnedOnce, Starting,
         requests
    <2>3. CleanExitCutsNothing'
      <3>1. CASE Drained
        <4>1. \A r \in Requests : request[r] \in {"none", "answered"}
          BY <3>1, <2>1 DEF Drained, Active, IInv, TypeOK, Phases, ServeReturnedOnce
        <4> QED
          BY <4>1, <2>1 DEF CleanExitCutsNothing, requests
      <3>2. CASE ListenFails \/ DrainTimesOut
        BY <3>2 DEF ListenFails, DrainTimesOut, ServeReturns, CleanExitCutsNothing
      <3> QED
        BY <1>2, <3>1, <3>2
    <2> QED
      BY <2>1, <2>2, <2>3, RequestsUntouched DEF IInv
  <1>3. CASE CloseEmbedder \/ ClosePool
    <2>1. /\ server \in {"closeEmb", "closePool"} /\ server' = "closePool"
          /\ session' \in {session, "destroyed"} /\ dbPool' \in {dbPool, "closed"}
          /\ UNCHANGED <<signalled, exit, svc, pool, requests>>
      BY <1>3 DEF CloseEmbedder, ClosePool
    <2>2. exit # "none" /\ session' # "open"
      BY <1>3 DEF CloseEmbedder, ClosePool, IInv, ServeReturnedOnce, Wired
    <2>3. TypeOK' /\ Wired' /\ ResourcesOutliveService'
      BY <2>1, <2>2 DEF IInv, TypeOK, Wired, ResourcesOutliveService, Starting, requests
    <2>4. ServeReturnedOnce' /\ CleanExitCutsNothing'
      BY <2>1, <2>2 DEF IInv, ServeReturnedOnce, CleanExitCutsNothing, requests
    <2> QED
      BY <2>1, <2>3, <2>4, RequestsUntouched DEF IInv
  <1>4. CASE Exit
    <2>1. \A r \in Requests : request'[r] = IF Active(r) THEN "cut" ELSE request[r]
      BY <1>4 DEF Exit
    <2>2. TypeOK'
      BY <1>4 DEF Exit, IInv, TypeOK, Phases
    <2>3. PipelinesConserved' /\ HoldersEmbed'
      BY <1>4, <2>1 DEF Exit, IInv, PipelinesConserved, Held, HoldersEmbed, Active
    <2>4. ServeReturnedOnce'
      BY <1>4, <2>1 DEF Exit, IInv, ServeReturnedOnce
    <2>5. CleanExitCutsNothing'
      BY <1>4, <2>1 DEF Exit, IInv, CleanExitCutsNothing, Active
    <2>6. ReadsLeft' /\ WaitersHavePool'
      BY <1>4, <2>1 DEF Exit, IInv, ReadsLeft, WaitersHavePool
    <2>7. Wired' /\ ResourcesOutliveService'
      BY <1>4 DEF Exit, IInv, Wired, Starting, ServeReturnedOnce, ResourcesOutliveService
    <2> QED
      BY <2>2, <2>3, <2>4, <2>5, <2>6, <2>7 DEF IInv
  <1> QED
    BY <1>1, <1>2, <1>3, <1>4 DEF Serve

\* Stuttering changes nothing.
LEMMA StutterStep == IInv /\ UNCHANGED vars => IInv'
  <1> SUFFICES ASSUME IInv, UNCHANGED vars PROVE IInv'
    OBVIOUS
  <1>1. PipelinesConserved' /\ HoldersEmbed' /\ ReadsLeft' /\ WaitersHavePool'
    BY RequestsUntouched DEF vars, requests
  <1>2. TypeOK' /\ ServeReturnedOnce'
    BY DEF vars, IInv, TypeOK, ServeReturnedOnce
  <1>3. Wired' /\ ResourcesOutliveService' /\ CleanExitCutsNothing'
    BY DEF vars, IInv, Wired, ResourcesOutliveService, CleanExitCutsNothing
  <1> QED
    BY <1>1, <1>2, <1>3 DEF IInv

\* The invariant is inductive (main.go run and serve, embedder.go New and run).
THEOREM Inductive == Spec => []IInv
  <1>1. ASSUME IInv, NEW r \in Requests, Handler(r) PROVE IInv'
    BY <1>1, ArriveStep, TakePipelineStep, EmbeddedStep, OtherHandlerStep DEF Handler
  <1>2. IInv /\ [Next]_vars => IInv'
    BY <1>1, StartStep, ServeStep, StutterStep DEF Next
  <1> QED
    BY InitIInv, <1>2, PTL DEF Spec

\* Every variable keeps to its domain.
THEOREM TypeCorrect == Spec => []TypeOK
  BY Inductive, PTL DEF IInv

\* No pipeline is lost or shared (embedder.go New, run).
THEOREM PoolConserved == Spec => []PipelinesConserved
  BY Inductive, PTL DEF IInv

\* A service has what it was built on while it serves, and nothing is left open (main.go
\* run, embedder.go New).
THEOREM ResourcesKept == Spec => []ResourcesOutliveService
  BY Inductive, PTL DEF IInv

\* A clean shutdown cuts no request (main.go serve).
THEOREM CleanExit == Spec => []CleanExitCutsNothing
  BY Inductive, PTL DEF IInv
=============================================================================
