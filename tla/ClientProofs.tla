----------------------------- MODULE ClientProofs -----------------------------
(***************************************************************************)
(* The clients of the server, whatever they are called with: the search    *)
(* box for every number of changes and any texts, the dispatcher of the    *)
(* load generator, the rows and verdicts of the bench runner, and the      *)
(* index it fills.                                                         *)
(***************************************************************************)
EXTENDS SearchPage, LoadBench, BenchRunner, MeiliIndex, TLAPS, SequenceTheorems, FiniteSetTheorems

\* Every run of the effect answers a change of the input.
RunsAreChanges ==
  /\ effect <= changes + 1
  /\ query # text[effect] => effect <= changes

\* The cleanup has left nothing of an earlier effect, and a later one has not begun.
OthersAreQuiet == \A k \in Effects \ {effect} : timer[k] = "off" /\ ~InFlight(k)

PageInv == TypeOK /\ RunsAreChanges /\ OthersAreQuiet /\ NoStaleOutcome

\* The page starts in the invariant.
LEMMA InitPageInv == Init => PageInv
  BY PageAssumption DEF Init, PageInv, TypeOK, RunsAreChanges, OthersAreQuiet, NoStaleOutcome,
     Effects, InFlight

\* Typing only lets one more run of the effect happen.
LEMMA TypingStep == PageInv /\ setQuery => PageInv'
  BY PageAssumption DEF setQuery, PageInv, TypeOK, RunsAreChanges, OthersAreQuiet,
     NoStaleOutcome, Effects, InFlight

\* The effect's run quiets the last effect and takes over what is shown.
LEMMA EffectStep == PageInv /\ RunEffect => PageInv'
  <1> SUFFICES ASSUME PageInv, RunEffect PROVE PageInv'
    OBVIOUS
  <1>1. effect \in Effects /\ effect + 1 \in Effects /\ effect + 1 # effect
    BY PageAssumption DEF PageInv, TypeOK, RunsAreChanges, RunEffect, Effects
  <1>2. aborted \in [Effects -> {"none", "sent", "reading", "aborted", "settled"}]
    BY <1>1 DEF PageInv, TypeOK, aborted
  <1>3. cleared \in [Effects -> {"off", "armed"}]
    BY <1>1 DEF PageInv, TypeOK, cleared
  <1>4. TypeOK'
    BY <1>1, <1>2, <1>3 DEF RunEffect, PageInv, TypeOK, Effects
  <1>5. RunsAreChanges'
    BY <1>1, PageAssumption DEF RunEffect, PageInv, TypeOK, RunsAreChanges, Effects
  <1>6. ASSUME NEW k \in Effects, k # effect + 1
        PROVE  timer'[k] = "off" /\ request'[k] \notin {"sent", "reading"}
    BY <1>1, <1>2, <1>3, <1>6
    DEF RunEffect, PageInv, TypeOK, OthersAreQuiet, aborted, cleared, InFlight
  <1>7. OthersAreQuiet'
    BY <1>6 DEF RunEffect, OthersAreQuiet, Effects, InFlight
  <1>8. NoStaleOutcome'
    BY DEF RunEffect, NoStaleOutcome
  <1> QED
    BY <1>4, <1>5, <1>7, <1>8 DEF PageInv

\* A timer or a request makes progress for the effect in force only, except that the
\* rejection of an aborted request may come late, and shows nothing.
LEMMA ProgressStep == ASSUME PageInv, NEW k \in Effects, Progress(k) PROVE PageInv'
  <1>1. CASE TimerFires(k)
    BY <1>1 DEF TimerFires, PageInv, TypeOK, RunsAreChanges, OthersAreQuiet, NoStaleOutcome,
       Effects, InFlight
  <1>2. CASE HeadersArrive(k)
    BY <1>2 DEF HeadersArrive, PageInv, TypeOK, RunsAreChanges, OthersAreQuiet,
       NoStaleOutcome, Effects, InFlight
  <1>3. CASE BodyArrives(k)
    BY <1>3 DEF BodyArrives, Shows, PageInv, TypeOK, RunsAreChanges, OthersAreQuiet,
       NoStaleOutcome, Effects, InFlight
  <1>4. CASE RequestFails(k)
    BY <1>4 DEF RequestFails, Shows, PageInv, TypeOK, RunsAreChanges, OthersAreQuiet,
       NoStaleOutcome, Effects, InFlight
  <1>5. CASE AbortRejects(k)
    BY <1>5 DEF AbortRejects, PageInv, TypeOK, RunsAreChanges, OthersAreQuiet,
       NoStaleOutcome, Effects, InFlight
  <1> QED
    BY <1>1, <1>2, <1>3, <1>4, <1>5 DEF Progress

\* Stuttering changes nothing.
LEMMA StutterStep == PageInv /\ UNCHANGED vars => PageInv'
  BY DEF vars, PageInv, TypeOK, RunsAreChanges, OthersAreQuiet, NoStaleOutcome, Effects, InFlight

\* The invariant is inductive (SearchPage.tsx, all of the effect).
THEOREM PageInductive == Spec => []PageInv
  <1>1. PageInv /\ [Next]_vars => PageInv'
    BY TypingStep, EffectStep, ProgressStep, StutterStep DEF Next
  <1> QED
    BY InitPageInv, <1>1, PTL DEF Spec

\* Every variable keeps to its domain.
THEOREM PageTypeCorrect == Spec => []TypeOK
  BY PageInductive, PTL DEF PageInv

\* No outcome of an earlier query is ever on the screen (SearchPage.tsx cleanup).
THEOREM NeverStale == Spec => []NoStaleOutcome
  BY PageInductive, PTL DEF PageInv

\* At most one search waits for its timer or its answer (SearchPage.tsx cleanup).
THEOREM OneSearch == Spec => []OneSearchAtATime
  <1>1. ASSUME PageInv PROVE OneSearchAtATime
    <2> DEFINE Live == {k \in Effects : timer[k] = "armed" \/ InFlight(k)}
    <2>1. Live \subseteq {effect}
      BY <1>1 DEF PageInv, OthersAreQuiet
    <2>2. IsFiniteSet({effect}) /\ Cardinality({effect}) = 1
      BY FS_Singleton
    <2>3. Cardinality(Live) <= 1
      BY <2>1, <2>2, FS_Subset
    <2> QED
      BY <2>3 DEF OneSearchAtATime
  <1> QED
    BY PageInductive, <1>1, PTL
-----------------------------------------------------------------------------
\* The requests that were admitted, and those whose sample was sent.
Admitted == {k \in Requests : worker[k] # "none"}
Sampled  == {k \in Requests : worker[k] \in {"sent", "gone"}}

\* Only requests of the schedule behind the dispatcher were admitted.
InSchedule ==
  /\ \A k \in Admitted : k < i
  /\ pc # "dispatch" => i = n + 1

ClosedAtTheEnd == closed <=> pc \in {"collect", "returned"}

NobodyPanicked == \A k \in Requests : worker[k] # "panicked"

\* Each sample is in the channel until they are collected.
SamplesKept == IF pc = "returned" THEN samples = Sampled ELSE out = Sampled

CountsAddUp == Cardinality(Admitted) + dropped = i - 1

WindowInv ==
  /\ WindowTypes /\ InSchedule /\ ClosedAtTheEnd /\ NoSendOnClosed /\ NobodyPanicked
  /\ SamplesKept /\ CountsAddUp

\* Sets of requests are finite.
LEMMA RequestsFinite == IsFiniteSet(Requests) /\ IsFiniteSet(Admitted)
  <1>1. IsFiniteSet(Requests)
    BY FS_Interval, BenchAssumption DEF Requests
  <1> QED
    BY <1>1, FS_Subset DEF Admitted

\* Nothing was admitted at the start.
LEMMA InitWindowInv == WindowInit => WindowInv
  <1> SUFFICES ASSUME WindowInit PROVE WindowInv
    OBVIOUS
  <1>1. Admitted = {} /\ Sampled = {}
    BY DEF WindowInit, Admitted, Sampled
  <1>2. Cardinality(Admitted) = 0
    BY <1>1, FS_EmptySet
  <1>3. WindowTypes
    <2>1. n \in 0..MaxRequests /\ i \in 1..n+1 /\ dropped \in 0..MaxRequests
      BY BenchAssumption DEF WindowInit
    <2>2. worker \in [Requests -> {"none", "running", "sent", "gone", "panicked"}]
      BY DEF WindowInit
    <2>3. /\ pc \in {"dispatch", "wait", "collect", "returned"} /\ closed \in BOOLEAN
          /\ out \in SUBSET Requests /\ samples \in SUBSET Requests
      BY DEF WindowInit
    <2> QED
      BY <2>1, <2>2, <2>3 DEF WindowTypes
  <1>4. InSchedule /\ ClosedAtTheEnd /\ NoSendOnClosed /\ NobodyPanicked
    BY <1>1 DEF WindowInit, InSchedule, ClosedAtTheEnd, NoSendOnClosed, NobodyPanicked
  <1>5. SamplesKept /\ CountsAddUp
    BY <1>1, <1>2 DEF WindowInit, SamplesKept, CountsAddUp
  <1> QED
    BY <1>3, <1>4, <1>5 DEF WindowInv

\* One more request is admitted, which was not before.
LEMMA AdmitStep == WindowInv /\ Admit => WindowInv'
  <1> SUFFICES ASSUME WindowInv, Admit PROVE WindowInv'
    OBVIOUS
  <1>1. i \in Requests /\ i \in Nat /\ n \in Nat /\ dropped \in Nat
    BY BenchAssumption DEF WindowInv, WindowTypes, Admit, Requests
  <1>2. i \notin Admitted
    BY <1>1 DEF WindowInv, InSchedule
  <1>3. Admitted' = Admitted \cup {i}
    BY <1>1 DEF Admit, Admitted, WindowInv, WindowTypes
  <1>4. Sampled' = Sampled
    BY <1>1, <1>2 DEF Admit, Sampled, Admitted, WindowInv, WindowTypes
  <1>5. Cardinality(Admitted') = Cardinality(Admitted) + 1
    BY <1>2, <1>3, RequestsFinite, FS_AddElement
  <1>6. Cardinality(Admitted) \in Nat
    BY RequestsFinite, FS_CardinalityType
  <1>7. WindowTypes'
    BY <1>1 DEF Admit, WindowInv, WindowTypes
  <1>8. InSchedule'
    BY <1>1, <1>3 DEF Admit, WindowInv, InSchedule, Admitted, Requests
  <1>9. ClosedAtTheEnd' /\ NoSendOnClosed' /\ NobodyPanicked'
    BY DEF Admit, WindowInv, WindowTypes, ClosedAtTheEnd, NoSendOnClosed, NobodyPanicked
  <1>10. SamplesKept'
    BY <1>4 DEF Admit, WindowInv, SamplesKept
  <1>11. CountsAddUp'
    BY <1>1, <1>5, <1>6 DEF Admit, WindowInv, CountsAddUp
  <1> QED
    BY <1>7, <1>8, <1>9, <1>10, <1>11 DEF WindowInv

\* The dispatcher's other steps leave the goroutines alone.
LEMMA DispatcherStep == WindowInv /\ (Drop \/ AllScheduled \/ Close \/ Collect) => WindowInv'
  <1> SUFFICES ASSUME WindowInv, Drop \/ AllScheduled \/ Close \/ Collect PROVE WindowInv'
    OBVIOUS
  <1>1. worker' = worker /\ Admitted' = Admitted /\ Sampled' = Sampled
    BY DEF Drop, AllScheduled, Close, Collect, Admitted, Sampled
  <1>2. i \in Nat /\ n \in Nat /\ dropped \in Nat /\ MaxRequests \in Nat
    BY BenchAssumption DEF WindowInv, WindowTypes
  <1>3. Cardinality(Admitted) \in Nat
    BY RequestsFinite, FS_CardinalityType
  <1>4. WindowTypes'
    <2>1. CASE Drop
      <3>1. dropped + 1 <= MaxRequests /\ i + 1 \in 1..n+1
        BY <2>1, <1>2, <1>3 DEF Drop, WindowInv, WindowTypes, CountsAddUp
      <3> QED
        BY <2>1, <3>1, <1>2 DEF Drop, WindowInv, WindowTypes
    <2>2. CASE AllScheduled \/ Close \/ Collect
      BY <2>2 DEF AllScheduled, Close, Collect, WindowInv, WindowTypes
    <2> QED
      BY <2>1, <2>2
  <1>5. InSchedule'
    BY <1>1, <1>2 DEF Drop, AllScheduled, Close, Collect, WindowInv, WindowTypes, InSchedule,
       Admitted, Requests
  <1>6. ClosedAtTheEnd'
    BY DEF Drop, AllScheduled, Close, Collect, WindowInv, ClosedAtTheEnd
  <1>7. NoSendOnClosed'
    <2>1. CASE Close
      BY <2>1, <1>1 DEF Close, sem, WindowInv, WindowTypes, NoSendOnClosed, NobodyPanicked
    <2>2. CASE Drop \/ AllScheduled \/ Collect
      BY <2>2, <1>1 DEF Drop, AllScheduled, Collect, WindowInv, NoSendOnClosed
    <2> QED
      BY <2>1, <2>2
  <1>8. SamplesKept'
    BY <1>1 DEF Drop, AllScheduled, Close, Collect, WindowInv, SamplesKept
  <1>9. CountsAddUp'
    BY <1>1, <1>2, <1>3 DEF Drop, AllScheduled, Close, Collect, WindowInv, CountsAddUp
  <1>10. NobodyPanicked'
    BY <1>1 DEF WindowInv, NobodyPanicked
  <1> QED
    BY <1>4, <1>5, <1>6, <1>7, <1>8, <1>9, <1>10 DEF WindowInv

\* A request sends its sample before it leaves the semaphore, and to an open channel.
LEMMA WorkerStep ==
  ASSUME WindowInv, NEW k \in Requests, doRequest(k) \/ Release(k) PROVE WindowInv'
  <1>1. ~closed
    BY DEF doRequest, Release, WindowInv, NoSendOnClosed
  <1>2. Admitted' = Admitted
    BY <1>1 DEF doRequest, Release, Admitted, WindowInv, WindowTypes
  <1>3. WindowTypes'
    BY <1>1 DEF doRequest, Release, WindowInv, WindowTypes, Requests
  <1>4. InSchedule'
    BY <1>2 DEF doRequest, Release, WindowInv, InSchedule
  <1>5. ClosedAtTheEnd' /\ NoSendOnClosed' /\ NobodyPanicked'
    BY <1>1 DEF doRequest, Release, WindowInv, WindowTypes, ClosedAtTheEnd, NoSendOnClosed,
       NobodyPanicked
  <1>6. SamplesKept'
    <2>1. CASE doRequest(k)
      <3>1. Sampled' = Sampled \cup {k}
        BY <1>1, <2>1 DEF doRequest, Sampled, WindowInv, WindowTypes
      <3> QED
        BY <1>1, <2>1, <3>1 DEF doRequest, SamplesKept, WindowInv, ClosedAtTheEnd
    <2>2. CASE Release(k)
      <3>1. Sampled' = Sampled
        BY <2>2 DEF Release, Sampled, WindowInv, WindowTypes
      <3> QED
        BY <1>1, <2>2, <3>1 DEF Release, SamplesKept, WindowInv, ClosedAtTheEnd
    <2> QED
      BY <2>1, <2>2
  <1>7. CountsAddUp'
    BY <1>2 DEF doRequest, Release, WindowInv, CountsAddUp
  <1> QED
    BY <1>3, <1>4, <1>5, <1>6, <1>7 DEF WindowInv

\* The invariant holds in every reachable state (dispatch).
LEMMA WindowInvariance == WindowSpec => []WindowInv
  <1>1. ASSUME WindowInv, [WindowStep]_windowVars PROVE WindowInv'
    <2>1. CASE WindowStep
      BY <1>1, <2>1, AdmitStep, DispatcherStep, WorkerStep DEF WindowStep, Dispatcher
    <2>2. CASE UNCHANGED windowVars
      BY <1>1, <2>2
      DEF windowVars, WindowInv, WindowTypes, InSchedule, ClosedAtTheEnd, NoSendOnClosed, SamplesKept,
          NobodyPanicked, CountsAddUp, Admitted, Sampled
    <2> QED
      BY <1>1, <2>1, <2>2
  <1> QED
    BY <1>1, InitWindowInv, PTL DEF WindowSpec

\* Every variable of dispatch keeps to its domain, whatever the window and the cap.
THEOREM WindowTypeCorrect == WindowSpec => []WindowTypes
  <1>1. WindowInv => WindowTypes
    BY DEF WindowInv
  <1> QED
    BY <1>1, WindowInvariance, PTL

\* No request sends its sample to the closed channel: the deferred receive comes after
\* the send, so an empty semaphore means that all samples are there (dispatch).
THEOREM NoSendOnClosedChannel == WindowSpec => []NoSendOnClosed
  <1>1. WindowInv => NoSendOnClosed
    BY DEF WindowInv
  <1> QED
    BY <1>1, WindowInvariance, PTL

\* Samples and dropped requests add up to the schedule when dispatch returns.
THEOREM CountedOnce == WindowSpec => []EachCountedOnce
  <1>1. ASSUME WindowInv PROVE EachCountedOnce
    <2> SUFFICES ASSUME pc = "returned" PROVE Cardinality(samples) + dropped = n
      BY DEF EachCountedOnce
    <2>1. Admitted = Sampled
      BY <1>1 DEF WindowInv, ClosedAtTheEnd, NoSendOnClosed, Admitted, Sampled
    <2>2. n \in Nat /\ i = n + 1
      BY <1>1, BenchAssumption DEF WindowInv, WindowTypes, InSchedule
    <2> QED
      BY <1>1, <2>1, <2>2 DEF WindowInv, SamplesKept, CountsAddUp
  <1> QED
    BY <1>1, WindowInvariance, PTL
-----------------------------------------------------------------------------
Row == Answer \cup {Failed}
ArmRecord == [name : {"literal", "bayesian", "decay", "off", "on"},
              config : {"cfg", "literal", "decay"}, embedder : BOOLEAN]
ModeBench == bench.opts \in DOMAIN Modes \cup {"all"}

BenchTypes ==
  /\ bench \in Benches /\ slow \in Nat
  /\ arms \in Seq(ArmRecord)
  /\ rows \in Seq(Seq(Row)) /\ Len(rows) = Len(arms)
  /\ formulas \in [DOMAIN formulas -> Formulas]
  /\ \A a \in DOMAIN arms : arms[a].config \in DOMAIN formulas

\* The arms of each kind of bench, and what their configurations hold while one is measured.
ArmsWired ==
  /\ ModeBench =>
       /\ "cfg" \in DOMAIN formulas
       /\ arms # <<>> => formulas["cfg"] = Modes[arms[Len(arms)].name]
       /\ \A a \in DOMAIN arms : arms[a].config = "cfg" /\ ~arms[a].embedder
  /\ bench.opts = "quality" =>
       /\ "cfg" \in DOMAIN formulas /\ formulas["cfg"] = bench.config
       /\ \A c \in DOMAIN formulas \ {"cfg"} : formulas[c] = [bench.config EXCEPT !.distance = c]
       /\ \A a \in DOMAIN arms : arms[a].config = arms[a].name /\ arms[a].name # "cfg"
  /\ bench.opts = "semantic" =>
       /\ "cfg" \in DOMAIN formulas /\ formulas["cfg"] = bench.config
       /\ \A a \in DOMAIN arms : arms[a].config = "cfg"

\* Only the last arm, or the pair of a semantic bench, has tests left.
RowsInStep ==
  /\ \A a \in DOMAIN rows : Len(rows[a]) <= Len(Tests)
  /\ IF bench.opts = "semantic"
     THEN Len(rows) \in {0, 2} /\ (Len(rows) = 2 => Len(rows[1]) = Len(rows[2]))
     ELSE \A a \in DOMAIN rows : a < Len(rows) => Len(rows[a]) = Len(Tests)

\* A quality bench with a copy of its configuration has both.
CopiesMade ==
  bench.opts = "quality" /\ DOMAIN formulas # {"cfg"} => {"literal", "decay"} \subseteq DOMAIN formulas

BenchInv == BenchTypes /\ ArmsWired /\ CopiesMade /\ RowsInStep /\ RowsMeasureTheirArm

\* What applyMode sets is one of the formulas the configuration allows.
LEMMA ModesAreFormulas ==
  /\ DOMAIN Modes = {"literal", "bayesian", "decay"}
  /\ \A m \in DOMAIN Modes : Modes[m] \in Formulas
  BY DEF Modes, Formulas

\* Facts about the sequences of a bench.
LEMMA BenchFacts ==
  ASSUME BenchInv
  PROVE  /\ Len(rows) \in Nat /\ DOMAIN rows = 1..Len(rows) /\ DOMAIN arms = DOMAIN rows
         /\ Len(Tests) \in Nat /\ DOMAIN Tests = 1..Len(Tests)
         /\ \A a \in DOMAIN rows : /\ rows[a] \in Seq(Row) /\ Len(rows[a]) \in Nat
                                   /\ DOMAIN rows[a] = 1..Len(rows[a])
         /\ bench \in Benches /\ bench.config \in Formulas
         /\ ModeBench \/ bench.opts \in {"quality", "semantic"}
  <1>1. Len(rows) \in Nat /\ DOMAIN rows = 1..Len(rows) /\ DOMAIN arms = DOMAIN rows
    BY LenProperties DEF BenchInv, BenchTypes
  <1>2. Tests \in Seq([kind : STRING, expected : SUBSET STRING])
    BY RunnerAssumption DEF BenchInv, BenchTypes, Tests
  <1>3. Len(Tests) \in Nat /\ DOMAIN Tests = 1..Len(Tests)
    BY <1>2, LenProperties
  <1>4. \A a \in DOMAIN rows : rows[a] \in Seq(Row)
    BY <1>1, ElementOfSeq DEF BenchInv, BenchTypes
  <1>5. \A a \in DOMAIN rows : Len(rows[a]) \in Nat /\ DOMAIN rows[a] = 1..Len(rows[a])
    BY <1>4, LenProperties
  <1>6. bench \in Benches /\ bench.config \in Formulas /\ (ModeBench \/ bench.opts \in {"quality", "semantic"})
    BY RunnerAssumption DEF BenchInv, BenchTypes, ModeBench
  <1> QED
    BY <1>1, <1>3, <1>4, <1>5, <1>6

\* Whoever has tests left measures what the report says of it.
LEMMA InForceNamed ==
  ASSUME BenchInv, NEW a \in DOMAIN arms, bench.opts = "semantic" \/ a = Len(arms)
  PROVE  InForce(arms[a]) = Named(arms[a]) /\ InForce(arms[a]) \in Setting
  <1>1. /\ arms[a] \in ArmRecord /\ Len(arms) \in Nat
        /\ arms[a].config \in DOMAIN formulas /\ formulas[arms[a].config] \in Formulas
    BY ElementOfSeq, LenProperties DEF BenchInv, BenchTypes
  <1>2. InForce(arms[a]) \in Setting
    BY <1>1 DEF InForce, Setting, Formulas, ArmRecord
  <1>3. CASE ModeBench
    <2>1. bench.opts \notin {"quality", "semantic"}
      BY <1>3, ModesAreFormulas DEF ModeBench
    <2>2. arms # <<>> /\ a = Len(arms)
      BY <2>1, LenProperties DEF BenchInv, BenchTypes
    <2>3. formulas[arms[a].config] = Modes[arms[a].name] /\ arms[a].embedder = FALSE
      BY <1>1, <1>3, <2>2 DEF BenchInv, ArmsWired
    <2> QED
      BY <1>2, <2>1, <2>3 DEF InForce, Named
  <1>4. CASE bench.opts = "quality"
    <2>1. formulas[arms[a].config] = [bench.config EXCEPT !.distance = arms[a].name]
      BY <1>1, <1>4 DEF BenchInv, ArmsWired
    <2>2. bench.config \in Formulas
      BY BenchFacts
    <2>3. /\ formulas[arms[a].config].rating = bench.config.rating
          /\ formulas[arms[a].config].distance = arms[a].name
      BY <2>1, <2>2 DEF Formulas
    <2> QED
      BY <1>2, <1>4, <2>3 DEF InForce, Named
  <1>5. CASE bench.opts = "semantic"
    BY <1>1, <1>2, <1>5 DEF InForce, Named, BenchInv, ArmsWired
  <1> QED
    BY <1>3, <1>4, <1>5, BenchFacts

\* What a search of test k returns.
LEMMA SearchedRows ==
  ASSUME BenchInv, NEW a \in DOMAIN arms, bench.opts = "semantic" \/ a = Len(arms),
         NEW k \in DOMAIN Tests
  PROVE  /\ Searched(arms[a], k) = {bench.answers[<<k, Named(arms[a])>>], Failed}
         /\ Searched(arms[a], k) \subseteq Row
  BY InForceNamed, RunnerAssumption DEF Searched, Row, BenchInv, BenchTypes, Tests

\* No arm before the first.
LEMMA InitBenchInv == RunInit => BenchInv
  <1> SUFFICES ASSUME RunInit PROVE BenchInv
    OBVIOUS
  <1>1. bench.config \in Formulas /\ formulas = [c \in {"cfg"} |-> bench.config]
    BY RunnerAssumption DEF RunInit
  <1>2. arms = <<>> /\ rows = <<>> /\ bench \in Benches /\ slow = 0
    BY DEF RunInit
  <1>3. BenchTypes
    BY <1>1, <1>2, EmptySeq DEF BenchTypes
  <1>4. ArmsWired /\ CopiesMade
    BY <1>1, <1>2 DEF ArmsWired, CopiesMade
  <1>5. RowsInStep /\ RowsMeasureTheirArm
    BY <1>2, EmptySeq DEF RowsInStep, RowsMeasureTheirArm
  <1> QED
    BY <1>3, <1>4, <1>5 DEF BenchInv

\* An arm without rows joins those whose tests are done.
LEMMA ArmJoins ==
  ASSUME BenchInv, bench.opts # "semantic", ArmsDone, bench' = bench, slow' = slow,
         NEW arm \in ArmRecord,
         arms' = Append(arms, arm), rows' = Append(rows, <<>>)
  PROVE  /\ RowsInStep' /\ RowsMeasureTheirArm'
         /\ arms' \in Seq(ArmRecord)
         /\ rows' \in Seq(Seq(Row)) /\ Len(rows') = Len(arms') /\ Len(arms') = Len(arms) + 1
         /\ Len(arms) \in Nat /\ DOMAIN arms = 1..Len(arms) /\ DOMAIN arms' = 1..Len(arms)+1
         /\ \A a \in DOMAIN arms : arms'[a] = arms[a]
         /\ arms'[Len(arms')] = arm
  <1> USE BenchFacts
  <1>1. <<>> \in Seq(Row) /\ Len(<<>>) = 0 /\ DOMAIN <<>> = {}
    BY EmptySeq
  <1>2. /\ rows' \in Seq(Seq(Row)) /\ Len(rows') = Len(rows) + 1 /\ DOMAIN rows' = 1..Len(rows)+1
        /\ \A a \in DOMAIN rows : rows'[a] = rows[a]
        /\ rows'[Len(rows)+1] = <<>>
    BY <1>1, AppendProperties, LenProperties DEF BenchInv, BenchTypes
  <1>3. /\ arms' \in Seq(ArmRecord)
        /\ Len(arms') = Len(arms) + 1 /\ DOMAIN arms' = 1..Len(arms)+1
        /\ \A a \in DOMAIN arms : arms'[a] = arms[a]
        /\ arms'[Len(arms)+1] = arm
    BY AppendProperties, LenProperties DEF BenchInv, BenchTypes
  <1>4. Len(arms) = Len(rows) /\ Tests' = Tests
    BY DEF BenchInv, BenchTypes, Tests
  <1>5. RowsInStep'
    <2>1. \A a \in DOMAIN rows' : Len(rows'[a]) <= Len(Tests)
      BY <1>1, <1>2 DEF BenchInv, RowsInStep
    <2>2. \A a \in DOMAIN rows' : a < Len(rows') => Len(rows'[a]) = Len(Tests)
      BY <1>2 DEF ArmsDone
    <2> QED
      BY <1>4, <2>1, <2>2 DEF RowsInStep
  <1>6. RowsMeasureTheirArm'
    <2>1. ASSUME NEW a \in DOMAIN arms', NEW k \in DOMAIN rows'[a]
          PROVE  /\ a \in DOMAIN arms /\ k \in DOMAIN rows[a] /\ rows'[a] = rows[a]
                 /\ arms'[a] = arms[a]
      BY <1>1, <1>2, <1>3, <1>4, <2>1
    <2>2. ASSUME NEW a \in DOMAIN arms PROVE Named(arms[a])' = Named(arms[a])
      BY <1>3, <2>2 DEF Named
    <2> QED
      BY <2>1, <2>2 DEF BenchInv, RowsMeasureTheirArm
  <1> QED
    BY <1>2, <1>3, <1>4, <1>5, <1>6

\* The next of the modes is in the configuration when its arm is added (applyMode).
LEMMA NextModeStep == BenchInv /\ NextMode => BenchInv'
  <1> SUFFICES ASSUME BenchInv, NextMode PROVE BenchInv'
    OBVIOUS
  <1>1. ModeBench /\ bench.opts \notin {"quality", "semantic"} /\ bench' = bench /\ slow' = slow
    BY ModesAreFormulas DEF NextMode, ModeBench
  <1> DEFINE name == Sequel[Len(arms) + 1]
             arm  == Arm(name, "cfg", FALSE)
  <1>2. name \in DOMAIN Modes /\ name \in {"literal", "bayesian", "decay"}
    <2>1. Len(arms) \in Nat /\ Len(arms) < Len(Sequel)
      BY BenchFacts DEF NextMode, BenchInv, BenchTypes
    <2>2. CASE bench.opts = "all"
      <3>1. Sequel = <<"literal", "bayesian", "decay">> /\ Len(Sequel) = 3
        BY <2>2 DEF Sequel
      <3>2. Len(arms) + 1 \in 1..3
        BY <2>1, <3>1
      <3> QED
        BY <3>1, <3>2, ModesAreFormulas
    <2>3. CASE bench.opts # "all"
      <3>1. Sequel = <<bench.opts>> /\ Len(Sequel) = 1 /\ bench.opts \in DOMAIN Modes
        BY <2>3, <1>1 DEF Sequel, ModeBench
      <3>2. Len(arms) + 1 = 1
        BY <2>1, <3>1
      <3> QED
        BY <3>1, <3>2, ModesAreFormulas
    <2> QED
      BY <2>2, <2>3
  <1> HIDE DEF name
  <1>3. arm \in ArmRecord
    BY <1>2 DEF Arm, ArmRecord
  <1>4. /\ ArmsDone /\ arms' = Append(arms, arm) /\ rows' = Append(rows, <<>>)
        /\ formulas' = [formulas EXCEPT !["cfg"] = Modes[name]]
    BY DEF NextMode, name
  <1>5. /\ arm.name = name /\ arm.config = "cfg" /\ arm.embedder = FALSE
    BY DEF Arm, ArmRecord
  <1> HIDE DEF arm
  <1>6. /\ RowsInStep' /\ RowsMeasureTheirArm'
        /\ arms' \in Seq(ArmRecord)
        /\ rows' \in Seq(Seq(Row)) /\ Len(rows') = Len(arms') /\ Len(arms') = Len(arms) + 1
        /\ Len(arms) \in Nat /\ DOMAIN arms = 1..Len(arms) /\ DOMAIN arms' = 1..Len(arms)+1
        /\ \A a \in DOMAIN arms : arms'[a] = arms[a]
        /\ arms'[Len(arms')] = arm
    BY <1>1, <1>3, <1>4, ArmJoins
  <1>7. "cfg" \in DOMAIN formulas /\ \A a \in DOMAIN arms : arms[a].config = "cfg" /\ ~arms[a].embedder
    BY <1>1 DEF BenchInv, ArmsWired
  <1>8. DOMAIN formulas' = DOMAIN formulas /\ formulas'["cfg"] = Modes[name]
        /\ \A c \in DOMAIN formulas : formulas'[c] \in Formulas
    BY <1>2, <1>4, <1>7, ModesAreFormulas DEF BenchInv, BenchTypes
  <1>9. formulas' \in [DOMAIN formulas' -> Formulas]
    BY <1>4, <1>8
  <1>10. \A a \in DOMAIN arms' : arms'[a].config = "cfg" /\ ~arms'[a].embedder
    BY <1>5, <1>6, <1>7
  <1>11. BenchTypes'
    BY <1>1, <1>6, <1>7, <1>8, <1>9, <1>10 DEF BenchInv, BenchTypes
  <1>12. ArmsWired' /\ CopiesMade'
    BY <1>1, <1>5, <1>6, <1>7, <1>8, <1>10 DEF ArmsWired, CopiesMade, ModeBench
  <1> QED
    BY <1>6, <1>11, <1>12 DEF BenchInv

\* An arm of the quality bench has a copy of the configuration to itself (runQuality).
LEMMA NextCopyStep == BenchInv /\ NextCopy => BenchInv'
  <1> SUFFICES ASSUME BenchInv, NextCopy PROVE BenchInv'
    OBVIOUS
  <1>1. /\ bench.opts = "quality" /\ ~ModeBench /\ bench' = bench /\ slow' = slow
        /\ formulas' = formulas /\ DOMAIN formulas # {"cfg"}
    BY ModesAreFormulas DEF NextCopy, ModeBench
  <1> DEFINE name == <<"literal", "decay">>[Len(arms) + 1]
             arm  == Arm(name, name, FALSE)
  <1>2. name \in {"literal", "decay"}
    BY BenchFacts DEF NextCopy, BenchInv, BenchTypes
  <1> HIDE DEF name
  <1>3. /\ arm \in ArmRecord
        /\ arm.name = name /\ arm.config = name
    BY <1>2 DEF Arm, ArmRecord
  <1>4. ArmsDone /\ arms' = Append(arms, arm) /\ rows' = Append(rows, <<>>)
    BY DEF NextCopy, name
  <1> HIDE DEF arm
  <1>5. /\ RowsInStep' /\ RowsMeasureTheirArm'
        /\ arms' \in Seq(ArmRecord)
        /\ rows' \in Seq(Seq(Row)) /\ Len(rows') = Len(arms') /\ Len(arms') = Len(arms) + 1
        /\ Len(arms) \in Nat /\ DOMAIN arms = 1..Len(arms) /\ DOMAIN arms' = 1..Len(arms)+1
        /\ \A a \in DOMAIN arms : arms'[a] = arms[a]
        /\ arms'[Len(arms')] = arm
    BY <1>1, <1>3, <1>4, ArmJoins
  <1>6. {"literal", "decay"} \subseteq DOMAIN formulas
    BY <1>1 DEF BenchInv, CopiesMade
  <1>7. \A a \in DOMAIN arms' : /\ arms'[a].config = arms'[a].name /\ arms'[a].name # "cfg"
                                /\ arms'[a].config \in DOMAIN formulas
    <2>1. \A a \in DOMAIN arms : /\ arms[a].config = arms[a].name /\ arms[a].name # "cfg"
                                  /\ arms[a].config \in DOMAIN formulas
      BY <1>1 DEF BenchInv, BenchTypes, ArmsWired
    <2>2. arm.config = arm.name /\ arm.name # "cfg" /\ arm.config \in DOMAIN formulas
      BY <1>2, <1>3, <1>6
    <2> QED
      BY <1>5, <2>1, <2>2
  <1>8. BenchTypes'
    BY <1>1, <1>5, <1>7 DEF BenchInv, BenchTypes
  <1>9. ArmsWired'
    BY <1>1, <1>7 DEF BenchInv, ArmsWired, ModeBench
  <1> QED
    BY <1>1, <1>5, <1>8, <1>9 DEF BenchInv, CopiesMade

\* The copies are made before there is an arm (runQuality).
LEMMA CopyStep == BenchInv /\ CopyConfigs => BenchInv'
  <1> SUFFICES ASSUME BenchInv, CopyConfigs PROVE BenchInv'
    OBVIOUS
  <1>1. /\ bench.opts = "quality" /\ ~ModeBench
        /\ UNCHANGED <<bench, arms, rows, slow>> /\ DOMAIN formulas = {"cfg"}
    BY ModesAreFormulas DEF CopyConfigs, ModeBench
  <1>2. arms = <<>> /\ rows = <<>>
    <2>1. DOMAIN arms = {}
      BY <1>1 DEF BenchInv, BenchTypes, ArmsWired
    <2>2. Len(arms) = 0 /\ Len(rows) = 0
      BY <2>1, BenchFacts DEF BenchInv, BenchTypes
    <2> QED
      BY <2>2, EmptySeq DEF BenchInv, BenchTypes
  <1>3. formulas["cfg"] = bench.config /\ bench.config \in Formulas
    BY <1>1, BenchFacts DEF BenchInv, ArmsWired
  <1>4. /\ DOMAIN formulas' = {"cfg", "literal", "decay"}
        /\ formulas' = [c \in {"cfg", "literal", "decay"} |->
              IF c = "cfg" THEN formulas[c] ELSE [formulas["cfg"] EXCEPT !.distance = c]]
    BY DEF CopyConfigs
  <1>5. /\ formulas'["cfg"] = bench.config
        /\ \A c \in {"literal", "decay"} : formulas'[c] = [bench.config EXCEPT !.distance = c]
    BY <1>3, <1>4
  <1>6. \A c \in {"literal", "decay"} : [bench.config EXCEPT !.distance = c] \in Formulas
    BY <1>3 DEF Formulas
  <1>7. formulas' \in [DOMAIN formulas' -> Formulas]
    BY <1>3, <1>4, <1>5, <1>6
  <1>8. BenchTypes'
    BY <1>1, <1>2, <1>7 DEF BenchInv, BenchTypes
  <1>9. ArmsWired' /\ CopiesMade'
    BY <1>1, <1>2, <1>4, <1>5 DEF ArmsWired, CopiesMade, ModeBench
  <1>10. RowsInStep' /\ RowsMeasureTheirArm'
    BY <1>1, <1>2, EmptySeq DEF RowsInStep, RowsMeasureTheirArm, BenchInv, Tests
  <1> QED
    BY <1>8, <1>9, <1>10 DEF BenchInv

\* A pair is a sequence over the set it is from.
LEMMA PairIsSeq ==
  ASSUME NEW S, NEW x \in S, NEW y \in S
  PROVE  <<x, y>> \in Seq(S)
  OBVIOUS

\* So is a function over 1..2.
LEMMA TwoIsSeq ==
  ASSUME NEW S, NEW f \in [1..2 -> S]
  PROVE  f \in Seq(S) /\ Len(f) = 2 /\ DOMAIN f = 1..2
  <1>1. f \in Seq(S) /\ DOMAIN f = 1..2
    BY SeqDef
  <1>2. Len(f) \in Nat /\ 1..Len(f) = 1..2
    BY <1>1, LenProperties
  <1> QED
    BY <1>1, <1>2

\* Both arms of the semantic bench point to the configuration as loaded (runSemantic).
LEMMA SemanticArmsStep == BenchInv /\ SemanticArms => BenchInv'
  <1> SUFFICES ASSUME BenchInv, SemanticArms PROVE BenchInv'
    OBVIOUS
  <1>1. /\ bench.opts = "semantic" /\ ~ModeBench /\ UNCHANGED <<bench, formulas, slow>>
        /\ arms' = <<Arm("off", "cfg", FALSE), Arm("on", "cfg", TRUE)>>
        /\ rows' = <<<<>>, <<>>>>
    BY ModesAreFormulas DEF SemanticArms, ModeBench
  <1>2. /\ Arm("off", "cfg", FALSE) \in ArmRecord
        /\ Arm("on", "cfg", TRUE) \in ArmRecord
    BY DEF Arm, ArmRecord
  <1>3. arms' \in Seq(ArmRecord)
    BY <1>1, <1>2, PairIsSeq
  <1>4. rows' \in Seq(Seq(Row)) /\ DOMAIN rows' = 1..2 /\ Len(rows') = 2
    <2>1. <<>> \in Seq(Row)
      BY EmptySeq
    <2> QED
      BY <1>1, <2>1
  <1>5. \A a \in 1..2 : rows'[a] = <<>> /\ Len(rows'[a]) = 0 /\ DOMAIN rows'[a] = {}
    BY <1>1
  <1>6. DOMAIN arms' = 1..2 /\ Len(arms') = 2 /\ \A a \in 1..2 : arms'[a].config = "cfg"
    BY <1>1 DEF Arm, ArmRecord
  <1>7. formulas["cfg"] = bench.config /\ "cfg" \in DOMAIN formulas
    BY <1>1 DEF BenchInv, ArmsWired
  <1>8. BenchTypes'
    BY <1>1, <1>3, <1>4, <1>6, <1>7 DEF BenchInv, BenchTypes
  <1>9. ArmsWired' /\ CopiesMade'
    BY <1>1, <1>6, <1>7 DEF ArmsWired, CopiesMade, ModeBench
  <1>10. RowsInStep'
    BY <1>1, <1>4, <1>5, BenchFacts DEF RowsInStep, Tests
  <1>11. RowsMeasureTheirArm'
    BY <1>5, <1>6 DEF RowsMeasureTheirArm
  <1> QED
    BY <1>8, <1>9, <1>10, <1>11 DEF BenchInv

\* One row more for some of the arms.
LEMMA RowsGrow ==
  ASSUME BenchInv, UNCHANGED <<bench, formulas, arms>>, slow' \in Nat,
         rows' \in Seq(Seq(Row)), Len(rows') = Len(rows), RowsInStep',
         \A a \in DOMAIN rows :
           \/ rows'[a] = rows[a]
           \/ \E x \in Row \cap {bench.answers[<<Len(rows[a]) + 1, Named(arms[a])>>], Failed} :
                rows'[a] = Append(rows[a], x)
  PROVE  BenchInv'
  <1>1. BenchTypes' /\ ArmsWired' /\ CopiesMade'
    BY DEF BenchInv, BenchTypes, ArmsWired, CopiesMade, ModeBench
  <1>2. ASSUME NEW a \in DOMAIN arms, NEW k \in DOMAIN rows'[a]
        PROVE  rows'[a][k] \in {bench.answers[<<k, Named(arms[a])>>], Failed}
    <2>1. a \in DOMAIN rows /\ rows[a] \in Seq(Row) /\ Len(rows[a]) \in Nat /\ DOMAIN rows[a] = 1..Len(rows[a])
      BY BenchFacts
    <2>2. \A j \in DOMAIN rows[a] : rows[a][j] \in {bench.answers[<<j, Named(arms[a])>>], Failed}
      BY DEF BenchInv, RowsMeasureTheirArm
    <2>3. CASE rows'[a] = rows[a]
      BY <1>2, <2>2, <2>3
    <2>4. ASSUME NEW x \in Row \cap {bench.answers[<<Len(rows[a]) + 1, Named(arms[a])>>], Failed},
                 rows'[a] = Append(rows[a], x)
          PROVE  rows'[a][k] \in {bench.answers[<<k, Named(arms[a])>>], Failed}
      <3>1. /\ rows'[a] \in Seq(Row) /\ Len(rows'[a]) = Len(rows[a]) + 1
            /\ \A j \in 1..Len(rows[a]) : rows'[a][j] = rows[a][j]
            /\ rows'[a][Len(rows[a]) + 1] = x
        BY <2>1, <2>4, AppendProperties
      <3>2. k \in 1..Len(rows[a]) \/ k = Len(rows[a]) + 1
        BY <1>2, <2>1, <3>1, LenProperties
      <3>3. CASE k = Len(rows[a]) + 1
        BY <2>4, <3>1, <3>3
      <3>4. CASE k \in 1..Len(rows[a])
        BY <2>1, <2>2, <3>1, <3>4
      <3> QED
        BY <3>2, <3>3, <3>4
    <2> QED
      BY <2>1, <2>3, <2>4
  <1>3. ASSUME NEW a \in DOMAIN arms PROVE Named(arms[a])' = Named(arms[a])
    BY DEF Named
  <1>4. RowsMeasureTheirArm'
    BY <1>2, <1>3 DEF RowsMeasureTheirArm
  <1> QED
    BY <1>1, <1>4 DEF BenchInv

\* Only the last arm is searched, and the configuration holds its mode (runOne).
LEMMA RunOneStep == BenchInv /\ runOne => BenchInv'
  <1> SUFFICES ASSUME BenchInv, runOne PROVE BenchInv'
    OBVIOUS
  <1> USE BenchFacts
  <1> DEFINE m == Len(rows)
             k == Len(rows[m]) + 1
  <1>1. /\ bench.opts # "semantic" /\ ~ArmsDone /\ UNCHANGED <<bench, formulas, arms, slow>>
        /\ slow \in Nat /\ Len(arms) = m
    BY DEF runOne, BenchInv, BenchTypes
  <1>2. PICK b \in DOMAIN rows : Len(rows[b]) # Len(Tests)
    BY <1>1 DEF ArmsDone
  <1>3. b = m /\ m \in DOMAIN rows /\ Len(rows[m]) < Len(Tests) /\ k \in DOMAIN Tests
    BY <1>1, <1>2 DEF BenchInv, RowsInStep
  <1>4. PICK answer \in Searched(arms[m], k) : rows' = [rows EXCEPT ![m] = Append(@, answer)]
    BY <1>1 DEF runOne, Last
  <1>5. answer \in Row \cap {bench.answers[<<k, Named(arms[m])>>], Failed}
    BY <1>1, <1>3, <1>4, SearchedRows
  <1>6. /\ Append(rows[m], answer) \in Seq(Row) /\ Len(Append(rows[m], answer)) = k
    BY <1>3, <1>5, AppendProperties
  <1>7. rows \in Seq(Seq(Row))
    BY DEF BenchInv, BenchTypes
  <1>8. rows' \in Seq(Seq(Row)) /\ Len(rows') = Len(rows)
    BY <1>3, <1>4, <1>6, <1>7, ExceptSeq
  <1>9. \A a \in DOMAIN rows : rows'[a] = IF a = m THEN Append(rows[m], answer) ELSE rows[a]
    BY <1>4
  <1>10. RowsInStep'
    <2>1. DOMAIN rows' = DOMAIN rows /\ Tests' = Tests /\ bench.opts # "semantic"
      BY <1>1, <1>4 DEF Tests
    <2>2. ASSUME NEW a \in DOMAIN rows
          PROVE  /\ Len(rows'[a]) <= Len(Tests)
                 /\ a < Len(rows) => Len(rows'[a]) = Len(Tests)
      <3>1. CASE a = m
        <4>1. Len(rows'[a]) = Len(rows[m]) + 1 /\ Len(rows[m]) \in Nat /\ Len(Tests) \in Nat
          BY <1>3, <1>6, <1>9, <3>1
        <4>2. ~(a < Len(rows))
          BY <3>1
        <4>3. Len(rows[m]) < Len(Tests)
          BY <1>3
        <4>4. Len(rows'[a]) <= Len(Tests)
          BY <4>1, <4>3
        <4> QED
          BY <4>2, <4>4
      <3>2. CASE a # m
        BY <1>1, <1>9, <3>2 DEF BenchInv, RowsInStep
      <3> QED
        BY <3>1, <3>2
    <2> QED
      BY <1>1, <1>8, <2>1, <2>2 DEF RowsInStep
  <1> HIDE DEF m, k
  <1> QED
    BY <1>1, <1>5, <1>8, <1>9, <1>10, RowsGrow DEF m, k

\* A failure of one search fails the pair, so each row has an answer of its arm or none.
LEMMA RunSemanticOneStep == BenchInv /\ runSemanticOne => BenchInv'
  <1> SUFFICES ASSUME BenchInv, runSemanticOne PROVE BenchInv'
    OBVIOUS
  <1> USE BenchFacts
  <1> DEFINE k == Len(rows[1]) + 1
  <1>1. bench.opts = "semantic" /\ ~ArmsDone /\ UNCHANGED <<bench, formulas, arms>>
    BY DEF runSemanticOne
  <1>2. PICK b \in DOMAIN rows : Len(rows[b]) # Len(Tests)
    BY <1>1 DEF ArmsDone
  <1>3. /\ Len(rows) = 2 /\ DOMAIN rows = 1..2 /\ DOMAIN arms = 1..2
        /\ Len(rows[2]) = Len(rows[1]) /\ Len(rows[1]) < Len(Tests) /\ k \in DOMAIN Tests
    BY <1>1, <1>2 DEF BenchInv, RowsInStep
  <1>4. PICK off \in Searched(arms[1], k), on \in Searched(arms[2], k) :
          /\ rows' = [a \in 1..2 |-> Append(rows[a], Paired(off, on)[a])]
          /\ slow' \in IF Paired(off, on)[2] = Failed THEN {slow} ELSE {slow, slow + 1}
    BY <1>3 DEF runSemanticOne
  <1> DEFINE pair == Paired(off, on)
  <1>5. /\ off \in Row \cap {bench.answers[<<k, Named(arms[1])>>], Failed}
        /\ on \in Row \cap {bench.answers[<<k, Named(arms[2])>>], Failed}
    BY <1>1, <1>3, <1>4, SearchedRows
  <1>6. pair[1] \in {off, Failed} /\ pair[2] \in {on, Failed} /\ Failed \in Row
    BY DEF Paired, Row
  <1> HIDE DEF pair
  <1>7. \A a \in 1..2 : pair[a] \in Row \cap {bench.answers[<<Len(rows[a]) + 1, Named(arms[a])>>], Failed}
    BY <1>3, <1>5, <1>6
  <1>8. \A a \in 1..2 : rows'[a] = Append(rows[a], pair[a]) /\ rows'[a] \in Seq(Row) /\ Len(rows'[a]) = k
    <2>1. ASSUME NEW a \in 1..2 PROVE /\ rows'[a] = Append(rows[a], pair[a])
                                      /\ rows'[a] \in Seq(Row) /\ Len(rows'[a]) = k
      <3>1. rows[a] \in Seq(Row) /\ pair[a] \in Row /\ Len(rows[a]) + 1 = k
        BY <1>3, <1>7
      <3>2. rows'[a] = Append(rows[a], pair[a])
        BY <1>4 DEF pair
      <3> QED
        BY <3>1, <3>2, AppendProperties
    <2> QED
      BY <2>1
  <1>9. rows' \in Seq(Seq(Row)) /\ Len(rows') = 2 /\ DOMAIN rows' = 1..2
    <2>1. rows' \in [1..2 -> Seq(Row)]
      BY <1>4, <1>8
    <2> QED
      BY <2>1, TwoIsSeq
  <1>10. slow' \in Nat
    <2>1. slow \in Nat
      BY DEF BenchInv, BenchTypes
    <2>2. slow' = slow \/ slow' = slow + 1
      BY <1>4
    <2> QED
      BY <2>1, <2>2
  <1>11. RowsInStep'
    BY <1>1, <1>3, <1>8, <1>9 DEF BenchInv, RowsInStep, Tests
  <1> QED
    BY <1>1, <1>3, <1>7, <1>8, <1>9, <1>10, <1>11, RowsGrow

\* The invariant of arms and rows holds in every reachable state of a bench.
LEMMA BenchInvariance == RunnerSpec => []BenchInv
  <1>1. ASSUME BenchInv, [RunnerStep]_benchVars PROVE BenchInv'
    <2>1. CASE Report
      BY <1>1, <2>1
      DEF Report, BenchInv, BenchTypes, ArmsWired, CopiesMade, RowsInStep, RowsMeasureTheirArm,
          ModeBench, Tests, Named
    <2>2. CASE UNCHANGED benchVars
      BY <1>1, <2>2
      DEF benchVars, BenchInv, BenchTypes, ArmsWired, CopiesMade, RowsInStep, RowsMeasureTheirArm,
          ModeBench, Tests, Named
    <2> QED
      BY <1>1, <2>1, <2>2, NextModeStep, CopyStep, NextCopyStep, SemanticArmsStep, RunOneStep,
         RunSemanticOneStep DEF RunnerStep
  <1> QED
    BY <1>1, InitBenchInv, PTL DEF RunnerSpec

\* Each row is measured under the settings of the arm it is filed under, although the modes
\* are applied to the configuration all services share (runComparison, applyMode, runQuality).
THEOREM RowsAreOfTheirArm == RunnerSpec => []RowsMeasureTheirArm
  <1>1. BenchInv => RowsMeasureTheirArm
    BY DEF BenchInv
  <1> QED
    BY <1>1, BenchInvariance, PTL
-----------------------------------------------------------------------------
\* The modes of -formula=all are run in their order.
NamesInOrder ==
  ModeBench => \A a \in DOMAIN arms : a \in DOMAIN Sequel /\ arms[a].name = Sequel[a]

\* The arms of a semantic bench fail together.
FailTogether ==
  bench.opts = "semantic" /\ Len(rows) = 2 =>
    \A k \in DOMAIN rows[1] : rows[1][k] = Failed <=> rows[2][k] = Failed

\* Some test passes in the second arm only.
Gained == \E k \in DOMAIN Tests : Passes(k, rows[2][k]) /\ ~Passes(k, rows[1][k])

\* A verdict closes the bench and has its reason in the rows.
Reported ==
  verdict # "none" =>
    /\ ArmsDone /\ arms # <<>>
    /\ ModeBench =>
         /\ Len(arms) = Len(Sequel)
         /\ \E a \in DOMAIN arms :
              verdict = arms[a].name /\ (a = 1 \/ PassN(rows[1]) < PassN(rows[a]))
    /\ bench.opts = "quality" =>
         Len(arms) = 2 /\ verdict \in {"flip", "keep"} /\ (verdict = "flip" => Flips(rows[1], rows[2]))
    /\ bench.opts = "semantic" =>
         verdict \in {"GO", "NO-GO"} /\ (verdict = "GO" => Gained)

VerdictInv == BenchInv /\ NamesInOrder /\ FailTogether /\ Reported

\* The modes of a bench.
LEMMA SequelFacts ==
  ASSUME ModeBench
  PROVE  /\ Len(Sequel) \in {1, 3} /\ DOMAIN Sequel = 1..Len(Sequel)
         /\ Len(Sequel) = 3 => Sequel[1] = "literal"
         /\ \A k \in DOMAIN Sequel : Sequel[k] \in {"literal", "bayesian", "decay"}
         /\ bench.opts \notin {"quality", "semantic"}
  <1>1. CASE bench.opts = "all"
    <2>1. Sequel = <<"literal", "bayesian", "decay">>
      BY <1>1 DEF Sequel
    <2>2. Len(Sequel) = 3 /\ DOMAIN Sequel = 1..3
      BY <2>1
    <2>3. Sequel[1] = "literal" /\ Sequel[2] = "bayesian" /\ Sequel[3] = "decay"
      BY <2>1
    <2> QED
      BY <1>1, <2>2, <2>3
  <1>2. CASE bench.opts \in DOMAIN Modes
    <2>1. bench.opts \in {"literal", "bayesian", "decay"} /\ Sequel = <<bench.opts>>
      BY <1>2, ModesAreFormulas DEF Sequel
    <2>2. Len(Sequel) = 1 /\ DOMAIN Sequel = 1..1 /\ Sequel[1] = bench.opts
      BY <2>1
    <2> QED
      BY <2>1, <2>2
  <1> QED
    BY <1>1, <1>2 DEF ModeBench

\* Of up to three numbers there is a first one no other exceeds.
LEMMA FirstBest ==
  ASSUME NEW m \in {1, 2, 3}, NEW p \in [1..m -> Nat]
  PROVE  \E k \in 1..m : /\ \A j \in 1..m : p[j] <= p[k]
                         /\ \A j \in 1..k-1 : p[j] < p[k]
  <1>1. CASE m = 1
    <2>1. \A j \in 1..1 : p[j] <= p[1]
      BY <1>1
    <2> QED
      BY <1>1, <2>1
  <1>2. CASE m = 2
    <2>1. p[1] \in Nat /\ p[2] \in Nat
      BY <1>2
    <2>2. CASE p[2] <= p[1]
      <3>1. /\ 1 \in 1..m /\ \A j \in 1..m : p[j] <= p[1]
            /\ \A j \in 1..1-1 : p[j] < p[1]
        BY <1>2, <2>1, <2>2
      <3> QED
        BY <3>1
    <2>3. CASE p[1] < p[2]
      <3>1. /\ 2 \in 1..m /\ \A j \in 1..m : p[j] <= p[2]
            /\ \A j \in 1..2-1 : p[j] < p[2]
        BY <1>2, <2>1, <2>3
      <3> QED
        BY <3>1
    <2> QED
      BY <2>1, <2>2, <2>3
  <1>3. CASE m = 3
    <2>1. p[1] \in Nat /\ p[2] \in Nat /\ p[3] \in Nat
      BY <1>3
    <2>2. CASE p[2] <= p[1] /\ p[3] <= p[1]
      <3>1. /\ 1 \in 1..m /\ \A j \in 1..m : p[j] <= p[1]
            /\ \A j \in 1..1-1 : p[j] < p[1]
        BY <1>3, <2>1, <2>2
      <3> QED
        BY <3>1
    <2>3. CASE p[1] < p[2] /\ p[3] <= p[2]
      <3>1. /\ 2 \in 1..m /\ \A j \in 1..m : p[j] <= p[2]
            /\ \A j \in 1..2-1 : p[j] < p[2]
        BY <1>3, <2>1, <2>3
      <3> QED
        BY <3>1
    <2>4. CASE p[1] < p[3] /\ p[2] < p[3]
      <3>1. /\ 3 \in 1..m /\ \A j \in 1..m : p[j] <= p[3]
            /\ \A j \in 1..3-1 : p[j] < p[3]
        BY <1>3, <2>1, <2>4
      <3> QED
        BY <3>1
    <2> QED
      BY <2>1, <2>2, <2>3, <2>4
  <1> QED
    BY <1>1, <1>2, <1>3

\* A pass rate counts finitely many rows.
LEMMA PassCounts ==
  ASSUME BenchInv, NEW a \in DOMAIN rows
  PROVE  /\ IsFiniteSet(DOMAIN rows[a])
         /\ IsFiniteSet({k \in DOMAIN rows[a] : Passes(k, rows[a][k])})
         /\ PassN(rows[a]) \in Nat
  <1>1. DOMAIN rows[a] = 1..Len(rows[a]) /\ Len(rows[a]) \in Nat
    BY BenchFacts
  <1>2. IsFiniteSet(DOMAIN rows[a])
    BY <1>1, FS_Interval
  <1> DEFINE S == {k \in DOMAIN rows[a] : Passes(k, rows[a][k])}
  <1>3. IsFiniteSet(S)
    BY <1>2, FS_Subset
  <1>4. PassN(rows[a]) = Cardinality(S)
    BY DEF PassN
  <1>5. Cardinality(S) \in Nat
    BY <1>3, FS_CardinalityType
  <1> QED
    BY <1>2, <1>3, <1>4, <1>5

\* The best arm is one, and passes more than the first unless it is the first.
LEMMA BestIsBest ==
  ASSUME BenchInv, Len(rows) \in {1, 2, 3}
  PROVE  best \in DOMAIN rows /\ (best = 1 \/ PassN(rows[1]) < PassN(rows[best]))
  <1> DEFINE p == [k \in DOMAIN rows |-> PassN(rows[k])]
  <1>1. DOMAIN rows = 1..Len(rows)
    BY BenchFacts
  <1>2. p \in [1..Len(rows) -> Nat]
    BY <1>1, PassCounts
  <1>3. \A k \in DOMAIN rows : p[k] = PassN(rows[k])
    OBVIOUS
  <1> HIDE DEF p
  <1>4. \E k \in 1..Len(rows) : /\ \A j \in 1..Len(rows) : p[j] <= p[k]
                                /\ \A j \in 1..k-1 : p[j] < p[k]
    BY <1>2, FirstBest
  <1>5. \E k \in DOMAIN rows : /\ \A j \in DOMAIN rows : PassN(rows[j]) <= PassN(rows[k])
                               /\ \A j \in 1..k-1 : PassN(rows[j]) < PassN(rows[k])
    <2>1. PICK k \in 1..Len(rows) : /\ \A j \in 1..Len(rows) : p[j] <= p[k]
                                    /\ \A j \in 1..k-1 : p[j] < p[k]
      BY <1>4
    <2>2. \A j \in 1..k-1 : j \in DOMAIN rows
      BY <1>1
    <2> QED
      BY <1>1, <1>3, <2>1, <2>2
  <1>6. /\ best \in DOMAIN rows
        /\ \A j \in 1..best-1 : PassN(rows[j]) < PassN(rows[best])
    BY <1>5 DEF best
  <1> QED
    BY <1>1, <1>6

\* A recommendation to go needs more passes than it would lose.
LEMMA GoesGains ==
  ASSUME BenchInv, ArmsDone, Len(rows) = 2, Goes
  PROVE  Gained
  <1> USE BenchFacts
  <1> DEFINE S(a) == {k \in DOMAIN rows[a] : Passes(k, rows[a][k])}
             total == Cardinality({k \in DOMAIN rows[2] : rows[2][k] # Failed})
  <1>1. 1 \in DOMAIN rows /\ 2 \in DOMAIN rows
    OBVIOUS
  <1>2. /\ IsFiniteSet(S(1)) /\ IsFiniteSet(S(2))
        /\ PassN(rows[1]) = Cardinality(S(1)) /\ PassN(rows[2]) = Cardinality(S(2))
        /\ PassN(rows[1]) \in Nat /\ PassN(rows[2]) \in Nat
    BY <1>1, PassCounts DEF PassN
  <1>3. total \in Nat
    <2>1. IsFiniteSet(DOMAIN rows[2])
      BY <1>1, PassCounts
    <2>2. IsFiniteSet({k \in DOMAIN rows[2] : rows[2][k] # Failed})
      BY <2>1, FS_Subset
    <2> QED
      BY <2>2, FS_CardinalityType
  <1>4. total > 0 /\ 10 * (PassN(rows[2]) - PassN(rows[1])) >= total
    BY DEF Goes
  <1> HIDE DEF total
  <1>5. Cardinality(S(1)) < Cardinality(S(2))
    BY <1>2, <1>3, <1>4
  <1>6. ~(S(2) \subseteq S(1))
    BY <1>2, <1>5, FS_Subset
  <1>7. DOMAIN rows[1] = DOMAIN Tests /\ DOMAIN rows[2] = DOMAIN Tests
    BY <1>1 DEF ArmsDone
  <1> QED
    BY <1>6, <1>7 DEF Gained
-----------------------------------------------------------------------------
\* There is no verdict at the start.
LEMMA InitVerdictInv == RunInit => VerdictInv
  <1> SUFFICES ASSUME RunInit PROVE VerdictInv
    OBVIOUS
  <1>1. arms = <<>> /\ rows = <<>> /\ verdict = "none"
    BY DEF RunInit
  <1> QED
    BY <1>1, InitBenchInv DEF VerdictInv, NamesInOrder, FailTogether, Reported

\* Arms are added in the order of the modes (runComparison).
LEMMA NamesStep == VerdictInv /\ BenchInv' /\ RunnerStep => NamesInOrder'
  <1> SUFFICES ASSUME VerdictInv, RunnerStep PROVE NamesInOrder'
    OBVIOUS
  <1>1. CASE NextMode
    <2> DEFINE arm == Arm(Sequel[Len(arms) + 1], "cfg", FALSE)
    <2>1. /\ ModeBench /\ bench' = bench /\ Sequel' = Sequel /\ (ModeBench' <=> ModeBench)
          /\ Len(arms) < Len(Sequel) /\ Len(arms) \in Nat /\ arms' = Append(arms, arm)
      BY <1>1, BenchFacts DEF NextMode, ModeBench, Sequel, VerdictInv, BenchInv, BenchTypes
    <2>2. DOMAIN Sequel = 1..Len(Sequel) /\ Len(Sequel) \in Nat /\ Len(arms) + 1 \in DOMAIN Sequel
      BY <2>1, SequelFacts
    <2>3. arm \in ArmRecord /\ arm.name = Sequel[Len(arms) + 1]
      BY <2>1, <2>2, SequelFacts DEF Arm, ArmRecord
    <2> HIDE DEF arm
    <2>4. arms \in Seq(ArmRecord) /\ DOMAIN arms = 1..Len(arms)
      BY LenProperties DEF VerdictInv, BenchInv, BenchTypes
    <2>5. /\ DOMAIN arms' = 1..Len(arms)+1
          /\ \A a \in DOMAIN arms : arms'[a] = arms[a]
          /\ arms'[Len(arms)+1] = arm
      BY <2>1, <2>3, <2>4, AppendProperties, LenProperties
    <2>6. ASSUME NEW a \in DOMAIN arms' PROVE a \in DOMAIN Sequel /\ arms'[a].name = Sequel[a]
      <3>1. CASE a \in DOMAIN arms
        BY <2>1, <2>5, <3>1 DEF VerdictInv, NamesInOrder
      <3>2. CASE a = Len(arms) + 1
        BY <2>2, <2>3, <2>5, <3>2
      <3> QED
        BY <2>1, <2>4, <2>5, <2>6, <3>1, <3>2
    <2> QED
      BY <2>1, <2>6 DEF NamesInOrder
  <1>2. CASE CopyConfigs \/ runOne \/ runSemanticOne \/ Report
    BY <1>2 DEF CopyConfigs, runOne, runSemanticOne, Report, VerdictInv, NamesInOrder, ModeBench, Sequel
  <1>3. CASE NextCopy \/ SemanticArms
    BY <1>3, ModesAreFormulas DEF NextCopy, SemanticArms, NamesInOrder, ModeBench
  <1> QED
    BY <1>1, <1>2, <1>3 DEF RunnerStep

\* A semantic row fails in both arms or in none (runSemanticOne).
LEMMA FailStep == VerdictInv /\ RunnerStep => FailTogether'
  <1> SUFFICES ASSUME VerdictInv, RunnerStep PROVE FailTogether'
    OBVIOUS
  <1>0. BenchInv
    BY DEF VerdictInv
  <1>1. CASE NextMode \/ NextCopy \/ runOne
    BY <1>1, ModesAreFormulas DEF NextMode, NextCopy, runOne, FailTogether
  <1>2. CASE CopyConfigs \/ Report
    BY <1>2 DEF CopyConfigs, Report, VerdictInv, FailTogether
  <1>3. CASE SemanticArms
    BY <1>3 DEF SemanticArms, FailTogether
  <1>4. CASE runSemanticOne
    <2>1. bench' = bench /\ bench.opts = "semantic" /\ ~ArmsDone
      BY <1>4 DEF runSemanticOne
    <2>2. PICK b \in DOMAIN rows : Len(rows[b]) # Len(Tests)
      BY <2>1 DEF ArmsDone
    <2>3. Len(rows) = 2 /\ Len(rows[1]) = Len(rows[2])
      BY <1>0, <2>1, <2>2, BenchFacts DEF BenchInv, RowsInStep
    <2>4. PICK off, on : rows' = [a \in 1..2 |-> Append(rows[a], Paired(off, on)[a])]
      BY <1>4 DEF runSemanticOne
    <2>5. Paired(off, on)[1] = Failed <=> Paired(off, on)[2] = Failed
      BY DEF Paired
    <2>6. \A a \in 1..2 : /\ rows[a] \in Seq(Row) /\ Len(rows[a]) \in Nat
                          /\ DOMAIN rows[a] = 1..Len(rows[a])
      BY <1>0, <2>3, BenchFacts
    <2>7. \A a \in 1..2 : rows'[a] = Append(rows[a], Paired(off, on)[a])
      BY <2>4
    <2>8. \A a \in 1..2 : /\ DOMAIN rows'[a] = 1..Len(rows[1])+1
                          /\ \A k \in 1..Len(rows[1]) : rows'[a][k] = rows[a][k]
                          /\ rows'[a][Len(rows[1])+1] = Paired(off, on)[a]
      BY <2>3, <2>6, <2>7
    <2>9. ASSUME NEW k \in DOMAIN rows'[1] PROVE rows'[1][k] = Failed <=> rows'[2][k] = Failed
      <3>1. CASE k \in 1..Len(rows[1])
        BY <2>1, <2>3, <2>6, <2>8, <3>1 DEF VerdictInv, FailTogether
      <3>2. CASE k = Len(rows[1]) + 1
        BY <2>5, <2>8, <3>2
      <3> QED
        BY <2>6, <2>8, <3>1, <3>2
    <2> QED
      BY <2>9 DEF FailTogether
  <1> QED
    BY <1>1, <1>2, <1>3, <1>4 DEF RunnerStep

\* Nothing happens behind a verdict.
LEMMA VerdictCloses ==
  ASSUME VerdictInv, verdict # "none", RunnerStep
  PROVE  FALSE
  <1>1. BenchInv /\ Reported
    BY DEF VerdictInv
  <1>2. ArmsDone /\ arms # <<>> /\ Len(arms) = Len(rows) /\ Len(arms) \in Nat
    BY <1>1, BenchFacts DEF Reported, BenchInv, BenchTypes
  <1>3. ASSUME NextMode PROVE FALSE
    <2>1. ModeBench /\ Len(arms) < Len(Sequel)
      BY <1>3 DEF NextMode, ModeBench
    <2>2. Len(arms) = Len(Sequel)
      BY <1>1, <2>1 DEF Reported
    <2> QED
      BY <1>2, <2>1, <2>2
  <1>4. ASSUME NextCopy PROVE FALSE
    <2>1. bench.opts = "quality" /\ Len(arms) < 2
      BY <1>4 DEF NextCopy
    <2>2. Len(arms) = 2
      BY <1>1, <2>1 DEF Reported
    <2> QED
      BY <2>1, <2>2
  <1>5. ASSUME CopyConfigs PROVE FALSE
    <2>1. bench.opts = "quality" /\ DOMAIN formulas = {"cfg"}
      BY <1>5 DEF CopyConfigs
    <2>2. Len(arms) = 2
      BY <1>1, <2>1 DEF Reported
    <2>3. 1 \in DOMAIN arms
      BY <1>1, <1>2, <2>2, BenchFacts
    <2> QED
      BY <1>1, <2>1, <2>3 DEF BenchInv, BenchTypes, ArmsWired
  <1>6. ASSUME SemanticArms \/ runOne \/ runSemanticOne \/ Report PROVE FALSE
    BY <1>2, <1>6 DEF SemanticArms, runOne, runSemanticOne, Report
  <1> QED
    BY <1>3, <1>4, <1>5, <1>6 DEF RunnerStep

\* The rows decide on a flip.
LEMMA SameFlips ==
  UNCHANGED <<bench, rows>> => (Flips(rows[1], rows[2])' <=> Flips(rows[1], rows[2]))
  BY DEF Flips, MeanLess, SumOf, CountOf, Averaged, Scored, Tests

\* A report finds its reason in the rows (writeCommentary, writeABRead,
\* writeSemanticRecommendation).
LEMMA ReportStep == VerdictInv /\ Report => Reported'
  <1> SUFFICES ASSUME VerdictInv, Report PROVE Reported'
    OBVIOUS
  <1>1. /\ BenchInv /\ ArmsDone /\ arms # <<>> /\ UNCHANGED <<bench, formulas, arms, rows, slow>>
        /\ Len(arms) = Len(rows) /\ Len(rows) \in Nat \ {0}
    BY BenchFacts, EmptySeq DEF Report, VerdictInv, BenchInv, BenchTypes
  <1>2. ArmsDone' /\ arms' # <<>>
    BY <1>1 DEF ArmsDone, Tests
  <1>3. CASE ModeBench
    <2>1. /\ Len(arms) = Len(Sequel) /\ verdict' = arms[best].name
          /\ bench.opts \notin {"quality", "semantic"}
      BY <1>3, SequelFacts DEF Report
    <2>2. best \in DOMAIN arms /\ (best = 1 \/ PassN(rows[1]) < PassN(rows[best]))
      BY <1>1, <1>3, <2>1, BestIsBest, BenchFacts, SequelFacts
    <2>3. \A a \in DOMAIN arms : PassN(rows[a])' = PassN(rows[a])
      BY <1>1 DEF PassN, Passes, Tests
    <2>4. PassN(rows[1])' = PassN(rows[1])
      BY <1>1 DEF PassN, Passes, Tests
    <2>5. \E a \in DOMAIN arms : verdict' = arms[a].name /\ (a = 1 \/ PassN(rows[1])' < PassN(rows[a])')
      BY <2>1, <2>2, <2>3, <2>4
    <2>6. Len(arms') = Len(Sequel')
      BY <1>1, <2>1 DEF Sequel
    <2> QED
      BY <1>1, <1>2, <2>1, <2>5, <2>6 DEF Reported, ModeBench
  <1>4. CASE bench.opts = "quality"
    <2>1. Len(arms) = 2 /\ verdict' \in {"flip", "keep"} /\ (verdict' = "flip" => Flips(rows[1], rows[2]))
      BY <1>4 DEF Report
    <2>2. Flips(rows[1], rows[2])' <=> Flips(rows[1], rows[2])
      BY <1>1, SameFlips
    <2>3. ~ModeBench'
      BY <1>1, <1>4, SequelFacts DEF ModeBench
    <2> QED
      BY <1>1, <1>2, <1>4, <2>1, <2>2, <2>3 DEF Reported
  <1>5. CASE bench.opts = "semantic"
    <2>1. verdict' \in {"GO", "NO-GO"} /\ (verdict' = "GO" => Goes)
      BY <1>5 DEF Report
    <2>2. Len(rows) = 2
      BY <1>1, <1>5 DEF BenchInv, RowsInStep
    <2>3. verdict' = "GO" => Gained
      BY <1>1, <2>1, <2>2, GoesGains
    <2>4. Gained' <=> Gained
      BY <1>1 DEF Gained, Passes, Tests
    <2>5. ~ModeBench'
      BY <1>1, <1>5, SequelFacts DEF ModeBench
    <2> QED
      BY <1>1, <1>2, <1>5, <2>1, <2>3, <2>4, <2>5 DEF Reported
  <1> QED
    BY <1>1, <1>3, <1>4, <1>5, BenchFacts

\* The invariant of the verdict holds in every reachable state of a bench.
LEMMA VerdictInvariance == RunnerSpec => []VerdictInv
  <1>1. ASSUME VerdictInv, BenchInv', [RunnerStep]_benchVars PROVE VerdictInv'
    <2>1. CASE UNCHANGED benchVars
      <3>1. NamesInOrder' /\ FailTogether'
        BY <1>1, <2>1 DEF benchVars, VerdictInv, NamesInOrder, FailTogether, ModeBench, Sequel
      <3>2. Reported'
        BY <1>1, <2>1, SameFlips
        DEF benchVars, VerdictInv, Reported, ArmsDone, Tests, ModeBench, Sequel, Gained, Passes, PassN
      <3> QED
        BY <1>1, <3>1, <3>2 DEF VerdictInv
    <2>2. CASE RunnerStep
      <3>1. NamesInOrder' /\ FailTogether'
        BY <1>1, <2>2, NamesStep, FailStep
      <3>2. Reported'
        <4>1. CASE Report
          BY <1>1, <4>1, ReportStep
        <4>2. CASE ~Report
          <5>1. verdict = "none"
            BY <1>1, <2>2, VerdictCloses
          <5>2. verdict' = verdict
            BY <2>2, <4>2
            DEF RunnerStep, NextMode, CopyConfigs, NextCopy, SemanticArms, runOne, runSemanticOne
          <5> QED
            BY <5>1, <5>2 DEF Reported
        <4> QED
          BY <4>1, <4>2
      <3> QED
        BY <1>1, <3>1, <3>2 DEF VerdictInv
    <2> QED
      BY <1>1, <2>1, <2>2
  <1> QED
    BY <1>1, BenchInvariance, InitVerdictInv, PTL DEF RunnerSpec

\* What a mean is made of: a unit for each step of each row's number.
Area(S, d) == UNION {{k} \X (1..d[k]) : k \in S}

\* The products of naturals are ordered as their factors.
LEMMA ProductMonotone == \A x, y, z \in Nat : x <= y => z * x <= z * y /\ x * z <= y * z /\ z * x \in Nat
  OBVIOUS

\* Products of naturals may be taken in any order.
LEMMA ProductAssociates == \A x, y, z \in Nat : (x * y) * z = x * (y * z)
  OBVIOUS

\* An area is finite.
LEMMA AreaFinite ==
  ASSUME NEW S, IsFiniteSet(S), NEW d, \A k \in S : d[k] \in Nat
  PROVE  IsFiniteSet(Area(S, d)) /\ Cardinality(Area(S, d)) \in Nat
  <1> DEFINE T == {{k} \X (1..d[k]) : k \in S}
             g == [k \in S |-> {k} \X (1..d[k])]
  <1>1. g \in Surjection(S, T)
    BY DEF Surjection
  <1>2. IsFiniteSet(T)
    <2> HIDE DEF g, T
    <2> QED
      BY <1>1, FS_Surjection
  <1>3. ASSUME NEW k \in S PROVE IsFiniteSet({k} \X (1..d[k]))
    <2>1. IsFiniteSet({k})
      BY FS_Singleton
    <2>2. d[k] \in Nat
      OBVIOUS
    <2>3. IsFiniteSet(1..d[k])
      BY <2>2, FS_Interval
    <2> QED
      BY <2>1, <2>3, FS_Product
  <1>4. IsFiniteSet(UNION T)
    <2>1. \A t \in T : IsFiniteSet(t)
      BY <1>3
    <2> HIDE DEF T
    <2> QED
      BY <1>2, <2>1, FS_UNION
  <1> QED
    BY <1>4, FS_CardinalityType DEF Area

\* Areas of separate sets add up.
LEMMA AreaSplit ==
  ASSUME NEW A, NEW B, IsFiniteSet(A), IsFiniteSet(B), A \cap B = {},
         NEW d, \A k \in A \cup B : d[k] \in Nat
  PROVE  Cardinality(Area(A \cup B, d)) = Cardinality(Area(A, d)) + Cardinality(Area(B, d))
  <1>1. Area(A \cup B, d) = Area(A, d) \cup Area(B, d)
    BY DEF Area
  <1>2. Area(A, d) \cap Area(B, d) = {}
    BY DEF Area
  <1>3. /\ IsFiniteSet(Area(A, d)) /\ Cardinality(Area(A, d)) \in Nat
        /\ IsFiniteSet(Area(B, d)) /\ Cardinality(Area(B, d)) \in Nat
    BY AreaFinite
  <1>4. Cardinality(Area(A, d) \cap Area(B, d)) = 0
    BY <1>2, FS_EmptySet
  <1>5. Cardinality(Area(A, d) \cup Area(B, d))
        = Cardinality(Area(A, d)) + Cardinality(Area(B, d)) - Cardinality(Area(A, d) \cap Area(B, d))
    <2> HIDE DEF Area
    <2> QED
      BY <1>3, FS_Union
  <1>6. Cardinality(Area(A \cup B, d)) = Cardinality(Area(A, d) \cup Area(B, d))
    BY <1>1
  <1> DEFINE s == Cardinality(Area(A, d) \cup Area(B, d))
             z == Cardinality(Area(A, d) \cap Area(B, d))
  <1>7. z = 0 /\ s = Cardinality(Area(A, d)) + Cardinality(Area(B, d)) - z
    BY <1>4, <1>5
  <1> HIDE DEF s, z
  <1>8. s = Cardinality(Area(A, d)) + Cardinality(Area(B, d))
    BY <1>3, <1>7
  <1> QED
    BY <1>6, <1>8 DEF s

\* An area no lower has no fewer units.
LEMMA AreaMonotone ==
  ASSUME NEW S, IsFiniteSet(S), NEW d, NEW e,
         \A k \in S : d[k] \in Nat /\ e[k] \in Nat /\ d[k] <= e[k]
  PROVE  Cardinality(Area(S, d)) <= Cardinality(Area(S, e))
  <1>1. Area(S, d) \subseteq Area(S, e)
    <2>1. \A k \in S : 1..d[k] \subseteq 1..e[k]
      OBVIOUS
    <2> QED
      BY <2>1 DEF Area
  <1> QED
    BY <1>1, AreaFinite, FS_Subset

\* The area of the same number everywhere is a product.
LEMMA AreaLevel ==
  ASSUME NEW S, IsFiniteSet(S), NEW q \in Nat, NEW d, \A k \in S : d[k] = q
  PROVE  Cardinality(Area(S, d)) = Cardinality(S) * q
  <1>1. Area(S, d) = S \X (1..q)
    BY DEF Area
  <1>2. IsFiniteSet(1..q) /\ Cardinality(1..q) = q
    BY FS_Interval
  <1> QED
    BY <1>1, <1>2, FS_Product

\* The quotient rounded down, and rounded up.
LEMMA Quotients ==
  ASSUME NEW x \in Nat, NEW w \in Nat \ {0}
  PROVE  /\ \E q \in Nat : q * w <= x /\ \A y \in Nat : y * w <= x => y <= q
         /\ \E q \in Nat : x <= q * w /\ \A y \in Nat : x <= y * w => q <= y
  <1> DEFINE q == x \div w
  <1>1. q \in Nat /\ q * w <= x /\ x < (q + 1) * w
    OBVIOUS
  <1> HIDE DEF q
  <1>2. ASSUME NEW y \in Nat, y * w <= x PROVE y <= q
    <2>1. CASE q + 1 <= y
      BY <1>1, <1>2, <2>1, ProductMonotone
    <2> QED
      BY <1>1, <2>1
  <1>3. CASE q * w = x
    <2>1. ASSUME NEW y \in Nat, x <= y * w PROVE q <= y
      <3>1. CASE y + 1 <= q
        <4>1. (y + 1) * w <= q * w
          BY <1>1, <3>1, ProductMonotone
        <4>2. (y + 1) * w = y * w + w
          OBVIOUS
        <4> QED
          BY <1>3, <2>1, <4>1, <4>2
      <3> QED
        BY <1>1, <3>1
    <2> QED
      BY <1>1, <1>2, <1>3, <2>1
  <1>4. CASE q * w < x
    <2>1. ASSUME NEW y \in Nat, x <= y * w PROVE q + 1 <= y
      <3>1. CASE y <= q
        BY <1>1, <1>4, <2>1, <3>1, ProductMonotone
      <3> QED
        BY <1>1, <3>1
    <2>2. q + 1 \in Nat /\ x <= (q + 1) * w
      BY <1>1
    <2> QED
      BY <1>1, <1>2, <2>1, <2>2
  <1> QED
    BY <1>1, <1>3, <1>4

\* A mean does not rise where its own rows are no higher: c rows are shared, x and y their
\* sums; m rows, with the sum u, are on the left alone and no higher than the mean on the
\* right, o rows, with the sum v, on the right alone and no lower than the mean on the left.
LEMMA MeanArithmetic ==
  ASSUME NEW c \in Nat, NEW m \in Nat, NEW o \in Nat, c + m > 0, c + o > 0,
         NEW x \in Nat, NEW y \in Nat, NEW u \in Nat, NEW v \in Nat, x <= y,
         u * (c + o) <= m * (y + v), o * (x + u) <= v * (c + m)
  PROVE  (x + u) * (c + o) <= (y + v) * (c + m)
  <1> DEFINE X == x + u
             Y == y + v
             N == c + m
             M == c + o
  <1> SUFFICES ASSUME Y * N < X * M PROVE FALSE
    OBVIOUS
  <1>1. X \in Nat /\ Y \in Nat /\ N \in Nat \ {0} /\ M \in Nat \ {0} /\ X = x + u /\ Y = y + v
    OBVIOUS
  <1>2. u * M <= m * Y /\ o * X <= v * N
    OBVIOUS
  <1>3. X * N = X * c + X * m /\ X * M = X * c + X * o
    OBVIOUS
  <1> HIDE DEF X, Y, N, M
  <1>4. y * N < X * c
    <2>1. Y * N = y * N + v * N
      BY <1>1
    <2>2. o * X = X * o /\ X * c \in Nat /\ X * o \in Nat /\ y * N \in Nat /\ v * N \in Nat
      BY <1>1
    <2> QED
      BY <1>2, <1>3, <2>1, <2>2
  <1>5. X * c <= x * N
    <2>1. X * M <= x * M + m * Y
      <3>1. X * M = x * M + u * M
        BY <1>1
      <3>2. X * M \in Nat /\ x * M \in Nat /\ u * M \in Nat /\ m * Y \in Nat
        BY <1>1
      <3> QED
        BY <1>2, <3>1, <3>2
    <2>2. X * M * N <= x * M * N + m * Y * N
      <3>1. X * M \in Nat /\ x * M + m * Y \in Nat
        BY <1>1
      <3>2. (X * M) * N <= (x * M + m * Y) * N
        BY <1>1, <2>1, <3>1, ProductMonotone
      <3>3. (x * M + m * Y) * N = x * M * N + m * Y * N
        BY <1>1
      <3> QED
        BY <3>2, <3>3
    <2>3. m * Y * N <= m * X * M
      <3>1. Y * N \in Nat /\ X * M \in Nat /\ Y * N <= X * M
        BY <1>1
      <3>2. m * (Y * N) <= m * (X * M)
        BY <3>1, ProductMonotone
      <3>3. m * (Y * N) = m * Y * N /\ m * (X * M) = m * X * M
        BY <1>1
      <3> QED
        BY <3>2, <3>3
    <2>4. X * M * N = (X * N) * M /\ x * M * N = (x * N) * M /\ m * X * M = (X * m) * M
      BY <1>1
    <2>5. (X * N) * M <= (x * N + X * m) * M
      <3>1. (x * N + X * m) * M = (x * N) * M + (X * m) * M
        BY <1>1
      <3>2. (X * N) * M \in Nat /\ (x * N) * M \in Nat /\ (X * m) * M \in Nat
        BY <1>1
      <3>3. m * Y * N \in Nat
        BY <1>1
      <3> QED
        BY <2>2, <2>3, <2>4, <3>1, <3>2, <3>3
    <2>6. X * N <= x * N + X * m
      <3>1. X * N \in Nat /\ x * N + X * m \in Nat
        BY <1>1
      <3>2. \A z, w \in Nat : z * M <= w * M => z <= w
        BY <1>1
      <3> QED
        BY <2>5, <3>1, <3>2
    <2>7. X * c \in Nat /\ X * m \in Nat /\ x * N \in Nat
      BY <1>1
    <2> QED
      BY <1>3, <2>6, <2>7
  <1>6. x * N <= y * N
    BY <1>1, ProductMonotone
  <1>7. y * N \in Nat /\ X * c \in Nat /\ x * N \in Nat
    BY <1>1
  <1> QED
    BY <1>4, <1>5, <1>6, <1>7

\* Where the mean e over D is below the mean d over L, some row is lower in e, or is in one
\* of the two only and on the far side of the other mean.
LEMMA MeanFalls ==
  ASSUME NEW L, NEW D, IsFiniteSet(L), IsFiniteSet(D),
         NEW d, NEW e, \A k \in L : d[k] \in Nat, \A k \in D : e[k] \in Nat,
         NEW nL, nL = IF L = {} THEN 1 ELSE Cardinality(L),
         NEW nD, nD = IF D = {} THEN 1 ELSE Cardinality(D),
         Cardinality(Area(D, e)) * nL < Cardinality(Area(L, d)) * nD
  PROVE  \E k \in L \cup D :
           \/ k \in L /\ k \in D /\ e[k] < d[k]
           \/ k \in L /\ k \notin D /\ Cardinality(Area(D, e)) < d[k] * nD
           \/ k \notin L /\ k \in D /\ e[k] * nL < Cardinality(Area(L, d))
  <1> DEFINE C == L \cap D
             x == Cardinality(Area(C, d))
             y == Cardinality(Area(C, e))
             u == Cardinality(Area(L \ D, d))
             v == Cardinality(Area(D \ L, e))
             X == Cardinality(Area(L, d))
             Y == Cardinality(Area(D, e))
  <1>1. SUFFICES ASSUME /\ \A k \in C : d[k] <= e[k]
                        /\ \A k \in L \ D : d[k] * nD <= Y
                        /\ \A k \in D \ L : X <= e[k] * nL
                 PROVE  FALSE
    <2>1. X \in Nat /\ Y \in Nat
      BY AreaFinite
    <2>2. nL \in Nat /\ nD \in Nat
      BY FS_CardinalityType
    <2>3. \A k \in L : d[k] \in Nat /\ d[k] * nD \in Nat
      BY <2>2, ProductMonotone
    <2>4. \A k \in D : e[k] \in Nat /\ e[k] * nL \in Nat
      BY <2>2, ProductMonotone
    <2> HIDE DEF X, Y
    <2> QED
      BY <2>1, <2>3, <2>4 DEF X, Y
  <1>2. IsFiniteSet(C) /\ IsFiniteSet(L \ D) /\ IsFiniteSet(D \ L)
    BY FS_Subset
  <1>3. x \in Nat /\ y \in Nat /\ u \in Nat /\ v \in Nat
    <2>1. \A k \in C : d[k] \in Nat /\ e[k] \in Nat
      OBVIOUS
    <2> HIDE DEF C
    <2> QED
      BY <1>2, <2>1, AreaFinite
  <1>4. X = x + u
    <2>1. L = C \cup (L \ D) /\ C \cap (L \ D) = {}
      OBVIOUS
    <2> HIDE DEF C
    <2>2. Cardinality(Area(C \cup (L \ D), d)) = x + u
      BY <1>2, <2>1, AreaSplit
    <2> QED
      BY <2>1, <2>2
  <1>5. Y = y + v
    <2>1. D = C \cup (D \ L) /\ C \cap (D \ L) = {}
      OBVIOUS
    <2> HIDE DEF C
    <2>2. Cardinality(Area(C \cup (D \ L), e)) = y + v
      BY <1>2, <2>1, AreaSplit
    <2> QED
      BY <2>1, <2>2
  <1>6. x <= y
    <2>1. \A k \in C : d[k] \in Nat /\ e[k] \in Nat /\ d[k] <= e[k]
      BY <1>1
    <2> HIDE DEF C
    <2> QED
      BY <1>2, <2>1, AreaMonotone
  <1> DEFINE c == Cardinality(C)
             m == Cardinality(L \ D)
             o == Cardinality(D \ L)
  <1>7. /\ c \in Nat /\ m \in Nat /\ o \in Nat
        /\ Cardinality(L) = c + m /\ Cardinality(D) = c + o
    <2>1. L = C \cup (L \ D) /\ C \cap (L \ D) = {} /\ D = C \cup (D \ L) /\ C \cap (D \ L) = {}
      OBVIOUS
    <2> HIDE DEF C
    <2>2. c \in Nat /\ m \in Nat /\ o \in Nat
      BY <1>2, FS_CardinalityType
    <2>3. Cardinality({}) = 0
      BY FS_EmptySet
    <2>4. Cardinality(C \cup (L \ D)) = c + m - Cardinality(C \cap (L \ D))
      BY <1>2, FS_Union
    <2>5. Cardinality(C \cup (D \ L)) = c + o - Cardinality(C \cap (D \ L))
      BY <1>2, FS_Union
    <2>6. Cardinality(L) = c + m - 0
      BY <2>1, <2>3, <2>4, Zenon
    <2>7. Cardinality(D) = c + o - 0
      BY <2>1, <2>3, <2>5, Zenon
    <2> HIDE DEF c, m, o
    <2> QED
      BY <2>2, <2>6, <2>7
  <1>8. /\ nL \in Nat \ {0} /\ nD \in Nat \ {0}
        /\ L # {} => nL = c + m
        /\ D # {} => nD = c + o
    <2>1. L # {} => Cardinality(L) # 0
      BY FS_EmptySet
    <2>2. D # {} => Cardinality(D) # 0
      BY FS_EmptySet
    <2> HIDE DEF c, m, o
    <2> QED
      BY <1>7, <2>1, <2>2
  <1>9. PICK q \in Nat : q * nD <= Y /\ \A z \in Nat : z * nD <= Y => z <= q
    BY <1>8, AreaFinite, Quotients
  <1>10. PICK r \in Nat : X <= r * nL /\ \A z \in Nat : X <= z * nL => r <= z
    BY <1>8, AreaFinite, Quotients
  <1>11. u <= m * q
    <2> DEFINE f == [k \in L \ D |-> q]
    <2>1. \A k \in L \ D : d[k] \in Nat /\ f[k] = q /\ d[k] <= f[k]
      BY <1>1, <1>9
    <2> HIDE DEF f
    <2>2. Cardinality(Area(L \ D, f)) = m * q
      BY <1>2, <1>9, <2>1, AreaLevel
    <2> QED
      BY <1>2, <1>9, <2>1, <2>2, AreaMonotone
  <1>12. o * r <= v
    <2> DEFINE f == [k \in D \ L |-> r]
    <2>1. \A k \in D \ L : e[k] \in Nat /\ f[k] = r /\ f[k] <= e[k]
      BY <1>1, <1>10
    <2> HIDE DEF f
    <2>2. Cardinality(Area(D \ L, f)) = o * r
      BY <1>2, <1>10, <2>1, AreaLevel
    <2> QED
      BY <1>2, <1>10, <2>1, <2>2, AreaMonotone
  <1>13. X \in Nat /\ Y \in Nat
    BY AreaFinite
  <1>14. Y * nL < X * nD
    OBVIOUS
  <1>15. L = {} => X = 0
    BY FS_EmptySet DEF Area
  <1>16. D = {} => Y = 0
    BY FS_EmptySet DEF Area
  <1>17. L = {} => c = 0 /\ m = 0
    BY FS_EmptySet
  <1>18. D = {} => c = 0 /\ x = 0
    BY FS_EmptySet DEF Area
  <1> HIDE DEF C, x, y, u, v, X, Y, c, m, o
  <1>19. u * nD <= m * Y
    <2>1. u * nD <= (m * q) * nD
      BY <1>3, <1>7, <1>8, <1>9, <1>11, ProductMonotone
    <2>2. (m * q) * nD = m * (q * nD)
      <3>1. m \in Nat /\ q \in Nat /\ nD \in Nat
        BY <1>7, <1>8, <1>9
      <3> QED
        BY <3>1, ProductAssociates
    <2>3. m * (q * nD) <= m * Y
      <3>1. q * nD \in Nat
        BY <1>8, <1>9, ProductMonotone
      <3> QED
        BY <1>7, <1>9, <1>13, <3>1, ProductMonotone
    <2>4. u * nD \in Nat /\ m * (q * nD) \in Nat /\ m * Y \in Nat
      BY <1>3, <1>7, <1>8, <1>9, <1>13, ProductMonotone
    <2> QED
      BY <2>1, <2>2, <2>3, <2>4
  <1>20. o * X <= v * nL
    <2>1. (o * r) * nL <= v * nL
      BY <1>3, <1>7, <1>8, <1>10, <1>12, ProductMonotone
    <2>2. (o * r) * nL = o * (r * nL)
      <3>1. o \in Nat /\ r \in Nat /\ nL \in Nat
        BY <1>7, <1>8, <1>10
      <3> QED
        BY <3>1, ProductAssociates
    <2>3. o * X <= o * (r * nL)
      <3>1. r * nL \in Nat
        BY <1>8, <1>10, ProductMonotone
      <3> QED
        BY <1>7, <1>10, <1>13, <3>1, ProductMonotone
    <2>4. v * nL \in Nat /\ o * (r * nL) \in Nat /\ o * X \in Nat
      BY <1>3, <1>7, <1>8, <1>10, <1>13, ProductMonotone
    <2> QED
      BY <2>1, <2>2, <2>3, <2>4
  <1>21. CASE L = {}
    <2>1. X * nD = 0 /\ Y * nL \in Nat
      BY <1>8, <1>13, <1>15, <1>21, ProductMonotone
    <2> QED
      BY <1>14, <2>1
  <1>22. CASE D = {}
    <2>1. m * Y = 0
      BY <1>7, <1>16, <1>22
    <2>2. u * nD <= 0 /\ u <= u * nD
      BY <1>3, <1>8, <1>19, <2>1
    <2>3. u = 0
      BY <1>3, <2>2
    <2>4. X * nD = 0 /\ Y * nL \in Nat
      BY <1>4, <1>8, <1>13, <1>18, <1>22, <2>3, ProductMonotone
    <2> QED
      BY <1>14, <2>4
  <1>23. CASE L # {} /\ D # {}
    <2>1. nL = c + m /\ nD = c + o /\ c + m > 0 /\ c + o > 0
      BY <1>7, <1>8, <1>23
    <2>2. u * (c + o) <= m * (y + v) /\ o * (x + u) <= v * (c + m)
      BY <1>4, <1>5, <1>19, <1>20, <2>1
    <2>3. (x + u) * (c + o) <= (y + v) * (c + m)
      BY <1>3, <1>6, <1>7, <2>1, <2>2, MeanArithmetic
    <2>4. X * nD <= Y * nL
      BY <1>4, <1>5, <2>1, <2>3
    <2>5. X * nD \in Nat /\ Y * nL \in Nat
      BY <1>8, <1>13, ProductMonotone
    <2> QED
      BY <1>14, <2>4, <2>5
  <1> QED
    BY <1>21, <1>22, <1>23

\* A row that did not fail is what the arm's settings give.
LEMMA RowsMeasured ==
  ASSUME BenchInv, ArmsDone, NEW a \in DOMAIN arms
  PROVE  /\ a \in DOMAIN rows /\ DOMAIN rows[a] = DOMAIN Tests
         /\ \A k \in DOMAIN Tests :
              rows[a][k] # Failed => rows[a][k] = Measured(arms[a])[k] /\ rows[a][k] \in Answer
  <1>1. a \in DOMAIN rows /\ rows[a] \in Seq(Row) /\ Len(rows[a]) \in Nat /\ DOMAIN rows[a] = 1..Len(rows[a])
    BY BenchFacts
  <1>2. DOMAIN rows[a] = DOMAIN Tests
    BY <1>1, BenchFacts DEF ArmsDone
  <1>3. ASSUME NEW k \in DOMAIN Tests, rows[a][k] # Failed
        PROVE  rows[a][k] = Measured(arms[a])[k] /\ rows[a][k] \in Answer
    <2>1. rows[a][k] = bench.answers[<<k, Named(arms[a])>>]
      BY <1>1, <1>2, <1>3 DEF BenchInv, RowsMeasureTheirArm
    <2>2. rows[a][k] \in Row
      BY <1>1, <1>2, ElementOfSeq
    <2> QED
      BY <1>3, <2>1, <2>2 DEF Measured, Row
  <1> QED
    BY <1>1, <1>2, <1>3

\* The distances an arm averages.
LEMMA DistanceSums ==
  ASSUME BenchInv, ArmsDone, NEW a \in DOMAIN arms,
         NEW d, d = [k \in Scored(rows[a]) |-> rows[a][k].distance]
  PROVE  /\ IsFiniteSet(Scored(rows[a])) /\ Scored(rows[a]) \subseteq DOMAIN Tests
         /\ \A k \in Scored(rows[a]) : d[k] \in Nat /\ d[k] = Measured(arms[a])[k].distance
         /\ SumOf("distance", rows[a]) = Cardinality(Area(Scored(rows[a]), d))
         /\ CountOf("distance", rows[a])
              = IF Scored(rows[a]) = {} THEN 1 ELSE Cardinality(Scored(rows[a]))
  <1>1. a \in DOMAIN rows /\ DOMAIN rows[a] = DOMAIN Tests
    BY RowsMeasured
  <1>2. IsFiniteSet(DOMAIN rows[a])
    BY <1>1, PassCounts
  <1>3. Scored(rows[a]) \subseteq DOMAIN rows[a]
    BY DEF Scored
  <1>4. ASSUME NEW k \in Scored(rows[a])
        PROVE  d[k] \in Nat /\ d[k] = Measured(arms[a])[k].distance
    <2>1. k \in DOMAIN Tests /\ rows[a][k] # Failed
      BY <1>1 DEF Scored
    <2>2. rows[a][k] = Measured(arms[a])[k] /\ rows[a][k] \in Answer
      BY <2>1, RowsMeasured
    <2> QED
      BY <2>2 DEF Answer
  <1>5. Averaged("distance", rows[a]) = Scored(rows[a])
    BY DEF Averaged
  <1>6. SumOf("distance", rows[a]) = Cardinality(Area(Scored(rows[a]), d))
    <2>1. \A k \in Scored(rows[a]) : rows[a][k]["distance"] = d[k]
      OBVIOUS
    <2>2. UNION {{k} \X (1..rows[a][k]["distance"]) : k \in Scored(rows[a])} = Area(Scored(rows[a]), d)
      BY <2>1 DEF Area
    <2> QED
      BY <1>5, <2>2 DEF SumOf
  <1> QED
    BY <1>1, <1>2, <1>3, <1>4, <1>5, <1>6, FS_Subset DEF CountOf

\* A flip has a query behind it that got nearer, or that one arm averages alone.
LEMMA FlipTightens ==
  ASSUME BenchInv, ArmsDone, Len(arms) = 2, Flips(rows[1], rows[2])
  PROVE  \E k \in DOMAIN Tests : Tightens(k)
  <1>1. 1 \in DOMAIN arms /\ 2 \in DOMAIN arms
    BY BenchFacts DEF BenchInv, BenchTypes
  <1> DEFINE L == Scored(rows[1])
             D == Scored(rows[2])
             d == [k \in L |-> rows[1][k].distance]
             e == [k \in D |-> rows[2][k].distance]
             X == SumOf("distance", rows[1])
             Y == SumOf("distance", rows[2])
             nL == CountOf("distance", rows[1])
             nD == CountOf("distance", rows[2])
  <1>2. /\ IsFiniteSet(L) /\ L \subseteq DOMAIN Tests
        /\ \A k \in L : d[k] \in Nat /\ d[k] = Measured(arms[1])[k].distance
        /\ X = Cardinality(Area(L, d))
        /\ nL = IF L = {} THEN 1 ELSE Cardinality(L)
    <2> HIDE DEF nL, X
    <2> QED
      BY <1>1, DistanceSums DEF nL, X
  <1>3. /\ IsFiniteSet(D) /\ D \subseteq DOMAIN Tests
        /\ \A k \in D : e[k] \in Nat /\ e[k] = Measured(arms[2])[k].distance
        /\ Y = Cardinality(Area(D, e))
        /\ nD = IF D = {} THEN 1 ELSE Cardinality(D)
    BY <1>1, DistanceSums
  <1>4. Y * nL < X * nD
    BY DEF Flips, MeanLess
  <1> HIDE DEF L, D, d, e, X, Y, nL, nD
  <1>5. PICK k \in L \cup D :
          \/ k \in L /\ k \in D /\ e[k] < d[k]
          \/ k \in L /\ k \notin D /\ Y < d[k] * nD
          \/ k \notin L /\ k \in D /\ e[k] * nL < X
    BY <1>2, <1>3, <1>4, MeanFalls
  <1>6. Tightens(k)
    BY <1>2, <1>3, <1>5 DEF Tightens, L, D, X, Y, nL, nD
  <1> QED
    BY <1>2, <1>3, <1>5, <1>6

\* Whatever compares better passes some test more.
LEMMA LeadPasses ==
  ASSUME BenchInv, ArmsDone, 1 \in DOMAIN arms, NEW a \in DOMAIN arms,
         PassN(rows[1]) < PassN(rows[a])
  PROVE  \E k \in DOMAIN Tests : Passes(k, rows[a][k]) /\ (Better(k, a) \/ rows[1][k] = Failed)
  <1> DEFINE S(b) == {k \in DOMAIN rows[b] : Passes(k, rows[b][k])}
  <1>1. /\ a \in DOMAIN rows /\ DOMAIN rows[a] = DOMAIN Tests
        /\ 1 \in DOMAIN rows /\ DOMAIN rows[1] = DOMAIN Tests
    BY RowsMeasured
  <1>2. /\ IsFiniteSet(S(1)) /\ PassN(rows[1]) = Cardinality(S(1)) /\ PassN(rows[1]) \in Nat
        /\ IsFiniteSet(S(a)) /\ PassN(rows[a]) = Cardinality(S(a)) /\ PassN(rows[a]) \in Nat
    BY <1>1, PassCounts DEF PassN
  <1>3. ~(S(a) \subseteq S(1))
    <2> HIDE DEF S
    <2> QED
      BY <1>2, FS_Subset
  <1>4. PICK k \in DOMAIN Tests : Passes(k, rows[a][k]) /\ ~Passes(k, rows[1][k])
    BY <1>1, <1>3
  <1>5. rows[a][k] = Measured(arms[a])[k]
    BY <1>4, RowsMeasured DEF Passes
  <1>6. rows[1][k] # Failed => rows[1][k] = Measured(arms[1])[k]
    BY <1>4, RowsMeasured
  <1>7. Better(k, a) \/ rows[1][k] = Failed
    BY <1>4, <1>5, <1>6 DEF Better
  <1> QED
    BY <1>4, <1>7

\* A verdict for a change is earned.
LEMMA EarnedVerdict == VerdictInv => VerdictEarned
  <1> SUFFICES ASSUME VerdictInv, verdict # "none"
               PROVE  VerdictEarned
    BY DEF VerdictEarned
  <1>1. BenchInv /\ ArmsDone /\ DOMAIN arms = DOMAIN rows /\ DOMAIN rows = 1..Len(rows)
        /\ Len(rows) \in Nat /\ Len(arms) = Len(rows)
    BY BenchFacts DEF VerdictInv, Reported, BenchInv, BenchTypes
  <1>2. CASE ModeBench
    <2>1. Len(arms) = Len(Sequel)
      BY <1>2, SequelFacts DEF VerdictInv, Reported
    <2>2. PICK a \in DOMAIN arms : verdict = arms[a].name /\ (a = 1 \/ PassN(rows[1]) < PassN(rows[a]))
      BY <1>2 DEF VerdictInv, Reported
    <2>3. \A b \in DOMAIN arms : b \in DOMAIN Sequel /\ arms[b].name = Sequel[b]
      BY <1>2 DEF VerdictInv, NamesInOrder
    <2>4. verdict \in {"literal", "bayesian", "decay"}
      BY <1>2, <2>2, <2>3, SequelFacts
    <2>5. ASSUME verdict \in {"bayesian", "decay"}, Len(arms) > 1
          PROVE  \E b \in DOMAIN arms, k \in DOMAIN Tests :
                   /\ arms[b].name = verdict /\ Passes(k, rows[b][k])
                   /\ Better(k, b) \/ rows[1][k] = Failed
      <3>1. Len(Sequel) = 3 /\ Sequel[1] = "literal"
        BY <1>2, <2>1, <2>5, SequelFacts
      <3>2. a # 1
        BY <2>2, <2>3, <2>5, <3>1
      <3>3. 1 \in DOMAIN arms /\ PassN(rows[1]) < PassN(rows[a])
        BY <1>1, <2>2, <2>5, <3>2
      <3>4. PICK k \in DOMAIN Tests : Passes(k, rows[a][k]) /\ (Better(k, a) \/ rows[1][k] = Failed)
        BY <1>1, <3>3, LeadPasses
      <3> QED
        BY <2>2, <3>4
    <2> QED
      BY <2>4, <2>5 DEF VerdictEarned
  <1>3. CASE bench.opts = "quality"
    <2>1. Len(arms) = 2 /\ verdict \in {"flip", "keep"} /\ (verdict = "flip" => Flips(rows[1], rows[2]))
      BY <1>3 DEF VerdictInv, Reported
    <2>2. verdict = "flip" => \E k \in DOMAIN Tests : Tightens(k)
      BY <1>1, <2>1, FlipTightens
    <2> QED
      BY <2>1, <2>2 DEF VerdictEarned
  <1>4. CASE bench.opts = "semantic"
    <2>1. verdict \in {"GO", "NO-GO"} /\ (verdict = "GO" => Gained)
      BY <1>4 DEF VerdictInv, Reported
    <2>2. Len(arms) = 2
      BY <1>1, <1>4, EmptySeq DEF VerdictInv, BenchInv, BenchTypes, RowsInStep, Reported
    <2>3. ASSUME Gained PROVE \E k \in DOMAIN Tests : Better(k, 2)
      <3>1. PICK k \in DOMAIN Tests : Passes(k, rows[2][k]) /\ ~Passes(k, rows[1][k])
        BY <2>3 DEF Gained
      <3>2. k \in DOMAIN rows[1] /\ k \in DOMAIN rows[2] /\ 1 \in DOMAIN arms /\ 2 \in DOMAIN arms
        BY <1>1, <2>2, BenchFacts DEF ArmsDone
      <3>3. rows[2][k] # Failed /\ rows[1][k] # Failed
        BY <1>1, <1>4, <2>2, <3>1, <3>2 DEF Passes, VerdictInv, FailTogether
      <3>4. rows[1][k] = Measured(arms[1])[k] /\ rows[2][k] = Measured(arms[2])[k]
        BY <1>1, <3>2, <3>3, RowsMeasured
      <3> QED
        BY <3>1, <3>4 DEF Better
    <2> QED
      BY <2>1, <2>3 DEF VerdictEarned
  <1> QED
    BY <1>1, <1>2, <1>3, <1>4, BenchFacts

\* No report argues for a change without a test that does better under it, whatever failed,
\* but for a test that only one of the arms has a row for: the literal arm of the mode
\* comparison lost it, or it moves a mean of the quality bench the way of the flip
\* (runSemanticOne, writeCommentary, aggregateQuality, writeABRead).
THEOREM VerdictsAreEarned == RunnerSpec => []VerdictEarned
  BY VerdictInvariance, EarnedVerdict, PTL
-----------------------------------------------------------------------------
Document == UNION Snapshots
Task == [payload : Seq(Document) \cup {Settings}, status : {"enqueued", "succeeded", "failed"}]

IndexTypes ==
  /\ docs \in Seq(Document) /\ start \in Nat
  /\ phase \in {"read", "send", "wait", "ok", "failed"}
  /\ task \in Nat /\ tasks \in Seq(Task)

OneOfEachId == \A a, b \in DOMAIN docs : docs[a].id = docs[b].id => docs[a] = docs[b]

\* Meilisearch works its tasks in their order.
InTurn ==
  \A a, b \in DOMAIN tasks :
    a < b /\ tasks[b].status # "enqueued" => tasks[a].status # "enqueued"

\* The task waited for is the last, and holds the next documents, or follows the last of them.
Waited ==
  phase = "wait" =>
    /\ task \in DOMAIN tasks /\ task = Len(tasks)
    /\ tasks[task].payload = Settings => start >= Len(docs)
    /\ tasks[task].payload # Settings =>
         LET sent == ToSet(tasks[task].payload)
         IN /\ \A d \in sent : \E k \in DOMAIN docs : d = docs[k]
            /\ \A k \in DOMAIN docs : start < k /\ k <= start + IndexBatch => docs[k] \in sent
            /\ tasks[task].status = "succeeded" => sent \subseteq index

\* Once a batch is indexed nothing of an earlier run is left to work.
Indexed ==
  phase \in {"send", "wait", "ok"} /\ start > 0 =>
    /\ \A k \in DOMAIN docs : k <= start => docs[k] \in index
    /\ \A k \in DOMAIN tasks : tasks[k].status = "enqueued" => phase = "wait" /\ k = task

AllSent ==
  /\ phase = "read" => start = 0
  /\ phase = "ok" => start >= Len(docs)

IndexInv == IndexTypes /\ OneOfEachId /\ InTurn /\ Waited /\ Indexed /\ AllSent

\* Nothing is read or sent at the start of an index run.
LEMMA InitIndexInv == IndexInit => IndexInv
  BY EmptySeq, IndexAssumption
  DEF IndexInit, IndexInv, IndexTypes, OneOfEachId, InTurn, Waited, Indexed, AllSent

\* A reading has each document once.
LEMMA ReadStep == IndexInv /\ readDocs => IndexInv'
  <1> SUFFICES ASSUME IndexInv, readDocs PROVE IndexInv'
    OBVIOUS
  <1>1. CASE docs' = docs /\ phase' = "failed"
    BY <1>1 DEF readDocs, IndexInv, IndexTypes, OneOfEachId, InTurn, Waited, Indexed, AllSent
  <1>2. ASSUME NEW s \in Snapshots, docs' \in SetToSeqs(s), phase' = "send" PROVE IndexInv'
    <2>1. Cardinality(s) \in Nat
      BY IndexAssumption, FS_CardinalityType
    <2>2. docs' \in Seq(s)
      BY <1>2, <2>1, SeqDef DEF SetToSeqs
    <2>3. \A k \in DOMAIN docs' : docs'[k] \in s
      BY <2>2, LenProperties
    <2>4. docs' \in Seq(Document)
      BY <2>2, SeqDef DEF Document
    <2>5. OneOfEachId'
      BY <2>3, IndexAssumption DEF OneOfEachId
    <2>6. IndexTypes'
      BY <1>2, <2>4 DEF readDocs, IndexInv, IndexTypes
    <2>7. InTurn'
      BY DEF readDocs, IndexInv, InTurn
    <2> QED
      BY <1>2, <2>5, <2>6, <2>7 DEF readDocs, IndexInv, Waited, Indexed, AllSent
  <1> QED
    BY <1>1, <1>2 DEF readDocs

\* What the next payload holds, in front of the request that sends it.
Fits(payload) ==
  /\ payload \in Seq(Document) \cup {Settings}
  /\ payload = Settings => start >= Len(docs)
  /\ payload # Settings =>
       /\ \A d \in ToSet(payload) : \E k \in DOMAIN docs : d = docs[k]
       /\ \A k \in DOMAIN docs : start < k /\ k <= start + IndexBatch => docs[k] \in ToSet(payload)

\* A payload is appended to the tasks, whatever the runner hears of it.
LEMMA PostStep ==
  ASSUME IndexInv, phase = "send", NEW payload, Fits(payload), Post(payload)
  PROVE  IndexInv'
  <1> DEFINE entry == [payload |-> payload, status |-> "enqueued"]
  <1>1. /\ docs' = docs /\ start' = start /\ index' = index
        /\ tasks \in Seq(Task) /\ entry \in Task
    BY DEF Post, IndexInv, IndexTypes, Fits, Task
  <1>2. /\ Enqueued(payload) \in Seq(Task) /\ Len(tasks) \in Nat
        /\ DOMAIN tasks = 1..Len(tasks)
        /\ DOMAIN Enqueued(payload) = 1..Len(tasks)+1 /\ Len(Enqueued(payload)) = Len(tasks) + 1
        /\ \A k \in 1..Len(tasks) : Enqueued(payload)[k] = tasks[k]
        /\ Enqueued(payload)[Len(tasks)+1] = entry
    BY <1>1, AppendProperties, LenProperties DEF Enqueued
  <1>3. tasks' \in {tasks, Enqueued(payload)} /\ tasks' \in Seq(Task)
    BY <1>1, <1>2 DEF Post
  <1>4. IndexTypes'
    BY <1>1, <1>2, <1>3 DEF Post, IndexInv, IndexTypes
  <1>5. OneOfEachId'
    BY <1>1 DEF IndexInv, OneOfEachId
  <1>6. InTurn'
    <2>1. InTurn
      BY DEF IndexInv
    <2>2. CASE tasks' = tasks
      BY <2>1, <2>2 DEF InTurn
    <2>3. CASE tasks' = Enqueued(payload)
      BY <2>1, <2>3, <1>2 DEF InTurn
    <2> QED
      BY <1>3, <2>2, <2>3
  <1>7. CASE phase' = "failed"
    BY <1>4, <1>5, <1>6, <1>7 DEF IndexInv, Waited, Indexed, AllSent
  <1>8. CASE tasks' = Enqueued(payload) /\ task' = Len(tasks') /\ phase' = "wait"
    <2>1. task' = Len(tasks) + 1 /\ tasks'[task'] = entry
      BY <1>2, <1>8
    <2>2. Waited'
      BY <1>1, <1>2, <1>8, <2>1 DEF Fits, Waited
    <2>3. Indexed'
      BY <1>1, <1>2, <1>8, <2>1 DEF IndexInv, Indexed
    <2> QED
      BY <1>4, <1>5, <1>6, <1>8, <2>2, <2>3 DEF IndexInv, AllSent
  <1> QED
    BY <1>7, <1>8 DEF Post

\* A stretch of a sequence, by its length and what comes before it.
LEMMA Stretch ==
  ASSUME NEW S, NEW s \in Seq(S), NEW m \in Nat, NEW e \in Nat, m < e, e <= Len(s)
  PROVE  /\ SubSeq(s, m + 1, e) \in Seq(S) /\ Len(SubSeq(s, m + 1, e)) = e - m
         /\ \A k \in 1..e-m : SubSeq(s, m + 1, e)[k] = s[m + k]
  <1>1. \A k \in m+1..e : s[k] \in S
    BY ElementOfSeq, LenProperties
  <1>2. m + 1 \in Int /\ e \in Int /\ m + 1 <= e /\ e - (m + 1) + 1 = e - m
    OBVIOUS
  <1>3. /\ SubSeq(s, m + 1, e) \in Seq(S)
        /\ Len(SubSeq(s, m + 1, e)) = e - (m + 1) + 1
        /\ \A k \in 1..e-(m+1)+1 : SubSeq(s, m + 1, e)[k] = s[m + 1 + k - 1]
    BY <1>1, <1>2, SubSeqProperties
  <1>4. \A k \in 1..e-m : m + 1 + k - 1 = m + k
    OBVIOUS
  <1> QED
    BY <1>2, <1>3, <1>4

\* A batch is the next documents, the settings follow the last of them (indexBusinesses).
LEMMA SendStep == IndexInv /\ (SendBatch \/ SendSettings) => IndexInv'
  <1> SUFFICES ASSUME IndexInv, SendBatch \/ SendSettings PROVE IndexInv'
    OBVIOUS
  <1>0. docs \in Seq(Document) /\ Len(docs) \in Nat /\ DOMAIN docs = 1..Len(docs) /\ start \in Nat
    BY LenProperties DEF IndexInv, IndexTypes
  <1>1. CASE SendBatch
    <2> DEFINE last == start + IndexBatch
               end  == IF last > Len(docs) THEN Len(docs) ELSE last
               batch == SubSeq(docs, start + 1, end)
    <2>1. /\ end \in Nat /\ start < end /\ end <= Len(docs) /\ end <= start + IndexBatch
          /\ \A k \in DOMAIN docs : k <= start + IndexBatch => k <= end
      BY <1>0, <1>1, IndexAssumption DEF SendBatch
    <2> HIDE DEF end
    <2>3. /\ batch \in Seq(Document) /\ Len(batch) = end - start
          /\ \A k \in 1..end-start : batch[k] = docs[start+k]
      BY <1>0, <2>1, Stretch
    <2> HIDE DEF batch
    <2>4. DOMAIN batch = 1..end-start
      BY <2>3, LenProperties
    <2>5. \A d \in ToSet(batch) : \E k \in DOMAIN docs : d = docs[k]
      BY <1>0, <2>1, <2>3, <2>4 DEF ToSet
    <2>6. ASSUME NEW k \in DOMAIN docs, start < k, k <= start + IndexBatch
          PROVE  docs[k] \in ToSet(batch)
      <3>1. k - start \in DOMAIN batch /\ batch[k - start] = docs[k]
        BY <1>0, <2>1, <2>3, <2>4, <2>6
      <3> QED
        BY <3>1 DEF ToSet
    <2>7. batch # Settings
      BY <2>3, IndexAssumption DEF Document
    <2>8. Fits(batch)
      BY <2>3, <2>5, <2>6, <2>7 DEF Fits
    <2>9. Post(batch) /\ phase = "send"
      BY <1>1 DEF SendBatch, batch, end
    <2> QED
      BY <2>8, <2>9, PostStep
  <1>2. CASE SendSettings
    <2>1. Fits(Settings) /\ Post(Settings) /\ phase = "send"
      BY <1>2 DEF SendSettings, Fits
    <2> QED
      BY <2>1, PostStep
  <1> QED
    BY <1>1, <1>2

\* A task that succeeded brings the runner on; a failed one and the deadline end the run.
LEMMA PollStep == IndexInv /\ (Poll \/ PollFails) => IndexInv'
  <1> SUFFICES ASSUME IndexInv, Poll \/ PollFails PROVE IndexInv'
    OBVIOUS
  <1>1. /\ phase = "wait" /\ docs' = docs /\ task' = task /\ tasks' = tasks /\ index' = index
        /\ start' = start \/ Succeeded
    BY DEF Poll, PollFails, TimedOut
  <1>2. start \in Nat /\ IndexBatch \in Nat \ {0} /\ Len(docs) \in Nat /\ DOMAIN docs = 1..Len(docs)
        /\ Len(tasks) \in Nat /\ DOMAIN tasks = 1..Len(tasks)
    BY IndexAssumption, LenProperties DEF IndexInv, IndexTypes
  <1>3. OneOfEachId' /\ InTurn'
    BY <1>1 DEF IndexInv, OneOfEachId, InTurn
  <1>4. CASE tasks[task].status = "succeeded" /\ Succeeded
    <2>1. \A k \in DOMAIN tasks : tasks[k].status # "enqueued"
      BY <1>1, <1>2, <1>4 DEF IndexInv, InTurn, Waited
    <2>2. CASE tasks[task].payload = Settings
      BY <1>1, <1>2, <1>3, <1>4, <2>1, <2>2
      DEF Succeeded, IndexInv, IndexTypes, Waited, Indexed, AllSent
    <2>3. CASE tasks[task].payload # Settings
      <3>1. phase' = "send" /\ start' = start + IndexBatch
        BY <1>4, <2>3 DEF Succeeded
      <3>2. \A k \in DOMAIN docs : k <= start' => docs[k] \in index
        BY <1>1, <1>2, <1>4, <2>3, <3>1 DEF IndexInv, Waited, Indexed
      <3> QED
        BY <1>1, <1>2, <1>3, <2>1, <3>1, <3>2
        DEF IndexInv, IndexTypes, Waited, Indexed, AllSent
    <2> QED
      BY <2>2, <2>3
  <1>5. CASE phase' \in {"wait", "failed"} /\ start' = start
    BY <1>1, <1>2, <1>3, <1>5 DEF IndexInv, IndexTypes, Waited, Indexed, AllSent
  <1> QED
    BY <1>1, <1>4, <1>5 DEF Poll, PollFails, TimedOut

\* A task of this run puts its documents beside those in front of it; an earlier one is
\* worked before this run has indexed anything.
LEMMA WorkStep == IndexInv /\ Work => IndexInv'
  <1> SUFFICES ASSUME IndexInv, Work PROVE IndexInv'
    OBVIOUS
  <1>1. UNCHANGED RunnerVars
    BY DEF Work
  <1>2. PICK k \in DOMAIN tasks :
          /\ tasks[k].status = "enqueued" /\ \A j \in 1..k-1 : tasks[j].status # "enqueued"
          /\ \E status \in {"succeeded", "failed"} :
               /\ tasks' = [tasks EXCEPT ![k].status = status]
               /\ index' =
                    IF status = "failed" \/ tasks[k].payload = Settings THEN index
                    ELSE LET sent == ToSet(tasks[k].payload)
                         IN {d \in index : \A e \in sent : d.id # e.id} \cup sent
    BY DEF Work
  <1>3. PICK status \in {"succeeded", "failed"} :
               /\ tasks' = [tasks EXCEPT ![k].status = status]
               /\ index' =
                    IF status = "failed" \/ tasks[k].payload = Settings THEN index
                    ELSE LET sent == ToSet(tasks[k].payload)
                         IN {d \in index : \A e \in sent : d.id # e.id} \cup sent
    BY <1>2
  <1>4. /\ tasks \in Seq(Task) /\ Len(tasks) \in Nat /\ DOMAIN tasks = 1..Len(tasks)
        /\ tasks \in [1..Len(tasks) -> Task] /\ k \in 1..Len(tasks)
    BY LenProperties DEF IndexInv, IndexTypes
  <1>5. [tasks[k] EXCEPT !.status = status] \in Task
    BY <1>4 DEF Task
  <1>6. /\ tasks' \in Seq(Task) /\ Len(tasks') = Len(tasks) /\ DOMAIN tasks' = DOMAIN tasks
        /\ tasks'[k].status = status /\ tasks'[k].payload = tasks[k].payload
        /\ \A j \in DOMAIN tasks : j # k => tasks'[j] = tasks[j]
    <2>1. tasks' = [tasks EXCEPT ![k] = [tasks[k] EXCEPT !.status = status]]
      BY <1>3, <1>4
    <2>2. tasks' \in Seq(Task) /\ Len(tasks') = Len(tasks)
      BY <1>4, <1>5, <2>1, ExceptSeq
    <2>3. tasks'[k] = [tasks[k] EXCEPT !.status = status]
      BY <1>4, <2>1
    <2>4. tasks[k] \in Task
      BY <1>4
    <2>5. tasks'[k].status = status /\ tasks'[k].payload = tasks[k].payload
      BY <2>3, <2>4 DEF Task
    <2> QED
      BY <1>4, <2>1, <2>2, <2>5
  <1>7. /\ docs' = docs /\ start' = start /\ phase' = phase /\ task' = task
        /\ start \in Nat /\ DOMAIN docs' = DOMAIN docs
    BY <1>1 DEF RunnerVars, IndexInv, IndexTypes
  <1>8. IndexTypes' /\ OneOfEachId' /\ AllSent'
    BY <1>6, <1>7 DEF IndexInv, IndexTypes, OneOfEachId, AllSent
  <1>9. InTurn'
    BY <1>2, <1>4, <1>6 DEF IndexInv, InTurn
  <1>10. Waited'
    <2> SUFFICES ASSUME phase = "wait" PROVE Waited'
      BY <1>7 DEF Waited
    <2>1. tasks'[task].payload = tasks[task].payload /\ task \in DOMAIN tasks /\ task = Len(tasks)
      BY <1>6 DEF IndexInv, Waited
    <2>2. ASSUME tasks'[task].payload # Settings, tasks'[task].status = "succeeded"
          PROVE  ToSet(tasks'[task].payload) \subseteq index'
      <3>1. k = task
        BY <1>2, <1>4, <1>6, <2>1, <2>2 DEF IndexInv, InTurn
      <3> QED
        BY <1>3, <1>6, <2>1, <2>2, <3>1
    <2> QED
      BY <1>6, <1>7, <2>1, <2>2 DEF IndexInv, Waited
  <1>11. Indexed'
    <2> SUFFICES ASSUME phase \in {"send", "wait", "ok"}, start > 0
                 PROVE  /\ \A m \in DOMAIN docs : m <= start => docs[m] \in index'
                        /\ \A j \in DOMAIN tasks : tasks'[j].status = "enqueued" =>
                             phase = "wait" /\ j = task
      BY <1>6, <1>7 DEF Indexed
    <2>1. phase = "wait" /\ k = task
      BY <1>2 DEF IndexInv, Indexed
    <2>2. ASSUME NEW m \in DOMAIN docs, m <= start PROVE docs[m] \in index'
      <3>1. docs[m] \in index
        BY <2>2 DEF IndexInv, Indexed
      <3>2. CASE status = "failed" \/ tasks[k].payload = Settings
        BY <1>3, <3>1, <3>2
      <3>3. CASE status # "failed" /\ tasks[k].payload # Settings
        <4> DEFINE sent == ToSet(tasks[k].payload)
        <4>1. index' = {d \in index : \A e \in sent : d.id # e.id} \cup sent
          BY <1>3, <3>3
        <4>2. \A e \in sent : e.id = docs[m].id => e = docs[m]
          BY <2>1, <2>2, <3>3 DEF IndexInv, Waited, OneOfEachId
        <4> HIDE DEF sent
        <4> QED
          BY <3>1, <4>1, <4>2
      <3> QED
        BY <3>2, <3>3
    <2> QED
      BY <1>6, <2>1, <2>2, <1>3 DEF IndexInv, Indexed
  <1> QED
    BY <1>8, <1>9, <1>10, <1>11 DEF IndexInv

\* Another run begins with nothing read; the tasks are what they were.
LEMMA AgainStep == IndexInv /\ IndexAgain => IndexInv'
  BY EmptySeq DEF IndexAgain, IndexInv, IndexTypes, OneOfEachId, InTurn, Waited, Indexed, AllSent

\* The invariant of the index holds in every reachable state.
LEMMA IndexInvariance == IndexSpec => []IndexInv
  <1>1. ASSUME IndexInv, [IndexStep]_indexVars PROVE IndexInv'
    <2>1. CASE IndexStep
      BY <1>1, <2>1, ReadStep, SendStep, PollStep, WorkStep, AgainStep DEF IndexStep, indexBusinesses
    <2>2. CASE UNCHANGED indexVars
      BY <1>1, <2>2
      DEF indexVars, IndexInv, IndexTypes, OneOfEachId, InTurn, Waited, Indexed, AllSent
    <2> QED
      BY <1>1, <2>1, <2>2
  <1> QED
    BY <1>1, InitIndexInv, PTL DEF IndexSpec

\* What a run reports as indexed is in the index as it was read, whatever earlier runs gave
\* up waiting for (indexBusinesses, waitTask).
THEOREM IndexHoldsWhatWasRead == IndexSpec => []IndexedAsRead
  <1>1. ASSUME IndexInv, phase = "ok" PROVE ToSet(docs) \subseteq index
    <2> SUFFICES ASSUME NEW k \in DOMAIN docs PROVE docs[k] \in index
      BY DEF ToSet
    <2>1. DOMAIN docs = 1..Len(docs) /\ Len(docs) \in Nat /\ start \in Nat
      BY <1>1, LenProperties DEF IndexInv, IndexTypes
    <2>2. k <= start /\ start > 0
      BY <1>1, <2>1 DEF IndexInv, AllSent
    <2> QED
      BY <1>1, <2>2 DEF IndexInv, Indexed
  <1>2. IndexInv => IndexedAsRead
    BY <1>1 DEF IndexedAsRead
  <1> QED
    BY <1>2, IndexInvariance, PTL
=============================================================================
