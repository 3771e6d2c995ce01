----------------------------- MODULE BenchRunner -----------------------------
(***************************************************************************)
(* One call of the bench runner: the same tests under two or three arms,   *)
(* and the verdict its report draws from them.  An arm is a search service *)
(* of its own, but services may share one configuration in memory, which   *)
(* the runner goes on changing; and any search may fail.                   *)
(*                                                                         *)
(* Means and pass rates are compared exactly: a difference below the       *)
(* tolerances of the reports is none.  Metrics are whole numbers.          *)
(***************************************************************************)
EXTENDS Integers, SequencesExt

CONSTANTS
  Benches,   \* flags, test sets and what a search answers to them
  Failed     \* the row of a search that failed

\* rating and distance of signal_formulas, and whether an embedder is wired.
Formulas == [rating : {"literal", "bayesian"}, distance : {"literal", "decay"}]
Setting  == [rating : {"literal", "bayesian"}, distance : {"literal", "decay"}, embedder : BOOLEAN]

Modes == [literal  |-> [rating |-> "literal",  distance |-> "literal"],
          bayesian |-> [rating |-> "bayesian", distance |-> "literal"],
          decay    |-> [rating |-> "literal",  distance |-> "decay"]]

\* An answer: names (or categories) from the top, did the pin fire, and the metrics of
\* computeMetrics that a verdict rests on.
Answer == [top : Seq(STRING), pinFired : BOOLEAN, distance : Nat, category : Nat, rating : Nat]

ASSUME RunnerAssumption ==
  \A b \in Benches :
    /\ b.opts \in DOMAIN Modes \cup {"all", "quality", "semantic"}
    /\ b.config \in Formulas /\ b.tests \in Seq([kind : STRING, expected : SUBSET STRING])
    /\ \A k \in DOMAIN b.tests, s \in Setting : b.answers[<<k, s>>] \in Answer

VARIABLES
  bench,     \* the call
  formulas,  \* signal_formulas of each configuration in memory
  arms,      \* the services built so far
  rows,      \* per arm, the answers so far
  slow,      \* searches of the semantic arm beyond engineP95Budget
  verdict    \* of the report

benchVars == <<bench, formulas, arms, rows, slow, verdict>>

Tests == bench.tests

\* A service: the configuration it points to, and whether it embeds queries.
Arm(name, config, embedder) == [name |-> name, config |-> config, embedder |-> embedder]

InForce(arm) ==
  [rating |-> formulas[arm.config].rating, distance |-> formulas[arm.config].distance,
   embedder |-> arm.embedder]

RunInit ==
  /\ bench \in Benches
  /\ formulas = [c \in {"cfg"} |-> bench.config]
  /\ arms = <<>> /\ rows = <<>> /\ slow = 0 /\ verdict = "none"

Sequel == IF bench.opts = "all" THEN <<"literal", "bayesian", "decay">> ELSE <<bench.opts>>

ArmsDone == \A a \in DOMAIN rows : Len(rows[a]) = Len(Tests)

\* Mutant of NextMode: the modes are applied before the first service runs.
NextModeAtOnce ==
  /\ bench.opts \in DOMAIN Modes \cup {"all"}
  /\ ArmsDone /\ Len(arms) < Len(Sequel)
  /\ formulas' = [formulas EXCEPT !["cfg"] = Modes[Last(Sequel)]]
  /\ arms' = Append(arms, Arm(Sequel[Len(arms) + 1], "cfg", FALSE))
  /\ rows' = Append(rows, <<>>)
  /\ UNCHANGED <<bench, slow, verdict>>

\* applyMode on the one configuration all services point to, and the next service.
NextMode ==
  /\ bench.opts \in DOMAIN Modes \cup {"all"}
  /\ ArmsDone /\ Len(arms) < Len(Sequel)
  /\ LET name == Sequel[Len(arms) + 1]
     IN /\ formulas' = [formulas EXCEPT !["cfg"] = Modes[name]]
        /\ arms' = Append(arms, Arm(name, "cfg", FALSE))
  /\ rows' = Append(rows, <<>>)
  /\ UNCHANGED <<bench, slow, verdict>>

\* Two copies of the configuration, both made before the first search.
CopyConfigs ==
  /\ bench.opts = "quality" /\ DOMAIN formulas = {"cfg"}
  /\ formulas' = [c \in {"cfg", "literal", "decay"} |->
                    IF c = "cfg" THEN formulas[c] ELSE [formulas["cfg"] EXCEPT !.distance = c]]
  /\ UNCHANGED <<bench, arms, rows, slow, verdict>>

NextCopy ==
  /\ bench.opts = "quality" /\ DOMAIN formulas # {"cfg"}
  /\ ArmsDone /\ Len(arms) < 2
  /\ LET name == <<"literal", "decay">>[Len(arms) + 1]
     IN arms' = Append(arms, Arm(name, name, FALSE))
  /\ rows' = Append(rows, <<>>)
  /\ UNCHANGED <<bench, formulas, slow, verdict>>

SemanticArms ==
  /\ bench.opts = "semantic" /\ arms = <<>>
  /\ arms' = <<Arm("off", "cfg", FALSE), Arm("on", "cfg", TRUE)>>
  /\ rows' = <<<<>>, <<>>>>
  /\ UNCHANGED <<bench, formulas, slow, verdict>>

Searched(arm, k) == {bench.answers[<<k, InForce(arm)>>], Failed}

\* One test through the last service.
runOne ==
  /\ bench.opts # "semantic" /\ ~ArmsDone
  /\ \E answer \in Searched(Last(arms), Len(Last(rows)) + 1) :
       rows' = [rows EXCEPT ![Len(rows)] = Append(@, answer)]
  /\ UNCHANGED <<bench, formulas, arms, slow, verdict>>

\* Mutant of Paired: an arm that failed is a miss of that arm.
PairedApart(off, on) == <<off, on>>

\* A failure of either arm is the error of the whole row.
Paired(off, on) == IF Failed \in {off, on} THEN <<Failed, Failed>> ELSE <<off, on>>

runSemanticOne ==
  /\ bench.opts = "semantic" /\ ~ArmsDone
  /\ \E off \in Searched(arms[1], Len(rows[1]) + 1), on \in Searched(arms[2], Len(rows[2]) + 1) :
       LET pair == Paired(off, on)
       IN /\ rows' = [k \in 1..2 |-> Append(rows[k], pair[k])]
          /\ slow' \in IF pair[2] = Failed THEN {slow} ELSE {slow, slow + 1}
  /\ UNCHANGED <<bench, formulas, arms, verdict>>
-----------------------------------------------------------------------------
topK == 3

\* score, and scoreSemantic, whose tests are all of the second sort.
Passes(k, row) ==
  /\ row # Failed
  /\ IF Tests[k].kind = "over_fire" THEN ~row.pinFired
     ELSE \E j \in DOMAIN row.top : j <= topK /\ row.top[j] \in Tests[k].expected

PassN(arm) == Cardinality({k \in DOMAIN arm : Passes(k, arm[k])})

\* writeCommentary: the first arm, until one passes more.
best ==
  CHOOSE k \in DOMAIN rows : /\ \A j \in DOMAIN rows : PassN(rows[j]) <= PassN(rows[k])
                             /\ \A j \in 1..k-1 : PassN(rows[j]) < PassN(rows[k])

\* The rows aggregateQuality averages.
Scored(arm) == {k \in DOMAIN arm : arm[k] # Failed /\ arm[k].top # <<>>}

\* Category precision is a mean over the queries that expect a category.
Averaged(f, arm) == {k \in Scored(arm) : f = "category" => Tests[k].expected # {}}

\* The sum of a metric, as the number of its units.
SumOf(f, arm) == Cardinality(UNION {{k} \X (1..arm[k][f]) : k \in Averaged(f, arm)})

\* A mean of no rows is 0.
CountOf(f, arm) == IF Averaged(f, arm) = {} THEN 1 ELSE Cardinality(Averaged(f, arm))

\* Mutant of MeanLess: rows without a result count in the divisor.
MeanLessOverAll(f, arm, other) == SumOf(f, arm) * Len(other) < SumOf(f, other) * Len(arm)

\* How the mean of one arm compares with that of another.
MeanLess(f, arm, other) == SumOf(f, arm) * CountOf(f, other) < SumOf(f, other) * CountOf(f, arm)

\* writeABRead: decay tightens locality at no cost.
Flips(literal, decay) ==
  /\ MeanLess("distance", decay, literal)
  /\ ~MeanLess("category", decay, literal) /\ ~MeanLess("rating", decay, literal)

pctl95(n) == (95 * (n - 1)) \div 100

\* writeSemanticRecommendation over the rows without an error.
Goes ==
  LET total == Cardinality({k \in DOMAIN rows[2] : rows[2][k] # Failed})
  IN /\ total > 0
     /\ 10 * (PassN(rows[2]) - PassN(rows[1])) >= total
     /\ pctl95(total) < total - slow

Report ==
  /\ verdict = "none" /\ arms # <<>> /\ ArmsDone
  /\ CASE bench.opts = "semantic" -> verdict' = IF Goes THEN "GO" ELSE "NO-GO"
       [] bench.opts = "quality" -> /\ Len(arms) = 2
                                    /\ verdict' = IF Flips(rows[1], rows[2]) THEN "flip" ELSE "keep"
       [] OTHER -> Len(arms) = Len(Sequel) /\ verdict' = arms[best].name
  /\ UNCHANGED <<bench, formulas, arms, rows, slow>>

RunnerStep ==
  NextMode \/ CopyConfigs \/ NextCopy \/ SemanticArms \/ runOne \/ runSemanticOne \/ Report

RunnerSpec == RunInit /\ [][RunnerStep]_benchVars
-----------------------------------------------------------------------------
\* What an arm is there to measure.
Named(arm) ==
  IF bench.opts \in {"quality", "semantic"}
  THEN [rating |-> bench.config.rating, embedder |-> arm.embedder,
        distance |-> IF bench.opts = "quality" THEN arm.name ELSE bench.config.distance]
  ELSE [rating |-> Modes[arm.name].rating, distance |-> Modes[arm.name].distance, embedder |-> FALSE]

\* Every row of an arm was measured under the settings the report gives the arm, although
\* the services of -formula=all point to one configuration that the runner changes for the
\* next of them (main.go runComparison, applyMode; quality.go runQuality).
RowsMeasureTheirArm ==
  \A a \in DOMAIN arms : \A k \in DOMAIN rows[a] :
    rows[a][k] \in {bench.answers[<<k, Named(arms[a])>>], Failed}

\* The rows an arm has when no search fails.
Measured(arm) == [k \in DOMAIN Tests |-> bench.answers[<<k, Named(arm)>>]]

Better(k, a) == Passes(k, Measured(arms[a])[k]) /\ ~Passes(k, Measured(arms[1])[k])

\* Query k is answered from nearer under decay; or one arm alone has results for it, and
\* they are farther than the mean of decay or nearer than that of literal.
Tightens(k) ==
  LET In(a)       == k \in Scored(rows[a])
      distance(a) == Measured(arms[a])[k].distance
  IN \/ In(1) /\ In(2) /\ distance(2) < distance(1)
     \/ In(1) /\ ~In(2) /\ SumOf("distance", rows[2]) < distance(1) * CountOf("distance", rows[2])
     \/ ~In(1) /\ In(2) /\ distance(2) * CountOf("distance", rows[1]) < SumOf("distance", rows[1])

\* What an argument for a change rests on, whatever searches failed.  GO: a test that passes
\* with the embedder and not without, for a failure costs both arms the row.  A best mode: a
\* test it passes and literal does not, or whose search failed under literal.  A flip: a query
\* answered from nearer under decay, or one that only one arm averages, because it has no
\* results or no row in the other; where both arms average the same queries and none of them
\* got nearer, no flip is argued (semantic.go runSemanticOne, tallySemantic; main.go
\* writeCommentary; quality_report.go aggregateQuality, writeABRead).
VerdictEarned ==
  CASE verdict = "GO" -> \E k \in DOMAIN Tests : Better(k, 2)
    [] verdict = "flip" -> \E k \in DOMAIN Tests : Tightens(k)
    [] verdict \in {"bayesian", "decay"} /\ Len(arms) > 1 ->
         \E a \in DOMAIN arms, k \in DOMAIN Tests :
           /\ arms[a].name = verdict /\ Passes(k, rows[a][k])
           /\ Better(k, a) \/ rows[1][k] = Failed
    [] OTHER -> TRUE
=============================================================================
