------------------------------ MODULE MCClients ------------------------------
(***************************************************************************)
(* What searches: the search page, the load generator and the bench        *)
(* runner, with the index it fills.  A behaviour is about one of them.     *)
(***************************************************************************)
EXTENDS SearchPage, LoadBench, BenchRunner, MeiliIndex

VARIABLE subject
-----------------------------------------------------------------------------
(* Benches of two tests - one over_fire probe and one with an expected     *)
(* name - under the three modes, for each combination of what they find;   *)
(* of two queries whose metrics depend on the distance formula, one of     *)
(* which expects a category; of three queries with and without an          *)
(* embedder; and a single mode.  The configuration has the smoothed rating *)
(* switched on, so that a setting that is not applied shows.               *)

Loaded == [rating |-> "bayesian", distance |-> "literal"]

Found(pass, distance, quality) ==
  [top |-> IF pass THEN <<"x", "sought">> ELSE <<"x">>, pinFired |-> ~pass,
   distance |-> distance, category |-> quality, rating |-> quality]

Nothing == [top |-> <<>>, pinFired |-> FALSE, distance |-> 0, category |-> 0, rating |-> 0]

Names(kind) == [kind |-> kind, expected |-> {"sought"}]
Vibe        == [kind |-> "vibe", expected |-> {}]

Bench(opts, tests, answers) ==
  [opts |-> opts, config |-> Loaded, tests |-> tests, answers |-> answers]

ModeBenches ==
  {Bench(o, <<Names("over_fire"), Names("typo")>>,
         [ks \in (1..2) \X Setting |->
            Found(p[ks[1], [rating |-> ks[2].rating, distance |-> ks[2].distance]], 1, 1)]) :
      o \in {"decay", "all"}, p \in [(1..2) \X Formulas -> BOOLEAN]}

QualityBenches ==
  {Bench("quality", <<Names("category"), Vibe>>,
         [ks \in (1..2) \X Setting |->
            IF ks[2].rating = "literal" THEN Nothing ELSE m[ks[1], ks[2].distance]]) :
      m \in [(1..2) \X {"literal", "decay"} ->
               {Found(TRUE, 1, 1), Found(TRUE, 4, 1), Found(TRUE, 4, 0), Nothing}]}

SemanticBenches ==
  {Bench("semantic", <<Names("q"), Names("q"), Names("q")>>,
         [ks \in (1..3) \X Setting |-> Found(p[ks[1], ks[2].embedder], 1, 1)]) :
      p \in [(1..3) \X BOOLEAN -> BOOLEAN]}

MCBenches == ModeBenches \cup QualityBenches \cup SemanticBenches
-----------------------------------------------------------------------------
(* Three rows in batches of two, a later reading with a new text and a row *)
(* less, and an empty table.                                               *)

Doc(id, version) == [id |-> id, version |-> version]

MCSnapshots == {{Doc("a", "old"), Doc("b", "old"), Doc("c", "old")},
                {Doc("a", "new"), Doc("b", "old")}, {}}
-----------------------------------------------------------------------------
(* The subjects a behaviour is not about have nothing left to do.          *)

NoWindow ==
  /\ n = 0 /\ i = 1 /\ pc = "returned" /\ worker = [k \in Requests |-> "none"]
  /\ out = {} /\ closed = TRUE /\ dropped = 0 /\ samples = {}

NoBench ==
  /\ bench = CHOOSE b \in QualityBenches : TRUE
  /\ formulas = [c \in {"cfg"} |-> Loaded]
  /\ arms = <<>> /\ rows = <<>> /\ slow = 0 /\ verdict = "none"

MCInit ==
  /\ subject \in {"page", "window", "bench", "index"}
  /\ Init /\ IndexInit
  /\ IF subject = "window" THEN WindowInit ELSE NoWindow
  /\ IF subject = "bench" THEN RunInit ELSE NoBench

MCNext ==
  /\ \/ subject = "page"   /\ Next       /\ UNCHANGED <<windowVars, benchVars, indexVars>>
     \/ subject = "window" /\ WindowStep /\ UNCHANGED <<vars, benchVars, indexVars>>
     \/ subject = "bench"  /\ RunnerStep /\ UNCHANGED <<vars, windowVars, indexVars>>
     \/ subject = "index"  /\ IndexStep  /\ UNCHANGED <<vars, windowVars, benchVars>>
  /\ UNCHANGED subject

MCFairness ==
  /\ WF_vars(RunEffect) /\ \A k \in Effects : WF_vars(Progress(k))
  /\ WF_windowVars(Dispatcher)
  /\ \A k \in Requests : WF_windowVars(doRequest(k) \/ Release(k))

MCSpec ==
  MCInit /\ [][MCNext]_<<subject, vars, windowVars, benchVars, indexVars>> /\ MCFairness
=============================================================================
