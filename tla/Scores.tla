-------------------------------- MODULE Scores --------------------------------
(***************************************************************************)
(* scoreCandidate under a loaded ranking.yaml, on one business that gains  *)
(* reviews, friends, photos, a claim or a nearer user, and that opens.     *)
(*                                                                         *)
(* Signals are counted in thousandths and weights in hundredths, so that   *)
(* One = 100000 is a score of 1.0; ratings are in tenths, distances in     *)
(* hundredths of a kilometer.  Quotients are rounded down.  The logarithm  *)
(* and the exponential are tables.                                         *)
(***************************************************************************)
EXTENDS Integers, SequencesExt

CONSTANTS
  Configs,   \* contents of ranking.yaml, by the name of a file
  Newcomers, \* businesses as they are at first
  Better,    \* per field: the pairs of values that are one step of growth
  Log1p,     \* math.Log1p
  Exp,       \* math.Exp(-km / decay)
  Null

VARIABLES
  file,   \* the file the server has loaded
  biz     \* the business

loaded == Configs[file]

Unit == 1000
One  == 100 * Unit

distanceCapKM == 4828

photosFullCredit == 3

Archetypes == {"low_stakes_fast_nearby", "medium_stakes_occasion", "high_stakes_one_time",
               "experiential", "recurring_service", "utility_distance_dominant"}

OpenStates == {"closed", "later", "open", "unknown"}

validate(c) ==
  /\ c.signals # <<>> /\ DOMAIN c.archetypes # {}
  /\ c.rating \in {"literal", "bayesian"}
  /\ c.rating = "bayesian" => c.source \in {"google_rating", "lemon_score"}
  /\ c.distance \in {"literal", "decay"}
  /\ \A a \in DOMAIN c.archetypes :
       a \in Archetypes /\ c.archetypes[a].open_status \in {"hard_filter", "soft", "ignore"}

\* What validate leaves unchecked and the formulas divide by.
ASSUME ConfigAssumption ==
  \A f \in DOMAIN Configs :
    /\ {Configs[f].friends_full_credit, Configs[f].prior_strength} \subseteq Nat \ {0}
    /\ Log1p[Configs[f].global_max_reviews] \in Nat \ {0}

Capped(x) == IF x > Unit THEN Unit ELSE x

literalDistance(b) ==
  IF b.dist >= distanceCapKM THEN 0 ELSE Unit - (Unit * b.dist) \div distanceCapKM

signalDistance(b, cfg) ==
  LET km == cfg.distance_decay_km[b.archetype]
  IN IF cfg.distance = "decay" /\ km > 0 THEN Exp[<<b.dist, km>>] ELSE literalDistance(b)

literalRating(b) == IF b.lemon_score = Null THEN 0 ELSE (Unit * b.lemon_score) \div 100

Rated(b, cfg) == IF cfg.source = "lemon_score" THEN b.lemon_score ELSE b.google_rating

bayesianRating(b, cfg) ==
  IF Rated(b, cfg) = Null THEN 0
  ELSE (Unit * (cfg.prior_strength * cfg.global_mean + b.reviews * Rated(b, cfg)))
         \div (50 * (cfg.prior_strength + b.reviews))

baseRating(b, cfg) == IF cfg.rating = "bayesian" THEN bayesianRating(b, cfg) ELSE literalRating(b)

\* The generated column is_new.
is_new(b) == b.reviews < 10

\* Mutant of signalRating: the established are demoted.
signalRatingFlipped(b, cfg) ==
  IF is_new(b) THEN baseRating(b, cfg)
  ELSE (baseRating(b, cfg) * cfg.rating_demote_factor) \div 100

signalRating(b, cfg) ==
  IF is_new(b) THEN (baseRating(b, cfg) * cfg.rating_demote_factor) \div 100
  ELSE baseRating(b, cfg)

\* Mutant of signalPopularity: counts above the ceiling are not clamped.
signalPopularityUnclamped(b, cfg) ==
  IF b.reviews <= 0 THEN 0
  ELSE (Unit * Log1p[b.reviews]) \div Log1p[cfg.global_max_reviews]

signalPopularity(b, cfg) ==
  IF b.reviews <= 0 THEN 0
  ELSE Capped((Unit * Log1p[b.reviews]) \div Log1p[cfg.global_max_reviews])

signalFriends(b, cfg) == Capped((Unit * b.friends) \div cfg.friends_full_credit)

signalPhotos(b, cfg) == IF b.photos >= photosFullCredit THEN Unit ELSE cfg.photo_demotion_below_3

signalValue(name, b, cfg) ==
  CASE name = "distance"    -> signalDistance(b, cfg)
    [] name = "rating"      -> signalRating(b, cfg)
    [] name = "popularity"  -> signalPopularity(b, cfg)
    [] name = "friends"     -> signalFriends(b, cfg)
    [] name = "claimed"     -> IF b.claimed THEN Unit ELSE 0
    [] name = "photos"      -> signalPhotos(b, cfg)
    [] name = "open_status" -> cfg.open_status[b.status]
    [] OTHER                -> 0

\* A row of an archetype the file does not have weighs nothing.
archetype(a, cfg) ==
  IF a \in DOMAIN cfg.archetypes THEN cfg.archetypes[a]
  ELSE [weights |-> <<>>, open_status |-> ""]

Weight(name, arch) == IF name \in DOMAIN arch.weights THEN arch.weights[name] ELSE 0

\* The weights of the signals that are summed: not the open status where it is ignored.
Weighed(name, arch) ==
  IF name = "open_status" /\ arch.open_status = "ignore" THEN 0 ELSE Weight(name, arch)

Total(terms) ==
  LET score[k \in 0..Len(terms)] == IF k = 0 THEN 0 ELSE score[k-1] + terms[k]
  IN score[Len(terms)]

scoreCandidate(b, cfg) ==
  Total([k \in DOMAIN cfg.signals |->
           Weighed(cfg.signals[k], archetype(b.archetype, cfg)) * signalValue(cfg.signals[k], b, cfg)])

\* The score of an answer: +Inf, the pin's, is shown as 1.0.
toResult(b, pinned) == IF pinned THEN One ELSE scoreCandidate(b, loaded)

LoadConfig == file \in DOMAIN Configs /\ validate(loaded) /\ biz \in Newcomers

\* A later load, a nearer user or the hour: one field changes for the better.
Grow ==
  /\ \E f \in DOMAIN Better :
       \E pair \in Better[f] : pair[1] = biz[f] /\ biz' = [biz EXCEPT ![f] = pair[2]]
  /\ UNCHANGED file

ScoreSpec == LoadConfig /\ [][Grow]_<<file, biz>>
-----------------------------------------------------------------------------
(* What the numbers mean: the contract that ranking.yaml states and no     *)
(* code checks, the scales of the dump, the tables, and what growth is.    *)

\* All the weight a file gives to the signals of an archetype.
TotalWeight(a, cfg) ==
  Total([k \in DOMAIN cfg.signals |-> Weighed(cfg.signals[k], archetype(a, cfg))])

\* "Out-of-range = bug" of a signal (docs/ranking/semantics.md:43): its constants are in 0..1.
ASSUME ContractAssumption ==
  \A f \in DOMAIN Configs :
    LET cfg == Configs[f]
    IN /\ cfg.photo_demotion_below_3 \in 0..Unit
       /\ \A s \in OpenStates : cfg.open_status[s] \in 0..Unit
       /\ cfg.rating_demote_factor \in 0..100
       /\ cfg.global_mean \in 0..50
       /\ Len(cfg.signals) \in Nat /\ DOMAIN cfg.signals = 1..Len(cfg.signals)
       /\ \A a \in DOMAIN cfg.archetypes :
            \A name \in DOMAIN cfg.archetypes[a].weights : cfg.archetypes[a].weights[name] \in Nat

\* The weights of the shipped file: no archetype's add up to more than 1, which validate
\* "does not guarantee" (config/loader.go:40).
ASSUME WeightsAssumption ==
  \A f \in DOMAIN Configs : \A a \in DOMAIN Configs[f].archetypes : TotalWeight(a, Configs[f]) <= 100

Dists    == {b.dist : b \in Newcomers} \cup {pair[2] : pair \in Better.dist}
Counts   == {b.reviews : b \in Newcomers} \cup {pair[2] : pair \in Better.reviews}
ArchetypesSeen == {b.archetype : b \in Newcomers}
Decays   == UNION {{Configs[f].distance_decay_km[a] : a \in ArchetypesSeen} : f \in DOMAIN Configs}

\* A business: its ratings are on 0..10 and 0..5 (docs/data/schema.md:57).
Business ==
  [archetype : ArchetypesSeen, dist : Dists, lemon_score : 0..100 \cup {Null},
   google_rating : 0..50 \cup {Null}, reviews : Counts, friends : Nat, claimed : BOOLEAN,
   photos : Nat, status : OpenStates]

ASSUME RowAssumption == Newcomers \subseteq Business /\ Dists \cup Counts \cup Decays \subseteq Nat

\* The logarithm never falls, the exponential is at most 1 and never rises.
ASSUME TableAssumption ==
  /\ \A n \in Counts \ {0} :
       Log1p[n] \in Nat /\ \A m \in Counts \ {0} : m <= n => Log1p[m] <= Log1p[n]
  /\ \A km \in Decays \ {0}, d \in Dists :
       Exp[<<d, km>>] \in 0..Unit /\ \A e \in Dists : e <= d => Exp[<<e, km>>] >= Exp[<<d, km>>]

\* What counts as growth, in every file.
ASSUME GrowthAssumption ==
  /\ DOMAIN Better = {"dist", "reviews", "friends", "photos", "claimed", "status"}
  /\ \A pair \in Better.dist : pair[1] >= pair[2]
  /\ \A pair \in Better.reviews : pair[1] <= pair[2]
  /\ \A pair \in Better.friends \cup Better.photos : pair \in Nat \X Nat /\ pair[1] <= pair[2]
  /\ Better.claimed \subseteq {<<FALSE, TRUE>>}
  /\ \A pair \in Better.status :
       /\ pair \in OpenStates \X OpenStates
       /\ \A f \in DOMAIN Configs : Configs[f].open_status[pair[1]] <= Configs[f].open_status[pair[2]]
-----------------------------------------------------------------------------
\* Nothing is shown with a score above that of an exact-name hit, and none below zero: the
\* clamps of the signals, the ignored open status and the weights of ranking.yaml together
\* keep every score within what toResult puts in the place of +Inf.  A prior over lemon_score
\* does not: a rating on 0..10 is divided by 5, against config/ranking.yaml:12.  (rank/signals.go, scorer.go scoreCandidate, api/search.go
\* toResult)
PinShownOnTop ==
  loaded.rating = "literal" \/ loaded.source = "google_rating" =>
    toResult(biz, FALSE) \in 0..toResult(biz, TRUE)

ConfirmedByReviews(b, cfg) ==
  cfg.rating = "literal" \/ Rated(b, cfg) = Null \/ Rated(b, cfg) >= cfg.global_mean

\* A business does not fall behind by gaining something: not where it stops being new, not
\* where a signal reaches its cap, whatever formulas are switched on; only an average below
\* the prior's mean is confirmed by more reviews (rank/signals.go).
GrowthNeverHurts ==
  [][ConfirmedByReviews(biz, loaded)
       => scoreCandidate(biz', loaded') >= scoreCandidate(biz, loaded)]_<<file, biz>>
=============================================================================
