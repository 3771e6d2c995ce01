-------------------------------- MODULE MCRank --------------------------------
(***************************************************************************)
(* A call of rank.Run on short lists and, apart from it, the merges of its *)
(* tie-break on a longer one and the score of a business that grows.  A    *)
(* behaviour is about one of them, so that their states add up and do not  *)
(* multiply.                                                               *)
(***************************************************************************)
EXTENDS RankRun, StableTieBreak, Scores

VARIABLE subject

MCInfinity == 100
-----------------------------------------------------------------------------
(* Calls.  Ties: three candidates whose scores lie within and beyond       *)
(* Epsilon = 2 of each other, all claimed flags, two distances.  De-pin:   *)
(* four candidates, new and established, with scores within and beyond the *)
(* swap window, some of them closed in an archetype that hard-filters; the *)
(* pin may itself be new, or closed.                                       *)

Row(id, score, claimed, dist, isNew, dropped) ==
  [id |-> id, name |-> id, score |-> score, claimed |-> claimed, dist |-> dist,
   reviews |-> IF isNew THEN 3 ELSE 20, isNew |-> isNew, dropped |-> dropped]

TieRows(id) == {Row(id, score, claimed, dist, FALSE, FALSE) :
                  score \in 0..3, claimed \in BOOLEAN, dist \in 1..2}

TieInputs == {<<a, b, c>> : a \in TieRows(1), b \in TieRows(2), c \in TieRows(3)}

\* The exact-name query returns a distance sentinel instead of a distance.
TiePins == {Row(2, 1, FALSE, 1000, FALSE, FALSE), Row(4, 0, TRUE, 1000, FALSE, FALSE)}

DePinRows(id) == {Row(id, score, FALSE, 1, isNew, FALSE) : score \in {0, 2, 3}, isNew \in BOOLEAN}
                   \cup {Row(id, 2, FALSE, 1, FALSE, TRUE)}

DePinInputs ==
  {<<a, b, c, d>> : a \in DePinRows(1), b \in DePinRows(2), c \in DePinRows(3), d \in DePinRows(4)}

DePinPins == {Row(2, 2, FALSE, 1, TRUE, FALSE), Row(5, 2, FALSE, 1, FALSE, TRUE)}

MCInputs == TieInputs \cup DePinInputs
MCPins   == TiePins \cup DePinPins

-----------------------------------------------------------------------------
(* Merges.  Five results in blocks of two - two merges at one size, one at *)
(* the next - over descending scores and all claimed flags; the first may  *)
(* be the pin.  The ids run against the order of the list, so that the     *)
(* last tie key is at work.                                                *)

MergeRow(id, score, claimed) == Row(id, score, claimed, 1, FALSE, FALSE)

Descending == {f \in [1..5 -> 0..3] : \A k \in 1..4 : f[k] >= f[k+1]}

Unpinned == {[k \in 1..5 |-> MergeRow(6 - k, f[k], c[k])] : f \in Descending, c \in [1..5 -> BOOLEAN]}

MCLists == Unpinned \cup {[s EXCEPT ![1] = Pinned(s[1])] : s \in Unpinned}

MCCandidate ==
  UNION {TieRows(id) \cup DePinRows(id) : id \in 1..5} \cup MCPins
    \cup {MergeRow(id, score, claimed) : id \in 1..5, score \in 0..3, claimed \in BOOLEAN}
-----------------------------------------------------------------------------
(* Scores.  The shipped ranking.yaml with its literal formulas and with    *)
(* the alternatives, and files that validate rejects, of a rating mode of  *)
(* their own or without signals; one archetype per treatment of the open   *)
(* status, and one the file lacks.                                         *)

Weights(distance, rating, popularity, friends, claimed, photos, open_status) ==
  [distance |-> distance, rating |-> rating, popularity |-> popularity, friends |-> friends,
   claimed |-> claimed, photos |-> photos, open_status |-> open_status]

Shipped(rating, source, distance) ==
  [signals |-> <<"distance", "rating", "popularity", "friends", "claimed", "photos", "open_status">>,
   rating |-> rating, source |-> source, prior_strength |-> 20, global_mean |-> 43,
   distance |-> distance,
   distance_decay_km |-> [low_stakes_fast_nearby |-> 8, medium_stakes_occasion |-> 16,
                          high_stakes_one_time |-> 80, other |-> 0],
   global_max_reviews |-> 10000, photo_demotion_below_3 |-> 250, friends_full_credit |-> 5,
   open_status |-> [closed |-> 0, later |-> 300, open |-> 1000, unknown |-> 700],
   rating_demote_factor |-> 85,
   archetypes |->
     [low_stakes_fast_nearby |-> [weights |-> Weights(25, 18, 19, 12, 1, 10, 15), open_status |-> "hard_filter"],
      medium_stakes_occasion |-> [weights |-> Weights(10, 25, 25, 15, 3, 12, 10), open_status |-> "soft"],
      high_stakes_one_time   |-> [weights |-> Weights(4, 26, 25, 16, 12, 15, 2), open_status |-> "ignore"]]]

MCConfigs ==
  [literal |-> Shipped("literal", "google_rating", "literal"),
   decay   |-> Shipped("literal", "google_rating", "decay"),
   google  |-> Shipped("bayesian", "google_rating", "literal"),
   lemon   |-> Shipped("bayesian", "lemon_score", "literal"),
   average |-> Shipped("average", "google_rating", "literal"),
   empty   |-> [Shipped("literal", "google_rating", "literal") EXCEPT !.signals = <<>>]]

\* 1000 * ln(1 + n), and 1000 * exp(-km / decay).
MCLog1p == 1 :> 693 @@ 9 :> 2302 @@ 10 :> 2397 @@ 10000 :> 9210 @@ 20000 :> 9903

MCExp == [dk \in {0, 1000, 1000000} \X {8, 16, 80} |->
            CASE dk[1] = 0 -> 1000
              [] dk[1] = 1000 -> (8 :> 286 @@ 16 :> 535 @@ 80 :> 882)[dk[2]]
              [] OTHER -> 0]

Steps(s) == {<<s[k], s[k+1]>> : k \in 1..Len(s) - 1}

MCBetter ==
  [dist |-> Steps(<<1000000, 1000, 0>>), reviews |-> Steps(<<0, 9, 10, 20000>>),
   friends |-> Steps(<<0, 4, 6>>), photos |-> Steps(<<2, 3>>), claimed |-> {<<FALSE, TRUE>>},
   status |-> Steps(<<"closed", "later", "open">>)]

\* Unrated, good in one rating only, good in both.
MCRatings == {<<Null, Null>>, <<100, 30>>, <<90, 50>>}

MCNewcomers ==
  {[archetype |-> a, dist |-> 1000000, lemon_score |-> r[1], google_rating |-> r[2], reviews |-> 0,
    friends |-> 0, claimed |-> FALSE, photos |-> 2, status |-> o] :
      a \in {"low_stakes_fast_nearby", "medium_stakes_occasion", "high_stakes_one_time", "other"},
      r \in MCRatings, o \in {"closed", "unknown"}}
-----------------------------------------------------------------------------
AnInput == CHOOSE s \in Inputs : TRUE

\* Each family of calls with its own pins.
RunInit ==
  /\ subject = "run" /\ Init
  /\ pin \in TiePins => Len(candidates) = 3
  /\ pin \in DePinPins => Len(candidates) = 4

NoRun == pc = "start" /\ candidates = AnInput /\ pin = NoPin /\ list = <<>> /\ i = 0 /\ j = 0

NoSort == results = <<>> /\ size = BlockSize /\ lo = 0 /\ phase = "blocks" /\ calls = {}

NoScore == file = "empty" /\ biz = CHOOSE b \in Newcomers : TRUE

MCInit ==
  \/ RunInit /\ NoSort /\ NoScore
  \/ subject = "sort" /\ SortInit /\ NoRun /\ NoScore
  \/ subject = "score" /\ LoadConfig /\ NoRun /\ NoSort

scoreVars == <<file, biz>>

MCNext ==
  /\ \/ subject = "run"   /\ Next /\ UNCHANGED <<sortVars, scoreVars>>
     \/ subject = "sort"  /\ SliceStable /\ UNCHANGED <<vars, scoreVars>>
     \/ subject = "score" /\ Grow /\ UNCHANGED <<vars, sortVars>>
  /\ UNCHANGED subject

MCSpec == MCInit /\ [][MCNext]_<<subject, vars, sortVars, scoreVars>>
=============================================================================
