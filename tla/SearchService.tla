---------------------------- MODULE SearchService ----------------------------
(***************************************************************************)
(* One GET /search request from the handler through search.Service.Search: *)
(* intent, query embedding, two reads of the database - retrieval and the  *)
(* exact-name lookup - ranking and the removal of namesakes.  The service  *)
(* keeps no state between requests.  The two reads are two statements      *)
(* without a transaction around them, so a load of the catalog may commit  *)
(* in between (Ingest).                                                    *)
(*                                                                         *)
(* Which rows the arms of search_candidates and the name predicates match  *)
(* is a constant of the query; the order of recall is any order.           *)
(***************************************************************************)
EXTENDS Ranking

CONSTANTS
  Catalogs,        \* contents of the businesses table, sets of candidates
  MaxReloads,      \* bound on the loads that commit during the request
  Queries,         \* queries with text
  Blank,           \* a query that is empty once trimmed
  Categorical,     \* queries that name a category, a set of queries
  Lexical,         \* rows the lexical arms recall for a query
  Semantic,        \* rows only the vector arm recalls for a query
  Passing,         \* rows that pass the filters of the query's intent overlay
  Named,           \* rows whose name matches a query
  NameKey,         \* strings.ToLower(strings.TrimSpace(name))
  FarAway,         \* 1e9, the distance of an exact-name hit
  CandidateLimit,  \* candidateLimit
  ResultLimit,     \* resultLimit
  MaxNameMatches   \* maxNameMatches

ASSUME SearchAssumption ==
  /\ \A t \in Catalogs :
       t \subseteq Candidate /\ IsFiniteSet(t) /\ \A a, b \in t : a.id = b.id => a = b
  /\ MaxReloads \in Nat /\ Blank \notin Queries /\ Categorical \subseteq Queries
  /\ {Lexical, Semantic, Passing, Named} \subseteq [Queries -> SUBSET Candidate]
  /\ FarAway \in Int /\ MaxNameMatches \in Nat
  /\ CandidateLimit \in Nat \ {0} /\ ResultLimit \in Nat \ {0}

VARIABLES
  catalog, reloads,        \* the table and the loads that committed so far
  svc, intentEnabled, embedder,   \* what the composition root wired
  q, validParams,          \* the request
  pc,
  categorical, overlay, queryVec, \* overlay and queryVec: is there one
  candidates, pin,         \* what the two reads returned
  ranked, status

settings == <<svc, intentEnabled, embedder, q, validParams>>
vars == <<catalog, reloads, settings, pc, categorical, overlay, queryVec, candidates,
          pin, ranked, status>>

AsPin(c) == [c EXCEPT !.dist = FarAway]

Init ==
  /\ catalog \in Catalogs /\ reloads = 0
  /\ svc \in BOOLEAN /\ intentEnabled \in BOOLEAN /\ embedder \in BOOLEAN
  /\ q \in Queries \cup {Blank} /\ validParams \in BOOLEAN
  /\ pc = "handle" /\ status = 0
  /\ categorical = FALSE /\ overlay = FALSE /\ queryVec = FALSE
  /\ candidates = <<>> /\ pin = NoPin /\ ranked = <<>>

Answer(code) == pc' = "answered" /\ status' = code

\* The early returns of handleSearch, in their order.
Refuse ==
  /\ pc = "handle"
  /\ \/ ~svc /\ Answer(503)
     \/ svc /\ ~validParams /\ Answer(400)
     \/ svc /\ validParams /\ q = Blank /\ Answer(200)
  /\ UNCHANGED <<catalog, reloads, settings, categorical, overlay, queryVec, candidates,
                 pin, ranked>>

Accept ==
  /\ pc = "handle"
  /\ svc /\ validParams /\ q # Blank
  /\ pc' = "intent"
  /\ UNCHANGED <<catalog, reloads, settings, categorical, overlay, queryVec, candidates,
                 pin, ranked, status>>

\* A query's overlay may be zero: then Passing[q] is every candidate.
runIntent ==
  /\ pc = "intent"
  /\ categorical' = (intentEnabled /\ q \in Categorical)
  /\ overlay' = intentEnabled
  /\ pc' = "embed"
  /\ UNCHANGED <<catalog, reloads, settings, queryVec, candidates, pin, ranked, status>>

\* An error of the embedder leaves the search without a vector.
embedQuery ==
  /\ pc = "embed"
  /\ queryVec' \in {FALSE, embedder}
  /\ pc' = "retrieve"
  /\ UNCHANGED <<catalog, reloads, settings, categorical, overlay, candidates, pin,
                 ranked, status>>

Recalled ==
  {c \in catalog : /\ c \in Lexical[q] \/ (queryVec /\ c \in Semantic[q])
                   /\ overlay => c \in Passing[q]}

LesserOf(x, y) == IF x < y THEN x ELSE y

\* The first candidateLimit rows of some order of recall.
RecallOrders ==
  {s \in [1..LesserOf(CandidateLimit, Cardinality(Recalled)) -> Recalled] :
     \A a, b \in DOMAIN s : s[a] = s[b] => a = b}

Search ==
  /\ pc = "retrieve"
  /\ candidates' \in RecallOrders
  /\ pc' = "exactName"
  /\ UNCHANGED <<catalog, reloads, settings, categorical, overlay, queryVec, pin, ranked, status>>

Matches == catalog \cap Named[q]

\* An exact-name hit that the categorical guard lets through.
found == /\ Matches # {} /\ Cardinality(Matches) <= MaxNameMatches
         /\ ~categorical

ExactName ==
  /\ pc = "exactName"
  /\ \/ ~found /\ pin' = NoPin
     \/ found /\ \E c \in Matches : pin' = AsPin(c)
  /\ pc' = "rank"
  /\ UNCHANGED <<catalog, reloads, settings, categorical, overlay, queryVec, candidates,
                 ranked, status>>

\* A statement or the ranker's look at the context fails.
Fail ==
  /\ pc \in {"retrieve", "exactName", "rank"}
  /\ Answer(500)
  /\ UNCHANGED <<catalog, reloads, settings, categorical, overlay, queryVec, candidates,
                 pin, ranked>>

Namesakes(a, b) == NameKey[a.name] = NameKey[b.name]

\* Mutant of dedupeByName: the last location of a name is kept.
dedupeKeepingLast(s, limit) ==
  truncate(Filtered(s, {k \in 1..Len(s) : ~\E m \in k+1..Len(s) : Namesakes(s[m], s[k])}), limit)

\* The positions of the names not seen before.
FirstOfName(s) == {k \in 1..Len(s) : ~\E m \in 1..k-1 : Namesakes(s[m], s[k])}

dedupeByName(s, limit) == truncate(Filtered(s, FirstOfName(s)), limit)

\* Mutant of rankLimit: the pool is cut to the answer's size before namesakes go.
rankLimitOfResults == ResultLimit

rankLimit == CandidateLimit

Rank ==
  /\ pc = "rank"
  /\ ranked' = dedupeByName(Run(candidates, pin, rankLimit), ResultLimit)
  /\ Answer(200)
  /\ UNCHANGED <<catalog, reloads, settings, categorical, overlay, queryVec, candidates, pin>>

\* A load commits: it adds rows and rewrites some, and deletes none.
Reload ==
  /\ reloads < MaxReloads /\ pc # "answered"
  /\ catalog' \in {t \in Catalogs : \A c \in catalog : \E d \in t : d.id = c.id}
  /\ reloads' = reloads + 1
  /\ UNCHANGED <<settings, pc, categorical, overlay, queryVec, candidates, pin, ranked, status>>

Next ==
  \/ Refuse \/ Accept \/ runIntent \/ embedQuery \/ Search \/ ExactName \/ Fail \/ Rank
  \/ Reload

Spec == Init /\ [][Next]_vars
-----------------------------------------------------------------------------
Ranks == pc = "answered" /\ status = 200 /\ q # Blank
Shown == {ranked[k] : k \in 1..Len(ranked)}
Eligible == {candidates[k] : k \in {m \in 1..Len(candidates) : IsKept(candidates[m])}}

\* An answer shows no business and no name twice, even when a load renames a business
\* between the two reads (service.go Search, dedupeByName, rank/scorer.go applyPin).
ShownOnce ==
  \A a, b \in 1..Len(ranked) : a # b =>
    ranked[a].id # ranked[b].id /\ ~Namesakes(ranked[a], ranked[b])

\* A chain does not crowd out others: an answer below resultLimit shows everything
\* recalled or a namesake of it (service.go Search).  With a pool of candidateLimit rows the
\* pin may push the last one off, so those pools are left out.
FreedSlotsBackfilled ==
  Ranks /\ Len(ranked) < ResultLimit /\ Len(candidates) < CandidateLimit =>
    \A c \in Eligible : \E r \in Shown : r.id = c.id \/ Namesakes(r, c)

\* The location shown for a name is near the best recalled one: the tie-break can put it
\* first, and past a new business each of the de-pin swaps can, which add up; a recalled row
\* of the pinned business is shown as the pin (dedupeByName after rank.Run).  This is about
\* pools that the tie-break sorts as one block.
ShownLocationNearBest ==
  Ranks =>
    \A r \in Shown, c \in Eligible :
      ~IsPinned(r) /\ Namesakes(r, c) /\ (pin # NoPin => c.id # pin.id) =>
        c.score - r.score <
          Epsilon + (IF c.isNew /\ SwapWindow > 0 THEN dePinTopN * SwapWindow ELSE 0)

\* The documented de-pin rule on the answer a user sees: no new business in the first two
\* places while an established one within the swap window is behind it
\* (docs/ranking/semantics.md "De-pin pass"; service.go Search).
NewBusinessesDePinnedInAnswer ==
  Ranks =>
    \A a, b \in 1..Len(ranked) :
      /\ a <= 2 /\ a < b
      /\ ranked[a].isNew /\ ~IsPinned(ranked[a]) /\ ~ranked[b].isNew
      => ranked[a].score - ranked[b].score >= SwapWindow
=============================================================================
