------------------------------ MODULE Retrieval ------------------------------
(***************************************************************************)
(* search_candidates on a table that loads add rows to: the vector arm,    *)
(* the recall predicate with the overlay's clauses, the limit on what is   *)
(* recalled, the open-now filter behind it, the limit on what is returned. *)
(* Relevance, similarity and distances are small integers.  A query has    *)
(* text: the handler answers a blank one itself (SearchService).           *)
(***************************************************************************)
EXTENDS Integers, Sequences, FiniteSets

CONSTANTS
  Pool,          \* rows the table may hold
  Requests,      \* text "short" (below three letters) or "long"; vec: is there a vector; requireOpen
  Lim,           \* lim
  OverFetch,     \* 5, the factor of the limit on what is recalled
  MaxRows,       \* bound on the size of the table
  SimThreshold   \* similarity from which the operator % holds

ASSUME RetrievalAssumption ==
  /\ \A x, y \in Pool : x.id = y.id => x = y
  /\ \A r \in Pool : {r.id, r.ts, r.sim, r.reviews, r.dist} \subseteq Int
  /\ {Lim, OverFetch, MaxRows} \subseteq Nat \ {0}

VARIABLES
  businesses,    \* the rows that are there
  req,           \* the request
  semantic_ids   \* the rows the vector arm of the last search found

q_fuzzy == req.text = "long"

txt_score(r) == r.ts + (IF q_fuzzy THEN r.sim ELSE 0)

\* The order key without has_q, which all rows share.
Precedes(x, y) ==
  \/ txt_score(x) > txt_score(y)
  \/ /\ txt_score(x) = txt_score(y)
     /\ \/ x.reviews > y.reviews
        \/ x.reviews = y.reviews /\ x.dist < y.dist
        \/ x.reviews = y.reviews /\ x.dist = y.dist /\ x.id < y.id

Ahead(r, rows) == Cardinality({x \in rows : Precedes(x, r)})

Top(n, rows) == {r \in rows : Ahead(r, rows) < n}

InOrder(rows) ==
  [k \in 1..Cardinality(rows) |-> CHOOSE r \in rows : Ahead(r, rows) = k - 1]

\* What the text of the query recalls.
LexicalMatch(r) ==
  \/ r.ts > 0 \/ r.prefix
  \/ q_fuzzy /\ r.sim >= SimThreshold

\* r.passes stands for the overlay's clauses on category, tags and price.
Matching(near) == {r \in businesses : r.passes /\ (LexicalMatch(r) \/ r \in near)}

recalled(near) ==
  Top(IF req.requireOpen THEN Lim * OverFetch ELSE Lim, Matching(near))

NotClosed(rows) == {r \in rows : req.requireOpen => r.open # "closed"}

\* Mutant of answer: the second limit comes in front of the filter.
answerLimitedFirst(near) == InOrder(NotClosed(Top(Lim, recalled(near))))

answer(near) == InOrder(Top(Lim, NotClosed(recalled(near))))

TableInit == businesses = {} /\ req \in Requests /\ semantic_ids = {}

\* A load commits a row.
Load ==
  /\ Cardinality(businesses) < MaxRows
  /\ \E r \in Pool \ businesses : businesses' = businesses \cup {r}
  /\ semantic_ids' = {}
  /\ UNCHANGED req

\* The index over the embeddings is approximate: it finds some of them, Lim at the most.
Search ==
  /\ req.vec
  /\ semantic_ids' \in {near \in SUBSET {r \in businesses : r.embedded} : Cardinality(near) <= Lim}
  /\ UNCHANGED <<businesses, req>>

RetrievalSpec == TableInit /\ [][Load \/ Search]_<<businesses, req, semantic_ids>>
-----------------------------------------------------------------------------
Answer == answer(semantic_ids)

\* What would be returned if the filter came first.
Ideal == InOrder(Top(Lim, NotClosed(Matching(semantic_ids))))

\* Filtering behind a limit returns no row out of its place, and one is missing only
\* behind more closed rows than the over-fetch makes up for (search_candidates: the limit
\* of recalled, and the open-now filter outside).
MissingOnlyBehindClosed ==
  /\ Len(Answer) <= Len(Ideal) /\ \A k \in 1..Len(Answer) : Answer[k] = Ideal[k]
  /\ \A k \in Len(Answer)+1..Len(Ideal) :
       Ahead(Ideal[k], {r \in Matching(semantic_ids) : r.open = "closed"}) > Lim * (OverFetch - 1)
=============================================================================
