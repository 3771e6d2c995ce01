------------------------- MODULE SearchServiceProofs -------------------------
(***************************************************************************)
(* What an answer of GET /search shows, for every catalog, every recall    *)
(* and every configuration: the inductive invariant of one request and its *)
(* consequences, from the lemmas on the ranker's stages (RankingProofs).   *)
(* And what the intent extractor makes of a query, for every lexicon, and  *)
(* which rows of the loader its filters then let pass.                     *)
(***************************************************************************)
EXTENDS SearchService, LoadedRows, RankingProofs, SequenceTheorems

\* What the ranker may be handed: a recalled candidate, or the pin it makes of one.
PoolRow == Candidate \cup {Pinned(AsPin(c)) : c \in Candidate}

\* An exact-name hit keeps the id and the name of its row, and its score is +Inf.
LEMMA PinRowFacts ==
  ASSUME NEW c \in Candidate
  PROVE  /\ Pinned(AsPin(c)) \in PoolRow
         /\ Pinned(AsPin(c)).score = Infinity
         /\ Pinned(AsPin(c)).id = AsPin(c).id
         /\ Pinned(AsPin(c)).id = c.id
<1>1. c = [id |-> c.id, name |-> c.name, score |-> c.score, claimed |-> c.claimed,
           dist |-> c.dist, reviews |-> c.reviews, isNew |-> c.isNew,
           dropped |-> c.dropped]
  BY CandidateAssumption
<1>2. AsPin(c) = [id |-> c.id, name |-> c.name, score |-> c.score, claimed |-> c.claimed,
           dist |-> FarAway, reviews |-> c.reviews, isNew |-> c.isNew,
           dropped |-> c.dropped]
  BY <1>1 DEF AsPin
<1>3. Pinned(AsPin(c)) = [id |-> c.id, name |-> c.name, score |-> Infinity,
           claimed |-> c.claimed, dist |-> FarAway, reviews |-> c.reviews,
           isNew |-> c.isNew, dropped |-> c.dropped]
  BY <1>2 DEF Pinned
<1> QED BY <1>2, <1>3 DEF PoolRow

\* The ranker's rows have integer scores, none above +Inf.
LEMMA PoolScores == \A r \in PoolRow : r.score \in Int /\ r.score <= Infinity
<1>1. \A c \in Candidate : c.score \in Int /\ c.score <= Infinity
  BY CandidateAssumption, ScaleAssumption
<1>2. \A c \in Candidate : /\ Pinned(AsPin(c)).score \in Int
                           /\ Pinned(AsPin(c)).score <= Infinity
  BY PinRowFacts, ScaleAssumption
<1> QED BY <1>1, <1>2 DEF PoolRow
-----------------------------------------------------------------------------
(* The inductive invariant of a request.                                   *)

CatalogOK ==
  /\ catalog \subseteq Candidate
  /\ IsFiniteSet(catalog)
  /\ \A a, b \in catalog : a.id = b.id => a = b

\* The reads return rows of the table: recall no row twice and at most candidateLimit.
PoolOK ==
  /\ candidates \in Seq(Candidate)
  /\ Len(candidates) <= CandidateLimit
  /\ DistinctIds(candidates)

PinOK == pin # NoPin => \E c \in Candidate : pin = AsPin(c)

Answered == dedupeByName(Run(candidates, pin, rankLimit), ResultLimit)

\* Only an answer carries rows, and a ranking answer exactly those computed from what
\* the two reads returned.
AnswerOK ==
  /\ pc # "answered" => ranked = <<>>
  /\ ranked # <<>> => ranked = Answered
  /\ Ranks => ranked = Answered

RequestInv == CatalogOK /\ PoolOK /\ PinOK /\ AnswerOK

\* A request starts with nothing read.
LEMMA RequestInit == Init => RequestInv
<1> SUFFICES ASSUME Init PROVE RequestInv
  OBVIOUS
<1>1. catalog \in Catalogs /\ pc = "handle" /\ candidates = <<>> /\ pin = NoPin /\ ranked = <<>>
  BY DEF Init
<1>2. CatalogOK
  BY <1>1, SearchAssumption DEF CatalogOK
<1>3. PoolOK
  BY <1>1, SearchAssumption DEF PoolOK, DistinctIds
<1> QED BY <1>1, <1>2, <1>3 DEF RequestInv, PinOK, AnswerOK, Ranks

\* Retrieval returns at most candidateLimit rows of the table, none twice
\* (postgres/repo.go Search).
LEMMA SearchStep == RequestInv /\ Search => RequestInv'
<1> SUFFICES ASSUME RequestInv, Search PROVE RequestInv'
  OBVIOUS
<1>1. /\ pc = "retrieve" /\ pc' = "exactName" /\ candidates' \in RecallOrders
      /\ UNCHANGED <<catalog, reloads, settings, categorical, overlay, queryVec, pin, ranked, status>>
  BY DEF Search
<1> DEFINE n == LesserOf(CandidateLimit, Cardinality(Recalled))
<1>2. Recalled \subseteq catalog
  BY DEF Recalled
<1>3. Cardinality(Recalled) \in Nat
  BY <1>2, FS_Subset, FS_CardinalityType DEF RequestInv, CatalogOK
<1>4. n \in Nat /\ n <= CandidateLimit
  BY <1>3, SearchAssumption DEF LesserOf
<1>5. /\ candidates' \in [1..n -> Recalled]
      /\ \A a, b \in 1..n : candidates'[a] = candidates'[b] => a = b
  BY <1>1 DEF RecallOrders
<1> HIDE DEF n
<1>6. candidates' \in [1..n -> Candidate]
  BY <1>2, <1>5 DEF RequestInv, CatalogOK
<1>7. candidates' \in Seq(Candidate) /\ Len(candidates') = n
  BY <1>4, <1>6
<1>8. DistinctIds(candidates')
  <2>1. ASSUME NEW a \in 1..n, NEW b \in 1..n, candidates'[a].id = candidates'[b].id
        PROVE  a = b
    <3>1. candidates'[a] \in catalog /\ candidates'[b] \in catalog
      BY <1>2, <1>5
    <3>2. candidates'[a] = candidates'[b]
      BY <2>1, <3>1 DEF RequestInv, CatalogOK
    <3> QED BY <1>5, <3>2
  <2> QED BY <1>7, <2>1 DEF DistinctIds
<1>9. PoolOK'
  BY <1>4, <1>7, <1>8 DEF PoolOK
<1>10. CatalogOK' /\ PinOK'
  BY <1>1 DEF RequestInv, CatalogOK, PinOK
<1>11. AnswerOK'
  BY <1>1 DEF RequestInv, AnswerOK, Ranks
<1> QED BY <1>9, <1>10, <1>11 DEF RequestInv

\* The exact-name lookup returns a row of the table or none (postgres/repo.go ExactName).
LEMMA ExactNameStep == RequestInv /\ ExactName => RequestInv'
<1> SUFFICES ASSUME RequestInv, ExactName PROVE RequestInv'
  OBVIOUS
<1>1. /\ pc = "exactName" /\ pc' = "rank"
      /\ UNCHANGED <<catalog, reloads, settings, categorical, overlay, queryVec, candidates,
                     ranked, status>>
      /\ pin' = NoPin \/ \E c \in Matches : pin' = AsPin(c)
  BY DEF ExactName
<1>2. PinOK'
  BY <1>1 DEF PinOK, Matches, RequestInv, CatalogOK
<1>3. CatalogOK' /\ PoolOK'
  BY <1>1 DEF RequestInv, CatalogOK, PoolOK
<1>4. AnswerOK'
  BY <1>1 DEF RequestInv, AnswerOK, Ranks
<1> QED BY <1>2, <1>3, <1>4 DEF RequestInv

\* The ranking is computed from what the two reads returned (service.go Search).
LEMMA RankStep == RequestInv /\ Rank => RequestInv'
<1> SUFFICES ASSUME RequestInv, Rank PROVE RequestInv'
  OBVIOUS
<1>1. /\ pc' = "answered" /\ ranked' = Answered
      /\ UNCHANGED <<catalog, reloads, settings, categorical, overlay, queryVec, candidates, pin>>
  BY DEF Rank, Answer, Answered
<1>2. Answered' = Answered
  BY <1>1 DEF Answered
<1>3. CatalogOK' /\ PoolOK' /\ PinOK'
  BY <1>1 DEF RequestInv, CatalogOK, PoolOK, PinOK
<1>4. AnswerOK'
  BY <1>1, <1>2 DEF AnswerOK
<1> QED BY <1>3, <1>4 DEF RequestInv

\* An early return or a failing statement answers without rows (handleSearch); a blank
\* query ranks nothing.
LEMMA EmptyAnswerStep == RequestInv /\ (Refuse \/ Fail) => RequestInv'
<1> SUFFICES ASSUME RequestInv, Refuse \/ Fail PROVE RequestInv'
  OBVIOUS
<1>1. /\ pc # "answered"
      /\ UNCHANGED <<catalog, reloads, settings, categorical, overlay, queryVec, candidates,
                     pin, ranked>>
      /\ status' # 200 \/ q = Blank
  BY DEF Refuse, Fail, Answer
<1>2. ranked' = <<>> /\ q' = q
  BY <1>1 DEF RequestInv, AnswerOK, settings
<1>3. CatalogOK' /\ PoolOK' /\ PinOK'
  BY <1>1 DEF RequestInv, CatalogOK, PoolOK, PinOK
<1>4. AnswerOK'
  BY <1>1, <1>2 DEF AnswerOK, Ranks
<1> QED BY <1>3, <1>4 DEF RequestInv

\* Accepting, reading the intent and embedding touch neither rows nor answer.
LEMMA PrepareStep == RequestInv /\ (Accept \/ runIntent \/ embedQuery) => RequestInv'
<1> SUFFICES ASSUME RequestInv, Accept \/ runIntent \/ embedQuery PROVE RequestInv'
  OBVIOUS
<1>1. /\ pc # "answered" /\ pc' # "answered"
      /\ UNCHANGED <<catalog, candidates, pin, ranked>>
  BY DEF Accept, runIntent, embedQuery
<1>2. CatalogOK' /\ PoolOK' /\ PinOK'
  BY <1>1 DEF RequestInv, CatalogOK, PoolOK, PinOK
<1>3. AnswerOK'
  BY <1>1 DEF RequestInv, AnswerOK, Ranks
<1> QED BY <1>2, <1>3 DEF RequestInv

\* A load between the reads replaces the table and touches nothing already read (Ingest).
LEMMA ReloadStep == RequestInv /\ Reload => RequestInv'
<1> SUFFICES ASSUME RequestInv, Reload PROVE RequestInv'
  OBVIOUS
<1>1. /\ catalog' \in Catalogs /\ pc # "answered"
      /\ UNCHANGED <<settings, pc, categorical, overlay, queryVec, candidates, pin, ranked, status>>
  BY DEF Reload
<1>2. CatalogOK'
  BY <1>1, SearchAssumption DEF CatalogOK
<1>3. PoolOK' /\ PinOK'
  BY <1>1 DEF RequestInv, PoolOK, PinOK
<1>4. AnswerOK'
  BY <1>1 DEF RequestInv, AnswerOK, Ranks
<1> QED BY <1>2, <1>3, <1>4 DEF RequestInv

\* A step that changes nothing keeps the invariant.
LEMMA RequestStutter == RequestInv /\ UNCHANGED vars => RequestInv'
<1> SUFFICES ASSUME RequestInv, UNCHANGED vars PROVE RequestInv'
  OBVIOUS
<1>1. UNCHANGED <<catalog, settings, pc, candidates, pin, ranked, status>>
  BY DEF vars
<1>2. q' = q
  BY <1>1 DEF settings
<1>3. Answered' = Answered /\ Ranks' = Ranks
  BY <1>1, <1>2 DEF Answered, Ranks
<1> QED BY <1>1, <1>3 DEF RequestInv, CatalogOK, PoolOK, PinOK, AnswerOK

\* The invariant holds throughout a request.
THEOREM RequestInductive == Spec => []RequestInv
<1>1. RequestInv /\ [Next]_vars => RequestInv'
  BY SearchStep, ExactNameStep, RankStep, EmptyAnswerStep, PrepareStep, ReloadStep,
     RequestStutter DEF Next
<1> QED BY RequestInit, <1>1, PTL DEF Spec
-----------------------------------------------------------------------------
(* The removal of namesakes, and what an answer shows.                     *)

\* Namesakes share the key of their names.
LEMMA NamesakesEquivalence ==
  /\ \A a : Namesakes(a, a)
  /\ \A a, b : Namesakes(a, b) => Namesakes(b, a)
  /\ \A a, b, c : Namesakes(a, b) /\ Namesakes(b, c) => Namesakes(a, c)
BY DEF Namesakes

\* u is a list of rows of s: each the first of its name in s, no row and no name twice,
\* and complete if it is shorter than limit.
IsDeduped(S, s, limit, u) ==
  /\ u \in Seq(S)
  /\ \A a, b \in 1..Len(u) : a # b => u[a].id # u[b].id /\ ~Namesakes(u[a], u[b])
  /\ \A a \in 1..Len(u) : \E m \in FirstOfName(s) : u[a] = s[m]
  /\ Len(u) < limit =>
       \A m \in 1..Len(s) : \E k \in 1..m : \E a \in 1..Len(u) :
         k \in FirstOfName(s) /\ Namesakes(s[k], s[m]) /\ u[a] = s[k]

\* What dedupeByName returns.
LEMMA DedupeFacts ==
  ASSUME NEW S, NEW s \in Seq(S), DistinctIds(s), NEW limit \in Nat
  PROVE  IsDeduped(S, s, limit, dedupeByName(s, limit))
<1> DEFINE K == FirstOfName(s)
           t == Filtered(s, K)
           u == dedupeByName(s, limit)
<1>1. K \in SUBSET (1..Len(s))
  BY DEF FirstOfName
<1>2. IsSubsequence(S, s, K, t)
  <2> HIDE DEF K
  <2> QED BY <1>1, FilteredFacts
<1> HIDE DEF t
<1>3. /\ t \in Seq(S) /\ DistinctIds(t) /\ Len(t) \in Nat
      /\ Rows(t) = {s[k] : k \in K}
      /\ \A k \in 1..Len(t) : \E m \in K : t[k] = s[m]
      /\ \A a, b \in 1..Len(t) : a < b =>
           \E x, y \in 1..Len(s) : x < y /\ t[a] = s[x] /\ t[b] = s[y]
  BY <1>2 DEF IsSubsequence
<1>4. ASSUME NEW a \in 1..Len(t), NEW b \in 1..Len(t), a < b
      PROVE  ~Namesakes(t[a], t[b])
  <2>1. PICK x \in 1..Len(s), y \in 1..Len(s) : x < y /\ t[a] = s[x] /\ t[b] = s[y]
    BY <1>3, <1>4
  <2>2. PICK m \in K : t[b] = s[m]
    BY <1>3
  <2>3. m = y
    BY <1>1, <2>1, <2>2 DEF DistinctIds
  <2>4. x \in 1..y-1
    BY <2>1
  <2> QED BY <2>1, <2>2, <2>3, <2>4 DEF FirstOfName
<1>5. \A a, b \in 1..Len(t) : a # b => t[a].id # t[b].id /\ ~Namesakes(t[a], t[b])
  <2>1. SUFFICES ASSUME NEW a \in 1..Len(t), NEW b \in 1..Len(t), a # b
                 PROVE  t[a].id # t[b].id /\ ~Namesakes(t[a], t[b])
    OBVIOUS
  <2>2. t[a].id # t[b].id
    BY <1>3, <2>1 DEF DistinctIds
  <2>3. a < b \/ b < a
    BY <2>1
  <2> QED BY <1>4, <2>2, <2>3, NamesakesEquivalence
<1>6. u = truncate(t, limit)
  BY DEF dedupeByName, t
<1> HIDE DEF u
<1>7. /\ u \in Seq(S) /\ Len(u) \in Nat /\ Len(u) <= Len(t)
      /\ \A a \in 1..Len(u) : a \in 1..Len(t) /\ u[a] = t[a]
      /\ Len(u) < limit => u = t
  <2>1. CASE limit < Len(t)
    <3>1. u = SubSeq(t, 1, limit)
      BY <1>6, <2>1 DEF truncate
    <3>2. /\ SubSeq(t, 1, limit) \in Seq(S) /\ Len(SubSeq(t, 1, limit)) = limit
          /\ \A k \in 1..limit : SubSeq(t, 1, limit)[k] = t[k]
      BY <1>3, <2>1
    <3> QED BY <1>3, <2>1, <3>1, <3>2
  <2>2. CASE ~(limit < Len(t))
    <3>1. u = t
      BY <1>6, <2>2 DEF truncate
    <3> QED BY <1>3, <3>1
  <2> QED BY <2>1, <2>2
<1>8. ASSUME NEW m \in 1..Len(s)
      PROVE  \E k \in 1..m : k \in K /\ Namesakes(s[k], s[m])
  <2> DEFINE T == {k \in 1..m : Namesakes(s[k], s[m])}
  <2>1. T \in SUBSET Nat /\ m \in T
    BY NamesakesEquivalence
  <2>2. PICK k \in T : \A y \in T : k <= y
    <3> HIDE DEF T
    <3>1. T # {}
      BY <2>1
    <3> QED BY <2>1, <3>1, Least
  <2>3. k \in 1..m /\ Namesakes(s[k], s[m]) /\ k \in 1..Len(s)
    BY <2>2
  <2>4. ASSUME NEW y \in 1..k-1, Namesakes(s[y], s[k]) PROVE FALSE
    <3>1. Namesakes(s[y], s[m]) /\ y \in 1..m
      BY <2>3, <2>4, NamesakesEquivalence
    <3>2. y \in T
      BY <3>1
    <3> HIDE DEF T
    <3> QED BY <2>2, <2>3, <3>2
  <2>5. k \in K
    BY <2>3, <2>4 DEF FirstOfName
  <2> QED BY <2>3, <2>5
<1>9. ASSUME Len(u) < limit, NEW m \in 1..Len(s)
      PROVE  \E k \in 1..m : \E a \in 1..Len(u) :
               k \in K /\ Namesakes(s[k], s[m]) /\ u[a] = s[k]
  <2>1. PICK k \in 1..m : k \in K /\ Namesakes(s[k], s[m])
    BY <1>8
  <2>2. s[k] \in Rows(t)
    BY <1>3, <2>1
  <2>3. PICK a \in 1..Len(t) : t[a] = s[k]
    BY <2>2 DEF Rows
  <2> QED BY <1>7, <1>9, <2>1, <2>3
<1>10. \A a, b \in 1..Len(u) : a # b => u[a].id # u[b].id /\ ~Namesakes(u[a], u[b])
  BY <1>5, <1>7
<1>11. \A a \in 1..Len(u) : \E m \in K : u[a] = s[m]
  BY <1>3, <1>7
<1> QED BY <1>7, <1>9, <1>10, <1>11 DEF IsDeduped, u

\* What the request's reads give the ranker, what it makes of them, and what is shown.
AnswerFacts(full, shown) ==
  /\ full \in Seq(PoolRow)
  /\ IsRanking(PoolRow, candidates, pin, full)
  /\ shown \in Seq(PoolRow) /\ DistinctIds(shown)
  /\ Len(shown) <= Len(full)
  /\ \A k \in 1..Len(shown) : shown[k] = full[k]
  /\ Len(full) <= CandidateLimit => shown = full
  /\ IsDeduped(PoolRow, shown, ResultLimit, Answered)

\* The answer is the ranking of the pool, cut and freed of namesakes.
LEMMA AnswerHolds ==
  ASSUME RequestInv
  PROVE  AnswerFacts(FullRanking(candidates, pin), Run(candidates, pin, rankLimit))
<1> DEFINE full == FullRanking(candidates, pin)
           cut == Run(candidates, pin, rankLimit)
<1>1. /\ candidates \in Seq(Candidate) /\ DistinctIds(candidates)
      /\ \A k \in 1..Len(candidates) : candidates[k] \in Candidate
  BY DEF RequestInv, PoolOK
<1>2. candidates \in Seq(PoolRow)
  BY <1>1 DEF PoolRow
<1>3. \A k \in 1..Len(candidates) : Infinity - candidates[k].score >= Epsilon
  BY <1>1, CandidateAssumption
<1>4. pin # NoPin => /\ Pinned(pin) \in PoolRow
                     /\ Pinned(pin).score = Infinity
                     /\ Pinned(pin).id = pin.id
  BY PinRowFacts DEF RequestInv, PinOK
<1>5. IsRanking(PoolRow, candidates, pin, full)
  <2> HIDE DEF full
  <2>1. IsRanking(PoolRow, candidates, pin, FullRanking(candidates, pin))
    BY <1>1, <1>2, <1>3, <1>4, PoolScores, RankingFacts
  <2> QED BY <2>1 DEF full
<1>6. full \in Seq(PoolRow) /\ DistinctIds(full)
  <2> HIDE DEF full
  <2> QED BY <1>5 DEF IsRanking
<1>7. rankLimit = CandidateLimit /\ rankLimit \in Nat /\ ResultLimit \in Nat
  BY SearchAssumption DEF rankLimit
<1>8. /\ cut \in Seq(PoolRow)
      /\ Len(cut) <= Len(full)
      /\ \A k \in 1..Len(cut) : cut[k] = full[k]
      /\ Len(full) <= CandidateLimit => cut = full
  BY <1>6, <1>7, RunFacts
<1> HIDE DEF full, cut
<1>9. DistinctIds(cut)
  <2>1. Len(cut) \in Nat /\ Len(full) \in Nat
    BY <1>6, <1>8
  <2>2. \A k \in 1..Len(cut) : k \in 1..Len(full) /\ cut[k] = full[k]
    BY <1>8, <2>1
  <2> QED BY <1>6, <2>2 DEF DistinctIds
<1>10. IsDeduped(PoolRow, cut, ResultLimit, Answered)
  <2>1. IsDeduped(PoolRow, cut, ResultLimit, dedupeByName(cut, ResultLimit))
    BY <1>7, <1>8, <1>9, DedupeFacts
  <2> QED BY <2>1 DEF Answered, cut
<1> QED BY <1>5, <1>6, <1>8, <1>9, <1>10 DEF AnswerFacts, full, cut

\* An answer shows no business and no name twice (service.go Search, dedupeByName).
THEOREM AnswerShowsOnce == Spec => []ShownOnce
<1>1. RequestInv => ShownOnce
  <2>1. SUFFICES ASSUME RequestInv, ranked # <<>> PROVE ShownOnce
    BY DEF ShownOnce
  <2>2. ranked = Answered
    BY <2>1 DEF RequestInv, AnswerOK
  <2>3. IsDeduped(PoolRow, Run(candidates, pin, rankLimit), ResultLimit, Answered)
    BY <2>1, AnswerHolds DEF AnswerFacts
  <2> QED BY <2>2, <2>3 DEF IsDeduped, ShownOnce
<1> QED BY <1>1, RequestInductive, PTL

\* An answer shorter than resultLimit, from a pool that is not full, shows every kept
\* candidate or a namesake of it (service.go Search).
THEOREM SlotsBackfilled == Spec => []FreedSlotsBackfilled
<1>1. RequestInv => FreedSlotsBackfilled
  <2>1. SUFFICES ASSUME RequestInv, Ranks, Len(ranked) < ResultLimit,
                        Len(candidates) < CandidateLimit, NEW c \in Eligible
                 PROVE  \E r \in Shown : r.id = c.id \/ Namesakes(r, c)
    BY DEF FreedSlotsBackfilled
  <2> DEFINE full == FullRanking(candidates, pin)
             cut == Run(candidates, pin, rankLimit)
  <2>2. ranked = Answered
    BY <2>1 DEF RequestInv, AnswerOK
  <2>3. AnswerFacts(full, cut)
    BY <2>1, AnswerHolds
  <2> HIDE DEF full, cut
  <2>4. cut = full /\ Len(full) \in Nat
    <3>1. Len(full) <= Len(candidates) + 1 /\ Len(full) \in Nat /\ Len(candidates) \in Nat
      BY <2>1, <2>3 DEF AnswerFacts, IsRanking, RequestInv, PoolOK
    <3> QED BY <2>1, <2>3, <3>1, SearchAssumption DEF AnswerFacts
  <2>5. \A m \in 1..Len(full) : \E k \in 1..m : \E a \in 1..Len(ranked) :
          k \in FirstOfName(full) /\ Namesakes(full[k], full[m]) /\ ranked[a] = full[k]
    BY <2>1, <2>2, <2>3, <2>4 DEF AnswerFacts, IsDeduped
  <2>6. c \in Rows(candidates) /\ IsKept(c)
    BY <2>1 DEF Eligible, Rows
  <2>7. CASE pin # NoPin /\ c.id = pin.id
    <3>1. Len(full) > 0 /\ full[1] = Pinned(pin)
      BY <2>3, <2>7 DEF AnswerFacts, IsRanking
    <3>2. Pinned(pin).id = c.id
      BY <2>1, <2>7, PinRowFacts DEF RequestInv, PinOK
    <3>3. PICK k \in 1..1, a \in 1..Len(ranked) : ranked[a] = full[k]
      BY <2>4, <2>5, <3>1
    <3>4. ranked[a] \in Shown /\ ranked[a].id = c.id
      BY <3>1, <3>2, <3>3 DEF Shown
    <3> QED BY <3>4
  <2>8. CASE ~(pin # NoPin /\ c.id = pin.id)
    <3>1. c \in Rows(full)
      BY <2>3, <2>6, <2>8 DEF AnswerFacts, IsRanking
    <3>2. PICK m \in 1..Len(full) : c = full[m]
      BY <3>1 DEF Rows
    <3>3. PICK k \in 1..m, a \in 1..Len(ranked) :
            Namesakes(full[k], full[m]) /\ ranked[a] = full[k]
      BY <2>5
    <3>4. ranked[a] \in Shown /\ Namesakes(ranked[a], c)
      BY <3>2, <3>3 DEF Shown
    <3> QED BY <3>4
  <2> QED BY <2>7, <2>8
<1> QED BY <1>1, RequestInductive, PTL

\* Every pool, with the pin, is sorted as one block of sort.SliceStable; the merges of longer
\* ones (StableTieBreak) can move a row further than Epsilon.
OneBlock == CandidateLimit < 20

\* The location shown for a name is near the best recalled one (dedupeByName after
\* rank.Run): tie-break and de-pin move no row further than their bounds.
THEOREM LocationNearBest == OneBlock /\ Spec => []ShownLocationNearBest
<1>1. RequestInv => ShownLocationNearBest
  <2>1. SUFFICES ASSUME RequestInv, Ranks, NEW r \in Shown, NEW c \in Eligible,
                        ~IsPinned(r), Namesakes(r, c), pin # NoPin => c.id # pin.id
                 PROVE  c.score - r.score <
                          Epsilon + (IF c.isNew /\ SwapWindow > 0
                                     THEN dePinTopN * SwapWindow ELSE 0)
    BY DEF ShownLocationNearBest
  <2> DEFINE full == FullRanking(candidates, pin)
             cut == Run(candidates, pin, rankLimit)
  <2>2. ranked = Answered
    BY <2>1 DEF RequestInv, AnswerOK
  <2>3. AnswerFacts(full, cut)
    BY <2>1, AnswerHolds
  <2> HIDE DEF full, cut
  <2>4. PICK a \in FirstOfName(cut) : r = cut[a]
    BY <2>1, <2>2, <2>3 DEF Shown, AnswerFacts, IsDeduped
  <2>5. c \in Rows(candidates) /\ IsKept(c)
    BY <2>1 DEF Eligible, Rows
  <2>6. c \in Rows(full)
    BY <2>1, <2>3, <2>5 DEF AnswerFacts, IsRanking
  <2>7. PICK b \in 1..Len(full) : c = full[b]
    BY <2>6 DEF Rows
  <2>8. /\ Len(cut) \in Nat /\ Len(full) \in Nat /\ Len(cut) <= Len(full)
        /\ a \in 1..Len(cut) /\ r = full[a] /\ a \in 1..Len(full)
    BY <2>3, <2>4 DEF AnswerFacts, FirstOfName
  <2>9. r \in PoolRow /\ c \in PoolRow /\ r.score \in Int /\ c.score \in Int
    BY <2>3, <2>7, <2>8, PoolScores DEF AnswerFacts
  <2>10. ~(b < a)
    <3>1. SUFFICES ASSUME b < a PROVE FALSE
      OBVIOUS
    <3>2. b \in 1..a-1 /\ b \in 1..Len(cut)
      BY <2>8, <3>1
    <3>3. cut[b] = c
      BY <2>3, <2>7, <3>2 DEF AnswerFacts
    <3>4. ~Namesakes(cut[b], cut[a])
      BY <2>4, <3>2 DEF FirstOfName
    <3> QED BY <2>1, <2>4, <3>3, <3>4, NamesakesEquivalence
  <2>11. dePinTopN * Slack = (IF SwapWindow > 0 THEN dePinTopN * SwapWindow ELSE 0)
    BY DEF Slack, dePinTopN
  <2>12. CASE a = b
    BY <2>7, <2>8, <2>9, <2>12, ScaleAssumption DEF dePinTopN
  <2>13. CASE a < b
    <3>1. NearAfter(full, Epsilon, Epsilon + dePinTopN * Slack)
      BY <2>3 DEF AnswerFacts, IsRanking
    <3>2. c.score - r.score < (IF c.isNew THEN Epsilon + dePinTopN * Slack ELSE Epsilon)
      BY <2>1, <2>7, <2>8, <2>13, <3>1 DEF NearAfter
    <3> QED BY <2>9, <2>11, <3>2, ScaleAssumption DEF dePinTopN
  <2> QED BY <2>7, <2>8, <2>10, <2>12, <2>13
<1> QED BY <1>1, RequestInductive, PTL
-----------------------------------------------------------------------------
\* The rules of the lexicon, and the overlays they can build.
Rules == {Lexicon[term] : term \in DOMAIN Lexicon}

Overlays ==
  [category : {NoCategory} \cup {r.category : r \in Rules},
   narrowed : [slices -> SUBSET UNION {r.narrows[s] : r \in Rules, s \in slices}],
   openNow  : BOOLEAN]

\* Merging a term into an overlay gives an overlay (mergeTerm).
LEMMA MergeType ==
  ASSUME NEW ov \in Overlays, NEW term
  PROVE  mergeTerm(ov, term) \in Overlays
<1>1. CASE term \notin DOMAIN Lexicon
  BY <1>1 DEF mergeTerm
<1>2. CASE term \in DOMAIN Lexicon
  <2> DEFINE r == Lexicon[term]
             U == UNION {x.narrows[s] : x \in Rules, s \in slices}
             C == {NoCategory} \cup {x.category : x \in Rules}
  <2>1. r \in Rules /\ r.openNow \in BOOLEAN
    BY <1>2, IntentAssumption DEF Rules
  <2>2. ov.category \in C /\ ov.narrowed \in [slices -> SUBSET U] /\ ov.openNow \in BOOLEAN
    BY DEF Overlays
  <2>3. r.category \in C /\ \A s \in slices : r.narrows[s] \subseteq U
    BY <2>1
  <2>4. [s \in slices |-> ov.narrowed[s] \cup r.narrows[s]] \in [slices -> SUBSET U]
    <3> HIDE DEF U, r
    <3> QED BY <2>2, <2>3
  <2>5. (ov.openNow \/ r.openNow) \in BOOLEAN
    BY <2>1, <2>2
  <2>6. mergeTerm(ov, term) = mergeRule(ov, r)
    BY <1>2 DEF mergeTerm
  <2>7. (IF r.category # NoCategory THEN r.category ELSE ov.category) \in C
    BY <2>2, <2>3
  <2>8. Overlays = [category : C, narrowed : [slices -> SUBSET U], openNow : BOOLEAN]
    BY DEF Overlays
  <2> HIDE DEF U, C, r
  <2> QED BY <2>4, <2>5, <2>6, <2>7, <2>8 DEF mergeRule
<1> QED BY <1>1, <1>2

\* A query of n words has 2n - 1 terms, its words and neighbours, the first word first
\* (intent.go terms).
LEMMA TermsFacts ==
  ASSUME NEW words \in Seq(Tokens)
  PROVE  /\ Len(words) \in Nat /\ (words = <<>> <=> Len(words) = 0)
         /\ Len(terms(words)) = IF Len(words) = 0 THEN 0 ELSE 2 * Len(words) - 1
         /\ words # <<>> => terms(words)[1] = <<words[1]>>
         /\ Len(words) > 1 => terms(words)[2] = <<words[1], words[2]>>
<1> DEFINE m == IF Len(words) = 0 THEN 0 ELSE 2 * Len(words) - 1
           Term(k) == LET i == (k + 1) \div 2
                      IN IF k % 2 = 1 THEN <<words[i]>> ELSE <<words[i], words[i + 1]>>
           S == {Term(k) : k \in 1..m}
<1>1. Len(words) \in Nat /\ (words = <<>> <=> Len(words) = 0)
  OBVIOUS
<1>2. m \in Nat /\ 1..2 * Len(words) - 1 = 1..m
  BY <1>1
<1>3. terms(words) = [k \in 1..2 * Len(words) - 1 |-> Term(k)]
  BY DEF terms
<1>4. terms(words) = [k \in 1..m |-> Term(k)]
  <2> HIDE DEF m, Term
  <2> QED BY <1>2, <1>3
<1>5. Len(terms(words)) = m
  <2>1. terms(words) \in Seq(S)
    <3> HIDE DEF m, Term
    <3> QED BY <1>2, <1>4
  <2>2. DOMAIN terms(words) = 1..m
    <3> HIDE DEF m, Term
    <3> QED BY <1>4
  <2> HIDE DEF m, S
  <2> QED BY <1>2, <2>1, <2>2, LenProperties
<1>6. words # <<>> => terms(words)[1] = <<words[1]>>
  <2>1. words # <<>> => 1 \in 1..m
    BY <1>1
  <2>2. Term(1) = <<words[1]>>
    OBVIOUS
  <2> HIDE DEF m, Term
  <2> QED BY <1>4, <2>1, <2>2
<1>7. Len(words) > 1 => terms(words)[2] = <<words[1], words[2]>>
  <2>1. Len(words) > 1 => 2 \in 1..m
    BY <1>1
  <2>2. Term(2) = <<words[1], words[2]>>
    OBVIOUS
  <2> HIDE DEF m, Term
  <2> QED BY <1>4, <2>1, <2>2
<1> QED BY <1>1, <1>5, <1>6, <1>7

\* Extract merges the terms one after the other, from the empty overlay on.
LEMMA ExtractLoop ==
  ASSUME NEW words \in Seq(Tokens), words # <<>>
  PROVE  \E ov \in [0..Len(terms(words)) -> Overlays] :
           /\ ov[0] = zero
           /\ \A k \in 1..Len(terms(words)) : ov[k] = mergeTerm(ov[k-1], terms(words)[k])
           /\ Extract(words) = ov[Len(terms(words))]
<1> DEFINE T == terms(words)
           n == Len(T)
           F == [p \in Overlays \X (1..n) |-> mergeTerm(p[1], T[p[2]])]
           Loop(f) == f = [k \in 0..n |-> IF k = 0 THEN zero ELSE mergeTerm(f[k - 1], T[k])]
           ov == CHOOSE f : Loop(f)
<1>1. n \in Nat
  BY TermsFacts
<1>2. zero \in Overlays
  BY DEF zero, Overlays
<1>3. F \in [Overlays \X (1..n) -> Overlays]
  <2>1. ASSUME NEW p \in Overlays \X (1..n) PROVE mergeTerm(p[1], T[p[2]]) \in Overlays
    BY MergeType
  <2> QED BY <2>1
<1>4. PICK g \in [0..n -> Overlays] : g[0] = zero /\ \A k \in 1..n : g[k] = F[<<g[k-1], k>>]
  <2>1. Runs(F, zero, Overlays, n) # {}
    <3> HIDE DEF F, n
    <3> QED BY <1>1, <1>2, <1>3, LoopExists
  <2> HIDE DEF F, n
  <2> QED BY <2>1 DEF Runs
<1>5. ASSUME NEW k \in 1..n PROVE g[k] = mergeTerm(g[k-1], T[k])
  <2>1. g[k-1] \in Overlays
    BY <1>1
  <2>2. F[<<g[k-1], k>>] = mergeTerm(g[k-1], T[k])
    <3> HIDE DEF T
    <3> QED BY <2>1
  <2> QED BY <1>4, <2>2
<1>6. Loop(g)
  <2> HIDE DEF F, T, n
  <2> QED BY <1>1, <1>4, <1>5
<1>7. Loop(ov)
  <2> HIDE DEF Loop
  <2> QED BY <1>6
<1>8. ov[0] = zero /\ \A k \in 1..n : ov[k] = mergeTerm(ov[k-1], T[k])
  <2> HIDE DEF T, n, ov
  <2> QED BY <1>1, <1>7
<1>9. \A k \in 0..n : k \in {m \in 0..n : ov[m] \in Overlays}
  <2> HIDE DEF T, n, ov
  <2>1. ASSUME NEW k \in 1..n, ov[k-1] \in Overlays PROVE ov[k] \in Overlays
    BY <1>8, <2>1, MergeType
  <2> DEFINE G == {m \in 0..n : ov[m] \in Overlays}
  <2>2. 0 \in G
    BY <1>1, <1>2, <1>8
  <2>3. \A k \in 1..n : k - 1 \in G => k \in G
    BY <2>1
  <2>4. \A k \in 0..n : k \in G
    <3> HIDE DEF G
    <3> QED BY <1>1, <2>2, <2>3, Induction
  <2> QED BY <2>4
<1>10. ov \in [0..n -> Overlays]
  <2> HIDE DEF T, n, ov
  <2> QED BY <1>7, <1>9
<1>11. Extract(words) = ov[n]
  BY DEF Extract
<1> HIDE DEF ov, T, n
<1> QED BY <1>8, <1>10, <1>11 DEF T, n

\* A term that sets something leaves its mark on the overlay, whatever terms follow
\* (mergeTerm only replaces a category by a category and only adds to the slices).
LEMMA TermsLeaveMarks ==
  ASSUME NEW words \in Seq(Tokens), words # <<>>, NEW k \in 1..Len(terms(words)),
         categoryLike(terms(words)[k])
  PROVE  \/ Extract(words).category # NoCategory
         \/ \E s \in slices \ {"price"} : Extract(words).narrowed[s] # {}
<1> DEFINE n == Len(terms(words))
           term == terms(words)[k]
<1>1. n \in Nat /\ term \in DOMAIN Lexicon
  BY TermsFacts DEF categoryLike
<1>2. PICK ov \in [0..n -> Overlays] :
         /\ ov[0] = zero
         /\ \A m \in 1..n : ov[m] = mergeTerm(ov[m-1], terms(words)[m])
         /\ Extract(words) = ov[n]
  BY ExtractLoop
<1> DEFINE Marked(o) == \/ o.category # NoCategory
                        \/ \E s \in slices \ {"price"} : o.narrowed[s] # {}
           G == {m \in 0..n : m >= k => Marked(ov[m])}
<1>3. ASSUME NEW o \in Overlays, NEW w, Marked(o) PROVE Marked(mergeTerm(o, w))
  BY <1>3 DEF mergeTerm, mergeRule
<1>4. ASSUME NEW o \in Overlays PROVE Marked(mergeTerm(o, term))
  BY <1>1 DEF categoryLike, mergeTerm, mergeRule
<1>5. ASSUME NEW m \in 1..n, m - 1 \in G PROVE m \in G
  <2>1. ov[m-1] \in Overlays /\ ov[m] = mergeTerm(ov[m-1], terms(words)[m])
    <3> HIDE DEF n
    <3> QED BY <1>1, <1>2
  <2>2. CASE m < k
    BY <2>2
  <2>3. CASE m = k
    <3> HIDE DEF Marked
    <3> QED BY <1>4, <2>1, <2>3
  <2>4. CASE m > k
    <3> HIDE DEF Marked
    <3> QED BY <1>3, <1>5, <2>1, <2>4
  <2> QED BY <2>2, <2>3, <2>4
<1>6. 0 \in G
  BY <1>1
<1>7. \A m \in 0..n : m \in G
  <2> HIDE DEF G, n
  <2> QED BY <1>1, <1>5, <1>6, Induction
<1>8. Marked(ov[n])
  BY <1>1, <1>7
<1> QED BY <1>2, <1>8

\* A query that IsCategorical sees as a category has a term in the lexicon that sets a
\* category or a slice other than the price.
LEMMA CategoricalQueriesNarrow ==
  ASSUME query \in Seq(Tokens)
  PROVE  CategoricalNarrows
<1> SUFFICES ASSUME IsCategorical(query)
             PROVE  \/ Extract(query).category # NoCategory
                    \/ \E s \in slices \ {"price"} : Extract(query).narrowed[s] # {}
  BY DEF CategoricalNarrows
<1>1. query # <<>> /\ 1 \in 1..Len(query)
  BY TermsFacts DEF IsCategorical
<1>2. \/ categoryLike(<<query[1]>>)
      \/ 1 < Len(query) /\ categoryLike(<<query[1], query[2]>>)
  <2>1. \/ categoryLike(<<query[1]>>)
        \/ 1 > 1 /\ categoryLike(<<query[1-1], query[1]>>)
        \/ 1 < Len(query) /\ categoryLike(<<query[1], query[1+1]>>)
    BY <1>1 DEF IsCategorical
  <2>2. 1 + 1 = 2 /\ ~(1 > 1)
    OBVIOUS
  <2> QED BY <2>1, <2>2
<1>3. CASE categoryLike(<<query[1]>>)
  <2>1. 1 \in 1..Len(terms(query)) /\ categoryLike(terms(query)[1])
    BY <1>1, <1>3, TermsFacts
  <2> QED BY <1>1, <2>1, TermsLeaveMarks
<1>4. CASE 1 < Len(query) /\ categoryLike(<<query[1], query[2]>>)
  <2>1. 2 \in 1..Len(terms(query)) /\ categoryLike(terms(query)[2])
    BY <1>4, TermsFacts
  <2> QED BY <1>1, <2>1, TermsLeaveMarks
<1> QED BY <1>2, <1>3, <1>4

\* Whatever is typed and whatever the lexicon says, a query that suppresses the exact-name
\* pin narrows the search.
THEOREM PinSuppressedOnlyIfNarrowed == QuerySpec => []CategoricalNarrows
<1> DEFINE Typed == query \in Seq(Tokens)
<1>1. QueryInit => Typed
  BY DEF QueryInit
<1>2. Typed /\ [Type]_query => Typed'
  BY DEF Type
<1>3. Typed => CategoricalNarrows
  BY CategoricalQueriesNarrow
<1> QED
  <2> HIDE DEF Typed
  <2> QED BY <1>1, <1>2, <1>3, PTL DEF QuerySpec
-----------------------------------------------------------------------------
(* A row of the loader and a query typed afterwards.                       *)

\* The archetypes of the tables of the loader (taxonomy.go).
Known == {"low_stakes_fast_nearby", "medium_stakes_occasion", "high_stakes_one_time",
          "experiential", "recurring_service", "utility_distance_dominant"}

\* Every spelling of a category has an archetype.
LEMMA CategoriesHaveArchetypes ==
  ASSUME NEW raw, categoryVariants(raw) # ""
  PROVE  categoryArchetype(categoryVariants(raw)) \in Known
<1> DEFINE c == categoryVariants(raw)
<1>1. c \in {"Food & Drinks", "Beauty", "Fitness & Wellness", "Activities & Experiences",
            "Home Improvement", "Grocery", "Time Savers", "Car", "Events", "Pets",
            "Co-working", "Other"}
  BY DEF categoryVariants
<1> HIDE DEF c
<1>2. categoryArchetype(c) \in Known
  BY <1>1 DEF categoryArchetype, Known
<1> QED BY <1>2 DEF c

\* What a subcategory overrides the archetype with is one of them.
LEMMA OverridesKnown ==
  ASSUME NEW category, NEW sub
  PROVE  subcategoryArchetype(category, sub) \in Known \cup {""}
BY DEF subcategoryArchetype, Known

\* Whatever the dump calls a category, its archetype is one ranking.yaml has weights for.
LEMMA NormalizeFacts ==
  ASSUME NEW raw, NEW sub
  PROVE  Normalize(raw, sub).archetype \in Archetypes
<1>1. Known \subseteq Archetypes
  BY ArchetypeAssumption DEF Known
<1>2. CASE Bucketed(raw)
  <2>1. Normalize(raw, sub).archetype = "low_stakes_fast_nearby"
    BY <1>2 DEF Normalize
  <2> QED BY <1>1, <2>1 DEF Known
<1>3. CASE ~Bucketed(raw)
  <2> DEFINE category == categoryVariants(ToLower(raw))
             subcategory == normalizeSubcategory(category, sub)
  <2>1. Normalize(raw, sub).archetype = archetypeFor(category, subcategory)
    BY <1>3 DEF Normalize
  <2>2. categoryArchetype(category) \in Known
    BY <1>3, CategoriesHaveArchetypes DEF Bucketed
  <2> HIDE DEF category, subcategory
  <2>3. archetypeFor(category, subcategory) \in Known
    BY <2>2, OverridesKnown DEF archetypeFor, OrElse
  <2> QED BY <1>1, <2>1, <2>3
<1> QED BY <1>2, <1>3

\* A record that parses becomes a row with weights and with a line of text.
LEMMA RowFacts ==
  ASSUME NEW r \in Records, Parses(r)
  PROVE  LET b == toBusiness(Sanitize(r)) IN b.archetype \in Archetypes /\ EmbedText(b) # <<>>
<1> DEFINE rb == Sanitize(r)
           b == toBusiness(rb)
<1>1. b.name = rb.name /\ b.archetype = Normalize(rb.category, rb.subcategory).archetype
  BY DEF toBusiness
<1>2. rb.name = TrimSpace(r.name)
  BY RecordAssumption DEF Sanitize
<1>3. rb.name # Null
  BY <1>2, RecordAssumption
<1> HIDE DEF rb, b
<1>4. b.archetype \in Archetypes
  BY <1>1, NormalizeFacts
<1>5. EmbedText(b) # <<>>
  <2> DEFINE line == <<b.name, b.category, b.subcategory, b.universal_tags, b.specific_tags, b.about>>
  <2>1. 1 \in DOMAIN line /\ line[1] = b.name
    OBVIOUS
  <2> HIDE DEF line
  <2>2. 1 \in DOMAIN EmbedText(b)
    BY <1>1, <1>3, <2>1 DEF EmbedText, line
  <2>3. DOMAIN <<>> = {}
    OBVIOUS
  <2> QED BY <2>2, <2>3
<1> QED BY <1>4, <1>5 DEF b, rb

\* Terms that let a row through one by one let it through together: the category of the
\* overlay is that of one of them, and a slice only grows.
LEMMA TogetherAsAlone ==
  ASSUME NEW b, NEW words \in Seq(Tokens),
         \A k \in DOMAIN terms(words) :
           terms(words)[k] \in DOMAIN Lexicon => Passes(mergeTerm(zero, terms(words)[k]), b)
  PROVE  Passes(Extract(words), b)
<1>1. Passes(zero, b)
  BY DEF Passes, zero
<1>2. CASE words = <<>>
  BY <1>1, <1>2 DEF Extract
<1>3. CASE words # <<>>
  <2> DEFINE n == Len(terms(words))
  <2>1. n \in Nat /\ DOMAIN terms(words) = 1..n
    BY TermsFacts
  <2>2. PICK ov \in [0..n -> Overlays] :
           /\ ov[0] = zero
           /\ \A m \in 1..n : ov[m] = mergeTerm(ov[m-1], terms(words)[m])
           /\ Extract(words) = ov[n]
    BY <1>3, ExtractLoop
  <2>3. ASSUME NEW o \in Overlays, NEW term, Passes(o, b),
               term \in DOMAIN Lexicon => Passes(mergeTerm(zero, term), b)
        PROVE  Passes(mergeTerm(o, term), b)
    <3>1. CASE term \notin DOMAIN Lexicon
      BY <2>3, <3>1 DEF mergeTerm
    <3>2. CASE term \in DOMAIN Lexicon
      BY <2>3, <3>2 DEF mergeTerm, mergeRule, Passes, zero
    <3> QED BY <3>1, <3>2
  <2> DEFINE G == {m \in 0..n : Passes(ov[m], b)}
  <2>4. 0 \in G
    BY <1>1, <2>1, <2>2
  <2>5. ASSUME NEW m \in 1..n, m - 1 \in G PROVE m \in G
    <3> HIDE DEF n
    <3>1. ov[m-1] \in Overlays /\ Passes(ov[m-1], b) /\ m \in DOMAIN terms(words)
      BY <2>1, <2>2, <2>5
    <3>2. Passes(mergeTerm(ov[m-1], terms(words)[m]), b)
      BY <2>3, <3>1
    <3> QED BY <2>2, <3>2
  <2>6. \A m \in 0..n : m \in G
    <3> HIDE DEF G, n
    <3> QED BY <2>1, <2>4, <2>5, Induction
  <2>7. n \in G
    <3> HIDE DEF G, n
    <3> QED BY <2>1, <2>6
  <2> QED BY <2>2, <2>7
<1> QED BY <1>2, <1>3

\* The row is made of the record, which survived every stage.
RowInv ==
  /\ record \in Records
  /\ query \in Seq(Tokens)
  /\ row # Null => /\ Parses(record) /\ Decision(Sanitize(record)) \in Kept
                   /\ row = toBusiness(Sanitize(record))

\* The loader and the typing keep it.
LEMMA RowInvariant == LoadAndType => []RowInv
<1>1. ReadInit /\ QueryInit => RowInv
  BY DEF ReadInit, QueryInit, RowInv
<1>2. ASSUME RowInv, process, UNCHANGED query PROVE RowInv'
  <2>1. record' = record
    BY <1>2 DEF process
  <2>2. row' # Null => Parses(record) /\ Decision(Sanitize(record)) \in Kept
                       /\ row' = toBusiness(Sanitize(record))
    BY <1>2 DEF process, Kept
  <2> QED BY <1>2, <2>1, <2>2 DEF RowInv
<1>3. ASSUME RowInv, Type, UNCHANGED <<record, outcome, row>> PROVE RowInv'
  <2>1. query' \in Seq(Tokens)
    BY <1>3 DEF RowInv, Type
  <2> QED BY <1>3, <2>1 DEF RowInv
<1>4. RowInv /\ UNCHANGED <<record, outcome, row, query>> => RowInv'
  BY DEF RowInv
<1> QED BY <1>1, <1>2, <1>3, <1>4, PTL DEF LoadAndType

\* A row the loader keeps has an archetype with weights and a text to embed, and no query,
\* however long, hides it from a user whose words are those of its record, as soon as no
\* single term of the lexicon does (cmd/ingest/pipeline.go process, ingest/taxonomy.go,
\* ingest/embedtext.go and intent/extract.go against the filters of migration 0009).
THEOREM KeptRowsFound == TermsAgree /\ LoadAndType => []KeptRowsUsable
<1> SUFFICES ASSUME TermsAgree PROVE LoadAndType => []KeptRowsUsable
  OBVIOUS
<1>1. RowInv => KeptRowsUsable
  <2> SUFFICES ASSUME RowInv, row # Null
               PROVE  /\ row.archetype \in Archetypes
                      /\ EmbedText(row) # <<>>
                      /\ (\A k \in DOMAIN terms(query) : Meant(terms(query)[k]))
                            => Passes(Extract(query), row)
    BY DEF KeptRowsUsable
  <2>1. /\ record \in Records /\ query \in Seq(Tokens) /\ Parses(record)
        /\ Decision(Sanitize(record)) \in Kept /\ row = toBusiness(Sanitize(record))
    BY DEF RowInv
  <2>2. row.archetype \in Archetypes /\ EmbedText(row) # <<>>
    BY <2>1, RowFacts
  <2>3. ASSUME \A k \in DOMAIN terms(query) : Meant(terms(query)[k])
        PROVE  Passes(Extract(query), row)
    <3>1. ASSUME NEW k \in DOMAIN terms(query), terms(query)[k] \in DOMAIN Lexicon
          PROVE  Passes(mergeTerm(zero, terms(query)[k]), row)
      <4> DEFINE term == terms(query)[k]
      <4>1. term \in DOMAIN Lexicon /\ record \in Means[term]
        BY <2>3, <3>1 DEF Meant
      <4> HIDE DEF term
      <4>2. Passes(mergeTerm(zero, term), toBusiness(Sanitize(record)))
        BY <2>1, <4>1 DEF TermsAgree
      <4> QED BY <2>1, <4>2 DEF term
    <3> QED BY <2>1, <3>1, TogetherAsAlone
  <2> QED BY <2>2, <2>3
<1> QED BY <1>1, RowInvariant, PTL
=============================================================================
