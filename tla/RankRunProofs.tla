---------------------------- MODULE RankRunProofs ----------------------------
(***************************************************************************)
(* What rank.Run guarantees for every candidate list, every pin and every  *)
(* configuration: the inductive invariant of RankRun and its consequences. *)
(* Then, of the scores it sorts: their range, for every ranking.yaml that  *)
(* keeps its contract, and that no business loses score by growing.        *)
(* Last, the tie-break of a list longer than a block of sort.SliceStable:  *)
(* what its merges may rely on with a comparator that is not transitive,   *)
(* that they only move results, none of them before the pin, and when they *)
(* end with the list that insertion alone gives.                           *)
(***************************************************************************)
EXTENDS RankRun, RankingProofs, Scores, StableTieBreak

\* A result's fields have the types the comparator needs.
LEMMA ResultTypes ==
  ASSUME NEW r \in Result
  PROVE  /\ r.score \in Int /\ r.id \in Int /\ r.dist \in Int /\ r.reviews \in Int
         /\ r.claimed \in BOOLEAN /\ r.isNew \in BOOLEAN
<1>1. CASE r \in Candidate
  BY <1>1, CandidateAssumption
<1>2. ASSUME NEW c \in Candidate, r = Pinned(c)
      PROVE  /\ r.score \in Int /\ r.id \in Int /\ r.dist \in Int /\ r.reviews \in Int
             /\ r.claimed \in BOOLEAN /\ r.isNew \in BOOLEAN
  <2>1. c = [id |-> c.id, name |-> c.name, score |-> c.score, claimed |-> c.claimed,
             dist |-> c.dist, reviews |-> c.reviews, isNew |-> c.isNew,
             dropped |-> c.dropped]
    BY CandidateAssumption
  <2>2. r = [id |-> c.id, name |-> c.name, score |-> Infinity, claimed |-> c.claimed,
             dist |-> c.dist, reviews |-> c.reviews, isNew |-> c.isNew,
             dropped |-> c.dropped]
    BY <1>2, <2>1 DEF Pinned
  <2>3. QED BY <2>2, CandidateAssumption, ScaleAssumption
<1>3. QED BY <1>1, <1>2 DEF Result

\* The pin keeps every field of its candidate but the score.
LEMMA PinnedFields ==
  ASSUME NEW c \in Candidate
  PROVE  /\ Pinned(c) \in Result
         /\ Pinned(c).score = Infinity
         /\ Pinned(c).id = c.id
         /\ c.score # Infinity
<1>1. c = [id |-> c.id, name |-> c.name, score |-> c.score, claimed |-> c.claimed,
           dist |-> c.dist, reviews |-> c.reviews, isNew |-> c.isNew,
           dropped |-> c.dropped]
  BY CandidateAssumption
<1>2. Pinned(c) = [id |-> c.id, name |-> c.name, score |-> Infinity, claimed |-> c.claimed,
           dist |-> c.dist, reviews |-> c.reviews, isNew |-> c.isNew,
           dropped |-> c.dropped]
  BY <1>1 DEF Pinned
<1>3. QED BY <1>2, CandidateAssumption, ScaleAssumption DEF Result

\* The comparator is asymmetric.
LEMMA LessAsymmetric ==
  ASSUME NEW a \in Result, NEW b \in Result, Less(a, b)
  PROVE  ~Less(b, a)
BY ResultTypes, ScaleAssumption DEF Less, Tied, lessWithinTie, Distance

\* No candidate goes before the pin.
LEMMA NothingBeatsThePin ==
  ASSUME NEW c \in Candidate, NEW d \in Candidate
  PROVE  ~Less(c, Pinned(d))
BY PinnedFields, CandidateAssumption, ScaleAssumption DEF Less, Tied, Distance

\* Among results for which being tied is transitive the comparator is a weak order.
LEMMA LessNegativelyTransitive ==
  ASSUME NEW a \in Result, NEW b \in Result, NEW c \in Result,
         ~Less(a, b), ~Less(b, c),
         Tied(a, b) /\ Tied(b, c) => Tied(a, c),
         Tied(a, c) /\ Tied(c, b) => Tied(a, b),
         Tied(b, a) /\ Tied(a, c) => Tied(b, c)
  PROVE  ~Less(a, c)
<1>1. /\ a.score \in Int /\ b.score \in Int /\ c.score \in Int
      /\ a.id \in Int /\ b.id \in Int /\ c.id \in Int
      /\ a.dist \in Int /\ b.dist \in Int /\ c.dist \in Int
      /\ a.reviews \in Int /\ b.reviews \in Int /\ c.reviews \in Int
      /\ a.claimed \in BOOLEAN /\ b.claimed \in BOOLEAN /\ c.claimed \in BOOLEAN
  BY ResultTypes
<1>2. CASE Tied(a, b) /\ Tied(b, c)
  BY <1>1, <1>2, ScaleAssumption DEF Less, lessWithinTie
<1>3. CASE ~(Tied(a, b) /\ Tied(b, c))
  BY <1>1, <1>3, ScaleAssumption DEF Less, Tied, Distance
<1>4. QED BY <1>2, <1>3
-----------------------------------------------------------------------------
(* The inductive invariant, one named part per stage.                      *)

Positions == 1..Len(list)

\* The surviving candidates the ranked list must hold.
Survivors ==
  {candidates[k] : k \in {m \in 1..Len(candidates) : IsKept(candidates[m])}}

SurvivorsButPin ==
  {candidates[k] : k \in {m \in 1..Len(candidates) :
      IsKept(candidates[m]) /\ (pin # NoPin => candidates[m].id # pin.id)}}

PinRow == IF pin = NoPin THEN {} ELSE {Pinned(pin)}

Contents == {list[k] : k \in Positions}

UnpinnedInv ==
  pc \in {"sort", "pin"} =>
    /\ \A k \in Positions : list[k] \in Candidate
    /\ DistinctIds(list)
    /\ Contents = Survivors

SortedInv ==
  pc = "pin" => \A a, b \in Positions : a < b => list[a].score >= list[b].score

PinnedInv ==
  pc \in {"tie", "dePin", "truncate"} =>
    /\ DistinctIds(list)
    /\ Contents = SurvivorsButPin \cup PinRow
    /\ pin # NoPin => Len(list) > 0 /\ list[1] = Pinned(pin)
    /\ \A k \in Positions : list[k] \in Candidate \/ (k = 1 /\ pin # NoPin)

TransitiveTies ==
  \A a, b, c \in Positions :
    Tied(list[a], list[b]) /\ Tied(list[b], list[c]) => Tied(list[a], list[c])

\* The insertion sort has ordered the positions below i; the element being inserted
\* is at j, scores lowest among the first i, and what lies behind i is still in
\* descending order of score.
TieInv ==
  pc = "tie" =>
    /\ i >= 2 /\ j \in 1..i
    /\ i > Len(list) => j = i
    /\ \A a, b \in Positions : a < b /\ b > i => list[a].score >= list[b].score
    /\ j \in Positions => \A a \in Positions : a <= i => list[a].score >= list[j].score
    /\ \A a, b \in Positions : a < b /\ b <= i => list[b].score - list[a].score < Epsilon
    /\ \A a \in 1..Len(list)-1 :
         a + 1 <= i /\ a + 1 # j => ~Less(list[a+1], list[a])
    /\ j > 1 /\ j < i => ~Less(list[j+1], list[j-1])
    /\ TransitiveTies =>
         \A a, b \in Positions : a < b /\ b <= i /\ b # j => ~Less(list[b], list[a])

TieBrokenInv ==
  TieBroken =>
    /\ \A a, b \in Positions : a < b => list[b].score - list[a].score < Epsilon
    /\ \A a \in 1..Len(list)-1 : ~Less(list[a+1], list[a])
    /\ TransitiveTies => \A a, b \in Positions : a < b => ~Less(list[b], list[a])

DePinnedAt(k) == Guarded(list, k) => Replacements(list, k) = {}

DePinInv ==
  /\ pc = "dePin" => i >= 1 /\ \A k \in 1..dePinTopN : k < i => DePinnedAt(k)
  /\ pc = "truncate" => \A k \in 1..dePinTopN : DePinnedAt(k)

IInv ==
  /\ TypeOK
  /\ UnpinnedInv
  /\ SortedInv
  /\ PinnedInv
  /\ TieInv
  /\ TieBrokenInv
  /\ DePinInv
-----------------------------------------------------------------------------
(* Each step keeps the invariant.                                          *)

\* A run starts with the invariant holding: nothing has been filtered, sorted or pinned.
LEMMA InitIInv == Init => IInv
BY DEF Init, IInv, TypeOK, Stages, UnpinnedInv, SortedInv, PinnedInv, TieInv,
       TieBrokenInv, TieBroken, DePinInv

\* Taking a candidate list and a pin keeps the invariant.
LEMMA StartStep == IInv /\ Start => IInv'
BY DEF Start, IInv, TypeOK, Stages, UnpinnedInv, SortedInv, PinnedInv, TieInv,
       TieBrokenInv, TieBroken, DePinInv

\* The hard filter leaves distinct rows, each one of the candidates (filterAndScore).
LEMMA FilterStep == IInv /\ FilterAndScore => IInv'
<1> SUFFICES ASSUME IInv, FilterAndScore PROVE IInv'
  OBVIOUS
<1> DEFINE K == {k \in 1..Len(candidates) : IsKept(candidates[k])}
<1>1. candidates \in Seq(Candidate) /\ DistinctIds(candidates)
  BY InputAssumption DEF IInv, TypeOK
<1>2. PICK f \in Enumerations(K) : list' = Selected(candidates, f)
  BY DEF FilterAndScore
<1>3. /\ list' \in Seq(Candidate)
      /\ Rows(list') = {candidates[k] : k \in K}
      /\ DistinctIds(list')
  <2>1. K \in SUBSET (1..Len(candidates))
    OBVIOUS
  <2> HIDE DEF K
  <2>2. IsSubsequence(Candidate, candidates, K, list')
    BY <1>1, <1>2, <2>1, FilterFacts
  <2>3. QED BY <1>1, <2>2 DEF IsSubsequence
<1>4. list' \in Seq(Result)
  BY <1>3 DEF Result
<1>5. TypeOK'
  BY <1>4 DEF IInv, TypeOK, FilterAndScore, Stages
<1>6. UnpinnedInv'
  <2>1. Contents' = Survivors'
    BY <1>3 DEF Contents, Positions, Survivors, FilterAndScore, Rows
  <2>2. \A k \in Positions' : list'[k] \in Candidate
    BY <1>3 DEF Positions
  <2>3. QED BY <1>3, <2>1, <2>2 DEF UnpinnedInv
<1>7. QED
  BY <1>5, <1>6 DEF FilterAndScore, IInv, SortedInv, PinnedInv, TieInv,
       TieBrokenInv, TieBroken, DePinInv

\* A rearrangement that reaches every position has an enumeration's range.
LEMMA SortStep == IInv /\ Sort => IInv'
<1> SUFFICES ASSUME IInv, Sort PROVE IInv'
  OBVIOUS
<1> DEFINE n == Len(list)
<1>1. PICK p \in Rearrangements(n) :
        StableDescending(list, p) /\ list' = Selected(list, p)
  BY DEF Sort
<1>2. /\ p \in [1..n -> 1..n]
      /\ \A a, b \in 1..n : p[a] = p[b] => a = b
      /\ \A k \in 1..n : \E a \in 1..n : p[a] = k
  BY <1>1 DEF Rearrangements
<1>3. n \in Nat /\ list \in Seq(Result)
  BY DEF IInv, TypeOK
<1>4. /\ \A k \in 1..n : list[k] \in Candidate
      /\ DistinctIds(list)
      /\ Contents = Survivors
  BY DEF IInv, UnpinnedInv, Sort, Positions
<1>5. list' = [k \in 1..n |-> list[p[k]]]
  BY <1>1, <1>2 DEF Selected
<1>6. \A k \in 1..n : p[k] \in 1..n /\ list[p[k]] \in Candidate
  BY <1>2, <1>4
<1>7. list' \in [1..n -> Candidate]
  BY <1>5, <1>6
<1>8. list' \in Seq(Candidate) /\ Len(list') = n
  BY <1>3, <1>7
<1>9. list' \in Seq(Result)
  BY <1>8 DEF Result
<1>10. TypeOK'
  BY <1>9 DEF IInv, TypeOK, Sort, Stages
<1>11. DistinctIds(list')
  <2>1. ASSUME NEW a \in 1..n, NEW b \in 1..n, list'[a].id = list'[b].id
        PROVE  a = b
    <3>1. p[a] \in 1..n /\ p[b] \in 1..n /\ list[p[a]].id = list[p[b]].id
      BY <1>5, <1>6, <2>1
    <3>2. p[a] = p[b]
      BY <1>4, <3>1 DEF DistinctIds
    <3>3. QED BY <1>2, <3>2
  <2>2. QED BY <1>8, <2>1 DEF DistinctIds
<1>12. Contents' = Contents
  <2> DEFINE D == 1..n
  <2>1. \A k \in D : \E m \in D : list'[k] = list[m]
    BY <1>5, <1>6
  <2>2. \A m \in D : \E k \in D : list'[k] = list[m]
    BY <1>2, <1>5
  <2>3. Contents = {list[k] : k \in D} /\ Contents' = {list'[k] : k \in D}
    BY <1>8 DEF Contents, Positions
  <2> HIDE DEF D
  <2>4. ASSUME NEW x \in {list'[k] : k \in D} PROVE x \in {list[k] : k \in D}
    BY <2>1, Zenon
  <2>5. ASSUME NEW x \in {list[k] : k \in D} PROVE x \in {list'[k] : k \in D}
    BY <2>2, Zenon
  <2>6. QED BY <2>3, <2>4, <2>5
<1>13. UnpinnedInv'
  <2>1. Survivors' = Survivors
    BY DEF Survivors, Sort
  <2>2. \A k \in Positions' : list'[k] \in Candidate
    BY <1>5, <1>6, <1>8 DEF Positions
  <2>3. QED BY <1>4, <1>11, <1>12, <2>1, <2>2 DEF UnpinnedInv
<1>14. SortedInv'
  <2>1. \A k \in 1..n : list'[k] = list[p[k]] /\ list'[k].score \in Int
    BY <1>5, <1>6, CandidateAssumption
  <2>2. ASSUME NEW a \in 1..n, NEW b \in 1..n, a < b
        PROVE  list'[a].score >= list'[b].score
    <3>1. list[p[a]].score > list[p[b]].score \/ list[p[a]].score = list[p[b]].score
      BY <1>1, <2>2 DEF StableDescending
    <3>2. QED BY <2>1, <3>1
  <2>3. QED BY <1>8, <2>2 DEF SortedInv, Positions
<1>15. QED
  BY <1>10, <1>13, <1>14 DEF Sort, IInv, PinnedInv, TieInv, TieBrokenInv, TieBroken, DePinInv

\* The insertion sort's invariant holds when it starts on a list in descending order.
LEMMA TieStart ==
  ASSUME list' \in Seq(Result), i' = 2, j' = 2,
         \A a, b \in 1..Len(list') : a < b => list'[a].score >= list'[b].score
  PROVE  TieInv'
<1>1. \A k \in 1..Len(list') : list'[k] \in Result /\ list'[k].score \in Int
  BY ResultTypes
<1>2. Len(list') \in Nat
  OBVIOUS
<1>3. \A a, b \in 1..Len(list') : a < b => list'[b].score - list'[a].score < Epsilon
  BY <1>1, ScaleAssumption
<1>4. QED BY <1>1, <1>2, <1>3 DEF TieInv, Positions

\* The pin stage computes applyPin.
LEMMA ApplyPinComputes ==
  ASSUME ApplyPin, list \in Seq(Candidate)
  PROVE  list' = applyPin(list, pin)
<1>1. CASE pin = NoPin
  BY <1>1 DEF ApplyPin, applyPin
<1>2. CASE pin # NoPin
  <2> DEFINE K == {k \in 1..Len(list) : list[k].id # pin.id}
  <2>1. PICK f \in Enumerations(K) : list' = <<Pinned(pin)>> \o Selected(list, f)
    BY <1>2 DEF ApplyPin, PinFirst
  <2>2. K \in SUBSET (1..Len(list)) /\ Len(list) \in Nat
    OBVIOUS
  <2>3. Selected(list, f) = Filtered(list, K)
    <3> HIDE DEF K
    <3> QED BY <2>1, <2>2, EnumerationUnique
  <2> QED BY <1>2, <2>1, <2>3 DEF applyPin
<1> QED BY <1>1, <1>2

\* Putting the pin first removes its other copy and loses no other row (applyPin).
LEMMA PinStep == IInv /\ ApplyPin => IInv'
<1> SUFFICES ASSUME IInv, ApplyPin PROVE IInv'
  OBVIOUS
<1>1. /\ pc = "pin" /\ pc' = "tie" /\ i' = 2 /\ j' = 2
      /\ UNCHANGED <<candidates, pin>>
      /\ list \in Seq(Candidate) /\ Len(list) \in Nat
      /\ DistinctIds(list)
      /\ Contents = Survivors
      /\ \A a, b \in 1..Len(list) : a < b => list[a].score >= list[b].score
      /\ pin \in Pins \cup {NoPin}
  <2>1. list \in Seq(Result) /\ \A k \in 1..Len(list) : list[k] \in Candidate
    BY DEF IInv, TypeOK, UnpinnedInv, ApplyPin, Positions
  <2>2. list \in [1..Len(list) -> Candidate] /\ Len(list) \in Nat
    BY <2>1
  <2>3. list \in Seq(Candidate)
    BY <2>2
  <2>4. QED BY <2>2, <2>3 DEF IInv, TypeOK, UnpinnedInv, SortedInv, ApplyPin, Positions
<1>2. CASE pin = NoPin
  <2>1. list' = list
    BY <1>2 DEF ApplyPin
  <2>2. list' \in Seq(Result)
    BY <1>1, <2>1 DEF Result
  <2>3. TypeOK'
    BY <1>1, <2>2 DEF IInv, TypeOK, Stages
  <2>4. TieInv'
    BY <1>1, <2>1, <2>2, TieStart
  <2>5. PinnedInv'
    <3>1. Contents' = Contents /\ SurvivorsButPin' = Survivors /\ PinRow' = {}
      BY <1>1, <1>2, <2>1 DEF Contents, Positions, SurvivorsButPin, Survivors, PinRow
    <3>2. \A k \in 1..Len(list') : list'[k] \in Candidate
      BY <1>1, <2>1
    <3>3. QED BY <1>1, <1>2, <2>1, <3>1, <3>2 DEF PinnedInv, Positions
  <2>6. QED BY <1>1, <2>3, <2>4, <2>5
            DEF IInv, UnpinnedInv, SortedInv, TieBrokenInv, TieBroken, DePinInv
<1>3. CASE pin # NoPin
  <2>1. pin \in Candidate /\ Pinned(pin) \in Result
        /\ Pinned(pin).score = Infinity /\ Pinned(pin).id = pin.id
    BY <1>1, <1>3, InputAssumption, PinnedFields
  <2>2. list' = applyPin(list, pin)
    BY <1>1, ApplyPinComputes
  <2>3. \A r \in Result : r.score \in Int /\ r.score <= Infinity
    BY CandidateAssumption, ScaleAssumption, PinnedFields DEF Result
  <2>4. list \in Seq(Result) /\ Descending(list)
    BY <1>1 DEF IInv, TypeOK, Descending
  <2>5. /\ list' \in Seq(Result) /\ Descending(list') /\ DistinctIds(list')
        /\ Rows(list') = {Pinned(pin)} \cup {r \in Rows(list) : r.id # pin.id}
        /\ Len(list') > 0 /\ list'[1] = Pinned(pin)
    BY <1>1, <1>3, <2>1, <2>2, <2>3, <2>4, ApplyPinFacts
  <2>6. TypeOK'
    BY <1>1, <2>5 DEF IInv, TypeOK, Stages
  <2>7. TieInv'
    BY <1>1, <2>5, TieStart DEF Descending
  <2>8. Contents' = SurvivorsButPin' \cup PinRow'
    <3>1. Contents' = Rows(list') /\ Contents = Rows(list)
      BY DEF Contents, Positions, Rows
    <3>2. {r \in Survivors : r.id # pin.id} = SurvivorsButPin'
      BY <1>1, <1>3 DEF Survivors, SurvivorsButPin
    <3>3. PinRow' = {Pinned(pin)}
      BY <1>1, <1>3 DEF PinRow
    <3> QED BY <1>1, <2>5, <3>1, <3>2, <3>3
  <2>9. ASSUME NEW k \in 1..Len(list'), k # 1 PROVE list'[k] \in Candidate
    <3>1. list'[k] \in Rows(list')
      BY DEF Rows
    <3>2. list'[k] # Pinned(pin)
      <4>1. Len(list') \in Nat /\ 1 \in 1..Len(list')
        BY <2>5
      <4> QED BY <2>5, <2>9, <4>1 DEF DistinctIds
    <3>3. list'[k] \in Rows(list)
      BY <2>5, <3>1, <3>2
    <3> QED BY <1>1, <3>3 DEF Rows
  <2>10. PinnedInv'
    BY <1>1, <1>3, <2>5, <2>8, <2>9 DEF PinnedInv, Positions
  <2>11. QED BY <1>1, <2>6, <2>7, <2>10
             DEF IInv, UnpinnedInv, SortedInv, TieBrokenInv, TieBroken, DePinInv
<1>4. QED BY <1>2, <1>3

\* Swapping two places behind the pin changes neither the rows nor the pin.
LEMMA SwapKeepsPinned ==
  ASSUME IInv, pc \in {"tie", "dePin"}, UNCHANGED <<candidates, pin>>,
         NEW a \in 1..Len(list), NEW b \in 1..Len(list),
         pin # NoPin => a > 1 /\ b > 1,
         list' = Swapped(list, a, b), pc' \in {"tie", "dePin"}
  PROVE  /\ PinnedInv'
         /\ list' \in Seq(Result)
         /\ Len(list') = Len(list)
         /\ list'[a] = list[b] /\ list'[b] = list[a]
         /\ \A k \in 1..Len(list) : k # a /\ k # b => list'[k] = list[k]
<1>1. list \in Seq(Result) /\ Len(list) \in Nat
  BY DEF IInv, TypeOK
<1>2. /\ list' \in Seq(Result)
      /\ Len(list') = Len(list)
      /\ list'[a] = list[b] /\ list'[b] = list[a]
      /\ \A k \in 1..Len(list) : k # a /\ k # b => list'[k] = list[k]
      /\ Rows(list') = Rows(list)
      /\ DistinctIds(list) => DistinctIds(list')
  <2> DEFINE t == list'
  <2>1. t = Swapped(list, a, b)
    OBVIOUS
  <2> HIDE DEF t
  <2>2. IsSwap(Result, list, a, b, t)
    BY <1>1, <2>1, SwapFacts
  <2>3. QED BY <2>2 DEF t, IsSwap
<1>3. Contents' = Contents /\ SurvivorsButPin' = SurvivorsButPin /\ PinRow' = PinRow
  BY <1>2 DEF Contents, Positions, SurvivorsButPin, PinRow, Rows
<1>4. /\ DistinctIds(list)
      /\ Contents = SurvivorsButPin \cup PinRow
      /\ pin # NoPin => Len(list) > 0 /\ list[1] = Pinned(pin)
      /\ \A k \in 1..Len(list) : list[k] \in Candidate \/ (k = 1 /\ pin # NoPin)
  BY DEF IInv, PinnedInv, Positions
<1>5. pin # NoPin => list'[1] = list[1]
  BY <1>1, <1>2, <1>4
<1>6. \A k \in 1..Len(list) : list'[k] \in Candidate \/ (k = 1 /\ pin # NoPin)
  BY <1>2, <1>4
<1>7. PinnedInv'
  BY <1>2, <1>3, <1>4, <1>5, <1>6 DEF PinnedInv, Positions
<1>8. QED BY <1>2, <1>7

\* Exchanging two neighbours in the tie-break keeps order, rows and pin (tieBreak).
LEMMA TieSwapStep == IInv /\ TieSwap => IInv'
<1> SUFFICES ASSUME IInv, TieSwap PROVE IInv'
  OBVIOUS
<1> DEFINE n == Len(list)
           x == list[j]
           y == list[j-1]
<1>1. /\ pc = "tie" /\ pc' = "tie" /\ i' = i /\ j' = j - 1
      /\ UNCHANGED <<candidates, pin>>
      /\ list' = Swapped(list, j, j-1)
      /\ i <= n /\ j > 1 /\ Less(x, y)
  BY DEF TieSwap
<1>2. /\ list \in Seq(Result) /\ n \in Nat /\ i \in Nat /\ j \in Nat
      /\ \A k \in 1..n : list[k] \in Result /\ list[k].score \in Int
  BY ResultTypes DEF IInv, TypeOK
<1>3. /\ i >= 2 /\ j \in 1..i
      /\ \A a, b \in 1..n : a < b /\ b > i => list[a].score >= list[b].score
      /\ \A a \in 1..n : a <= i => list[a].score >= x.score
      /\ \A a, b \in 1..n : a < b /\ b <= i => list[b].score - list[a].score < Epsilon
      /\ \A a \in 1..n-1 : a + 1 <= i /\ a + 1 # j => ~Less(list[a+1], list[a])
      /\ j < i => ~Less(list[j+1], y)
      /\ TransitiveTies =>
           \A a, b \in 1..n : a < b /\ b <= i /\ b # j => ~Less(list[b], list[a])
  BY <1>1, <1>2 DEF IInv, TieInv, Positions
<1>4. /\ j \in 1..n /\ j-1 \in 1..n /\ j \in 2..n
      /\ x \in Result /\ y \in Result /\ x.score <= y.score
  BY <1>1, <1>2, <1>3
<1>5. y.score - x.score < Epsilon /\ ~Less(y, x)
  BY <1>1, <1>4, ResultTypes, LessAsymmetric, LessOnlyPassesTied
<1>6. pin # NoPin => j-1 > 1
  <2>1. SUFFICES ASSUME pin # NoPin, j - 1 = 1 PROVE FALSE
    BY <1>4
  <2>2. y = Pinned(pin) /\ x \in Candidate
    BY <1>1, <1>4, <2>1 DEF IInv, PinnedInv, Positions
  <2>3. pin \in Candidate
    BY <2>1, InputAssumption DEF IInv, TypeOK
  <2>4. QED BY <1>1, <2>2, <2>3, NothingBeatsThePin
<1>7. /\ PinnedInv'
      /\ list' \in Seq(Result)
      /\ Len(list') = n
      /\ list'[j] = y /\ list'[j-1] = x
      /\ \A k \in 1..n : k # j /\ k # j-1 => list'[k] = list[k]
  BY <1>1, <1>4, <1>6, SwapKeepsPinned
<1>8. TypeOK'
  BY <1>1, <1>2, <1>4, <1>7 DEF IInv, TypeOK
<1> HIDE DEF x, y
<1>9. \A a, b \in 1..n : a < b /\ b > i => list'[a].score >= list'[b].score
  <2>1. SUFFICES ASSUME NEW a \in 1..n, NEW b \in 1..n, a < b, b > i
                 PROVE  list'[a].score >= list'[b].score
    OBVIOUS
  <2>2. list'[b] = list[b]
    BY <1>2, <1>3, <1>4, <1>7, <2>1
  <2>3. \E p \in 1..n : list'[a] = list[p] /\ p < b
    <3>1. CASE a \in {j, j-1}
      BY <1>2, <1>3, <1>4, <1>7, <2>1, <3>1 DEF x, y
    <3>2. CASE a \notin {j, j-1}
      BY <1>7, <2>1, <3>2
    <3>3. QED BY <3>1, <3>2
  <2>4. QED BY <1>3, <2>1, <2>2, <2>3
<1>10. \A a \in 1..n : a <= i => list'[a].score >= list'[j-1].score
  <2>1. SUFFICES ASSUME NEW a \in 1..n, a <= i
                 PROVE  list'[a].score >= x.score
    BY <1>7
  <2>2. \E p \in 1..n : list'[a] = list[p] /\ p <= i
    <3>1. CASE a \in {j, j-1}
      BY <1>2, <1>3, <1>4, <1>7, <2>1, <3>1 DEF x, y
    <3>2. CASE a \notin {j, j-1}
      BY <1>7, <2>1, <3>2
    <3>3. QED BY <3>1, <3>2
  <2>3. QED BY <1>3, <2>2
<1>11. \A a, b \in 1..n : a < b /\ b <= i => list'[b].score - list'[a].score < Epsilon
  <2>1. SUFFICES ASSUME NEW a \in 1..n, NEW b \in 1..n, a < b, b <= i
                 PROVE  list'[b].score - list'[a].score < Epsilon
    OBVIOUS
  <2>2. CASE b = j - 1
    <3>1. list'[b] = list[j] /\ list'[a] = list[a] /\ a < j
      BY <1>4, <1>7, <2>1, <2>2 DEF x
    <3>2. QED BY <1>2, <1>3, <1>4, <2>1, <3>1
  <2>3. CASE b = j /\ a = j - 1
    BY <1>5, <1>7, <2>3
  <2>4. CASE b = j /\ a # j - 1
    <3>1. list'[b] = list[j-1] /\ list'[a] = list[a] /\ a < j-1 /\ j-1 <= i
      BY <1>2, <1>4, <1>7, <2>1, <2>4 DEF y
    <3>2. QED BY <1>2, <1>3, <1>4, <2>1, <3>1
  <2>5. CASE b # j /\ b # j - 1
    <3>1. list'[b] = list[b] /\ b \in 1..n
      BY <1>7, <2>1, <2>5
    <3>2. list'[a] = list[a] \/ (a = j /\ list'[a] = list[j-1] /\ j-1 < b)
            \/ (a = j-1 /\ list'[a] = list[j] /\ j < b)
      BY <1>2, <1>4, <1>7, <2>1, <2>5 DEF x, y
    <3>3. QED BY <1>2, <1>3, <1>4, <2>1, <3>1, <3>2
  <2>6. QED BY <2>2, <2>3, <2>4, <2>5
<1>12. ASSUME NEW a \in 1..n-1, a + 1 <= i, a + 1 # j - 1
       PROVE  ~Less(list'[a+1], list'[a])
  <2>1. CASE a + 1 = j
    <3>1. list'[a+1] = y /\ list'[a] = x
      BY <1>2, <1>4, <1>7, <1>12, <2>1
    <3>2. QED BY <1>5, <3>1
  <2>2. CASE a = j
    <3>1. list'[a] = y
      BY <1>2, <1>4, <1>7, <1>12, <2>2
    <3>2. list'[a+1] = list[j+1] /\ j < i
      BY <1>2, <1>4, <1>7, <1>12, <2>2
    <3>3. QED BY <1>3, <3>1, <3>2
  <2>3. CASE a + 1 # j /\ a # j
    <3>1. list'[a] = list[a] /\ list'[a+1] = list[a+1]
      BY <1>2, <1>4, <1>7, <1>12, <2>3
    <3>2. QED BY <1>3, <1>12, <2>3, <3>1
  <2>4. QED BY <2>1, <2>2, <2>3
<1>13. j - 1 > 1 => ~Less(list'[j], list'[j-2])
  <2>1. SUFFICES ASSUME j - 1 > 1 PROVE ~Less(list'[j], list'[j-2])
    OBVIOUS
  <2>2. list'[j] = list[j-1] /\ list'[j-2] = list[j-2] /\ j-2 \in 1..n-1
    BY <1>2, <1>4, <1>7, <2>1 DEF y
  <2>3. (j-2)+1 = j-1 /\ (j-2)+1 <= i /\ (j-2)+1 # j
    BY <1>2, <1>3
  <2>4. QED BY <1>3, <2>2, <2>3
<1>14. ASSUME TransitiveTies', NEW a \in 1..n, NEW b \in 1..n, a < b, b <= i, b # j - 1
       PROVE  ~Less(list'[b], list'[a])
  <2>1. TransitiveTies
    <3> DEFINE s(k) == IF k = j THEN j-1 ELSE IF k = j-1 THEN j ELSE k
    <3>1. \A k \in 1..n : s(k) \in 1..n /\ list'[s(k)] = list[k]
      BY <1>2, <1>4, <1>7 DEF x, y
    <3>2. ASSUME NEW u \in 1..n, NEW v \in 1..n, NEW w \in 1..n,
                 Tied(list[u], list[v]), Tied(list[v], list[w])
          PROVE  Tied(list[u], list[w])
      <4> HIDE DEF s
      <4>1. Tied(list'[s(u)], list'[s(v)]) /\ Tied(list'[s(v)], list'[s(w)])
        BY <3>1, <3>2
      <4>2. s(u) \in 1..n /\ s(v) \in 1..n /\ s(w) \in 1..n
        BY <3>1
      <4>3. \A p, q, r \in 1..n :
              Tied(list'[p], list'[q]) /\ Tied(list'[q], list'[r]) => Tied(list'[p], list'[r])
        BY <1>7, <1>14 DEF TransitiveTies, Positions
      <4>4. Tied(list'[s(u)], list'[s(w)])
        BY <4>1, <4>2, <4>3
      <4>5. QED BY <3>1, <4>4
    <3>3. QED BY <3>2 DEF TransitiveTies, Positions
  <2>2. \A p, q \in 1..n : p < q /\ q <= i /\ q # j => ~Less(list[q], list[p])
    BY <1>3, <2>1
  <2>3. CASE b = j /\ a = j - 1
    BY <1>5, <1>7, <2>3
  <2>4. CASE b = j /\ a # j - 1
    <3>1. list'[b] = list[j-1] /\ list'[a] = list[a] /\ a < j-1 /\ j-1 <= i /\ j-1 # j
      BY <1>2, <1>4, <1>7, <1>14, <2>4 DEF y
    <3>2. QED BY <1>4, <2>2, <3>1
  <2>5. CASE b # j
    <3>1. list'[b] = list[b]
      BY <1>7, <1>14, <2>5
    <3>2. \E p \in 1..n : list'[a] = list[p] /\ p < b
      <4>1. CASE a = j
        BY <1>2, <1>4, <1>7, <1>14, <4>1 DEF y
      <4>2. CASE a = j - 1
        BY <1>2, <1>4, <1>7, <1>14, <2>5, <4>2 DEF x
      <4>3. CASE a # j /\ a # j - 1
        BY <1>7, <1>14, <4>3
      <4>4. QED BY <4>1, <4>2, <4>3
    <3>3. QED BY <1>14, <2>2, <2>5, <3>1, <3>2
  <2>6. QED BY <2>3, <2>4, <2>5
<1>15. TieInv'
  <2>1. i' >= 2 /\ j' \in 1..i' /\ (i' > Len(list') => j' = i')
    BY <1>1, <1>2, <1>3, <1>4, <1>7
  <2>2. j' > 1 /\ j' < i' => ~Less(list'[j'+1], list'[j'-1])
    <3>1. j' + 1 = j /\ j' - 1 = j - 2
      BY <1>1, <1>2
    <3>2. QED BY <1>1, <1>13, <3>1
  <2>3. QED BY <1>1, <1>7, <1>9, <1>10, <1>11, <1>12, <1>14, <2>1, <2>2 DEF TieInv, Positions
<1>16. QED BY <1>1, <1>7, <1>8, <1>15
           DEF IInv, UnpinnedInv, SortedInv, TieBrokenInv, TieBroken, DePinInv

\* Moving on to the next insertion keeps the order of the part already inserted.
LEMMA TieNextStep == IInv /\ TieNext => IInv'
<1> SUFFICES ASSUME IInv, TieNext PROVE IInv'
  OBVIOUS
<1> DEFINE n == Len(list)
<1>1. /\ pc = "tie" /\ pc' = "tie" /\ i' = i + 1 /\ j' = i + 1
      /\ UNCHANGED <<candidates, pin, list>>
      /\ i <= n /\ (j > 1 => ~Less(list[j], list[j-1]))
  BY DEF TieNext
<1>2. /\ list \in Seq(Result) /\ n \in Nat /\ i \in Nat /\ j \in Nat
      /\ \A k \in 1..n : list[k] \in Result /\ list[k].score \in Int
  BY ResultTypes DEF IInv, TypeOK
<1>3. /\ i >= 2 /\ j \in 1..i
      /\ \A a, b \in 1..n : a < b /\ b > i => list[a].score >= list[b].score
      /\ \A a, b \in 1..n : a < b /\ b <= i => list[b].score - list[a].score < Epsilon
      /\ \A a \in 1..n-1 : a + 1 <= i /\ a + 1 # j => ~Less(list[a+1], list[a])
      /\ TransitiveTies =>
           \A a, b \in 1..n : a < b /\ b <= i /\ b # j => ~Less(list[b], list[a])
  BY <1>1, <1>2 DEF IInv, TieInv, Positions
<1>4. \A a, b \in 1..n : a < b /\ b > i + 1 => list[a].score >= list[b].score
  BY <1>2, <1>3
<1>5. i + 1 \in 1..n => \A a \in 1..n : a <= i + 1 => list[a].score >= list[i+1].score
  BY <1>2, <1>3
<1>6. \A a, b \in 1..n : a < b /\ b <= i + 1 => list[b].score - list[a].score < Epsilon
  <2>1. SUFFICES ASSUME NEW a \in 1..n, NEW b \in 1..n, a < b, b = i + 1
                 PROVE  list[b].score - list[a].score < Epsilon
    BY <1>2, <1>3
  <2>2. list[a].score >= list[b].score
    BY <1>2, <1>3, <2>1
  <2>3. QED BY <1>2, <2>2, ScaleAssumption
<1>7. ASSUME NEW a \in 1..n-1, a + 1 <= i + 1, a + 1 # i + 1
      PROVE  ~Less(list[a+1], list[a])
  <2>1. CASE a + 1 = j
    <3>1. a = j - 1 /\ j > 1
      BY <1>2, <2>1
    <3>2. QED BY <1>1, <2>1, <3>1
  <2>2. CASE a + 1 # j
    BY <1>2, <1>3, <1>7, <2>2
  <2>3. QED BY <2>1, <2>2
<1>8. ASSUME TransitiveTies, NEW a \in 1..n, NEW b \in 1..n, a < b, b <= i + 1, b # i + 1
      PROVE  ~Less(list[b], list[a])
  <2>1. \A p, q \in 1..n : p < q /\ q <= i /\ q # j => ~Less(list[q], list[p])
    BY <1>3, <1>8
  <2>2. CASE b # j
    BY <1>2, <1>8, <2>1, <2>2
  <2>3. CASE b = j /\ a = j - 1
    BY <1>1, <1>2, <1>8, <2>3
  <2>4. CASE b = j /\ a # j - 1
    <3>1. j-1 \in 1..n /\ a < j-1 /\ j-1 <= i /\ j-1 # j /\ j > 1
      BY <1>2, <1>3, <1>8, <2>4
    <3>2. ~Less(list[j-1], list[a]) /\ ~Less(list[j], list[j-1])
      BY <1>1, <2>1, <3>1
    <3>3. \A p, q, r \in {a, j-1, j} :
            Tied(list[p], list[q]) /\ Tied(list[q], list[r]) => Tied(list[p], list[r])
      BY <1>8, <2>4, <3>1 DEF TransitiveTies, Positions
    <3>4. list[a] \in Result /\ list[j-1] \in Result /\ list[j] \in Result
      BY <1>2, <1>8, <2>4, <3>1
    <3> DEFINE A == list[a]
               B == list[j-1]
               C == list[j]
    <3>5. /\ Tied(C, B) /\ Tied(B, A) => Tied(C, A)
          /\ Tied(C, A) /\ Tied(A, B) => Tied(C, B)
          /\ Tied(B, C) /\ Tied(C, A) => Tied(B, A)
      BY <3>3
    <3> HIDE DEF A, B, C
    <3>6. ~Less(C, A)
      BY <3>2, <3>4, <3>5, LessNegativelyTransitive DEF A, B, C
    <3>7. QED BY <2>4, <3>6 DEF A, C
  <2>5. QED BY <2>2, <2>3, <2>4
<1>9. TieInv'
  <2>1. i' >= 2 /\ j' \in 1..i' /\ (i' > Len(list') => j' = i') /\ ~(j' < i')
    BY <1>1, <1>2, <1>3
  <2>2. TransitiveTies' = TransitiveTies
    BY <1>1 DEF TransitiveTies, Positions
  <2>3. QED BY <1>1, <1>4, <1>5, <1>6, <1>7, <1>8, <2>1, <2>2 DEF TieInv, Positions
<1>10. TypeOK'
  BY <1>1, <1>2 DEF IInv, TypeOK
<1>11. PinnedInv'
  <2>1. /\ Contents' = Contents /\ SurvivorsButPin' = SurvivorsButPin /\ PinRow' = PinRow
        /\ Positions' = Positions
    BY <1>1 DEF Contents, Positions, SurvivorsButPin, PinRow
  <2>2. QED BY <1>1, <2>1 DEF IInv, PinnedInv
<1>12. QED BY <1>1, <1>9, <1>10, <1>11
           DEF IInv, UnpinnedInv, SortedInv, TieBrokenInv, TieBroken, DePinInv

\* When the last insertion ends every pair of neighbours is in tie-break order.
LEMMA TieDoneStep == IInv /\ TieDone => IInv'
<1> SUFFICES ASSUME IInv, TieDone PROVE IInv'
  OBVIOUS
<1> DEFINE n == Len(list)
<1>1. /\ pc = "tie" /\ pc' = "dePin" /\ i' = 1 /\ j' = 0 /\ i > n
      /\ UNCHANGED <<candidates, pin, list>>
      /\ n \in Nat /\ i \in Nat /\ j = i
  BY DEF TieDone, IInv, TypeOK, TieInv
<1>2. /\ \A a, b \in 1..n : a < b => list[b].score - list[a].score < Epsilon
      /\ \A a \in 1..n-1 : ~Less(list[a+1], list[a])
      /\ TransitiveTies => \A a, b \in 1..n : a < b => ~Less(list[b], list[a])
  <2>1. \A a \in 1..n : a <= i /\ a # j
    BY <1>1
  <2>2. \A a \in 1..n-1 : a + 1 <= i /\ a + 1 # j
    BY <1>1
  <2>3. QED BY <1>1, <2>1, <2>2 DEF IInv, TieInv, Positions
<1>3. TieBrokenInv'
  <2>1. TransitiveTies' = TransitiveTies
    BY <1>1 DEF TransitiveTies, Positions
  <2>2. QED BY <1>1, <1>2, <2>1 DEF TieBrokenInv, Positions
<1>4. TypeOK'
  BY <1>1 DEF IInv, TypeOK, Stages
<1>5. PinnedInv'
  <2>1. /\ Contents' = Contents /\ SurvivorsButPin' = SurvivorsButPin /\ PinRow' = PinRow
        /\ Positions' = Positions
    BY <1>1 DEF Contents, Positions, SurvivorsButPin, PinRow
  <2>2. QED BY <1>1, <2>1 DEF IInv, PinnedInv
<1>6. DePinInv'
  BY <1>1 DEF DePinInv, dePinTopN
<1>7. QED BY <1>1, <1>3, <1>4, <1>5, <1>6
          DEF IInv, UnpinnedInv, SortedInv, TieInv

\* Lifting an established result over a new one keeps rows and pin (dePin).
LEMMA DePinSwapStep == IInv /\ DePinSwap => IInv'
<1> SUFFICES ASSUME IInv, DePinSwap PROVE IInv'
  OBVIOUS
<1> DEFINE n == Len(list)
<1>1. /\ pc = "dePin" /\ pc' = "dePin" /\ i' = i + 1 /\ j' = j
      /\ UNCHANGED <<candidates, pin>>
      /\ i <= 2 /\ Guarded(list, i)
  BY DEF DePinSwap, dePinTopN
<1>2. PICK q \in Replacements(list, i) : list' = Swapped(list, i, q)
  BY DEF DePinSwap
<1>3. /\ list \in Seq(Result) /\ n \in Nat /\ i \in Nat /\ j \in Nat /\ i >= 1
      /\ i \in 1..n /\ q \in 1..n /\ q > i
      /\ ~IsPinned(list[i]) /\ ~list[q].isNew
  BY <1>1, <1>2 DEF IInv, TypeOK, Guarded, Replacements, DePinInv
<1>4. pin # NoPin => i > 1 /\ q > 1
  <2>1. SUFFICES ASSUME pin # NoPin, i = 1 PROVE FALSE
    BY <1>3
  <2>2. list[1] = Pinned(pin) /\ pin \in Candidate
    BY <1>1, <2>1, InputAssumption DEF IInv, TypeOK, PinnedInv
  <2>3. QED BY <1>3, <2>1, <2>2, PinnedFields DEF IsPinned
<1>5. /\ PinnedInv'
      /\ list' \in Seq(Result)
      /\ Len(list') = n
      /\ list'[i] = list[q] /\ list'[q] = list[i]
      /\ \A k \in 1..n : k # i /\ k # q => list'[k] = list[k]
  BY <1>1, <1>2, <1>3, <1>4, SwapKeepsPinned
<1>6. TypeOK'
  BY <1>1, <1>3, <1>5 DEF IInv, TypeOK
<1>7. ASSUME NEW k \in 1..2, k < i + 1
      PROVE  Guarded(list', k) => Replacements(list', k) = {}
  <2>1. CASE k = i
    BY <1>3, <1>5, <2>1 DEF Guarded
  <2>2. CASE k # i
    <3>1. k < i /\ k \in 1..n
      BY <1>3, <1>7, <2>2
    <3>2. Guarded(list, k) => Replacements(list, k) = {}
      BY <1>1, <3>1 DEF IInv, DePinInv, DePinnedAt, dePinTopN
    <3>3. list'[k] = list[k]
      BY <1>3, <1>5, <3>1
    <3>4. ASSUME NEW m \in Replacements(list', k)
          PROVE  \E r \in k+1..n : ~list[r].isNew /\ list[k].score - list[r].score < SwapWindow
      <4>1. m \in k+1..n /\ ~list'[m].isNew /\ list[k].score - list'[m].score < SwapWindow
        BY <1>5, <3>3, <3>4 DEF Replacements
      <4>2. CASE m = i
        <5>1. q \in k+1..n /\ list'[m] = list[q]
          BY <1>3, <1>5, <3>1, <4>2
        <5>2. QED BY <4>1, <5>1
      <4>3. CASE m = q
        <5>1. i \in k+1..n /\ list'[m] = list[i]
          BY <1>3, <1>5, <3>1, <4>3
        <5>2. QED BY <4>1, <5>1
      <4>4. CASE m # i /\ m # q
        <5>1. list'[m] = list[m]
          BY <1>3, <1>5, <3>1, <4>1, <4>4
        <5>2. QED BY <4>1, <5>1
      <4>5. QED BY <4>2, <4>3, <4>4
    <3>5. Guarded(list', k) => Guarded(list, k)
      BY <1>5, <3>1, <3>3 DEF Guarded
    <3>6. QED BY <3>2, <3>4, <3>5 DEF Replacements
  <2>3. QED BY <2>1, <2>2
<1>8. DePinInv'
  BY <1>1, <1>3, <1>7 DEF DePinInv, DePinnedAt, dePinTopN
<1>9. QED BY <1>1, <1>3, <1>5, <1>6, <1>8
          DEF IInv, UnpinnedInv, SortedInv, TieInv, TieBrokenInv, TieBroken

\* Leaving a guarded place as it is keeps the invariant (dePin).
LEMMA DePinKeepStep == IInv /\ DePinKeep => IInv'
<1> SUFFICES ASSUME IInv, DePinKeep PROVE IInv'
  OBVIOUS
<1>1. /\ pc = "dePin" /\ pc' = "dePin" /\ i' = i + 1 /\ i <= 2
      /\ UNCHANGED <<candidates, pin, list, j>>
      /\ i \in Nat /\ i >= 1
      /\ Guarded(list, i) => Replacements(list, i) = {}
  BY DEF DePinKeep, dePinTopN, IInv, TypeOK, DePinInv
<1>2. \A k \in 1..2 : k < i => DePinnedAt(k)
  BY <1>1 DEF IInv, DePinInv, dePinTopN
<1>3. \A k \in 1..2 : k < i + 1 => DePinnedAt(k)
  BY <1>1, <1>2 DEF DePinnedAt
<1>4. \A k \in 1..2 : DePinnedAt(k)' = DePinnedAt(k)
  BY <1>1 DEF DePinnedAt, Guarded, Replacements
<1>5. DePinInv'
  BY <1>1, <1>3, <1>4 DEF DePinInv, dePinTopN
<1>6. PinnedInv'
  <2>1. /\ Contents' = Contents /\ SurvivorsButPin' = SurvivorsButPin /\ PinRow' = PinRow
        /\ Positions' = Positions
    BY <1>1 DEF Contents, Positions, SurvivorsButPin, PinRow
  <2>2. QED BY <1>1, <2>1 DEF IInv, PinnedInv
<1>7. TypeOK'
  BY <1>1 DEF IInv, TypeOK
<1>8. QED BY <1>1, <1>5, <1>6, <1>7
          DEF IInv, UnpinnedInv, SortedInv, TieInv, TieBrokenInv, TieBroken

\* The pass ends with no guarded place left to repair (dePin).
LEMMA DePinDoneStep == IInv /\ DePinDone => IInv'
<1> SUFFICES ASSUME IInv, DePinDone PROVE IInv'
  OBVIOUS
<1>1. /\ pc = "dePin" /\ pc' = "truncate" /\ i > 2
      /\ UNCHANGED <<candidates, pin, list, i, j>>
      /\ i \in Nat
  BY DEF DePinDone, dePinTopN, IInv, TypeOK
<1>2. \A k \in 1..2 : DePinnedAt(k)
  BY <1>1 DEF IInv, DePinInv, dePinTopN
<1>3. \A k \in 1..2 : DePinnedAt(k)' = DePinnedAt(k)
  BY <1>1 DEF DePinnedAt, Guarded, Replacements
<1>4. DePinInv'
  BY <1>1, <1>2, <1>3 DEF DePinInv, dePinTopN
<1>5. PinnedInv'
  <2>1. /\ Contents' = Contents /\ SurvivorsButPin' = SurvivorsButPin /\ PinRow' = PinRow
        /\ Positions' = Positions
    BY <1>1 DEF Contents, Positions, SurvivorsButPin, PinRow
  <2>2. QED BY <1>1, <2>1 DEF IInv, PinnedInv
<1>6. TypeOK'
  BY <1>1 DEF IInv, TypeOK, Stages
<1>7. QED BY <1>1, <1>4, <1>5, <1>6
          DEF IInv, UnpinnedInv, SortedInv, TieInv, TieBrokenInv, TieBroken

\* Cutting the list at the limit keeps its front (Run).
LEMMA TruncateStep == IInv /\ Truncate => IInv'
<1> SUFFICES ASSUME IInv, Truncate PROVE IInv'
  OBVIOUS
<1>1. list \in Seq(Result) /\ pc' = "done" /\ UNCHANGED <<candidates, pin, i, j>>
      /\ list' = truncate(list, Limit)
  BY DEF Truncate, IInv, TypeOK
<1>2. list' \in Seq(Result)
  BY <1>1, InputAssumption DEF truncate
<1>3. TypeOK'
  BY <1>1, <1>2 DEF IInv, TypeOK, Stages
<1>4. QED BY <1>1, <1>3
          DEF IInv, UnpinnedInv, SortedInv, PinnedInv, TieInv, TieBrokenInv, TieBroken, DePinInv

\* A step that changes nothing keeps the invariant.
LEMMA StutterStep == IInv /\ UNCHANGED vars => IInv'
<1> SUFFICES ASSUME IInv, UNCHANGED vars PROVE IInv'
  OBVIOUS
<1>1. UNCHANGED <<pc, candidates, pin, list, i, j>>
  BY DEF vars
<1>2. TypeOK' /\ SortedInv'
  BY <1>1 DEF IInv, TypeOK, SortedInv, Positions
<1>3. UnpinnedInv'
  BY <1>1 DEF IInv, UnpinnedInv, Positions, Contents, Survivors
<1>4. PinnedInv'
  BY <1>1 DEF IInv, PinnedInv, Positions, Contents, SurvivorsButPin, PinRow
<1>5. TransitiveTies' = TransitiveTies
  BY <1>1 DEF TransitiveTies, Positions
<1>6. TieInv' /\ TieBrokenInv'
  BY <1>1, <1>5 DEF IInv, TieInv, TieBrokenInv, TieBroken, Positions
<1>7. DePinInv'
  BY <1>1 DEF IInv, DePinInv, DePinnedAt, Guarded, Replacements
<1>8. QED BY <1>2, <1>3, <1>4, <1>6, <1>7 DEF IInv

\* The invariant holds in every reachable state of one call of Run.
THEOREM Inductive == Spec => []IInv
<1>1. IInv /\ [Next]_vars => IInv'
  BY StartStep, FilterStep, SortStep, PinStep, TieSwapStep, TieNextStep, TieDoneStep,
     DePinSwapStep, DePinKeepStep, DePinDoneStep, TruncateStep, StutterStep DEF Next
<1>2. QED BY InitIInv, <1>1, PTL DEF Spec
-----------------------------------------------------------------------------
(***************************************************************************)
(* The steps of one call compute the pure ranking: each stage leaves the   *)
(* list that its operator of Ranking returns, also the tie-break, which    *)
(* inserts row after row by single swaps.                                  *)
(***************************************************************************)

\* Two lists of the same length with the same rows are the same.
LEMMA SameRows ==
  ASSUME NEW S, NEW s \in Seq(S), NEW t \in Seq(S), Len(s) = Len(t),
         \A k \in 1..Len(s) : s[k] = t[k]
  PROVE  s = t
OBVIOUS

\* What the filter keeps, and the list that the tie-break starts from.
Kept == hardFilter(candidates)
Ordered == applyPin(sortByScore(Kept), pin)

\* The first k rows, ties broken: what sort.SliceStable has when it inserts the next.
FirstRows(k) == tieBreak(SubSeq(Ordered, 1, k))

\* Row i is on its way to its place among the first i - 1, and goes before each of those
\* it has passed.
Inserting ==
  /\ \A a \in 1..j-1 : list[a] = FirstRows(i-1)[a]
  /\ list[j] = Ordered[i]
  /\ \A a \in j+1..i : list[a] = FirstRows(i-1)[a-1]
  /\ \A a \in i+1..Len(Ordered) : list[a] = Ordered[a]
  /\ \A a \in j..i-1 : Less(Ordered[i], FirstRows(i-1)[a])

\* The tie-break has inserted i - 1 rows and is inserting the next, or is done.
TieComputes ==
  /\ Ordered \in Seq(Result)
  /\ Len(list) = Len(Ordered)
  /\ i <= Len(Ordered) => Inserting
  /\ i > Len(Ordered) => list = tieBreak(Ordered)

\* The two guarded slots, one after the other (dePin).
DePinComputes ==
  \/ i = 1 /\ list = tieBreak(Ordered)
  \/ i = 2 /\ list = dePinAt(tieBreak(Ordered), 1)
  \/ i = 3 /\ list = dePinAt(dePinAt(tieBreak(Ordered), 1), 2)

\* What the list is, stage by stage.
StagesInv ==
  /\ pc = "sort" => list = Kept
  /\ pc = "pin" => list = sortByScore(Kept)
  /\ pc = "tie" => TieComputes
  /\ pc = "dePin" => DePinComputes
  /\ pc = "truncate" => list = FullRanking(candidates, pin)
  /\ RunComputesRanking

\* The filter stage computes hardFilter.
LEMMA FilterComputes == IInv /\ StagesInv /\ FilterAndScore => StagesInv'
<1> SUFFICES ASSUME IInv, StagesInv, FilterAndScore PROVE StagesInv'
  OBVIOUS
<1> DEFINE K == {k \in 1..Len(candidates) : IsKept(candidates[k])}
<1>1. PICK f \in Enumerations(K) : list' = Selected(candidates, f)
  BY DEF FilterAndScore
<1>2. K \in SUBSET (1..Len(candidates)) /\ Len(candidates) \in Nat
  BY InputAssumption DEF IInv, TypeOK
<1>3. Selected(candidates, f) = Filtered(candidates, K)
  <2> HIDE DEF K
  <2> QED BY <1>1, <1>2, EnumerationUnique
<1>4. Kept' = Filtered(candidates, K)
  BY DEF Kept, hardFilter, FilterAndScore
<1> QED BY <1>1, <1>3, <1>4 DEF StagesInv, FilterAndScore, RunComputesRanking

\* The sort stage computes sortByScore.
LEMMA SortComputes == IInv /\ StagesInv /\ Sort => StagesInv'
<1> SUFFICES ASSUME IInv, StagesInv, Sort PROVE StagesInv'
  OBVIOUS
<1>1. PICK p \in Rearrangements(Len(list)) :
        StableDescending(list, p) /\ list' = Selected(list, p)
  BY DEF Sort
<1>2. list \in Seq(Result) /\ \A r \in Result : r.score \in Int
  BY ResultTypes DEF IInv, TypeOK
<1>3. list' = sortByScore(list)
  BY <1>1, <1>2, StableOrderUnique
<1>4. Kept' = Kept /\ list = Kept
  BY DEF Kept, Sort, StagesInv
<1> QED BY <1>3, <1>4 DEF StagesInv, Sort, RunComputesRanking

\* The list the tie-break starts on.
LEMMA PinComputes == IInv /\ StagesInv /\ ApplyPin => StagesInv'
<1> SUFFICES ASSUME IInv, StagesInv, ApplyPin PROVE StagesInv'
  OBVIOUS
<1>1. /\ pc = "pin" /\ pc' = "tie" /\ i' = 2 /\ j' = 2
      /\ UNCHANGED <<candidates, pin>>
      /\ list = sortByScore(Kept)
  BY DEF ApplyPin, StagesInv
<1>2. list \in Seq(Candidate)
  <2>1. list \in Seq(Result) /\ \A k \in 1..Len(list) : list[k] \in Candidate
    BY <1>1 DEF IInv, TypeOK, UnpinnedInv, Positions
  <2>2. list \in [1..Len(list) -> Candidate] /\ Len(list) \in Nat
    BY <2>1
  <2> QED BY <2>2
<1>3. list' = Ordered /\ Ordered' = Ordered
  BY <1>1, <1>2, ApplyPinComputes DEF Ordered, Kept
<1>4. list' \in Seq(Result)
  BY PinStep DEF IInv, TypeOK
<1> DEFINE s == Ordered
<1>5. s \in Seq(Result) /\ Len(s) \in Nat
  BY <1>3, <1>4
<1>6. /\ \A k \in 0..Len(s) : /\ tieBreak(SubSeq(s, 1, k)) \in Seq(Result)
                               /\ Len(tieBreak(SubSeq(s, 1, k))) = k
      /\ tieBreak(SubSeq(s, 1, 0)) = <<>>
      /\ \A k \in 1..Len(s) :
           tieBreak(SubSeq(s, 1, k)) = Insert(tieBreak(SubSeq(s, 1, k-1)), s[k])
      /\ tieBreak(SubSeq(s, 1, Len(s))) = tieBreak(s)
  <2> HIDE DEF s
  <2> QED BY <1>5, TieBreakStep
<1>7. Len(s) > 0 => FirstRows(1)[1] = s[1] /\ FirstRows(1) \in Seq(Result) /\ Len(FirstRows(1)) = 1
  <2>1. SUFFICES ASSUME Len(s) > 0
                 PROVE  FirstRows(1)[1] = s[1] /\ FirstRows(1) \in Seq(Result) /\ Len(FirstRows(1)) = 1
    OBVIOUS
  <2>2. 1 \in 1..Len(s) /\ 1 \in 0..Len(s) /\ s[1] \in Result
    BY <1>5, <2>1
  <2> DEFINE x == s[1]
  <2>3. FirstRows(1) = Insert(<<>>, x)
    BY <1>6, <2>2 DEF FirstRows
  <2>4. FirstRows(1) \in Seq(Result) /\ Len(FirstRows(1)) = 1
    BY <1>6, <2>2 DEF FirstRows
  <2> DEFINE e == <<>>
  <2>5. e \in Seq(Result) /\ Len(e) = 0
    OBVIOUS
  <2>6. FirstRows(1) = Insert(e, x) /\ x \in Result
    BY <2>2, <2>3
  <2> HIDE DEF x, e
  <2>7. PICK p \in 1..Len(e)+1 : Insert(e, x) = InsertAt(e, p, x)
    BY <2>5, <2>6, InsertFacts
  <2>8. InsertAt(e, p, x)[p] = x
    <3>1. p \in 1..Len(e)+1
      OBVIOUS
    <3>2. \A l \in Seq(Result), r \in Result : \A m \in 1..Len(l)+1 : InsertAt(l, m, r)[m] = r
      BY InsertedAt
    <3> QED BY <2>5, <2>6, <3>1, <3>2
  <2>9. p = 1
    BY <2>5
  <2> QED BY <2>4, <2>6, <2>7, <2>8, <2>9 DEF x
<1>8. CASE Len(s) >= 2
  <2>1. \A a \in 1..1 : list'[a] = FirstRows(1)[a]
    BY <1>3, <1>7, <1>8
  <2>2. FirstRows(1)' = FirstRows(1)
    BY <1>3 DEF FirstRows
  <2>3. Inserting'
    BY <1>1, <1>3, <1>5, <2>1, <2>2 DEF Inserting
  <2>4. TieComputes'
    BY <1>1, <1>3, <1>5, <1>8, <2>3 DEF TieComputes
  <2> QED BY <1>1, <2>4 DEF StagesInv, RunComputesRanking
<1>9. CASE ~(Len(s) >= 2)
  <2>1. tieBreak(s) = s
    <3>1. tieBreak(s) \in Seq(Result) /\ Len(tieBreak(s)) = Len(s)
      BY <1>5, <1>6
    <3>2. \A a \in 1..Len(s) : tieBreak(s)[a] = s[a]
      <4>1. CASE Len(s) = 0
        BY <4>1
      <4>2. CASE Len(s) = 1
        <5>1. tieBreak(s) = FirstRows(1)
          BY <1>6, <4>2 DEF FirstRows
        <5>2. FirstRows(1)[1] = s[1]
          BY <1>7, <4>2
        <5>3. \A a \in 1..Len(s) : a = 1
          BY <4>2
        <5> HIDE DEF s
        <5> QED BY <5>1, <5>2, <5>3
      <4>3. Len(s) = 0 \/ Len(s) = 1
        <5> DEFINE n == Len(s)
        <5>1. n \in Nat /\ ~(n >= 2)
          BY <1>5, <1>9
        <5> HIDE DEF n
        <5>2. n = 0 \/ n = 1
          BY <5>1
        <5> QED BY <5>2 DEF n
      <4> QED BY <4>1, <4>2, <4>3
    <3> HIDE DEF s
    <3> QED BY <1>5, <3>1, <3>2, SameRows
  <2>2. TieComputes'
    BY <1>1, <1>3, <1>5, <1>9, <2>1 DEF TieComputes
  <2> QED BY <1>1, <2>2 DEF StagesInv, RunComputesRanking
<1> QED BY <1>8, <1>9

\* One comparison that swaps moves the row one place on.
LEMMA TieSwapComputes == IInv /\ StagesInv /\ TieSwap => StagesInv'
<1> SUFFICES ASSUME IInv, StagesInv, TieSwap PROVE StagesInv'
  OBVIOUS
<1> DEFINE n == Len(Ordered)
           F == FirstRows(i-1)
           x == Ordered[i]
<1>1. /\ pc = "tie" /\ pc' = "tie" /\ i' = i /\ j' = j - 1
      /\ UNCHANGED <<candidates, pin>>
      /\ list' = Swapped(list, j, j-1)
      /\ i <= Len(list) /\ j > 1 /\ Less(list[j], list[j-1])
  BY DEF TieSwap
<1>2. /\ Ordered \in Seq(Result) /\ Len(list) = n /\ n \in Nat
      /\ i \in Nat /\ j \in Nat /\ j \in 1..i
      /\ list \in Seq(Result)
  BY <1>1 DEF StagesInv, TieComputes, IInv, TypeOK, TieInv
<1>3. /\ \A a \in 1..j-1 : list[a] = F[a]
      /\ list[j] = x
      /\ \A a \in j+1..i : list[a] = F[a-1]
      /\ \A a \in i+1..n : list[a] = Ordered[a]
      /\ \A a \in j..i-1 : Less(x, F[a])
  BY <1>1, <1>2 DEF StagesInv, TieComputes, Inserting
<1>4. Ordered' = Ordered /\ F' = F /\ x' = x
  BY <1>1 DEF Ordered, Kept, FirstRows
<1> HIDE DEF n, F, x
<1>5. /\ Len(list') = n
      /\ list'[j] = list[j-1] /\ list'[j-1] = list[j]
      /\ \A k \in 1..n : k # j /\ k # j-1 => list'[k] = list[k]
  BY <1>1, <1>2 DEF Swapped
<1>6. \A a \in 1..(j-1)-1 : list'[a] = F[a]
  BY <1>1, <1>2, <1>3, <1>5
<1>7. list'[j-1] = x
  BY <1>3, <1>5
<1>8. \A a \in (j-1)+1..i : list'[a] = F[a-1]
  <2>1. ASSUME NEW a \in (j-1)+1..i PROVE list'[a] = F[a-1]
    <3>1. CASE a = j
      BY <1>1, <1>2, <1>3, <1>5, <3>1
    <3>2. CASE a # j
      BY <1>1, <1>2, <1>3, <1>5, <2>1, <3>2
    <3> QED BY <3>1, <3>2
  <2> QED BY <2>1
<1>9. \A a \in i+1..n : list'[a] = Ordered[a]
  BY <1>1, <1>2, <1>3, <1>5
<1>10. \A a \in j-1..i-1 : Less(x, F[a])
  <2>1. Less(x, F[j-1])
    BY <1>1, <1>2, <1>3
  <2>2. \A a \in j-1..i-1 : a = j-1 \/ a \in j..i-1
    BY <1>2
  <2> QED BY <1>3, <2>1, <2>2
<1>11. Inserting'
  BY <1>1, <1>4, <1>6, <1>7, <1>8, <1>9, <1>10 DEF Inserting, n, F, x
<1>12. TieComputes'
  BY <1>1, <1>2, <1>4, <1>5, <1>11 DEF TieComputes, n
<1> QED BY <1>1, <1>12 DEF StagesInv, RunComputesRanking

\* The comparison that does not swap is where Insert stops.
LEMMA TieNextComputes == IInv /\ StagesInv /\ TieNext => StagesInv'
<1> SUFFICES ASSUME IInv, StagesInv, TieNext PROVE StagesInv'
  OBVIOUS
<1> DEFINE n == Len(Ordered)
           F == FirstRows(i-1)
           G == FirstRows(i)
           x == Ordered[i]
<1>1. /\ pc = "tie" /\ pc' = "tie" /\ i' = i + 1 /\ j' = i + 1
      /\ UNCHANGED <<candidates, pin, list>>
      /\ i <= Len(list) /\ (j > 1 => ~Less(list[j], list[j-1]))
  BY DEF TieNext
<1>2. /\ Ordered \in Seq(Result) /\ Len(list) = n /\ n \in Nat
      /\ i \in Nat /\ j \in Nat /\ j \in 1..i /\ i >= 2
      /\ list \in Seq(Result)
  BY <1>1 DEF StagesInv, TieComputes, IInv, TypeOK, TieInv
<1>3. /\ \A a \in 1..j-1 : list[a] = F[a]
      /\ list[j] = x
      /\ \A a \in j+1..i : list[a] = F[a-1]
      /\ \A a \in i+1..n : list[a] = Ordered[a]
      /\ \A a \in j..i-1 : Less(x, F[a])
  BY <1>1, <1>2 DEF StagesInv, TieComputes, Inserting
<1>4. Ordered' = Ordered
  BY <1>1 DEF Ordered, Kept
<1>5. /\ F \in Seq(Result) /\ Len(F) = i - 1
      /\ G \in Seq(Result) /\ Len(G) = i /\ G = Insert(F, x) /\ x \in Result
      /\ tieBreak(SubSeq(Ordered, 1, n)) = tieBreak(Ordered)
  <2>1. /\ \A k \in 0..n : /\ tieBreak(SubSeq(Ordered, 1, k)) \in Seq(Result)
                           /\ Len(tieBreak(SubSeq(Ordered, 1, k))) = k
        /\ \A k \in 1..n :
             tieBreak(SubSeq(Ordered, 1, k)) =
               Insert(tieBreak(SubSeq(Ordered, 1, k-1)), Ordered[k])
        /\ tieBreak(SubSeq(Ordered, 1, n)) = tieBreak(Ordered)
    BY <1>2, TieBreakStep
  <2>2. i - 1 \in 0..n /\ i \in 0..n /\ i \in 1..n
    BY <1>1, <1>2
  <2>3. x \in Result
    BY <1>2, <2>2
  <2> HIDE DEF n
  <2> QED BY <2>1, <2>2, <2>3 DEF FirstRows
<1> HIDE DEF F, G, x
<1>6. PICK p \in 1..(i-1)+1 :
        /\ G = InsertAt(F, p, x)
        /\ \A k \in p..i-1 : Less(x, F[k])
        /\ p > 1 => ~Less(x, F[p-1])
  <2>1. \E p \in 1..Len(F)+1 :
          /\ Insert(F, x) = InsertAt(F, p, x)
          /\ \A k \in p..Len(F) : Less(x, F[k])
          /\ p > 1 => ~Less(x, F[p-1])
    BY <1>5, InsertFacts
  <2> QED BY <1>5, <2>1
<1>7. p = j
  <2>1. CASE p < j
    <3>1. j - 1 \in p..i-1 /\ j > 1 /\ j - 1 \in 1..j-1
      BY <1>2, <2>1
    <3> QED BY <1>1, <1>3, <1>6, <3>1
  <2>2. CASE p > j
    <3>1. p - 1 \in j..i-1 /\ p > 1
      BY <1>2, <2>2
    <3> QED BY <1>3, <1>6, <3>1
  <2> QED BY <1>2, <2>1, <2>2
<1>8. /\ \A k \in 1..p-1 : G[k] = F[k]
      /\ G[p] = x
      /\ \A k \in p+1..(i-1)+1 : G[k] = F[k-1]
  <2> DEFINE u == InsertAt(F, p, x)
  <2>1. F \in Seq(Result) /\ x \in Result /\ p \in 1..Len(F)+1
    BY <1>5
  <2>2. /\ u \in Seq(Result)
        /\ Len(u) = Len(F) + 1
        /\ \A k \in 1..p-1 : u[k] = F[k]
        /\ u[p] = x
        /\ \A k \in p+1..Len(F)+1 : u[k] = F[k-1]
    BY <2>1, InsertedAt
  <2>3. G = u
    BY <1>6
  <2> HIDE DEF u
  <2> QED BY <1>5, <2>2, <2>3
<1>9. \A a \in 1..i : list[a] = G[a]
  <2>1. ASSUME NEW a \in 1..i PROVE list[a] = G[a]
    <3>1. CASE a < j
      BY <1>2, <1>3, <1>7, <1>8, <2>1, <3>1
    <3>2. CASE a = j
      BY <1>3, <1>7, <1>8, <3>2
    <3>3. CASE a > j
      <4>1. a \in j+1..i /\ a \in p+1..(i-1)+1
        BY <1>2, <1>7, <2>1, <3>3
      <4> QED BY <1>3, <1>8, <4>1
    <3> QED BY <1>2, <3>1, <3>2, <3>3
  <2> QED BY <2>1
<1>10. CASE i + 1 <= n
  <2> DEFINE i1 == i + 1
  <2>1. i1 - 1 = i /\ i1 \in i+1..n /\ \A a \in i1+1..n : a \in i+1..n
    BY <1>2, <1>10
  <2>2. /\ \A a \in 1..i1-1 : list[a] = FirstRows(i1-1)[a]
        /\ list[i1] = Ordered[i1]
        /\ \A a \in i1+1..n : list[a] = Ordered[a]
    BY <1>3, <1>9, <2>1 DEF G
  <2>3. /\ \A a \in i1+1..i1 : list[a] = FirstRows(i1-1)[a-1]
        /\ \A a \in i1..i1-1 : Less(Ordered[i1], FirstRows(i1-1)[a])
    BY <1>2
  <2>4. /\ i' = i1 /\ j' = i1 /\ list' = list /\ \A k : FirstRows(k)' = FirstRows(k)
    BY <1>1, <1>4 DEF FirstRows
  <2> HIDE DEF i1
  <2>5. FirstRows(i-1)' = FirstRows(i1-1)
    BY <1>4, <2>4 DEF FirstRows
  <2>6. Inserting'
    BY <1>4, <2>2, <2>3, <2>4, <2>5 DEF Inserting, n
  <2>7. TieComputes'
    BY <1>1, <1>2, <1>4, <1>10, <2>6 DEF TieComputes, n
  <2> QED BY <1>1, <2>7 DEF StagesInv, RunComputesRanking
<1>11. CASE ~(i + 1 <= n)
  <2>1. i = n
    BY <1>1, <1>2, <1>11
  <2>2. G = tieBreak(Ordered)
    BY <1>5, <2>1 DEF G, FirstRows
  <2>3. list = G
    BY <1>2, <1>5, <1>9, <2>1, SameRows
  <2>4. TieComputes'
    BY <1>1, <1>2, <1>4, <1>11, <2>2, <2>3 DEF TieComputes, n
  <2> QED BY <1>1, <2>4 DEF StagesInv, RunComputesRanking
<1> QED BY <1>10, <1>11

\* The last insertion leaves what tieBreak computes.
LEMMA TieDoneComputes == IInv /\ StagesInv /\ TieDone => StagesInv'
<1> SUFFICES ASSUME IInv, StagesInv, TieDone PROVE StagesInv'
  OBVIOUS
<1>1. /\ pc = "tie" /\ pc' = "dePin" /\ i' = 1 /\ i > Len(list)
      /\ UNCHANGED <<candidates, pin, list>>
  BY DEF TieDone
<1>2. list = tieBreak(Ordered)
  BY <1>1 DEF StagesInv, TieComputes
<1>3. Ordered' = Ordered
  BY <1>1 DEF Ordered, Kept
<1>4. DePinComputes'
  BY <1>1, <1>2, <1>3 DEF DePinComputes
<1> QED BY <1>1, <1>4 DEF StagesInv, RunComputesRanking

\* A step of the pass, swapping or not, computes dePinAt.
LEMMA DePinStepComputes == IInv /\ StagesInv /\ (DePinSwap \/ DePinKeep) => StagesInv'
<1> SUFFICES ASSUME IInv, StagesInv, DePinSwap \/ DePinKeep PROVE StagesInv'
  OBVIOUS
<1>1. /\ pc = "dePin" /\ pc' = "dePin" /\ i' = i + 1 /\ i <= 2
      /\ UNCHANGED <<candidates, pin>>
      /\ list \in Seq(Result) /\ i \in Nat
  BY DEF DePinSwap, DePinKeep, dePinTopN, IInv, TypeOK
<1>2. list' = dePinAt(list, i)
  <2>1. CASE DePinKeep
    BY <2>1 DEF DePinKeep, dePinAt
  <2>2. CASE DePinSwap
    <3>1. Guarded(list, i)
      BY <2>2 DEF DePinSwap
    <3> DEFINE Q == Replacements(list, i)
    <3>2. PICK q \in Q : (\A m \in Q : q <= m) /\ list' = Swapped(list, i, q)
      BY <2>2 DEF DePinSwap
    <3>3. \A m \in Q : m \in Int
      BY <1>1 DEF Replacements
    <3>4. Min(Q) = q
      <4> HIDE DEF Q
      <4>1. Min(Q) \in Q /\ \A m \in Q : Min(Q) <= m
        BY <3>2 DEF Min
      <4>2. Min(Q) <= q /\ q <= Min(Q) /\ q \in Int /\ Min(Q) \in Int
        BY <3>2, <3>3, <4>1
      <4> DEFINE z == Min(Q)
      <4>3. z <= q /\ q <= z /\ q \in Int /\ z \in Int
        BY <4>2
      <4> HIDE DEF z
      <4>4. z = q
        BY <4>3
      <4> QED BY <4>4 DEF z
    <3>5. Q # {}
      BY <3>2
    <3> QED BY <3>1, <3>2, <3>4, <3>5 DEF dePinAt
  <2> QED BY <2>1, <2>2
<1>3. Ordered' = Ordered
  BY <1>1 DEF Ordered, Kept
<1>4. DePinComputes
  BY <1>1 DEF StagesInv
<1>5. DePinComputes'
  <2>1. CASE i = 1
    BY <1>1, <1>2, <1>3, <1>4, <2>1 DEF DePinComputes
  <2>2. CASE i = 2
    BY <1>1, <1>2, <1>3, <1>4, <2>2 DEF DePinComputes
  <2> QED BY <1>1, <1>4, <2>1, <2>2 DEF DePinComputes
<1> QED BY <1>1, <1>5 DEF StagesInv, RunComputesRanking

\* The pass ends after its two places.
LEMMA DePinDoneComputes == IInv /\ StagesInv /\ DePinDone => StagesInv'
<1> SUFFICES ASSUME IInv, StagesInv, DePinDone PROVE StagesInv'
  OBVIOUS
<1>1. /\ pc = "dePin" /\ pc' = "truncate" /\ i > 2
      /\ UNCHANGED <<candidates, pin, list>>
  BY DEF DePinDone, dePinTopN
<1>2. list = dePinAt(dePinAt(tieBreak(Ordered), 1), 2)
  BY <1>1 DEF StagesInv, DePinComputes
<1>3. list = FullRanking(candidates, pin)
  BY <1>2, DePinTwice DEF FullRanking, Ordered, Kept
<1> QED BY <1>1, <1>3 DEF StagesInv, RunComputesRanking

\* With its limit applied, the list is Run's.
LEMMA TruncateComputes == IInv /\ StagesInv /\ Truncate => StagesInv'
<1> SUFFICES ASSUME IInv, StagesInv, Truncate PROVE StagesInv'
  OBVIOUS
<1>1. /\ pc = "truncate" /\ pc' = "done" /\ list' = truncate(list, Limit)
      /\ UNCHANGED <<candidates, pin>>
  BY DEF Truncate
<1>2. list = FullRanking(candidates, pin)
  BY <1>1 DEF StagesInv
<1>3. list' = Run(candidates, pin, Limit)
  BY <1>1, <1>2 DEF Run, FullRanking
<1> QED BY <1>1, <1>3 DEF StagesInv, RunComputesRanking

\* Neither the look at the context nor a stutter computes anything.
LEMMA IdleComputes == StagesInv /\ (Start \/ UNCHANGED vars) => StagesInv'
<1> SUFFICES ASSUME StagesInv, Start \/ UNCHANGED vars PROVE StagesInv'
  OBVIOUS
<1>1. CASE Start
  BY <1>1 DEF Start, StagesInv, RunComputesRanking
<1>2. CASE UNCHANGED vars
  <2>1. UNCHANGED <<pc, candidates, pin, list, i, j>>
    BY <1>2 DEF vars
  <2>2. Kept' = Kept /\ Ordered' = Ordered /\ FirstRows(i-1)' = FirstRows(i-1)
    BY <2>1 DEF Kept, Ordered, FirstRows
  <2>3. Inserting' = Inserting /\ TieComputes' = TieComputes /\ DePinComputes' = DePinComputes
    BY <2>1, <2>2 DEF Inserting, TieComputes, DePinComputes
  <2> QED BY <2>1, <2>2, <2>3 DEF StagesInv, RunComputesRanking
<1> QED BY <1>1, <1>2

-----------------------------------------------------------------------------
\* Every stage hands the next one a sequence of results (rank/scorer.go Run).
THEOREM TypeCorrect == Spec => []TypeOK
<1>1. IInv => TypeOK
  BY DEF IInv
<1>2. QED BY <1>1, Inductive, PTL

\* Tie-breaking never lifts a result over one that scores Epsilon or more above it,
\* although its comparator is not transitive (rank/scorer.go tieBreak).
THEOREM OvertakingBounded == Spec => []NoOvertakingBeyondEpsilon
<1>1. IInv => NoOvertakingBeyondEpsilon
  BY DEF IInv, TieBrokenInv, NoOvertakingBeyondEpsilon, Positions
<1>2. QED BY <1>1, Inductive, PTL

\* Neighbours end up in tie-break order (rank/scorer.go tieBreak).
THEOREM NeighboursInOrder == Spec => []NeighboursOrdered
<1>1. IInv => NeighboursOrdered
  BY DEF IInv, TieBrokenInv, NeighboursOrdered
<1>2. QED BY <1>1, Inductive, PTL

\* Where ties form separate groups the whole list ends up in tie-break order
\* (rank/scorer.go tieBreak).
THEOREM GroupsInOrder == Spec => []GroupsFullyOrdered
<1>1. IInv => GroupsFullyOrdered
  BY DEF IInv, TieBrokenInv, GroupsFullyOrdered, TransitiveTies, Positions
<1>2. QED BY <1>1, Inductive, PTL

\* The exact-name hit is first, once, through tie-break and de-pin
\* (rank/scorer.go applyPin, tieBreak, dePin).
THEOREM PinFirstAlways == Spec => []PinStaysFirst
<1>1. IInv => PinStaysFirst
  <2>1. SUFFICES ASSUME IInv, pin # NoPin, pc \in {"tie", "dePin", "truncate"}
                 PROVE  /\ Len(list) > 0
                        /\ list[1] = Pinned(pin)
                        /\ \A k \in 2..Len(list) : list[k].id # pin.id
    BY DEF PinStaysFirst
  <2>2. /\ Len(list) > 0 /\ Len(list) \in Nat
        /\ list[1] = Pinned(pin)
        /\ DistinctIds(list)
    BY <2>1 DEF IInv, PinnedInv, TypeOK
  <2>3. list[1].id = pin.id
    BY <2>1, <2>2, InputAssumption, PinnedFields DEF IInv, TypeOK
  <2>4. QED BY <2>2, <2>3 DEF DistinctIds
<1>2. QED BY <1>1, Inductive, PTL

\* The ranked list is a permutation of the surviving candidates and the pin: none is
\* lost and none appears twice (rank/scorer.go Run).
THEOREM RowsConserved == Spec => []NothingLostOrDuplicated
<1>1. IInv => NothingLostOrDuplicated
  BY DEF IInv, PinnedInv, NothingLostOrDuplicated, Contents, Positions, SurvivorsButPin, PinRow
<1>2. QED BY <1>1, Inductive, PTL

\* The de-pin pass leaves no new business in the first two places that an established
\* one behind it could replace (rank/scorer.go dePin).
THEOREM DePinComplete == Spec => []NewBusinessesDePinned
<1>1. IInv => NewBusinessesDePinned
  <2>1. SUFFICES ASSUME IInv, pc = "truncate",
                        NEW a \in 1..Len(list), NEW b \in 1..Len(list),
                        a <= 2, a < b, list[a].isNew, ~IsPinned(list[a]), ~list[b].isNew,
                        ~(list[a].score - list[b].score >= SwapWindow)
                 PROVE  FALSE
    BY DEF NewBusinessesDePinned
  <2>2. list[a].score \in Int /\ list[b].score \in Int /\ Len(list) \in Nat
    BY <2>1, ResultTypes DEF IInv, TypeOK
  <2>3. list[a].score - list[b].score < SwapWindow
    BY <2>1, <2>2, ScaleAssumption
  <2>4. b \in Replacements(list, a)
    BY <2>1, <2>2, <2>3 DEF Replacements
  <2>5. a \in 1..2 /\ Guarded(list, a)
    BY <2>1, <2>2 DEF Guarded
  <2>6. QED BY <2>1, <2>4, <2>5 DEF IInv, DePinInv, DePinnedAt, dePinTopN
<1>2. QED BY <1>1, Inductive, PTL

\* What rank.Run returns for a list that one block of the sort holds (InputAssumption) is a
\* function of its arguments - the one the pure stages define: the ranking's every step is
\* determined, ties and de-pin swaps included, and a limit only cuts its end off
\* (rank/scorer.go Run).  For longer lists see GroupsMergeAlike.
THEOREM RunIsTheRanking == Spec => []RunComputesRanking
<1>1. Init => IInv /\ StagesInv
  BY InitIInv DEF Init, StagesInv, RunComputesRanking
<1>2. IInv /\ StagesInv /\ IInv' /\ [Next]_vars => StagesInv'
  BY FilterComputes, SortComputes, PinComputes, TieSwapComputes, TieNextComputes,
     TieDoneComputes, DePinStepComputes, DePinDoneComputes, TruncateComputes,
     IdleComputes DEF Next
<1>3. StagesInv => RunComputesRanking
  BY DEF StagesInv
<1>4. QED BY <1>1, <1>2, <1>3, Inductive, PTL DEF Spec
-----------------------------------------------------------------------------
(* Scores: the sum of scoreCandidate and the ranges of its signals. *)

\* What a loop that adds up goes through.
Adds(t, S) ==
  /\ S \in [0..Len(t) -> Int] /\ S[0] = 0
  /\ \A k \in 1..Len(t) : S[k] = S[k-1] + t[k]

\* The sum of the terms is the end of such a loop (scoreCandidate).
LEMMA TotalLoop ==
  ASSUME NEW t \in Seq(Int)
  PROVE  \E S : Adds(t, S) /\ Total(t) = S[Len(t)]
<1> DEFINE n == Len(t)
           F == [p \in Int \X (1..n) |-> p[1] + t[p[2]]]
           Loop(f) == f = [k \in 0..n |-> IF k = 0 THEN 0 ELSE f[k-1] + t[k]]
           S == CHOOSE f : Loop(f)
<1>0. n \in Nat /\ \A k \in 1..n : t[k] \in Int
  OBVIOUS
<1> HIDE DEF n
<1>1. F \in [Int \X (1..n) -> Int]
  <2>1. ASSUME NEW p \in Int \X (1..n) PROVE p[1] + t[p[2]] \in Int
    BY <1>0, <2>1
  <2> QED BY <2>1
<1>2. PICK g \in [0..n -> Int] : g[0] = 0 /\ \A k \in 1..n : g[k] = F[<<g[k-1], k>>]
  <2>1. Runs(F, 0, Int, n) # {}
    <3> HIDE DEF F
    <3>1. 0 \in Int
      OBVIOUS
    <3> QED BY <1>0, <1>1, <3>1, LoopExists
  <2> HIDE DEF F
  <2> QED BY <2>1 DEF Runs
<1>3. ASSUME NEW k \in 1..n PROVE g[k] = g[k-1] + t[k]
  <2>1. g[k-1] \in Int
    BY <1>0
  <2>2. F[<<g[k-1], k>>] = g[k-1] + t[k]
    BY <2>1
  <2> QED BY <1>2, <2>2
<1>4. Loop(g)
  <2> HIDE DEF F
  <2> QED BY <1>0, <1>2, <1>3
<1>5. Loop(S)
  <2> HIDE DEF Loop
  <2> QED BY <1>4
<1>11. Total(t) = S[n]
  BY DEF Total, n
<1> HIDE DEF S, F
<1>6. S[0] = 0 /\ \A k \in 1..n : S[k] = S[k-1] + t[k]
  BY <1>0, <1>5
<1> DEFINE G == {m \in 0..n : S[m] \in Int}
<1>7. 0 \in G
  BY <1>0, <1>6
<1>8. \A k \in 1..n : k - 1 \in G => k \in G
  <2>1. ASSUME NEW k \in 1..n, k - 1 \in G PROVE k \in G
    <3>1. S[k-1] \in Int /\ t[k] \in Int /\ S[k] = S[k-1] + t[k] /\ k \in 0..n
      BY <1>0, <1>6, <2>1
    <3> QED BY <3>1
  <2> QED BY <2>1
<1>9. \A k \in 0..n : k \in G
  <2> HIDE DEF G
  <2> QED BY <1>0, <1>7, <1>8, Induction
<1>10. S \in [0..n -> Int]
  BY <1>5, <1>9
<1> QED BY <1>6, <1>10, <1>11 DEF Adds, n

\* Sums that differ term by term are ordered as their terms are.
LEMMA TotalsOrdered ==
  ASSUME NEW t \in Seq(Int), NEW u \in Seq(Int), Len(t) = Len(u),
         \A k \in 1..Len(t) : t[k] <= u[k]
  PROVE  Total(t) <= Total(u) /\ Total(t) \in Int /\ Total(u) \in Int
<1> DEFINE n == Len(t)
<1>0. n \in Nat /\ \A k \in 1..n : t[k] \in Int /\ u[k] \in Int /\ t[k] <= u[k]
  OBVIOUS
<1>1. PICK S : Adds(t, S) /\ Total(t) = S[n]
  BY TotalLoop
<1>2. PICK V : Adds(u, V) /\ Total(u) = V[n]
  BY TotalLoop
<1>3. S \in [0..n -> Int] /\ S[0] = 0 /\ \A k \in 1..n : S[k] = S[k-1] + t[k]
  BY <1>1 DEF Adds
<1>4. V \in [0..n -> Int] /\ V[0] = 0 /\ \A k \in 1..n : V[k] = V[k-1] + u[k]
  BY <1>2 DEF Adds
<1> HIDE DEF n
<1> DEFINE G == {m \in 0..n : S[m] <= V[m]}
<1>5. 0 \in G
  BY <1>0, <1>3, <1>4
<1>6. ASSUME NEW k \in 1..n, k - 1 \in G PROVE k \in G
  <2>0. k - 1 \in 0..n /\ k \in 0..n
    BY <1>0
  <2>1. S[k-1] \in Int /\ V[k-1] \in Int /\ S[k-1] <= V[k-1]
    BY <1>3, <1>4, <1>6, <2>0
  <2>2. S[k] = S[k-1] + t[k] /\ V[k] = V[k-1] + u[k] /\ t[k] \in Int /\ u[k] \in Int /\ t[k] <= u[k]
    BY <1>0, <1>3, <1>4
  <2>3. S[k] <= V[k]
    BY <2>1, <2>2
  <2> QED BY <2>0, <2>3
<1>7. \A k \in 0..n : k \in G
  <2> HIDE DEF G
  <2> QED BY <1>0, <1>5, <1>6, Induction
<1>8. n \in 0..n
  BY <1>0
<1> QED BY <1>1, <1>2, <1>3, <1>4, <1>7, <1>8

\* A common factor comes out of the sum.
LEMMA TotalScaled ==
  ASSUME NEW t \in Seq(Int), NEW u \in Seq(Int), Len(t) = Len(u), NEW c \in Int,
         \A k \in 1..Len(t) : u[k] = c * t[k]
  PROVE  Total(u) = c * Total(t)
<1> DEFINE n == Len(t)
<1>0. n \in Nat /\ \A k \in 1..n : t[k] \in Int /\ u[k] = c * t[k]
  OBVIOUS
<1>1. PICK S : Adds(t, S) /\ Total(t) = S[n]
  BY TotalLoop
<1>2. PICK V : Adds(u, V) /\ Total(u) = V[n]
  BY TotalLoop
<1>3. S \in [0..n -> Int] /\ S[0] = 0 /\ \A k \in 1..n : S[k] = S[k-1] + t[k]
  BY <1>1 DEF Adds
<1>4. V \in [0..n -> Int] /\ V[0] = 0 /\ \A k \in 1..n : V[k] = V[k-1] + u[k]
  BY <1>2 DEF Adds
<1> HIDE DEF n
<1> DEFINE G == {m \in 0..n : V[m] = c * S[m]}
<1>5. 0 \in G
  BY <1>0, <1>3, <1>4
<1>6. ASSUME NEW k \in 1..n, k - 1 \in G PROVE k \in G
  <2>0. k - 1 \in 0..n /\ k \in 0..n
    BY <1>0
  <2>1. S[k-1] \in Int /\ V[k-1] = c * S[k-1]
    BY <1>3, <1>6, <2>0
  <2>2. S[k] = S[k-1] + t[k] /\ V[k] = V[k-1] + u[k] /\ t[k] \in Int /\ u[k] = c * t[k]
    BY <1>0, <1>3, <1>4
  <2>3. \A x, y \in Int : c * x + c * y = c * (x + y)
    OBVIOUS
  <2>4. V[k] = c * S[k-1] + c * t[k]
    BY <2>1, <2>2
  <2>6. c * S[k] = c * (S[k-1] + t[k])
    BY <2>2
  <2>7. c * (S[k-1] + t[k]) = c * S[k-1] + c * t[k]
    BY <2>1, <2>2, <2>3
  <2>5. V[k] = c * S[k]
    BY <2>4, <2>6, <2>7
  <2> QED BY <2>0, <2>5
<1>9. \A k \in 1..n : k - 1 \in G => k \in G
  BY <1>6
<1>7. \A k \in 0..n : k \in G
  <2>1. n \in Nat
    BY <1>0
  <2> HIDE DEF G
  <2> QED BY <2>1, <1>5, <1>9, Induction
<1>8. n \in 0..n
  BY <1>0
<1> QED BY <1>1, <1>2, <1>7, <1>8

\* The unit of the signals is a number.
LEMMA UnitIsNat == Unit \in Nat /\ 0 <= Unit /\ 0 \in 0..Unit
BY DEF Unit

\* What the assumptions say of one file.
IsFile(cfg) ==
  /\ cfg.friends_full_credit \in Nat \ {0} /\ cfg.prior_strength \in Nat \ {0}
  /\ Log1p[cfg.global_max_reviews] \in Nat \ {0}
  /\ cfg.photo_demotion_below_3 \in 0..Unit /\ cfg.rating_demote_factor \in 0..100
  /\ cfg.global_mean \in 0..50
  /\ \A s \in OpenStates : cfg.open_status[s] \in 0..Unit
  /\ \A a \in ArchetypesSeen : cfg.distance_decay_km[a] \in Decays
  /\ Len(cfg.signals) \in Nat /\ DOMAIN cfg.signals = 1..Len(cfg.signals)
  /\ \A a \in DOMAIN cfg.archetypes : \A name \in DOMAIN cfg.archetypes[a].weights :
       cfg.archetypes[a].weights[name] \in Nat
  /\ \A a \in DOMAIN cfg.archetypes : TotalWeight(a, cfg) <= 100

\* Every file of ranking.yaml is one of these.
LEMMA FileFacts ==
  ASSUME NEW f \in DOMAIN Configs
  PROVE  IsFile(Configs[f])
<1> DEFINE cfg == Configs[f]
<1>1. {cfg.friends_full_credit, cfg.prior_strength} \subseteq Nat \ {0}
      /\ Log1p[cfg.global_max_reviews] \in Nat \ {0}
  BY ConfigAssumption
<1>2. /\ cfg.photo_demotion_below_3 \in 0..Unit
      /\ \A s \in OpenStates : cfg.open_status[s] \in 0..Unit
      /\ cfg.rating_demote_factor \in 0..100
      /\ cfg.global_mean \in 0..50
      /\ Len(cfg.signals) \in Nat /\ DOMAIN cfg.signals = 1..Len(cfg.signals)
      /\ \A a \in DOMAIN cfg.archetypes :
           \A name \in DOMAIN cfg.archetypes[a].weights : cfg.archetypes[a].weights[name] \in Nat
  BY ContractAssumption
<1>3. \A a \in DOMAIN cfg.archetypes : TotalWeight(a, cfg) <= 100
  BY WeightsAssumption
<1>4. \A a \in ArchetypesSeen : cfg.distance_decay_km[a] \in Decays
  BY DEF Decays
<1> HIDE DEF cfg
<1>5. \A s \in OpenStates : cfg.open_status[s] \in 0..Unit
  BY <1>2 DEF Unit
<1>6. cfg.photo_demotion_below_3 \in 0..Unit
  BY <1>2 DEF Unit
<1>7. cfg.friends_full_credit \in Nat \ {0} /\ cfg.prior_strength \in Nat \ {0}
  BY <1>1
<1>8. IsFile(cfg)
  BY <1>1, <1>2, <1>3, <1>4, <1>5, <1>6, <1>7 DEF IsFile
<1> QED BY <1>8 DEF cfg

\* The numbers among them.
LEMMA FileNumbers ==
  ASSUME NEW cfg, IsFile(cfg)
  PROVE  /\ cfg.prior_strength \in Nat \ {0} /\ cfg.global_mean \in Nat
         /\ cfg.rating_demote_factor \in Nat
         /\ \A s \in OpenStates : cfg.open_status[s] \in Nat
<1>1. /\ cfg.prior_strength \in Nat \ {0} /\ cfg.global_mean \in 0..50
      /\ cfg.rating_demote_factor \in 0..100
      /\ \A s \in OpenStates : cfg.open_status[s] \in 0..Unit
  BY DEF IsFile
<1>2. \A x : (x \in 0..50 => x \in Nat) /\ (x \in 0..100 => x \in Nat) /\ (x \in 0..Unit => x \in Nat)
  OBVIOUS
<1> QED BY <1>1, <1>2

\* A product of no larger factors is no larger.
LEMMA ProductMonotone ==
  \A a, b, c \in Nat : a <= b => c * a <= c * b /\ a * c <= b * c /\ c * a \in Nat
OBVIOUS

\* Nor is a quotient, rounded down.
LEMMA QuotientMonotone ==
  \A a, b \in Nat, d \in Nat \ {0} : a <= b => a \div d <= b \div d /\ a \div d \in Nat
OBVIOUS

\* A quotient is bounded by what the numerator is a multiple of.
LEMMA QuotientBounded ==
  \A a, m \in Nat, d \in Nat \ {0} : a <= m * d => a \div d <= m /\ a \div d \in Nat
OBVIOUS

\* The distance signal, by either formula (signals.go signalDistance).
LEMMA DistanceInRange ==
  ASSUME NEW cfg, IsFile(cfg), NEW b \in Business
  PROVE  signalDistance(b, cfg) \in 0..Unit
<1>1. b.dist \in Dists /\ b.dist \in Nat /\ b.archetype \in ArchetypesSeen
  BY RowAssumption DEF Business
<1>2. literalDistance(b) \in 0..Unit
  <2>1. CASE b.dist >= 4828
    BY <2>1 DEF literalDistance, distanceCapKM, Unit
  <2>2. CASE b.dist < 4828
    <3>1. 1000 * b.dist \in Nat /\ 1000 * b.dist <= 1000 * 4828
      BY <1>1, <2>2
    <3>2. (1000 * b.dist) \div 4828 <= 1000 /\ (1000 * b.dist) \div 4828 \in Nat
      BY <3>1, QuotientBounded
    <3>3. literalDistance(b) = 1000 - (1000 * b.dist) \div 4828
      BY <1>1, <2>2 DEF literalDistance, distanceCapKM, Unit
    <3> QED BY <3>2, <3>3 DEF Unit
  <2> QED BY <1>1, <2>1, <2>2
<1> DEFINE km == cfg.distance_decay_km[b.archetype]
<1>3. km \in Decays /\ km \in Nat
  BY <1>1, RowAssumption DEF IsFile
<1>4. km > 0 => Exp[<<b.dist, km>>] \in 0..Unit
  <2>1. km > 0 => km \in Decays \ {0}
    BY <1>3
  <2> HIDE DEF km
  <2> QED BY <1>1, <2>1, TableAssumption DEF Unit
<1>5. signalDistance(b, cfg) =
        IF cfg.distance = "decay" /\ km > 0 THEN Exp[<<b.dist, km>>] ELSE literalDistance(b)
  BY DEF signalDistance
<1> HIDE DEF km
<1> QED BY <1>2, <1>4, <1>5

\* The rating signal, by either formula: a number, and at most 1 unless the prior is over
\* lemon_score, whose ratings are on 0..10 (signals.go signalRating).
LEMMA RatingInRange ==
  ASSUME NEW cfg, IsFile(cfg), NEW b \in Business
  PROVE  /\ baseRating(b, cfg) \in Nat /\ signalRating(b, cfg) \in Nat
         /\ signalRating(b, cfg) <= baseRating(b, cfg)
         /\ cfg.rating = "bayesian" /\ cfg.source # "lemon_score" => baseRating(b, cfg) <= Unit
         /\ cfg.rating # "bayesian" => baseRating(b, cfg) <= Unit
<1>1. b.reviews \in Nat /\ b.lemon_score \in 0..100 \cup {Null}
      /\ b.google_rating \in 0..50 \cup {Null}
  BY RowAssumption DEF Business
<1>2. literalRating(b) \in 0..Unit
  <2>1. CASE b.lemon_score = Null
    BY <2>1, UnitIsNat DEF literalRating
  <2>2. CASE b.lemon_score # Null
    <3>1. 1000 * b.lemon_score \in Nat /\ 1000 * b.lemon_score <= 1000 * 100
      BY <1>1, <2>2
    <3>2. (1000 * b.lemon_score) \div 100 <= 1000 /\ (1000 * b.lemon_score) \div 100 \in Nat
      BY <3>1, QuotientBounded
    <3> QED BY <2>2, <3>2 DEF literalRating, Unit
  <2> QED BY <2>1, <2>2
<1> DEFINE C == cfg.prior_strength
           m == cfg.global_mean
           n == b.reviews
           r == Rated(b, cfg)
<1>3. C \in Nat \ {0} /\ m \in 0..50 /\ n \in Nat
      /\ (r # Null => r \in Nat) /\ (cfg.source # "lemon_score" /\ r # Null => r <= 50)
  <2>1. C \in Nat \ {0} /\ m \in 0..50 /\ n \in Nat
    BY <1>1 DEF IsFile
  <2>2. r = IF cfg.source = "lemon_score" THEN b.lemon_score ELSE b.google_rating
    BY DEF Rated
  <2> HIDE DEF r
  <2> QED BY <1>1, <2>1, <2>2
<1>4. bayesianRating(b, cfg) \in Nat
      /\ (cfg.source # "lemon_score" => bayesianRating(b, cfg) <= Unit)
  <2>0. bayesianRating(b, cfg) =
          IF r = Null THEN 0 ELSE (1000 * (C * m + n * r)) \div (50 * (C + n))
    BY DEF bayesianRating, Unit
  <2> HIDE DEF C, m, n, r
  <2>1. CASE r = Null
    BY <2>0, <2>1, UnitIsNat
  <2>2. CASE r # Null
    <3> DEFINE a == 1000 * (C * m + n * r)
               d == 50 * (C + n)
    <3>1. C * m \in Nat /\ C * m <= C * 50 /\ n * r \in Nat
      BY <1>3, <2>2, ProductMonotone
    <3>2. a \in Nat /\ d \in Nat \ {0}
      BY <1>3, <3>1
    <3>3. ASSUME cfg.source # "lemon_score" PROVE a <= Unit * d
      <4>1. n * r <= n * 50
        BY <1>3, <2>2, <3>3, ProductMonotone
      <4>2. C * m + n * r <= 50 * (C + n)
        BY <1>3, <3>1, <4>1
      <4> QED BY <1>3, <3>1, <4>2 DEF Unit
    <3>4. bayesianRating(b, cfg) = a \div d
      BY <2>0, <2>2
    <3> HIDE DEF a, d
    <3>5. a \div d \in Nat
      BY <3>2, QuotientMonotone
    <3>6. cfg.source # "lemon_score" => a \div d <= Unit
      BY <3>2, <3>3, UnitIsNat, QuotientBounded
    <3> QED BY <3>4, <3>5, <3>6
  <2> QED BY <2>1, <2>2
<1>5. /\ baseRating(b, cfg) \in Nat
      /\ cfg.rating = "bayesian" /\ cfg.source # "lemon_score" => baseRating(b, cfg) <= Unit
      /\ cfg.rating # "bayesian" => baseRating(b, cfg) <= Unit
  BY <1>2, <1>4 DEF baseRating
<1>6. signalRating(b, cfg) \in Nat /\ signalRating(b, cfg) <= baseRating(b, cfg)
  <2> DEFINE x == baseRating(b, cfg)
             p == cfg.rating_demote_factor
  <2>1. x \in Nat /\ p \in 0..100
    BY <1>5 DEF IsFile
  <2>2. signalRating(b, cfg) = x \/ signalRating(b, cfg) = (x * p) \div 100
    BY DEF signalRating
  <2> HIDE DEF x, p
  <2>3. x * p \in Nat /\ x * p <= x * 100
    BY <2>1, ProductMonotone
  <2>4. (x * p) \div 100 <= x /\ (x * p) \div 100 \in Nat
    BY <2>1, <2>3, QuotientBounded
  <2>5. signalRating(b, cfg) \in Nat /\ signalRating(b, cfg) <= x
    BY <2>1, <2>2, <2>4
  <2> QED BY <2>5 DEF x
<1> QED BY <1>5, <1>6

\* The range of the other signals.
OthersRange(b, cfg) ==
  /\ signalPopularity(b, cfg) \in 0..Unit
  /\ signalFriends(b, cfg) \in 0..Unit
  /\ signalPhotos(b, cfg) \in 0..Unit
  /\ cfg.open_status[b.status] \in 0..Unit

\* They stay in it (signals.go).
LEMMA OthersInRange ==
  ASSUME NEW cfg, IsFile(cfg), NEW b \in Business
  PROVE  OthersRange(b, cfg)
<1>1. /\ b.reviews \in Counts /\ b.reviews \in Nat /\ b.friends \in Nat
      /\ b.photos \in Nat /\ b.status \in OpenStates
  BY RowAssumption DEF Business
<1>2. \A x \in Nat : Capped(x) \in 0..Unit
  BY DEF Capped, Unit
<1>3. signalPopularity(b, cfg) \in 0..Unit
  <2> DEFINE L == Log1p[b.reviews]
             M == Log1p[cfg.global_max_reviews]
  <2>1. CASE b.reviews <= 0
    BY <2>1, UnitIsNat DEF signalPopularity
  <2>2. CASE b.reviews > 0
    <3>1. b.reviews \in Counts \ {0}
      BY <1>1, <2>2
    <3>2. L \in Nat /\ M \in Nat \ {0}
      BY <3>1, TableAssumption DEF IsFile
    <3>3. signalPopularity(b, cfg) = Capped((1000 * L) \div M)
      BY <1>1, <2>2 DEF signalPopularity, Unit
    <3> HIDE DEF L, M
    <3>4. (1000 * L) \div M \in Nat
      <4>1. 1000 * L \in Nat
        BY <3>2
      <4> QED BY <3>2, <4>1, QuotientMonotone
    <3> QED BY <1>2, <3>3, <3>4
  <2> QED BY <1>1, <2>1, <2>2
<1>4. signalFriends(b, cfg) \in 0..Unit
  <2>1. cfg.friends_full_credit \in Nat \ {0} /\ 1000 * b.friends \in Nat
    BY <1>1 DEF IsFile
  <2> DEFINE q == (1000 * b.friends) \div cfg.friends_full_credit
  <2>2. q \in Nat
    BY <2>1, QuotientMonotone
  <2>3. signalFriends(b, cfg) = Capped(q)
    BY DEF signalFriends, Unit
  <2> HIDE DEF q
  <2> QED BY <1>2, <2>2, <2>3
<1>5. signalPhotos(b, cfg) \in 0..Unit
  BY DEF signalPhotos, IsFile, Unit
<1>6. cfg.open_status[b.status] \in 0..Unit
  <2>1. \A s \in OpenStates : cfg.open_status[s] \in 0..Unit
    BY DEF IsFile
  <2> QED BY <1>1, <2>1
<1> QED BY <1>3, <1>4, <1>5, <1>6 DEF OthersRange

\* "signal_i(c) in [0, 1]. Out-of-range = bug.": so it is, but for a prior over lemon_score
\* (docs/ranking/semantics.md:43, signals.go).
LEMMA SignalsInRange ==
  ASSUME NEW cfg, IsFile(cfg), NEW b \in Business, NEW name
  PROVE  /\ signalValue(name, b, cfg) \in Nat
         /\ cfg.rating # "bayesian" \/ cfg.source # "lemon_score" => signalValue(name, b, cfg) <= Unit
<1>1. signalDistance(b, cfg) \in 0..Unit
  BY DistanceInRange
<1>2. /\ signalRating(b, cfg) \in Nat
      /\ cfg.rating # "bayesian" \/ cfg.source # "lemon_score" => signalRating(b, cfg) <= Unit
  <2>1. /\ baseRating(b, cfg) \in Nat /\ signalRating(b, cfg) \in Nat
        /\ signalRating(b, cfg) <= baseRating(b, cfg)
        /\ cfg.rating # "bayesian" \/ cfg.source # "lemon_score" => baseRating(b, cfg) <= Unit
    BY RatingInRange
  <2> QED BY <2>1, UnitIsNat
<1>3. /\ signalPopularity(b, cfg) \in 0..Unit /\ signalFriends(b, cfg) \in 0..Unit
      /\ signalPhotos(b, cfg) \in 0..Unit /\ cfg.open_status[b.status] \in 0..Unit
  <2>1. OthersRange(b, cfg)
    BY OthersInRange
  <2> QED BY <2>1 DEF OthersRange
<1>4. (IF b.claimed THEN Unit ELSE 0) \in 0..Unit
  BY DEF Unit
<1>5. \/ signalValue(name, b, cfg) = signalDistance(b, cfg)
      \/ signalValue(name, b, cfg) = signalRating(b, cfg)
      \/ signalValue(name, b, cfg) = signalPopularity(b, cfg)
      \/ signalValue(name, b, cfg) = signalFriends(b, cfg)
      \/ signalValue(name, b, cfg) = (IF b.claimed THEN Unit ELSE 0)
      \/ signalValue(name, b, cfg) = signalPhotos(b, cfg)
      \/ signalValue(name, b, cfg) = cfg.open_status[b.status]
      \/ signalValue(name, b, cfg) = 0
  BY DEF signalValue
<1> DEFINE v == signalValue(name, b, cfg)
<1>8. 0 \in 0..Unit
  BY UnitIsNat
<1>6. v \in 0..Unit \/ v = signalRating(b, cfg)
  BY <1>1, <1>3, <1>4, <1>5, <1>8, ZenonT(30)
<1> HIDE DEF v
<1>7. v \in Nat /\ (cfg.rating # "bayesian" \/ cfg.source # "lemon_score" => v <= Unit)
  BY <1>2, <1>6
<1> QED BY <1>7 DEF v

\* The weight of a signal is a number of hundredths, 0 for one the archetype does not name.
LEMMA WeightType ==
  ASSUME NEW cfg, IsFile(cfg), NEW a, NEW name
  PROVE  Weighed(name, archetype(a, cfg)) \in Nat
<1>1. CASE a \in DOMAIN cfg.archetypes
  <2>1. archetype(a, cfg) = cfg.archetypes[a]
    BY <1>1 DEF archetype
  <2>2. \A x \in DOMAIN cfg.archetypes[a].weights : cfg.archetypes[a].weights[x] \in Nat
    BY <1>1 DEF IsFile
  <2> QED BY <2>1, <2>2 DEF Weighed, Weight
<1>2. CASE a \notin DOMAIN cfg.archetypes
  <2>1. archetype(a, cfg).weights = <<>>
    BY <1>2 DEF archetype
  <2>2. DOMAIN <<>> = {}
    OBVIOUS
  <2> QED BY <2>1, <2>2 DEF Weighed, Weight
<1> QED BY <1>1, <1>2

\* The terms of a score, and the weights.
Points(b, cfg) ==
  [k \in DOMAIN cfg.signals |->
     Weighed(cfg.signals[k], archetype(b.archetype, cfg)) * signalValue(cfg.signals[k], b, cfg)]

WeightsOf(a, cfg) == [k \in DOMAIN cfg.signals |-> Weighed(cfg.signals[k], archetype(a, cfg))]

\* As many numbers as there are signals, each point a weight times the value of a signal.
Weighted(p, w, b, cfg) ==
  /\ p \in Seq(Int) /\ Len(p) = Len(cfg.signals) /\ w \in Seq(Int) /\ Len(w) = Len(cfg.signals)
  /\ \A k \in 1..Len(cfg.signals) :
       w[k] \in Nat /\ p[k] \in Nat /\ p[k] = w[k] * signalValue(cfg.signals[k], b, cfg)

\* So they are.
LEMMA PointsType ==
  ASSUME NEW cfg, IsFile(cfg), NEW b \in Business
  PROVE  Weighted(Points(b, cfg), WeightsOf(b.archetype, cfg), b, cfg)
<1> DEFINE n == Len(cfg.signals)
<1>1. n \in Nat /\ DOMAIN cfg.signals = 1..n
  BY DEF IsFile
<1>2. \A k \in 1..n : Weighed(cfg.signals[k], archetype(b.archetype, cfg)) \in Nat
  BY WeightType
<1>3. \A k \in 1..n : signalValue(cfg.signals[k], b, cfg) \in Nat
  BY SignalsInRange
<1>4. \A k \in 1..n : Weighed(cfg.signals[k], archetype(b.archetype, cfg))
                        * signalValue(cfg.signals[k], b, cfg) \in Nat
  BY <1>2, <1>3
<1> HIDE DEF n
<1>5. Points(b, cfg) \in [1..n -> Nat] /\ WeightsOf(b.archetype, cfg) \in [1..n -> Nat]
  BY <1>1, <1>2, <1>4 DEF Points, WeightsOf
<1>6. Points(b, cfg) \in Seq(Int) /\ Len(Points(b, cfg)) = n
  <2>1. Points(b, cfg) \in Seq(Nat)
    BY <1>1, <1>5
  <2> QED BY <1>1, <1>5, <2>1
<1>7. WeightsOf(b.archetype, cfg) \in Seq(Int) /\ Len(WeightsOf(b.archetype, cfg)) = n
  <2>1. WeightsOf(b.archetype, cfg) \in Seq(Nat)
    BY <1>1, <1>5
  <2> QED BY <1>1, <1>5, <2>1
<1>8. \A k \in 1..n :
        /\ WeightsOf(b.archetype, cfg)[k] \in Nat
        /\ Points(b, cfg)[k] = WeightsOf(b.archetype, cfg)[k] * signalValue(cfg.signals[k], b, cfg)
        /\ Points(b, cfg)[k] \in Nat
  BY <1>1, <1>5 DEF Points, WeightsOf
<1> QED BY <1>6, <1>7, <1>8 DEF n, Weighted

\* A score is at most the sum of the weights (docs/ranking/semantics.md:45), so at most 1.
LEMMA ScoreWithinWeights ==
  ASSUME NEW cfg, IsFile(cfg), NEW b \in Business,
         cfg.rating # "bayesian" \/ cfg.source # "lemon_score"
  PROVE  scoreCandidate(b, cfg) \in Int /\ 0 <= scoreCandidate(b, cfg) /\ scoreCandidate(b, cfg) <= One
<1> DEFINE n == Len(cfg.signals)
           p == Points(b, cfg)
           w == WeightsOf(b.archetype, cfg)
           u == [k \in 1..n |-> Unit * w[k]]
           z == [k \in 1..n |-> 0]
<1>18. n \in Nat
  BY DEF IsFile
<1>19. Weighted(p, w, b, cfg)
  BY PointsType
<1>1. /\ n \in Nat /\ p \in Seq(Int) /\ Len(p) = n /\ w \in Seq(Int) /\ Len(w) = n
      /\ \A k \in 1..n : /\ w[k] \in Nat /\ p[k] \in Nat
                         /\ p[k] = w[k] * signalValue(cfg.signals[k], b, cfg)
  <2> HIDE DEF p, w
  <2> QED BY <1>18, <1>19 DEF Weighted
<1>2. \A k \in 1..n : /\ signalValue(cfg.signals[k], b, cfg) \in Nat
                      /\ signalValue(cfg.signals[k], b, cfg) <= Unit
  BY SignalsInRange
<1>3. scoreCandidate(b, cfg) = Total(p) /\ TotalWeight(b.archetype, cfg) = Total(w)
  BY DEF scoreCandidate, TotalWeight, Points, WeightsOf
<1> HIDE DEF n, p, w
<1>4. u \in Seq(Int) /\ Len(u) = n /\ \A k \in 1..n : u[k] = Unit * w[k]
  <2>1. \A k \in 1..n : Unit * w[k] \in Int
    BY <1>1, UnitIsNat
  <2>2. n \in Nat
    BY <1>1
  <2> HIDE DEF u
  <2>3. u \in [1..n -> Int] /\ \A k \in 1..n : u[k] = Unit * w[k]
    BY <2>1 DEF u
  <2> QED BY <2>2, <2>3
<1>5. z \in Seq(Int) /\ Len(z) = n /\ \A k \in 1..n : z[k] = 0
  BY <1>1
<1> HIDE DEF u, z
<1>6. \A k \in 1..n : p[k] <= u[k]
  <2>1. ASSUME NEW k \in 1..n PROVE p[k] <= u[k]
    <3> DEFINE v == signalValue(cfg.signals[k], b, cfg)
    <3>1. v \in Nat /\ v <= Unit /\ w[k] \in Nat /\ p[k] = w[k] * v
      BY <1>1, <1>2
    <3> HIDE DEF v
    <3>2. w[k] * v <= w[k] * Unit
      BY <3>1, UnitIsNat, ProductMonotone
    <3>3. w[k] * Unit = Unit * w[k]
      BY <3>1, UnitIsNat
    <3> QED BY <1>4, <3>1, <3>2, <3>3
  <2> QED BY <2>1
<1>7. Total(p) <= Total(u) /\ Total(p) \in Int /\ Total(u) \in Int
  <2>1. p \in Seq(Int) /\ u \in Seq(Int) /\ Len(p) = Len(u) /\ \A k \in 1..Len(p) : p[k] <= u[k]
    BY <1>1, <1>4, <1>6
  <2> QED BY <2>1, TotalsOrdered
<1>8. Total(z) <= Total(p) /\ Total(z) \in Int
  <2>1. \A k \in 1..n : z[k] <= p[k]
    BY <1>1, <1>5
  <2> QED BY <1>1, <1>5, <2>1, TotalsOrdered
<1>9. Total(u) = Unit * Total(w)
  <2>1. w \in Seq(Int) /\ u \in Seq(Int) /\ Len(w) = Len(u) /\ Len(w) = n
    BY <1>1, <1>4
  <2>2. \A k \in 1..Len(w) : u[k] = Unit * w[k]
    BY <1>4, <2>1
  <2>3. Unit \in Int
    BY UnitIsNat
  <2> QED BY <2>1, <2>2, <2>3, TotalScaled
<1>10. Total(w) \in Int
  <2>1. \A k \in 1..n : w[k] <= w[k]
    BY <1>1
  <2> QED BY <1>1, <2>1, TotalsOrdered
<1>11. Total(z) = 0
  <2>1. \A k \in 1..n : z[k] = 2 * z[k]
    BY <1>5
  <2>2. Total(z) = 2 * Total(z)
    BY <1>5, <2>1, TotalScaled
  <2> QED BY <1>8, <2>2
<1>12. Total(w) <= 100
  <2>1. CASE b.archetype \in DOMAIN cfg.archetypes
    BY <1>3, <2>1 DEF IsFile
  <2>2. CASE b.archetype \notin DOMAIN cfg.archetypes
    <3>1. \A name : Weighed(name, archetype(b.archetype, cfg)) = 0
      <4>1. archetype(b.archetype, cfg).weights = <<>>
        BY <2>2 DEF archetype
      <4>2. DOMAIN <<>> = {}
        OBVIOUS
      <4> QED BY <4>1, <4>2 DEF Weighed, Weight
    <3>2. \A k \in 1..n : w[k] = 0
      BY <3>1 DEF w, WeightsOf, n, IsFile
    <3>3. \A k \in 1..n : w[k] <= z[k]
      BY <1>5, <3>2
    <3>4. Total(w) <= Total(z)
      BY <1>1, <1>5, <3>3, TotalsOrdered
    <3> QED BY <1>10, <1>11, <3>4
  <2> QED BY <2>1, <2>2
<1>13. Unit * Total(w) <= One
  BY <1>10, <1>12 DEF One, Unit
<1>14. One \in Int
  BY DEF One, Unit
<1>15. Total(p) <= One
  BY <1>7, <1>9, <1>13, <1>14
<1>16. 0 <= Total(p)
  BY <1>8, <1>11
<1>17. scoreCandidate(b, cfg) \in Int /\ 0 <= scoreCandidate(b, cfg)
       /\ scoreCandidate(b, cfg) <= One
  BY <1>3, <1>7, <1>15, <1>16
<1> QED BY <1>17

\* A number between two others is in their interval.
LEMMA Between ==
  \A x \in Int, m \in Nat : 0 <= x /\ x <= m => x \in 0..m
OBVIOUS

\* A fraction is no larger if it is not by cross-multiplication, rounded down or not.
LEMMA FractionMonotone ==
  ASSUME NEW a \in Nat, NEW d \in Nat \ {0}, NEW b \in Nat, NEW e \in Nat \ {0}, a * e <= b * d
  PROVE  a \div d <= b \div e
<1> DEFINE q == a \div d
<1>1. q \in Nat /\ q * d <= a
  OBVIOUS
<1> HIDE DEF q
<1>2. q * d \in Nat /\ (q * d) * e <= a * e
  <2>1. q * d \in Nat
    BY <1>1
  <2> QED BY <1>1, <2>1, ProductMonotone
<1>3. (q * e) * d <= b * d
  <2>1. (q * e) * d = (q * d) * e
    BY <1>1
  <2>2. a * e \in Nat /\ b * d \in Nat /\ (q * d) * e \in Nat
    BY <1>2
  <2> QED BY <1>2, <2>1, <2>2
<1>4. q * e <= b
  <2>1. q * e \in Nat
    BY <1>1
  <2>2. ASSUME NEW x \in Nat, x * d <= b * d, ~(x <= b) PROVE FALSE
    <3>1. b + 1 <= x
      BY <2>2
    <3>2. (b + 1) * d <= x * d /\ (b + 1) * d = b * d + d
      BY <3>1, ProductMonotone
    <3>3. x * d \in Nat /\ b * d \in Nat
      OBVIOUS
    <3> QED BY <2>2, <3>2, <3>3
  <2> QED BY <1>3, <2>1, <2>2
<1>5. (q * e) \div e = q
  BY <1>1
<1>6. (q * e) \div e <= b \div e
  <2>1. q * e \in Nat
    BY <1>1
  <2> QED BY <1>4, <2>1, QuotientMonotone
<1> QED BY <1>5, <1>6 DEF q

-----------------------------------------------------------------------------
(* A business that grows. *)

\* The invariant of ScoreSpec.
Loaded == file \in DOMAIN Configs /\ biz \in Business

\* What a step of growth may do to a business b, as a file cfg sees it.
Grown(b, c, cfg) ==
  /\ b \in Business /\ c \in Business
  /\ c.archetype = b.archetype /\ c.lemon_score = b.lemon_score
  /\ c.google_rating = b.google_rating
  /\ c.dist <= b.dist /\ b.reviews <= c.reviews /\ b.friends <= c.friends /\ b.photos <= c.photos
  /\ b.claimed => c.claimed
  /\ cfg.open_status[b.status] <= cfg.open_status[c.status]

\* A business with another value of a field is one.
LEMMA BusinessUpdated ==
  ASSUME NEW b \in Business
  PROVE  /\ \A x \in Dists : [b EXCEPT !.dist = x] \in Business
         /\ \A x \in Counts : [b EXCEPT !.reviews = x] \in Business
         /\ \A x \in Nat : [b EXCEPT !.friends = x] \in Business /\ [b EXCEPT !.photos = x] \in Business
         /\ \A x \in BOOLEAN : [b EXCEPT !.claimed = x] \in Business
         /\ \A x \in OpenStates : [b EXCEPT !.status = x] \in Business
<1>1. \A x \in Dists : [b EXCEPT !.dist = x] \in Business
  BY DEF Business
<1>2. \A x \in Counts : [b EXCEPT !.reviews = x] \in Business
  BY DEF Business
<1>3. \A x \in Nat : [b EXCEPT !.friends = x] \in Business
  BY DEF Business
<1>4. \A x \in Nat : [b EXCEPT !.photos = x] \in Business
  BY DEF Business
<1>5. \A x \in BOOLEAN : [b EXCEPT !.claimed = x] \in Business
  BY DEF Business
<1>6. \A x \in OpenStates : [b EXCEPT !.status = x] \in Business
  BY DEF Business
<1> QED BY <1>1, <1>2, <1>3, <1>4, <1>5, <1>6

\* Growth leaves a business that is one.
LEMMA GrowStep ==
  ASSUME Loaded, Grow
  PROVE  Loaded' /\ Grown(biz, biz', loaded) /\ loaded' = loaded
<1>1. file' = file /\ loaded' = loaded
  BY DEF Grow, loaded
<1>10. PICK f \in DOMAIN Better :
         \E pair \in Better[f] : pair[1] = biz[f] /\ biz' = [biz EXCEPT ![f] = pair[2]]
  BY DEF Grow
<1>2. PICK pair \in Better[f] : pair[1] = biz[f] /\ biz' = [biz EXCEPT ![f] = pair[2]]
  BY <1>10
<1>3. f \in {"dist", "reviews", "friends", "photos", "claimed", "status"}
  BY <1>10, GrowthAssumption
<1>4. /\ biz.dist \in Nat /\ biz.reviews \in Nat /\ biz.friends \in Nat /\ biz.photos \in Nat
      /\ biz.status \in OpenStates /\ biz \in Business
  BY RowAssumption DEF Loaded, Business
<1>5. \A s \in OpenStates : loaded.open_status[s] \in Nat
  <2>1. IsFile(loaded)
    BY FileFacts DEF Loaded, loaded
  <2> QED BY <2>1, FileNumbers
<1>6. biz' \in Business /\ Grown(biz, biz', loaded)
  <2>1. CASE f = "dist"
    <3>1. pair \in Better.dist /\ pair[1] = biz.dist /\ biz' = [biz EXCEPT !.dist = pair[2]]
      BY <1>2, <2>1
    <3>2. pair[2] \in Dists /\ pair[1] >= pair[2]
      BY <3>1, GrowthAssumption DEF Dists
    <3>3. biz' \in Business
      BY <1>4, <3>1, <3>2, BusinessUpdated
    <3> QED BY <1>4, <1>5, <3>1, <3>2, <3>3 DEF Grown, Business
  <2>2. CASE f = "reviews"
    <3>1. pair \in Better.reviews /\ pair[1] = biz.reviews /\ biz' = [biz EXCEPT !.reviews = pair[2]]
      BY <1>2, <2>2
    <3>2. pair[2] \in Counts /\ pair[1] <= pair[2]
      BY <3>1, GrowthAssumption DEF Counts
    <3>3. biz' \in Business
      BY <1>4, <3>1, <3>2, BusinessUpdated
    <3> QED BY <1>4, <1>5, <3>1, <3>2, <3>3 DEF Grown, Business
  <2>3. CASE f = "friends"
    <3>1. pair \in Better.friends /\ pair[1] = biz.friends /\ biz' = [biz EXCEPT !.friends = pair[2]]
      BY <1>2, <2>3
    <3>2. pair[2] \in Nat /\ pair[1] <= pair[2]
      BY <3>1, GrowthAssumption
    <3>3. biz' \in Business
      BY <1>4, <3>1, <3>2, BusinessUpdated
    <3> QED BY <1>4, <1>5, <3>1, <3>2, <3>3 DEF Grown, Business
  <2>4. CASE f = "photos"
    <3>1. pair \in Better.photos /\ pair[1] = biz.photos /\ biz' = [biz EXCEPT !.photos = pair[2]]
      BY <1>2, <2>4
    <3>2. pair[2] \in Nat /\ pair[1] <= pair[2]
      BY <3>1, GrowthAssumption
    <3>3. biz' \in Business
      BY <1>4, <3>1, <3>2, BusinessUpdated
    <3> QED BY <1>4, <1>5, <3>1, <3>2, <3>3 DEF Grown, Business
  <2>5. CASE f = "claimed"
    <3>1. pair \in Better.claimed /\ pair[1] = biz.claimed /\ biz' = [biz EXCEPT !.claimed = pair[2]]
      BY <1>2, <2>5
    <3>2. pair[2] = TRUE
      <4>1. pair = <<FALSE, TRUE>>
        BY <3>1, GrowthAssumption
      <4> QED BY <4>1
    <3>3. biz' \in Business
      BY <1>4, <3>1, <3>2, BusinessUpdated
    <3> QED BY <1>4, <1>5, <3>1, <3>2, <3>3 DEF Grown, Business
  <2>6. CASE f = "status"
    <3>1. pair \in Better.status /\ pair[1] = biz.status /\ biz' = [biz EXCEPT !.status = pair[2]]
      BY <1>2, <2>6
    <3>2. pair[2] \in OpenStates
      BY <3>1, GrowthAssumption
    <3>3. loaded.open_status[pair[1]] <= loaded.open_status[pair[2]]
      BY <3>1, GrowthAssumption DEF Loaded, loaded
    <3>4. biz' \in Business
      BY <1>4, <3>1, <3>2, BusinessUpdated
    <3> QED BY <1>4, <1>5, <3>1, <3>2, <3>3, <3>4 DEF Grown, Business
  <2> QED BY <1>3, <2>1, <2>2, <2>3, <2>4, <2>5, <2>6
<1> QED BY <1>1, <1>6 DEF Loaded

\* A nearer business has no smaller distance signal (signals.go signalDistance).
LEMMA DistanceGrows ==
  ASSUME NEW cfg, IsFile(cfg), NEW b, NEW c, Grown(b, c, cfg)
  PROVE  signalDistance(b, cfg) <= signalDistance(c, cfg)
<1>1. /\ b.dist \in Dists /\ b.dist \in Nat /\ b.archetype \in ArchetypesSeen
      /\ c.dist \in Dists /\ c.dist \in Nat /\ c.archetype = b.archetype /\ c.dist <= b.dist
      /\ b \in Business /\ c \in Business
  BY RowAssumption DEF Business, Grown
<1>2. literalDistance(b) <= literalDistance(c)
  <2>1. CASE b.dist < 4828
    <3>1. 1000 * c.dist \in Nat /\ 1000 * b.dist \in Nat /\ 1000 * c.dist <= 1000 * b.dist
      BY <1>1
    <3>2. (1000 * c.dist) \div 4828 <= (1000 * b.dist) \div 4828
          /\ (1000 * c.dist) \div 4828 \in Nat /\ (1000 * b.dist) \div 4828 \in Nat
      BY <3>1, QuotientMonotone
    <3>3. literalDistance(b) = 1000 - (1000 * b.dist) \div 4828
          /\ literalDistance(c) = 1000 - (1000 * c.dist) \div 4828
      BY <1>1, <2>1 DEF literalDistance, distanceCapKM, Unit
    <3> QED BY <3>2, <3>3
  <2>2. CASE b.dist >= 4828
    <3>1. literalDistance(b) = 0
      BY <2>2 DEF literalDistance, distanceCapKM
    <3>2. 0 <= literalDistance(c)
      <4>1. CASE c.dist >= 4828
        BY <4>1 DEF literalDistance, distanceCapKM
      <4>2. CASE c.dist < 4828
        <5>1. 1000 * c.dist \in Nat /\ 1000 * c.dist <= 1000 * 4828
          BY <1>1, <4>2
        <5>2. (1000 * c.dist) \div 4828 <= 1000 /\ (1000 * c.dist) \div 4828 \in Nat
          BY <5>1, QuotientBounded
        <5>3. literalDistance(c) = 1000 - (1000 * c.dist) \div 4828
          BY <1>1, <4>2 DEF literalDistance, distanceCapKM, Unit
        <5> QED BY <5>2, <5>3
      <4> QED BY <1>1, <4>1, <4>2
    <3> QED BY <3>1, <3>2
  <2> QED BY <1>1, <2>1, <2>2
<1> DEFINE km == cfg.distance_decay_km[b.archetype]
<1>3. km \in Decays /\ km \in Nat
  BY <1>1, RowAssumption DEF IsFile
<1>4. km > 0 => Exp[<<b.dist, km>>] <= Exp[<<c.dist, km>>]
  <2>1. km > 0 => km \in Decays \ {0}
    BY <1>3
  <2> HIDE DEF km
  <2>2. ASSUME km > 0 PROVE Exp[<<b.dist, km>>] <= Exp[<<c.dist, km>>]
    <3>1. Exp[<<b.dist, km>>] \in 0..Unit /\ Exp[<<c.dist, km>>] \in 0..Unit
      BY <1>1, <2>1, <2>2, TableAssumption
    <3>2. Exp[<<c.dist, km>>] >= Exp[<<b.dist, km>>]
      BY <1>1, <2>1, <2>2, TableAssumption
    <3> QED BY <3>1, <3>2 DEF Unit
  <2> QED BY <2>2
<1>5. signalDistance(b, cfg) =
        IF cfg.distance = "decay" /\ km > 0 THEN Exp[<<b.dist, km>>] ELSE literalDistance(b)
  BY DEF signalDistance
<1>6. signalDistance(c, cfg) =
        IF cfg.distance = "decay" /\ km > 0 THEN Exp[<<c.dist, km>>] ELSE literalDistance(c)
  BY <1>1 DEF signalDistance
<1> QED BY <1>2, <1>4, <1>5, <1>6

\* More reviews confirm a rating that is not below the prior's mean, and end the demotion of
\* a new business (signals.go signalRating).
LEMMA RatingGrows ==
  ASSUME NEW cfg, IsFile(cfg), NEW b, NEW c, Grown(b, c, cfg), ConfirmedByReviews(b, cfg)
  PROVE  signalRating(b, cfg) <= signalRating(c, cfg)
<1> DEFINE C == cfg.prior_strength
           m == cfg.global_mean
           n == b.reviews
           o == c.reviews
           r == Rated(b, cfg)
<1>1. b \in Business /\ c \in Business
  BY DEF Grown
<1>2. /\ n \in Nat /\ o \in Nat /\ n <= o /\ b.lemon_score \in 0..100 \cup {Null}
      /\ b.google_rating \in 0..50 \cup {Null}
      /\ c.lemon_score = b.lemon_score /\ c.google_rating = b.google_rating
  BY RowAssumption DEF Business, Grown
<1>3. C \in Nat \ {0} /\ m \in Nat /\ Rated(c, cfg) = r /\ (r # Null => r \in Nat)
  <2>1. C \in Nat \ {0} /\ m \in Nat
    BY FileNumbers
  <2>2. r = IF cfg.source = "lemon_score" THEN b.lemon_score ELSE b.google_rating
    BY DEF Rated
  <2>3. Rated(c, cfg) = r
    BY <1>2, <2>2 DEF Rated
  <2> HIDE DEF r
  <2> QED BY <1>2, <2>1, <2>2, <2>3
<1>4. cfg.rating = "bayesian" => bayesianRating(b, cfg) <= bayesianRating(c, cfg)
  <2>0. /\ bayesianRating(b, cfg) =
             IF r = Null THEN 0 ELSE (1000 * (C * m + n * r)) \div (50 * (C + n))
        /\ bayesianRating(c, cfg) =
             IF r = Null THEN 0 ELSE (1000 * (C * m + o * r)) \div (50 * (C + o))
    BY <1>3 DEF bayesianRating, Unit
  <2>1. CASE r = Null
    BY <2>0, <2>1
  <2>2. CASE r # Null /\ cfg.rating = "bayesian"
    <3>0. cfg.rating # "literal"
      BY <2>2
    <3>1. r \in Nat /\ m <= r
      BY <1>3, <2>2, <3>0 DEF ConfirmedByReviews
    <3> HIDE DEF C, m, n, o, r
    <3> DEFINE x == C * m + n * r
               y == C * m + o * r
    <3>2. C * m \in Nat /\ n * r \in Nat /\ o * r \in Nat /\ C * r \in Nat
          /\ n * o \in Nat /\ n * m \in Nat /\ o * m \in Nat
      BY <1>2, <1>3, <3>1
    <3>3. x * (C + o) <= y * (C + n)
      <4> DEFINE e == o - n
      <4>1. e \in Nat /\ o = n + e
        BY <1>2
      <4> HIDE DEF e
      <4>2. x * (C + o) = x * (C + n) + x * e
        BY <1>2, <1>3, <3>2, <4>1
      <4>3. y = x + e * r /\ e * r \in Nat
        BY <1>2, <3>1, <3>2, <4>1
      <4>4. x \in Nat
        BY <3>2
      <4> HIDE DEF x, y
      <4>5. y * (C + n) = x * (C + n) + (e * r) * (C + n)
        BY <1>2, <1>3, <4>3, <4>4
      <4>6. x * e <= (e * r) * (C + n)
        <5>1. C * m <= C * r
          BY <1>3, <3>1, ProductMonotone
        <5>2. x <= C * r + n * r
          BY <3>2, <5>1 DEF x
        <5>3. C * r + n * r = r * (C + n) /\ r * (C + n) \in Nat
          BY <1>2, <1>3, <3>1
        <5>4. x * e <= (r * (C + n)) * e
          BY <4>1, <4>4, <5>2, <5>3, ProductMonotone
        <5>5. (r * (C + n)) * e = (e * r) * (C + n)
          BY <1>2, <1>3, <3>1, <4>1
        <5> QED BY <5>4, <5>5
      <4>7. x * (C + n) \in Nat /\ x * e \in Nat /\ (e * r) * (C + n) \in Nat
        BY <1>2, <1>3, <4>1, <4>3, <4>4
      <4> QED BY <4>2, <4>5, <4>6, <4>7
    <3>4. x \in Nat /\ y \in Nat
      BY <3>2
    <3> HIDE DEF x, y
    <3>5. (1000 * x) * (50 * (C + o)) <= (1000 * y) * (50 * (C + n))
      <4>1. (1000 * x) * (50 * (C + o)) = 50000 * (x * (C + o))
        BY <1>2, <1>3, <3>4
      <4>2. (1000 * y) * (50 * (C + n)) = 50000 * (y * (C + n))
        BY <1>2, <1>3, <3>4
      <4>3. x * (C + o) \in Nat /\ y * (C + n) \in Nat
        BY <1>2, <1>3, <3>4
      <4> QED BY <3>3, <4>1, <4>2, <4>3
    <3>6. /\ 1000 * x \in Nat /\ 1000 * y \in Nat
          /\ 50 * (C + n) \in Nat \ {0} /\ 50 * (C + o) \in Nat \ {0}
      BY <1>2, <1>3, <3>4
    <3>7. (1000 * x) \div (50 * (C + n)) <= (1000 * y) \div (50 * (C + o))
      <4> DEFINE A == 1000 * x
                 B == 1000 * y
                 D == 50 * (C + n)
                 E == 50 * (C + o)
      <4>1. A \in Nat /\ B \in Nat /\ D \in Nat \ {0} /\ E \in Nat \ {0} /\ A * E <= B * D
        BY <3>5, <3>6
      <4> HIDE DEF A, B, D, E
      <4>2. A \div D <= B \div E
        BY <4>1, FractionMonotone
      <4> QED BY <4>2 DEF A, B, D, E
    <3> QED BY <2>0, <2>2, <3>7 DEF x, y
  <2> QED BY <2>1, <2>2
<1>5. baseRating(b, cfg) <= baseRating(c, cfg)
  <2>1. literalRating(b) = literalRating(c)
    BY <1>2 DEF literalRating
  <2>2. cfg.rating # "bayesian" => baseRating(b, cfg) = baseRating(c, cfg)
    BY <2>1 DEF baseRating
  <2>3. baseRating(b, cfg) \in Nat
    BY <1>1, RatingInRange
  <2> QED BY <1>4, <2>2, <2>3 DEF baseRating
<1>6. /\ baseRating(b, cfg) \in Nat /\ baseRating(c, cfg) \in Nat
      /\ signalRating(b, cfg) \in Nat /\ signalRating(b, cfg) <= baseRating(b, cfg)
      /\ signalRating(c, cfg) \in Nat
  BY <1>1, RatingInRange
<1>7. CASE is_new(c)
  <2> DEFINE p == cfg.rating_demote_factor
             x == baseRating(b, cfg)
             y == baseRating(c, cfg)
  <2>1. is_new(b)
    BY <1>2, <1>7 DEF is_new
  <2>2. signalRating(b, cfg) = (x * p) \div 100 /\ signalRating(c, cfg) = (y * p) \div 100
    BY <1>7, <2>1 DEF signalRating
  <2>3. p \in Nat
    BY FileNumbers
  <2>4. x * p \in Nat /\ y * p \in Nat /\ x * p <= y * p
    <3>1. x \in Nat /\ y \in Nat /\ x <= y
      BY <1>5, <1>6
    <3> HIDE DEF x, y, p
    <3> QED BY <2>3, <3>1, ProductMonotone
  <2> HIDE DEF x, y, p
  <2>5. (x * p) \div 100 <= (y * p) \div 100
    BY <2>4, QuotientMonotone
  <2> QED BY <2>2, <2>5
<1>8. CASE ~ is_new(c)
  <2>1. signalRating(c, cfg) = baseRating(c, cfg)
    BY <1>8 DEF signalRating
  <2> QED BY <1>5, <1>6, <2>1
<1> QED BY <1>7, <1>8

\* The other signals do not fall with growth (signals.go).
LEMMA OthersGrow ==
  ASSUME NEW cfg, IsFile(cfg), NEW b, NEW c, Grown(b, c, cfg)
  PROVE  /\ signalPopularity(b, cfg) <= signalPopularity(c, cfg)
         /\ signalFriends(b, cfg) <= signalFriends(c, cfg)
         /\ signalPhotos(b, cfg) <= signalPhotos(c, cfg)
<1>1. /\ b.reviews \in Counts /\ b.reviews \in Nat /\ c.reviews \in Counts /\ c.reviews \in Nat
      /\ b.friends \in Nat /\ c.friends \in Nat /\ b.photos \in Nat /\ c.photos \in Nat
      /\ b.reviews <= c.reviews /\ b.friends <= c.friends /\ b.photos <= c.photos
      /\ b \in Business /\ c \in Business
  BY RowAssumption DEF Business, Grown
<1>2. \A x, y \in Nat : x <= y => Capped(x) <= Capped(y)
  BY DEF Capped, Unit
<1>3. signalPopularity(b, cfg) <= signalPopularity(c, cfg)
  <2> DEFINE L == Log1p[b.reviews]
             N == Log1p[c.reviews]
             M == Log1p[cfg.global_max_reviews]
  <2>1. CASE b.reviews <= 0
    <3>1. signalPopularity(b, cfg) = 0
      BY <2>1 DEF signalPopularity
    <3>2. signalPopularity(c, cfg) \in 0..Unit
      <4>1. OthersRange(c, cfg)
        BY <1>1, OthersInRange
      <4> QED BY <4>1 DEF OthersRange
    <3> QED BY <3>1, <3>2
  <2>2. CASE b.reviews > 0
    <3>1. b.reviews \in Counts \ {0} /\ c.reviews \in Counts \ {0} /\ c.reviews > 0
      BY <1>1, <2>2
    <3>2. L \in Nat /\ N \in Nat /\ M \in Nat \ {0} /\ L <= N
      <4>1. M \in Nat \ {0}
        BY DEF IsFile
      <4>2. L \in Nat /\ N \in Nat /\ L <= N
        BY <1>1, <3>1, TableAssumption
      <4> QED BY <4>1, <4>2
    <3>3. /\ signalPopularity(b, cfg) = Capped((1000 * L) \div M)
          /\ signalPopularity(c, cfg) = Capped((1000 * N) \div M)
      BY <1>1, <2>2, <3>1 DEF signalPopularity, Unit
    <3> HIDE DEF L, M, N
    <3>4. 1000 * L \in Nat /\ 1000 * N \in Nat /\ 1000 * L <= 1000 * N
      BY <3>2
    <3>5. /\ (1000 * L) \div M \in Nat /\ (1000 * N) \div M \in Nat
          /\ (1000 * L) \div M <= (1000 * N) \div M
      BY <3>2, <3>4, QuotientMonotone
    <3> QED BY <1>2, <3>3, <3>5
  <2> QED BY <1>1, <2>1, <2>2
<1>4. signalFriends(b, cfg) <= signalFriends(c, cfg)
  <2> DEFINE F == cfg.friends_full_credit
  <2>0. F \in Nat \ {0}
    BY DEF IsFile
  <2>4. b.friends \in Nat /\ c.friends \in Nat /\ b.friends <= c.friends
    BY <1>1
  <2>5. \A x, y \in Nat : x <= y => 1000 * x \in Nat /\ 1000 * y \in Nat /\ 1000 * x <= 1000 * y
    OBVIOUS
  <2>1. F \in Nat \ {0} /\ 1000 * b.friends \in Nat /\ 1000 * c.friends \in Nat
        /\ 1000 * b.friends <= 1000 * c.friends
    BY <2>0, <2>4, <2>5
  <2>2. /\ signalFriends(b, cfg) = Capped((1000 * b.friends) \div F)
        /\ signalFriends(c, cfg) = Capped((1000 * c.friends) \div F)
    BY DEF signalFriends, Unit
  <2> HIDE DEF F
  <2>3. /\ (1000 * b.friends) \div F \in Nat /\ (1000 * c.friends) \div F \in Nat
        /\ (1000 * b.friends) \div F <= (1000 * c.friends) \div F
    BY <2>1, QuotientMonotone
  <2> QED BY <1>2, <2>2, <2>3
<1>5. signalPhotos(b, cfg) <= signalPhotos(c, cfg)
  <2>1. cfg.photo_demotion_below_3 \in Int /\ cfg.photo_demotion_below_3 <= Unit
    BY UnitIsNat DEF IsFile
  <2>2. b.photos \in Nat /\ c.photos \in Nat /\ b.photos <= c.photos
    BY <1>1
  <2> QED BY <2>1, <2>2, UnitIsNat DEF signalPhotos, photosFullCredit
<1> QED BY <1>3, <1>4, <1>5

\* So no signal falls.
LEMMA SignalsGrow ==
  ASSUME NEW cfg, IsFile(cfg), NEW b, NEW c, Grown(b, c, cfg), ConfirmedByReviews(b, cfg), NEW name
  PROVE  signalValue(name, b, cfg) <= signalValue(name, c, cfg)
<1>1. /\ signalDistance(b, cfg) <= signalDistance(c, cfg)
      /\ signalRating(b, cfg) <= signalRating(c, cfg)
  BY DistanceGrows, RatingGrows
<1>2. /\ signalPopularity(b, cfg) <= signalPopularity(c, cfg)
      /\ signalFriends(b, cfg) <= signalFriends(c, cfg)
      /\ signalPhotos(b, cfg) <= signalPhotos(c, cfg)
  BY OthersGrow
<1>3. (IF b.claimed THEN Unit ELSE 0) <= (IF c.claimed THEN Unit ELSE 0)
  BY DEF Grown, Unit
<1>4. cfg.open_status[b.status] <= cfg.open_status[c.status]
  BY DEF Grown
<1>5. CASE name = "distance"
  BY <1>1, <1>5 DEF signalValue
<1>6. CASE name = "rating"
  BY <1>1, <1>6 DEF signalValue
<1>7. CASE name = "popularity"
  BY <1>2, <1>7 DEF signalValue
<1>8. CASE name = "friends"
  BY <1>2, <1>8 DEF signalValue
<1>9. CASE name = "claimed"
  BY <1>3, <1>9 DEF signalValue
<1>10. CASE name = "photos"
  BY <1>2, <1>10 DEF signalValue
<1>11. CASE name = "open_status"
  BY <1>4, <1>11 DEF signalValue
<1>12. CASE name \notin {"distance", "rating", "popularity", "friends", "claimed", "photos", "open_status"}
  BY <1>12 DEF signalValue
<1> QED BY <1>5, <1>6, <1>7, <1>8, <1>9, <1>10, <1>11, <1>12

\* Nor does the score, a sum of the signals with weights that are not negative.
LEMMA ScoreGrows ==
  ASSUME NEW cfg, IsFile(cfg), NEW b, NEW c, Grown(b, c, cfg), ConfirmedByReviews(b, cfg)
  PROVE  scoreCandidate(b, cfg) <= scoreCandidate(c, cfg)
         /\ scoreCandidate(b, cfg) \in Int /\ scoreCandidate(c, cfg) \in Int
<1> DEFINE n == Len(cfg.signals)
           p == Points(b, cfg)
           q == Points(c, cfg)
           w == WeightsOf(b.archetype, cfg)
<1>1. b \in Business /\ c \in Business /\ c.archetype = b.archetype
  BY DEF Grown
<1>2. /\ p \in Seq(Int) /\ Len(p) = n
      /\ \A k \in 1..n : p[k] = w[k] * signalValue(cfg.signals[k], b, cfg) /\ w[k] \in Nat
  <2>1. Weighted(p, w, b, cfg)
    BY <1>1, PointsType
  <2> HIDE DEF p, w
  <2> QED BY <2>1 DEF Weighted
<1>3. /\ q \in Seq(Int) /\ Len(q) = n
      /\ \A k \in 1..n : q[k] = w[k] * signalValue(cfg.signals[k], c, cfg)
  <2>1. Weighted(q, w, c, cfg)
    <3>1. Weighted(q, WeightsOf(c.archetype, cfg), c, cfg)
      BY <1>1, PointsType
    <3> QED BY <1>1, <3>1
  <2> HIDE DEF q, w
  <2> QED BY <2>1 DEF Weighted
<1>4. scoreCandidate(b, cfg) = Total(p) /\ scoreCandidate(c, cfg) = Total(q)
  BY DEF scoreCandidate, Points
<1>5. ASSUME NEW k \in 1..n PROVE p[k] <= q[k]
  <2> DEFINE x == signalValue(cfg.signals[k], b, cfg)
             y == signalValue(cfg.signals[k], c, cfg)
  <2>1. x <= y
    BY SignalsGrow
  <2>2. x \in Nat /\ y \in Nat
    BY <1>1, SignalsInRange
  <2>3. w[k] \in Nat /\ p[k] = w[k] * x /\ q[k] = w[k] * y
    BY <1>2, <1>3
  <2> HIDE DEF w, x, y, p, q
  <2> QED BY <2>1, <2>2, <2>3, ProductMonotone
<1> HIDE DEF n, p, q, w
<1>6. Total(p) <= Total(q) /\ Total(p) \in Int /\ Total(q) \in Int
  <2>1. Len(p) = Len(q) /\ \A k \in 1..Len(p) : p[k] <= q[k]
    BY <1>2, <1>3, <1>5
  <2> QED BY <1>2, <1>3, <2>1, TotalsOrdered
<1> QED BY <1>4, <1>6

\* A loaded file stays loaded, and the business one (validate in config/loader.go, the dump).
THEOREM LoadedStays == ScoreSpec => []Loaded
<1>1. LoadConfig => Loaded
  BY RowAssumption DEF LoadConfig, Loaded
<1>2. Loaded /\ [Grow]_<<file, biz>> => Loaded'
  <2>1. ASSUME Loaded, Grow PROVE Loaded'
    BY <2>1, GrowStep
  <2>2. ASSUME Loaded, UNCHANGED <<file, biz>> PROVE Loaded'
    BY <2>2 DEF Loaded
  <2> QED BY <2>1, <2>2
<1> QED BY <1>1, <1>2, PTL DEF ScoreSpec

\* No score passes the 1.0 that stands for the pin, in any file that keeps the contract
\* (api/search.go toResult, config/loader.go:40).
THEOREM PinOnTop == ScoreSpec => []PinShownOnTop
<1>1. ASSUME Loaded PROVE PinShownOnTop
  <2>1. IsFile(loaded) /\ biz \in Business
    BY <1>1, FileFacts DEF Loaded, loaded
  <2>2. toResult(biz, FALSE) = scoreCandidate(biz, loaded) /\ toResult(biz, TRUE) = One
    BY DEF toResult
  <2>3. loaded.rating = "literal" \/ loaded.source = "google_rating" =>
          loaded.rating # "bayesian" \/ loaded.source # "lemon_score"
    OBVIOUS
  <2>4. ASSUME loaded.rating # "bayesian" \/ loaded.source # "lemon_score"
        PROVE  toResult(biz, FALSE) \in 0..toResult(biz, TRUE)
    <3>1. /\ scoreCandidate(biz, loaded) \in Int /\ 0 <= scoreCandidate(biz, loaded)
          /\ scoreCandidate(biz, loaded) <= One
      BY <2>1, <2>4, ScoreWithinWeights
    <3>2. One \in Nat
      BY DEF One, Unit
    <3> QED BY <2>2, <3>1, <3>2, Between
  <2> QED BY <2>3, <2>4 DEF PinShownOnTop
<1>2. Loaded => PinShownOnTop
  BY <1>1
<1> QED BY <1>2, LoadedStays, PTL

\* Growth never lowers a score, whatever formulas are switched on (rank/signals.go).
THEOREM GrowthHelps == ScoreSpec => GrowthNeverHurts
<1>1. Loaded /\ [Grow]_<<file, biz>> =>
        [ConfirmedByReviews(biz, loaded)
           => scoreCandidate(biz', loaded') >= scoreCandidate(biz, loaded)]_<<file, biz>>
  <2>1. ASSUME Loaded, Grow, ConfirmedByReviews(biz, loaded)
        PROVE  scoreCandidate(biz', loaded') >= scoreCandidate(biz, loaded)
    <3>1. IsFile(loaded)
      BY <2>1, FileFacts DEF Loaded, loaded
    <3>2. Grown(biz, biz', loaded) /\ loaded' = loaded
      BY <2>1, GrowStep
    <3>3. scoreCandidate(biz, loaded) <= scoreCandidate(biz', loaded)
          /\ scoreCandidate(biz, loaded) \in Int /\ scoreCandidate(biz', loaded) \in Int
      BY <2>1, <3>1, <3>2, ScoreGrows
    <3> QED BY <3>2, <3>3
  <2> QED BY <2>1
<1> QED BY <1>1, LoadedStays, PTL DEF ScoreSpec, GrowthNeverHurts
-----------------------------------------------------------------------------
(* The tie-break of a list longer than a block: its blocks are sorted by   *)
(* insertion and merged.                                                   *)

\* Where a binary search may end: behind a position that sends it to the right, in front
\* of one that does not.
IsCut(from, to, right, c) ==
  /\ c \in from..to
  /\ c = from \/ c - 1 \in right
  /\ c = to \/ c \notin right

\* Half of a range that is not empty is shorter.
LEMMA HalvedFacts ==
  ASSUME NEW r \in Nat \X Nat, r[1] < r[2], NEW right
  PROVE  /\ Halved(r, right) \in Nat \X Nat
         /\ \/ /\ Halved(r, right)[1] = r[1]
               /\ Halved(r, right)[2] \in r[1]..r[2]-1
               /\ Halved(r, right)[2] \notin right
            \/ /\ Halved(r, right)[2] = r[2]
               /\ Halved(r, right)[1] \in r[1]+1..r[2]
               /\ Halved(r, right)[1] - 1 \in right
<1> DEFINE x == r[1]
           y == r[2]
           h == (x + y) \div 2
<1>1. x \in Nat /\ y \in Nat /\ x < y
  OBVIOUS
<1>2. Halved(r, right) = IF h \in right THEN <<h + 1, y>> ELSE <<x, h>>
  <2>1. ~(r[1] >= r[2])
    BY <1>1
  <2> QED BY <2>1 DEF Halved
<1> HIDE DEF x, y
<1>3. h \in x..y-1 /\ h + 1 \in x+1..y /\ (h + 1) - 1 = h
  BY <1>1
<1>4. h \in Nat /\ h + 1 \in Nat
  BY <1>1, <1>3
<1> HIDE DEF h
<1>5. CASE h \in right
  <2>1. Halved(r, right) = <<h + 1, y>>
    BY <1>2, <1>5
  <2>2. <<h + 1, y>> \in Nat \X Nat /\ <<h + 1, y>>[1] = h + 1 /\ <<h + 1, y>>[2] = y
    BY <1>1, <1>4
  <2> QED BY <1>3, <1>5, <2>1, <2>2 DEF x, y
<1>6. CASE h \notin right
  <2>1. Halved(r, right) = <<x, h>>
    BY <1>2, <1>6
  <2>2. <<x, h>> \in Nat \X Nat /\ <<x, h>>[1] = x /\ <<x, h>>[2] = h
    BY <1>1, <1>4
  <2> QED BY <1>3, <1>6, <2>1, <2>2 DEF x, y
<1> QED BY <1>5, <1>6 DEF x, y

\* A binary search ends where the positions on its two sides send it, whatever the others
\* would.
LEMMA CutFacts ==
  ASSUME NEW from \in Nat, NEW to \in Nat, from <= to, NEW right
  PROVE  IsCut(from, to, right, Cut(from, to, right))
<1> DEFINE n == to - from
           S == Nat \X Nat
           Pass(r) == Halved(r, right)
           F == [q \in S \X (1..n) |-> Pass(q[1])]
           Loop(g) == g = [k \in 0..n |-> IF k = 0 THEN <<from, to>>
                                          ELSE Halved(g[k-1], right)]
           search == CHOOSE g : Loop(g)
<1>1. n \in Nat /\ <<from, to>> \in S
  OBVIOUS
<1>2. \A r \in S : Pass(r) \in S
  <2>1. ASSUME NEW r \in S PROVE Pass(r) \in S
    <3>1. r[1] \in Nat /\ r[2] \in Nat
      OBVIOUS
    <3>2. ~(r[1] >= r[2]) => r[1] < r[2]
      BY <3>1
    <3>3. r[1] < r[2] => Halved(r, right) \in S
      BY HalvedFacts
    <3>4. r[1] >= r[2] => Halved(r, right) = r
      BY DEF Halved
    <3> QED BY <3>2, <3>3, <3>4
  <2> QED BY <2>1
<1>3. F \in [S \X (1..n) -> S]
  <2>1. ASSUME NEW q \in S \X (1..n) PROVE Pass(q[1]) \in S
    <3>1. q[1] \in S
      OBVIOUS
    <3> HIDE DEF Pass, S
    <3> QED BY <1>2, <3>1
  <2> HIDE DEF Pass, S
  <2> QED BY <2>1
<1>4. Runs(F, <<from, to>>, S, n) # {}
  <2> HIDE DEF F, n, S
  <2> QED BY <1>1, <1>3, LoopExists
<1>5. PICK g \in [0..n -> S] : g[0] = <<from, to>> /\ \A k \in 1..n : g[k] = F[<<g[k-1], k>>]
  <2> HIDE DEF F, n, S
  <2> QED BY <1>4 DEF Runs
<1>6. \A k \in 1..n : g[k-1] \in S /\ g[k] = Pass(g[k-1])
  <2>1. ASSUME NEW k \in 1..n PROVE g[k-1] \in S /\ g[k] = Pass(g[k-1])
    <3>1. k - 1 \in 0..n
      BY <1>1
    <3> HIDE DEF S, Pass
    <3>2. g[k-1] \in S /\ <<g[k-1], k>> \in S \X (1..n)
      BY <3>1
    <3>3. F[<<g[k-1], k>>] = Pass(g[k-1])
      BY <3>2
    <3> HIDE DEF F
    <3> QED BY <1>5, <3>2, <3>3
  <2> HIDE DEF F, Pass, S
  <2> QED BY <2>1
<1>7. Loop(g)
  <2>1. g = [k \in 0..n |-> g[k]]
    OBVIOUS
  <2>2. ASSUME NEW k \in 0..n
        PROVE g[k] = IF k = 0 THEN <<from, to>>
                     ELSE Halved(g[k-1], right)
    <3>1. k # 0 => k \in 1..n
      BY <1>1
    <3> HIDE DEF F, n, S
    <3> QED BY <1>5, <1>6, <3>1
  <2> HIDE DEF F, n, S, Pass
  <2> QED BY <2>1, <2>2, Zenon
<1>8. Loop(search)
  <2> HIDE DEF Loop
  <2> QED BY <1>7
<1>9. Cut(from, to, right) = search[n][1]
  BY DEF Cut
<1> DEFINE Good(r, k) == /\ r \in S
                         /\ from <= r[1] /\ r[1] <= r[2] /\ r[2] <= to
                         /\ r[2] - r[1] <= n - k
                         /\ r[1] = from \/ r[1] - 1 \in right
                         /\ r[2] = to \/ r[2] \notin right
           T == {k \in 0..n : Good(search[k], k)}
<1>10. search[0] = <<from, to>> /\ \A k \in 1..n : search[k] = Pass(search[k-1])
  <2>1. \A k \in 0..n : search[k] = IF k = 0 THEN <<from, to>>
                                    ELSE Halved(search[k-1], right)
    <3>1. search = [k \in 0..n |-> IF k = 0 THEN <<from, to>>
                                   ELSE Halved(search[k-1], right)]
      BY <1>8
    <3> HIDE DEF search, n
    <3> QED BY <3>1, Zenon
  <2> HIDE DEF search, Loop, F, S
  <2>2. search[0] = <<from, to>>
    BY <1>1, <2>1
  <2>3. ASSUME NEW k \in 1..n PROVE search[k] = Pass(search[k-1])
    <3>1. k \in 0..n /\ k # 0
      BY <1>1
    <3> HIDE DEF n
    <3> QED BY <2>1, <3>1
  <2> HIDE DEF n, Pass
  <2> QED BY <2>2, <2>3
<1> HIDE DEF search, Loop, F
<1>11. 0 \in T
  <2>1. Good(<<from, to>>, 0)
    <3>1. <<from, to>> \in S /\ <<from, to>>[1] = from /\ <<from, to>>[2] = to
      OBVIOUS
    <3> QED BY <3>1
  <2> HIDE DEF Good
  <2>2. Good(search[0], 0)
    BY <1>10, <2>1
  <2>3. 0 \in 0..n
    BY <1>1
  <2> HIDE DEF n
  <2> QED BY <2>2, <2>3
<1>12. ASSUME NEW k \in 1..n, k - 1 \in T PROVE k \in T
  <2> DEFINE r == search[k-1]
             u == search[k]
  <2>1. /\ r \in S /\ from <= r[1] /\ r[1] <= r[2] /\ r[2] <= to
        /\ r[2] - r[1] <= n - (k - 1)
        /\ r[1] = from \/ r[1] - 1 \in right
        /\ r[2] = to \/ r[2] \notin right
    BY <1>12
  <2>2. u = Halved(r, right)
    BY <1>10
  <2> HIDE DEF r, u
  <2>3. r[1] \in Nat /\ r[2] \in Nat /\ k \in Nat /\ k <= n /\ n \in Nat
    BY <1>1, <2>1
  <2>4. Good(u, k)
    <3>1. CASE r[1] >= r[2]
      <4>1. u = r /\ r[2] - r[1] <= n - k
        BY <2>1, <2>2, <2>3, <3>1 DEF Halved
      <4> QED BY <2>1, <4>1
    <3>2. CASE r[1] < r[2]
      <4>1. u = Halved(r, right)
        BY <2>2
      <4>2. /\ u \in S
            /\ \/ u[1] = r[1] /\ u[2] \in r[1]..r[2]-1 /\ u[2] \notin right
               \/ u[2] = r[2] /\ u[1] \in r[1]+1..r[2] /\ u[1] - 1 \in right
        BY <2>1, <3>2, <4>1, HalvedFacts
      <4>3. CASE u[1] = r[1] /\ u[2] \in r[1]..r[2]-1 /\ u[2] \notin right
        <5>2. u[2] \in Nat /\ r[1] <= u[2] /\ u[2] + 1 <= r[2]
          BY <2>3, <4>3
        <5>3. from <= u[1] /\ u[1] <= u[2] /\ u[2] <= to
          BY <2>1, <2>3, <4>3, <5>2
        <5>4. u[2] - u[1] <= n - k
          <6>1. r[2] - r[1] <= n - (k - 1)
            BY <2>1
          <6>2. \A x, y, z, p, q \in Int : y - x <= p - (q - 1) /\ z + 1 <= y => z - x <= p - q
            OBVIOUS
          <6>3. u[1] = r[1] /\ n \in Int /\ k \in Int /\ u[2] \in Int /\ r[1] \in Int /\ r[2] \in Int
            BY <1>1, <2>3, <4>3, <5>2
          <6> HIDE DEF n
          <6> QED BY <5>2, <6>1, <6>2, <6>3
        <5>1. from <= u[1] /\ u[1] <= u[2] /\ u[2] <= to /\ u[2] - u[1] <= n - k
          BY <5>3, <5>4
        <5> QED BY <2>1, <4>2, <4>3, <5>1
      <4>4. CASE u[2] = r[2] /\ u[1] \in r[1]+1..r[2] /\ u[1] - 1 \in right
        <5>2. u[1] \in Nat /\ r[1] + 1 <= u[1] /\ u[1] <= r[2]
          BY <2>3, <4>2, <4>4
        <5>3. from <= u[1] /\ u[1] <= u[2] /\ u[2] <= to
          BY <2>1, <2>3, <4>4, <5>2
        <5>4. u[2] - u[1] <= n - k
          <6>1. r[2] - r[1] <= n - (k - 1)
            BY <2>1
          <6>2. \A x, y, z, p, q \in Int : y - x <= p - (q - 1) /\ x + 1 <= z => y - z <= p - q
            OBVIOUS
          <6>3. u[2] = r[2] /\ n \in Int /\ k \in Int /\ u[1] \in Int /\ r[1] \in Int /\ r[2] \in Int
            BY <1>1, <2>3, <4>4, <5>2
          <6> HIDE DEF n
          <6> QED BY <5>2, <6>1, <6>2, <6>3
        <5>1. from <= u[1] /\ u[1] <= u[2] /\ u[2] <= to /\ u[2] - u[1] <= n - k
          BY <5>3, <5>4
        <5> QED BY <2>1, <4>2, <4>4, <5>1
      <4> QED BY <4>2, <4>3, <4>4
    <3> QED BY <2>3, <3>1, <3>2
  <2>5. k \in 0..n
    BY <1>1
  <2> HIDE DEF Good
  <2> QED BY <2>4, <2>5 DEF u
<1>13. n \in T
  <2>1. \A k \in 0..n : k \in T
    <3> HIDE DEF T, n
    <3> QED BY <1>1, <1>11, <1>12, Induction
  <2> QED BY <1>1, <2>1
<1> DEFINE e == search[n]
<1>14. /\ e \in S /\ from <= e[1] /\ e[1] <= e[2] /\ e[2] <= to /\ e[2] - e[1] <= n - n
       /\ e[1] = from \/ e[1] - 1 \in right
       /\ e[2] = to \/ e[2] \notin right
  BY <1>13
<1>15. Cut(from, to, right) = e[1]
  BY <1>9
<1> HIDE DEF e, T, Pass
<1>16. e[1] \in from..to /\ e[2] = e[1]
  BY <1>1, <1>14
<1> QED BY <1>14, <1>15, <1>16 DEF IsCut

\* The position whose element a rotation of from..mid..to puts at k.
SourceOf(from, mid, to, k) ==
  IF from <= k /\ k < from + to - mid THEN k + (mid - from)
  ELSE IF from + to - mid <= k /\ k < to THEN k - (to - mid)
  ELSE k

\* t holds at each position what s holds at its source.
IsRotation(s, from, mid, to, t) ==
  /\ Len(t) = Len(s)
  /\ \A k \in 0..Len(s)-1 : t[k+1] = s[SourceOf(from, mid, to, k) + 1]

\* rotate takes every element from its source.
LEMMA RotateFacts ==
  ASSUME NEW S, NEW s \in Seq(S), NEW from \in Nat, NEW mid \in Nat, NEW to \in Nat,
         from <= mid, mid <= to, to <= Len(s)
  PROVE  /\ rotate(s, from, mid, to) \in Seq(S)
         /\ IsRotation(s, from, mid, to, rotate(s, from, mid, to))
<1> DEFINE n == Len(s)
           t == rotate(s, from, mid, to)
           R(k) == SourceOf(from, mid, to, k)
<1>1. n \in Nat /\ \A k \in 1..n : s[k] \in S
  OBVIOUS
<1>2. \A k \in 0..n-1 : R(k) \in 0..n-1
  BY <1>1 DEF SourceOf
<1>3. t = [k \in 1..n |-> CASE k \in from + 1..from + to - mid -> s[k + (mid - from)]
                            [] k \in from + to - mid + 1..to   -> s[k - (to - mid)]
                            [] OTHER                           -> s[k]]
  BY DEF rotate
<1> HIDE DEF n, t
<1>4. ASSUME NEW k \in 0..n-1 PROVE t[k+1] = s[R(k) + 1] /\ t[k+1] \in S
  <2>1. /\ k + 1 \in 1..n
        /\ k + 1 \in from + 1..from + to - mid <=> from <= k /\ k < from + to - mid
        /\ k + 1 \in from + to - mid + 1..to <=> from + to - mid <= k /\ k < to
    BY <1>1
  <2>2. t[k+1] = CASE k + 1 \in from + 1..from + to - mid -> s[k + 1 + (mid - from)]
                   [] k + 1 \in from + to - mid + 1..to   -> s[k + 1 - (to - mid)]
                   [] OTHER                               -> s[k + 1]
    BY <1>3, <2>1
  <2>3. t[k+1] = s[R(k) + 1]
    <3>1. CASE from <= k /\ k < from + to - mid
      <4>1. R(k) + 1 = k + 1 + (mid - from)
        BY <1>1, <3>1 DEF SourceOf
      <4>2. ~(k + 1 \in from + to - mid + 1..to)
        BY <1>1, <3>1
      <4> HIDE DEF R
      <4> QED BY <2>1, <2>2, <3>1, <4>1, <4>2
    <3>2. CASE from + to - mid <= k /\ k < to
      <4>1. R(k) + 1 = k + 1 - (to - mid)
        BY <1>1, <3>2 DEF SourceOf
      <4>2. ~(k + 1 \in from + 1..from + to - mid)
        BY <1>1, <3>2
      <4> HIDE DEF R
      <4> QED BY <2>1, <2>2, <3>2, <4>1, <4>2
    <3>3. CASE ~(from <= k /\ k < from + to - mid) /\ ~(from + to - mid <= k /\ k < to)
      <4>1. R(k) = k
        BY <3>3 DEF SourceOf
      <4> HIDE DEF R
      <4> QED BY <2>1, <2>2, <3>3, <4>1
    <3> QED BY <3>1, <3>2, <3>3
  <2>4. R(k) + 1 \in 1..n
    <3>1. R(k) \in 0..n-1
      BY <1>2
    <3> HIDE DEF R
    <3> QED BY <1>1, <3>1
  <2> HIDE DEF R
  <2> QED BY <1>1, <2>3, <2>4
<1>5. \A k \in 1..n : t[k] \in S
  <2>1. ASSUME NEW k \in 1..n PROVE t[k] \in S
    <3>1. k - 1 \in 0..n-1 /\ (k - 1) + 1 = k
      BY <1>1
    <3> QED BY <1>4, <3>1
  <2> QED BY <2>1
<1>6. DOMAIN t = 1..n
  BY <1>3
<1>7. t \in [1..n -> S]
  <2>1. t = [k \in 1..n |-> t[k]]
    BY <1>3
  <2> QED BY <1>5, <2>1
<1>8. t \in Seq(S) /\ Len(t) = n
  BY <1>1, <1>6, <1>7
<1> HIDE DEF R
<1>9. \A k \in 0..n-1 : t[k+1] = s[R(k) + 1]
  BY <1>4
<1> QED BY <1>8, <1>9 DEF IsRotation, n, t, R

\* What insertion leaves: every element in front of those behind it, neighbour by neighbour.
InOrder(s) == \A k \in 1..Len(s)-1 : ~Less(s[k+1], s[k])

\* Insertion keeps neighbours in order, whatever order the list was in otherwise.
LEMMA InsertKeepsOrder ==
  ASSUME NEW s \in Seq(Result), NEW x \in Result, InOrder(s)
  PROVE  InOrder(Insert(s, x))
<1> DEFINE n == Len(s)
           t == Insert(s, x)
<1>1. PICK p \in 1..n+1 :
        /\ t = InsertAt(s, p, x)
        /\ \A k \in p..n : Less(x, s[k])
        /\ p > 1 => ~Less(x, s[p-1])
  BY InsertFacts
<1>2. /\ Len(t) = n + 1 /\ n \in Nat
      /\ \A k \in 1..p-1 : t[k] = s[k]
      /\ t[p] = x
      /\ \A k \in p+1..n+1 : t[k] = s[k-1]
  <2>1. t = InsertAt(s, p, x)
    BY <1>1
  <2> HIDE DEF t
  <2> QED BY <2>1, InsertedAt
<1>3. \A k \in 1..n : s[k] \in Result
  OBVIOUS
<1>4. \A k \in 1..n-1 : ~Less(s[k+1], s[k])
  BY DEF InOrder
<1> HIDE DEF n, t
<1>5. ASSUME NEW k \in 1..n PROVE ~Less(t[k+1], t[k])
  <2>1. CASE k + 1 < p
    <3>1. k \in 1..p-1 /\ k + 1 \in 1..p-1 /\ k \in 1..n-1
      BY <1>1, <1>2, <2>1
    <3> QED BY <1>2, <1>4, <3>1
  <2>2. CASE k + 1 = p
    <3>1. k \in 1..p-1 /\ p > 1 /\ p - 1 = k
      BY <1>1, <1>2, <2>2
    <3> QED BY <1>1, <1>2, <2>2, <3>1
  <2>3. CASE k = p
    <3>1. k + 1 \in p+1..n+1 /\ (k + 1) - 1 = k /\ k \in p..n
      BY <1>1, <1>2, <2>3
    <3>2. t[k+1] = s[k] /\ t[k] = x /\ Less(x, s[k])
      BY <1>1, <1>2, <2>3, <3>1
    <3> QED BY <1>3, <3>2, LessAsymmetric
  <2>4. CASE k > p
    <3>1. k + 1 \in p+1..n+1 /\ k \in p+1..n+1 /\ (k + 1) - 1 = k /\ k - 1 \in 1..n-1 /\ (k - 1) + 1 = k
      BY <1>1, <1>2, <2>4
    <3>2. t[k+1] = s[k] /\ t[k] = s[k-1]
      BY <1>2, <3>1
    <3> QED BY <1>4, <3>1, <3>2
  <2> QED BY <1>1, <1>2, <2>1, <2>2, <2>3, <2>4
<1>6. Len(t) - 1 = n
  BY <1>2
<1> QED BY <1>5, <1>6 DEF InOrder, t

\* The insertion sort of a block leaves its neighbours in order.
LEMMA TieBreakInOrder ==
  ASSUME NEW s \in Seq(Result)
  PROVE  /\ tieBreak(s) \in Seq(Result)
         /\ Len(tieBreak(s)) = Len(s)
         /\ InOrder(tieBreak(s))
<1> DEFINE n == Len(s)
           u == [k \in 0..n |-> tieBreak(SubSeq(s, 1, k))]
           T == {k \in 0..n : InOrder(u[k])}
<1>1. n \in Nat /\ \A k \in 1..n : s[k] \in Result
  OBVIOUS
<1>2. /\ \A k \in 0..n : u[k] \in Seq(Result) /\ Len(u[k]) = k
      /\ u[0] = <<>>
      /\ \A k \in 1..n : u[k] = Insert(u[k-1], s[k])
      /\ u[n] = tieBreak(s)
  <2>1. \A k \in 0..n : u[k] = tieBreak(SubSeq(s, 1, k))
    OBVIOUS
  <2>2. 0 \in 0..n /\ n \in 0..n /\ \A k \in 1..n : k \in 0..n /\ k - 1 \in 0..n
    BY <1>1
  <2>3. /\ \A k \in 0..n : /\ tieBreak(SubSeq(s, 1, k)) \in Seq(Result)
                          /\ Len(tieBreak(SubSeq(s, 1, k))) = k
        /\ tieBreak(SubSeq(s, 1, 0)) = <<>>
        /\ \A k \in 1..n : tieBreak(SubSeq(s, 1, k)) = Insert(tieBreak(SubSeq(s, 1, k-1)), s[k])
        /\ tieBreak(SubSeq(s, 1, n)) = tieBreak(s)
    BY TieBreakStep
  <2> HIDE DEF u, n
  <2> QED BY <2>1, <2>2, <2>3
<1> HIDE DEF n, u
<1>3. 0 \in T
  <2>1. InOrder(<<>>)
    BY DEF InOrder
  <2> QED BY <1>1, <1>2, <2>1
<1>4. ASSUME NEW k \in 1..n, k - 1 \in T PROVE k \in T
  <2>1. k - 1 \in 0..n /\ k \in 0..n
    BY <1>1
  <2>2. u[k-1] \in Seq(Result) /\ InOrder(u[k-1]) /\ s[k] \in Result
    BY <1>1, <1>2, <1>4, <2>1
  <2>3. InOrder(Insert(u[k-1], s[k]))
    BY <2>2, InsertKeepsOrder
  <2> QED BY <1>2, <2>1, <2>3
<1>5. \A k \in 0..n : k \in T
  <2> HIDE DEF T
  <2> QED BY <1>1, <1>3, <1>4, Induction
<1>6. n \in 0..n
  BY <1>1
<1> QED BY <1>2, <1>5, <1>6 DEF n

\* t is s but for the positions from..to-1.
SameOutside(s, from, to, t) ==
  /\ Len(t) = Len(s)
  /\ \A k \in 0..Len(s)-1 : (k < from \/ k >= to) => t[k+1] = s[k+1]

\* Sorting a block orders its neighbours and leaves the rest of the list alone.
LEMMA BlockFacts ==
  ASSUME NEW s \in Seq(Result), NEW from \in Nat, NEW to \in Nat, from <= to, to <= Len(s)
  PROVE  /\ insertionSort(s, from, to) \in Seq(Result)
         /\ SameOutside(s, from, to, insertionSort(s, from, to))
         /\ \A h \in from+1..to-1 : ~Before(insertionSort(s, from, to), h, h - 1)
         /\ \A k \in from+1..to :
              insertionSort(s, from, to)[k] = tieBreak(SubSeq(s, from + 1, to))[k - from]
<1> DEFINE n == Len(s)
           t == insertionSort(s, from, to)
           u == SubSeq(s, 1, from)
           v == tieBreak(SubSeq(s, from + 1, to))
           w == SubSeq(s, to + 1, n)
<1>1. n \in Nat
  OBVIOUS
<1>2. u \in Seq(Result) /\ Len(u) = from /\ \A k \in 1..from : u[k] = s[k]
  OBVIOUS
<1>3. w \in Seq(Result) /\ Len(w) = n - to /\ \A k \in 1..n-to : w[k] = s[to + k]
  <2> DEFINE p == to + 1
  <2>1. p \in Nat /\ p >= 1 /\ p - 1 <= n /\ n - p + 1 = n - to
    BY <1>1
  <2>2. \A k \in 1..n-to : p + k - 1 = to + k
    BY <1>1
  <2>3. w = SubSeq(s, p, n)
    OBVIOUS
  <2> HIDE DEF p, w
  <2>4. w \in Seq(Result) /\ Len(w) = n - p + 1 /\ \A k \in 1..n-p+1 : w[k] = s[p+k-1]
    BY <2>1, <2>3
  <2> HIDE DEF n
  <2> QED BY <2>1, <2>2, <2>4
<1>4. SubSeq(s, from + 1, to) \in Seq(Result) /\ Len(SubSeq(s, from + 1, to)) = to - from
  OBVIOUS
<1>5. v \in Seq(Result) /\ Len(v) = to - from /\ InOrder(v)
  BY <1>4, TieBreakInOrder
<1>6. t = (u \o v) \o w
  BY DEF insertionSort
<1> HIDE DEF t, u, v, w, n
<1>7. /\ u \o v \in Seq(Result) /\ Len(u \o v) = to
      /\ \A k \in 1..to : (u \o v)[k] = IF k <= from THEN u[k] ELSE v[k - from]
  <2>1. /\ u \o v \in Seq(Result) /\ Len(u \o v) = Len(u) + Len(v)
        /\ \A k \in 1..Len(u)+Len(v) : (u \o v)[k] = IF k <= Len(u) THEN u[k] ELSE v[k - Len(u)]
    BY <1>2, <1>5, ConcatProperties
  <2>2. Len(u) + Len(v) = to
    BY <1>2, <1>5
  <2> QED BY <1>2, <2>1, <2>2
<1>8. /\ t \in Seq(Result) /\ Len(t) = n
      /\ \A k \in 1..n : t[k] = IF k <= to THEN (u \o v)[k] ELSE w[k - to]
  <2> DEFINE uv == u \o v
  <2>1. uv \in Seq(Result) /\ Len(uv) = to
    BY <1>7
  <2> HIDE DEF uv
  <2>2. /\ uv \o w \in Seq(Result) /\ Len(uv \o w) = Len(uv) + Len(w)
        /\ \A k \in 1..Len(uv)+Len(w) : (uv \o w)[k] = IF k <= Len(uv) THEN uv[k] ELSE w[k - Len(uv)]
    BY <1>3, <2>1, ConcatProperties
  <2>3. Len(uv) + Len(w) = n
    BY <1>1, <1>3, <2>1 DEF n
  <2>4. t = uv \o w
    BY <1>6 DEF uv
  <2> QED BY <2>1, <2>2, <2>3, <2>4 DEF uv
<1>9. ASSUME NEW k \in 0..n-1, k < from \/ k >= to PROVE t[k+1] = s[k+1]
  <2>1. CASE k < from
    <3>1. k + 1 \in 1..n /\ k + 1 <= to /\ k + 1 \in 1..to /\ k + 1 <= from /\ k + 1 \in 1..from
      BY <1>1, <2>1
    <3> QED BY <1>2, <1>7, <1>8, <3>1
  <2>2. CASE k >= to
    <3>1. k + 1 \in 1..n /\ ~(k + 1 <= to) /\ k + 1 - to \in 1..n-to /\ to + (k + 1 - to) = k + 1
      BY <1>1, <2>2
    <3> QED BY <1>3, <1>8, <3>1
  <2> QED BY <1>9, <2>1, <2>2
<1>10. ASSUME NEW h \in from+1..to-1 PROVE ~Before(t, h, h - 1)
  <2>1. /\ h + 1 \in 1..n /\ h + 1 <= to /\ h + 1 \in 1..to /\ ~(h + 1 <= from)
        /\ h \in 1..n /\ h <= to /\ h \in 1..to /\ ~(h <= from)
    BY <1>1 DEF n
  <2>2. t[h+1] = v[h+1-from] /\ t[h] = v[h-from]
    <3>1. t[h+1] = (u \o v)[h+1] /\ t[h] = (u \o v)[h]
      BY <1>8, <2>1
    <3>2. (u \o v)[h+1] = v[h+1-from]
      <4> DEFINE g == h + 1
      <4>1. g \in 1..to /\ ~(g <= from)
        BY <2>1
      <4> HIDE DEF g
      <4>2. (u \o v)[g] = v[g-from]
        BY <1>7, <4>1
      <4> QED BY <4>2 DEF g
    <3>3. (u \o v)[h] = v[h-from]
      BY <1>7, <2>1
    <3> QED BY <3>1, <3>2, <3>3
  <2>3. h - from \in 1..Len(v)-1 /\ (h - from) + 1 = h + 1 - from /\ (h - 1) + 1 = h
    BY <1>5
  <2> QED BY <1>5, <2>2, <2>3 DEF InOrder, Before
<1>11. ASSUME NEW k \in from+1..to PROVE t[k] = v[k - from]
  <2>1. k \in 1..n /\ k <= to /\ k \in 1..to /\ ~(k <= from)
    BY <1>1 DEF n
  <2> QED BY <1>7, <1>8, <2>1
<1> QED BY <1>8, <1>9, <1>10, <1>11 DEF SameOutside, n, t, v
-----------------------------------------------------------------------------
(* The inductive invariant of the merges.  A border is the position where  *)
(* an element follows another; it is in order unless two stretches meet    *)
(* there that are still to be merged.  Two stretches that a pending call   *)
(* will merge may both end up at its ends, so that the ends must be in     *)
(* order with either of them.                                              *)

Multiple(h, d) == \E q \in Nat : h = q * d

\* Where stretches meet that no call has been made for.
Borders ==
  {h \in Nat : IF phase = "blocks" THEN h >= lo \/ Multiple(h, size)
               ELSE IF h < lo THEN Multiple(h, 2 * size) ELSE Multiple(h, size)}

\* The positions whose elements may end up in front of the border h, and behind it.
Below(C, h) == {h - 1} \cup {c.m - 1 : c \in {d \in C : d.b = h}}
Above(C, h) == {h} \cup {c.m : c \in {d \in C : d.a = h}}

OrderedAt(s, C, h) == \A p \in Below(C, h), q \in Above(C, h) : ~Before(s, q, p)

IsCall(c) == c.a \in Nat /\ c.m \in Nat /\ c.b \in Nat /\ c.a < c.m /\ c.m < c.b

Apart(c, d) == c = d \/ c.b <= d.a \/ d.b <= c.a

\* The pending calls merge stretches of their own.
CallsIn(C, n, U) ==
  /\ \A c \in C : IsCall(c) /\ c.b <= n /\ \A h \in c.a+1..c.b-1 : h \notin U
  /\ \A c, d \in C : Apart(c, d)

OrderedIn(s, C, U) ==
  \A h \in 1..Len(s)-1 : h \notin U /\ (\A c \in C : c.m # h) => OrderedAt(s, C, h)

SortTypes ==
  /\ results \in Seq(Result)
  /\ size \in Nat \ {0} /\ lo \in Nat
  /\ phase \in {"blocks", "merge", "sorted"}
  /\ phase = "blocks" => Multiple(lo, size) /\ lo <= Len(results) /\ calls = {}
  /\ phase = "merge" => Multiple(lo, 2 * size)
  /\ phase = "sorted" => size >= Len(results) /\ calls = {}

SortInv ==
  /\ SortTypes
  /\ CallsIn(calls, Len(results), Borders)
  /\ OrderedIn(results, calls, Borders)

\* Inside the stretches of a pending call the neighbours are in order but where they meet.
LEMMA InsideCall ==
  ASSUME NEW s, NEW C, NEW U, CallsIn(C, Len(s), U), OrderedIn(s, C, U), Len(s) \in Nat,
         NEW c \in C, NEW h \in c.a+1..c.b-1, h # c.m
  PROVE  ~Before(s, h, h - 1)
<1>1. IsCall(c) /\ c.b <= Len(s) /\ h \notin U
  BY DEF CallsIn
<1>2. h \in 1..Len(s)-1
  BY <1>1 DEF IsCall
<1>3. ASSUME NEW d \in C, d.m = h PROVE FALSE
  <2>1. IsCall(d) /\ Apart(c, d)
    BY DEF CallsIn
  <2>2. d # c
    BY <1>3
  <2> QED BY <1>1, <1>3, <2>1, <2>2 DEF IsCall, Apart
<1>4. OrderedAt(s, C, h)
  BY <1>1, <1>2, <1>3 DEF OrderedIn
<1>5. h - 1 \in Below(C, h) /\ h \in Above(C, h)
  BY DEF Below, Above
<1> QED BY <1>4, <1>5 DEF OrderedAt

\* What a call leaves: the calls for its halves in its own range, and there the borders in
\* order, its ends with an element that could already have ended up there.
CallDone(s, c, t, H) ==
  /\ SameOutside(s, c.a, c.b, t)
  /\ \A d \in H : IsCall(d) /\ c.a <= d.a /\ d.b <= c.b
  /\ \A d, e \in H : Apart(d, e)
  /\ \A q \in Above(H, c.a) : t[q+1] \in {s[c.a + 1], s[c.m + 1]}
  /\ \A p \in Below(H, c.b) : t[p+1] \in {s[c.b], s[c.m]}
  /\ \A h \in c.a+1..c.b-1 : (\A d \in H : d.m # h) => OrderedAt(t, H, h)

\* The element that ends up below a border outside the call could do so before.
LEMMA BelowKept ==
  ASSUME NEW s, Len(s) \in Nat, NEW C, NEW U, CallsIn(C, Len(s), U), NEW c \in C,
         NEW t, NEW H, CallDone(s, c, t, H),
         NEW h \in 1..Len(s)-1, h <= c.a \/ h >= c.b, NEW p \in Below((C \ {c}) \cup H, h)
  PROVE  \E o \in Below(C, h) : t[p+1] = s[o+1]
<1>1. IsCall(c) /\ c.b <= Len(s)
  BY DEF CallsIn
<1>2. \A k \in 0..Len(s)-1 : (k < c.a \/ k >= c.b) => t[k+1] = s[k+1]
  BY DEF CallDone, SameOutside
<1>3. CASE p = h - 1
  <2>1. CASE h = c.b
    <3>1. p \in Below(H, c.b)
      BY <1>3, <2>1 DEF Below
    <3>2. t[p+1] \in {s[c.b], s[c.m]}
      BY <3>1 DEF CallDone
    <3>3. c.b - 1 \in Below(C, h) /\ c.m - 1 \in Below(C, h)
      BY <2>1 DEF Below
    <3>4. (c.b - 1) + 1 = c.b /\ (c.m - 1) + 1 = c.m
      BY <1>1 DEF IsCall
    <3> QED BY <3>2, <3>3, <3>4
  <2>2. CASE h # c.b
    <3>1. p \in 0..Len(s)-1 /\ (p < c.a \/ p >= c.b)
      BY <1>1, <1>3, <2>2 DEF IsCall
    <3>2. p \in Below(C, h)
      BY <1>3 DEF Below
    <3> QED BY <1>2, <3>1, <3>2
  <2> QED BY <2>1, <2>2
<1>4. ASSUME NEW d \in C \ {c}, d.b = h, p = d.m - 1 PROVE \E o \in Below(C, h) : t[p+1] = s[o+1]
  <2>1. IsCall(d) /\ d.b <= Len(s) /\ Apart(c, d) /\ d # c
    BY DEF CallsIn
  <2>2. p \in 0..Len(s)-1 /\ (p < c.a \/ p >= c.b)
    BY <1>1, <1>4, <2>1 DEF IsCall, Apart
  <2>3. p \in Below(C, h)
    BY <1>4 DEF Below
  <2> QED BY <1>2, <2>2, <2>3
<1>5. ASSUME NEW d \in H, d.b = h, p = d.m - 1 PROVE \E o \in Below(C, h) : t[p+1] = s[o+1]
  <2>1. IsCall(d) /\ c.a <= d.a /\ d.b <= c.b
    BY DEF CallDone
  <2>2. h = c.b
    BY <1>1, <1>5, <2>1 DEF IsCall
  <2>3. p \in Below(H, c.b)
    BY <1>5, <2>2 DEF Below
  <2>4. t[p+1] \in {s[c.b], s[c.m]}
    BY <2>3 DEF CallDone
  <2>5. c.b - 1 \in Below(C, h) /\ c.m - 1 \in Below(C, h)
    BY <2>2 DEF Below
  <2>6. (c.b - 1) + 1 = c.b /\ (c.m - 1) + 1 = c.m
    BY <1>1 DEF IsCall
  <2> QED BY <2>4, <2>5, <2>6
<1>6. p = h - 1 \/ \E d \in (C \ {c}) \cup H : d.b = h /\ p = d.m - 1
  BY DEF Below
<1> QED BY <1>3, <1>4, <1>5, <1>6

\* The element that ends up above a border outside the call could do so before.
LEMMA AboveKept ==
  ASSUME NEW s, Len(s) \in Nat, NEW C, NEW U, CallsIn(C, Len(s), U), NEW c \in C,
         NEW t, NEW H, CallDone(s, c, t, H),
         NEW h \in 1..Len(s)-1, h <= c.a \/ h >= c.b, NEW p \in Above((C \ {c}) \cup H, h)
  PROVE  \E o \in Above(C, h) : t[p+1] = s[o+1]
<1>1. IsCall(c) /\ c.b <= Len(s)
  BY DEF CallsIn
<1>2. \A k \in 0..Len(s)-1 : (k < c.a \/ k >= c.b) => t[k+1] = s[k+1]
  BY DEF CallDone, SameOutside
<1>3. CASE p = h
  <2>1. CASE h = c.a
    <3>1. p \in Above(H, c.a)
      BY <1>3, <2>1 DEF Above
    <3>2. t[p+1] \in {s[c.a + 1], s[c.m + 1]}
      BY <3>1 DEF CallDone
    <3>3. c.a \in Above(C, h) /\ c.m \in Above(C, h)
      BY <2>1 DEF Above
    <3> QED BY <3>2, <3>3
  <2>2. CASE h # c.a
    <3>1. p \in 0..Len(s)-1 /\ (p < c.a \/ p >= c.b)
      BY <1>1, <1>3, <2>2 DEF IsCall
    <3>2. p \in Above(C, h)
      BY <1>3 DEF Above
    <3> QED BY <1>2, <3>1, <3>2
  <2> QED BY <2>1, <2>2
<1>4. ASSUME NEW d \in C \ {c}, d.a = h, p = d.m PROVE \E o \in Above(C, h) : t[p+1] = s[o+1]
  <2>1. IsCall(d) /\ d.b <= Len(s) /\ Apart(c, d) /\ d # c
    BY DEF CallsIn
  <2>2. p \in 0..Len(s)-1 /\ (p < c.a \/ p >= c.b)
    BY <1>1, <1>4, <2>1 DEF IsCall, Apart
  <2>3. p \in Above(C, h)
    BY <1>4 DEF Above
  <2> QED BY <1>2, <2>2, <2>3
<1>5. ASSUME NEW d \in H, d.a = h, p = d.m PROVE \E o \in Above(C, h) : t[p+1] = s[o+1]
  <2>1. IsCall(d) /\ c.a <= d.a /\ d.b <= c.b
    BY DEF CallDone
  <2>2. h = c.a
    BY <1>1, <1>5, <2>1 DEF IsCall
  <2>3. p \in Above(H, c.a)
    BY <1>5, <2>2 DEF Above
  <2>4. t[p+1] \in {s[c.a + 1], s[c.m + 1]}
    BY <2>3 DEF CallDone
  <2>5. c.a \in Above(C, h) /\ c.m \in Above(C, h)
    BY <2>2 DEF Above
  <2> QED BY <2>4, <2>5
<1>6. p = h \/ \E d \in (C \ {c}) \cup H : d.a = h /\ p = d.m
  BY DEF Above
<1> QED BY <1>3, <1>4, <1>5, <1>6

\* Such a call keeps the invariant.
LEMMA CallKeeps ==
  ASSUME NEW s, Len(s) \in Nat, NEW C, NEW U, CallsIn(C, Len(s), U), OrderedIn(s, C, U),
         NEW c \in C, NEW t, NEW H, CallDone(s, c, t, H)
  PROVE  /\ CallsIn((C \ {c}) \cup H, Len(t), U)
         /\ OrderedIn(t, (C \ {c}) \cup H, U)
<1> DEFINE D == (C \ {c}) \cup H
<1>1. IsCall(c) /\ c.b <= Len(s) /\ \A h \in c.a+1..c.b-1 : h \notin U
  BY DEF CallsIn
<1>2. Len(t) = Len(s)
  BY DEF CallDone, SameOutside
<1>3. ASSUME NEW d \in H
      PROVE  IsCall(d) /\ d.b <= Len(s) /\ \A h \in d.a+1..d.b-1 : h \notin U
  <2>1. IsCall(d) /\ c.a <= d.a /\ d.b <= c.b
    BY DEF CallDone
  <2>2. \A h \in d.a+1..d.b-1 : h \in c.a+1..c.b-1
    BY <1>1, <2>1 DEF IsCall
  <2>3. d.b <= Len(s)
    BY <1>1, <2>1 DEF IsCall
  <2> QED BY <1>1, <2>1, <2>2, <2>3
<1>4. ASSUME NEW d \in H, NEW e \in C \ {c} PROVE Apart(d, e) /\ Apart(e, d)
  <2>1. IsCall(d) /\ c.a <= d.a /\ d.b <= c.b
    BY DEF CallDone
  <2>2. IsCall(e) /\ e # c /\ Apart(c, e)
    BY DEF CallsIn
  <2> QED BY <1>1, <2>1, <2>2 DEF IsCall, Apart
<1>5. CallsIn(D, Len(t), U)
  <2>1. \A d \in C : IsCall(d) /\ d.b <= Len(s) /\ \A h \in d.a+1..d.b-1 : h \notin U
    BY DEF CallsIn
  <2>2. \A d, e \in C : Apart(d, e)
    BY DEF CallsIn
  <2>3. \A d, e \in H : Apart(d, e)
    BY DEF CallDone
  <2> QED BY <1>2, <1>3, <1>4, <2>1, <2>2, <2>3 DEF CallsIn
<1>6. ASSUME NEW h \in 1..Len(s)-1, h \notin U, \A d \in D : d.m # h
      PROVE  OrderedAt(t, D, h)
  <2>1. CASE h \in c.a+1..c.b-1
    <3>1. ASSUME NEW d \in C \ {c} PROVE d.a # h /\ d.b # h
      <4>1. IsCall(d) /\ d # c /\ Apart(c, d)
        BY DEF CallsIn
      <4> QED BY <1>1, <2>1, <4>1 DEF IsCall, Apart
    <3>2. Below(D, h) = Below(H, h) /\ Above(D, h) = Above(H, h)
      BY <3>1 DEF Below, Above
    <3>3. OrderedAt(t, H, h)
      BY <1>6, <2>1 DEF CallDone
    <3> QED BY <3>2, <3>3 DEF OrderedAt
  <2>2. CASE h <= c.a \/ h >= c.b
    <3>1. \A d \in C : d.m # h
      BY <1>1, <1>6, <2>2 DEF IsCall
    <3>2. OrderedAt(s, C, h)
      BY <1>6, <3>1 DEF OrderedIn
    <3>3. ASSUME NEW p \in Below(D, h), NEW q \in Above(D, h) PROVE ~Before(t, q, p)
      <4> HIDE DEF D
      <4>1. PICK o \in Below(C, h) : t[p+1] = s[o+1]
        BY <2>2, BelowKept DEF D
      <4>2. PICK u \in Above(C, h) : t[q+1] = s[u+1]
        BY <2>2, AboveKept DEF D
      <4>3. ~Before(s, u, o)
        BY <3>2 DEF OrderedAt
      <4> QED BY <4>1, <4>2, <4>3 DEF Before
    <3> QED BY <3>3 DEF OrderedAt
  <2> QED BY <1>1, <2>1, <2>2 DEF IsCall
<1>7. OrderedIn(t, D, U)
  BY <1>2, <1>6 DEF OrderedIn
<1> QED BY <1>5, <1>7

\* One element on the left: it ends up in order with both its neighbours.
LEMMA FirstDone ==
  ASSUME NEW s \in Seq(Result), NEW C, NEW U, CallsIn(C, Len(s), U), OrderedIn(s, C, U),
         NEW c \in C, c.m - c.a = 1,
         NEW cut, IsCut(c.m, c.b, {h \in c.m..c.b-1 : Before(s, h, c.a)}, cut),
         NEW t, IsRotation(s, c.a, c.m, cut, t)
  PROVE  CallDone(s, c, t, {})
<1> DEFINE a == c.a
           m == c.m
           b == c.b
           n == Len(s)
<1>1. /\ n \in Nat /\ a \in Nat /\ m \in Nat /\ b \in Nat
      /\ m = a + 1 /\ m < b /\ b <= n
  BY DEF CallsIn, IsCall
<1>2. cut \in m..b
  BY DEF IsCut
<1>3. cut = m \/ Before(s, cut - 1, a)
  BY DEF IsCut
<1>4. cut = b \/ ~Before(s, cut, a)
  BY <1>1, <1>2 DEF IsCut
<1>5. \A h \in a+1..b-1 : h # m => ~Before(s, h, h - 1)
  BY <1>1, InsideCall
<1>6. Len(t) = n /\ \A k \in 0..n-1 : t[k+1] = s[SourceOf(a, m, cut, k) + 1]
  BY DEF IsRotation
<1>7. \A k \in 1..n : s[k] \in Result
  OBVIOUS
<1> HIDE DEF a, m, b, n
<1>8. /\ \A k \in 0..n-1 : (k < a \/ k >= cut) => t[k+1] = s[k+1]
      /\ \A k \in a..cut-2 : t[k+1] = s[k+2]
      /\ t[cut] = s[m]
  <2>1. ASSUME NEW k \in 0..n-1, k < a \/ k >= cut PROVE t[k+1] = s[k+1]
    <3>1. SourceOf(a, m, cut, k) = k
      BY <1>1, <1>2, <2>1 DEF SourceOf
    <3> QED BY <1>6, <3>1
  <2>2. ASSUME NEW k \in a..cut-2 PROVE t[k+1] = s[k+2]
    <3>1. k \in 0..n-1 /\ SourceOf(a, m, cut, k) + 1 = k + 2
      BY <1>1, <1>2, <2>2 DEF SourceOf
    <3> QED BY <1>6, <3>1
  <2>3. t[cut] = s[m]
    <3>1. cut - 1 \in 0..n-1 /\ (cut - 1) + 1 = cut /\ SourceOf(a, m, cut, cut - 1) + 1 = m
      BY <1>1, <1>2 DEF SourceOf
    <3> QED BY <1>6, <3>1
  <2> QED BY <2>1, <2>2, <2>3
<1>9. ASSUME NEW h \in a+1..b-1 PROVE ~Before(t, h, h - 1)
  <2>1. CASE h < cut - 1
    <3>1. /\ h \in a..cut-2 /\ h - 1 \in a..cut-2 /\ (h - 1) + 1 = h /\ (h - 1) + 2 = h + 1
          /\ h + 1 \in a+1..b-1 /\ h + 1 # m /\ (h + 1) + 1 = h + 2 /\ (h + 1) - 1 = h
      BY <1>1, <1>2, <2>1
    <3>2. t[h+1] = s[h+2] /\ t[h] = s[h+1]
      BY <1>8, <3>1
    <3>3. ~Before(s, h + 1, h)
      BY <1>5, <3>1
    <3> QED BY <3>1, <3>2, <3>3 DEF Before
  <2>2. CASE h = cut - 1
    <3>1. /\ h - 1 \in a..cut-2 /\ (h - 1) + 1 = h /\ (h - 1) + 2 = cut /\ cut # m /\ h + 1 = cut
          /\ (cut - 1) + 1 = cut /\ a + 1 = m /\ cut \in 1..n /\ m \in 1..n
      BY <1>1, <1>2, <2>2
    <3>2. t[h+1] = s[m] /\ t[h] = s[cut]
      BY <1>8, <3>1
    <3>3. Less(s[cut], s[m])
      BY <1>3, <3>1 DEF Before
    <3> QED BY <1>7, <3>1, <3>2, <3>3, LessAsymmetric DEF Before
  <2>3. CASE h = cut
    <3>1. h \in 0..n-1 /\ h >= cut /\ (h - 1) + 1 = h /\ a + 1 = m /\ cut # b
      BY <1>1, <1>2, <2>3
    <3>2. t[h+1] = s[h+1] /\ t[h] = s[m]
      BY <1>8, <2>3, <3>1
    <3>3. ~Less(s[cut+1], s[m])
      BY <1>4, <3>1 DEF Before
    <3> QED BY <2>3, <3>1, <3>2, <3>3 DEF Before
  <2>4. CASE h > cut
    <3>1. h \in 0..n-1 /\ h - 1 \in 0..n-1 /\ h - 1 >= cut /\ h >= cut /\ (h - 1) + 1 = h /\ h # m
      BY <1>1, <1>2, <2>4
    <3>2. t[h+1] = s[h+1] /\ t[h] = s[h]
      BY <1>8, <3>1
    <3>3. ~Before(s, h, h - 1)
      BY <1>5, <3>1
    <3> QED BY <3>1, <3>2, <3>3 DEF Before
  <2> QED BY <1>1, <1>2, <2>1, <2>2, <2>3, <2>4
<1>10. t[a+1] \in {s[a+1], s[m+1]}
  <2>1. CASE cut = m
    <3>1. a + 1 = cut
      BY <1>1, <2>1
    <3> QED BY <1>8, <2>1, <3>1
  <2>2. CASE cut # m
    <3>1. a \in a..cut-2 /\ a + 2 = m + 1
      BY <1>1, <1>2, <2>2
    <3> QED BY <1>8, <3>1
  <2> QED BY <2>1, <2>2
<1>11. t[b] \in {s[b], s[m]}
  <2>1. CASE cut = b
    BY <1>8, <2>1
  <2>2. CASE cut # b
    <3>1. b - 1 \in 0..n-1 /\ b - 1 >= cut /\ (b - 1) + 1 = b
      BY <1>1, <1>2, <2>2
    <3> QED BY <1>8, <3>1
  <2> QED BY <2>1, <2>2
<1>12. SameOutside(s, a, b, t)
  <2>1. \A k \in 0..n-1 : k >= b => k >= cut
    BY <1>1, <1>2
  <2> QED BY <1>6, <1>8, <2>1 DEF SameOutside, n
<1>13. /\ \A h : Below({}, h) = {h - 1} /\ Above({}, h) = {h}
       /\ (b - 1) + 1 = b
  BY <1>1 DEF Below, Above
<1>14. \A h \in a+1..b-1 : OrderedAt(t, {}, h)
  BY <1>9, <1>13 DEF OrderedAt
<1> QED BY <1>10, <1>11, <1>12, <1>13, <1>14 DEF CallDone, a, b, m

\* One element on the right: the same.
LEMMA LastDone ==
  ASSUME NEW s \in Seq(Result), NEW C, NEW U, CallsIn(C, Len(s), U), OrderedIn(s, C, U),
         NEW c \in C, c.b - c.m = 1,
         NEW cut, IsCut(c.a, c.m, {h \in c.a..c.m-1 : ~Before(s, c.m, h)}, cut),
         NEW t, IsRotation(s, cut, c.m, c.b, t)
  PROVE  CallDone(s, c, t, {})
<1> DEFINE a == c.a
           m == c.m
           b == c.b
           n == Len(s)
<1>1. /\ n \in Nat /\ a \in Nat /\ m \in Nat /\ b \in Nat
      /\ b = m + 1 /\ a < m /\ b <= n
  BY DEF CallsIn, IsCall
<1>2. cut \in a..m
  BY DEF IsCut
<1>3. cut = a \/ ~Before(s, m, cut - 1)
  BY DEF IsCut
<1>4. cut = m \/ Before(s, m, cut)
  BY <1>1, <1>2 DEF IsCut
<1>5. \A h \in a+1..b-1 : h # m => ~Before(s, h, h - 1)
  BY <1>1, InsideCall
<1>6. Len(t) = n /\ \A k \in 0..n-1 : t[k+1] = s[SourceOf(cut, m, b, k) + 1]
  BY DEF IsRotation
<1>7. \A k \in 1..n : s[k] \in Result
  OBVIOUS
<1> HIDE DEF a, m, b, n
<1>8. /\ \A k \in 0..n-1 : (k < cut \/ k >= b) => t[k+1] = s[k+1]
      /\ \A k \in cut+1..m : t[k+1] = s[k]
      /\ t[cut+1] = s[b]
  <2>1. ASSUME NEW k \in 0..n-1, k < cut \/ k >= b PROVE t[k+1] = s[k+1]
    <3>1. SourceOf(cut, m, b, k) = k
      BY <1>1, <1>2, <2>1 DEF SourceOf
    <3> QED BY <1>6, <3>1
  <2>2. ASSUME NEW k \in cut+1..m PROVE t[k+1] = s[k]
    <3>1. k \in 0..n-1 /\ SourceOf(cut, m, b, k) + 1 = k
      BY <1>1, <1>2, <2>2 DEF SourceOf
    <3> QED BY <1>6, <3>1
  <2>3. t[cut+1] = s[b]
    <3>1. cut \in 0..n-1 /\ SourceOf(cut, m, b, cut) + 1 = b
      BY <1>1, <1>2 DEF SourceOf
    <3> QED BY <1>6, <3>1
  <2> QED BY <2>1, <2>2, <2>3
<1>9. ASSUME NEW h \in a+1..b-1 PROVE ~Before(t, h, h - 1)
  <2>1. CASE h < cut
    <3>1. h \in 0..n-1 /\ h - 1 \in 0..n-1 /\ h - 1 < cut /\ (h - 1) + 1 = h /\ h # m
      BY <1>1, <1>2, <2>1
    <3>2. t[h+1] = s[h+1] /\ t[h] = s[h]
      BY <1>8, <2>1, <3>1
    <3>3. ~Before(s, h, h - 1)
      BY <1>5, <3>1
    <3> QED BY <3>1, <3>2, <3>3 DEF Before
  <2>2. CASE h = cut
    <3>1. h - 1 \in 0..n-1 /\ h - 1 < cut /\ (h - 1) + 1 = h /\ (cut - 1) + 1 = cut /\ m + 1 = b /\ cut # a
      BY <1>1, <1>2, <2>2
    <3>2. t[h+1] = s[b] /\ t[h] = s[h]
      BY <1>8, <2>2, <3>1
    <3>3. ~Less(s[b], s[cut])
      BY <1>3, <3>1 DEF Before
    <3> QED BY <2>2, <3>1, <3>2, <3>3 DEF Before
  <2>3. CASE h = cut + 1
    <3>1. /\ h \in cut+1..m /\ (h - 1) + 1 = cut + 1 /\ h = cut + 1 /\ cut # m /\ m + 1 = b
          /\ cut + 1 \in 1..n /\ b \in 1..n
      BY <1>1, <1>2, <2>3
    <3>2. t[h+1] = s[cut+1] /\ t[cut+1] = s[b]
      BY <1>8, <3>1
    <3>3. Less(s[b], s[cut+1])
      BY <1>4, <3>1 DEF Before
    <3> QED BY <1>7, <3>1, <3>2, <3>3, LessAsymmetric DEF Before
  <2>4. CASE h > cut + 1
    <3>1. /\ h \in cut+1..m /\ h - 1 \in cut+1..m /\ (h - 1) + 1 = h
          /\ h - 1 \in a+1..b-1 /\ h - 1 # m /\ ((h - 1) - 1) + 1 = h - 1
      BY <1>1, <1>2, <2>4
    <3>2. t[h+1] = s[h] /\ t[h] = s[h-1]
      BY <1>8, <3>1
    <3>3. ~Before(s, h - 1, (h - 1) - 1)
      BY <1>5, <3>1
    <3> QED BY <3>1, <3>2, <3>3 DEF Before
  <2> QED BY <1>1, <1>2, <2>1, <2>2, <2>3, <2>4
<1>10. t[a+1] \in {s[a+1], s[m+1]}
  <2>1. CASE cut = a
    BY <1>1, <1>8, <2>1
  <2>2. CASE cut # a
    <3>1. a \in 0..n-1 /\ a < cut
      BY <1>1, <1>2, <2>2
    <3> QED BY <1>8, <3>1
  <2> QED BY <2>1, <2>2
<1>11. t[b] \in {s[b], s[m]}
  <2>1. CASE cut = m
    BY <1>1, <1>8, <2>1
  <2>2. CASE cut # m
    <3>1. m \in cut+1..m /\ m + 1 = b
      BY <1>1, <1>2, <2>2
    <3> QED BY <1>8, <3>1
  <2> QED BY <2>1, <2>2
<1>12. SameOutside(s, a, b, t)
  <2>1. \A k \in 0..n-1 : k < a => k < cut
    BY <1>1, <1>2
  <2> QED BY <1>6, <1>8, <2>1 DEF SameOutside, n
<1>13. /\ \A h : Below({}, h) = {h - 1} /\ Above({}, h) = {h}
       /\ (b - 1) + 1 = b
  BY <1>1 DEF Below, Above
<1>14. \A h \in a+1..b-1 : OrderedAt(t, {}, h)
  BY <1>9, <1>13 DEF OrderedAt
<1>15. /\ \A q \in Above({}, a) : t[q+1] \in {s[a+1], s[m+1]}
       /\ \A p \in Below({}, b) : t[p+1] \in {s[b], s[m]}
  <2>1. \A p \in Below({}, b) : p + 1 = b
    BY <1>1, <1>13
  <2> QED BY <1>10, <1>11, <1>13, <2>1
<1> QED BY <1>12, <1>14, <1>15 DEF CallDone, a, b, m

\* The end of the range that starts at start and changes places around the middle of c.
EndOf(c, start) == MidOf(c) + c.m - start

\* The range a call turns around the middle of its own.
IsTurn(s, c, start) ==
  LET half == MidOf(c)
      end  == EndOf(c, start)
  IN /\ half \in c.a+1..c.b-1
     /\ start \in Nat /\ c.a <= start /\ start <= c.m /\ start <= half
     /\ half <= end /\ c.m <= end /\ end <= c.b
     /\ c.a < start /\ end < c.b => ~Before(s, end, start - 1)
     /\ start < half /\ start < c.m => Before(s, end - 1, start)

\* The cut of the two stretches is where the comparator sends its two sides.
LEMMA StartFacts ==
  ASSUME NEW c \in calls, IsCall(c), Len(results) \in Nat, c.b <= Len(results)
  PROVE  IsTurn(results, c, StartOf(c))
<1> DEFINE a == c.a
           m == c.m
           b == c.b
           half == MidOf(c)
           n == half + m
           left == IF m > half THEN n - b ELSE a
           right == IF m > half THEN half ELSE m
           R == {h \in left..right-1 : ~Before(results, n - 1 - h, h)}
           start == StartOf(c)
           end == half + m - start
<1>1. a \in Nat /\ m \in Nat /\ b \in Nat /\ a < m /\ m < b
  BY DEF IsCall
<1>2. half = (a + b) \div 2
  BY DEF MidOf
<1>3. start = Cut(left, right, R)
  BY DEF StartOf
<1> HIDE DEF a, m, b, half, start, R
<1>4. half \in Nat /\ a < half /\ half < b /\ 2 * half <= a + b /\ a + b <= 2 * half + 1
  BY <1>1, <1>2
<1>5. left \in Nat /\ right \in Nat /\ a <= left /\ left <= right /\ right <= m /\ right <= half
  BY <1>1, <1>4
<1>6. IsCut(left, right, R, start)
  <2> HIDE DEF left, right
  <2> QED BY <1>3, <1>5, CutFacts
<1>7. start \in left..right
  BY <1>6 DEF IsCut
<1>8. start \in Nat /\ a <= start /\ start <= m /\ start <= half
  <2> HIDE DEF left, right
  <2> QED BY <1>1, <1>4, <1>5, <1>7
<1>9. half <= end /\ m <= end
  BY <1>1, <1>4, <1>8
<1>10. end <= b
  <2>1. CASE m > half
    BY <1>1, <1>4, <1>7, <2>1
  <2>2. CASE ~(m > half)
    BY <1>1, <1>4, <1>8, <2>2
  <2> QED BY <2>1, <2>2
<1>11. ASSUME a < start, end < b PROVE ~Before(results, end, start - 1)
  <2>1. start # left
    BY <1>1, <1>4, <1>8, <1>11
  <2>2. start - 1 \in R
    <3> HIDE DEF left, right
    <3> QED BY <1>6, <2>1 DEF IsCut
  <2>3. n - 1 - (start - 1) = end
    BY <1>1, <1>4, <1>8
  <2>4. ~Before(results, n - 1 - (start - 1), start - 1)
    <3> HIDE DEF left, right, n
    <3> QED BY <2>2 DEF R
  <2> QED BY <2>3, <2>4
<1>12. ASSUME start < half, start < m PROVE Before(results, end - 1, start)
  <2>1. start # right
    BY <1>12, <1>1, <1>4, <1>8
  <2>2. start \notin R
    <3> HIDE DEF left, right
    <3> QED BY <1>6, <2>1 DEF IsCut
  <2>3. start \in left..right-1
    <3> HIDE DEF left, right
    <3> QED BY <1>5, <1>7, <2>1
  <2>4. Before(results, n - 1 - start, start)
    <3> HIDE DEF left, right, n
    <3> QED BY <2>2, <2>3 DEF R
  <2>5. n - 1 - start = end - 1
    BY <1>1, <1>4, <1>8
  <2> QED BY <2>4, <2>5
<1>13. half \in a+1..b-1
  BY <1>1, <1>4
<1> HIDE DEF end, n, left, right
<1>14. IsTurn(results, c, start)
  BY <1>8, <1>9, <1>10, <1>11, <1>12, <1>13 DEF IsTurn, EndOf, a, b, m, half, end
<1> QED BY <1>14 DEF start

\* t is s with the elements of start..m-1 and m..end-1 on the other side of half.
Turned(s, start, m, half, end, t) ==
  /\ Len(t) = Len(s)
  /\ \A k \in 0..Len(s)-1 : (k < start \/ k >= end) => t[k+1] = s[k+1]
  /\ \A k \in start..half-1 : t[k+1] = s[k + (m - start) + 1]
  /\ \A k \in half..end-1 : t[k+1] = s[k - (half - start) + 1]

\* Turning s[start..m) and s[m..end) is a rotation, which moves nothing when one of them is
\* empty; each half of the call is then what was on either side of its cut.
LEMMA TurnedFacts ==
  ASSUME NEW s, Len(s) \in Nat, NEW a \in Nat, NEW m \in Nat, NEW b \in Nat, b <= Len(s),
         NEW start \in Nat, NEW half \in Nat, NEW end \in Nat, NEW t,
         a <= start, start <= m, start <= half, half <= end, m <= end, end <= b,
         start + end = half + m,
         \/ IsRotation(s, start, m, end, t)
         \/ t = s /\ (start = m \/ m = end)
  PROVE  Turned(s, start, m, half, end, t)
<1> DEFINE n == Len(s)
           R(k) == SourceOf(start, m, end, k)
<1>1. n \in Nat
  OBVIOUS
<1> HIDE DEF n
<1>2. start + end - m = half /\ end - m = half - start
  OBVIOUS
<1>3. Len(t) = n /\ \A k \in 0..n-1 : t[k+1] = s[R(k) + 1]
  <2>1. CASE IsRotation(s, start, m, end, t)
    BY <2>1 DEF IsRotation, n
  <2>2. CASE t = s /\ (start = m \/ m = end)
    <3>1. \A k \in 0..n-1 : R(k) = k
      BY <1>1, <2>2 DEF SourceOf
    <3> QED BY <2>2, <3>1 DEF n
  <2> QED BY <2>1, <2>2
<1>4. \A k \in 0..n-1 : (k < start \/ k >= end) => R(k) = k
  BY <1>1 DEF SourceOf
<1>5. \A k \in start..half-1 : k \in 0..n-1 /\ R(k) = k + (m - start)
  BY <1>1, <1>2 DEF SourceOf, n
<1>6. \A k \in half..end-1 : k \in 0..n-1 /\ R(k) = k - (half - start)
  BY <1>1, <1>2 DEF SourceOf, n
<1> HIDE DEF R
<1>7. \A k \in 0..n-1 : (k < start \/ k >= end) => t[k+1] = s[k+1]
  BY <1>3, <1>4
<1>8. \A k \in start..half-1 : t[k+1] = s[k + (m - start) + 1]
  <2>1. ASSUME NEW k \in start..half-1 PROVE t[k+1] = s[k + (m - start) + 1]
    <3>1. k \in 0..n-1 /\ R(k) = k + (m - start)
      BY <1>5
    <3>2. t[k+1] = s[R(k) + 1]
      BY <1>3, <3>1
    <3> QED BY <3>1, <3>2, Zenon
  <2> QED BY <2>1
<1>9. \A k \in half..end-1 : t[k+1] = s[k - (half - start) + 1]
  <2>1. ASSUME NEW k \in half..end-1 PROVE t[k+1] = s[k - (half - start) + 1]
    <3>1. k \in 0..n-1 /\ R(k) = k - (half - start)
      BY <1>6
    <3>2. t[k+1] = s[R(k) + 1]
      BY <1>3, <3>1
    <3> QED BY <3>1, <3>2, Zenon
  <2> QED BY <2>1
<1> QED BY <1>3, <1>7, <1>8, <1>9 DEF n, Turned

\* H are the calls left to make on the two sides of the middle of c.
AreHalves(c, start, end, H) ==
  /\ \A d \in H : /\ d.a < d.m /\ d.m < d.b
                 /\ \/ d.a = c.a /\ d.m = start /\ d.b = MidOf(c)
                    \/ d.a = MidOf(c) /\ d.m = end /\ d.b = c.b
  /\ \A d, e \in H : d = e \/ d.b = e.a \/ e.b = d.a
  /\ c.a < start /\ start < MidOf(c) => \E d \in H : d.m = start
  /\ MidOf(c) < end /\ end < c.b => \E d \in H : d.m = end

\* The calls for the halves of a call.
LEMMA HalvesFacts ==
  ASSUME NEW c, NEW start, NEW end
  PROVE  AreHalves(c, start, end, HalvesOf(c, start, end))
<1> DEFINE l == [a |-> c.a, m |-> start, b |-> MidOf(c)]
           r == [a |-> MidOf(c), m |-> end, b |-> c.b]
           H == HalvesOf(c, start, end)
<1>1. H = {d \in {l, r} : d.a < d.m /\ d.m < d.b}
  BY DEF HalvesOf
<1>2. /\ l.a = c.a /\ l.m = start /\ l.b = MidOf(c)
      /\ r.a = MidOf(c) /\ r.m = end /\ r.b = c.b
  OBVIOUS
<1> HIDE DEF l, r, H
<1>3. \A d \in H : (d = l \/ d = r) /\ d.a < d.m /\ d.m < d.b
  BY <1>1
<1>4. (l.a < l.m /\ l.m < l.b => l \in H) /\ (r.a < r.m /\ r.m < r.b => r \in H)
  BY <1>1
<1> QED BY <1>2, <1>3, <1>4 DEF H, AreHalves

\* A call that turns a range around its middle: the two stretches it leaves in each half
\* are in order, and so are the halves where they meet, whatever becomes of the stretches.
LEMMA TurnDone ==
  ASSUME NEW s \in Seq(Result), NEW C, NEW U, CallsIn(C, Len(s), U), OrderedIn(s, C, U),
         NEW c \in C, NEW start, IsTurn(s, c, start),
         NEW end, end = EndOf(c, start),
         NEW t, IsRotation(s, start, c.m, end, t) \/ (t = s /\ (start = c.m \/ c.m = end))
  PROVE  CallDone(s, c, t, HalvesOf(c, start, end))
<1> DEFINE a == c.a
           m == c.m
           b == c.b
           n == Len(s)
           half == MidOf(c)
           H == HalvesOf(c, start, end)
<1>1. /\ n \in Nat /\ a \in Nat /\ m \in Nat /\ b \in Nat /\ half \in Nat
      /\ a < m /\ m < b /\ b <= n /\ a < half /\ half < b
  <2>1. IsCall(c) /\ c.b <= Len(s) /\ half \in a+1..b-1
    BY DEF CallsIn, IsTurn
  <2> QED BY <2>1 DEF IsCall
<1>2. /\ start \in Nat /\ a <= start /\ start <= m /\ start <= half
      /\ half <= end /\ m <= end /\ end <= b
  BY DEF IsTurn
<1>3. end \in Nat /\ start + end = half + m
  <2>1. end = half + m - start
    BY DEF EndOf
  <2> HIDE DEF m, half
  <2> QED BY <1>1, <1>2, <2>1
<1>4. a < start /\ end < b => ~Before(s, end, start - 1)
  BY DEF IsTurn
<1>5. start < half /\ start < m => Before(s, end - 1, start)
  BY DEF IsTurn
<1>6. \A h \in a+1..b-1 : h # m => ~Before(s, h, h - 1)
  BY <1>1, InsideCall
<1>7. /\ \A d \in H : /\ d.a < d.m /\ d.m < d.b
                      /\ \/ d.a = a /\ d.m = start /\ d.b = half
                         \/ d.a = half /\ d.m = end /\ d.b = b
      /\ \A d, e \in H : d = e \/ d.b = e.a \/ e.b = d.a
      /\ a < start /\ start < half => \E d \in H : d.m = start
      /\ half < end /\ end < b => \E d \in H : d.m = end
  <2>1. AreHalves(c, start, end, H)
    BY HalvesFacts
  <2> HIDE DEF H, half
  <2> QED BY <2>1 DEF AreHalves, half
<1>8. \A k \in 1..n : s[k] \in Result
  OBVIOUS
<1>9. \/ IsRotation(s, start, m, end, t)
      \/ t = s /\ (start = m \/ m = end)
  OBVIOUS
<1> HIDE DEF a, m, b, half, H
<1>10. /\ Len(t) = n
       /\ \A k \in 0..n-1 : (k < start \/ k >= end) => t[k+1] = s[k+1]
       /\ \A k \in start..half-1 : t[k+1] = s[k + (m - start) + 1]
       /\ \A k \in half..end-1 : t[k+1] = s[k - (half - start) + 1]
  <2>1. Len(s) \in Nat /\ b <= Len(s)
    BY <1>1
  <2>2. Turned(s, start, m, half, end, t)
    BY <1>1, <1>2, <1>3, <1>9, <2>1, TurnedFacts
  <2> QED BY <2>2 DEF Turned, n
<1> HIDE DEF n
<1>11. /\ \A d \in H : IsCall(d) /\ a <= d.a /\ d.b <= b
       /\ \A d, e \in H : Apart(d, e)
  <2>1. ASSUME NEW d \in H PROVE IsCall(d) /\ a <= d.a /\ d.b <= b
    <3>1. d.a < d.m /\ d.m < d.b
      BY <1>7
    <3>2. CASE d.a = a /\ d.m = start /\ d.b = half
      BY <1>1, <1>2, <3>1, <3>2 DEF IsCall
    <3>3. CASE d.a = half /\ d.m = end /\ d.b = b
      BY <1>1, <1>2, <1>3, <3>1, <3>3 DEF IsCall
    <3> QED BY <1>7, <3>2, <3>3
  <2>2. \A d, e \in H : Apart(d, e)
    BY <1>7, <2>1 DEF Apart, IsCall
  <2> QED BY <2>1, <2>2
\* Where the halves meet: what is in front of the middle, and what is behind it.
<1>12. ASSUME NEW p \in Below(H, half)
       PROVE  \/ start < half /\ t[p+1] = s[end]
              \/ (a < start \/ start = half) /\ t[p+1] = s[start]
  <2>1. CASE p = half - 1
    <3>1. CASE start < half
      <4>1. half - 1 \in start..half-1 /\ (half - 1) + (m - start) + 1 = end
        BY <1>1, <1>2, <1>3, <3>1
      <4> QED BY <1>10, <2>1, <3>1, <4>1
    <3>2. CASE start = half
      <4>1. half - 1 \in 0..n-1 /\ half - 1 < start /\ (half - 1) + 1 = start
        BY <1>1, <1>2, <3>2
      <4> QED BY <1>10, <2>1, <3>2, <4>1
    <3> QED BY <1>1, <1>2, <3>1, <3>2
  <2>2. ASSUME NEW d \in H, d.b = half, p = d.m - 1
        PROVE  a < start /\ t[p+1] = s[start]
    <3>1. d.m = start /\ a < start
      BY <1>1, <1>7, <2>2
    <3>2. p \in 0..n-1 /\ p < start /\ p + 1 = start
      BY <1>1, <1>2, <2>2, <3>1
    <3> QED BY <1>10, <3>1, <3>2
  <2> QED BY <2>1, <2>2 DEF Below
<1>13. ASSUME NEW q \in Above(H, half)
       PROVE  \/ half < end /\ t[q+1] = s[start+1]
              \/ end < b /\ t[q+1] = s[end+1]
  <2>1. CASE q = half
    <3>1. CASE half < end
      <4>1. half \in half..end-1 /\ half - (half - start) + 1 = start + 1
        BY <1>1, <1>2, <1>3, <3>1
      <4> QED BY <1>10, <2>1, <3>1, <4>1
    <3>2. CASE half = end
      <4>1. half \in 0..n-1 /\ half >= end /\ end < b
        BY <1>1, <1>2, <3>2
      <4> QED BY <1>10, <2>1, <3>2, <4>1
    <3> QED BY <1>1, <1>2, <1>3, <3>1, <3>2
  <2>2. ASSUME NEW d \in H, d.a = half, q = d.m
        PROVE  end < b /\ t[q+1] = s[end+1]
    <3>1. d.m = end /\ end < b
      BY <1>1, <1>7, <2>2
    <3>2. q \in 0..n-1 /\ q >= end
      BY <1>1, <1>2, <1>3, <2>2, <3>1
    <3> QED BY <1>10, <2>2, <3>1, <3>2
  <2> QED BY <2>1, <2>2 DEF Above
<1>14. OrderedAt(t, H, half)
  <2>1. ASSUME NEW p \in Below(H, half), NEW q \in Above(H, half) PROVE ~Before(t, q, p)
    <3>1. CASE start < half /\ t[p+1] = s[end] /\ half < end /\ t[q+1] = s[start+1]
      <4>3. start < m /\ (end - 1) + 1 = end
        BY <1>1, <1>2, <1>3, <3>1
      <4>4. end \in 1..n
        BY <1>1, <1>2, <1>3, <3>1
      <4>5. start + 1 \in 1..n
        BY <1>1, <1>2, <4>3
      <4>1. start < m /\ (end - 1) + 1 = end /\ end \in 1..n /\ start + 1 \in 1..n
        BY <4>3, <4>4, <4>5
      <4>2. Less(s[end], s[start+1])
        BY <1>5, <3>1, <4>1 DEF Before
      <4> QED BY <1>8, <3>1, <4>1, <4>2, LessAsymmetric DEF Before, n
    <3>2. CASE start < half /\ t[p+1] = s[end] /\ end < b /\ t[q+1] = s[end+1]
      <4>2. end # m
        BY <1>1, <1>2, <1>3, <3>2
      <4>3. end \in a+1..b-1
        BY <1>1, <1>2, <1>3, <3>2
      <4>1. end \in a+1..b-1 /\ end # m /\ (end - 1) + 1 = end
        BY <1>3, <4>2, <4>3
      <4> QED BY <1>6, <3>2, <4>1 DEF Before
    <3>3. CASE /\ a < start \/ start = half
               /\ t[p+1] = s[start] /\ half < end /\ t[q+1] = s[start+1]
      <4>1. start \in a+1..b-1 /\ start # m /\ (start - 1) + 1 = start
        BY <1>1, <1>2, <1>3, <3>3
      <4> QED BY <1>6, <3>3, <4>1 DEF Before
    <3>4. CASE /\ a < start \/ start = half
               /\ t[p+1] = s[start] /\ end < b /\ t[q+1] = s[end+1]
      <4>1. a < start /\ (start - 1) + 1 = start
        BY <1>1, <1>2, <3>4
      <4> QED BY <1>4, <3>4, <4>1 DEF Before
    <3> QED BY <1>12, <1>13, <3>1, <3>2, <3>3, <3>4
  <2> QED BY <2>1 DEF OrderedAt
\* Elsewhere a border is one of the stretches', moved or not.
<1>15. ASSUME NEW h \in a+1..b-1, h # half, \A d \in H : d.m # h
       PROVE  ~Before(t, h, h - 1)
  <2>1. ASSUME h < start PROVE ~Before(t, h, h - 1)
    <3>1. h \in 0..n-1 /\ h - 1 \in 0..n-1 /\ h - 1 < start /\ (h - 1) + 1 = h /\ h # m
      BY <1>1, <1>2, <2>1
    <3>2. t[h+1] = s[h+1] /\ t[h] = s[h]
      BY <1>10, <2>1, <3>1
    <3> QED BY <1>6, <3>1, <3>2 DEF Before
  <2>2. ASSUME start < h, h < half PROVE ~Before(t, h, h - 1)
    <3> DEFINE k == h + (m - start)
    <3>1. /\ h \in start..half-1 /\ h - 1 \in start..half-1 /\ (h - 1) + 1 = h
          /\ k \in a+1..b-1 /\ k # m /\ (h - 1) + (m - start) + 1 = k /\ (k - 1) + 1 = k
      BY <1>1, <1>2, <1>3, <2>2
    <3>2. t[h+1] = s[k+1]
      BY <1>10, <3>1
    <3>3. t[h] = s[k]
      <4> HIDE DEF k
      <4> QED BY <1>10, <3>1
    <3> HIDE DEF k
    <3> QED BY <1>6, <3>1, <3>2, <3>3 DEF Before
  <2>3. ASSUME half < h, h < end PROVE ~Before(t, h, h - 1)
    <3> DEFINE k == h - (half - start)
    <3>1. /\ h \in half..end-1 /\ h - 1 \in half..end-1 /\ (h - 1) + 1 = h
          /\ k \in a+1..b-1 /\ k # m /\ (h - 1) - (half - start) + 1 = k /\ (k - 1) + 1 = k
      BY <1>1, <1>2, <1>3, <2>3
    <3>2. t[h+1] = s[k+1]
      BY <1>10, <3>1
    <3>3. t[h] = s[k]
      <4> HIDE DEF k
      <4> QED BY <1>10, <3>1
    <3> HIDE DEF k
    <3> QED BY <1>6, <3>1, <3>2, <3>3 DEF Before
  <2>4. ASSUME end < h PROVE ~Before(t, h, h - 1)
    <3>3. h \in Nat /\ h < n /\ h - 1 >= end /\ h >= end /\ end \in Nat /\ h # m
      BY <1>1, <1>2, <1>3, <2>4
    <3>1. /\ h \in 0..n-1 /\ h - 1 \in 0..n-1 /\ h - 1 >= end /\ h >= end
          /\ (h - 1) + 1 = h /\ h # m
      BY <1>1, <3>3
    <3>2. t[h+1] = s[h+1] /\ t[h] = s[h]
      BY <1>10, <3>1
    <3> QED BY <1>6, <3>1, <3>2 DEF Before
  <2>5. h # start \/ start = half
    BY <1>1, <1>2, <1>7, <1>15
  <2>6. h # end \/ end = half
    BY <1>1, <1>2, <1>3, <1>7, <1>15
  <2> QED BY <1>1, <1>2, <1>3, <1>15, <2>1, <2>2, <2>3, <2>4, <2>5, <2>6
<1>16. ASSUME NEW h \in a+1..b-1, \A d \in H : d.m # h PROVE OrderedAt(t, H, h)
  <2>1. CASE h = half
    BY <1>14, <2>1
  <2>2. CASE h # half
    <3>1. \A d \in H : d.a # h /\ d.b # h
      BY <1>1, <1>7, <2>2
    <3>2. Below(H, h) = {h - 1} /\ Above(H, h) = {h}
      BY <3>1 DEF Below, Above
    <3> QED BY <1>15, <1>16, <2>2, <3>2 DEF OrderedAt
  <2> QED BY <2>1, <2>2
<1>17. ASSUME NEW q \in Above(H, a) PROVE t[q+1] \in {s[a+1], s[m+1]}
  <2>1. CASE q = a
    <3>1. CASE a < start
      <4>1. a \in 0..n-1
        BY <1>1
      <4> QED BY <1>10, <2>1, <3>1, <4>1
    <3>2. CASE a = start
      <4>1. a \in start..half-1 /\ a + (m - start) + 1 = m + 1
        BY <1>1, <1>2, <3>2
      <4> QED BY <1>10, <2>1, <4>1
    <3> QED BY <1>1, <1>2, <3>1, <3>2
  <2>2. ASSUME NEW d \in H, d.a = a, q = d.m PROVE t[q+1] = s[m+1]
    <3>1. d.m = start /\ d.b = half /\ start < half
      BY <1>1, <1>7, <2>2
    <3>2. q \in start..half-1 /\ q + (m - start) + 1 = m + 1
      BY <1>1, <1>2, <2>2, <3>1
    <3> QED BY <1>10, <3>2
  <2> QED BY <2>1, <2>2 DEF Above
<1>18. ASSUME NEW p \in Below(H, b) PROVE t[p+1] \in {s[b], s[m]}
  <2>1. CASE p = b - 1
    <3>1. CASE end < b
      <4>1. p \in 0..n-1 /\ p >= end /\ p + 1 = b
        BY <1>1, <1>2, <1>3, <2>1, <3>1
      <4> QED BY <1>10, <4>1
    <3>2. CASE end = b
      <4>1. p \in half..end-1 /\ p - (half - start) + 1 = m
        BY <1>1, <1>2, <1>3, <2>1, <3>2
      <4> QED BY <1>10, <4>1
    <3> QED BY <1>1, <1>2, <1>3, <3>1, <3>2
  <2>2. ASSUME NEW d \in H, d.b = b, p = d.m - 1 PROVE t[p+1] = s[m]
    <3>1. d.m = end /\ d.a = half /\ half < end
      BY <1>1, <1>7, <2>2
    <3>3. p = end - 1
      BY <2>2, <3>1
    <3>4. p \in half..end-1
      BY <1>1, <1>3, <3>1, <3>3
    <3>5. (end - 1) - (half - start) + 1 = m
      <4>1. \A x, y, z, w \in Int : x + y = z + w => (y - 1) - (z - x) + 1 = w
        OBVIOUS
      <4>2. /\ start \in Int /\ end \in Int /\ half \in Int /\ m \in Int
            /\ start + end = half + m
        BY <1>1, <1>2, <1>3
      <4> QED BY <4>1, <4>2
    <3>2. p \in half..end-1 /\ p - (half - start) + 1 = m
      BY <3>3, <3>4, <3>5
    <3> QED BY <1>10, <3>2
  <2> QED BY <2>1, <2>2 DEF Below
<1>19. SameOutside(s, a, b, t)
  <2>1. \A k \in 0..n-1 : (k < a => k < start) /\ (k >= b => k >= end)
    BY <1>1, <1>2, <1>3
  <2> QED BY <1>10, <2>1 DEF SameOutside, n
<1> QED BY <1>11, <1>16, <1>17, <1>18, <1>19 DEF CallDone, a, b, m, H

\* Borders lie at multiples of the size of a block. Zero is one.
LEMMA ZeroMultiple ==
  ASSUME NEW d \in Nat
  PROVE  Multiple(0, d)
<1>1. 0 = 0 * d
  OBVIOUS
<1> QED BY <1>1 DEF Multiple

\* So is the place one block further.
LEMMA NextMultiple ==
  ASSUME NEW d \in Nat, NEW h \in Nat, Multiple(h, d)
  PROVE  Multiple(h + d, d)
<1>1. PICK q \in Nat : h = q * d
  BY DEF Multiple
<1>2. (q + 1) * d = q * d + d
  OBVIOUS
<1>3. q + 1 \in Nat /\ h + d = (q + 1) * d
  BY <1>1, <1>2
<1> QED BY <1>3 DEF Multiple

\* A multiple of two blocks is one of a block.
LEMMA HalfMultiple ==
  ASSUME NEW d \in Nat, NEW h \in Nat, Multiple(h, 2 * d)
  PROVE  Multiple(h, d)
<1>1. PICK q \in Nat : h = q * (2 * d)
  BY DEF Multiple
<1>2. q * (2 * d) = (2 * q) * d
  OBVIOUS
<1>3. 2 * q \in Nat /\ h = (2 * q) * d
  BY <1>1, <1>2
<1> QED BY <1>3 DEF Multiple

\* There is none between two that follow each other.
LEMMA NoMultipleBetween ==
  ASSUME NEW d \in Nat, NEW x \in Nat, NEW h \in Nat, Multiple(x, d), x < h, h < x + d
  PROVE  ~Multiple(h, d)
<1>1. SUFFICES ASSUME NEW r \in Nat, h = r * d PROVE FALSE
  BY DEF Multiple
<1>2. PICK q \in Nat : x = q * d
  BY DEF Multiple
<1>3. (q + 1) * d = q * d + d
  OBVIOUS
<1>4. CASE r <= q
  <2>1. r * d <= q * d
    BY <1>4, ProductMonotone
  <2> QED BY <1>1, <1>2, <2>1
<1>5. CASE r >= q + 1
  <2>1. (q + 1) * d <= r * d
    BY <1>5, ProductMonotone
  <2> QED BY <1>1, <1>2, <1>3, <2>1
<1> QED BY <1>4, <1>5

\* At the start every border is one.
LEMMA InitSortInv == SortInit => SortInv
<1> SUFFICES ASSUME SortInit PROVE SortInv
  OBVIOUS
<1>1. results \in Seq(Result) /\ BlockSize \in Nat \ {0}
  BY BlockAssumption DEF SortInit
<1>2. Multiple(0, size)
  BY <1>1, ZeroMultiple DEF SortInit
<1>3. Len(results) \in Nat
  BY <1>1
<1>4. SortTypes
  BY <1>1, <1>2, <1>3 DEF SortTypes, SortInit
<1>5. \A h \in Nat : h \in Borders
  BY DEF Borders, SortInit
<1>6. CallsIn(calls, Len(results), Borders)
  BY DEF CallsIn, SortInit
<1>7. OrderedIn(results, calls, Borders)
  BY <1>3, <1>5 DEF OrderedIn
<1> QED BY <1>4, <1>6, <1>7 DEF SortInv

\* Without pending calls a border in order is one whose two elements are.
LEMMA NoCalls ==
  ASSUME NEW s, NEW h \in Nat
  PROVE  OrderedAt(s, {}, h) <=> ~Before(s, h, h - 1)
BY DEF OrderedAt, Below, Above

\* A sorted block has no borders inside.
LEMMA BlockStep == SortInv /\ SortBlock => SortInv'
<1> SUFFICES ASSUME SortInv, SortBlock PROVE SortInv'
  OBVIOUS
<1> DEFINE n == Len(results)
           to == LesserOf(lo + size, n)
           t == insertionSort(results, lo, to)
<1>1. /\ results \in Seq(Result) /\ size \in Nat \ {0} /\ lo \in Nat /\ phase = "blocks"
      /\ Multiple(lo, size) /\ lo <= n /\ calls = {} /\ n \in Nat
  BY DEF SortInv, SortTypes, SortBlock
<1>2. results' = t /\ size' = size /\ calls' = {}
  BY <1>1 DEF SortBlock
<1>3. \/ lo + size <= n /\ lo' = lo + size /\ phase' = "blocks"
      \/ ~(lo + size <= n) /\ lo' = 0 /\ phase' = "merge"
  BY <1>1 DEF SortBlock
<1>4. to \in Nat /\ lo <= to /\ to <= n /\ (lo + size <= n => to = lo + size) /\ (~(lo + size <= n) => to = n)
  BY <1>1 DEF LesserOf
<1> HIDE DEF to
<1>5. /\ t \in Seq(Result) /\ SameOutside(results, lo, to, t)
      /\ \A h \in lo+1..to-1 : ~Before(t, h, h - 1)
  BY <1>1, <1>4, BlockFacts
<1> HIDE DEF t, n
<1>6. Len(t) = n
  BY <1>5 DEF SameOutside, n
<1>7. Multiple(lo + size, size) /\ Multiple(0, 2 * size)
  BY <1>1, NextMultiple, ZeroMultiple
<1>8. SortTypes'
  BY <1>1, <1>2, <1>3, <1>5, <1>6, <1>7 DEF SortTypes
<1>9. CallsIn({}, n, Borders')
  BY DEF CallsIn
<1>10. ASSUME NEW h \in 1..n-1, h \notin Borders' PROVE ~Before(t, h, h - 1)
  <2>1. h \in Nat /\ ~Multiple(h, size) /\ (lo + size <= n => h < lo + size)
    BY <1>1, <1>2, <1>3, <1>10 DEF Borders
  <2>2. CASE h < lo
    <3>1. h \notin Borders
      BY <1>1, <2>1, <2>2 DEF Borders
    <3>2. OrderedAt(results, {}, h)
      BY <1>1, <3>1 DEF SortInv, OrderedIn, n
    <3>3. ~Before(results, h, h - 1)
      BY <2>1, <3>2, NoCalls
    <3>4. h \in 0..n-1 /\ h - 1 \in 0..n-1 /\ h - 1 < lo /\ (h - 1) + 1 = h
      BY <1>1, <2>2
    <3>5. t[h+1] = results[h+1] /\ t[h] = results[h]
      BY <1>5, <2>2, <3>4 DEF SameOutside, n
    <3> QED BY <3>3, <3>4, <3>5 DEF Before
  <2>3. h # lo
    BY <1>1, <2>1
  <2>4. CASE h > lo
    <3>1. h \in lo+1..to-1
      BY <1>1, <1>4, <2>1, <2>4
    <3> QED BY <1>5, <3>1
  <2> QED BY <1>1, <2>2, <2>3, <2>4
<1>11. OrderedIn(t, {}, Borders')
  <2>1. \A h \in 1..n-1 : h \notin Borders' => OrderedAt(t, {}, h)
    <3>1. \A h \in 1..n-1 : h \in Nat
      BY <1>1
    <3> QED BY <1>10, <3>1, NoCalls
  <2> QED BY <1>6, <2>1 DEF OrderedIn
<1>12. CallsIn(calls', Len(results'), Borders') /\ OrderedIn(results', calls', Borders')
  BY <1>2, <1>6, <1>9, <1>11
<1> QED BY <1>8, <1>12 DEF SortInv, CallsIn, OrderedIn, IsCall, Apart, OrderedAt, Below, Above, Before

\* A pair of neighbouring blocks has no border but the one between them, which is the new
\* call's.
LEMMA PairStep == SortInv /\ MergePair => SortInv'
<1> SUFFICES ASSUME SortInv, MergePair PROVE SortInv'
  OBVIOUS
<1> DEFINE n == Len(results)
           L == LesserOf(lo + 2 * size, n)
           c == [a |-> lo, m |-> lo + size, b |-> L]
<1>1. /\ results \in Seq(Result) /\ size \in Nat \ {0} /\ lo \in Nat /\ phase = "merge"
      /\ Multiple(lo, 2 * size) /\ calls = {} /\ n \in Nat
  BY DEF SortInv, SortTypes, MergePair
<1>2. /\ lo + size < n /\ calls' = {c} /\ lo' = lo + 2 * size
      /\ results' = results /\ size' = size /\ phase' = phase
  BY DEF MergePair
<1>3. L \in Nat /\ lo + size < L /\ L <= n /\ L <= lo + 2 * size /\ (L = n \/ L = lo + 2 * size)
  BY <1>1, <1>2 DEF LesserOf
<1>4. c.a = lo /\ c.m = lo + size /\ c.b = L
  OBVIOUS
<1> HIDE DEF n, L, c
<1>5. /\ Multiple(lo, size) /\ Multiple(lo + size, size) /\ Multiple(lo + 2 * size, size)
      /\ Multiple(lo + 2 * size, 2 * size)
  <2>1. Multiple(lo, size)
    BY <1>1, HalfMultiple
  <2>2. Multiple(lo + size, size)
    BY <1>1, <2>1, NextMultiple
  <2>3. 2 * size \in Nat /\ lo + 2 * size \in Nat
    BY <1>1
  <2>4. Multiple(lo + 2 * size, 2 * size)
    BY <1>1, <2>3, NextMultiple
  <2>5. Multiple(lo + 2 * size, size)
    BY <1>1, <2>3, <2>4, HalfMultiple
  <2> QED BY <2>1, <2>2, <2>4, <2>5
<1>6. \A h \in Nat : h \in Borders <=> IF h < lo THEN Multiple(h, 2 * size) ELSE Multiple(h, size)
  BY <1>1 DEF Borders
<1>7. \A h \in Nat : h \in Borders' <=> IF h < lo + 2 * size THEN Multiple(h, 2 * size)
                                                          ELSE Multiple(h, size)
  BY <1>1, <1>2 DEF Borders
<1>8. ASSUME NEW h \in Nat, lo < h, h < lo + 2 * size
      PROVE  ~Multiple(h, 2 * size) /\ (Multiple(h, size) => h = lo + size)
  <2>1. ~Multiple(h, 2 * size)
    <3>1. 2 * size \in Nat
      BY <1>1
    <3> QED BY <1>1, <1>8, <3>1, NoMultipleBetween
  <2>2. CASE h < lo + size
    BY <1>1, <1>5, <1>8, <2>1, <2>2, NoMultipleBetween
  <2>3. CASE lo + size < h
    <3>1. lo + size \in Nat /\ h < (lo + size) + size
      BY <1>1, <1>8
    <3> QED BY <1>1, <1>5, <2>1, <2>3, <3>1, NoMultipleBetween
  <2> QED BY <1>1, <2>1, <2>2, <2>3
<1>9. SortTypes'
  BY <1>1, <1>2, <1>5 DEF SortTypes
<1>10. CallsIn({c}, n, Borders')
  <2>1. IsCall(c) /\ c.b <= n
    BY <1>1, <1>3, <1>4 DEF IsCall
  <2>2. \A h \in lo+1..L-1 : h \in Nat /\ lo < h /\ h < lo + 2 * size
    BY <1>1, <1>3
  <2>3. \A h \in lo+1..L-1 : h \notin Borders'
    BY <1>7, <1>8, <2>2
  <2> QED BY <1>4, <2>1, <2>3 DEF CallsIn, Apart
<1>11. ASSUME NEW h \in 1..n-1, h \notin Borders', h # lo + size
       PROVE  OrderedAt(results, {c}, h)
  <2>1. h \in Nat /\ h # lo /\ h # L
    <3>1. h \in Nat /\ h < n
      BY <1>1
    <3>2. lo \in Borders' /\ lo + 2 * size \in Borders'
      <4>1. lo < lo + 2 * size /\ lo + 2 * size \in Nat /\ ~(lo + 2 * size < lo + 2 * size)
        BY <1>1
      <4> QED BY <1>1, <1>5, <1>7, <4>1
    <3> QED BY <1>3, <1>11, <3>1, <3>2
  <2>2. h \notin Borders
    <3>1. CASE h < lo
      <4>1. h < lo + 2 * size
        BY <1>1, <2>1, <3>1
      <4> QED BY <1>6, <1>7, <1>11, <2>1, <3>1, <4>1
    <3>2. CASE lo < h /\ h < lo + 2 * size
      <4>1. ~(h < lo)
        BY <1>1, <2>1, <3>2
      <4> QED BY <1>6, <1>8, <1>11, <2>1, <3>2, <4>1
    <3>3. CASE ~(h < lo + 2 * size)
      <4>1. ~(h < lo)
        BY <1>1, <2>1, <3>3
      <4> QED BY <1>6, <1>7, <1>11, <2>1, <3>3, <4>1
    <3> QED BY <1>1, <2>1, <3>1, <3>2, <3>3
  <2>3. OrderedAt(results, {}, h)
    BY <1>1, <2>2 DEF SortInv, OrderedIn, n
  <2>4. Below({c}, h) = Below({}, h) /\ Above({c}, h) = Above({}, h)
    BY <1>4, <2>1 DEF Below, Above
  <2> QED BY <2>3, <2>4 DEF OrderedAt
<1>12. OrderedIn(results, {c}, Borders')
  BY <1>4, <1>11 DEF OrderedIn, n
<1>13. CallsIn(calls', Len(results'), Borders') /\ OrderedIn(results', calls', Borders')
  BY <1>2, <1>10, <1>12 DEF n
<1> QED BY <1>9, <1>13 DEF SortInv, CallsIn, OrderedIn, IsCall, Apart, OrderedAt, Below, Above, Before

\* Borders lie where they did while calls of symMerge run.
LEMMA CallStep ==
  ASSUME SortInv, NEW c \in calls, NEW t \in Seq(Result), NEW H, CallDone(results, c, t, H),
         results' = t, calls' = (calls \ {c}) \cup H, UNCHANGED <<size, lo, phase>>
  PROVE  SortInv'
<1>1. /\ results \in Seq(Result) /\ size \in Nat \ {0} /\ lo \in Nat /\ phase = "merge"
      /\ Multiple(lo, 2 * size)
  BY DEF SortInv, SortTypes
<1>2. Borders' = Borders
  BY DEF Borders
<1>3. SortTypes'
  BY <1>1 DEF SortTypes
<1>4. /\ CallsIn((calls \ {c}) \cup H, Len(t), Borders)
      /\ OrderedIn(t, (calls \ {c}) \cup H, Borders)
  <2>1. CallsIn(calls, Len(results), Borders) /\ OrderedIn(results, calls, Borders)
    BY DEF SortInv
  <2>2. Len(results) \in Nat
    BY <1>1
  <2> HIDE DEF CallDone
  <2> QED BY <2>1, <2>2, CallKeeps
<1>5. CallsIn(calls', Len(results'), Borders') /\ OrderedIn(results', calls', Borders')
  BY <1>2, <1>4
<1> QED BY <1>3, <1>5 DEF SortInv, CallsIn, OrderedIn, IsCall, Apart, OrderedAt, Below, Above, Before

\* What a pending call may rely on.
LEMMA CallFacts ==
  ASSUME SortInv, NEW c \in calls
  PROVE  /\ results \in Seq(Result) /\ Len(results) \in Nat
         /\ CallsIn(calls, Len(results), Borders) /\ OrderedIn(results, calls, Borders)
         /\ IsCall(c) /\ c.a \in Nat /\ c.m \in Nat /\ c.b \in Nat
         /\ c.a < c.m /\ c.m < c.b /\ c.b <= Len(results)
<1>1. /\ results \in Seq(Result)
      /\ CallsIn(calls, Len(results), Borders) /\ OrderedIn(results, calls, Borders)
  BY DEF SortInv, SortTypes
<1>2. IsCall(c) /\ c.b <= Len(results)
  BY <1>1 DEF CallsIn
<1> QED BY <1>1, <1>2 DEF IsCall

\* symMerge with one element on the left.
LEMMA FirstStep == SortInv /\ symMergeFirst => SortInv'
<1> SUFFICES ASSUME SortInv, symMergeFirst PROVE SortInv'
  OBVIOUS
<1>1. PICK c \in calls :
        /\ c.m - c.a = 1
        /\ results' = rotate(results, c.a, c.m,
                             Cut(c.m, c.b, {h \in c.m..c.b-1 : Before(results, h, c.a)}))
        /\ calls' = calls \ {c}
        /\ UNCHANGED <<size, lo, phase>>
  BY DEF symMergeFirst
<1> DEFINE R == {h \in c.m..c.b-1 : Before(results, h, c.a)}
           cut == Cut(c.m, c.b, R)
           t == rotate(results, c.a, c.m, cut)
<1>2. /\ results \in Seq(Result) /\ Len(results) \in Nat
      /\ CallsIn(calls, Len(results), Borders) /\ OrderedIn(results, calls, Borders)
      /\ c.a \in Nat /\ c.m \in Nat /\ c.b \in Nat
      /\ c.a < c.m /\ c.m < c.b /\ c.b <= Len(results)
  BY CallFacts
<1>3. IsCut(c.m, c.b, R, cut)
  <2> HIDE DEF R
  <2>1. c.m <= c.b
    BY <1>2
  <2> QED BY <1>2, <2>1, CutFacts
<1>4. cut \in Nat /\ c.m <= cut /\ cut <= c.b /\ c.a <= c.m /\ cut <= Len(results)
  <2>1. cut \in c.m..c.b
    BY <1>3 DEF IsCut
  <2> HIDE DEF cut
  <2> QED BY <1>2, <2>1
<1> HIDE DEF cut
<1>5. t \in Seq(Result) /\ IsRotation(results, c.a, c.m, cut, t)
  BY <1>2, <1>4, RotateFacts
<1> HIDE DEF t
<1>6. CallDone(results, c, t, {})
  BY <1>1, <1>2, <1>3, <1>5, FirstDone
<1>7. results' = t /\ calls' = (calls \ {c}) \cup {}
  BY <1>1 DEF t, cut
<1> QED BY <1>1, <1>5, <1>6, <1>7, CallStep

\* symMerge with one element on the right.
LEMMA LastStep == SortInv /\ symMergeLast => SortInv'
<1> SUFFICES ASSUME SortInv, symMergeLast PROVE SortInv'
  OBVIOUS
<1>1. PICK c \in calls :
        /\ c.b - c.m = 1
        /\ results' = rotate(results,
                             Cut(c.a, c.m, {h \in c.a..c.m-1 : ~Before(results, c.m, h)}),
                             c.m, c.b)
        /\ calls' = calls \ {c}
        /\ UNCHANGED <<size, lo, phase>>
  BY DEF symMergeLast
<1> DEFINE R == {h \in c.a..c.m-1 : ~Before(results, c.m, h)}
           cut == Cut(c.a, c.m, R)
           t == rotate(results, cut, c.m, c.b)
<1>2. /\ results \in Seq(Result) /\ Len(results) \in Nat
      /\ CallsIn(calls, Len(results), Borders) /\ OrderedIn(results, calls, Borders)
      /\ c.a \in Nat /\ c.m \in Nat /\ c.b \in Nat
      /\ c.a < c.m /\ c.m < c.b /\ c.b <= Len(results)
  BY CallFacts
<1>3. IsCut(c.a, c.m, R, cut)
  <2> HIDE DEF R
  <2>1. c.a <= c.m
    BY <1>2
  <2> QED BY <1>2, <2>1, CutFacts
<1>4. cut \in Nat /\ cut <= c.m /\ c.m <= c.b
  <2>1. cut \in c.a..c.m
    BY <1>3 DEF IsCut
  <2> HIDE DEF cut
  <2> QED BY <1>2, <2>1
<1> HIDE DEF cut
<1>5. t \in Seq(Result) /\ IsRotation(results, cut, c.m, c.b, t)
  BY <1>2, <1>4, RotateFacts
<1> HIDE DEF t
<1>6. CallDone(results, c, t, {})
  BY <1>1, <1>2, <1>3, <1>5, LastDone
<1>7. results' = t /\ calls' = (calls \ {c}) \cup {}
  BY <1>1 DEF t, cut
<1> QED BY <1>1, <1>5, <1>6, <1>7, CallStep

\* symMerge with more on both sides: it turns a range and leaves two calls.
LEMMA TurnStep == SortInv /\ symMerge => SortInv'
<1> SUFFICES ASSUME SortInv, symMerge PROVE SortInv'
  OBVIOUS
<1>1. PICK c \in calls :
        /\ LET start == StartOf(c)
               end   == MidOf(c) + c.m - start
           IN /\ IF start < c.m /\ c.m < end THEN results' = rotate(results, start, c.m, end)
                                             ELSE UNCHANGED results
              /\ calls' = (calls \ {c}) \cup HalvesOf(c, start, end)
        /\ UNCHANGED <<size, lo, phase>>
  BY DEF symMerge
<1> DEFINE start == StartOf(c)
           end == EndOf(c, start)
           t == results'
<1>2. /\ results \in Seq(Result) /\ Len(results) \in Nat
      /\ CallsIn(calls, Len(results), Borders) /\ OrderedIn(results, calls, Borders)
      /\ IsCall(c) /\ c.a \in Nat /\ c.m \in Nat /\ c.b \in Nat
      /\ c.a < c.m /\ c.m < c.b /\ c.b <= Len(results)
  BY CallFacts
<1>3. IsTurn(results, c, start)
  BY <1>2, StartFacts
<1>4. /\ IF start < c.m /\ c.m < end THEN t = rotate(results, start, c.m, end) ELSE t = results
      /\ calls' = (calls \ {c}) \cup HalvesOf(c, start, end)
  BY <1>1 DEF EndOf
<1>5. /\ start \in Nat /\ start <= c.m
      /\ c.m <= end /\ end <= c.b /\ end \in Nat /\ end <= Len(results)
  <2>1. start \in Nat /\ start <= c.m /\ c.m <= end /\ end <= c.b
    BY <1>3 DEF IsTurn
  <2>2. end \in Int
    <3>1. MidOf(c) \in Int
      BY <1>2 DEF MidOf
    <3> HIDE DEF start
    <3> QED BY <1>2, <2>1, <3>1 DEF EndOf
  <2> HIDE DEF start, end
  <2> QED BY <1>2, <2>1, <2>2
<1>6. end = EndOf(c, start)
  OBVIOUS
<1> HIDE DEF start, end, t
<1>7. CASE start < c.m /\ c.m < end
  <2>1. t = rotate(results, start, c.m, end)
    BY <1>4, <1>7
  <2>2. t \in Seq(Result) /\ IsRotation(results, start, c.m, end, t)
    BY <1>2, <1>5, <2>1, RotateFacts
  <2>3. CallDone(results, c, t, HalvesOf(c, start, end))
    BY <1>2, <1>3, <1>6, <2>2, TurnDone
  <2> QED BY <1>1, <1>4, <2>2, <2>3, CallStep DEF t
<1>8. CASE ~(start < c.m /\ c.m < end)
  <2>1. t = results /\ (start = c.m \/ c.m = end)
    BY <1>2, <1>4, <1>5, <1>8
  <2>2. CallDone(results, c, t, HalvesOf(c, start, end))
    BY <1>2, <1>3, <1>6, <2>1, TurnDone
  <2> QED BY <1>1, <1>2, <1>4, <2>1, <2>2, CallStep DEF t
<1> QED BY <1>7, <1>8

\* Once all pairs of one size are merged, the borders are those of the next size.
LEMMA NextSizeStep == SortInv /\ NextSize => SortInv'
<1> SUFFICES ASSUME SortInv, NextSize PROVE SortInv'
  OBVIOUS
<1> DEFINE n == Len(results)
<1>1. /\ results \in Seq(Result) /\ size \in Nat \ {0} /\ lo \in Nat /\ phase = "merge"
      /\ Multiple(lo, 2 * size) /\ calls = {} /\ n \in Nat
  BY DEF SortInv, SortTypes, NextSize
<1>2. /\ lo + size >= n /\ size' = 2 * size /\ lo' = 0
      /\ results' = results /\ phase' = phase /\ calls' = calls
  BY DEF NextSize
<1>3. Multiple(0, 2 * (2 * size)) /\ 2 * size \in Nat \ {0}
  <2>1. 2 * (2 * size) \in Nat /\ 2 * size \in Nat \ {0}
    BY <1>1
  <2> QED BY <2>1, ZeroMultiple
<1>4. SortTypes'
  BY <1>1, <1>2, <1>3 DEF SortTypes
<1> HIDE DEF n
<1>5. ASSUME NEW h \in 1..n-1, h \notin Borders' PROVE h \notin Borders
  <2>1. h \in Nat /\ ~(h < 0) /\ h < n
    BY <1>1
  <2>2. ~Multiple(h, 2 * size)
    BY <1>1, <1>2, <1>5, <2>1 DEF Borders
  <2>3. CASE h < lo
    BY <1>1, <2>2, <2>3 DEF Borders
  <2>4. CASE ~(h < lo)
    <3>1. h # lo
      BY <1>1, <2>2
    <3>2. lo < h /\ h < lo + size /\ Multiple(lo, size)
      BY <1>1, <1>2, <2>1, <2>4, <3>1, HalfMultiple
    <3>3. ~Multiple(h, size)
      BY <1>1, <2>1, <3>2, NoMultipleBetween
    <3> QED BY <1>1, <2>4, <3>3 DEF Borders
  <2> QED BY <2>3, <2>4
<1>6. CallsIn({}, n, Borders')
  BY DEF CallsIn
<1>7. OrderedIn(results, {}, Borders')
  <2>1. OrderedIn(results, {}, Borders)
    BY <1>1 DEF SortInv
  <2> QED BY <1>5, <2>1 DEF OrderedIn, n
<1>8. CallsIn(calls', Len(results'), Borders') /\ OrderedIn(results', calls', Borders')
  BY <1>1, <1>2, <1>6, <1>7 DEF n
<1> QED BY <1>4, <1>8 DEF SortInv, CallsIn, OrderedIn, IsCall, Apart, OrderedAt, Below, Above, Before

\* The end of the sort moves nothing.
LEMMA SortedStep == SortInv /\ Sorted => SortInv'
<1> SUFFICES ASSUME SortInv, Sorted PROVE SortInv'
  OBVIOUS
<1>1. /\ phase = "merge" /\ calls = {} /\ size >= Len(results) /\ phase' = "sorted"
      /\ results' = results /\ size' = size /\ lo' = lo /\ calls' = calls
  BY DEF Sorted
<1>2. Borders' = Borders
  BY <1>1 DEF Borders
<1>3. SortTypes'
  BY <1>1 DEF SortTypes, SortInv
<1>4. CallsIn(calls', Len(results'), Borders') /\ OrderedIn(results', calls', Borders')
  BY <1>1, <1>2 DEF SortInv
<1> QED BY <1>3, <1>4 DEF SortInv, CallsIn, OrderedIn, IsCall, Apart, OrderedAt, Below, Above, Before

\* Stuttering.
LEMMA IdleSortStep == SortInv /\ UNCHANGED sortVars => SortInv'
<1> SUFFICES ASSUME SortInv, UNCHANGED sortVars PROVE SortInv'
  OBVIOUS
<1>1. results' = results /\ size' = size /\ lo' = lo /\ phase' = phase /\ calls' = calls
  BY DEF sortVars
<1>2. Borders' = Borders
  BY <1>1 DEF Borders
<1>3. SortTypes'
  BY <1>1 DEF SortTypes, SortInv
<1>4. CallsIn(calls', Len(results'), Borders') /\ OrderedIn(results', calls', Borders')
  BY <1>1, <1>2 DEF SortInv
<1> QED BY <1>3, <1>4 DEF SortInv, CallsIn, OrderedIn, IsCall, Apart, OrderedAt, Below, Above, Before

\* The merges keep the invariant for lists of every length and blocks of every size.
THEOREM MergesKeepOrder == SliceStableSpec => []SortInv
<1>1. SortInit => SortInv
  BY InitSortInv
<1>2. SortInv /\ [SliceStable]_sortVars => SortInv'
  BY BlockStep, PairStep, FirstStep, LastStep, TurnStep, NextSizeStep, SortedStep, IdleSortStep
     DEF SliceStable, MergeStep
<1> QED BY <1>1, <1>2, PTL DEF SliceStableSpec

\* Once one block holds the whole list no border is left.
LEMMA AllMerged == SortInv => NeighboursOrderedAfterMerges
<1> SUFFICES ASSUME SortInv, phase = "sorted", NEW k \in 1..Len(results)-1
             PROVE  ~Less(results[k+1], results[k])
  BY DEF NeighboursOrderedAfterMerges
<1>1. /\ results \in Seq(Result) /\ size \in Nat \ {0} /\ size >= Len(results) /\ calls = {}
      /\ lo \in Nat /\ Len(results) \in Nat
  BY DEF SortInv, SortTypes
<1>2. k \in Nat /\ 0 < k /\ k < 0 + size /\ k < 0 + 2 * size /\ 2 * size \in Nat
  BY <1>1
<1>3. ~Multiple(k, size)
  BY <1>1, <1>2, ZeroMultiple, NoMultipleBetween
<1>4. ~Multiple(k, 2 * size)
  BY <1>1, <1>2, ZeroMultiple, NoMultipleBetween
<1>5. OrderedAt(results, {}, k)
  BY <1>1, <1>3, <1>4 DEF SortInv, OrderedIn, Borders
<1>6. ~Before(results, k, k - 1) /\ (k - 1) + 1 = k
  BY <1>2, <1>5, NoCalls
<1> QED BY <1>6 DEF Before

\* sort.SliceStable under tieBreak (rank/scorer.go), for every list, every Epsilon and every
\* block size: although its comparator is not transitive and the binary searches of its
\* merges rely on that, no two neighbours of the result are in the wrong order.
THEOREM NeighboursInOrderAfterMerges == SliceStableSpec => []NeighboursOrderedAfterMerges
BY MergesKeepOrder, AllMerged, PTL
-----------------------------------------------------------------------------
(* Blocks and merges only move results, and none of them before the pin.   *)

\* t has the first n results of s, each once, in some order.
HasFirst(s, n, t) ==
  /\ Len(t) = n
  /\ \E p \in Rearrangements(n) : \A k \in 1..n : t[k] = s[p[k]]

\* t has the results of s, each as often, in another order.
IsRearranged(s, t) == HasFirst(s, Len(s), t)

\* A list is a rearrangement of itself.
LEMMA SameRearranged ==
  ASSUME NEW s, Len(s) \in Nat
  PROVE  IsRearranged(s, s)
<1> DEFINE n == Len(s)
           p == [k \in 1..n |-> k]
<1>1. p \in Rearrangements(n) /\ \A k \in 1..n : s[k] = s[p[k]]
  BY DEF Rearrangements
<1> QED BY <1>1 DEF IsRearranged, HasFirst

\* A move of positions that can be undone is a rearrangement.
LEMMA UndoneRearranges ==
  ASSUME NEW n \in Nat, NEW f \in [1..n -> 1..n], NEW g \in [1..n -> 1..n],
         \A k \in 1..n : g[f[k]] = k /\ f[g[k]] = k
  PROVE  f \in Rearrangements(n)
<1>1. \A a, b \in 1..n : f[a] = f[b] => a = b
  <2>1. ASSUME NEW a \in 1..n, NEW b \in 1..n, f[a] = f[b] PROVE a = b
    <3>1. g[f[a]] = a /\ g[f[b]] = b
      OBVIOUS
    <3> QED BY <2>1, <3>1
  <2> QED BY <2>1
<1>2. \A k \in 1..n : g[k] \in 1..n /\ f[g[k]] = k
  OBVIOUS
<1> QED BY <1>1, <1>2 DEF Rearrangements

\* A rotation is undone by the rotation of the two parts in their new places.
LEMMA RotationRearranged ==
  ASSUME NEW s, NEW t, Len(s) \in Nat, NEW from \in Nat, NEW mid \in Nat, NEW to \in Nat,
         from <= mid, mid <= to, to <= Len(s), IsRotation(s, from, mid, to, t)
  PROVE  IsRearranged(s, t)
<1> DEFINE n == Len(s)
           back == from + to - mid
           f == [k \in 1..n |-> SourceOf(from, mid, to, k - 1) + 1]
           g == [k \in 1..n |-> SourceOf(from, back, to, k - 1) + 1]
<1>1. back \in Nat /\ from <= back /\ back <= to /\ n \in Nat /\ to <= n /\ from + to - back = mid
  OBVIOUS
<1>2. \A x, y, z, m \in Nat, k \in Int :
        x <= y /\ y <= z /\ z <= m /\ 0 <= k /\ k < m =>
          /\ SourceOf(x, y, z, k) \in 0..m-1
          /\ SourceOf(x, x + z - y, z, SourceOf(x, y, z, k)) = k
  BY DEF SourceOf
<1> HIDE DEF back, n
<1>3. \A k \in 1..n : k - 1 \in 0..n-1 /\ k - 1 \in Int /\ 0 <= k - 1 /\ k - 1 < n /\ (k - 1) + 1 = k
  BY <1>1
<1>4. ASSUME NEW k \in 1..n
      PROVE  /\ f[k] \in 1..n /\ g[k] \in 1..n
             /\ g[f[k]] = k /\ f[g[k]] = k /\ t[k] = s[f[k]]
  <2> DEFINE x == SourceOf(from, mid, to, k - 1)
             y == SourceOf(from, back, to, k - 1)
  <2>1. f[k] = x + 1 /\ g[k] = y + 1
    OBVIOUS
  <2>2. x \in 0..n-1 /\ SourceOf(from, back, to, x) = k - 1
    <3>1. from + to - mid = back
      BY DEF back
    <3>2. SourceOf(from, from + to - mid, to, SourceOf(from, mid, to, k - 1)) = k - 1
          /\ SourceOf(from, mid, to, k - 1) \in 0..n-1
      BY <1>1, <1>2, <1>3
    <3> QED BY <3>1, <3>2
  <2>3. y \in 0..n-1 /\ SourceOf(from, mid, to, y) = k - 1
    <3>1. SourceOf(from, from + to - back, to, SourceOf(from, back, to, k - 1)) = k - 1
          /\ SourceOf(from, back, to, k - 1) \in 0..n-1
      BY <1>1, <1>2, <1>3
    <3> QED BY <1>1, <3>1
  <2>4. t[k] = s[x + 1]
    <3>1. \A q \in 0..n-1 : t[q+1] = s[SourceOf(from, mid, to, q) + 1]
      BY DEF IsRotation, n
    <3> QED BY <1>3, <3>1
  <2> HIDE DEF x, y
  <2>5. x + 1 \in 1..n /\ (x + 1) - 1 = x /\ y + 1 \in 1..n /\ (y + 1) - 1 = y
    BY <1>1, <2>2, <2>3
  <2>6. g[x + 1] = SourceOf(from, back, to, (x + 1) - 1) + 1
    BY <2>5
  <2>7. f[y + 1] = SourceOf(from, mid, to, (y + 1) - 1) + 1
    BY <2>5
  <2> HIDE DEF f, g
  <2> QED BY <1>3, <2>1, <2>2, <2>3, <2>4, <2>5, <2>6, <2>7
<1>5. f \in [1..n -> 1..n] /\ g \in [1..n -> 1..n]
  <2>1. \A k \in 1..n : SourceOf(from, mid, to, k - 1) + 1 \in 1..n
                        /\ SourceOf(from, back, to, k - 1) + 1 \in 1..n
    BY <1>4
  <2> QED BY <2>1
<1>6. Len(t) = n
  BY DEF IsRotation, n
<1> HIDE DEF f, g
<1>7. \A k \in 1..n : g[f[k]] = k /\ f[g[k]] = k
  BY <1>4
<1>8. \A k \in 1..n : t[k] = s[f[k]]
  BY <1>4
<1>9. f \in Rearrangements(n)
  BY <1>1, <1>5, <1>7, UndoneRearranges
<1> QED BY <1>6, <1>8, <1>9 DEF IsRearranged, HasFirst, n

\* An insertion puts one more result among the first ones.
LEMMA InsertionRearranged ==
  ASSUME NEW S, NEW s \in Seq(S), NEW n \in 1..Len(s), NEW t \in Seq(S), HasFirst(s, n - 1, t)
  PROVE  HasFirst(s, n, Insert(t, s[n]))
<1> DEFINE x == s[n]
           u == Insert(t, x)
<1>1. n \in Nat /\ 1 <= n /\ n - 1 \in Nat /\ x \in S /\ Len(t) = n - 1 /\ Len(t) + 1 = n
  BY DEF HasFirst
<1>2. PICK p \in Rearrangements(n - 1) : \A k \in 1..n-1 : t[k] = s[p[k]]
  BY DEF HasFirst
<1>3. PICK q \in 1..Len(t)+1 : u = InsertAt(t, q, x)
  <2> HIDE DEF x
  <2> QED BY <1>1, InsertFacts
<1>4. /\ Len(u) = n /\ q \in 1..n
      /\ \A k \in 1..q-1 : u[k] = t[k]
      /\ u[q] = x
      /\ \A k \in q+1..n : u[k] = t[k-1]
  <2>1. u = InsertAt(t, q, x)
    BY <1>3
  <2> HIDE DEF u, x
  <2> HIDE DEF HasFirst
  <2>2. /\ Len(InsertAt(t, q, x)) = Len(t) + 1
        /\ \A k \in 1..q-1 : InsertAt(t, q, x)[k] = t[k]
        /\ InsertAt(t, q, x)[q] = x
        /\ \A k \in q+1..Len(t)+1 : InsertAt(t, q, x)[k] = t[k-1]
    <3>1. x \in S /\ q \in 1..Len(t)+1
      BY <1>1, <1>3
    <3> QED BY <3>1, InsertedAt
  <2> QED BY <1>1, <1>3, <2>1, <2>2
<1> DEFINE f == [k \in 1..n |-> IF k < q THEN p[k] ELSE IF k = q THEN n ELSE p[k-1]]
<1>5. /\ p \in [1..n-1 -> 1..n-1]
      /\ \A a, b \in 1..n-1 : p[a] = p[b] => a = b
      /\ \A k \in 1..n-1 : \E a \in 1..n-1 : p[a] = k
  BY <1>1 DEF Rearrangements
<1> HIDE DEF u
<1>6. \A k \in 1..n : \/ k < q /\ k \in 1..n-1 /\ f[k] = p[k]
                      \/ k = q /\ f[k] = n
                      \/ k > q /\ k - 1 \in 1..n-1 /\ f[k] = p[k-1]
  BY <1>1, <1>4
<1>7. f \in [1..n -> 1..n]
  <2>1. \A k \in 1..n-1 : p[k] \in 1..n /\ p[k] # n
    <3>1. \A k \in 1..n-1 : p[k] \in 1..n-1
      BY <1>5
    <3>2. \A v \in 1..n-1 : v \in 1..n /\ v # n
      BY <1>1
    <3> QED BY <3>1, <3>2
  <2>2. \A k \in 1..n : f[k] \in 1..n
    <3> HIDE DEF f
    <3> QED BY <1>1, <1>6, <2>1
  <2> QED BY <2>2
<1> HIDE DEF f
<1>8. \A a, b \in 1..n : f[a] = f[b] => a = b
  <2>1. ASSUME NEW a \in 1..n, NEW b \in 1..n, f[a] = f[b] PROVE a = b
    <3>1. \A k \in 1..n-1 : p[k] # n
      BY <1>1, <1>5
    <3>2. a = q <=> b = q
      BY <1>6, <2>1, <3>1
    <3>3. CASE a < q /\ b < q
      <4>1. a \in 1..n-1 /\ b \in 1..n-1 /\ p[a] = p[b]
        BY <1>4, <1>6, <2>1, <3>3
      <4> QED BY <1>5, <4>1
    <3>4. CASE a > q /\ b > q
      <4>1. a - 1 \in 1..n-1 /\ b - 1 \in 1..n-1 /\ p[a-1] = p[b-1]
        BY <1>4, <1>6, <2>1, <3>4
      <4>2. a - 1 = b - 1
        BY <1>5, <4>1
      <4> QED BY <4>2
    <3>5. CASE a < q /\ b > q
      <4>1. a \in 1..n-1 /\ b - 1 \in 1..n-1 /\ p[a] = p[b-1]
        BY <1>4, <1>6, <2>1, <3>5
      <4>2. a = b - 1
        BY <1>5, <4>1
      <4> QED BY <1>4, <3>5, <4>2
    <3>6. CASE a > q /\ b < q
      <4>1. a - 1 \in 1..n-1 /\ b \in 1..n-1 /\ p[a-1] = p[b]
        BY <1>4, <1>6, <2>1, <3>6
      <4>2. a - 1 = b
        BY <1>5, <4>1
      <4> QED BY <1>4, <3>6, <4>2
    <3> QED BY <1>4, <3>2, <3>3, <3>4, <3>5, <3>6
  <2> QED BY <2>1
<1>9. \A v \in 1..n : \E a \in 1..n : f[a] = v
  <2>1. ASSUME NEW v \in 1..n PROVE \E a \in 1..n : f[a] = v
    <3>1. CASE v = n
      BY <1>4, <1>6, <3>1
    <3>2. CASE v # n
      <4>1. v \in 1..n-1
        BY <1>1, <3>2
      <4>2. PICK a \in 1..n-1 : p[a] = v
        BY <1>5, <4>1
      <4>3. CASE a < q
        <5>1. a \in 1..n /\ a # q /\ ~(a > q)
          BY <1>1, <1>4, <4>3
        <5> QED BY <1>6, <4>2, <5>1
      <4>4. CASE ~(a < q)
        <5>1. a + 1 \in 1..n /\ a + 1 # q /\ ~(a + 1 < q) /\ (a + 1) - 1 = a
          BY <1>1, <1>4, <4>4
        <5>2. f[a + 1] = p[a]
          BY <1>6, <5>1
        <5> QED BY <4>2, <5>1, <5>2
      <4> QED BY <4>3, <4>4
    <3> QED BY <3>1, <3>2
  <2> QED BY <2>1
<1>10. f \in Rearrangements(n)
  BY <1>7, <1>8, <1>9 DEF Rearrangements
<1>11. \A k \in 1..n : u[k] = s[f[k]]
  <2>1. ASSUME NEW k \in 1..n PROVE u[k] = s[f[k]]
    <3>1. CASE k < q
      <4>1. k \in 1..q-1 /\ k \in 1..n-1 /\ f[k] = p[k]
        BY <1>4, <1>6, <3>1
      <4> QED BY <1>2, <1>4, <4>1
    <3>2. CASE k = q
      BY <1>4, <1>6, <3>2
    <3>3. CASE k > q
      <4>1. k \in q+1..n /\ k - 1 \in 1..n-1 /\ f[k] = p[k-1]
        BY <1>4, <1>6, <3>3
      <4> QED BY <1>2, <1>4, <4>1
    <3> QED BY <1>4, <3>1, <3>2, <3>3
  <2> QED BY <2>1
<1> QED BY <1>4, <1>10, <1>11 DEF HasFirst, u, x

\* A list whose results, but for the first, are candidates: only the first may be the pin.
OnePin(s) == \A k \in 2..Len(s) : s[k] \in Candidate

\* The pin, where s has it, is first in t.
KeepsPin(s, t) == s # <<>> /\ IsPinned(s[1]) => t[1] = s[1]

\* A candidate does not go before a pinned result.
LEMMA PinnedIsFirst ==
  ASSUME NEW r \in Result, IsPinned(r), NEW x \in Candidate
  PROVE  ~Less(x, r)
<1>1. \A c \in Candidate : c.score # Infinity
  BY PinnedFields
<1>2. PICK d \in Candidate : r = Pinned(d)
  BY <1>1 DEF Result, IsPinned
<1> QED BY <1>2, NothingBeatsThePin

\* Insertion into a list that starts with the pin leaves it there.
LEMMA InsertKeepsPin ==
  ASSUME NEW t \in Seq(Result), t # <<>>, IsPinned(t[1]), NEW x \in Candidate
  PROVE  Insert(t, x)[1] = t[1]
<1>1. x \in Result /\ Len(t) \in Nat /\ Len(t) >= 1 /\ t[1] \in Result
  BY DEF Result
<1>2. PICK q \in 1..Len(t)+1 :
        /\ Insert(t, x) = InsertAt(t, q, x)
        /\ \A k \in q..Len(t) : Less(x, t[k])
  BY <1>1, InsertFacts
<1>3. ~Less(x, t[1])
  BY <1>1, PinnedIsFirst
<1>4. q # 1
  <2>1. q = 1 => 1 \in q..Len(t)
    BY <1>1
  <2> QED BY <1>2, <1>3, <2>1
<1>5. 1 \in 1..q-1
  BY <1>1, <1>4
<1> QED BY <1>1, <1>2, <1>5, InsertedAt

\* The insertion sort of a block rearranges it and keeps the pin first.
LEMMA TieBreakRearranged ==
  ASSUME NEW s \in Seq(Result)
  PROVE  IsRearranged(s, tieBreak(s)) /\ (OnePin(s) => KeepsPin(s, tieBreak(s)))
<1> DEFINE n == Len(s)
           u == [k \in 0..n |-> tieBreak(SubSeq(s, 1, k))]
           T == {k \in 0..n : /\ HasFirst(s, k, u[k])
                              /\ OnePin(s) /\ IsPinned(s[1]) /\ k > 0 => u[k][1] = s[1]}
<1>1. n \in Nat /\ \A k \in 1..n : s[k] \in Result
  OBVIOUS
<1>2. /\ \A k \in 0..n : u[k] \in Seq(Result) /\ Len(u[k]) = k
      /\ u[0] = <<>>
      /\ \A k \in 1..n : u[k] = Insert(u[k-1], s[k])
      /\ u[n] = tieBreak(s)
  <2>1. \A k \in 0..n : u[k] = tieBreak(SubSeq(s, 1, k))
    OBVIOUS
  <2>2. 0 \in 0..n /\ n \in 0..n /\ \A k \in 1..n : k \in 0..n /\ k - 1 \in 0..n
    BY <1>1
  <2>3. /\ \A k \in 0..n : /\ tieBreak(SubSeq(s, 1, k)) \in Seq(Result)
                          /\ Len(tieBreak(SubSeq(s, 1, k))) = k
        /\ tieBreak(SubSeq(s, 1, 0)) = <<>>
        /\ \A k \in 1..n : tieBreak(SubSeq(s, 1, k)) = Insert(tieBreak(SubSeq(s, 1, k-1)), s[k])
        /\ tieBreak(SubSeq(s, 1, n)) = tieBreak(s)
    BY TieBreakStep
  <2> HIDE DEF u, n
  <2> QED BY <2>1, <2>2, <2>3
<1> HIDE DEF n, u
<1>3. 0 \in T
  <2>1. [k \in 1..0 |-> k] \in Rearrangements(0)
    BY DEF Rearrangements
  <2>2. HasFirst(s, 0, u[0])
    BY <1>2, <2>1 DEF HasFirst
  <2> QED BY <1>1, <2>2
<1>4. ASSUME NEW k \in 1..n, k - 1 \in T PROVE k \in T
  <2>1. k - 1 \in 0..n /\ k \in 0..n /\ k > 0
    BY <1>1
  <2>2. /\ u[k-1] \in Seq(Result) /\ Len(u[k-1]) = k - 1 /\ HasFirst(s, k - 1, u[k-1])
        /\ u[k] = Insert(u[k-1], s[k])
    BY <1>2, <1>4, <2>1
  <2>3. HasFirst(s, k, u[k])
    <3> HIDE DEF T
    <3> QED BY <2>2, InsertionRearranged DEF n
  <2>4. ASSUME OnePin(s), IsPinned(s[1]) PROVE u[k][1] = s[1]
    <3>1. CASE k = 1
      <4>1. PICK p \in Rearrangements(1) : \A m \in 1..1 : u[k][m] = s[p[m]]
        BY <2>3, <3>1 DEF HasFirst
      <4>2. p[1] = 1
        BY <4>1 DEF Rearrangements
      <4> QED BY <4>1, <4>2
    <3>2. CASE k # 1
      <4>1. k \in 2..Len(s) /\ k - 1 > 0
        BY <1>1, <3>2 DEF n
      <4>2. s[k] \in Candidate /\ u[k-1][1] = s[1]
        BY <1>4, <2>4, <4>1 DEF OnePin
      <4>3. u[k-1] # <<>>
        BY <2>2, <4>1
      <4> QED BY <2>2, <2>4, <4>2, <4>3, InsertKeepsPin
    <3> QED BY <3>1, <3>2
  <2> QED BY <2>1, <2>3, <2>4
<1>5. \A k \in 0..n : k \in T
  <2> HIDE DEF T
  <2> QED BY <1>1, <1>3, <1>4, Induction
<1>6. n \in 0..n
  BY <1>1
<1>7. HasFirst(s, n, tieBreak(s)) /\ (OnePin(s) /\ IsPinned(s[1]) /\ n > 0 => tieBreak(s)[1] = s[1])
  BY <1>2, <1>5, <1>6
<1>8. s # <<>> => n > 0
  BY DEF n
<1> QED BY <1>7, <1>8 DEF IsRearranged, KeepsPin, n

\* Sorting a block moves its results only, and none before the pin.
LEMMA BlockRearranged ==
  ASSUME NEW s \in Seq(Result), NEW from \in Nat, NEW to \in Nat, from <= to, to <= Len(s)
  PROVE  /\ IsRearranged(s, insertionSort(s, from, to))
         /\ OnePin(s) => KeepsPin(s, insertionSort(s, from, to))
<1> DEFINE n == Len(s)
           d == to - from
           b == SubSeq(s, from + 1, to)
           v == tieBreak(b)
           t == insertionSort(s, from, to)
<1>1. n \in Nat /\ d \in Nat /\ b \in Seq(Result) /\ Len(b) = d
      /\ \A k \in 1..d : b[k] = s[from + k]
  <2>1. from + 1 >= 1 /\ from + 1 - 1 <= Len(s) /\ to - (from + 1) + 1 = to - from
    OBVIOUS
  <2>2. \A k \in 1..to-from : (from + 1) + k - 1 = from + k
    OBVIOUS
  <2> QED BY <2>1, <2>2
<1>2. /\ t \in Seq(Result) /\ SameOutside(s, from, to, t)
      /\ \A k \in from+1..to : t[k] = v[k - from]
  BY BlockFacts
<1>3. IsRearranged(b, v) /\ (OnePin(b) => KeepsPin(b, v))
  <2> HIDE DEF b
  <2> QED BY <1>1, TieBreakRearranged
<1>4. PICK p \in Rearrangements(d) : \A k \in 1..d : v[k] = b[p[k]]
  BY <1>1, <1>3 DEF IsRearranged, HasFirst
<1>5. /\ p \in [1..d -> 1..d]
      /\ \A x, y \in 1..d : p[x] = p[y] => x = y
      /\ \A k \in 1..d : \E x \in 1..d : p[x] = k
  BY DEF Rearrangements
<1>6. to = from + d /\ to <= n
  BY <1>1
<1> HIDE DEF n, d, b, v, t
<1> DEFINE f == [k \in 1..n |-> IF k \in from+1..to THEN from + p[k - from] ELSE k]
           Inside == from+1..to
<1>7. \A k \in Inside : /\ k \in 1..n /\ k - from \in 1..d /\ from + (k - from) = k
                        /\ p[k - from] \in 1..d /\ f[k] = from + p[k - from] /\ f[k] \in Inside
  <2>1. ASSUME NEW k \in Inside
        PROVE  /\ k \in 1..n /\ k - from \in 1..d /\ from + (k - from) = k
               /\ p[k - from] \in 1..d /\ f[k] = from + p[k - from] /\ f[k] \in Inside
    <3>1. k \in 1..n /\ k - from \in 1..d /\ from + (k - from) = k
      BY <1>1, <1>6
    <3>2. p[k - from] \in 1..d
      BY <1>5, <3>1
    <3>3. f[k] = from + p[k - from]
      BY <3>1
    <3>4. from + p[k - from] \in Inside
      BY <1>1, <1>6, <3>2
    <3> HIDE DEF f, Inside
    <3> QED BY <3>1, <3>2, <3>3, <3>4
  <2> HIDE DEF f, Inside
  <2> QED BY <2>1
<1>8. \A k \in 1..n : k \notin Inside => f[k] = k
  OBVIOUS
<1>9. \A k \in Inside : k \in 1..n
  BY <1>7
<1> HIDE DEF f
<1>10. \A x, y \in 1..n : f[x] = f[y] => x = y
  <2>1. ASSUME NEW x \in 1..n, NEW y \in 1..n, f[x] = f[y] PROVE x = y
    <3>1. x \in Inside <=> y \in Inside
      <4> HIDE DEF Inside
      <4> QED BY <1>7, <1>8, <2>1
    <3>2. CASE x \in Inside /\ y \in Inside
      <4>1. p[x - from] = p[y - from]
        <5>1. from + p[x - from] = from + p[y - from] /\ p[x - from] \in Int /\ p[y - from] \in Int
          <6> HIDE DEF Inside
          <6>1. \A k \in 1..d : k \in Int
            OBVIOUS
          <6> QED BY <1>7, <2>1, <3>2, <6>1
        <5> QED BY <5>1
      <4>2. x - from \in 1..d /\ y - from \in 1..d
        BY <1>7, <3>2
      <4>3. x - from = y - from
        BY <1>5, <4>1, <4>2
      <4> QED BY <4>3
    <3>3. CASE x \notin Inside /\ y \notin Inside
      BY <1>8, <2>1, <3>3
    <3> QED BY <3>1, <3>2, <3>3
  <2> QED BY <2>1
<1>11. \A k \in 1..n : \E x \in 1..n : f[x] = k
  <2>1. ASSUME NEW k \in 1..n PROVE \E x \in 1..n : f[x] = k
    <3>1. CASE k \in Inside
      <4>1. PICK x \in 1..d : p[x] = k - from
        BY <1>5, <1>7, <3>1
      <4>2. from + x \in Inside /\ (from + x) - from = x
        BY <1>1, <1>6
      <4>3. f[from + x] = from + p[x]
        <5> HIDE DEF Inside
        <5> QED BY <1>7, <4>2
      <4>4. f[from + x] = k
        BY <1>7, <3>1, <4>1, <4>3
      <4> QED BY <1>9, <4>2, <4>4
    <3>2. CASE k \notin Inside
      BY <1>8, <3>2
    <3> QED BY <3>1, <3>2
  <2> QED BY <2>1
<1>12. \A k \in 1..n : f[k] \in 1..n
  <2> HIDE DEF Inside
  <2> QED BY <1>7, <1>8, <1>9
<1>13. f \in Rearrangements(n)
  <2>1. f = [k \in 1..n |-> f[k]]
    BY DEF f
  <2>2. f \in [1..n -> 1..n]
    BY <1>12, <2>1
  <2> QED BY <1>10, <1>11, <2>2 DEF Rearrangements
<1>14. \A k \in 1..n : k \notin Inside => t[k] = s[k]
  <2>1. ASSUME NEW k \in 1..n, k \notin Inside PROVE t[k] = s[k]
    <3>1. k - 1 \in 0..n-1 /\ (k - 1 < from \/ k - 1 >= to) /\ (k - 1) + 1 = k
      BY <1>1, <2>1
    <3> QED BY <1>2, <3>1 DEF SameOutside, n
  <2> QED BY <2>1
<1>15. \A k \in 1..n : t[k] = s[f[k]]
  <2>1. ASSUME NEW k \in Inside PROVE t[k] = s[f[k]]
    <3>1. t[k] = v[k - from]
      BY <1>2
    <3>2. v[k - from] = b[p[k - from]]
      BY <1>4, <1>7
    <3>3. b[p[k - from]] = s[from + p[k - from]]
      BY <1>1, <1>7
    <3> QED BY <1>7, <3>1, <3>2, <3>3
  <2> HIDE DEF Inside
  <2> QED BY <1>8, <1>14, <2>1
<1>16. IsRearranged(s, t)
  <2>1. Len(t) = n
    BY <1>2 DEF SameOutside, n
  <2> QED BY <1>13, <1>15, <2>1 DEF IsRearranged, HasFirst, n
<1>17. ASSUME OnePin(s), s # <<>>, IsPinned(s[1]) PROVE t[1] = s[1]
  <2>1. n >= 1 /\ 1 \in 1..n
    BY <1>1, <1>17 DEF n
  <2>2. CASE 1 \notin Inside
    BY <1>14, <2>1, <2>2
  <2>3. CASE 1 \in Inside
    <3>1. from = 0 /\ d >= 1 /\ 1 \in 1..d
      BY <1>6, <1>7, <2>3
    <3>2. b[1] = s[1] /\ b # <<>>
      BY <1>1, <3>1
    <3>3. OnePin(b)
      <4>1. ASSUME NEW k \in 2..Len(b) PROVE b[k] \in Candidate
        <5>1. k \in 1..d /\ k \in 2..n /\ from + k = k
          BY <1>1, <1>6, <3>1
        <5>2. s[k] \in Candidate
          BY <1>17, <5>1 DEF OnePin, n
        <5> QED BY <1>1, <5>1, <5>2
      <4> QED BY <4>1 DEF OnePin
    <3>4. v[1] = b[1]
      BY <1>3, <1>17, <3>2, <3>3 DEF KeepsPin
    <3>5. t[1] = v[1]
      BY <1>2, <2>3, <3>1
    <3> QED BY <3>2, <3>4, <3>5
  <2> QED BY <2>2, <2>3
<1> QED BY <1>16, <1>17 DEF KeepsPin, t

\* A list that keeps its pin first still has no other.
LEMMA OnePinKept ==
  ASSUME NEW s \in Seq(Result), NEW t, OnePin(s), IsRearranged(s, t), KeepsPin(s, t)
  PROVE  OnePin(t)
<1>1. Len(t) = Len(s) /\ Len(s) \in Nat /\ \A k \in 1..Len(s) : s[k] \in Result
  BY DEF IsRearranged, HasFirst
<1>2. PICK p \in Rearrangements(Len(s)) : \A k \in 1..Len(s) : t[k] = s[p[k]]
  BY DEF IsRearranged, HasFirst
<1>3. SUFFICES ASSUME NEW k \in 2..Len(s) PROVE t[k] \in Candidate
  BY <1>1 DEF OnePin
<1>4. /\ k \in 1..Len(s) /\ 1 \in 1..Len(s) /\ k # 1 /\ s # <<>>
      /\ \A x, y \in 1..Len(s) : p[x] = p[y] => x = y
      /\ \A x \in 1..Len(s) : p[x] \in 1..Len(s)
      /\ \A x \in 1..Len(s) : x = 1 \/ x \in 2..Len(s)
  <2>1. k \in 1..Len(s) /\ 1 \in 1..Len(s) /\ k # 1 /\ Len(s) > 0
    BY <1>1
  <2>2. \A x \in 1..Len(s) : x = 1 \/ x \in 2..Len(s)
    BY <1>1
  <2>3. \A x, y \in 1..Len(s) : p[x] = p[y] => x = y
    BY <1>1 DEF Rearrangements
  <2>4. \A x \in 1..Len(s) : p[x] \in 1..Len(s)
    BY <1>1 DEF Rearrangements
  <2>5. s # <<>>
    BY <2>1
  <2> QED BY <2>1, <2>2, <2>3, <2>4, <2>5
<1>5. CASE p[k] # 1
  BY <1>2, <1>4, <1>5 DEF OnePin
<1>6. CASE p[k] = 1 /\ ~IsPinned(s[1])
  <2>1. s[1] \in Candidate
    <3>1. \A c \in Candidate : IsPinned(Pinned(c))
      BY PinnedFields DEF IsPinned
    <3> QED BY <1>1, <1>4, <1>6, <3>1 DEF Result
  <2> QED BY <1>2, <1>4, <1>6, <2>1
<1>7. CASE p[k] = 1 /\ IsPinned(s[1])
  <2>1. p[1] \in 2..Len(s)
    BY <1>4, <1>7
  <2>2. t[1] \in Candidate
    BY <1>2, <1>4, <2>1 DEF OnePin
  <2>3. t[1] = s[1]
    BY <1>4, <1>7 DEF KeepsPin
  <2>4. \A c \in Candidate : ~IsPinned(c)
    BY PinnedFields DEF IsPinned
  <2> QED BY <1>7, <2>2, <2>3, <2>4
<1> QED BY <1>5, <1>6, <1>7

\* A rotation behind the first position, or of an empty part, leaves the first where it is.
LEMMA RotationKeepsFirst ==
  ASSUME NEW s, NEW t, Len(s) \in Nat, s # <<>>, Len(s) > 0,
         NEW from \in Nat, NEW mid \in Nat, NEW to \in Nat,
         from <= mid, mid <= to, from > 0 \/ mid = to, IsRotation(s, from, mid, to, t)
  PROVE  t[1] = s[1]
<1>1. 0 \in 0..Len(s)-1
  OBVIOUS
<1>2. SourceOf(from, mid, to, 0) = 0
  BY DEF SourceOf
<1>3. t[0 + 1] = s[SourceOf(from, mid, to, 0) + 1]
  BY <1>1 DEF IsRotation
<1> QED BY <1>2, <1>3

\* What a step of the sort does to the list.
Moves == IsRearranged(results, results') /\ (OnePin(results) => KeepsPin(results, results'))

\* A step that does not touch the list.
LEMMA NothingMoves ==
  ASSUME SortInv, results' = results
  PROVE  Moves
<1>1. Len(results) \in Nat
  BY DEF SortInv, SortTypes
<1> QED BY <1>1, SameRearranged DEF Moves, KeepsPin

\* A block is sorted.
LEMMA BlockMoves == SortInv /\ SortBlock => Moves
<1> SUFFICES ASSUME SortInv, SortBlock PROVE Moves
  OBVIOUS
<1> DEFINE to == LesserOf(lo + size, Len(results))
<1>1. /\ results \in Seq(Result) /\ size \in Nat \ {0} /\ lo \in Nat
      /\ lo <= Len(results) /\ Len(results) \in Nat
  BY DEF SortInv, SortTypes, SortBlock
<1>2. to \in Nat /\ lo <= to /\ to <= Len(results)
  BY <1>1 DEF LesserOf
<1>3. results' = insertionSort(results, lo, to)
  BY DEF SortBlock
<1> HIDE DEF to
<1> QED BY <1>1, <1>2, <1>3, BlockRearranged DEF Moves

\* In a list with a pin, what is behind the first does not go before it.
LEMMA NoneBeforePin ==
  ASSUME NEW s \in Seq(Result), OnePin(s), IsPinned(s[1]), NEW x \in 1..Len(s)-1
  PROVE  ~Before(s, x, 0)
<1>1. x + 1 \in 2..Len(s) /\ s[1] \in Result /\ 0 + 1 = 1
  OBVIOUS
<1>2. s[x+1] \in Candidate
  BY <1>1 DEF OnePin
<1> QED BY <1>1, <1>2, PinnedIsFirst DEF Before

\* symMerge with one element on the left: the pin does not follow any.
LEMMA FirstMoves == SortInv /\ symMergeFirst => Moves
<1> SUFFICES ASSUME SortInv, symMergeFirst PROVE Moves
  OBVIOUS
<1>1. PICK c \in calls :
        /\ c.m - c.a = 1
        /\ results' = rotate(results, c.a, c.m,
                             Cut(c.m, c.b, {h \in c.m..c.b-1 : Before(results, h, c.a)}))
  BY DEF symMergeFirst
<1> DEFINE R == {h \in c.m..c.b-1 : Before(results, h, c.a)}
           cut == Cut(c.m, c.b, R)
<1>2. /\ results \in Seq(Result) /\ Len(results) \in Nat
      /\ c.a \in Nat /\ c.m \in Nat /\ c.b \in Nat
      /\ c.a < c.m /\ c.m < c.b /\ c.b <= Len(results)
  BY CallFacts
<1>3. IsCut(c.m, c.b, R, cut)
  <2> HIDE DEF R
  <2>1. c.m <= c.b
    BY <1>2
  <2> QED BY <1>2, <2>1, CutFacts
<1>4. cut \in Nat /\ c.m <= cut /\ c.a <= c.m /\ cut <= Len(results)
  <2>1. cut \in c.m..c.b
    BY <1>3 DEF IsCut
  <2> HIDE DEF cut
  <2> QED BY <1>2, <2>1
<1>5. results' = rotate(results, c.a, c.m, cut)
  BY <1>1
<1>6. cut = c.m \/ cut - 1 \in R
  BY <1>3 DEF IsCut
<1> HIDE DEF cut
<1>7. IsRotation(results, c.a, c.m, cut, results')
  BY <1>2, <1>4, <1>5, RotateFacts
<1>8. IsRearranged(results, results')
  BY <1>2, <1>4, <1>7, RotationRearranged
<1>9. ASSUME OnePin(results), results # <<>>, IsPinned(results[1])
      PROVE  results'[1] = results[1]
  <2>1. Len(results) > 0
    BY <1>2
  <2>2. ASSUME c.a = 0 PROVE cut = c.m
    <3>1. ASSUME NEW h \in R PROVE FALSE
      <4>1. h \in 1..Len(results)-1 /\ Before(results, h, 0)
        BY <1>2, <2>2, <3>1
      <4> QED BY <1>2, <1>9, <4>1, NoneBeforePin
    <3> QED BY <1>6, <3>1
  <2>3. c.a > 0 \/ c.m = cut
    BY <1>2, <2>2
  <2> QED BY <1>2, <1>4, <1>7, <1>9, <2>1, <2>3, RotationKeepsFirst
<1> QED BY <1>8, <1>9 DEF Moves, KeepsPin

\* symMerge with one element on the right: it does not go before the pin.
LEMMA LastMoves == SortInv /\ symMergeLast => Moves
<1> SUFFICES ASSUME SortInv, symMergeLast PROVE Moves
  OBVIOUS
<1>1. PICK c \in calls :
        /\ c.b - c.m = 1
        /\ results' = rotate(results,
                             Cut(c.a, c.m, {h \in c.a..c.m-1 : ~Before(results, c.m, h)}),
                             c.m, c.b)
  BY DEF symMergeLast
<1> DEFINE R == {h \in c.a..c.m-1 : ~Before(results, c.m, h)}
           cut == Cut(c.a, c.m, R)
<1>2. /\ results \in Seq(Result) /\ Len(results) \in Nat
      /\ c.a \in Nat /\ c.m \in Nat /\ c.b \in Nat
      /\ c.a < c.m /\ c.m < c.b /\ c.b <= Len(results)
  BY CallFacts
<1>3. IsCut(c.a, c.m, R, cut)
  <2> HIDE DEF R
  <2>1. c.a <= c.m
    BY <1>2
  <2> QED BY <1>2, <2>1, CutFacts
<1>4. cut \in Nat /\ c.a <= cut /\ cut <= c.m /\ c.m <= c.b
  <2>1. cut \in c.a..c.m
    BY <1>3 DEF IsCut
  <2> HIDE DEF cut
  <2> QED BY <1>2, <2>1
<1>5. results' = rotate(results, cut, c.m, c.b)
  BY <1>1
<1>6. cut = c.m \/ cut \notin R
  BY <1>3 DEF IsCut
<1> HIDE DEF cut
<1>7. IsRotation(results, cut, c.m, c.b, results')
  BY <1>2, <1>4, <1>5, RotateFacts
<1>8. IsRearranged(results, results')
  BY <1>2, <1>4, <1>7, RotationRearranged
<1>9. ASSUME OnePin(results), results # <<>>, IsPinned(results[1])
      PROVE  results'[1] = results[1]
  <2>1. Len(results) > 0 /\ c.m \in 1..Len(results)-1
    BY <1>2
  <2>2. ~Before(results, c.m, 0)
    BY <1>2, <1>9, <2>1, NoneBeforePin
  <2>3. c.a = 0 => 0 \in R
    BY <1>2, <2>2
  <2> HIDE DEF R
  <2>4. cut > 0
    BY <1>2, <1>4, <1>6, <2>3
  <2> QED BY <1>2, <1>4, <1>7, <1>9, <2>1, <2>4, RotationKeepsFirst
<1> QED BY <1>8, <1>9 DEF Moves, KeepsPin

\* symMerge with more on both sides: the range that it turns does not start at the pin.
LEMMA TurnMoves == SortInv /\ symMerge => Moves
<1> SUFFICES ASSUME SortInv, symMerge PROVE Moves
  OBVIOUS
<1>1. PICK c \in calls :
        LET start == StartOf(c)
            end   == MidOf(c) + c.m - start
        IN IF start < c.m /\ c.m < end THEN results' = rotate(results, start, c.m, end)
                                       ELSE UNCHANGED results
  BY DEF symMerge
<1> DEFINE start == StartOf(c)
           end == EndOf(c, start)
<1>2. /\ results \in Seq(Result) /\ Len(results) \in Nat /\ IsCall(c)
      /\ c.a \in Nat /\ c.m \in Nat /\ c.b \in Nat
      /\ c.a < c.m /\ c.m < c.b /\ c.b <= Len(results)
  BY CallFacts
<1>3. IsTurn(results, c, start)
  BY <1>2, StartFacts
<1>4. IF start < c.m /\ c.m < end THEN results' = rotate(results, start, c.m, end)
                                  ELSE results' = results
  BY <1>1 DEF EndOf
<1>5. MidOf(c) \in c.a+1..c.b-1
  BY <1>3 DEF IsTurn
<1>6. start \in Nat /\ start <= c.m /\ c.m <= end /\ end <= c.b
  BY <1>3 DEF IsTurn
<1>7. start < MidOf(c) /\ start < c.m => Before(results, end - 1, start)
  BY <1>3 DEF IsTurn
<1>8. end = MidOf(c) + c.m - start
  BY DEF EndOf
<1> HIDE DEF start, end
<1>9. MidOf(c) \in Nat /\ MidOf(c) > 0
  BY <1>2, <1>5
<1>10. end \in Nat /\ end <= Len(results)
  <2> HIDE DEF MidOf
  <2> QED BY <1>2, <1>6, <1>8, <1>9
<1>11. CASE ~(start < c.m /\ c.m < end)
  BY <1>4, <1>11, NothingMoves
<1>12. CASE start < c.m /\ c.m < end
  <2>1. IsRotation(results, start, c.m, end, results')
    BY <1>2, <1>4, <1>6, <1>10, <1>12, RotateFacts
  <2>2. IsRearranged(results, results')
    BY <1>2, <1>6, <1>10, <2>1, RotationRearranged
  <2>3. ASSUME OnePin(results), results # <<>>, IsPinned(results[1])
        PROVE  results'[1] = results[1]
    <3>1. Len(results) > 0
      BY <1>2
    <3>2. ASSUME start = 0 PROVE FALSE
      <4>1. end - 1 \in 1..Len(results)-1
        BY <1>2, <1>10, <1>12
      <4>2. ~Before(results, end - 1, 0)
        BY <1>2, <2>3, <4>1, NoneBeforePin
      <4> QED BY <1>7, <1>9, <1>12, <3>2, <4>2
    <3>3. start > 0
      BY <1>6, <3>2
    <3> QED BY <1>2, <1>6, <1>10, <2>1, <2>3, <3>1, <3>3, RotationKeepsFirst
  <2> QED BY <2>2, <2>3 DEF Moves, KeepsPin
<1> QED BY <1>11, <1>12

\* No step of the sort does anything else to the list.
LEMMA StepMoves == SortInv /\ [SliceStable]_sortVars => Moves
<1>1. SortInv /\ (MergePair \/ NextSize \/ Sorted \/ UNCHANGED sortVars) => Moves
  BY NothingMoves DEF MergePair, NextSize, Sorted, sortVars
<1> QED BY <1>1, BlockMoves, FirstMoves, LastMoves, TurnMoves DEF SliceStable, MergeStep

\* Blocks and merges lose and duplicate no result, for every list (rank/scorer.go tieBreak).
THEOREM MergesConserveRows == SliceStableSpec => [][IsRearranged(results, results')]_sortVars
<1>1. SortInv /\ [SliceStable]_sortVars => [IsRearranged(results, results')]_sortVars
  BY StepMoves DEF Moves
<1> QED BY <1>1, MergesKeepOrder, PTL DEF SliceStableSpec

\* The exact-name hit, first when the sort begins, is first after every step of it: "The +Inf
\* pin stays first naturally" (rank/scorer.go tieBreak), in lists of every length.
THEOREM PinFirstThroughMerges == SliceStableSpec => [][KeepsPin(results, results')]_sortVars
<1>1. SortInit => OnePin(results)
  BY BlockAssumption DEF SortInit, OnePin
<1>2. OnePin(results) /\ SortInv /\ [SliceStable]_sortVars => OnePin(results)'
  <2>1. SUFFICES ASSUME OnePin(results), SortInv, [SliceStable]_sortVars PROVE OnePin(results')
    BY DEF OnePin
  <2>2. results \in Seq(Result) /\ IsRearranged(results, results') /\ KeepsPin(results, results')
    BY <2>1, StepMoves DEF Moves, SortInv, SortTypes
  <2> QED BY <2>1, <2>2, OnePinKept
<1>3. OnePin(results) /\ SortInv /\ [SliceStable]_sortVars => [KeepsPin(results, results')]_sortVars
  BY StepMoves DEF Moves
<1> QED BY <1>1, <1>2, <1>3, MergesKeepOrder, PTL DEF SliceStableSpec

-----------------------------------------------------------------------------
(* Where the order of the comparisons cannot matter.                       *)

\* No two rows are the same and being tied is transitive: the scores fall into groups, the
\* gaps between them at least Epsilon.
TiesFormGroups(s) ==
  /\ DistinctIds(s)
  /\ \A a, b, c \in 1..Len(s) : Tied(s[a], s[b]) /\ Tied(s[b], s[c]) => Tied(s[a], s[c])

\* A rearrangement of a rearrangement is one.
LEMMA RearrangedTwice ==
  ASSUME NEW s, NEW t, NEW u, Len(s) \in Nat, IsRearranged(s, t), IsRearranged(t, u)
  PROVE  IsRearranged(s, u)
<1> DEFINE n == Len(s)
<1>1. Len(t) = n /\ Len(u) = n
  BY DEF IsRearranged, HasFirst
<1>2. PICK p \in Rearrangements(n) : \A k \in 1..n : t[k] = s[p[k]]
  BY DEF IsRearranged, HasFirst
<1>3. PICK q \in Rearrangements(n) : \A k \in 1..n : u[k] = t[q[k]]
  BY <1>1 DEF IsRearranged, HasFirst
<1> DEFINE r == [k \in 1..n |-> p[q[k]]]
<1>4. /\ \A k \in 1..n : p[k] \in 1..n /\ q[k] \in 1..n
      /\ \A a, b \in 1..n : p[a] = p[b] => a = b
      /\ \A a, b \in 1..n : q[a] = q[b] => a = b
      /\ \A k \in 1..n : \E a \in 1..n : p[a] = k
      /\ \A k \in 1..n : \E a \in 1..n : q[a] = k
  BY <1>2, <1>3 DEF Rearrangements
<1> HIDE DEF n
<1>5. r \in [1..n -> 1..n]
  BY <1>4
<1>6. \A a, b \in 1..n : r[a] = r[b] => a = b
  BY <1>4
<1>7. ASSUME NEW k \in 1..n PROVE \E a \in 1..n : r[a] = k
  <2>1. PICK b \in 1..n : p[b] = k
    BY <1>4
  <2>2. PICK a \in 1..n : q[a] = b
    BY <1>4
  <2> QED BY <2>1, <2>2
<1>8. \A k \in 1..n : u[k] = s[r[k]]
  BY <1>2, <1>3, <1>4
<1>9. r \in Rearrangements(n)
  BY <1>5, <1>6, <1>7 DEF Rearrangements
<1> QED BY <1>1, <1>8, <1>9 DEF IsRearranged, HasFirst, n

\* Of two results with different ids one goes before the other.
LEMMA LessTotal ==
  ASSUME NEW a \in Result, NEW b \in Result, a.id # b.id, ~Less(b, a)
  PROVE  Less(a, b)
<1>1. /\ a.score \in Int /\ b.score \in Int /\ a.id \in Int /\ b.id \in Int
      /\ a.dist \in Int /\ b.dist \in Int /\ a.reviews \in Int /\ b.reviews \in Int
      /\ a.claimed \in BOOLEAN /\ b.claimed \in BOOLEAN
  BY ResultTypes
<1>2. Tied(a, b) = Tied(b, a)
  BY <1>1 DEF Tied, Distance
<1>3. CASE Tied(a, b)
  BY <1>1, <1>2, <1>3 DEF Less, lessWithinTie
<1>4. CASE ~Tied(a, b)
  <2>1. a.score # b.score
    BY <1>1, <1>4, ScaleAssumption DEF Tied, Distance
  <2> QED BY <1>1, <1>2, <1>4, <2>1 DEF Less
<1> QED BY <1>3, <1>4

\* In such a list the comparator may be followed along.
LEMMA GroupsTransitive ==
  ASSUME NEW s \in Seq(Result), TiesFormGroups(s),
         NEW a \in 1..Len(s), NEW b \in 1..Len(s), NEW c \in 1..Len(s),
         ~Less(s[a], s[b]), ~Less(s[b], s[c])
  PROVE  ~Less(s[a], s[c])
<1>1. s[a] \in Result /\ s[b] \in Result /\ s[c] \in Result
  OBVIOUS
<1>2. /\ Tied(s[a], s[b]) /\ Tied(s[b], s[c]) => Tied(s[a], s[c])
      /\ Tied(s[a], s[c]) /\ Tied(s[c], s[b]) => Tied(s[a], s[b])
      /\ Tied(s[b], s[a]) /\ Tied(s[a], s[c]) => Tied(s[b], s[c])
  BY DEF TiesFormGroups
<1> QED BY <1>1, <1>2, LessNegativelyTransitive

\* With its neighbours in order such a list is in order altogether.
LEMMA GroupsInOrderThroughout ==
  ASSUME NEW s \in Seq(Result), TiesFormGroups(s), NEW t, IsRearranged(s, t), InOrder(t),
         NEW p \in Rearrangements(Len(s)), \A k \in 1..Len(s) : t[k] = s[p[k]],
         NEW a \in 1..Len(s), NEW b \in 1..Len(s), a < b
  PROVE  Less(s[p[a]], s[p[b]])
<1> DEFINE n == Len(s)
           G == {m \in 0..n-a : ~Less(t[a + m], t[a])}
<1>1. n \in Nat /\ a \in 1..n /\ b \in 1..n /\ n - a \in Nat /\ Len(t) = n
  BY DEF IsRearranged, HasFirst
<1>2. \A k \in 1..n : p[k] \in 1..n /\ t[k] = s[p[k]] /\ s[k] \in Result
  <2>1. p \in [1..n -> 1..n]
    BY DEF Rearrangements
  <2>2. \A k \in 1..n : s[k] \in Result
    OBVIOUS
  <2> QED BY <2>1, <2>2
<1>3. p[a] # p[b]
  BY <1>1 DEF Rearrangements
<1>4. \A k \in 1..n-1 : ~Less(t[k + 1], t[k])
  BY <1>1 DEF InOrder
<1> HIDE DEF n
<1>5. 0 \in G
  <2>1. a + 0 = a /\ t[a] \in Result
    BY <1>1, <1>2
  <2>2. ~Less(t[a], t[a])
    BY <2>1, LessAsymmetric
  <2> QED BY <1>1, <2>1, <2>2
<1>6. ASSUME NEW m \in 1..n-a, m - 1 \in G PROVE m \in G
  <2>1. /\ a + m \in 1..n /\ a + (m - 1) \in 1..n-1 /\ (a + (m - 1)) + 1 = a + m
        /\ a + (m - 1) \in 1..n /\ m \in 0..n-a
    BY <1>1
  <2>2. ~Less(t[a + m], t[a + (m - 1)]) /\ ~Less(t[a + (m - 1)], t[a])
    BY <1>4, <1>6, <2>1
  <2>3. ~Less(s[p[a + m]], s[p[a + (m - 1)]]) /\ ~Less(s[p[a + (m - 1)]], s[p[a]])
    BY <1>1, <1>2, <2>1, <2>2
  <2>4. ~Less(s[p[a + m]], s[p[a]])
    BY <1>1, <1>2, <2>1, <2>3, GroupsTransitive DEF n
  <2>5. ~Less(t[a + m], t[a])
    BY <1>1, <1>2, <2>1, <2>4
  <2> QED BY <2>1, <2>5
<1>7. \A m \in 0..n-a : m \in G
  <2> HIDE DEF G
  <2> QED BY <1>1, <1>5, <1>6, Induction
<1>8. b - a \in 0..n-a /\ a + (b - a) = b
  BY <1>1
<1>9. ~Less(t[b], t[a])
  BY <1>7, <1>8
<1>10. ~Less(s[p[b]], s[p[a]])
  BY <1>1, <1>2, <1>9
<1>11. s[p[a]].id # s[p[b]].id
  BY <1>1, <1>2, <1>3 DEF TiesFormGroups, DistinctIds, n
<1> QED BY <1>1, <1>2, <1>10, <1>11, LessTotal

\* There is one way only to put the neighbours of such a list in order.
LEMMA OneOrder ==
  ASSUME NEW s \in Seq(Result), TiesFormGroups(s),
         NEW t \in Seq(Result), IsRearranged(s, t), InOrder(t),
         NEW u \in Seq(Result), IsRearranged(s, u), InOrder(u)
  PROVE  t = u
<1> DEFINE n == Len(s)
           K == 1..n
           R == {e \in K \X K : Less(s[e[1]], s[e[2]])}
<1>1. n \in Nat /\ Len(t) = n /\ Len(u) = n /\ \A k \in 1..n : s[k] \in Result
  BY DEF IsRearranged, HasFirst
<1>2. PICK p \in Rearrangements(n) : \A k \in 1..n : t[k] = s[p[k]]
  BY DEF IsRearranged, HasFirst
<1>3. PICK q \in Rearrangements(n) : \A k \in 1..n : u[k] = s[q[k]]
  BY DEF IsRearranged, HasFirst
<1>4. IsListing(n, K, R, p)
  <2>1. p \in [1..n -> K] /\ \A k \in K : \E a \in 1..n : p[a] = k
    BY <1>2 DEF Rearrangements
  <2>2. ASSUME NEW a \in 1..n, NEW b \in 1..n, a < b PROVE <<p[a], p[b]>> \in R
    <3>1. Less(s[p[a]], s[p[b]])
      BY <1>2, <2>2, GroupsInOrderThroughout
    <3> QED BY <2>1, <3>1
  <2> QED BY <2>1, <2>2 DEF IsListing
<1>5. IsListing(n, K, R, q)
  <2>1. q \in [1..n -> K] /\ \A k \in K : \E a \in 1..n : q[a] = k
    BY <1>3 DEF Rearrangements
  <2>2. ASSUME NEW a \in 1..n, NEW b \in 1..n, a < b PROVE <<q[a], q[b]>> \in R
    <3>1. Less(s[q[a]], s[q[b]])
      BY <1>3, <2>2, GroupsInOrderThroughout
    <3> QED BY <2>1, <3>1
  <2> QED BY <2>1, <2>2 DEF IsListing
<1>6. IsStrictOrder(K, R)
  <2>1. ASSUME NEW x \in K PROVE <<x, x>> \notin R
    BY <1>1, LessAsymmetric
  <2>2. ASSUME NEW x \in K, NEW y \in K, NEW z \in K, <<x, y>> \in R, <<y, z>> \in R
        PROVE  <<x, z>> \in R
    <3>1. Less(s[x], s[y]) /\ Less(s[y], s[z])
      BY <2>2
    <3>2. s[x] \in Result /\ s[y] \in Result /\ s[z] \in Result
      BY <1>1
    <3>3. ~Less(s[y], s[x]) /\ ~Less(s[z], s[y])
      BY <3>1, <3>2, LessAsymmetric
    <3>4. ~Less(s[z], s[x])
      BY <3>3, GroupsTransitive
    <3>5. x # z
      BY <3>1, <3>3
    <3>6. s[x].id # s[z].id
      BY <3>5 DEF TiesFormGroups, DistinctIds
    <3>7. Less(s[x], s[z])
      BY <3>2, <3>4, <3>6, LessTotal
    <3> QED BY <3>7
  <2> QED BY <2>1, <2>2 DEF IsStrictOrder
<1>7. p = q
  <2> HIDE DEF n, K, R
  <2> QED BY <1>1, <1>4, <1>5, <1>6, ListingUnique
<1>8. \A k \in 1..n : t[k] = u[k]
  BY <1>2, <1>3, <1>7
<1> QED BY <1>1, <1>8

\* Where ties form groups the merges leave what the insertion sort alone would leave, for
\* lists and blocks of every length: there Run is what the code computes, be the list longer
\* than a block or not (rank/scorer.go tieBreak).
THEOREM GroupsMergeAlike ==
  ASSUME NEW s \in Lists, TiesFormGroups(s)
  PROVE  SliceStableSpec /\ results = s => [](phase = "sorted" => results = tieBreak(s))
<1>1. s \in Seq(Result) /\ Len(s) \in Nat
  BY BlockAssumption
<1>2. results = s => IsRearranged(s, results)
  BY <1>1, SameRearranged
<1>3. SortInv /\ IsRearranged(s, results) /\ [SliceStable]_sortVars => IsRearranged(s, results)'
  <2>1. SUFFICES ASSUME SortInv, IsRearranged(s, results), [SliceStable]_sortVars
                 PROVE  IsRearranged(s, results')
    BY DEF IsRearranged, HasFirst
  <2>2. IsRearranged(results, results')
    BY <2>1, StepMoves DEF Moves
  <2> QED BY <1>1, <2>1, <2>2, RearrangedTwice
<1>4. SortInv /\ IsRearranged(s, results) => (phase = "sorted" => results = tieBreak(s))
  <2>1. SUFFICES ASSUME SortInv, IsRearranged(s, results), phase = "sorted"
                 PROVE  results = tieBreak(s)
    OBVIOUS
  <2>2. results \in Seq(Result) /\ InOrder(results)
    BY <2>1, AllMerged DEF SortInv, SortTypes, NeighboursOrderedAfterMerges, InOrder
  <2>3. tieBreak(s) \in Seq(Result) /\ InOrder(tieBreak(s)) /\ IsRearranged(s, tieBreak(s))
    BY <1>1, TieBreakInOrder, TieBreakRearranged
  <2> QED BY <1>1, <2>1, <2>2, <2>3, OneOrder
<1> QED BY <1>2, <1>3, <1>4, MergesKeepOrder, PTL DEF SliceStableSpec

\* The course of the sort of a list s that one block holds.
OneBlock(s) ==
  /\ size = BlockSize /\ calls = {} /\ lo \in Nat
  /\ phase = "blocks" /\ lo = 0 => results = s
  /\ phase = "blocks" /\ lo # 0 => lo = Len(s) /\ results = tieBreak(s)
  /\ phase # "blocks" => results = tieBreak(s)

\* A list that one block holds is sorted by insertion alone, and the block behind it is empty.
LEMMA OneBlockStep ==
  ASSUME NEW s \in Seq(Result), BlockSize \in Nat \ {0}, Len(s) <= BlockSize,
         OneBlock(s), [SliceStable]_sortVars
  PROVE  OneBlock(s)'
<1> DEFINE n == Len(s)
<1>1. n \in Nat /\ n <= BlockSize /\ BlockSize > 0
  OBVIOUS
<1>2. tieBreak(s) \in Seq(Result) /\ Len(tieBreak(s)) = n
  BY TieBreakInOrder
<1>3. Len(results) = n
  BY <1>2 DEF OneBlock
<1> HIDE DEF n
<1>4. CASE SortBlock
  <2>1. CASE lo = 0
    <3>1. results = s /\ phase = "blocks" /\ LesserOf(lo + size, Len(results)) = n
      BY <1>1, <1>3, <1>4, <2>1 DEF OneBlock, SortBlock, LesserOf
    <3>2. results' = insertionSort(s, 0, n)
      BY <1>4, <2>1, <3>1 DEF SortBlock
    <3>3. /\ results' \in Seq(Result) /\ Len(results') = n
          /\ \A k \in 0+1..n : results'[k] = tieBreak(SubSeq(s, 0 + 1, n))[k - 0]
      BY <1>1, <3>2, BlockFacts DEF SameOutside, n
    <3>4. tieBreak(SubSeq(s, 1, n)) = tieBreak(s)
      BY TieBreakStep DEF n
    <3>5. \A k \in 1..n : results'[k] = tieBreak(s)[k]
      <4>1. 0 + 1 = 1 /\ \A k \in 1..n : k - 0 = k
        BY <1>1
      <4> QED BY <3>3, <3>4, <4>1
    <3>6. results' = tieBreak(s)
      BY <1>1, <1>2, <3>3, <3>5
    <3>7. phase' = "blocks" => lo' = n
      <4>1. ~(lo + size <= Len(results)) => phase' = "merge"
        BY <1>4 DEF SortBlock
      <4>2. lo + size <= Len(results) => lo' = lo + size
        BY <1>4 DEF SortBlock
      <4>3. lo + size = BlockSize
        BY <1>1, <2>1 DEF OneBlock
      <4> QED BY <1>1, <1>3, <4>1, <4>2, <4>3
    <3> QED BY <1>4, <3>6, <3>7 DEF OneBlock, SortBlock, n
  <2>2. CASE lo # 0
    <3>1. lo = n /\ results = tieBreak(s) /\ size = BlockSize
      BY <1>4, <2>2 DEF OneBlock, SortBlock, n
    <3>2. LesserOf(lo + size, Len(results)) = n /\ ~(lo + size <= Len(results))
      BY <1>1, <1>3, <3>1 DEF LesserOf
    <3>3. results' = insertionSort(results, n, n) /\ phase' = "merge"
      BY <1>4, <3>1, <3>2 DEF SortBlock
    <3>4. results' \in Seq(Result) /\ SameOutside(results, n, n, results')
      BY <1>1, <1>2, <1>3, <3>1, <3>3, BlockFacts
    <3>5. \A k \in 1..n : results'[k] = results[k]
      <4>1. \A k \in 1..n : k - 1 \in 0..n-1 /\ (k - 1) + 1 = k /\ k - 1 < n
        BY <1>1
      <4>2. ASSUME NEW k \in 1..n PROVE results'[(k - 1) + 1] = results[(k - 1) + 1]
        BY <1>3, <3>4, <4>1 DEF SameOutside
      <4> QED BY <4>1, <4>2
    <3>6. results' = results
      BY <1>1, <1>2, <1>3, <3>1, <3>4, <3>5 DEF SameOutside
    <3> QED BY <1>4, <3>1, <3>3, <3>6 DEF OneBlock, SortBlock
  <2> QED BY <2>1, <2>2
<1>5. ~MergePair /\ ~MergeStep /\ ~NextSize
  BY <1>1, <1>3
     DEF OneBlock, MergePair, MergeStep, symMergeFirst, symMergeLast, symMerge, NextSize
<1>6. CASE Sorted
  BY <1>6 DEF Sorted, OneBlock
<1>7. CASE UNCHANGED sortVars
  BY <1>7 DEF sortVars, OneBlock
<1> QED BY <1>4, <1>5, <1>6, <1>7 DEF SliceStable

\* A list that one block holds ends as tieBreak has it (rank/scorer.go tieBreak).
THEOREM OneBlockAlike ==
  ASSUME NEW s \in Lists, Len(s) <= BlockSize
  PROVE  SliceStableSpec /\ results = s => [](phase = "sorted" => results = tieBreak(s))
<1>1. s \in Seq(Result) /\ BlockSize \in Nat \ {0}
  BY BlockAssumption
<1>2. SortInit /\ results = s => OneBlock(s)
  BY DEF SortInit, OneBlock
<1>3. OneBlock(s) /\ [SliceStable]_sortVars => OneBlock(s)'
  BY <1>1, OneBlockStep
<1>4. OneBlock(s) => (phase = "sorted" => results = tieBreak(s))
  BY DEF OneBlock
<1> QED BY <1>2, <1>3, <1>4, PTL DEF SliceStableSpec
=============================================================================
