------------------------------- MODULE Ranking -------------------------------
(***************************************************************************)
(* The ranker's vocabulary: candidates, the comparator of the tie-break    *)
(* and the stages of rank.Run as operators over sequences.                 *)
(*                                                                         *)
(* A candidate is a record of what the ranker reads.  score stands for the *)
(* value scoreCandidate computes (a weighted sum of seven signals); it is  *)
(* measured in an integer unit in which tieEpsilon and swapWindow are      *)
(* Epsilon and SwapWindow.  dropped stands for the test of hardFilter: the *)
(* archetype demands hard filtering and the row is explicitly closed.      *)
(***************************************************************************)
EXTENDS Integers, Sequences, FiniteSets, SequencesExt

CONSTANTS
  Candidate,   \* the candidates retrieval can return, a set of records
  Epsilon,     \* tieEpsilon
  SwapWindow,  \* config new_business.swap_window
  Infinity,    \* math.Inf(1), the score of the exact-name pin
  NoPin        \* no exact-name hit

\* Distances, review counts, ids and scores are integers; every score is finite, so
\* +Inf beats it by at least Epsilon.
ASSUME CandidateAssumption ==
  \A c \in Candidate :
    /\ c = [id |-> c.id, name |-> c.name, score |-> c.score, claimed |-> c.claimed,
            dist |-> c.dist, reviews |-> c.reviews, isNew |-> c.isNew,
            dropped |-> c.dropped]
    /\ c.id \in Int /\ c.score \in Int /\ c.dist \in Int /\ c.reviews \in Int
    /\ c.claimed \in BOOLEAN /\ c.isNew \in BOOLEAN /\ c.dropped \in BOOLEAN
    /\ Infinity - c.score >= Epsilon

ASSUME ScaleAssumption ==
  /\ Epsilon \in Int /\ Epsilon > 0
  /\ SwapWindow \in Int
  /\ Infinity \in Int
  /\ NoPin \notin Candidate

\* Mutant of dePinTopN: only the first place is guarded.
dePinTop1 == 1

dePinTopN == 2

Pinned(c) == [c EXCEPT !.score = Infinity]
IsPinned(r) == r.score = Infinity

\* A result is a candidate with its score, or a pinned candidate.
Result == Candidate \cup {Pinned(c) : c \in Candidate}

Distance(x, y) == IF x >= y THEN x - y ELSE y - x

\* Two results are tied when their scores differ by less than Epsilon.
Tied(a, b) == Distance(a.score, b.score) < Epsilon

lessWithinTie(a, b) ==
  \/ a.claimed /\ ~b.claimed
  \/ /\ a.claimed = b.claimed
     /\ \/ a.dist < b.dist
        \/ a.dist = b.dist /\ a.reviews > b.reviews
        \/ a.dist = b.dist /\ a.reviews = b.reviews /\ a.id < b.id

\* Mutant of Less: the score band is forgotten and the tie keys decide every pair.
LessIgnoringScore(a, b) == lessWithinTie(a, b)

\* a goes before b: the comparator of tieBreak.
Less(a, b) ==
  IF Tied(a, b) THEN lessWithinTie(a, b) ELSE a.score > b.score

\* Ids come from a primary key and the recall arms are joined on them.
DistinctIds(s) == \A a, b \in 1..Len(s) : s[a].id = s[b].id => a = b

IsKept(c) == ~c.dropped

\* The increasing enumerations of a set of positions: what filtering a slice in place
\* selects (there is exactly one).
Enumerations(K) ==
  {f \in [1..Cardinality(K) -> K] : \A a, b \in DOMAIN f : a < b => f[a] < f[b]}

Rearrangements(n) ==
  {p \in [1..n -> 1..n] : /\ \A a, b \in 1..n : p[a] = p[b] => a = b
                          /\ \A k \in 1..n : \E a \in 1..n : p[a] = k}

Selected(s, f) == [k \in DOMAIN f |-> s[f[k]]]

Filtered(s, K) == Selected(s, CHOOSE f \in Enumerations(K) : TRUE)

hardFilter(s) == Filtered(s, {k \in 1..Len(s) : IsKept(s[k])})

\* p puts s in descending order of score, equal scores keeping their order.
StableDescending(s, p) ==
  \A a, b \in 1..Len(s) :
    a < b => \/ s[p[a]].score > s[p[b]].score
             \/ s[p[a]].score = s[p[b]].score /\ p[a] < p[b]

sortByScore(s) ==
  Selected(s, CHOOSE p \in Rearrangements(Len(s)) : StableDescending(s, p))

\* Mutant of applyPin: the candidate with the pin's id stays.
applyPinKeepingCandidate(s, pin) == IF pin = NoPin THEN s ELSE <<Pinned(pin)>> \o s

\* The pin goes first; a candidate with its id is removed.
applyPin(s, pin) ==
  IF pin = NoPin THEN s
  ELSE <<Pinned(pin)>> \o Filtered(s, {k \in 1..Len(s) : s[k].id # pin.id})

\* Mutant of Swapped: a plain assignment, without the parallel one.
Overwritten(s, a, b) == [s EXCEPT ![a] = s[b]]

Swapped(s, a, b) == [s EXCEPT ![a] = s[b], ![b] = s[a]]

\* x moves left past the results it goes before, and stops at the first it does not.
Insert(s, x) ==
  LET blocked == {k \in 1..Len(s) : ~Less(x, s[k])}
  IN InsertAt(s, Max({0} \cup blocked) + 1, x)

\* sorted[k]: the first k results, in the order of the tie-break.
tieBreak(s) ==
  LET sorted[k \in 0..Len(s)] == IF k = 0 THEN <<>> ELSE Insert(sorted[k - 1], s[k])
  IN sorted[Len(s)]

\* The positions that may take the place of the new business at position k.
Replacements(s, k) ==
  {q \in k+1..Len(s) : ~s[q].isNew /\ s[k].score - s[q].score < SwapWindow}

Guarded(s, k) ==
  /\ k \in 1..Len(s)
  /\ ~IsPinned(s[k])
  /\ s[k].isNew

dePinAt(s, k) ==
  IF Guarded(s, k) /\ Replacements(s, k) # {}
  THEN Swapped(s, k, Min(Replacements(s, k)))
  ELSE s

\* guarded[k]: the list once its first k places are.
dePin(s) ==
  LET guarded[k \in 0..dePinTopN] == IF k = 0 THEN s ELSE dePinAt(guarded[k - 1], k)
  IN guarded[dePinTopN]

truncate(s, limit) ==
  IF limit >= 0 /\ limit < Len(s) THEN SubSeq(s, 1, limit) ELSE s

Run(s, pin, limit) ==
  truncate(dePin(tieBreak(applyPin(sortByScore(hardFilter(s)), pin))), limit)
=============================================================================
