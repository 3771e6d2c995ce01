---------------------------- MODULE StableTieBreak ----------------------------
(***************************************************************************)
(* tieBreak on a list of any length: sort.SliceStable of the Go library    *)
(* sorts blocks by insertion (the part RankRun follows comparison by       *)
(* comparison) and merges neighbouring blocks with symMerge, which finds   *)
(* its cuts by binary search.  A binary search trusts the comparator to be *)
(* transitive; the comparator of tieBreak is not.                          *)
(*                                                                         *)
(* Positions are those of the code, from 0, except in TLA+ sequences.      *)
(***************************************************************************)
EXTENDS Ranking

CONSTANTS
  Lists,      \* the lists applyPin can hand over
  BlockSize   \* blockSize of the Go library

\* Only the first result may be the pin.
ASSUME BlockAssumption ==
  /\ BlockSize \in Nat \ {0}
  /\ \A s \in Lists : s \in Seq(Result) /\ \A k \in 2..Len(s) : s[k] \in Candidate

VARIABLES
  results,  \* the list
  size,     \* blockSize in the course of the sort
  lo,       \* where the next block or pair of blocks starts
  phase,    \* "blocks", "merge" or "sorted"
  calls     \* the calls of symMerge still to be made: their a, m and b

sortVars == <<results, size, lo, phase, calls>>

LesserOf(x, y) == IF x < y THEN x ELSE y

Before(s, x, y) == Less(s[x + 1], s[y + 1])

\* Insert moves an element left past those it goes before: one pass per element.
insertionSort(s, from, to) ==
  SubSeq(s, 1, from) \o tieBreak(SubSeq(s, from + 1, to))
                     \o SubSeq(s, to + 1, Len(s))

\* s[from..mid) and s[mid..to) change places.
rotate(s, from, mid, to) ==
  [k \in 1..Len(s) |-> CASE k \in from + 1..from + to - mid -> s[k + (mid - from)]
                        [] k \in from + to - mid + 1..to   -> s[k - (to - mid)]
                        [] OTHER                           -> s[k]]

\* Half of the range r, if it has any; the positions in right send the search to the right.
Halved(r, right) ==
  IF r[1] >= r[2] THEN r
  ELSE LET h == (r[1] + r[2]) \div 2 IN IF h \in right THEN <<h + 1, r[2]>> ELSE <<r[1], h>>

\* Mutant of Cut: the search ends one position early.
CutShort(from, to, right) ==
  LET Pass(r) == IF r[2] - r[1] <= 1 THEN r ELSE Halved(r, right)
      search[k \in 0..to-from] == IF k = 0 THEN <<from, to>> ELSE Pass(search[k-1])
  IN search[to - from][1]

\* Binary search in from..to, in no more passes than there are positions.
Cut(from, to, right) ==
  LET search[k \in 0..to-from] == IF k = 0 THEN <<from, to>> ELSE Halved(search[k-1], right)
  IN search[to - from][1]

SortInit ==
  /\ results \in Lists
  /\ size = BlockSize /\ lo = 0 /\ phase = "blocks" /\ calls = {}

SortBlock ==
  /\ phase = "blocks"
  /\ results' = insertionSort(results, lo, LesserOf(lo + size, Len(results)))
  /\ IF lo + size <= Len(results) THEN lo' = lo + size /\ UNCHANGED phase
                                  ELSE lo' = 0 /\ phase' = "merge"
  /\ UNCHANGED <<size, calls>>

MergePair ==
  /\ phase = "merge" /\ calls = {}
  /\ lo + size < Len(results)
  /\ calls' = {[a |-> lo, m |-> lo + size, b |-> LesserOf(lo + 2 * size, Len(results))]}
  /\ lo' = lo + 2 * size
  /\ UNCHANGED <<results, size, phase>>

\* The innermost call runs to its end first, and a call's left half before its right:
\* the next call to be made is the leftmost.
IsNext(c) == c \in calls /\ \A d \in calls : c.a <= d.a

\* One element on the left: it moves right, in front of the first it does not follow.
symMergeFirst ==
  \E c \in calls :
    /\ IsNext(c)
    /\ c.m - c.a = 1
    /\ LET i == Cut(c.m, c.b, {h \in c.m..c.b-1 : Before(results, h, c.a)})
       IN results' = rotate(results, c.a, c.m, i)
    /\ calls' = calls \ {c}
    /\ UNCHANGED <<size, lo, phase>>

\* One element on the right: it moves left, behind the last it does not go before.
symMergeLast ==
  \E c \in calls :
    /\ IsNext(c)
    /\ c.m - c.a # 1 /\ c.b - c.m = 1
    /\ LET i == Cut(c.a, c.m, {h \in c.a..c.m-1 : ~Before(results, c.m, h)})
       IN results' = rotate(results, i, c.m, c.b)
    /\ calls' = calls \ {c}
    /\ UNCHANGED <<size, lo, phase>>

\* Where the halves of a call meet.
MidOf(c) == (c.a + c.b) \div 2

\* The start of the range that changes places around MidOf(c).
StartOf(c) ==
  LET n     == MidOf(c) + c.m
      left  == IF c.m > MidOf(c) THEN n - c.b ELSE c.a
      right == IF c.m > MidOf(c) THEN MidOf(c) ELSE c.m
  IN Cut(left, right, {h \in left..right-1 : ~Before(results, n - 1 - h, h)})

\* What s[start..m) and s[m..end) leave to do in the two halves.
HalvesOf(c, start, end) ==
  {d \in {[a |-> c.a, m |-> start, b |-> MidOf(c)], [a |-> MidOf(c), m |-> end, b |-> c.b]} :
     d.a < d.m /\ d.m < d.b}

symMerge ==
  \E c \in calls :
    /\ IsNext(c)
    /\ c.m - c.a # 1 /\ c.b - c.m # 1
    /\ LET start == StartOf(c)
           end   == MidOf(c) + c.m - start
       IN /\ IF start < c.m /\ c.m < end THEN results' = rotate(results, start, c.m, end)
                                         ELSE UNCHANGED results
          /\ calls' = (calls \ {c}) \cup HalvesOf(c, start, end)
    /\ UNCHANGED <<size, lo, phase>>

NextSize ==
  /\ phase = "merge" /\ calls = {}
  /\ size < Len(results) /\ lo + size >= Len(results)
  /\ size' = 2 * size /\ lo' = 0
  /\ UNCHANGED <<results, phase, calls>>

Sorted ==
  /\ phase = "merge" /\ calls = {} /\ size >= Len(results)
  /\ phase' = "sorted"
  /\ UNCHANGED <<results, size, lo, calls>>

MergeStep == symMergeFirst \/ symMergeLast \/ symMerge

SliceStable == SortBlock \/ MergePair \/ MergeStep \/ NextSize \/ Sorted

SliceStableSpec == SortInit /\ [][SliceStable]_sortVars
-----------------------------------------------------------------------------
\* Binary searches on a comparator that is not transitive still leave every pair of
\* neighbours in tie-break order (rank/scorer.go tieBreak).
NeighboursOrderedAfterMerges ==
  phase = "sorted" =>
    \A k \in 1..Len(results)-1 : ~Less(results[k+1], results[k])

\* Documented: the higher final score goes first, and only within tie_epsilon do the other
\* keys decide (docs/ranking/semantics.md:347-354, rank/scorer.go tieBreak).  No result is in
\* front of one that scores Epsilon or more above it.
HigherScoreFirst ==
  phase = "sorted" =>
    \A a, b \in 1..Len(results) : a < b => results[b].score - results[a].score < Epsilon
=============================================================================
