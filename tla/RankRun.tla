------------------------------- MODULE RankRun -------------------------------
(***************************************************************************)
(* One call of rank.Run, stage by stage.  The tie-break is the insertion   *)
(* sort sort.SliceStable performs on one block (at most 20 elements), one  *)
(* comparison per step: its comparator is not transitive, so what it       *)
(* leaves behind depends on the comparisons it makes.                      *)
(***************************************************************************)
EXTENDS Ranking

CONSTANTS
  Inputs,   \* the candidate sequences retrieval can hand over
  Pins,     \* the exact-name hits, candidates
  Limit     \* opts.Limit

\* A list is sorted as one block, the pin included; StableTieBreak has the longer ones.
ASSUME InputAssumption ==
  /\ Inputs \subseteq Seq(Candidate)
  /\ \A s \in Inputs : DistinctIds(s) /\ Len(s) < 20
  /\ Pins \subseteq Candidate
  /\ Limit \in Int

VARIABLES
  pc,          \* the stage about to run
  candidates,  \* Run's argument
  pin,         \* Run's argument
  list,        \* results
  i, j         \* the insertion sort's loop variables; i is also dePin's

vars == <<pc, candidates, pin, list, i, j>>

Stages == {"start", "score", "sort", "pin", "tie", "dePin", "truncate", "done", "cancelled"}

TypeOK ==
  /\ pc \in Stages
  /\ candidates \in Inputs
  /\ pin \in Pins \cup {NoPin}
  /\ list \in Seq(Result)
  /\ i \in Nat /\ j \in Nat

Init ==
  /\ pc = "start"
  /\ candidates \in Inputs
  /\ pin \in Pins \cup {NoPin}
  /\ list = <<>>
  /\ i = 0 /\ j = 0

\* ctx.Err() is looked at once, before anything else.
Start ==
  /\ pc = "start"
  /\ pc' \in {"score", "cancelled"}
  /\ UNCHANGED <<candidates, pin, list, i, j>>

\* hardFilter, then scoreAll.
FilterAndScore ==
  /\ pc = "score"
  /\ \E f \in Enumerations({k \in 1..Len(candidates) : IsKept(candidates[k])}) :
       list' = Selected(candidates, f)
  /\ pc' = "sort"
  /\ UNCHANGED <<candidates, pin, i, j>>

Sort ==
  /\ pc = "sort"
  /\ \E p \in Rearrangements(Len(list)) :
       /\ StableDescending(list, p)
       /\ list' = Selected(list, p)
  /\ pc' = "pin"
  /\ UNCHANGED <<candidates, pin, i, j>>

PinFirst ==
  \E f \in Enumerations({k \in 1..Len(list) : list[k].id # pin.id}) :
    list' = <<Pinned(pin)>> \o Selected(list, f)

\* Mutant of ApplyPin: the insertion sort starts at the third element.
ApplyPinSkippingFirstPair ==
  /\ pc = "pin"
  /\ IF pin = NoPin THEN UNCHANGED list ELSE PinFirst
  /\ pc' = "tie"
  /\ i' = 3 /\ j' = 3
  /\ UNCHANGED <<candidates, pin>>

ApplyPin ==
  /\ pc = "pin"
  /\ IF pin = NoPin THEN UNCHANGED list ELSE PinFirst
  /\ pc' = "tie"
  /\ i' = 2 /\ j' = 2
  /\ UNCHANGED <<candidates, pin>>

\* for j := i; j > a && less(j, j-1); j-- { swap(j, j-1) }
TieSwap ==
  /\ pc = "tie"
  /\ i <= Len(list)
  /\ j > 1
  /\ Less(list[j], list[j-1])
  /\ list' = Swapped(list, j, j-1)
  /\ j' = j - 1
  /\ UNCHANGED <<pc, candidates, pin, i>>

TieNext ==
  /\ pc = "tie"
  /\ i <= Len(list)
  /\ j > 1 => ~Less(list[j], list[j-1])
  /\ i' = i + 1 /\ j' = i + 1
  /\ UNCHANGED <<pc, candidates, pin, list>>

TieDone ==
  /\ pc = "tie"
  /\ i > Len(list)
  /\ pc' = "dePin"
  /\ i' = 1 /\ j' = 0
  /\ UNCHANGED <<candidates, pin, list>>

\* Mutant of DePinSwap: no break, so the last replacement wins.
DePinSwapLast ==
  /\ pc = "dePin"
  /\ i <= dePinTopN
  /\ Guarded(list, i)
  /\ \E q \in Replacements(list, i) :
       /\ \A m \in Replacements(list, i) : q >= m
       /\ list' = Swapped(list, i, q)
  /\ i' = i + 1
  /\ UNCHANGED <<pc, candidates, pin, j>>

\* The guarded position i takes the first replacement behind it.
DePinSwap ==
  /\ pc = "dePin"
  /\ i <= dePinTopN
  /\ Guarded(list, i)
  /\ \E q \in Replacements(list, i) :
       /\ \A m \in Replacements(list, i) : q <= m
       /\ list' = Swapped(list, i, q)
  /\ i' = i + 1
  /\ UNCHANGED <<pc, candidates, pin, j>>

DePinKeep ==
  /\ pc = "dePin"
  /\ i <= dePinTopN
  /\ Guarded(list, i) => Replacements(list, i) = {}
  /\ i' = i + 1
  /\ UNCHANGED <<pc, candidates, pin, list, j>>

DePinDone ==
  /\ pc = "dePin"
  /\ i > dePinTopN
  /\ pc' = "truncate"
  /\ UNCHANGED <<candidates, pin, list, i, j>>

Truncate ==
  /\ pc = "truncate"
  /\ list' = truncate(list, Limit)
  /\ pc' = "done"
  /\ UNCHANGED <<candidates, pin, i, j>>

Next ==
  \/ Start \/ FilterAndScore \/ Sort \/ ApplyPin
  \/ TieSwap \/ TieNext \/ TieDone
  \/ DePinSwap \/ DePinKeep \/ DePinDone
  \/ Truncate

Spec == Init /\ [][Next]_vars
-----------------------------------------------------------------------------
TieBroken == pc = "dePin" /\ i = 1
Ranked == pc \in {"truncate", "done"}

\* However the comparator's cycles fall, no result ends up ahead of one that scores
\* Epsilon or more above it: insertion only passes results it is tied with
\* (rank/scorer.go tieBreak after sortByScore).
NoOvertakingBeyondEpsilon ==
  TieBroken =>
    \A a, b \in 1..Len(list) : a < b => list[b].score - list[a].score < Epsilon

\* Neighbours are in tie-break order, even where the order is not transitive
\* (rank/scorer.go tieBreak).
NeighboursOrdered ==
  TieBroken => \A a \in 1..Len(list)-1 : ~Less(list[a+1], list[a])

\* Where being tied is transitive - the scores fall into groups with gaps between
\* them - the whole list is in tie-break order (rank/scorer.go tieBreak).
GroupsFullyOrdered ==
  /\ TieBroken
  /\ \A a, b, c \in 1..Len(list) :
       Tied(list[a], list[b]) /\ Tied(list[b], list[c]) => Tied(list[a], list[c])
  => \A a, b \in 1..Len(list) : a < b => ~Less(list[b], list[a])

\* From the pin stage on the exact-name hit is first with the score +Inf and its id
\* appears nowhere else, whatever retrieval returned for it (applyPin, tieBreak, dePin).
PinStaysFirst ==
  pin # NoPin /\ pc \in {"tie", "dePin", "truncate"} =>
    /\ Len(list) > 0
    /\ list[1] = Pinned(pin)
    /\ \A k \in 2..Len(list) : list[k].id # pin.id

\* Sorting, pinning, tie-breaking and de-pinning lose and duplicate no candidate: the
\* list holds each surviving candidate once and the pin once (rank/scorer.go Run).
NothingLostOrDuplicated ==
  pc \in {"tie", "dePin", "truncate"} =>
    /\ DistinctIds(list)
    /\ {list[k] : k \in 1..Len(list)} =
         {candidates[k] : k \in {m \in 1..Len(candidates) :
             IsKept(candidates[m]) /\ (pin # NoPin => candidates[m].id # pin.id)}}
           \cup (IF pin = NoPin THEN {} ELSE {Pinned(pin)})

\* After the de-pin pass no new business holds one of the first two places while an
\* established one within the swap window ranks behind it (rank/scorer.go dePin).
NewBusinessesDePinned ==
  pc = "truncate" =>
    \A a, b \in 1..Len(list) :
      /\ a <= 2 /\ a < b
      /\ list[a].isNew /\ ~IsPinned(list[a])
      /\ ~list[b].isNew
      => list[a].score - list[b].score >= SwapWindow

\* The stages, run one comparison at a time, compute the ranking the pure stages
\* define; with a limit they return its prefix (rank/scorer.go Run).
RunComputesRanking ==
  pc = "done" => list = Run(candidates, pin, Limit)
=============================================================================
