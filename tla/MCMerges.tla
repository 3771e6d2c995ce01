------------------------------- MODULE MCMerges -------------------------------
(***************************************************************************)
(* The tie-break of one list, one result longer than a block of            *)
(* sort.SliceStable: the block of the code, 20 results, and a merge.       *)
(***************************************************************************)
EXTENDS StableTieBreak

MCInfinity == 100

\* Row k of the list, from the highest score down; the ids run against the list.
Row(k) ==
  [id |-> 22 - k, name |-> k, claimed |-> k \in 6..13, dist |-> 1, reviews |-> 20,
   score |-> CASE k <= 13 -> 2 [] k \in 14..18 -> 1 [] OTHER -> 0,
   isNew |-> FALSE, dropped |-> FALSE]

MCCandidate == {Row(k) : k \in 1..21}
MCLists     == {[k \in 1..21 |-> Row(k)]}
=============================================================================
