-------------------------------- MODULE Intent --------------------------------
(***************************************************************************)
(* intent.Extract and intent.IsCategorical on a query that is typed word   *)
(* by word.  Extract says how a search is narrowed; IsCategorical, a       *)
(* second walk over the same words, says whether the exact-name pin is     *)
(* suppressed.                                                             *)
(*                                                                         *)
(* A query is the sequence of its normalized tokens; a term, the key of    *)
(* the lexicon, is a sequence of one or two tokens.                        *)
(***************************************************************************)
EXTENDS Integers, Sequences

CONSTANTS
  Tokens,      \* words a user types
  MaxTokens,   \* bound on the length of a query
  Lexicon,     \* lexicon: terms to rules
  NoCategory   \* "" of a rule, nil of an overlay

ASSUME IntentAssumption ==
  /\ MaxTokens \in Nat
  /\ DOMAIN Lexicon \subseteq [1..1 -> Tokens] \cup [1..2 -> Tokens]
  /\ \A term \in DOMAIN Lexicon : Lexicon[term].openNow \in BOOLEAN

VARIABLE query

slices == {"subcategory", "universal", "specific", "price"}

zero == [category |-> NoCategory, narrowed |-> [s \in slices |-> {}], openNow |-> FALSE]

\* The last category wins, slices are joined without repetition.
mergeRule(ov, r) ==
  [category |-> IF r.category # NoCategory THEN r.category ELSE ov.category,
   narrowed |-> [s \in slices |-> ov.narrowed[s] \cup r.narrows[s]],
   openNow  |-> ov.openNow \/ r.openNow]

mergeTerm(ov, term) == IF term \in DOMAIN Lexicon THEN mergeRule(ov, Lexicon[term]) ELSE ov

\* Mutant of terms: words of their own only.
termsUnigrams(tokens) == [i \in 1..Len(tokens) |-> <<tokens[i]>>]

\* Each word, and behind it the pair it opens.
terms(tokens) ==
  [k \in 1..2 * Len(tokens) - 1 |->
     LET i == (k + 1) \div 2
     IN IF k % 2 = 1 THEN <<tokens[i]>> ELSE <<tokens[i], tokens[i + 1]>>]

\* ov[k] is the overlay after k terms.
Extract(tokens) ==
  LET found == terms(tokens)
      ov[k \in 0..Len(found)] == IF k = 0 THEN zero ELSE mergeTerm(ov[k - 1], found[k])
  IN IF tokens = <<>> THEN zero ELSE ov[Len(found)]

\* Mutant of categoryLike: any entry of the lexicon counts.
categoryLikeAny(term) == term \in DOMAIN Lexicon

categoryLike(term) ==
  /\ term \in DOMAIN Lexicon
  /\ \/ Lexicon[term].category # NoCategory
     \/ \E s \in slices \ {"price"} : Lexicon[term].narrows[s] # {}

IsCategorical(tokens) ==
  /\ tokens # <<>>
  /\ \A i \in 1..Len(tokens) :
       \/ categoryLike(<<tokens[i]>>)
       \/ i > 1 /\ categoryLike(<<tokens[i-1], tokens[i]>>)
       \/ i < Len(tokens) /\ categoryLike(<<tokens[i], tokens[i+1]>>)

QueryInit == query = <<>>

Type == /\ Len(query) < MaxTokens
        /\ \E t \in Tokens : query' = Append(query, t)

QuerySpec == QueryInit /\ [][Type]_query
-----------------------------------------------------------------------------
\* The pin is suppressed only for queries that are narrowed instead: by a category, a
\* subcategory or a tag, price and opening hours aside (intent/categorical.go against
\* intent/extract.go; search/service.go runIntent).
CategoricalNarrows ==
  IsCategorical(query) =>
    \/ Extract(query).category # NoCategory
    \/ \E s \in slices \ {"price"} : Extract(query).narrowed[s] # {}
=============================================================================
