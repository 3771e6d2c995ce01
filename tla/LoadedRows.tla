------------------------------ MODULE LoadedRows ------------------------------
(***************************************************************************)
(* A row the loader made of a record, and a query typed afterwards: what   *)
(* the scorer, the embedding pass and the filters of search_candidates     *)
(* expect of a row against what the transforms make of it.                 *)
(***************************************************************************)
EXTENDS Transforms, Intent

CONSTANTS
  Archetypes,   \* those ranking.yaml has weights for
  Means         \* terms of the lexicon, to the records a user has in mind

\* ranking.yaml has weights for every archetype the loader knows.
ASSUME ArchetypeAssumption ==
  {"low_stakes_fast_nearby", "medium_stakes_occasion", "high_stakes_one_time", "experiential",
   "recurring_service", "utility_distance_dominant"} \subseteq Archetypes

\* The values of the column a slice of the overlay is compared with.
Column(b, slice) ==
  CASE slice = "subcategory" -> {b.subcategory}
    [] slice = "price"       -> {b.price_range}
    [] slice = "universal"   -> IF b.universal_tags = Null THEN {} ELSE ToSet(b.universal_tags)
    [] slice = "specific"    -> IF b.specific_tags = Null THEN {} ELSE ToSet(b.specific_tags)

Passes(ov, b) ==
  /\ ov.category \in {NoCategory, b.category}
  /\ \A s \in slices : ov.narrowed[s] = {} \/ ov.narrowed[s] \cap Column(b, s) # {}
-----------------------------------------------------------------------------
Meant(term) == term \in DOMAIN Lexicon => record \in Means[term]

\* A row that reaches the table can be used there: its archetype has weights, there is a text
\* to embed, and no word of a query hides it from a user whose words are those of its record,
\* whichever of the dump's spellings the record has (cmd/ingest/pipeline.go process against
\* rank/scorer.go scoreCandidate, ingest/embed.go, intent/lexicon.go, migration 0009).
KeptRowsUsable ==
  row # Null =>
    /\ row.archetype \in Archetypes
    /\ EmbedText(row) # <<>>
    /\ (\A k \in DOMAIN terms(query) : Meant(terms(query)[k])) => Passes(Extract(query), row)

\* A record is loaded, and a query is typed.
LoadAndType ==
  /\ ReadInit /\ QueryInit
  /\ [][\/ process /\ UNCHANGED query
        \/ Type /\ UNCHANGED <<record, outcome, row>>]_<<record, outcome, row, query>>

\* Each term of the lexicon on its own finds every row made of a record it means.
TermsAgree ==
  \A r \in Records, term \in DOMAIN Lexicon :
    Parses(r) /\ Decision(Sanitize(r)) \in Kept /\ r \in Means[term]
      => Passes(mergeTerm(zero, term), toBusiness(Sanitize(r)))

Category(term) == IF term \in DOMAIN Lexicon THEN Lexicon[term].category ELSE NoCategory

\* Documented: of two words that set different categories the last one wins, and the more
\* relevant matches still surface from the broader set (docs/ranking/intent.md:154-157).
\* The rows that the last word alone would find are there.
LastCategorySurfaces ==
  row # Null =>
    \A i, j \in DOMAIN terms(query) :
      LET words == terms(query)
      IN /\ i < j /\ NoCategory \notin {Category(words[i]), Category(words[j])}
         /\ Category(words[i]) # Category(words[j])
         /\ \A k \in DOMAIN words \ {i, j} : words[k] \notin DOMAIN Lexicon
         /\ Passes(mergeTerm(zero, words[j]), row)
         => Passes(Extract(query), row)
=============================================================================
