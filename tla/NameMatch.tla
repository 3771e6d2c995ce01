------------------------------ MODULE NameMatch ------------------------------
(***************************************************************************)
(* lemon_name_match and lemon_prefix_match, by which a business is pinned, *)
(* while a user types the words of its name.  Names and queries are        *)
(* sequences of lower-case words.  A coverage is the number of words of    *)
(* the name it is a share of.  The trigram filter in front of the two is   *)
(* pg_trgm's and left out.                                                 *)
(***************************************************************************)
EXTENDS Integers, Sequences, FiniteSets

CONSTANTS
  Words,
  Chars,         \* char_length of a word
  levenshtein,   \* edit distance of two words, by fuzzystrmatch
  Names          \* names of businesses

ASSUME NameAssumption == Names \subseteq Seq(Words)

VARIABLES name, typed

Lesser(x, y)  == IF x < y THEN x ELSE y
Greater(x, y) == IF x > y THEN x ELSE y

CeilDiv(x, y) == (x + y - 1) \div y

tol(word) == Greater(1, Lesser(4, CeilDiv(Chars[word], 4)))

Near(word, other) == levenshtein[word, other] <= tol(word)

\* Positions of s whose word is near one of t.
Matched(s, t) == {k \in DOMAIN s : \E m \in DOMAIN t : Near(s[k], t[m])}

lemon_name_match(qt, nt) ==
  IF Len(qt) >= CeilDiv(8 * Len(nt), 10) /\ Matched(qt, nt) = DOMAIN qt
  THEN Cardinality(Matched(nt, qt)) ELSE 0

\* Mutant of lemon_prefix_match: a whole name is not its own prefix.
lemon_prefix_match_strict(qt, nt) ==
  IF Len(qt) \in 2..Len(nt) - 1 /\ \A k \in DOMAIN qt : Near(qt[k], nt[k]) THEN Len(qt) ELSE 0

lemon_prefix_match(qt, nt) ==
  IF Len(qt) \in 2..Len(nt) /\ \A k \in DOMAIN qt : Near(qt[k], nt[k]) THEN Len(qt) ELSE 0

\* nameMatchCoverage = 0.8, prefixMatchCoverage = 0.5.
Pinned(qt, nt) ==
  10 * lemon_name_match(qt, nt) >= 8 * Len(nt) \/ 2 * lemon_prefix_match(qt, nt) >= Len(nt)

PinScore(qt, nt) ==
  IF Pinned(qt, nt) THEN Greater(lemon_name_match(qt, nt), lemon_prefix_match(qt, nt)) ELSE 0

NameInit == name \in Names /\ typed = <<>>

\* One word more, up to one beyond the name.
TypeWord ==
  /\ Len(typed) <= Len(name)
  /\ \E w \in Words : typed' = Append(typed, w)
  /\ UNCHANGED name

NameSpec == NameInit /\ [][TypeWord]_<<name, typed>>
-----------------------------------------------------------------------------
\* A user who goes on typing a name, with typing errors, does not lose the business: neither
\* where the prefix turns into the whole name, nor where an earlier query covered the name by
\* words in another place (migrations 0003 and 0010, repo.go exactNameSQL).
TypingKeepsName ==
  [][ Len(typed') <= Len(name) /\ (\A k \in DOMAIN typed' : Near(typed'[k], name[k]))
        => PinScore(typed', name) >= PinScore(typed, name) ]_<<name, typed>>
=============================================================================
