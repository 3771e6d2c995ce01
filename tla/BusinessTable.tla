---------------------------- MODULE BusinessTable ----------------------------
(***************************************************************************)
(* The input file and the businesses table as the loader sees them.        *)
(*                                                                         *)
(* A row is the columns a record brings (version stands for all of them),  *)
(* created_at (the run that first inserted it) and the embedding, which    *)
(* is named by the version of the text it was computed from.               *)
(***************************************************************************)
EXTENDS Integers, Sequences, FiniteSets

CONSTANTS
  Id,        \* primary keys
  Version,   \* contents of a record
  Feeds,     \* the input files an operator may load, sequences of records
  Tables,    \* what the table may hold before the first run
  Absent,    \* no row
  Null       \* SQL NULL

\* What becomes of a record of the file: kept by sanitize, geo filter and taxonomy,
\* dropped by one of them, or - "broken" - an error of the parser, which ends the stream.
Kept  == {"keep", "bucketed"}
Drops == {"geo", "noAddress", "category"}
Kind  == Kept \cup Drops \cup {"unparseable", "broken"}

Record == [kind : Kind, id : Id, version : Version]
Row    == [version : Version, created : Nat, embedding : Version \cup {Null}]

ASSUME TableAssumption ==
  /\ Feeds \subseteq Seq(Record)
  /\ Tables \subseteq [Id -> Row \cup {Absent}]
  /\ Absent \notin Row

Survives(s, k) == s[k].kind \in Kept

\* The positions of s whose records reach the table: those in front of a parser error.
Survivors(s) ==
  {k \in 1..Len(s) : Survives(s, k) /\ \A m \in 1..k : s[m].kind # "broken"}

UniqueIds(s, K) == \A k, m \in K : s[k].id = s[m].id => k = m

\* The row of a record, over the row the table had: created_at and embedding are not
\* in the list ON CONFLICT refreshes.
RowFrom(old, record, now) ==
  [version   |-> record.version,
   created   |-> IF old = Absent THEN now ELSE old.created,
   embedding |-> IF old = Absent THEN Null ELSE old.embedding]

\* The table t after insert ... on conflict (id) do update of the records K of s.
Upserted(t, s, K, now) ==
  [x \in Id |-> IF \E k \in K : s[k].id = x
                THEN RowFrom(t[x], s[CHOOSE k \in K : s[k].id = x], now)
                ELSE t[x]]
=============================================================================
