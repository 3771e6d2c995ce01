---------------------------- MODULE EmbedBackfill ----------------------------
(***************************************************************************)
(* Embedding passes (ingest -embed) over the businesses table while loads  *)
(* commit beside them: Backfiller.Run pages through the rows in key order, *)
(* embeds the texts of a page and writes their vectors in one transaction. *)
(* An operator runs the job again after a pass that failed or succeeded.   *)
(* A concurrent load is the one-step load of Catalog, which Ingest         *)
(* implements.                                                             *)
(*                                                                         *)
(* A vector is named by the text (the version of a row) it was computed    *)
(* from; keys are positive integers and 0 is the zero UUID.                *)
(***************************************************************************)
EXTENDS BusinessTable, Functions

CONSTANTS
  Texts,      \* the versions a row of each key may have, disjoint between keys
  Blank,      \* the versions without embeddable text
  Rejected,   \* the versions whose text the embedder rejects, with the whole batch
  BatchSize,  \* EmbedBatchSize
  Limits,     \* values of -embed-limit, 0 for none
  MaxLoads,   \* bound on the loads that commit beside the passes
  MaxPasses   \* bound on the passes

OwnTexts(t) ==
  \A x \in Id : t[x] # Absent =>
    /\ t[x].version \in Texts[x]
    /\ t[x].embedding \in Texts[x] \cup {Null}

ASSUME BackfillAssumption ==
  /\ Id \subseteq Nat \ {0}
  /\ Texts \in [Id -> SUBSET Version] /\ Null \notin Version
  /\ \A t \in Tables : OwnTexts(t)
  /\ \A s \in Feeds : \A k \in DOMAIN s : s[k].version \in Texts[s[k].id]
  /\ BatchSize \in Nat \ {0} /\ Limits \subseteq Int
  /\ MaxLoads \in Nat /\ MaxPasses \in Nat \ {0}

VARIABLES
  businesses,          \* the table
  loads,               \* loads committed so far
  pass,                \* number of the pass
  onlyMissing, limit,  \* the arguments of Run
  result,              \* what Run returned, "running" before
  pc,                  \* where it is, or where it stopped
  afterID,             \* the cursor
  asked,               \* the size of the page asked for
  page,                \* rows of the page: their keys and the texts read
  ids, vecs,           \* what goes to the writer
  stats,               \* EmbedStats
  before, loadsBefore  \* history: the table, and the loads, when the pass began

args == <<pass, onlyMissing, limit, before, loadsBefore>>
passVars == <<args, result, pc, afterID, asked, page, ids, vecs, stats>>
vars == <<businesses, loads, passVars>>

\* Backfiller.Run starts.
Starts ==
  /\ onlyMissing' \in BOOLEAN /\ limit' \in Limits
  /\ result' = "running" /\ pc' = "page"
  /\ afterID' = 0 /\ asked' = 0 /\ page' = <<>> /\ ids' = <<>> /\ vecs' = <<>>
  /\ stats' = [Scanned |-> 0, Embedded |-> 0, Skipped |-> 0]

Init ==
  /\ businesses \in Tables /\ before = businesses
  /\ loads = 0 /\ loadsBefore = 0 /\ pass = 1
  /\ onlyMissing \in BOOLEAN /\ limit \in Limits
  /\ result = "running" /\ pc = "page"
  /\ afterID = 0 /\ asked = 0 /\ page = <<>> /\ ids = <<>> /\ vecs = <<>>
  /\ stats = [Scanned |-> 0, Embedded |-> 0, Skipped |-> 0]

At(l) == result = "running" /\ pc = l

\* The operator runs the job again.
Rerun ==
  /\ result # "running" /\ pass < MaxPasses
  /\ pass' = pass + 1
  /\ before' = businesses /\ loadsBefore' = loads
  /\ Starts
  /\ UNCHANGED <<businesses, loads>>

pageSize ==
  IF limit <= 0 \/ limit - stats.Scanned >= BatchSize THEN BatchSize ELSE limit - stats.Scanned

Ends(outcome) ==
  /\ result' = outcome
  /\ UNCHANGED <<businesses, loads, args, pc, afterID, asked, page, ids, vecs, stats>>

LimitReached == At("page") /\ pageSize <= 0 /\ Ends("ok")

\* Mutant of Eligible: -embed-all is forgotten.
EligibleMissing ==
  {x \in Id : x > afterID /\ businesses[x] # Absent /\ businesses[x].embedding = Null}

Eligible == {x \in Id : /\ x > afterID /\ businesses[x] # Absent
                        /\ onlyMissing => businesses[x].embedding = Null}

\* Mutant of NoMoreRows: "continue" for "break".
NoMoreRowsRetried == At("page") /\ pageSize > 0 /\ Eligible = {} /\ UNCHANGED vars

NoMoreRows == At("page") /\ pageSize > 0 /\ Eligible = {} /\ Ends("ok")

Increasing(s) == \A a, b \in DOMAIN s : a < b => s[a] < s[b]

\* keys are the first n eligible ones, in key order, or all of them when there are fewer.
IsPage(keys, n) ==
  /\ Increasing(keys)
  /\ Len(keys) < n => Range(keys) = Eligible
  /\ \A x \in Eligible \ Range(keys) : x > keys[Len(keys)]

ReadPage ==
  /\ At("page") /\ Eligible # {}
  /\ \E n \in 1..pageSize : \E keys \in [1..n -> Eligible] :
       /\ IsPage(keys, pageSize)
       /\ page' = [k \in 1..n |-> [id |-> keys[k], text |-> businesses[keys[k]].version]]
       /\ stats' = [stats EXCEPT !.Scanned = @ + n]
       /\ afterID' = keys[n]
  /\ asked' = pageSize
  /\ pc' = "embed"
  /\ UNCHANGED <<businesses, loads, args, result, ids, vecs>>

\* The rows of the page with text.
WithText == {k \in DOMAIN page : page[k].text \notin Blank}

\* Mutant of KeysOf: the keys of all the rows of the page, embeddable or not.
KeysOfAll(kept) == [k \in DOMAIN page |-> page[k].id]

KeysOf(kept) == [k \in DOMAIN kept |-> page[kept[k]].id]

\* embedPage up to EmbedBatch's answer, one vector per text; without texts no call is made.
Embed ==
  /\ At("embed") /\ \A k \in WithText : page[k].text \notin Rejected
  /\ \E n \in 0..Len(page) : \E kept \in [1..n -> WithText] :
       /\ Increasing(kept) /\ Range(kept) = WithText
       /\ ids' = KeysOf(kept)
       /\ vecs' = [k \in 1..n |-> page[kept[k]].text]
       /\ stats' = [stats EXCEPT !.Skipped = @ + Len(page) - n]
       /\ pc' = IF n = 0 THEN "next" ELSE "write"
  /\ UNCHANGED <<businesses, loads, args, result, afterID, asked, page>>

\* Mutant of EmbedRejected: the page is left out and the pass goes on.
EmbedRejectedSkipped ==
  /\ At("embed") /\ \E k \in WithText : page[k].text \in Rejected
  /\ pc' = "next"
  /\ UNCHANGED <<businesses, loads, args, result, afterID, asked, page, ids, vecs, stats>>

EmbedRejected ==
  At("embed") /\ (\E k \in WithText : page[k].text \in Rejected) /\ Ends("error")

\* A cancelled context, a failed query, an embedder that does not answer or a failed
\* write ends the pass.
Fails == (At("page") \/ (At("embed") /\ WithText # {}) \/ At("write")) /\ Ends("error")

\* update businesses set embedding = vecs[k] where id = ids[k], in order.
Updated ==
  [x \in Id |->
     IF \E k \in DOMAIN vecs : ids[k] = x
     THEN [businesses[x] EXCEPT !.embedding = vecs[CHOOSE k \in DOMAIN vecs : ids[k] = x]]
     ELSE businesses[x]]

Write ==
  /\ At("write")
  /\ businesses' = Updated
  /\ stats' = [stats EXCEPT !.Embedded = @ + Len(ids)]
  /\ pc' = "next"
  /\ UNCHANGED <<loads, args, result, afterID, asked, page, ids, vecs>>

\* The page is committed but the answer is lost.
WriteAnswerLost ==
  /\ At("write")
  /\ businesses' = Updated
  /\ pc' = "next" /\ result' = "error"
  /\ UNCHANGED <<loads, args, afterID, asked, page, ids, vecs, stats>>

\* Mutant of LastPage: a full page is taken for the last one.
LastPageFull == At("next") /\ Len(page) <= asked /\ Ends("ok")

LastPage == At("next") /\ Len(page) < asked /\ Ends("ok")

NextPage ==
  /\ At("next") /\ Len(page) >= asked
  /\ pc' = "page"
  /\ UNCHANGED <<businesses, loads, args, result, afterID, asked, page, ids, vecs, stats>>

Pass ==
  \/ LimitReached \/ NoMoreRows \/ ReadPage \/ Embed \/ EmbedRejected
  \/ Write \/ WriteAnswerLost \/ LastPage \/ NextPage

\* A load commits.
Load ==
  /\ loads < MaxLoads
  /\ \E s \in Feeds :
       /\ UniqueIds(s, Survivors(s))
       /\ businesses' = Upserted(businesses, s, Survivors(s), loads + 1)
  /\ loads' = loads + 1
  /\ UNCHANGED passVars

Next == Pass \/ Fails \/ Load \/ Rerun

\* Statements and embedding calls are answered or time out.
Spec == Init /\ [][Next]_vars /\ WF_vars(Pass)
-----------------------------------------------------------------------------
\* Skipped rows and short pages never pair a vector with another row's key
\* (embed.go embedPage, embedstore.go updateBatch).
OwnVectors ==
  \A x \in Id : businesses[x] # Absent => businesses[x].embedding \in Texts[x] \cup {Null}

HadText(x) == before[x] # Absent /\ Texts[x] \cap Blank = {}

\* A pass without limit that succeeds has given a vector to every embeddable row that
\* was there when it began, whatever was loaded meanwhile and whatever passes failed
\* before (embed.go Run).
RowsThereAreEmbedded ==
  result = "ok" /\ limit <= 0 => \A x \in Id : HadText(x) => businesses[x].embedding # Null

\* However a pass ends, it leaves no gap: when it has written a row, every embeddable row
\* with a smaller key that was there has a vector.  A rejected text therefore keeps the
\* rows of its page and all rows behind it from being embedded, run after run
\* (embed.go Run, embedPage).
NoGapInKeyOrder ==
  \A x, y \in Id :
    /\ before[x] # Absent /\ businesses[x].embedding # before[x].embedding
    /\ y < x /\ HadText(y)
    => businesses[y].embedding # Null

\* With -embed-all, and nothing loaded meanwhile, every embeddable row ends up with the
\* vector of its present text (embed.go Run).
QuietPassRefreshes ==
  result = "ok" /\ limit <= 0 /\ ~onlyMissing /\ loads = loadsBefore =>
    \A x \in Id : businesses[x] # Absent /\ businesses[x].version \notin Blank =>
      businesses[x].embedding = businesses[x].version

\* Every pass ends although loads add rows and rows without text stay missing (embed.go Run).
PassEnds == (result = "running") ~> (result # "running")
=============================================================================
