# Verification of lemon-search

TLA+ models of lemon-search, the TLC runs that check them on small instances, and
theorems TLAPS proves about them. Every definition is translated from the source;
`PROJECT.json` ("map") names the lines each one stands for. Paths below are relative to
the repository.

## 1. Inventory

lemon-search answers local-business queries over one Postgres table, `businesses`. A
loader CLI fills the table from a JSON dump, a backfill computes embeddings, a Go API
answers `GET /search`, and a Next.js page types queries at it.

```
 dump.json --> cmd/ingest: Parser, process --rows--> Loader (COPY, upsert) --> businesses
                           -embed:  Backfiller (page, embed, update) --^          |
 SearchPage.tsx --/api/search--> handleSearch --> search.Service                  |
                                   intent.Extract, Embedder (ONNX pool)           |
                                   Retrieve (search_candidates) <-----------------+
                                   ExactName (lemon_name_match, prefix) <---------+
                                   rank.Run, dedupeByName
```

| Component | Code | State | Operations | What is hard, and what makes it correct |
|---|---|---|---|---|
| Ranker | `api/internal/rank/scorer.go` | the slice of results of one call | hard filter, score, stable sort, pin, tie-break, de-pin, truncate | the tie-break comparator is not transitive; passes run one after another and each may undo what an earlier one established. Rows are conserved, the pin stays first, overtaking is bounded, new businesses are kept back. |
| Signals | `api/internal/rank/signals.go` | none | seven signals, their weighted sum | two formulas for two of the signals, scales that differ, divisors from a file. A business never scores lower for what makes it better; nothing scores above the pin. |
| Search service | `api/internal/search` | none between requests | `Search`, `runIntent`, `embedQuery`, `dedupeByName` | two reads without a transaction, optional parts, namesakes removed after ranking. No row or name twice; freed slots filled; the best location of a chain shown. |
| HTTP handlers | `api/internal/api` | none | `/search`, `/healthz`, `/readyz`, `/version`, CORS, logging | early returns; no deadline of their own |
| Loader CLI | `api/cmd/ingest`, `api/internal/ingest/loader.go` | channel, counters, batch, open transaction | producer, `Load`, `copyAll`, flush, upsert, commit, report | two goroutines and a channel, errors on both sides, signals, kills, a lost COMMIT answer, repeated runs. The load is atomic; success means complete; every run ends. |
| Embedding backfill | `api/internal/ingest/embed.go` | cursor, page, report | page, embed, write | loads commit beside it, partial progress, limit and page boundaries. Vectors go to their own rows; nothing eligible is passed over; the pass ends. |
| Record transforms | `api/internal/ingest` (parser, sanitize, filter, taxonomy, synth, embedtext) | the parser's depth and flags | find an object, sanitize, filter, map | a parser that knows less than JSON; tables that have to agree with those of the ranker and the lexicon. Every record is found, no truncated file passes, a row that is kept can be found. |
| Retrieval | `api/internal/retrieve`, SQL `search_candidates` | none | recall arms, over-fetch, filters, limits | two limits with a filter between them. Only closed rows displace a match; the vector arm moves no lexical match. |
| Open status, name match | SQL functions | none | pure functions of a row | overnight intervals, day change, "24h" clocks; coverage that must not fall while a name is typed |
| Intent extractor | `api/internal/intent` | compiled lexicon | `Extract`, `IsCategorical` | two walks over the same words that have to agree on what a categorical query is |
| Query embedders | `api/internal/retrieve/embed` | the ONNX pipeline pool | checkout, run, return, destroy | pool exhaustion, leaks on error, destruction under use |
| API server | `api/cmd/api` | listener, drain, resources | open, load, build, serve, signal, drain, close | a start that goes on without what it cannot have; deadline against requests in flight; order of closes. A service has what it was built on until its server returns; a signal ends the process. |
| Configuration | `api/internal/config`, `ranking.yaml` | constant after start | load, validate | numeric ranges nobody validates |
| Search page | `web/app/SearchPage.tsx` | text, effect, timer, request, shown state | type, debounce, fetch, abort, show | late answers, aborts in every phase, loading state left behind |
| Load generator | `api/cmd/loadbench` | semaphore, sample channel | admit or drop, fire, collect | a channel closed beside its senders |
| Bench runner | `api/cmd/bench-runner` | a configuration in memory shared by services; rows of each arm; tasks of Meilisearch | one test under one arm, report, index a batch, wait for its task | arms that share what they differ in; searches that fail in one arm only; tasks worked after nobody waits for them. A row measures the arm it is filed under; a verdict is earned by queries that do better. |
| Web presentation, deployment scripts, domain types | `web`, `deploy`, `supabase`, `api/internal/domain` | little | | see `PROJECT.json` |

How they interact: the page calls the API over HTTP; the API calls the ranker and the
extractor in process and Postgres through one pool; the loader, the backfill and the
API share nothing but the table. Requests share the pipeline channel and the
connection pool. `PROJECT.json` lists every component with its status and every hazard
at its line.

## 2. Modules and how they correspond to the code

| Module | Models |
|---|---|
| `Ranking` | the comparators and passes of `rank/scorer.go` as pure operators: `IsKept`, `Less`, `applyPin`, the de-pin tests, `Run` |
| `RankRun` | one call of `rank.Run`, stage by stage and comparison by comparison |
| `StableTieBreak` | the same tie-break on a list longer than one block of `sort.SliceStable`: its blocks, and the calls of `symMerge` that merge them |
| `Scores` | `ranking.yaml` loaded and validated; the signals and their sum on a business that grows |
| `BusinessTable` | a row, a record of the dump, what an upsert makes of a row |
| `Catalog` | abstract specification: a load changes the table in one step or not at all, at most once a run |
| `Ingest` | the loader CLI: `run`, the producer goroutine, `Load`, `copyAll`, signals, kills, repeated runs; implements `Catalog` under the mapping `C` |
| `Parser` | `Parser.Next` byte by byte, beside the meaning of the bytes it reads |
| `Transforms` | `process`: a record becomes a row or is dropped; the text embedded for the row |
| `Intent` | `Extract` and `IsCategorical` |
| `LoadedRows` | `Transforms` and `Intent` together: rows against the queries typed afterwards |
| `EmbedBackfill` | passes of `Backfiller.Run`, failing and run again, with loads (as `Catalog` allows them) committing beside them |
| `NameMatch` | `lemon_name_match`, `lemon_prefix_match` on a name that is typed |
| `OpenStatus` | `lemon_parse_time`, `lemon_open_status` while local time passes |
| `Retrieval` | `search_candidates` on a table that grows |
| `SearchService` | one request through `handleSearch` and `search.Service.Search`, composed with `Ranking` and with loads |
| `SearchPage` | the search box: input, effect and cleanup, debounce timer, request phases |
| `ServerLifecycle` | the API process: its start, requests and probes over the pipeline pool and the connection pool, signal, drain, deferred closes |
| `LoadBench` | the dispatcher of the load generator and its request goroutines |
| `BenchRunner` | one call of the bench runner: its arms and the configuration they share, the rows, the verdict of each report |
| `MeiliIndex` | `indexBusinesses` and `waitTask` against Meilisearch's task queue, run again over newer rows |
| `RankingProofs` | lemmas on the operators of `Ranking`, the ground of the two modules below |
| `RankRunProofs`, `SearchServiceProofs` | theorems and proofs of `RankRun`, `StableTieBreak` and `Scores`; of `SearchService`, `Intent` and `LoadedRows` |
| `IngestProofs`, `EmbedBackfillProofs`, `ServerLifecycleProofs` | theorems and proofs of the module each is named after |
| `RowsProofs`, `ClientProofs` | theorems and proofs of `Parser`, `NameMatch` and `Retrieval`; of `SearchPage`, `LoadBench`, `BenchRunner` and `MeiliIndex` |
| `MC...` | the instances TLC checks |

**Ranking, RankRun, StableTieBreak.** A result is a record of what the passes look at:
id, name, score, claimed flag, distance, review count, new flag, and whether the hard
filter drops it. A score is an integer, `Epsilon` and `SwapWindow` are in its unit, and
the pin's +Inf is the constant `Infinity` with the arithmetic of +Inf where the code
subtracts. In `RankRun` `pc` names the stage; `i` and `j` are the loop variables of the
insertion sort that `sort.SliceStable` performs on a block. That function sorts blocks
of 20 and merges neighbours; up to 150 candidates are ranked, so production lists do
reach the merge. `RankRun` is one block: what it shows, and what is proved about it, is
about lists of at most 20 (`InputAssumption`). `StableTieBreak` is the whole function, with
the cuts found by binary search - a search that trusts the comparator to be transitive.
`calls` are the calls of `symMerge` still to be made; the recursion makes the leftmost
first. `Run`, and `SearchService` with it, breaks ties by insertion whatever the length of
the list: beyond a block only what any rearrangement by the tie-break keeps carries over,
and `MergesConserveRows` and `PinFirstThroughMerges` show that the merges are one.

**Scores.** Integers throughout: signals in thousandths, weights in hundredths, so the
rounding of floats is not what is checked. The logarithm and the exponential are tables.
What `validate` leaves unchecked and the formulas divide by (`friends_full_credit`, the
prior's strength, the logarithm of `global_max_reviews`) is the assumption
`ConfigAssumption`. `Grow` changes one field of a business a step at a time. What the
numbers mean stands in assumptions of its own, because no code checks it: the constants
of a signal are in 0..1 (`ContractAssumption`, "Out-of-range = bug",
`docs/ranking/semantics.md:43`), the weights of an archetype add up to at most 1
(`WeightsAssumption`, true of the shipped file; `Load` "does not guarantee" it,
`config/loader.go:40`), ratings are on the scales of the dump (`RowAssumption`), and the
tables are monotone (`TableAssumption`).

**Ingest.** A record of the file has a kind: kept, dropped for one of the filters'
reasons, unparseable, or one at which the parser fails for good. Rows in flight are
positions in the file. `ppc`, `lpc` and `mainPc` are the producer goroutine, `Load`
and `run`; one action is one statement, one channel operation or one commit.
`ctxDone` is the pipeline context, cancelled by a signal or by `run` after `Load`.
A statement may fail; COMMIT may be applied and its answer lost. `C` maps the loader to
`Catalog`: the table is the table, and a run has loaded when its upsert is committed;
channel, batch, stage table and report are internal.

**Parser.** The file is written and read byte by byte. Beside the parser's `depth`,
`inString` and `escape` stands what the bytes mean: the stack of open brackets and the
state of the open string. Decoding an object is left to the JSON library.

**Transforms, LoadedRows.** A record has the fields of `rawRecord`; trimming and
lowering are tables over the strings that occur. Left out: the cap of the embed text,
which cuts its tail, and the hash behind the synthesized seeds, which is a constant.
`Means` says, per term of the lexicon, which records of the dump a user has in mind.
`LoadAndType` loads a record and types a query, in any order; `TermsAgree` is the agreement
of the tables term by term, which a reviewer of a table can check.

**EmbedBackfill.** A vector is named by the text it was computed from, so a stale one
is visible as a vector of a text the row no longer has. An embedder answers one vector
per text (the code makes a mismatch an error). Paging uses `id > afterID` in key order.
A text in `Rejected` fails every batch it is in; any other call, query or write may fail
too, and a write may be applied and its answer lost. `Rerun` is the operator's: `before`
remembers the table each pass began with.

**Intent.** A query is a sequence of normalized words; a term is one word or a pair of
neighbours. The lexicon is a constant.

**NameMatch.** Names and queries are sequences of words, the edit distance of two words
is a constant, and a coverage is the number of words it is a share of. The trigram
filter in front of both functions belongs to `pg_trgm` and is left out, as is a blank
query, which never arrives there.

**OpenStatus.** A time of the opening hours is a record of what the two regular
expressions take from it. `HourLen` scales the clock. An interval over midnight is open
until midnight only: the function looks at the entry of one day.

**Retrieval, SearchService.** `Retrieval` has the arms, the limits and the filter
between them; the order key is that of the SQL. In `SearchService` which rows the recall
arms and the name predicates match, and which pass the overlay, are constants of the
query, recall order is any order, and the over-fetch is not repeated. The ranker is the
pure `Run` of `Ranking`, which `RankRun` is checked to compute. A load may commit
between the two reads.

**SearchPage.** An effect has a number; timer, request and shown state are indexed by
it. `abort()` rejects a promise of `fetch` or `json()` that has not settled. React may
run an effect any time after the change that caused it. Unmounting is not modelled.

**ServerLifecycle.** `run` goes from `openPool` to `loadPipelines` and serves with what it
has got by then: no database, no ranking configuration or no embedder leave `svc` at
"none" or "lexical". A signal may come during the start, which does not look at it. A
search waits for a pipeline or calls Ollama, makes two reads, each with its own
connection, and replies; a probe of `/readyz` makes one. What the steps return is left
out; an error shortens the path. `pgxpool.Close` waits for connections that are out.

**LoadBench.** The semaphore is the set of requests that hold a token, the sample
channel a set; a send on the closed channel is a state of its own.

**BenchRunner, MeiliIndex.** What a search answers to a test under a setting is a constant
of the bench (`answers`), and any search may fail instead. `formulas` is the configuration
in memory: an arm has its name, and measures what it points to. Means are compared as
fractions, without the tolerances of the reports: of distance and rating over the rows
with results, of category relevance over those of them whose query expects a category;
percentiles are counts of slow searches. Meilisearch works its tasks in order at any time, and any of them may fail;
`MaxPolls` polls of a task are its deadline.

## 3. What each run checks

| Run | Question | Instance and why it is enough |
|---|---|---|
| `rank` | what does a tie-break with a non-transitive comparator guarantee; do pin, de-pin and truncation keep their guarantees together; do the merges of long lists; can a business lose by getting better, or be shown above the pin? | three results with scores 0..3 and `Epsilon` 2: a chain a~b~c with a and c apart needs three; four results on both sides of `SwapWindow`: two guarded places and two behind them let the second swap meet the first; five results in blocks of two: two merges of one size, one of the next, cuts inside blocks; the shipped `ranking.yaml` in its four combinations of formulas, one that is rejected, a business of each open-status treatment and one without an archetype, every field crossing its cap |
| `rank_merges` | the "higher final score" of `docs/ranking/semantics.md` on a list longer than a block | one list of 21 results, blocks of 20 as in the code: the shortest that is merged; violated |
| `ingest` | is a load atomic, complete when it says so, and sure to end? | two runs, five files, batch and channel of 2: full channel, full batch, short last batch, empty file, repeated id, error behind a survivor |
| `ingest_embedding`, `ingest_final_state` | two statements of `docs/data/ingestion.md` | as `ingest`; violated |
| `rows` | does the parser find every record and notice a truncated file; do the two walks over a query agree; is a kept row found by the words of its record; what can be missing from the candidates; may typing on lose a name; does the open status follow the clock? | files of up to three records with four brackets open; queries of up to three words over fourteen entries of every shape; 420 records of every raw category, spelling of a price, tag and place, against queries of up to two words; a limit of 2 with an over-fetch of 2 on tables of up to six rows of nine kinds: displaced, displaced by closed rows, and filled; eight names of up to five words; two days of half hours with every pair of eleven times |
| `category_collision` | what `docs/ranking/intent.md` says of two categories in one query | as `rows`; violated |
| `backfill` | do vectors reach the right rows, all of them, whatever loads do and whatever failed before? | four keys in pages of 2, limits 0, 1, 3, two passes, up to two loads, a text that is rejected, every table of a set of row states |
| `search` | what does one answer guarantee with the catalog changing in between? | eight catalogs that rename, rescore, add, make a location new or close one, and both de-pin swaps past one new location; every wiring of intent and embedder; pool of 4, answer of 2 |
| `search_depin` | the documented place of the de-pin pass | as `search`, answer of 3; violated |
| `server` | are pipelines conserved and resources released, whatever the start went without; does a signal stop the process? | three requests, two pipelines, one connection: both pools run empty, and a pipeline can fail to load with none or one before it |
| `clients` | is anything stale shown, and does the page settle; does the load generator close its channel under a sender; does a bench measure what it says; does the index hold what was read? | four changes over three texts: two searches and a short text in any order; windows of up to five requests, two in flight: full semaphore, drops, a token taken back before its sample is read; every answer pattern of two tests in two or three arms, of which in a quality bench one expects a category and one does not, and of three queries with and without an embedder; three rows in batches of two, two runs, one poll to a deadline |

`rank`, `rows` and `clients` hold components that do not share state. A behaviour of
such a run is about one of them (`subject`), so their states add up and do not multiply.

Every run of a program here ends, so the runs say `CHECK_DEADLOCK FALSE`: a call
returns, a window closes, a process exits, a user stops typing. That nothing stops
too early is what the liveness properties are for.

Bounds on the environment: `MaxRuns` (runs of the loader), `MaxLoads` and `MaxReloads`
(loads beside a pass or a request), `MaxChanges` (edits of the text), `MaxTokens` (words
of a query), `MaxPasses` (embedding passes), `MaxIndexRuns` (runs over the index), `MaxRows` (rows a table grows to), `MaxRequests` (requests of a window),
`MaxOpen` and `MaxRecords` (nesting and length of a file), `Days`. None bounds what the
code does. Scaled down from the code, `BlockSize`
in `rank` only: `CopyBatchSize`, `CopyChannelBuffer`, `BatchSize`,
`BlockSize`, `Lim`, `OverFetch`, `CandidateLimit`, `ResultLimit`, `MaxNameMatches`,
`HourLen`, `IndexBatch`, `MaxPolls`, the pools of the server and `MaxInflight`.

### Findings

The runs that end in a violation: the code does something else than the quoted line says.

- `ingest_embedding`: an upsert keeps the vector of the old text; documented is that
  everything but `created_at` is refreshed (`docs/data/ingestion.md:243-244`).
- `ingest_final_state`: rows no file has any more stay; documented is the same final
  state "regardless of whether the table was empty or pre-populated"
  (`docs/data/ingestion.md:170-172`).
- `category_collision`: `photographer restaurant` is filtered by the category of the last
  word and the subcategories of both, which no row has together; documented is that the
  last wins and matches still surface (`docs/ranking/intent.md:156-157`).
- `rank_merges`: with 21 results the one merge of the sort leaves an unclaimed result in
  front of others that score `Epsilon` above it. In a block insertion never does that
  (`OvertakingBounded`); the binary search of a merge can be sent past such results by
  one that ties with both. Documented is that the higher score decides, and other keys only
  within the epsilon (`docs/ranking/semantics.md:347-351`, comment at
  `rank/scorer.go:155-157`).
- `search_depin`: removing namesakes after the de-pin pass can undo it; documented is
  that de-pin guards the first two places of the answer.

Differences met while modelling that no run states:

- `docs/ranking/semantics.md:351`, "Within epsilon: is_claimed true beats false": in a
  chain of ties an unclaimed result may stay ahead of a claimed one. `:347-350`, "broken
  deterministically": so it is, but the comparator is not an order, and on lists of more
  than a block the merges decide (`rank_merges`); `rank` checks what is left
  (`NeighboursOrdered`, `NeighboursOrderedAfterMerges`).
- `bench-runner/quality_report.go:107-108`, "the table isolates the distance formula": a
  search that fails or finds nothing under one formula only leaves the other arm's row in its
  mean, and the report may recommend a flip although no query got nearer. `VerdictEarned`
  states that this is the only way: without a query answered from nearer, a flip hangs on one
  that a single arm averages, on the side of a mean where it makes decay look nearer.
- `docs/ranking/semantics.md:365` takes the highest-scored replacement, `dePin` the first.
- `docs/ranking/semantics.md:117`: an unrated business counts as the mean in bayesian
  mode; `bayesianRating` gives it 0.
- `ranking.yaml:12`, "each normalized 0..1": with the bayesian source `lemon_score` a
  0..10 value is divided by 5.
- `config/loader.go:39`, "structurally complete": `friends_full_credit` or the prior may
  be absent, and the signal is then not a number. `new_business.threshold_review_count`
  is read by nothing; the column `is_new` has its own literal.
- `docs/data/ingestion.md:212`: a broken record is skipped; a parser error ends the load.
  `:217`: a failed COPY is retried; it is not.
- `is_claimed` is synthesized (`api/cmd/ingest/pipeline.go:111`), where
  `docs/data/ingestion.md:144-146`, `docs/data/quality.md:76-83` and the comment at
  `ingest/sanitize.go:33` say it is the source's. `docs/data/quality.md:62-64`:
  `is_test_business` is checked; nothing reads it.
- `ingest/filter.go:16`, "valid bbox coords or an FL address": coordinates outside decide
  alone. `parseLatLng` accepts "NaN", which no box contains.
- `docs/data/quality.md:182`: a missing day is closed; `lemon_open_status` calls it
  unknown, which the open-now filter lets pass and the scorer ranks above closed.
- Migration `0009:113-114`, "enough survive the filter": not behind more than four times
  the limit of closed matches (`MissingOnlyBehindClosed`). `0007:15-16`, lexical matches "keep their positions":
  they keep their order.
- `/readyz`, which `docs/api.md:122` makes the gate for traffic, answers 200 while every
  search is 503 for want of a ranking configuration: it asks the database only.
- `docs/api.md:148` speaks of a 408 after five seconds that no handler implements, and
  `:74` of a pin score of 1e308 where the presenter answers 1.0.

## 4. Fairness

- `Ingest`: goroutines that can run do (weak fairness); a statement ends or fails.
  Neither signals nor kills nor another run are fair.
- `EmbedBackfill`: weak fairness of the pass; a call to the embedder ends. Another pass
  is the operator's choice.
- `SearchPage`: effects run, timers fire, a request is answered, fails or is aborted.
- `ServerLifecycle`: the start waits for nobody (weak fairness of `Start`); an embed ends
  (it is local computation), a call to Ollama within its timeout; a read ends within the
  pool's statement timeout and the query timeout; a goroutine waiting on a channel is
  served in turn when elements keep coming (strong fairness of `TakePipeline`, the
  runtime's receivers queue first in, first out); the drain has its ten seconds.
  A client is never forced to read its answer, nor to leave.
- `LoadBench`: the dispatcher and the request goroutines run; a request ends, the
  client of the generator having a timeout.
- `MCRows`: time passes, under `OpenStatus` alone.
- `BenchRunner`, `MeiliIndex`: none; what is checked of them is safety.

## 5. What is proved

TLAPS checks the following for every value of the constants that meets the named
assumptions, on states TLC could not enumerate: any table, any list, any file.

**Loops.** The ranker's loops and the extractor's are recursive functions (`RECURSIVE`
operators are out of the prover's reach), and `RankingProofs` starts with what replaces
induction over data there: a set of numbers has a least member (`Least`, from the
library's theorem that the subsets of a finite set are well-founded), so a function built
step by step exists up to every bound (`LoopExists`: the least bound it does not reach has
a predecessor it does), and what each step keeps holds at the end (`Induction`).

**`RankingProofs`** (`CandidateAssumption`, `ScaleAssumption`). What the operators of
`Ranking` return, for every list: a listing of a set of positions in ascending order
exists and is unique (a pigeonhole argument on positions), so `hardFilter` is the
subsequence of what it keeps; a stable descending rearrangement exists and is unique;
`applyPin`, `dePin` and the tie-break permute; the tie-break of a descending list never
lifts a result over one `Epsilon` or more above it; each of the two de-pin swaps lets a
result fall behind a replacement by less than `SwapWindow`. `RankingFacts` sums up what
one call of `rank.Run` does to the order of two rows.

**`RankRunProofs`** (those and `InputAssumption`). The invariant `IInv`
says, per stage, that the list is the filtered one in descending order, that the pin is
first and nobody else has its id, and for the insertion sort that the part in front of
`i` is in comparator order between neighbours and that whatever stands in front of a
higher score is within `Epsilon`. The last part is the point: insertion only ever
exchanges results that are tied, and the part not yet inserted is still in descending
order, so an element passes only results less than `Epsilon` above it. From it: types,
bounded overtaking, order of neighbours, order of groups, the pin, conservation of rows,
completeness of the de-pin pass. `StagesInv` adds what each stage has computed so far in
terms of the pure `Run`: in the tie-break the element in motion is the one the recursive
insertion would still have to place, in the de-pin pass the swaps done are those `dePin`
does up to the place looked at. Hence `RunIsTheRanking`, for lists that one block holds, as
`InputAssumption` has it: the steps of the code and the pure ranking, which `SearchService`
uses, end with the same list. The code ranks up to 150 candidates and a pin; what is known
of longer lists is next.

Of `StableTieBreak` (`BlockAssumption`), for every list and every block size. A binary search
over any set of positions ends where the two positions beside the cut send it (`CutFacts`),
and that is all a search on this comparator can be trusted with. It is enough for
neighbours: `SortInv` says that the calls still to be made are on separate stretches, and
that everywhere but where two stretches still to be merged meet, no result goes before its
neighbour in front. At either end of a pending call both of its stretches have a result that may
end up there, so both have to be in order with the neighbour outside (`OrderedAt`); this
is what makes the invariant inductive. Hence `NeighboursInOrderAfterMerges`. Every step rearranges
the list (`MergesConserveRows`), and a search never cuts in front of the pin, so no merge
moves it (`PinFirstThroughMerges`). What is not true after merges is that overtaking is
bounded: `rank_merges`. So on a list longer than a block `tieBreak`, and with it `Run`, need
not be what the code computes; two theorems say where it is. `OneBlockAlike`: on a list that
one block holds. `GroupsMergeAlike`: on a list of any length in which being tied is
transitive, that is, whose scores fall into groups with gaps between them. There neighbours in
order are a list in order (`GroupsInOrderThroughout`), and rows without a repeated id have one
such order (`OneOrder`), which both sorts find.

Of `Scores`: the sum is monotone in its terms and a common factor comes out of it
(`TotalsOrdered`, `TotalScaled`); each signal is in range and none falls with growth. The
hard one is the bayesian rating, a fraction whose numerator and denominator both grow:
`FractionMonotone` compares the two by cross-multiplication, which needs the average not
to be below the prior's mean, and where a business stops being new its demoted rating is
below the undemoted one of before. Hence `GrowthHelps`, and under `WeightsAssumption` and
without a prior over `lemon_score` also `PinOnTop`.

**`SearchServiceProofs`** (`SearchAssumption` and those of `Ranking`). `RequestInv` says
that the pool of a request has no row twice and at most `CandidateLimit` rows, whatever
the loads between the reads did, that the pin is a business with the far-away distance,
and that an answer is what `dedupeByName` makes of `Run` on the two. The removal of namesakes keeps the first of every
name, as far as the limit (`DedupeFacts`). With `RankingFacts`: no row or name twice
(`AnswerShowsOnce`), places freed by namesakes are filled (`SlotsBackfilled`), and the
location shown for a name is near the best recalled one (`LocationNearBest`, for pools of
one block, `OneBlock`: beyond it `Run` is not what the code computes, see `rank_merges`).
The proof found the last bound too small: the two de-pin swaps add up, so it is `Epsilon` plus
twice the window for a new location, and the instance of `search` now reaches both. Of
the extractor (`IntentAssumption`): every term whose rule is categorical leaves its mark
on the overlay and no later term removes it (`TermsLeaveMarks`), so the two walks over a
query agree (`PinSuppressedOnlyIfNarrowed`). Of `LoadedRows` (`IntentAssumption`,
`ArchetypeAssumption`, `RecordAssumption`): a query narrows by nothing its terms do not
narrow by, so when no single term of the lexicon hides a kept row from the user who means
it (`TermsAgree`), no query of any length does (`KeptRowsFound`). That the tables of three
packages agree term by term is a fact about those tables; it holds of those of the run.

**`RowsProofs`**. The parser (`ParserAssumption`): the depth is the number of open braces, the
two flags are the state of the string, hence it returns exactly the records of the file,
and a file that ends inside one never ends cleanly. Names (`NameAssumption`): whatever the
edit distances, a query that is the name typed in order covers each longer prefix no less,
so the share by which a name is pinned never falls. Retrieval (`RetrievalAssumption`): the
answer is the head of the ideal one, because both list the rows that are not closed in
one total order; and a row that is missing from it has the whole over-fetch ahead of it,
of which fewer than `Lim` are not closed (`MissingOnlyBehindTheClosed`).

**`IngestProofs`**. Types; each survivor the producer passed is in exactly one of channel,
batch and stage table; a run that reports success read all, counted all and left every
survivor in the table; and the refinement of `Catalog`, step by step.

**`EmbedBackfillProofs`** (`BackfillAssumption`, `TableAssumption`). The cursor divides the
keys. In front of it every row is done or on the page in hand, behind it nothing was
written, and behind a short page nothing is left (`CursorInv`); a load may add rows on
either side but gives none a vector and takes none away. Hence vectors are a row's own,
success reaches every row that was there, a failed pass leaves no gap, and a pass over
everything that no load met is up to date.

**`ServerLifecycleProofs`** (`LifecycleAssumption`). Types; pipelines are neither lost nor
shared; a service has its session and its pool while it serves, and none of them is left
open at the exit; a clean exit has cut no request. The invariant says what is there at
each point of the start (`Wired`) and that only a service with pipelines has requests
that wait for one; and it ties the exit code to the requests: `Drained` requires that
none is active, and none arrives once the listener is closed.

**`ClientProofs`**. The search page: types; nothing stale is shown; one search at a time,
because only the effect in force has an armed timer or a request in flight. The load
generator (`BenchAssumption`): types; nobody is left to send when the channel is closed (a
request sends before it gives its token back, and the dispatcher closes when it has
collected all tokens); samples and drops add up to the schedule. The bench runner
(`RunnerAssumption`): rows are of their arm, because only the last arm is searched while
the shared configuration holds its mode, or else each arm has a copy or the configuration
as loaded (`ArmsWired`, `RowsInStep`); a verdict is earned, whatever failed, because it closes
the bench and has its reason in the rows (`Reported`), the pairs of a semantic bench failing
together (`FailTogether`). For a flip the two means are compared row by row: `MeanFalls` splits
each sum into the rows both arms average and those of one arm only, and if the mean of decay is
the smaller one, some row of either part makes it so. Its index (`IndexAssumption`): documents reported as indexed
are there as read. Tasks are worked in order (`InTurn`), so once a batch of this run has
succeeded no earlier run has a task left that could put an older document in its place
(`Indexed`).

Only model-checked:

- liveness: `EveryRunEnds`, `PassEnds`, `EventuallySettles`, `SignalStops`, `WaitersServed`,
  `WindowEnds`, `OpensLaterKept`. Proofs under fairness are out of the prover's reach.
- that `TermsAgree`, the premise of `KeptRowsFound`, holds of given tables: TLC evaluates
  it on those of `rows`, where `KeptRowsUsable` checks it along with every pair of words.
- the five documented statements that the code does not keep.

## 6. What is not modelled

Floating-point rounding, vectors, trigrams and text search, JSON decoding, HTTP,
logging and timings, presentation and deployment scripts; row decoding in the API; of
the bench runner the generation of tests, the metrics no verdict rests on, the search in
Meilisearch and the text of the reports; environment variables. `PROJECT.json` gives the
reason for each.

## 7. Plan

1. `SearchService` with `Retrieval` as its first read in place of constants, and the
   back-off of the exact-name lookup with `NameMatch` behind it.
2. `SearchService` with the whole of `StableTieBreak` in the place of the pure tie-break, and
   a bound on overtaking that holds after merges.
3. Proofs: the two retrieval steps beside the limit, the vector arm and the order of the
   answer.
4. The word coverage the bench runner computes for Meilisearch's answers beside
   `lemon_name_match`, which it mirrors.
5. `Catalog` as what the readers of the table assume: `SearchService` shown to depend on
   nothing else of a load, as `EmbedBackfill` is built on it.
