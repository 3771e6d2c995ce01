------------------------------- MODULE Ingest --------------------------------
(***************************************************************************)
(* The loader CLI: cmd/ingest run() with its producer goroutine, the       *)
(* channel of prepared rows and Loader.Load, against a Postgres that may   *)
(* fail any statement or lose the answer to COMMIT.  The process may be    *)
(* signalled or killed at any time, and the operator may run it again.     *)
(*                                                                         *)
(* A row in flight is named by its position in the input file, so the      *)
(* channel, the batch and the stage table hold positions.                  *)
(***************************************************************************)
EXTENDS BusinessTable, Functions

CONSTANTS
  MaxRuns,            \* bound on the runs of the loader
  CopyBatchSize,      \* copyBatchSize
  CopyChannelBuffer   \* capacity of the channel rows

ASSUME BatchAssumption ==
  /\ MaxRuns \in Nat \ {0}
  /\ CopyBatchSize \in Nat \ {0}
  /\ CopyChannelBuffer \in Nat \ {0}

VARIABLES
  businesses,  \* the table
  input,       \* the file being loaded
  run,         \* number of the run
  applied,     \* the run's transaction has been committed
  ctxDone,     \* pipeCtx is cancelled: a signal, or run's cancel()
  mainPc, outcome,
  ppc, pos, tally, prodErr,    \* producer: next record of the file, stats, stats.err
  rows,                        \* the channel
  lpc, batch, total, loadErr,  \* Load and copyAll
  stage                        \* the temp table of the open transaction

producerVars == <<ppc, pos, tally, prodErr>>
loaderVars   == <<lpc, batch, total, loadErr>>
tableVars    == <<businesses, input, run, applied>>
mainVars     == <<ctxDone, mainPc, outcome>>

vars == <<tableVars, mainVars, producerVars, rows, loaderVars, stage>>

Counters == Drops \cup {"read", "bucketed"}

TableTypes ==
  /\ businesses \in [Id -> Row \cup {Absent}]
  /\ input \in Feeds
  /\ run \in 1..MaxRuns

MainTypes ==
  /\ mainPc \in {"start", "load", "wait", "exited"}
  /\ outcome \in {"running", "ok", "error", "killed"}

ProducerTypes ==
  /\ ppc \in {"loop", "send", "publish", "close", "exited"}
  /\ pos \in 1..Len(input)+1
  /\ tally \in [Counters -> Nat]
  /\ prodErr \in {"none", "cancelled", "broken"}

LoaderTypes ==
  /\ rows \in Seq(1..Len(input))
  /\ lpc \in {"acquire", "begin", "createStage", "receive", "copy", "copyLast",
              "upsert", "commit", "returned"}
  /\ batch \in Seq(1..Len(input))
  /\ total \in Nat
  /\ stage \subseteq 1..Len(input)

FlagTypes == applied \in BOOLEAN /\ ctxDone \in BOOLEAN /\ loadErr \in BOOLEAN

TypeOK == FlagTypes /\ TableTypes /\ MainTypes /\ ProducerTypes /\ LoaderTypes

\* The stats are in the channel done; the channel rows is closed.
published == ppc \in {"close", "exited"}
closed == ppc = "exited"

Init ==
  /\ businesses \in Tables /\ input \in Feeds /\ run = 1 /\ applied = FALSE
  /\ ctxDone = FALSE /\ mainPc = "start" /\ outcome = "running"
  /\ ppc = "loop" /\ pos = 1 /\ tally = [c \in Counters |-> 0]
  /\ prodErr = "none" /\ rows = <<>>
  /\ lpc = "acquire" /\ batch = <<>> /\ total = 0 /\ loadErr = FALSE
  /\ stage = {}
-----------------------------------------------------------------------------
(* run: opens the file and the pool, starts the producer, calls Load.        *)

Start ==
  /\ mainPc = "start"
  /\ mainPc' = "load"
  /\ UNCHANGED <<ctxDone, outcome, tableVars, producerVars, rows, loaderVars, stage>>

\* No path, no database URL, no file or no pool: nothing has been touched.
StartFails ==
  /\ mainPc = "start"
  /\ mainPc' = "exited" /\ outcome' = "error"
  /\ UNCHANGED <<ctxDone, tableVars, producerVars, rows, loaderVars, stage>>

\* Mutant of AfterLoad: no cancel() between Load and wait.
AfterLoadUncancelled ==
  /\ mainPc = "load" /\ lpc = "returned"
  /\ mainPc' = "wait"
  /\ UNCHANGED <<ctxDone, outcome, tableVars, producerVars, rows, loaderVars, stage>>

\* Load has returned: cancel(), which frees a producer blocked on the channel.
AfterLoad ==
  /\ mainPc = "load" /\ lpc = "returned"
  /\ ctxDone' = TRUE
  /\ mainPc' = "wait"
  /\ UNCHANGED <<outcome, tableVars, producerVars, rows, loaderVars, stage>>

\* Mutant of Verdict: stats.err is not looked at.
VerdictOfLoad == IF loadErr THEN {"error"} ELSE {"ok", "error"}

\* loadErr, then stats.err, then writing the report, which may fail.
Verdict == IF loadErr \/ prodErr # "none" THEN {"error"} ELSE {"ok", "error"}

\* stats := prod.wait()
Report ==
  /\ mainPc = "wait" /\ published
  /\ mainPc' = "exited"
  /\ outcome' \in Verdict
  /\ UNCHANGED <<ctxDone, tableVars, producerVars, rows, loaderVars, stage>>

\* SIGINT or SIGTERM.
Signal ==
  /\ mainPc # "exited" /\ ~ctxDone
  /\ ctxDone' = TRUE
  /\ UNCHANGED <<mainPc, outcome, tableVars, producerVars, rows, loaderVars, stage>>

\* The process dies; Postgres rolls an open transaction back, which leaves no trace.
Kill ==
  /\ mainPc # "exited"
  /\ mainPc' = "exited" /\ outcome' = "killed"
  /\ UNCHANGED <<ctxDone, tableVars, producerVars, rows, loaderVars, stage>>

\* The operator runs the loader again, on the same or another file.
RunAgain ==
  /\ mainPc = "exited"
  /\ run < MaxRuns
  /\ run' = run + 1 /\ input' \in Feeds /\ applied' = FALSE
  /\ ctxDone' = FALSE /\ mainPc' = "start" /\ outcome' = "running"
  /\ ppc' = "loop" /\ pos' = 1 /\ tally' = [c \in Counters |-> 0]
  /\ prodErr' = "none" /\ rows' = <<>>
  /\ lpc' = "acquire" /\ batch' = <<>> /\ total' = 0 /\ loadErr' = FALSE
  /\ stage' = {}
  /\ UNCHANGED businesses
-----------------------------------------------------------------------------
(* producer.run                                                              *)

Producing == mainPc \in {"load", "wait"}
ProducerUnchanged == UNCHANGED <<tableVars, mainVars, loaderVars, stage>>

SeesCancel ==
  /\ Producing /\ ppc = "loop" /\ ctxDone
  /\ prodErr' = "cancelled" /\ ppc' = "publish"
  /\ UNCHANGED <<pos, tally, rows>>
  /\ ProducerUnchanged

Eof ==
  /\ Producing /\ ppc = "loop" /\ ~ctxDone
  /\ pos = Len(input) + 1
  /\ ppc' = "publish"
  /\ UNCHANGED <<pos, tally, prodErr, rows>>
  /\ ProducerUnchanged

ParserError ==
  /\ Producing /\ ppc = "loop" /\ ~ctxDone
  /\ pos <= Len(input) /\ input[pos].kind = "broken"
  /\ prodErr' = "broken" /\ ppc' = "publish"
  /\ UNCHANGED <<pos, tally, rows>>
  /\ ProducerUnchanged

\* The counters record k bumps; one that does not sanitize counts for nothing.
Counted(k) ==
  {c \in Counters : \/ c = "read" /\ input[k].kind # "unparseable"
                    \/ c = input[k].kind}

Tallied(k) == [c \in Counters |-> IF c \in Counted(k) THEN tally[c] + 1 ELSE tally[c]]

Drop ==
  /\ Producing /\ ppc = "loop" /\ ~ctxDone
  /\ pos <= Len(input) /\ input[pos].kind # "broken" /\ ~Survives(input, pos)
  /\ tally' = Tallied(pos)
  /\ pos' = pos + 1
  /\ UNCHANGED <<ppc, prodErr, rows>>
  /\ ProducerUnchanged

\* A survivor stays at pos until it is sent.
Keep ==
  /\ Producing /\ ppc = "loop" /\ ~ctxDone
  /\ pos <= Len(input) /\ Survives(input, pos)
  /\ tally' = Tallied(pos)
  /\ ppc' = "send"
  /\ UNCHANGED <<pos, prodErr, rows>>
  /\ ProducerUnchanged

\* The two cases of select are both possible when the context is done and the channel
\* has room.
Send ==
  /\ Producing /\ ppc = "send"
  /\ Len(rows) < CopyChannelBuffer
  /\ rows' = Append(rows, pos)
  /\ pos' = pos + 1
  /\ ppc' = "loop"
  /\ UNCHANGED <<tally, prodErr>>
  /\ ProducerUnchanged

SendCancelled ==
  /\ Producing /\ ppc = "send" /\ ctxDone
  /\ prodErr' = "cancelled" /\ ppc' = "publish"
  /\ UNCHANGED <<pos, tally, rows>>
  /\ ProducerUnchanged

\* p.done <- s never blocks: the channel has room for the one value it gets.
Publish ==
  /\ Producing /\ ppc = "publish"
  /\ ppc' = "close"
  /\ UNCHANGED <<pos, tally, prodErr, rows>>
  /\ ProducerUnchanged

\* The deferred close(out).
Close ==
  /\ Producing /\ ppc = "close"
  /\ ppc' = "exited"
  /\ UNCHANGED <<pos, tally, prodErr, rows>>
  /\ ProducerUnchanged

Producer ==
  \/ SeesCancel \/ Eof \/ ParserError \/ Drop \/ Keep
  \/ Send \/ SendCancelled \/ Publish \/ Close
-----------------------------------------------------------------------------
(* Loader.Load, copyAll and copyBatch.  Every pgx call looks at the context  *)
(* first, and may fail for reasons of its own.                               *)

Loading == mainPc = "load"
LoaderUnchanged == UNCHANGED <<mainVars, producerVars>>

\* Load returns an error; the deferred Rollback, or the server when the connection is
\* dropped, ends the transaction.
Fails ==
  /\ lpc' = "returned" /\ loadErr' = TRUE
  /\ UNCHANGED <<batch, total, stage, rows, tableVars>>
  /\ LoaderUnchanged

StatementFails ==
  /\ Loading
  /\ lpc \in {"acquire", "begin", "createStage", "copy", "copyLast", "upsert"}
  /\ Fails

\* pool.Acquire, conn.Begin and create temp table.
Setup ==
  /\ Loading /\ ~ctxDone
  /\ \/ lpc = "acquire"     /\ lpc' = "begin"
     \/ lpc = "begin"       /\ lpc' = "createStage"
     \/ lpc = "createStage" /\ lpc' = "receive"
  /\ UNCHANGED <<batch, total, loadErr, stage, rows, tableVars>>
  /\ LoaderUnchanged

ReceiveCancelled ==
  /\ Loading /\ lpc = "receive" /\ ctxDone
  /\ Fails

Receive ==
  /\ Loading /\ lpc = "receive"
  /\ rows # <<>>
  /\ batch' = Append(batch, Head(rows))
  /\ rows' = Tail(rows)
  /\ lpc' = IF Len(batch') < CopyBatchSize THEN "receive" ELSE "copy"
  /\ UNCHANGED <<total, loadErr, stage, tableVars>>
  /\ LoaderUnchanged

\* The channel is closed and drained; an empty last batch makes no call.
ReceiveClosed ==
  /\ Loading /\ lpc = "receive"
  /\ closed /\ rows = <<>>
  /\ lpc' = IF batch = <<>> THEN "upsert" ELSE "copyLast"
  /\ UNCHANGED <<batch, total, loadErr, rows, stage, tableVars>>
  /\ LoaderUnchanged

\* Mutant of Copy: batch = batch[:0] is lost and the rows are copied over, not added.
CopyForgettingBatch ==
  /\ Loading /\ lpc \in {"copy", "copyLast"} /\ ~ctxDone
  /\ UniqueIds(input, stage \cup Range(batch))
  /\ stage' = Range(batch)
  /\ total' = total + Len(batch)
  /\ batch' = <<>>
  /\ lpc' = IF lpc = "copy" THEN "receive" ELSE "upsert"
  /\ UNCHANGED <<loadErr, rows, tableVars>>
  /\ LoaderUnchanged

\* COPY into the stage table, whose primary key is that of businesses; an id that is
\* there already makes it fail.
Copy ==
  /\ Loading /\ lpc \in {"copy", "copyLast"} /\ ~ctxDone
  /\ UniqueIds(input, stage \cup Range(batch))
  /\ stage' = stage \cup Range(batch)
  /\ total' = total + Len(batch)
  /\ batch' = <<>>
  /\ lpc' = IF lpc = "copy" THEN "receive" ELSE "upsert"
  /\ UNCHANGED <<loadErr, rows, tableVars>>
  /\ LoaderUnchanged

\* Mutant of Upsert: the statement is sent whatever the context says.
UpsertUncancellable ==
  /\ Loading /\ lpc = "upsert"
  /\ lpc' = "commit"
  /\ UNCHANGED <<batch, total, loadErr, rows, stage, tableVars>>
  /\ LoaderUnchanged

\* Its effect is visible to others when the transaction commits.
Upsert ==
  /\ Loading /\ lpc = "upsert" /\ ~ctxDone
  /\ lpc' = "commit"
  /\ UNCHANGED <<batch, total, loadErr, rows, stage, tableVars>>
  /\ LoaderUnchanged

CommitApplied ==
  /\ businesses' = Upserted(businesses, input, stage, run)
  /\ applied' = TRUE
  /\ lpc' = "returned"
  /\ UNCHANGED <<input, run, batch, total, stage, rows>>
  /\ LoaderUnchanged

Commit ==
  /\ Loading /\ lpc = "commit" /\ ~ctxDone
  /\ CommitApplied
  /\ UNCHANGED loadErr

\* The server commits and the answer is lost, or the context is cancelled while COMMIT
\* is under way: Load returns an error all the same.
CommitAnswerLost ==
  /\ Loading /\ lpc = "commit"
  /\ CommitApplied
  /\ loadErr' = TRUE

CommitFails ==
  /\ Loading /\ lpc = "commit"
  /\ Fails

Loader ==
  \/ StatementFails \/ Setup \/ ReceiveCancelled \/ Receive \/ ReceiveClosed
  \/ Copy \/ Upsert \/ Commit \/ CommitAnswerLost \/ CommitFails

Main == Start \/ StartFails \/ AfterLoad \/ Report

Next == Main \/ Signal \/ Kill \/ RunAgain \/ Producer \/ Loader

\* The goroutines run, and a statement is answered or times out (statementTO).
Fairness == WF_vars(Main) /\ WF_vars(Producer) /\ WF_vars(Loader)

Spec == Init /\ [][Next]_vars /\ Fairness
-----------------------------------------------------------------------------
C == INSTANCE Catalog WITH table <- businesses, file <- input,
                             attempt <- run, loaded <- applied

\* The records the producer has passed on, or would have, before pos.
Sent == {k \in 1..pos-1 : Survives(input, k)}

\* Every survivor the producer has let go is in the channel, the batch or the stage
\* table, and counted once (pipeline.go run, loader.go copyAll).
RowsConserved ==
  /\ stage \cup Range(batch) \cup Range(rows) = Sent
  /\ total + Len(batch) + Len(rows) = Cardinality(Sent)

\* A run that reports success has read the whole file, accounts for every record of it
\* and left every survivor in the table as the file has it (main.go run).
ReportedLoadComplete ==
  outcome = "ok" =>
    /\ applied
    /\ \A k \in 1..Len(input) :
         /\ input[k].kind # "broken"
         /\ Survives(input, k) => businesses[input[k].id].version = input[k].version
    /\ total = Cardinality(Survivors(input))
    /\ tally["read"] = total + tally["geo"] + tally["noAddress"] + tally["category"]

\* Interrupted, failed, killed or repeated, a run changes the table at most once, to
\* what the whole stream of survivors makes of it: a prefix cut short by a signal is
\* never committed (loader.go Load, main.go run).
ImplementsCatalog == C!Spec

\* Every run ends: Load's error or a signal never leaves the producer blocked on the
\* channel and main waiting for its stats (main.go run, pipeline.go run).
EveryRunEnds == mainPc = "load" ~> mainPc = "exited"

\* Documented: everything but created_at is refreshed by a load
\* (docs/data/ingestion.md:243).
EmbeddingRefreshed ==
  outcome = "ok" =>
    \A k \in Survivors(input) :
      businesses[input[k].id].embedding \in {Null, businesses[input[k].id].version}

\* What a table tells a search, apart from embeddings.
Contents(table) == [x \in Id |-> IF table[x] = Absent THEN Absent ELSE table[x].version]

\* Documented: ingesting a file "produces the same final state, regardless of whether the
\* table was empty or pre-populated" (docs/data/ingestion.md:170-172).
FinalStateFromFile ==
  outcome = "ok" =>
    Contents(businesses) =
      Contents(Upserted([x \in Id |-> Absent], input, Survivors(input), run))
=============================================================================
