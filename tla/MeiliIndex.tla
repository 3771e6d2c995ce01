------------------------------ MODULE MeiliIndex ------------------------------
(***************************************************************************)
(* indexBusinesses of the bench runner: the located rows of the table are  *)
(* sent to Meilisearch batch by batch, each batch a task the runner waits  *)
(* for.  Meilisearch works its tasks in their order, and later than the    *)
(* runner is willing to wait; an operator runs the command again over what *)
(* the table holds by then.                                                *)
(***************************************************************************)
EXTENDS Integers, SequencesExt

CONSTANTS
  Snapshots,   \* the located rows a run may read, as sets of documents
  IndexBatch,  \* indexBatch
  MaxPolls,    \* polls of one task within taskTimeout
  MaxIndexRuns,
  Settings     \* the settings task

\* A document replaces the one of its id.
ASSUME IndexAssumption ==
  /\ \A s \in Snapshots : IsFiniteSet(s) /\ \A d, e \in s : d.id = e.id => d = e
  /\ Settings \notin Seq(UNION Snapshots)
  /\ IndexBatch \in Nat \ {0} /\ MaxPolls \in Nat /\ MaxIndexRuns \in Nat

VARIABLES
  docs,   \* the documents read, in the order of the query
  start,  \* the next of them to send
  phase,  \* of the run
  task,   \* the task waited for
  polls,  \* of that task so far
  tasks,  \* what was sent to Meilisearch, with its status
  index,  \* its documents
  indexRun

indexVars == <<docs, start, phase, task, polls, tasks, index, indexRun>>

RunnerVars == <<docs, start, phase, task, polls, indexRun>>

IndexInit ==
  /\ docs = <<>> /\ start = 0 /\ phase = "read" /\ task = 0 /\ polls = 0
  /\ tasks = <<>> /\ index = {} /\ indexRun = 1

readDocs ==
  /\ phase = "read"
  /\ \/ \E s \in Snapshots : docs' \in SetToSeqs(s) /\ phase' = "send"
     \/ docs' = docs /\ phase' = "failed"
  /\ UNCHANGED <<start, task, polls, tasks, index, indexRun>>

Enqueued(payload) == Append(tasks, [payload |-> payload, status |-> "enqueued"])

\* A request that fails may have reached Meilisearch all the same.
Post(payload) ==
  /\ \/ tasks' = Enqueued(payload) /\ task' = Len(tasks') /\ phase' = "wait"
     \/ tasks' \in {tasks, Enqueued(payload)} /\ task' = task /\ phase' = "failed"
  /\ polls' = 0
  /\ UNCHANGED <<docs, start, index, indexRun>>

SendBatch ==
  /\ phase = "send" /\ start < Len(docs)
  /\ LET last == start + IndexBatch
         end  == IF last > Len(docs) THEN Len(docs) ELSE last
     IN Post(SubSeq(docs, start + 1, end))

SendSettings == phase = "send" /\ start >= Len(docs) /\ Post(Settings)

\* The next batch, or the end behind the settings.
Succeeded ==
  IF tasks[task].payload = Settings THEN phase' = "ok" /\ start' = start
  ELSE phase' = "send" /\ start' = start + IndexBatch

\* Mutant of TimedOut: the next batch is sent all the same.
TimedOutIgnored == Succeeded

TimedOut == phase' = "failed" /\ start' = start

\* waitTask: the deadline is looked at behind the status.
Poll ==
  /\ phase = "wait"
  /\ CASE tasks[task].status = "succeeded" -> Succeeded /\ polls' = polls
       [] tasks[task].status = "failed" -> phase' = "failed" /\ UNCHANGED <<start, polls>>
       [] polls = MaxPolls -> TimedOut /\ polls' = polls
       [] OTHER -> polls' = polls + 1 /\ UNCHANGED <<phase, start>>
  /\ UNCHANGED <<docs, task, tasks, index, indexRun>>

PollFails ==
  /\ phase = "wait" /\ phase' = "failed"
  /\ UNCHANGED <<docs, start, task, polls, tasks, index, indexRun>>

\* The first task that waits; canceled counts as failed.
Work ==
  \E k \in DOMAIN tasks :
    /\ tasks[k].status = "enqueued" /\ \A j \in 1..k-1 : tasks[j].status # "enqueued"
    /\ \E status \in {"succeeded", "failed"} :
         /\ tasks' = [tasks EXCEPT ![k].status = status]
         /\ index' =
              IF status = "failed" \/ tasks[k].payload = Settings THEN index
              ELSE LET sent == ToSet(tasks[k].payload)
                   IN {d \in index : \A e \in sent : d.id # e.id} \cup sent
    /\ UNCHANGED RunnerVars

IndexAgain ==
  /\ phase \in {"ok", "failed"} /\ indexRun < MaxIndexRuns
  /\ indexRun' = indexRun + 1
  /\ docs' = <<>> /\ start' = 0 /\ phase' = "read" /\ task' = 0 /\ polls' = 0
  /\ UNCHANGED <<tasks, index>>

indexBusinesses == readDocs \/ SendBatch \/ SendSettings \/ Poll \/ PollFails

IndexStep == indexBusinesses \/ Work \/ IndexAgain

IndexSpec == IndexInit /\ [][IndexStep]_indexVars
-----------------------------------------------------------------------------
\* A run that reports n businesses indexed left each of them in the index as it read it, and
\* no task an earlier run gave up waiting for puts an older document in its place later
\* (meili.go indexBusinesses, waitTask).
IndexedAsRead == phase = "ok" => ToSet(docs) \subseteq index
=============================================================================
