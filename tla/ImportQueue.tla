------------------------------ MODULE ImportQueue ------------------------------
(***************************************************************************)
(* The asynchronous import queue: rows of import_jobs, the worker processes *)
(* that claim and run them (workers/import_worker.py), the batch insert     *)
(* they call (domain/data_import/service.py), and the admin's cancel, retry *)
(* and undo requests (api/v1/data.py).  Each request and each worker does   *)
(* one database call per action, so anything may happen between two calls.  *)
(*                                                                         *)
(* Left out: the columns nothing reads back (error_message, completed_at,   *)
(* rows_inserted), the contents of a row of sales data, notification        *)
(* e-mails, logging.  Time is left out but for the one question the code    *)
(* asks of it: is heartbeat_at older than ten minutes?                      *)
(***************************************************************************)
EXTENDS Naturals, FiniteSets

CONSTANTS
    NJobs,        \* number of uploads; job numbers follow created_at
    NBatches,     \* batches of _BATCH_SIZE rows in a file
    MaxRetries,   \* ImportWorker.max_retries
    Workers,      \* worker processes; one that dies never comes back under its worker_id
    NoWorker,     \* worker_id IS NULL
    Requests,     \* admin requests the API may be serving at a time
    Ops,          \* the kinds of request the admin sends
    Secondary,    \* jobs whose table has no import_job_id column
    MaxFaults,    \* bound: failed calls, lost heartbeats and crashes per job
    MaxCalls      \* bound: admin requests

ASSUME QueueAssumption ==
    /\ NJobs \in Nat /\ NBatches \in Nat \ {0} /\ MaxRetries \in Nat
    /\ MaxFaults \in Nat /\ MaxCalls \in Nat
    /\ NoWorker \notin Workers
    /\ Ops \subseteq {"cancel", "retry", "undo"}

Jobs == 1..NJobs
Batches == 1..NBatches

Statuses == {"absent", "queued", "processing", "completed", "failed", "cancelled", "deleted"}
AtWork == {"claimed", "fetch", "insert", "complete", "retry"}
Live == {"queued", "processing"}

VARIABLES
    status,     \* import_jobs.status of each job, "absent" before the upload
    retries,    \* import_jobs.retry_count
    owner,      \* import_jobs.worker_id
    beat,       \* import_jobs.heartbeat_at: NULL, recent, or past the stale threshold
    rows,       \* copies of each batch of the job's file in its sales table
    reported,   \* jobs with a csv_import row in generated_reports
    wpc,        \* where each worker is in run_once
    wjob,       \* the job dict it holds (0: none)
    wsnap,      \* retry_count in that dict, read when the job was claimed
    wnext,      \* next batch of import_dataframe's loop
    wins,       \* batches this run of it has inserted (rows_inserted)
    beating,    \* its heartbeat task runs
    rpc,        \* where each admin request is
    rjob,       \* the job it read
    faults,     \* history: calls that failed, heartbeats lost and crashes on each job
    requeued,   \* history: jobs put back by the stale cleanup or by the admin
    undone,     \* history: jobs whose rows an undo has deleted
    calls       \* number of admin requests so far

rowVars == <<status, retries, owner, beat>>
dataVars == <<rows, reported>>
workVars == <<wjob, wsnap, wnext, wins>>
workerVars == <<wpc, workVars, beating>>
requestVars == <<rpc, rjob, calls>>
histVars == <<requeued, undone>>
vars == <<rowVars, dataVars, workerVars, requestVars, histVars, faults>>

WorkersPlaced == \A w \in Workers : wpc[w] \in AtWork => wjob[w] \in Jobs
RequestsPlaced == \A r \in Requests : rpc[r] # "none" => rjob[r] \in Jobs

TypeOK ==
    /\ status \in [Jobs -> Statuses]
    /\ retries \in [Jobs -> Nat]
    /\ owner \in [Jobs -> Workers \cup {NoWorker}]
    /\ beat \in [Jobs -> {"null", "fresh", "stale"}]
    /\ rows \in [Jobs -> [Batches -> Nat]]
    /\ reported \in SUBSET Jobs
    /\ wpc \in [Workers -> {"idle", "ready", "dead"} \cup AtWork]
    /\ wjob \in [Workers -> Jobs \cup {0}]
    /\ wsnap \in [Workers -> Nat]
    /\ wnext \in [Workers -> 1..(NBatches + 1)]
    /\ wins \in [Workers -> Nat]
    /\ beating \in [Workers -> BOOLEAN]
    /\ rpc \in [Requests -> {"none", "cancel", "retry", "undo", "mark"}]
    /\ rjob \in [Requests -> Jobs \cup {0}]
    /\ faults \in [Jobs -> Nat]
    /\ requeued \in SUBSET Jobs
    /\ undone \in SUBSET Jobs
    /\ calls \in Nat
    /\ WorkersPlaced
    /\ RequestsPlaced

Init ==
    /\ status = [j \in Jobs |-> "absent"]
    /\ retries = [j \in Jobs |-> 0]
    /\ owner = [j \in Jobs |-> NoWorker]
    /\ beat = [j \in Jobs |-> "null"]
    /\ rows = [j \in Jobs |-> [b \in Batches |-> 0]]
    /\ reported = {}
    /\ wpc = [w \in Workers |-> "idle"]
    /\ wjob = [w \in Workers |-> 0]
    /\ wsnap = [w \in Workers |-> 0]
    /\ wnext = [w \in Workers |-> 1]
    /\ wins = [w \in Workers |-> 0]
    /\ beating = [w \in Workers |-> FALSE]
    /\ rpc = [r \in Requests |-> "none"]
    /\ rjob = [r \in Requests |-> 0]
    /\ faults = [j \in Jobs |-> 0]
    /\ requeued = {}
    /\ undone = {}
    /\ calls = 0

-------------------------------------------------------------------------------
(* What the actions are made of.                                            *)

Holds(w, j) == wpc[w] \in AtWork /\ wjob[w] = j

\* A live heartbeat task writes every ten seconds; a claim has just written.
Refreshes(w, j) == Holds(w, j) /\ (wpc[w] = "claimed" \/ beating[w])

\* Something goes wrong while job j is being worked on.
Fault(j) ==
    /\ faults[j] < MaxFaults
    /\ faults' = [faults EXCEPT ![j] = @ + 1]

Requeue(j, count) ==
    /\ status' = [status EXCEPT ![j] = "queued"]
    /\ retries' = [retries EXCEPT ![j] = count]
    /\ owner' = [owner EXCEPT ![j] = NoWorker]
    /\ beat' = [beat EXCEPT ![j] = "null"]

\* complete_job: one unconditional UPDATE by id.
CompleteJob(j, success) ==
    /\ status' = [status EXCEPT ![j] = IF success THEN "completed" ELSE "failed"]
    /\ owner' = [owner EXCEPT ![j] = NoWorker]
    /\ UNCHANGED <<retries, beat>>

\* The worker's turn ends: process_job returns or raises, the heartbeat task is
\* cancelled.
LeaveTo(w, pc) ==
    /\ wpc' = [wpc EXCEPT ![w] = pc]
    /\ wjob' = [wjob EXCEPT ![w] = 0]
    /\ wsnap' = [wsnap EXCEPT ![w] = 0]
    /\ wnext' = [wnext EXCEPT ![w] = 1]
    /\ wins' = [wins EXCEPT ![w] = 0]
    /\ beating' = [beating EXCEPT ![w] = FALSE]

Goto(w, pc) == wpc' = [wpc EXCEPT ![w] = pc] /\ UNCHANGED <<workVars, beating>>

IsStaleTooSoon(j) == status[j] = "processing" /\ retries[j] < MaxRetries

IsStaleAnyStatus(j) == beat[j] = "stale" /\ retries[j] < MaxRetries

\* The WHERE of cleanup_stale_jobs.
IsStale(j) ==
    /\ status[j] = "processing"
    /\ beat[j] = "stale"
    /\ retries[j] < MaxRetries

ClaimableIfLive(j) == status[j] \in Live

\* The WHERE of claim_job's subquery.
Claimable(j) == status[j] = "queued"

ExhaustedEarly(count) == count + 1 >= MaxRetries

\* retry_job's dead-letter test.
Exhausted(count) == count >= MaxRetries

OutcomeIfAnyRows(w) == IF wins[w] = 0 THEN "retry" ELSE "complete"

\* After import_dataframe: an error in any batch raises DataImportError.
Outcome(w) == IF wins[w] < wnext[w] - 1 THEN "retry" ELSE "complete"

MoreBatchesOffByOne(w) == wnext[w] <= NBatches + 1

MoreBatches(w) == wnext[w] <= NBatches

SeenNever(j) == FALSE

\* process_job's early return.
SeenCancelled(j) == status[j] = "cancelled"

-------------------------------------------------------------------------------
(* POST /data/import/async: the file is stored and the row inserted.  A      *)
(* failure of either leaves nothing behind.                                  *)

Upload(j) ==
    /\ status[j] = "absent"
    /\ \A i \in 1..(j - 1) : status[i] # "absent"
    /\ status' = [status EXCEPT ![j] = "queued"]
    /\ UNCHANGED <<retries, owner, beat, dataVars, workerVars, requestVars, histVars, faults>>

-------------------------------------------------------------------------------
(* One worker process: run_once.                                            *)

\* cleanup_stale_jobs: one UPDATE over all the stale rows.
CleanupStaleJobs(w) ==
    LET stale == {j \in Jobs : IsStale(j)} IN
    /\ wpc[w] = "idle"
    /\ status' = [j \in Jobs |-> IF j \in stale THEN "queued" ELSE status[j]]
    /\ retries' = [j \in Jobs |-> IF j \in stale THEN retries[j] + 1 ELSE retries[j]]
    /\ owner' = [j \in Jobs |-> IF j \in stale THEN NoWorker ELSE owner[j]]
    /\ beat' = [j \in Jobs |-> IF j \in stale THEN "null" ELSE beat[j]]
    /\ requeued' = requeued \cup stale
    /\ Goto(w, "ready")
    /\ UNCHANGED <<dataVars, requestVars, undone, faults>>

ClaimRowNoBeat(w, j) ==
    /\ status' = [status EXCEPT ![j] = "processing"]
    /\ owner' = [owner EXCEPT ![j] = w]
    /\ UNCHANGED <<retries, beat>>

ClaimRow(w, j) ==
    /\ status' = [status EXCEPT ![j] = "processing"]
    /\ owner' = [owner EXCEPT ![j] = w]
    /\ beat' = [beat EXCEPT ![j] = "fresh"]
    /\ UNCHANGED retries

\* claim_job: the oldest queued row, and the job dict as RETURNING gives it.
ClaimJob(w, j) ==
    /\ wpc[w] = "ready"
    /\ Claimable(j)
    /\ \A i \in 1..(j - 1) : ~Claimable(i)
    /\ ClaimRow(w, j)
    /\ wpc' = [wpc EXCEPT ![w] = "claimed"]
    /\ wjob' = [wjob EXCEPT ![w] = j]
    /\ wsnap' = [wsnap EXCEPT ![w] = retries[j]]
    /\ UNCHANGED <<wnext, wins, beating, dataVars, requestVars, histVars, faults>>

\* The claim raises, its UPDATE applied or not: run_once logs the error.
ClaimFails(w, j) ==
    /\ wpc[w] = "ready"
    /\ Claimable(j)
    /\ \A i \in 1..(j - 1) : ~Claimable(i)
    /\ Fault(j)
    /\ ClaimRow(w, j) \/ UNCHANGED rowVars
    /\ LeaveTo(w, "idle")
    /\ UNCHANGED <<dataVars, requestVars, histVars>>

NoJob(w) ==
    /\ wpc[w] = "ready"
    /\ \A j \in Jobs : ~Claimable(j)
    /\ Goto(w, "idle")
    /\ UNCHANGED <<rowVars, dataVars, requestVars, histVars, faults>>

\* process_job reads the status again: a job cancelled meanwhile is skipped,
\* any other is worked on, with a heartbeat task.  The read may raise.
CheckStatus(w) ==
    /\ wpc[w] = "claimed"
    /\ \/ /\ SeenCancelled(wjob[w])
          /\ LeaveTo(w, "idle")
          /\ UNCHANGED faults
       \/ /\ ~SeenCancelled(wjob[w])
          /\ wpc' = [wpc EXCEPT ![w] = "fetch"]
          /\ beating' = [beating EXCEPT ![w] = TRUE]
          /\ UNCHANGED <<workVars, faults>>
       \/ Fault(wjob[w]) /\ LeaveTo(w, "idle")
    /\ UNCHANGED <<rowVars, dataVars, requestVars, histVars>>

\* download_file and parse_dataframe.
FetchAndParse(w) ==
    /\ wpc[w] = "fetch"
    /\ \/ Goto(w, "insert") /\ UNCHANGED faults
       \/ Fault(wjob[w]) /\ Goto(w, "retry")
    /\ UNCHANGED <<rowVars, dataVars, requestVars, histVars>>

InsertRows(w) == rows' = [rows EXCEPT ![wjob[w]][wnext[w]] = @ + 1]

\* One turn of import_dataframe's loop: a batch whose insert raises, applied or
\* not, is noted in errors and the loop goes on.
InsertBatch(w) ==
    /\ wpc[w] = "insert"
    /\ MoreBatches(w)
    /\ \/ /\ InsertRows(w)
          /\ wins' = [wins EXCEPT ![w] = @ + 1]
          /\ UNCHANGED faults
       \/ /\ Fault(wjob[w])
          /\ InsertRows(w) \/ UNCHANGED rows
          /\ UNCHANGED wins
    /\ wnext' = [wnext EXCEPT ![w] = @ + 1]
    /\ UNCHANGED <<reported, rowVars, wpc, wjob, wsnap, beating, requestVars, histVars>>

\* The loop is over.  A generated_reports row follows if rows_inserted > 0, and
\* the insert of it may raise; only then are the errors looked at.
ReportImport(w) ==
    /\ wpc[w] = "insert"
    /\ ~MoreBatches(w)
    /\ \/ /\ reported' = IF wins[w] > 0 THEN reported \cup {wjob[w]} ELSE reported
          /\ Goto(w, Outcome(w))
          /\ UNCHANGED faults
       \/ /\ wins[w] > 0
          /\ Fault(wjob[w])
          /\ Goto(w, "retry")
          /\ reported' \in {reported, reported \cup {wjob[w]}}
    /\ UNCHANGED <<rows, rowVars, requestVars, histVars>>

\* complete_job(success): if the call raises, the UPDATE may or may not have
\* been applied, and the except clause goes on to retry_job.
Complete(w) ==
    /\ wpc[w] = "complete"
    /\ \/ CompleteJob(wjob[w], TRUE) /\ LeaveTo(w, "idle") /\ UNCHANGED faults
       \/ CompleteJob(wjob[w], TRUE) /\ Fault(wjob[w]) /\ Goto(w, "retry")
       \/ Fault(wjob[w]) /\ Goto(w, "retry") /\ UNCHANGED rowVars
    /\ UNCHANGED <<dataVars, requestVars, histVars>>

\* retry_job, with the retry_count of the claim.  If the call raises, the
\* exception leaves process_job and the row stays as it is.
RetryJob(w) ==
    /\ wpc[w] = "retry"
    /\ \/ /\ Exhausted(wsnap[w])
          /\ CompleteJob(wjob[w], FALSE)
          /\ UNCHANGED faults
       \/ /\ ~Exhausted(wsnap[w])
          /\ Requeue(wjob[w], wsnap[w] + 1)
          /\ UNCHANGED faults
       \/ Fault(wjob[w]) /\ UNCHANGED rowVars
    /\ LeaveTo(w, "idle")
    /\ UNCHANGED <<dataVars, requestVars, histVars>>

\* update_heartbeat, whatever has become of the row.
Heartbeat(w) ==
    /\ beating[w]
    /\ beat[wjob[w]] # "fresh"
    /\ beat' = [beat EXCEPT ![wjob[w]] = "fresh"]
    /\ UNCHANGED <<status, retries, owner, dataVars, workerVars, requestVars, histVars, faults>>

\* The heartbeat task ends before the job does: an update raised, or job_timeout
\* seconds have passed.
HeartbeatEnds(w) ==
    /\ beating[w]
    /\ Fault(wjob[w])
    /\ beating' = [beating EXCEPT ![w] = FALSE]
    /\ UNCHANGED <<rowVars, dataVars, wpc, workVars, requestVars, histVars>>

\* The process is killed; the scheduler starts others, never this one again.
\* Bound: one worker is left.
Crash(w) ==
    /\ wpc[w] \in AtWork
    /\ \E v \in Workers \ {w} : wpc[v] # "dead"
    /\ Fault(wjob[w])
    /\ LeaveTo(w, "dead")
    /\ UNCHANGED <<rowVars, dataVars, requestVars, histVars>>

\* Ten minutes without a heartbeat.  Only rows in processing are aged: nothing
\* reads heartbeat_at of the others, and a claim sets it.
HeartbeatAges(j) ==
    /\ status[j] = "processing"
    /\ beat[j] = "fresh"
    /\ \A w \in Workers : ~Refreshes(w, j)
    /\ beat' = [beat EXCEPT ![j] = "stale"]
    /\ UNCHANGED <<status, retries, owner, dataVars, workerVars, requestVars, histVars, faults>>

-------------------------------------------------------------------------------
(* The admin's requests: the row is read and judged, then written by id.     *)
(* The handlers never await in between, so that an API of one process has    *)
(* one of them at a time; the workers are other processes.                   *)

ReadJob(r, op, j) ==
    /\ op \in Ops
    /\ rpc[r] = "none"
    /\ calls < MaxCalls
    /\ calls' = calls + 1
    /\ rpc' = [rpc EXCEPT ![r] = op]
    /\ rjob' = [rjob EXCEPT ![r] = j]
    /\ UNCHANGED <<rowVars, dataVars, workerVars, histVars, faults>>

CancelRead(r, j) == status[j] \in Live /\ ReadJob(r, "cancel", j)
RetryRead(r, j) == status[j] \in {"failed", "cancelled"} /\ ReadJob(r, "retry", j)
UndoRead(r, j) == status[j] \notin {"absent", "deleted"} /\ ReadJob(r, "undo", j)

Respond(r) ==
    /\ rpc' = [rpc EXCEPT ![r] = "none"]
    /\ rjob' = [rjob EXCEPT ![r] = 0]
    /\ UNCHANGED calls

CancelWrite(r) ==
    /\ rpc[r] = "cancel"
    /\ status' = [status EXCEPT ![rjob[r]] = "cancelled"]
    /\ owner' = [owner EXCEPT ![rjob[r]] = NoWorker]
    /\ Respond(r)
    /\ UNCHANGED <<retries, beat, dataVars, workerVars, histVars, faults>>

\* retry_import_job leaves retry_count as it is.
RetryWrite(r) ==
    /\ rpc[r] = "retry"
    /\ Requeue(rjob[r], retries[rjob[r]])
    /\ requeued' = requeued \cup {rjob[r]}
    /\ Respond(r)
    /\ UNCHANGED <<dataVars, workerVars, undone, faults>>

\* undo_import deletes from sales_data by import_job_id; rows of the other
\* tables carry no such column.  If the call raises, applied or not, so does the
\* request.
UndoDelete(r) ==
    /\ rpc[r] = "undo"
    /\ \/ /\ rows' = IF rjob[r] \in Secondary THEN rows
                     ELSE [rows EXCEPT ![rjob[r]] = [b \in Batches |-> 0]]
          /\ undone' = undone \cup {rjob[r]}
          /\ \/ rpc' = [rpc EXCEPT ![r] = "mark"] /\ UNCHANGED <<rjob, calls>>
             \/ Respond(r)
       \/ Respond(r) /\ UNCHANGED <<rows, undone>>
    /\ UNCHANGED <<reported, rowVars, workerVars, requeued, faults>>

\* A failure to mark the job is logged and the request succeeds all the same.
UndoMark(r) ==
    /\ rpc[r] = "mark"
    /\ \/ status' = [status EXCEPT ![rjob[r]] = "deleted"]
       \/ UNCHANGED status
    /\ Respond(r)
    /\ UNCHANGED <<retries, owner, beat, dataVars, workerVars, histVars, faults>>

\* A write raises, or the API is restarted: the request goes no further.
RequestFails(r) ==
    /\ rpc[r] # "none"
    /\ Respond(r)
    /\ UNCHANGED <<rowVars, dataVars, workerVars, histVars, faults>>

-------------------------------------------------------------------------------

WorkerStep(w) ==
    \/ CleanupStaleJobs(w)
    \/ \E j \in Jobs : ClaimJob(w, j)
    \/ NoJob(w)
    \/ CheckStatus(w)
    \/ FetchAndParse(w)
    \/ InsertBatch(w)
    \/ ReportImport(w)
    \/ Complete(w)
    \/ RetryJob(w)

RequestStep(r) ==
    CancelWrite(r) \/ RetryWrite(r) \/ UndoDelete(r) \/ UndoMark(r) \/ RequestFails(r)

Misfortune(w) ==
    \/ \E j \in Jobs : ClaimFails(w, j)
    \/ HeartbeatEnds(w)
    \/ Crash(w)

Next ==
    \/ \E j \in Jobs : Upload(j) \/ HeartbeatAges(j)
    \/ \E w \in Workers : WorkerStep(w) \/ Heartbeat(w) \/ Misfortune(w)
    \/ \E r \in Requests :
          \/ \E j \in Jobs : CancelRead(r, j) \/ RetryRead(r, j) \/ UndoRead(r, j)
          \/ RequestStep(r)

Spec == Init /\ [][Next]_vars

\* A scheduler starts the worker every minute; a step it has begun is taken or
\* fails, a heartbeat that nobody renews grows old, and a request is answered.
\* Nothing makes anyone upload, crash or ask.
Fairness ==
    /\ \A w \in Workers : WF_vars(WorkerStep(w)) /\ WF_vars(Heartbeat(w))
    /\ \A j \in Jobs : WF_vars(HeartbeatAges(j))
    /\ \A r \in Requests : WF_vars(RequestStep(r))

FairSpec == Spec /\ Fairness

-------------------------------------------------------------------------------
(* Properties.                                                              *)

\* A row in processing names the worker that claimed it and carries a
\* heartbeat: `heartbeat_at < threshold` of the cleanup's WHERE, never true of
\* NULL, becomes true of it once nobody refreshes it.  Whether the cleanup then
\* takes the row also depends on retry_count < max_retries: see Stranded.
ClaimedRowsCanGoStale ==
    \A j \in Jobs : status[j] = "processing" => owner[j] # NoWorker /\ beat[j] # "null"

\* The retry budget is spent on faults only: neither the stale cleanup nor an
\* old worker's retry_job, which writes its own snapshot plus one, charges a job
\* for more than went wrong with it, whatever cancels and retries come between;
\* and a job is dead-lettered only after max_retries + 1 things went wrong.
RetriesAreFaults ==
    \A j \in Jobs :
        /\ retries[j] <= faults[j]
        /\ status[j] = "failed" => faults[j] > MaxRetries

\* Unless the stale cleanup or the admin has put the job back, the claim is
\* exclusive: no two workers hold it, and none holds it while it is queued.
ExclusiveClaim ==
    \A j \in Jobs \ requeued :
        /\ \A v, w \in Workers : Holds(v, j) /\ Holds(w, j) => v = w
        /\ status[j] \in {"absent", "queued"} => \A w \in Workers : ~Holds(w, j)

\* A completed job has every batch of its file in the sales table and its entry
\* in generated_reports, whatever went wrong on the way, unless an undo has
\* deleted rows of it.
CompletedIsLoaded ==
    \A j \in Jobs \ undone :
        status[j] = "completed" => j \in reported /\ \A b \in Batches : rows[j][b] >= 1

\* With nothing gone wrong and nobody interfering a completed job has every
\* batch exactly once.
LoadedOnce ==
    \A j \in Jobs \ (requeued \cup undone) :
        status[j] = "completed" /\ faults[j] = 0 => \A b \in Batches : rows[j][b] = 1

CancelledInTime(j) ==
    status[j] = "cancelled" /\ \A w \in Workers : Holds(w, j) => wpc[w] = "claimed"

\* The plan of the worker ("no duplicate rows"): a completed job has no batch twice.
NoDuplicateRows ==
    \A j \in Jobs : status[j] = "completed" => \A b \in Batches : rows[j][b] <= 1

\* What undo_import says of itself: the rows of the job are gone.
UndoneHasNoRows ==
    \A j \in Jobs : status[j] = "deleted" => \A b \in Batches : rows[j][b] = 0

\* A cancel that comes before the worker's second look at the status is final:
\* nobody starts on the job and the row stays cancelled until a retry (or the
\* undo) of the admin is written.
CancelStands ==
    [][\A j \in Jobs :
          CancelledInTime(j) =>
              \/ CancelledInTime(j)'
              \/ \E r \in Requests : rjob[r] = j /\ rpc[r] \in {"retry", "mark"}]_vars

\* A row the queue has lost: in processing on its last attempt, and no worker
\* has it (the worker died, its claim or its second look raised, or its
\* retry_job did).  The cleanup never takes it, as retry_count = max_retries.
Stranded(j) ==
    /\ status[j] = "processing"
    /\ retries[j] >= MaxRetries
    /\ \A w \in Workers : ~Holds(w, j)

\* A job in the queue ends up done, dead-lettered, cancelled or deleted, unless
\* its last attempt is lost without a write to the row: that, and nothing else,
\* leaves a row in processing for ever.
EverySettles == \A j \in Jobs : status[j] \in Live ~> (status[j] \notin Live \/ Stranded(j))

\* With no more faults than retries, every upload is completed and stays so,
\* unless the admin interferes with the queue.
UploadsComplete ==
    \A j \in Jobs :
        status[j] = "queued" ~>
            (calls > 0 \/ faults[j] > MaxRetries \/ [](status[j] = "completed"))

-------------------------------------------------------------------------------
(* What the queue promises, in the terms of ImportContract.                 *)

Contract == INSTANCE ImportContract WITH
    phase <- [j \in Jobs |-> IF status[j] \in Live THEN "pending" ELSE status[j]],
    loaded <- [j \in Jobs |-> {b \in Batches : rows[j][b] > 0}],
    withdrawn <- undone

ImplementsContract == Contract!Spec

(* What the rest of the program sees of the queue, in the terms of ImportRows. *)

RowOf(s) ==
    CASE s = "absent" -> "none"
      [] s \in Live -> "active"
      [] s = "completed" -> "done"
      [] s \in {"failed", "cancelled"} -> "stopped"
      [] s = "deleted" -> "deleted"

Judged(r) == <<IF rpc[r] = "mark" THEN "undo" ELSE rpc[r], rjob[r]>>

Rows == INSTANCE ImportRows WITH
    row <- [j \in Jobs |-> RowOf(status[j])],
    held <- {j \in Jobs : \E w \in Workers : Holds(w, j)},
    judged <- {Judged(r) : r \in {q \in Requests : rpc[q] # "none"}}

\* A row that no worker holds and no request was let through for stays as it is; in particular
\* the cleanup and the claim bring no ended, cancelled or deleted job back.
FollowsRows == Rows!Spec

===============================================================================
