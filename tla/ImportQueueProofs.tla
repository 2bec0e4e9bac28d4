--------------------------- MODULE ImportQueueProofs ---------------------------
(***************************************************************************)
(* Proofs about ImportQueue, for any number of jobs, workers and requests:  *)
(* its types and retry budget first, then what a finished import has left   *)
(* in the sales table: the claim's exclusiveness, what "completed" says,    *)
(* and that ImportQueue implements ImportContract and ImportRows.           *)
(***************************************************************************)
EXTENDS ImportQueue, TLAPS

\* The values of a worker's program counter.
PCs == {"idle", "ready", "dead"} \cup AtWork

\* A fault changes a counter to a counter.
LEMMA FaultType ==
  ASSUME TypeOK, NEW j \in Jobs, Fault(j)
  PROVE  faults' \in [Jobs -> Nat]
  BY DEF TypeOK, Fault

\* Goto moves a worker that holds a job, or one that goes on without any.
LEMMA GotoType ==
  ASSUME TypeOK, NEW w \in Workers, NEW pc \in PCs, Goto(w, pc),
         wpc[w] \in AtWork \/ pc \notin AtWork
  PROVE  /\ wpc' \in [Workers -> PCs]
         /\ UNCHANGED <<wjob, wsnap, wnext, wins, beating>>
         /\ WorkersPlaced'
  BY DEF Goto, TypeOK, WorkersPlaced, workVars, PCs

\* A worker that lets go of its job is left with well-typed, reset variables.
LEMMA LeaveType ==
  ASSUME TypeOK, NEW w \in Workers, NEW pc \in PCs \ AtWork, LeaveTo(w, pc)
  PROVE  /\ wpc' \in [Workers -> PCs]
         /\ wjob' \in [Workers -> Jobs \cup {0}]
         /\ wsnap' \in [Workers -> Nat]
         /\ wnext' \in [Workers -> 1..(NBatches + 1)]
         /\ wins' \in [Workers -> Nat]
         /\ beating' \in [Workers -> BOOLEAN]
         /\ WorkersPlaced'
<1>1. 1 \in 1..(NBatches + 1)
  BY QueueAssumption
<1> QED
  BY <1>1 DEF LeaveTo, TypeOK, WorkersPlaced, PCs

\* A step that leaves the workers where they are keeps them placed.
LEMMA StayPlaced ==
  ASSUME WorkersPlaced, UNCHANGED <<wpc, wjob>>
  PROVE  WorkersPlaced'
  BY DEF WorkersPlaced

\* Likewise for the admin's requests.
LEMMA RequestsStay ==
  ASSUME RequestsPlaced, UNCHANGED requestVars
  PROVE  RequestsPlaced'
  BY DEF RequestsPlaced, requestVars

\* Type correctness: every variable keeps its type in every reachable state, and
\* a worker or a request that is at work on a job knows which.
THEOREM TypeCorrect == Spec => []TypeOK
<1> USE DEF PCs
<1>1. Init => TypeOK
  BY QueueAssumption DEF Init, TypeOK, Statuses, WorkersPlaced, RequestsPlaced, AtWork
<1>2. TypeOK /\ [Next]_vars => TypeOK'
  <2> SUFFICES ASSUME TypeOK, [Next]_vars PROVE TypeOK'
    OBVIOUS
  <2> USE StayPlaced, RequestsStay DEF TypeOK
  <2>1. ASSUME NEW j \in Jobs, Upload(j) \/ HeartbeatAges(j) PROVE TypeOK'
    BY <2>1 DEF Upload, HeartbeatAges, Statuses, dataVars, workVars, workerVars,
                requestVars, histVars
  <2>2. ASSUME NEW w \in Workers, CleanupStaleJobs(w) PROVE TypeOK'
    <3>1. retries' \in [Jobs -> Nat]
      BY <2>2 DEF CleanupStaleJobs
    <3>2. requeued' \in SUBSET Jobs
      BY <2>2 DEF CleanupStaleJobs
    <3>3. wpc' \in [Workers -> PCs] /\ UNCHANGED <<workVars, beating>> /\ WorkersPlaced'
      BY <2>2, GotoType DEF CleanupStaleJobs, AtWork, workVars
    <3> QED
      BY <2>2, <3>1, <3>2, <3>3
         DEF CleanupStaleJobs, Statuses, dataVars, workVars, requestVars
  <2>3. ASSUME NEW w \in Workers, NEW j \in Jobs, ClaimJob(w, j) PROVE TypeOK'
    <3>1. WorkersPlaced'
      BY <2>3 DEF ClaimJob, WorkersPlaced
    <3> QED
      BY <2>3, <3>1 DEF ClaimJob, ClaimRow, Statuses, AtWork, dataVars, requestVars, histVars
  <2>4. ASSUME NEW w \in Workers, NEW j \in Jobs, ClaimFails(w, j) PROVE TypeOK'
    <3>1. CASE ClaimRow(w, j)
      BY <2>4, <3>1, FaultType, LeaveType
         DEF ClaimFails, ClaimRow, Statuses, AtWork, dataVars, requestVars, histVars
    <3>2. CASE UNCHANGED rowVars
      BY <2>4, <3>2, FaultType, LeaveType
         DEF ClaimFails, AtWork, rowVars, dataVars, requestVars, histVars
    <3> QED
      BY <2>4, <3>1, <3>2 DEF ClaimFails
  <2>5. ASSUME NEW w \in Workers, wpc[w] \in AtWork PROVE wjob[w] \in Jobs
    BY <2>5 DEF WorkersPlaced
  <2>6. ASSUME NEW w \in Workers, NoJob(w) PROVE TypeOK'
    BY <2>6, GotoType DEF NoJob, AtWork, rowVars, dataVars, requestVars, histVars
  <2>7. ASSUME NEW w \in Workers, CheckStatus(w) PROVE TypeOK'
    <3>1. CASE LeaveTo(w, "idle")
      BY <2>5, <2>7, <3>1, FaultType, LeaveType
         DEF CheckStatus, AtWork, rowVars, dataVars, requestVars, histVars
    <3>2. CASE /\ wpc' = [wpc EXCEPT ![w] = "fetch"]
               /\ beating' = [beating EXCEPT ![w] = TRUE]
               /\ UNCHANGED <<workVars, faults>>
      <4>1. WorkersPlaced'
        BY <2>5, <2>7, <3>2 DEF CheckStatus, WorkersPlaced, AtWork, workVars
      <4> QED
        BY <2>7, <3>2, <4>1
           DEF CheckStatus, AtWork, rowVars, dataVars, workVars, requestVars, histVars
    <3> QED
      BY <2>7, <3>1, <3>2 DEF CheckStatus
  <2>8. ASSUME NEW w \in Workers, FetchAndParse(w) PROVE TypeOK'
    BY <2>5, <2>8, FaultType, GotoType
       DEF FetchAndParse, AtWork, rowVars, dataVars, requestVars, histVars
  <2>9. ASSUME NEW w \in Workers, InsertBatch(w) PROVE TypeOK'
    <3>1. wjob[w] \in Jobs /\ wnext[w] \in Batches
      BY <2>5, <2>9 DEF InsertBatch, MoreBatches, Batches, AtWork
    <3>2. rows' \in [Jobs -> [Batches -> Nat]]
      <4>1. CASE InsertRows(w)
        <5>1. rows[wjob[w]] \in [Batches -> Nat]
          BY <3>1
        <5>2. [rows[wjob[w]] EXCEPT ![wnext[w]] = @ + 1] \in [Batches -> Nat]
          BY <3>1, <5>1
        <5> QED
          BY <3>1, <4>1, <5>2 DEF InsertRows
      <4>2. CASE UNCHANGED rows
        BY <4>2
      <4> QED
        BY <2>9, <4>1, <4>2 DEF InsertBatch
    <3>3. wnext' \in [Workers -> 1..(NBatches + 1)] /\ wins' \in [Workers -> Nat]
      <4>1. wnext' = [wnext EXCEPT ![w] = @ + 1] /\ wnext[w] + 1 \in 1..(NBatches + 1)
        BY <2>9, <3>1, QueueAssumption DEF InsertBatch, Batches
      <4>2. wins' = [wins EXCEPT ![w] = @ + 1] \/ UNCHANGED wins
        BY <2>9 DEF InsertBatch
      <4> QED
        BY <4>1, <4>2
    <3>4. faults' \in [Jobs -> Nat]
      BY <2>9, <3>1, FaultType DEF InsertBatch
    <3> QED
      BY <2>9, <3>2, <3>3, <3>4 DEF InsertBatch, rowVars, requestVars, histVars
  <2>10. ASSUME NEW w \in Workers, ReportImport(w) PROVE TypeOK'
    <3>1. wjob[w] \in Jobs
      BY <2>5, <2>10 DEF ReportImport, AtWork
    <3>2. Outcome(w) \in PCs
      BY DEF Outcome, AtWork
    <3>3. wpc' \in [Workers -> PCs] /\ UNCHANGED <<workVars, beating>> /\ WorkersPlaced'
      BY <2>10, <3>2, GotoType DEF ReportImport, AtWork, workVars
    <3>4. reported' \in SUBSET Jobs /\ faults' \in [Jobs -> Nat]
      BY <2>10, <3>1, FaultType DEF ReportImport
    <3> QED
      BY <2>10, <3>3, <3>4 DEF ReportImport, rowVars, workVars, requestVars, histVars
  <2>11. ASSUME NEW w \in Workers, Complete(w) \/ RetryJob(w) PROVE TypeOK'
    <3>1. wjob[w] \in Jobs /\ wpc[w] \in AtWork
      BY <2>5, <2>11 DEF Complete, RetryJob, AtWork
    <3>2. /\ status' \in [Jobs -> Statuses]
          /\ retries' \in [Jobs -> Nat]
          /\ owner' \in [Jobs -> Workers \cup {NoWorker}]
          /\ beat' \in [Jobs -> {"null", "fresh", "stale"}]
      <4>1. CASE \E s \in BOOLEAN : CompleteJob(wjob[w], s)
        BY <4>1 DEF CompleteJob, Statuses
      <4>2. CASE Requeue(wjob[w], wsnap[w] + 1)
        BY <3>1, <4>2 DEF Requeue, Statuses
      <4>3. CASE UNCHANGED rowVars
        BY <4>3 DEF rowVars
      <4> QED
        BY <2>11, <4>1, <4>2, <4>3 DEF Complete, RetryJob
    <3>3. faults' \in [Jobs -> Nat]
      BY <2>11, <3>1, FaultType DEF Complete, RetryJob
    <3>4. /\ wpc' \in [Workers -> PCs]
          /\ wjob' \in [Workers -> Jobs \cup {0}]
          /\ wsnap' \in [Workers -> Nat]
          /\ wnext' \in [Workers -> 1..(NBatches + 1)]
          /\ wins' \in [Workers -> Nat]
          /\ beating' \in [Workers -> BOOLEAN]
          /\ WorkersPlaced'
      <4>1. CASE LeaveTo(w, "idle")
        BY <4>1, LeaveType DEF AtWork
      <4>2. CASE Goto(w, "retry")
        BY <3>1, <4>2, GotoType DEF AtWork
      <4> QED
        BY <2>11, <4>1, <4>2 DEF Complete, RetryJob
    <3> QED
      BY <2>11, <3>2, <3>3, <3>4 DEF Complete, RetryJob, dataVars, requestVars, histVars
  <2>12. ASSUME NEW w \in Workers, Heartbeat(w) PROVE TypeOK'
    BY <2>12 DEF Heartbeat, dataVars, workVars, workerVars, requestVars, histVars
  <2>13. ASSUME NEW w \in Workers, Crash(w) PROVE TypeOK'
    BY <2>5, <2>13, FaultType, LeaveType
       DEF Crash, AtWork, rowVars, dataVars, requestVars, histVars
  <2>14. ASSUME NEW w \in Workers, HeartbeatEnds(w) PROVE TypeOK'
    <3>1. faults' \in [Jobs -> Nat]
      <4>1. CASE wjob[w] \in Jobs
        BY <2>14, <4>1, FaultType DEF HeartbeatEnds
      <4>2. CASE wjob[w] \notin Jobs
        BY <2>14, <4>2 DEF HeartbeatEnds, Fault
      <4> QED
        BY <4>1, <4>2
    <3> QED
      BY <2>14, <3>1 DEF HeartbeatEnds, rowVars, dataVars, workVars, requestVars, histVars
  <2>15. ASSUME NEW r \in Requests, NEW j \in Jobs,
                CancelRead(r, j) \/ RetryRead(r, j) \/ UndoRead(r, j)
         PROVE TypeOK'
    <3>1. PICK op \in {"cancel", "retry", "undo"} : ReadJob(r, op, j)
      BY <2>15 DEF CancelRead, RetryRead, UndoRead
    <3>2. RequestsPlaced'
      BY <3>1 DEF ReadJob, RequestsPlaced
    <3> QED
      BY <3>1, <3>2 DEF ReadJob, rowVars, dataVars, workVars, workerVars, histVars
  <2>16. ASSUME NEW r \in Requests, RequestStep(r) PROVE TypeOK'
    <3>1. rjob[r] \in Jobs
      BY <2>16 DEF RequestStep, CancelWrite, RetryWrite, UndoDelete, UndoMark, RequestFails,
                   RequestsPlaced
    <3>2. RequestsPlaced'
      <4>1. CASE Respond(r)
        BY <4>1 DEF Respond, RequestsPlaced
      <4>2. CASE rpc' = [rpc EXCEPT ![r] = "mark"] /\ UNCHANGED <<rjob, calls>>
        BY <3>1, <4>2 DEF RequestsPlaced
      <4> QED
        BY <2>16, <4>1, <4>2 DEF RequestStep, CancelWrite, RetryWrite, UndoDelete, UndoMark,
                                 RequestFails
    <3>3. CASE CancelWrite(r)
      BY <3>1, <3>2, <3>3 DEF CancelWrite, Respond, Statuses, dataVars, workVars, workerVars,
                              histVars
    <3>4. CASE RetryWrite(r)
      BY <3>1, <3>2, <3>4 DEF RetryWrite, Requeue, Respond, Statuses, dataVars, workVars,
                              workerVars
    <3>5. CASE UndoDelete(r)
      <4>1. rows' \in [Jobs -> [Batches -> Nat]]
        BY <3>1, <3>5 DEF UndoDelete
      <4>2. rpc' \in [Requests -> {"none", "cancel", "retry", "undo", "mark"}]
        BY <3>5 DEF UndoDelete, Respond
      <4>3. rjob' \in [Requests -> Jobs \cup {0}] /\ calls' \in Nat /\ undone' \in SUBSET Jobs
        BY <3>1, <3>5 DEF UndoDelete, Respond
      <4> QED
        BY <3>2, <3>5, <4>1, <4>2, <4>3 DEF UndoDelete, rowVars, workVars, workerVars
    <3>6. CASE UndoMark(r)
      BY <3>1, <3>2, <3>6 DEF UndoMark, Respond, Statuses, dataVars, workVars, workerVars,
                              histVars
    <3>7. CASE RequestFails(r)
      BY <3>2, <3>7 DEF RequestFails, Respond, rowVars, dataVars, workVars, workerVars, histVars
    <3> QED
      BY <2>16, <3>3, <3>4, <3>5, <3>6, <3>7 DEF RequestStep
  <2>17. CASE UNCHANGED vars
    BY <2>17 DEF vars, rowVars, dataVars, workVars, workerVars, requestVars, histVars
  <2> QED
    BY <2>1, <2>2, <2>3, <2>4, <2>6, <2>7, <2>8, <2>9, <2>10, <2>11, <2>12, <2>13, <2>14,
       <2>15, <2>16, <2>17
       DEF Next, WorkerStep, Misfortune
<1> QED
  BY <1>1, <1>2, PTL DEF Spec

-------------------------------------------------------------------------------
(***************************************************************************)
(* The retry budget.  RetriesAreFaults is not inductive: that a worker's    *)
(* snapshot plus one is no more than the faults needs to be known while the *)
(* worker is on its way to retry_job, and that a stale row had a fault      *)
(* nobody has yet been charged for, before the cleanup charges it.          *)
(***************************************************************************)

\* A worker's snapshot is covered by the faults of its job; once something has
\* gone wrong in this run of it, so is the snapshot plus one.
SnapshotCovered(w) ==
    /\ wpc[w] \in AtWork => wsnap[w] <= faults[wjob[w]]
    /\ wpc[w] = "retry" => wsnap[w] < faults[wjob[w]]
    /\ wpc[w] = "insert" /\ wins[w] < wnext[w] - 1 => wsnap[w] < faults[wjob[w]]
    /\ wpc[w] \notin {"insert", "complete", "retry"} => wnext[w] = 1 /\ wins[w] = 0

\* A row in processing is either renewed by the worker it names, or it has a
\* fault its retry_count does not yet account for.
LeaseCovered(j) ==
    status[j] = "processing" =>
        /\ owner[j] \in Workers
        /\ beat[j] # "null"
        /\ retries[j] < faults[j] \/ (Refreshes(owner[j], j) /\ beat[j] = "fresh")

JobCovered(j) ==
    /\ retries[j] <= faults[j]
    /\ status[j] = "failed" => faults[j] > MaxRetries
    /\ LeaseCovered(j)

BudgetInv ==
    /\ \A w \in Workers : SnapshotCovered(w)
    /\ \A j \in Jobs : JobCovered(j)

\* Faults are never taken back.
FaultsGrow == \A j \in Jobs : faults'[j] \in Nat /\ faults'[j] >= faults[j]

LEMMA FaultsGrowing ==
  ASSUME TypeOK, NEW j \in Jobs, Fault(j)
  PROVE  FaultsGrow /\ faults'[j] = faults[j] + 1
  BY DEF TypeOK, Fault, FaultsGrow

LEMMA FaultsKept ==
  ASSUME TypeOK, UNCHANGED faults
  PROVE  FaultsGrow
  BY DEF TypeOK, FaultsGrow

\* A worker that does not move stays covered.
LEMMA StillCovered ==
  ASSUME TypeOK, FaultsGrow, NEW w \in Workers, SnapshotCovered(w),
         wpc'[w] = wpc[w], wjob'[w] = wjob[w], wsnap'[w] = wsnap[w],
         wnext'[w] = wnext[w], wins'[w] = wins[w]
  PROVE  SnapshotCovered(w)'
<1>1. wpc[w] \in AtWork => wjob[w] \in Jobs
  BY DEF TypeOK, WorkersPlaced
<1>2. wsnap[w] \in Nat /\ (wjob[w] \in Jobs => faults[wjob[w]] \in Nat)
  BY DEF TypeOK
<1> QED
  BY <1>1, <1>2 DEF SnapshotCovered, FaultsGrow, AtWork

\* A worker that lets go of its job has nothing to cover, and the others stay.
LEMMA LeaveCovered ==
  ASSUME TypeOK, FaultsGrow, NEW w \in Workers, NEW pc \in {"idle", "dead"}, LeaveTo(w, pc),
         \A v \in Workers : SnapshotCovered(v)
  PROVE  \A v \in Workers : SnapshotCovered(v)'
<1> SUFFICES ASSUME NEW v \in Workers PROVE SnapshotCovered(v)'
  OBVIOUS
<1>1. CASE v = w
  <2>1. wpc'[w] = pc /\ wnext'[w] = 1 /\ wins'[w] = 0
    BY DEF LeaveTo, TypeOK
  <2> QED
    BY <1>1, <2>1 DEF SnapshotCovered, AtWork
<1>2. CASE v # w
  <2>1. /\ wpc'[v] = wpc[v] /\ wjob'[v] = wjob[v] /\ wsnap'[v] = wsnap[v]
        /\ wnext'[v] = wnext[v] /\ wins'[v] = wins[v]
    BY <1>2 DEF LeaveTo, TypeOK
  <2> QED
    BY <2>1, StillCovered
<1> QED
  BY <1>1, <1>2

\* A worker that moves on is covered if its new place is, and the others stay.
LEMMA GotoCovered ==
  ASSUME TypeOK, FaultsGrow, NEW w \in Workers, NEW pc, Goto(w, pc),
         \A v \in Workers : SnapshotCovered(v), SnapshotCovered(w)'
  PROVE  \A v \in Workers : SnapshotCovered(v)'
<1> SUFFICES ASSUME NEW v \in Workers, v # w PROVE SnapshotCovered(v)'
  OBVIOUS
<1>1. /\ wpc'[v] = wpc[v] /\ wjob'[v] = wjob[v] /\ wsnap'[v] = wsnap[v]
      /\ wnext'[v] = wnext[v] /\ wins'[v] = wins[v]
  BY DEF Goto, workVars, TypeOK
<1> QED
  BY <1>1, StillCovered

\* A row nobody writes stays covered if its owner keeps renewing it, if the step
\* charged it with a fault, or if it is not in processing.
LEMMA RowCovered ==
  ASSUME TypeOK, FaultsGrow, NEW j \in Jobs, JobCovered(j),
         status'[j] = status[j], retries'[j] = retries[j],
         owner'[j] = owner[j], beat'[j] = beat[j],
         \/ faults'[j] > faults[j]
         \/ status[j] # "processing"
         \/ owner[j] \in Workers /\ Refreshes(owner[j], j) => Refreshes(owner[j], j)'
  PROVE  JobCovered(j)'
<1>1. retries[j] \in Nat /\ faults[j] \in Nat /\ MaxRetries \in Nat
  BY QueueAssumption DEF TypeOK
<1> QED
  BY <1>1 DEF JobCovered, LeaseCovered, FaultsGrow

\* A step of one worker does not disturb the rows the other workers renew.
LEMMA OthersRenew ==
  ASSUME NEW w \in Workers, NEW j \in Jobs, ~Holds(w, j), owner'[j] = owner[j],
         \A v \in Workers \ {w} :
            wpc'[v] = wpc[v] /\ wjob'[v] = wjob[v] /\ beating'[v] = beating[v],
         owner[j] \in Workers, Refreshes(owner[j], j)
  PROVE  Refreshes(owner[j], j)'
  BY DEF Refreshes, Holds

\* Nor does a step of no worker at all.
LEMMA AllRenew ==
  ASSUME NEW j \in Jobs, owner'[j] = owner[j], UNCHANGED workerVars, Refreshes(owner[j], j)
  PROVE  Refreshes(owner[j], j)'
  BY DEF Refreshes, Holds, workerVars, workVars

\* Nor does a worker's step to another place where it holds its job and, unless
\* it leaves "claimed", its heartbeat task is what it was.
LEMMA GotoRenews ==
  ASSUME TypeOK, NEW w \in Workers, NEW pc \in AtWork, Goto(w, pc), wpc[w] # "claimed",
         NEW j \in Jobs, owner'[j] = owner[j], owner[j] \in Workers, Refreshes(owner[j], j)
  PROVE  Refreshes(owner[j], j)'
  BY DEF TypeOK, Goto, Refreshes, Holds, workVars, AtWork

\* The step of the retry-budget invariant for the requests and the clock.
LEMMA BudgetOutside ==
  ASSUME TypeOK, BudgetInv,
         \/ \E j \in Jobs : Upload(j) \/ HeartbeatAges(j)
         \/ \E r \in Requests : RequestStep(r)
         \/ \E r \in Requests, j \in Jobs : CancelRead(r, j) \/ RetryRead(r, j) \/ UndoRead(r, j)
         \/ UNCHANGED vars
  PROVE  BudgetInv'
<1>1. UNCHANGED workerVars /\ UNCHANGED faults /\ FaultsGrow
  <2>1. UNCHANGED workerVars /\ UNCHANGED faults
    BY DEF Upload, HeartbeatAges, RequestStep, CancelWrite, RetryWrite, UndoDelete, UndoMark,
           RequestFails, CancelRead, RetryRead, UndoRead, ReadJob, vars
  <2> QED
    BY <2>1, FaultsKept
<1>2. ASSUME NEW w \in Workers PROVE SnapshotCovered(w)'
  BY <1>1, <1>2, StillCovered DEF BudgetInv, workerVars, workVars
<1>3. ASSUME NEW j \in Jobs PROVE JobCovered(j)'
  <2>1. retries[j] \in Nat /\ faults[j] \in Nat /\ MaxRetries \in Nat /\ faults'[j] = faults[j]
    BY <1>1, QueueAssumption DEF TypeOK
  <2>2. CASE /\ status'[j] = status[j] /\ retries'[j] = retries[j]
             /\ owner'[j] = owner[j] /\ beat'[j] = beat[j]
    BY <1>1, <2>2, RowCovered, AllRenew DEF BudgetInv
  <2>3. CASE status'[j] \notin {"processing", "failed"} /\ retries'[j] = retries[j]
    BY <2>1, <2>3 DEF BudgetInv, JobCovered, LeaseCovered
  <2>4. CASE HeartbeatAges(j)
    <3>1. owner[j] \in Workers /\ ~Refreshes(owner[j], j) /\ retries[j] < faults[j]
      BY <2>4 DEF HeartbeatAges, BudgetInv, JobCovered, LeaseCovered
    <3> QED
      BY <2>1, <2>4, <3>1 DEF HeartbeatAges, TypeOK, BudgetInv, JobCovered, LeaseCovered
  <2>5. CASE \E i \in Jobs : Upload(i)
    BY <2>2, <2>3, <2>5 DEF Upload, TypeOK
  <2>6. CASE \E i \in Jobs \ {j} : HeartbeatAges(i)
    BY <2>2, <2>6 DEF HeartbeatAges, TypeOK
  <2>7. CASE \E r \in Requests : CancelWrite(r)
    BY <2>2, <2>3, <2>7 DEF CancelWrite, TypeOK
  <2>8. CASE \E r \in Requests : RetryWrite(r)
    BY <2>2, <2>3, <2>8 DEF RetryWrite, Requeue, TypeOK
  <2>9. CASE \E r \in Requests : UndoMark(r)
    BY <2>2, <2>3, <2>9 DEF UndoMark, TypeOK
  <2>10. CASE UNCHANGED rowVars
    BY <2>2, <2>10 DEF rowVars
  <2> QED
    BY <2>4, <2>5, <2>6, <2>7, <2>8, <2>9, <2>10
       DEF RequestStep, UndoDelete, RequestFails, CancelRead, RetryRead, UndoRead, ReadJob, vars
<1> QED
  BY <1>2, <1>3 DEF BudgetInv

\* The rows of jobs a worker does not hold stay covered when it moves.
LEMMA OtherRowsCovered ==
  ASSUME TypeOK, BudgetInv, FaultsGrow, NEW w \in Workers, NEW j \in Jobs, ~Holds(w, j),
         \A v \in Workers \ {w} :
            wpc'[v] = wpc[v] /\ wjob'[v] = wjob[v] /\ beating'[v] = beating[v],
         status'[j] = status[j], retries'[j] = retries[j],
         owner'[j] = owner[j], beat'[j] = beat[j]
  PROVE  JobCovered(j)'
  BY RowCovered, OthersRenew DEF BudgetInv

\* The step of the retry-budget invariant for the cleanup and the claims.
LEMMA BudgetClaim ==
  ASSUME TypeOK, BudgetInv, NEW w \in Workers,
         \/ CleanupStaleJobs(w)
         \/ NoJob(w)
         \/ \E j \in Jobs : ClaimJob(w, j) \/ ClaimFails(w, j)
  PROVE  BudgetInv'
<1> USE DEF BudgetInv
<1>1. \A j \in Jobs : ~Holds(w, j)
  BY DEF CleanupStaleJobs, NoJob, ClaimJob, ClaimFails, Holds, AtWork
<1>2. wnext[w] = 1 /\ wins[w] = 0
  BY DEF CleanupStaleJobs, NoJob, ClaimJob, ClaimFails, SnapshotCovered
<1>3. \A v \in Workers \ {w} :
         wpc'[v] = wpc[v] /\ wjob'[v] = wjob[v] /\ beating'[v] = beating[v]
  BY DEF CleanupStaleJobs, NoJob, ClaimJob, ClaimFails, Goto, LeaveTo, TypeOK, workVars
<1>4. \A j \in Jobs : retries[j] \in Nat /\ faults[j] \in Nat /\ retries[j] <= faults[j]
  BY DEF TypeOK, JobCovered
<1>5. CASE CleanupStaleJobs(w) \/ NoJob(w)
  <2>1. PICK pc \in {"idle", "ready"} : Goto(w, pc)
    BY <1>5 DEF CleanupStaleJobs, NoJob
  <2>2. FaultsGrow /\ UNCHANGED faults
    BY <1>5, FaultsKept DEF CleanupStaleJobs, NoJob
  <2>3. SnapshotCovered(w)'
    BY <1>2, <2>1 DEF SnapshotCovered, Goto, TypeOK, AtWork, workVars
  <2>4. \A v \in Workers : SnapshotCovered(v)'
    BY <2>1, <2>2, <2>3, GotoCovered
  <2>5. ASSUME NEW j \in Jobs PROVE JobCovered(j)'
    <3>1. CASE CleanupStaleJobs(w) /\ IsStale(j)
      <4>1. status'[j] = "queued" /\ retries'[j] = retries[j] + 1
        BY <3>1 DEF CleanupStaleJobs
      <4>2. retries[j] < faults[j]
        BY <3>1 DEF IsStale, JobCovered, LeaseCovered
      <4> QED
        BY <1>4, <2>2, <4>1, <4>2 DEF JobCovered, LeaseCovered
    <3>2. CASE NoJob(w) \/ ~IsStale(j)
      <4>1. /\ status'[j] = status[j] /\ retries'[j] = retries[j]
            /\ owner'[j] = owner[j] /\ beat'[j] = beat[j]
        BY <1>5, <3>2 DEF CleanupStaleJobs, NoJob, TypeOK, rowVars
      <4> QED
        BY <1>1, <1>3, <2>2, <4>1, OtherRowsCovered
    <3> QED
      BY <1>5, <3>1, <3>2
  <2> QED
    BY <2>4, <2>5
<1>6. ASSUME NEW j \in Jobs, ClaimRow(w, j), ClaimJob(w, j) \/ ClaimFails(w, j)
      PROVE  BudgetInv'
  <2>1. FaultsGrow
    BY <1>6, FaultsKept, FaultsGrowing DEF ClaimJob, ClaimFails
  <2>2. ASSUME NEW v \in Workers PROVE SnapshotCovered(v)'
    <3>1. CASE ClaimFails(w, j)
      BY <2>1, <3>1, LeaveCovered DEF ClaimFails
    <3>2. CASE ClaimJob(w, j) /\ v # w
      BY <2>1, <3>2, StillCovered DEF ClaimJob, TypeOK
    <3>3. CASE ClaimJob(w, j) /\ v = w
      <4>1. /\ wpc'[w] = "claimed" /\ wjob'[w] = j /\ wsnap'[w] = retries[j]
            /\ wnext'[w] = 1 /\ wins'[w] = 0 /\ faults' = faults
        BY <1>2, <3>3 DEF ClaimJob, TypeOK
      <4> QED
        BY <1>4, <3>3, <4>1 DEF SnapshotCovered
    <3> QED
      BY <1>6, <3>1, <3>2, <3>3
  <2>3. /\ status'[j] = "processing" /\ owner'[j] = w /\ beat'[j] = "fresh"
        /\ retries'[j] = retries[j]
    BY <1>6 DEF ClaimRow, TypeOK
  <2>4. retries[j] < faults'[j] \/ Refreshes(w, j)'
    <3>1. CASE ClaimJob(w, j)
      BY <3>1 DEF ClaimJob, Refreshes, Holds, TypeOK, AtWork
    <3>2. CASE ClaimFails(w, j)
      BY <1>4, <3>2, FaultsGrowing DEF ClaimFails
    <3> QED
      BY <1>6, <3>1, <3>2
  <2>5. Refreshes(w, j)' => Refreshes(owner[j], j)'
    BY <2>3
  <2>6. JobCovered(j)'
    BY <1>4, <2>1, <2>3, <2>4, <2>5 DEF JobCovered, LeaseCovered, FaultsGrow
  <2>7. ASSUME NEW i \in Jobs \ {j} PROVE JobCovered(i)'
    <3>1. /\ status'[i] = status[i] /\ retries'[i] = retries[i]
          /\ owner'[i] = owner[i] /\ beat'[i] = beat[i]
      BY <1>6 DEF ClaimRow, TypeOK
    <3> QED
      BY <1>1, <1>3, <2>1, <3>1, OtherRowsCovered
  <2> QED
    BY <2>2, <2>6, <2>7
<1>7. ASSUME NEW j \in Jobs, UNCHANGED rowVars, ClaimFails(w, j)
      PROVE  BudgetInv'
  <2>1. FaultsGrow
    BY <1>7, FaultsGrowing DEF ClaimFails
  <2>2. ASSUME NEW v \in Workers PROVE SnapshotCovered(v)'
    BY <1>7, <2>1, LeaveCovered DEF ClaimFails
  <2>3. ASSUME NEW i \in Jobs PROVE JobCovered(i)'
    BY <1>1, <1>3, <1>7, <2>1, OtherRowsCovered DEF rowVars
  <2> QED
    BY <2>2, <2>3
<1> QED
  BY <1>5, <1>6, <1>7 DEF ClaimJob, ClaimFails

\* The step of the retry-budget invariant for process_job up to its two ends.
LEMMA BudgetProcess ==
  ASSUME TypeOK, BudgetInv, NEW w \in Workers,
         CheckStatus(w) \/ FetchAndParse(w) \/ InsertBatch(w) \/ ReportImport(w)
  PROVE  BudgetInv'
<1> USE DEF BudgetInv
<1>1. wpc[w] \in AtWork /\ wjob[w] \in Jobs
  BY DEF CheckStatus, FetchAndParse, InsertBatch, ReportImport, TypeOK, WorkersPlaced, AtWork
<1>2. FaultsGrow /\ (UNCHANGED faults \/ faults'[wjob[w]] = faults[wjob[w]] + 1)
  BY <1>1, FaultsKept, FaultsGrowing
     DEF CheckStatus, FetchAndParse, InsertBatch, ReportImport
<1>3. wsnap[w] \in Nat /\ faults[wjob[w]] \in Nat /\ wsnap[w] <= faults[wjob[w]]
  BY <1>1 DEF TypeOK, SnapshotCovered
<1>4. UNCHANGED rowVars
  BY DEF CheckStatus, FetchAndParse, InsertBatch, ReportImport
<1>5. \A v \in Workers \ {w} :
         wpc'[v] = wpc[v] /\ wjob'[v] = wjob[v] /\ beating'[v] = beating[v]
  BY DEF CheckStatus, FetchAndParse, InsertBatch, ReportImport, Goto, LeaveTo, TypeOK, workVars
<1>6. wnext[w] \in Nat /\ wins[w] \in Nat
  BY QueueAssumption DEF TypeOK
<1>7. ASSUME NEW v \in Workers PROVE SnapshotCovered(v)'
  <2>1. CASE LeaveTo(w, "idle")
    BY <1>2, <2>1, LeaveCovered
  <2>2. CASE ~LeaveTo(w, "idle") /\ v # w
    BY <1>2, <2>2, StillCovered
       DEF CheckStatus, FetchAndParse, InsertBatch, ReportImport, Goto, TypeOK, workVars
  <2>3. CASE CheckStatus(w) /\ ~LeaveTo(w, "idle") /\ v = w
    BY <1>3, <2>3 DEF CheckStatus, SnapshotCovered, TypeOK, AtWork, workVars
  <2>4. CASE FetchAndParse(w) /\ v = w
    <3>1. wnext[w] = 1 /\ wins[w] = 0
      BY <2>4 DEF FetchAndParse, SnapshotCovered
    <3>2. CASE Goto(w, "insert") /\ UNCHANGED faults
      BY <1>3, <2>4, <3>1, <3>2 DEF Goto, SnapshotCovered, TypeOK, AtWork, workVars
    <3>3. CASE Fault(wjob[w]) /\ Goto(w, "retry")
      BY <1>1, <1>3, <2>4, <3>3, FaultsGrowing
         DEF Goto, SnapshotCovered, TypeOK, AtWork, workVars
    <3> QED
      BY <2>4, <3>2, <3>3 DEF FetchAndParse
  <2>5. CASE InsertBatch(w) /\ v = w
    <3>1. wnext'[w] = wnext[w] + 1 /\ wpc' = wpc /\ wjob' = wjob /\ wsnap' = wsnap
      BY <2>5 DEF InsertBatch, TypeOK
    <3>2. CASE wins'[w] = wins[w] + 1 /\ UNCHANGED faults
      BY <1>3, <1>6, <2>5, <3>1, <3>2 DEF InsertBatch, SnapshotCovered
    <3>3. CASE Fault(wjob[w])
      <4>1. faults'[wjob[w]] = faults[wjob[w]] + 1
        BY <1>1, <3>3, FaultsGrowing
      <4> QED
        BY <1>3, <1>6, <2>5, <3>1, <4>1 DEF InsertBatch, SnapshotCovered
    <3> QED
      BY <2>5, <3>2, <3>3 DEF InsertBatch, TypeOK
  <2>6. CASE ReportImport(w) /\ v = w
    <3>1. UNCHANGED <<wjob, wsnap, wnext, wins>>
      BY <2>6 DEF ReportImport, Goto, workVars
    <3>2. CASE Goto(w, Outcome(w)) /\ UNCHANGED faults
      <4>1. wpc'[w] = Outcome(w)
        BY <3>2 DEF Goto, TypeOK
      <4> QED
        BY <1>3, <2>6, <3>1, <3>2, <4>1 DEF ReportImport, Outcome, SnapshotCovered
    <3>3. CASE Fault(wjob[w]) /\ Goto(w, "retry")
      <4>1. wpc'[w] = "retry" /\ faults'[wjob[w]] = faults[wjob[w]] + 1
        BY <1>1, <3>3, FaultsGrowing DEF Goto, TypeOK
      <4> QED
        BY <1>3, <2>6, <3>1, <4>1 DEF SnapshotCovered
    <3> QED
      BY <2>6, <3>2, <3>3 DEF ReportImport
  <2> QED
    BY <2>1, <2>2, <2>3, <2>4, <2>5, <2>6 DEF FetchAndParse, InsertBatch, ReportImport
<1>8. ASSUME NEW j \in Jobs PROVE JobCovered(j)'
  <2>1. CASE ~Holds(w, j)
    BY <1>2, <1>4, <1>5, <2>1, OtherRowsCovered DEF rowVars
  <2>2. CASE Holds(w, j)
    <3>1. wjob[w] = j
      BY <2>2 DEF Holds
    <3>2. CASE faults'[j] = faults[j] + 1
      <4>1. faults'[j] > faults[j]
        BY <3>2 DEF TypeOK
      <4> QED
        BY <1>2, <1>4, <4>1, RowCovered DEF rowVars
    <3>3. CASE UNCHANGED faults /\ SeenCancelled(j)
      BY <1>2, <1>4, <3>3, RowCovered DEF rowVars, SeenCancelled
    <3>4. CASE UNCHANGED faults /\ ~SeenCancelled(j)
      <4>1. ASSUME owner[j] \in Workers, Refreshes(owner[j], j) PROVE Refreshes(owner[j], j)'
        <5>1. CASE owner[j] # w
          BY <1>4, <1>5, <4>1, <5>1 DEF Refreshes, Holds, rowVars
        <5>2. CASE owner[j] = w /\ CheckStatus(w)
          BY <1>4, <3>1, <3>4, <4>1, <5>2
             DEF CheckStatus, Fault, Refreshes, Holds, TypeOK, AtWork, rowVars, workVars
        <5>3. CASE owner[j] = w /\ ~CheckStatus(w)
          BY <1>4, <4>1, <5>3
             DEF FetchAndParse, InsertBatch, ReportImport, Outcome, Goto, Refreshes, Holds,
                 TypeOK, AtWork, rowVars, workVars
        <5> QED
          BY <5>1, <5>2, <5>3
      <4> QED
        BY <1>2, <1>4, <4>1, RowCovered DEF rowVars
    <3> QED
      BY <1>2, <3>1, <3>2, <3>3, <3>4
  <2> QED
    BY <2>1, <2>2
<1> QED
  BY <1>7, <1>8

\* The step of the retry-budget invariant for the two ends of process_job.
LEMMA BudgetSettle ==
  ASSUME TypeOK, BudgetInv, NEW w \in Workers, Complete(w) \/ RetryJob(w)
  PROVE  BudgetInv'
<1> USE DEF BudgetInv
<1>1. wpc[w] \in AtWork \ {"claimed"} /\ wjob[w] \in Jobs
  BY DEF Complete, RetryJob, TypeOK, WorkersPlaced, AtWork
<1>2. FaultsGrow /\ (UNCHANGED faults \/ faults'[wjob[w]] = faults[wjob[w]] + 1)
  BY <1>1, FaultsKept, FaultsGrowing DEF Complete, RetryJob
<1>3. wsnap[w] \in Nat /\ faults[wjob[w]] \in Nat /\ wsnap[w] <= faults[wjob[w]]
  BY <1>1 DEF TypeOK, SnapshotCovered
<1>4. \A v \in Workers \ {w} :
         wpc'[v] = wpc[v] /\ wjob'[v] = wjob[v] /\ beating'[v] = beating[v]
  BY DEF Complete, RetryJob, Goto, LeaveTo, TypeOK, workVars
<1>5. \A v \in Workers : SnapshotCovered(v)'
  <2>1. CASE LeaveTo(w, "idle")
    BY <1>2, <2>1, LeaveCovered
  <2>2. CASE Fault(wjob[w]) /\ Goto(w, "retry")
    <3>1. wpc'[w] = "retry" /\ faults'[wjob[w]] = faults[wjob[w]] + 1
      BY <1>1, <2>2, FaultsGrowing DEF Goto, TypeOK
    <3>2. SnapshotCovered(w)'
      BY <1>3, <2>2, <3>1 DEF SnapshotCovered, Goto, workVars
    <3> QED
      BY <1>2, <2>2, <3>2, GotoCovered
  <2> QED
    BY <2>1, <2>2 DEF Complete, RetryJob
<1>6. ASSUME NEW j \in Jobs, wjob[w] = j PROVE JobCovered(j)'
  <2>1. /\ faults[j] \in Nat /\ retries[j] \in Nat /\ MaxRetries \in Nat
        /\ faults'[j] \in Nat /\ faults'[j] >= faults[j] /\ retries[j] <= faults[j]
    BY <1>2, QueueAssumption DEF TypeOK, FaultsGrow, JobCovered
  <2>2. CASE CompleteJob(j, TRUE)
    <3>1. status'[j] = "completed" /\ retries'[j] = retries[j]
      BY <1>6, <2>1, <2>2 DEF CompleteJob, TypeOK
    <3> QED
      BY <1>6, <2>1, <3>1 DEF JobCovered, LeaseCovered
  <2>3. CASE RetryJob(w) /\ Exhausted(wsnap[w]) /\ CompleteJob(j, FALSE)
    <3>1. status'[j] = "failed" /\ retries'[j] = retries[j]
      BY <1>6, <2>1, <2>3 DEF CompleteJob, TypeOK
    <3>2. MaxRetries <= wsnap[w] /\ wsnap[w] < faults[j]
      BY <1>6, <2>3 DEF Exhausted, RetryJob, SnapshotCovered
    <3> QED
      BY <1>3, <1>6, <2>1, <3>1, <3>2 DEF JobCovered, LeaseCovered
  <2>4. CASE RetryJob(w) /\ Requeue(j, wsnap[w] + 1)
    <3>1. status'[j] = "queued" /\ retries'[j] = wsnap[w] + 1
      BY <1>6, <2>1, <2>4 DEF Requeue, TypeOK
    <3>2. wsnap[w] < faults[j]
      BY <1>6, <2>4 DEF RetryJob, SnapshotCovered
    <3> QED
      BY <1>3, <1>6, <2>1, <3>1, <3>2 DEF JobCovered, LeaseCovered
  <2>5. CASE UNCHANGED rowVars /\ Fault(j)
    <3>1. faults'[j] > faults[j]
      BY <1>6, <2>1, <2>5, FaultsGrowing
    <3> QED
      BY <1>2, <2>1, <2>5, <3>1, RowCovered DEF rowVars
  <2> QED
    BY <1>6, <2>2, <2>3, <2>4, <2>5 DEF Complete, RetryJob
<1>7. ASSUME NEW i \in Jobs \ {wjob[w]} PROVE JobCovered(i)'
  <2>1. ~Holds(w, i)
    BY DEF Holds
  <2>2. /\ status'[i] = status[i] /\ retries'[i] = retries[i]
        /\ owner'[i] = owner[i] /\ beat'[i] = beat[i]
    BY DEF Complete, RetryJob, CompleteJob, Requeue, TypeOK, rowVars
  <2> QED
    BY <1>2, <1>4, <2>1, <2>2, OtherRowsCovered
<1> QED
  BY <1>5, <1>6, <1>7

\* The step of the retry-budget invariant for heartbeats and crashes.
LEMMA BudgetMisfortune ==
  ASSUME TypeOK, BudgetInv, NEW w \in Workers, Heartbeat(w) \/ HeartbeatEnds(w) \/ Crash(w)
  PROVE  BudgetInv'
<1> USE DEF BudgetInv
<1>1. CASE Heartbeat(w)
  <2>1. FaultsGrow /\ UNCHANGED <<faults, workerVars, status, retries, owner>>
    BY <1>1, FaultsKept DEF Heartbeat
  <2>2. ASSUME NEW v \in Workers PROVE SnapshotCovered(v)'
    BY <2>1, StillCovered DEF workerVars, workVars
  <2>3. ASSUME NEW j \in Jobs PROVE JobCovered(j)'
    <3>1. CASE beat'[j] = beat[j]
      BY <2>1, <3>1, RowCovered, AllRenew
    <3>2. CASE beat'[j] = "fresh"
      <4>1. Refreshes(owner[j], j) => Refreshes(owner[j], j)'
        BY <2>1, AllRenew
      <4> QED
        BY <2>1, <3>2, <4>1 DEF JobCovered, LeaseCovered
    <3> QED
      BY <1>1, <3>1, <3>2 DEF Heartbeat, TypeOK
  <2> QED
    BY <2>2, <2>3
<1>2. CASE HeartbeatEnds(w) \/ Crash(w)
  <2>1. UNCHANGED rowVars /\ Fault(wjob[w])
    BY <1>2 DEF HeartbeatEnds, Crash
  <2>2. \A v \in Workers \ {w} :
           wpc'[v] = wpc[v] /\ wjob'[v] = wjob[v] /\ beating'[v] = beating[v]
    BY <1>2 DEF HeartbeatEnds, Crash, LeaveTo, TypeOK, workVars
  <2>3. FaultsGrow /\ (wjob[w] \in Jobs => faults'[wjob[w]] > faults[wjob[w]])
    <3>1. CASE wjob[w] \in Jobs
      BY <2>1, <3>1, FaultsGrowing DEF TypeOK
    <3>2. CASE wjob[w] \notin Jobs
      BY <2>1, <3>2, FaultsKept DEF Fault, TypeOK
    <3> QED
      BY <3>1, <3>2
  <2>4. \A v \in Workers : SnapshotCovered(v)'
    <3>1. CASE HeartbeatEnds(w)
      BY <2>3, <3>1, StillCovered DEF HeartbeatEnds, workVars
    <3>2. CASE Crash(w)
      BY <2>3, <3>2, LeaveCovered DEF Crash
    <3> QED
      BY <1>2, <3>1, <3>2
  <2>5. ASSUME NEW j \in Jobs PROVE JobCovered(j)'
    <3>1. CASE wjob[w] = j
      BY <2>1, <2>3, <3>1, RowCovered DEF rowVars
    <3>2. CASE wjob[w] # j
      BY <2>1, <2>2, <2>3, <3>2, OtherRowsCovered DEF rowVars, Holds
    <3> QED
      BY <3>1, <3>2
  <2> QED
    BY <2>4, <2>5
<1> QED
  BY <1>1, <1>2

\* The retry budget is an invariant of the queue.
THEOREM BudgetInvariant == Spec => []BudgetInv
<1>1. Init => BudgetInv
  BY QueueAssumption
     DEF Init, BudgetInv, SnapshotCovered, JobCovered, LeaseCovered, AtWork
<1>2. TypeOK /\ BudgetInv /\ [Next]_vars => BudgetInv'
  BY BudgetOutside, BudgetClaim, BudgetProcess, BudgetSettle, BudgetMisfortune
     DEF Next, WorkerStep, Misfortune
<1> QED
  BY <1>1, <1>2, TypeCorrect, PTL DEF Spec

\* Whatever the interleaving of workers, cleanups, cancels and retries, a job is
\* never charged with more retries than went wrong with it, and not dead-lettered
\* before max_retries + 1 things did.
THEOREM RetriesAreFaultsHolds == Spec => []RetriesAreFaults
<1>1. BudgetInv => RetriesAreFaults
  BY DEF BudgetInv, JobCovered, RetriesAreFaults
<1> QED
  BY <1>1, BudgetInvariant, PTL

\* A row in processing names its worker and carries a heartbeat, so that its heartbeat can be seen
\* to go stale; whether the cleanup then takes it is another matter.
THEOREM ClaimedRowsCanGoStaleHolds == Spec => []ClaimedRowsCanGoStale
<1>1. BudgetInv => ClaimedRowsCanGoStale
  BY QueueAssumption DEF BudgetInv, JobCovered, LeaseCovered, ClaimedRowsCanGoStale
<1> QED
  BY <1>1, BudgetInvariant, PTL

-------------------------------------------------------------------------------

\* A job a worker holds or a request is about has been uploaded, and a request
\* marks a job deleted only once it has deleted rows of it.
Known ==
    /\ \A w \in Workers : wpc[w] \in AtWork => status[wjob[w]] # "absent"
    /\ \A r \in Requests : rpc[r] # "none" => status[rjob[r]] # "absent"
    /\ \A r \in Requests : rpc[r] = "mark" => rjob[r] \in undone

\* What a run of process_job has behind it: as long as no batch of it failed,
\* every batch it has tried is there, and it completes the job only after the
\* last one and the report.
Progress(w) ==
    /\ wins[w] < wnext[w]
    /\ wpc[w] = "complete" =>
          wnext[w] = NBatches + 1 /\ wins[w] = NBatches /\ wjob[w] \in reported
    /\ wpc[w] \in AtWork /\ wins[w] = wnext[w] - 1 /\ wjob[w] \notin undone =>
          \A b \in Batches : b < wnext[w] => rows[wjob[w]][b] >= 1

\* Nothing has gone wrong with the job, and nobody has interfered.
Clean(j) == j \notin requeued \cup undone /\ faults[j] = 0

\* The one run of such a job has loaded the batches it has tried, and those only.
CleanRun(w) ==
    wpc[w] \in AtWork /\ Clean(wjob[w]) =>
        \A b \in Batches : rows[wjob[w]][b] = IF b < wnext[w] THEN 1 ELSE 0

\* Before that run there is nothing of it, and after it nobody touches it.
CleanJob(j) ==
    Clean(j) =>
        /\ status[j] \in {"absent", "queued"} => \A b \in Batches : rows[j][b] = 0
        /\ status[j] = "completed" =>
              (\A b \in Batches : rows[j][b] = 1) /\ \A w \in Workers : ~Holds(w, j)

LoadInv ==
    /\ Known
    /\ ExclusiveClaim
    /\ \A w \in Workers : Progress(w)
    /\ CompletedIsLoaded
    /\ \A w \in Workers : CleanRun(w)
    /\ \A j \in Jobs : CleanJob(j)

-------------------------------------------------------------------------------
(* What a step may do, whichever it is.                                     *)

\* The requests of the admin, uploads and the clock: no worker moves.
OutsideStep ==
    \/ \E j \in Jobs : Upload(j) \/ HeartbeatAges(j)
    \/ \E r \in Requests, j \in Jobs : CancelRead(r, j) \/ RetryRead(r, j) \/ UndoRead(r, j)
    \/ \E r \in Requests : RequestStep(r)
    \/ UNCHANGED vars

\* A step of one worker.
Moves(w) == WorkerStep(w) \/ Heartbeat(w) \/ Misfortune(w)

\* Every step is one or the other.
LEMMA Split ==
  ASSUME [Next]_vars
  PROVE  OutsideStep \/ \E w \in Workers : Moves(w)
  BY DEF Next, OutsideStep, Moves

\* Where a worker is when it goes on with its job, and when its turn ends.
LEMMA Going ==
  ASSUME TypeOK, NEW w \in Workers, NEW pc
  PROVE  /\ Goto(w, pc) => /\ wpc'[w] = pc /\ wjob'[w] = wjob[w]
                           /\ wnext'[w] = wnext[w] /\ wins'[w] = wins[w]
         /\ LeaveTo(w, pc) => wpc'[w] = pc /\ wjob'[w] = 0 /\ wnext'[w] = 1 /\ wins'[w] = 0
  BY DEF Goto, LeaveTo, TypeOK, workVars

\* Two workers never move at once.
LEMMA OthersStay ==
  ASSUME TypeOK, NEW w \in Workers, Moves(w), NEW v \in Workers, v # w
  PROVE  /\ wpc'[v] = wpc[v] /\ wjob'[v] = wjob[v] /\ wsnap'[v] = wsnap[v]
         /\ wnext'[v] = wnext[v] /\ wins'[v] = wins[v]
<1>0. ASSUME NEW pc, Goto(w, pc) \/ LeaveTo(w, pc)
      PROVE  /\ wpc'[v] = wpc[v] /\ wjob'[v] = wjob[v] /\ wsnap'[v] = wsnap[v]
             /\ wnext'[v] = wnext[v] /\ wins'[v] = wins[v]
  BY <1>0 DEF Goto, LeaveTo, TypeOK, workVars
<1>3. CASE CleanupStaleJobs(w) \/ NoJob(w) \/ RetryJob(w) \/ FetchAndParse(w) \/ ReportImport(w)
  BY <1>0, <1>3 DEF CleanupStaleJobs, NoJob, RetryJob, FetchAndParse, ReportImport
<1>4. CASE (\E j \in Jobs : ClaimJob(w, j)) \/ InsertBatch(w)
  BY <1>4 DEF ClaimJob, InsertBatch, Goto, TypeOK, workVars
<1>5. CASE CheckStatus(w)
  BY <1>0, <1>5 DEF CheckStatus, TypeOK, workVars
<1>6. CASE Complete(w)
  BY <1>0, <1>6 DEF Complete
<1>1. CASE WorkerStep(w)
  BY <1>1, <1>3, <1>4, <1>5, <1>6 DEF WorkerStep
<1>2. CASE Heartbeat(w) \/ Misfortune(w)
  BY <1>2 DEF Heartbeat, Misfortune, ClaimFails, HeartbeatEnds, Crash, LeaveTo, TypeOK,
              workerVars, workVars
<1> QED
  BY <1>1, <1>2 DEF Moves

\* What a worker may do to itself: nothing, lose its job or be without one, or
\* one of the steps of a run.
LEMMA OwnStep ==
  ASSUME TypeOK, BudgetInv, NEW w \in Workers, Moves(w)
  PROVE  \/ /\ wpc'[w] = wpc[w] /\ wjob'[w] = wjob[w]
            /\ wnext'[w] = wnext[w] /\ wins'[w] = wins[w]
         \/ wpc'[w] \notin AtWork /\ wnext'[w] = 1 /\ wins'[w] = 0
         \/ \E j \in Jobs : ClaimJob(w, j)
         \/ (CheckStatus(w) \/ FetchAndParse(w) \/ InsertBatch(w) \/ ReportImport(w) \/ Complete(w))
<1>1. wpc[w] \notin AtWork => wnext[w] = 1 /\ wins[w] = 0
  BY DEF BudgetInv, SnapshotCovered, AtWork
<1>2. CASE CleanupStaleJobs(w) \/ NoJob(w)
  BY <1>1, <1>2 DEF CleanupStaleJobs, NoJob, Goto, TypeOK, AtWork, workVars
<1>3. CASE RetryJob(w) \/ Misfortune(w) \/ Heartbeat(w)
  BY <1>3 DEF RetryJob, Misfortune, ClaimFails, HeartbeatEnds, Crash, Heartbeat, LeaveTo, TypeOK,
              AtWork, workVars, workerVars
<1> QED
  BY <1>2, <1>3 DEF Moves, WorkerStep

\* A worker has a job after a step only if it had it before, or has claimed it.
LEMMA HeldBefore ==
  ASSUME TypeOK, BudgetInv, [Next]_vars, NEW w \in Workers, wpc'[w] \in AtWork
  PROVE  \/ wpc[w] \in AtWork /\ wjob'[w] = wjob[w]
         \/ \E j \in Jobs : ClaimJob(w, j) /\ wjob'[w] = j
<1>1. CASE OutsideStep
  <2>1. UNCHANGED workerVars
    BY <1>1 DEF OutsideStep, Upload, HeartbeatAges, RequestStep, CancelWrite, RetryWrite,
                UndoDelete, UndoMark, RequestFails, CancelRead, RetryRead, UndoRead, ReadJob, vars
  <2> QED
    BY <2>1 DEF workerVars, workVars
<1>2. CASE Moves(w)
  <2>1. CASE \E j \in Jobs : ClaimJob(w, j)
    BY <2>1 DEF ClaimJob, TypeOK
  <2>2. CASE CheckStatus(w) \/ FetchAndParse(w) \/ InsertBatch(w) \/ ReportImport(w) \/ Complete(w)
    BY <2>2 DEF CheckStatus, FetchAndParse, InsertBatch, ReportImport, Complete, Goto, LeaveTo,
                TypeOK, AtWork, workVars
  <2> QED
    BY <1>2, <2>1, <2>2, OwnStep
<1>3. ASSUME NEW v \in Workers, v # w, Moves(v)
      PROVE  wpc[w] \in AtWork /\ wjob'[w] = wjob[w]
  BY <1>3, OthersStay
<1> QED
  BY <1>1, <1>2, <1>3, Split

\* The histories, the reports and the faults only grow, and so do the rows of a
\* job that is not undone.
Grows ==
    /\ requeued \subseteq requeued' /\ undone \subseteq undone' /\ reported \subseteq reported'
    /\ FaultsGrow
    /\ \A j \in Jobs \ undone' : \A b \in Batches :
          rows[j][b] \in Nat /\ rows'[j][b] \in Nat /\ rows'[j][b] >= rows[j][b]

\* Nothing that can happen takes any of these back.
LEMMA Growing ==
  ASSUME TypeOK, TypeOK', [Next]_vars
  PROVE  Grows
<1>1. \A j \in Jobs : \A b \in Batches : rows[j][b] \in Nat /\ rows'[j][b] \in Nat
  BY DEF TypeOK
<1>2. UNCHANGED rows => \A j \in Jobs : \A b \in Batches : rows'[j][b] >= rows[j][b]
  BY <1>1
<1>3. FaultsGrow
  <2>1. CASE UNCHANGED faults
    BY <2>1, FaultsKept
  <2>2. CASE \E j \in Jobs : Fault(j)
    BY <2>2, FaultsGrowing
  <2>3. CASE \E w \in Workers : wjob[w] \notin Jobs /\ Fault(wjob[w])
    BY <2>3, FaultsKept DEF Fault, TypeOK
  <2>4. CASE OutsideStep
    <3>1. UNCHANGED faults
      BY <2>4 DEF OutsideStep, Upload, HeartbeatAges, RequestStep, CancelWrite, RetryWrite,
                  UndoDelete, UndoMark, RequestFails, CancelRead, RetryRead, UndoRead, ReadJob, vars
    <3> QED
      BY <2>1, <3>1
  <2>5. CASE \E w \in Workers : Moves(w)
    BY <2>1, <2>2, <2>3, <2>5
       DEF Moves, WorkerStep, CleanupStaleJobs, ClaimJob, NoJob, CheckStatus, FetchAndParse,
           InsertBatch, ReportImport, Complete, RetryJob, Heartbeat, Misfortune, ClaimFails,
           HeartbeatEnds, Crash
  <2> QED
    BY <2>4, <2>5, Split
<1>4. CASE OutsideStep
  <2>1. CASE \E r \in Requests : UndoDelete(r)
    <3>1. PICK r \in Requests : UndoDelete(r)
      BY <2>1
    <3>2. \A j \in Jobs \ undone' : rows'[j] = rows[j]
      BY <3>1 DEF UndoDelete, TypeOK
    <3> QED
      BY <1>1, <1>3, <3>1, <3>2 DEF UndoDelete, Grows
  <2>2. CASE ~\E r \in Requests : UndoDelete(r)
    BY <1>1, <1>2, <1>3, <1>4, <2>2
       DEF Grows, OutsideStep, Upload, HeartbeatAges, RequestStep, CancelWrite, RetryWrite,
           UndoMark, RequestFails, CancelRead, RetryRead, UndoRead, ReadJob, vars, dataVars, histVars
  <2> QED
    BY <2>1, <2>2
<1>5. ASSUME NEW w \in Workers, Moves(w) PROVE Grows
  <2>1. CASE InsertBatch(w)
    <3>1. wjob[w] \in Jobs /\ wnext[w] \in Batches
      BY <2>1 DEF InsertBatch, MoreBatches, Batches, AtWork, TypeOK, WorkersPlaced
    <3>2. ASSUME NEW j \in Jobs, NEW b \in Batches PROVE rows'[j][b] >= rows[j][b]
      <4>1. rows[j] \in [Batches -> Nat]
        BY DEF TypeOK
      <4>2. rows'[j] = IF rows' # rows /\ j = wjob[w]
                       THEN [rows[j] EXCEPT ![wnext[w]] = @ + 1] ELSE rows[j]
        BY <2>1, <3>1 DEF InsertBatch, InsertRows, TypeOK
      <4> QED
        BY <1>1, <3>1, <4>1, <4>2
    <3>3. \A j \in Jobs : \A b \in Batches : rows'[j][b] >= rows[j][b]
      BY <3>2
    <3> QED
      BY <1>1, <1>3, <2>1, <3>3 DEF InsertBatch, Grows, histVars
  <2>2. CASE ~InsertBatch(w)
    BY <1>1, <1>2, <1>3, <1>5, <2>2
       DEF Grows, Moves, WorkerStep, CleanupStaleJobs, ClaimJob, NoJob, CheckStatus, FetchAndParse,
           ReportImport, Complete, RetryJob, Heartbeat, Misfortune, ClaimFails,
           HeartbeatEnds, Crash, dataVars, histVars
  <2> QED
    BY <2>1, <2>2
<1> QED
  BY <1>4, <1>5, Split

\* A job that is there does not vanish from the table.
LEMMA StaysKnown ==
  ASSUME TypeOK, [Next]_vars, NEW j \in Jobs, status[j] # "absent"
  PROVE  status'[j] # "absent"
<1>1. CASE OutsideStep
  BY <1>1 DEF OutsideStep, Upload, HeartbeatAges, RequestStep, CancelWrite, RetryWrite, Requeue,
              UndoDelete, UndoMark, RequestFails, CancelRead, RetryRead, UndoRead, ReadJob,
              TypeOK, vars, rowVars
<1>2. ASSUME NEW w \in Workers, Moves(w) PROVE status'[j] # "absent"
  BY <1>2 DEF Moves, WorkerStep, CleanupStaleJobs, ClaimJob, ClaimRow, NoJob, CheckStatus,
              FetchAndParse, InsertBatch, ReportImport, Complete, CompleteJob, RetryJob, Requeue,
              Heartbeat, Misfortune, ClaimFails, HeartbeatEnds, Crash, TypeOK, rowVars
<1> QED
  BY <1>1, <1>2, Split

-------------------------------------------------------------------------------
(* The parts of the invariant, one lemma each.                              *)

\* Jobs at work or asked about stay in the table.
LEMMA KnownStep ==
  ASSUME TypeOK, TypeOK', BudgetInv, Known, [Next]_vars
  PROVE  Known'
<1>1. ASSUME NEW w \in Workers, wpc'[w] \in AtWork PROVE status'[wjob'[w]] # "absent"
  <2>1. CASE wpc[w] \in AtWork /\ wjob'[w] = wjob[w]
    <3>1. wjob[w] \in Jobs
      BY <2>1 DEF TypeOK, WorkersPlaced
    <3> QED
      BY <2>1, <3>1, StaysKnown DEF Known
  <2>2. CASE \E j \in Jobs : ClaimJob(w, j) /\ wjob'[w] = j
    BY <2>2 DEF ClaimJob, ClaimRow, TypeOK
  <2> QED
    BY <1>1, <2>1, <2>2, HeldBefore
<1>2. ASSUME NEW r \in Requests, rpc'[r] # "none"
      PROVE  status'[rjob'[r]] # "absent" /\ (rpc'[r] = "mark" => rjob'[r] \in undone')
  <2>1. undone \subseteq undone'
    BY Growing DEF Grows
  <2>2. CASE rpc'[r] = rpc[r] /\ rjob'[r] = rjob[r]
    <3>1. rjob[r] \in Jobs
      BY <1>2, <2>2 DEF TypeOK, RequestsPlaced
    <3> QED
      BY <1>2, <2>1, <2>2, <3>1, StaysKnown DEF Known
  <2>3. CASE \E j \in Jobs : CancelRead(r, j) \/ RetryRead(r, j) \/ UndoRead(r, j)
    BY <2>3, QueueAssumption
       DEF CancelRead, RetryRead, UndoRead, ReadJob, Live, TypeOK, rowVars
  <2>4. CASE RequestStep(r)
    <3>1. rpc[r] # "none" /\ rjob[r] \in Jobs
      BY <2>4 DEF RequestStep, CancelWrite, RetryWrite, UndoDelete, UndoMark, RequestFails, TypeOK,
                  RequestsPlaced
    <3>2. UndoDelete(r) /\ rpc'[r] = "mark" /\ rjob'[r] = rjob[r] /\ rjob[r] \in undone'
      BY <1>2, <2>4
         DEF RequestStep, CancelWrite, RetryWrite, UndoDelete, UndoMark, RequestFails, Respond, TypeOK
    <3> QED
      BY <3>1, <3>2, StaysKnown DEF Known
  <2>5. CASE OutsideStep
    <3>1. CASE \/ \E j \in Jobs : Upload(j) \/ HeartbeatAges(j)
               \/ UNCHANGED vars
      BY <2>2, <3>1 DEF Upload, HeartbeatAges, vars, requestVars
    <3>2. ASSUME NEW q \in Requests \ {r}, NEW j \in Jobs,
                 CancelRead(q, j) \/ RetryRead(q, j) \/ UndoRead(q, j)
          PROVE  rpc'[r] = rpc[r] /\ rjob'[r] = rjob[r]
      BY <3>2 DEF CancelRead, RetryRead, UndoRead, ReadJob, TypeOK
    <3>3. ASSUME NEW q \in Requests \ {r}, RequestStep(q)
          PROVE  rpc'[r] = rpc[r] /\ rjob'[r] = rjob[r]
      BY <3>3 DEF RequestStep, CancelWrite, RetryWrite, UndoDelete, UndoMark, RequestFails, Respond,
                  TypeOK
    <3> QED
      BY <2>2, <2>3, <2>4, <2>5, <3>1, <3>2, <3>3 DEF OutsideStep
  <2>6. CASE \E w \in Workers : Moves(w)
    BY <2>2, <2>6
       DEF Moves, WorkerStep, CleanupStaleJobs, ClaimJob, NoJob, CheckStatus, FetchAndParse,
           InsertBatch, ReportImport, Complete, RetryJob, Heartbeat, Misfortune, ClaimFails,
           HeartbeatEnds, Crash, requestVars
  <2> QED
    BY <2>5, <2>6, Split
<1> QED
  BY <1>1, <1>2 DEF Known

\* A worker that does not move stays as it is.
LEMMA MovesOrStays ==
  ASSUME TypeOK, [Next]_vars, NEW w \in Workers, ~Moves(w)
  PROVE  /\ wpc'[w] = wpc[w] /\ wjob'[w] = wjob[w]
         /\ wnext'[w] = wnext[w] /\ wins'[w] = wins[w]
<1>1. CASE OutsideStep
  <2>1. UNCHANGED workerVars
    BY <1>1 DEF OutsideStep, Upload, HeartbeatAges, RequestStep, CancelWrite, RetryWrite,
                UndoDelete, UndoMark, RequestFails, CancelRead, RetryRead, UndoRead, ReadJob, vars
  <2> QED
    BY <2>1 DEF workerVars, workVars
<1>2. CASE ~OutsideStep
  BY <1>2, Split, OthersStay
<1> QED
  BY <1>1, <1>2

\* A job that neither the cleanup nor the admin has put back gets back into the
\* queue through retry_job only, when the worker that holds it lets go of it.
LEMMA BackInQueue ==
  ASSUME TypeOK, [Next]_vars, NEW j \in Jobs, j \notin requeued',
         status[j] \notin {"absent", "queued"}, status'[j] \in {"absent", "queued"}
  PROVE  \E w \in Workers : RetryJob(w) /\ wjob[w] = j /\ wpc'[w] = "idle"
<1>1. CASE OutsideStep
  BY <1>1 DEF OutsideStep, Upload, HeartbeatAges, RequestStep, CancelWrite, RetryWrite, Requeue,
              UndoDelete, UndoMark, RequestFails, CancelRead, RetryRead, UndoRead, ReadJob,
              TypeOK, RequestsPlaced, vars, rowVars
<1>2. ASSUME NEW w \in Workers, Moves(w) PROVE RetryJob(w) /\ wjob[w] = j /\ wpc'[w] = "idle"
  <2>1. RetryJob(w) /\ wjob[w] = j
    BY <1>2 DEF Moves, WorkerStep, CleanupStaleJobs, ClaimJob, ClaimRow, NoJob, CheckStatus,
                FetchAndParse, InsertBatch, ReportImport, Complete, CompleteJob, RetryJob, Requeue,
                Heartbeat, Misfortune, ClaimFails, HeartbeatEnds, Crash, TypeOK, rowVars
  <2> QED
    BY <2>1 DEF RetryJob, LeaveTo, TypeOK
<1> QED
  BY <1>1, <1>2, Split

\* Only the end of process_job makes a job completed.
LEMMA BecomesCompleted ==
  ASSUME TypeOK, [Next]_vars, NEW j \in Jobs, status[j] # "completed", status'[j] = "completed"
  PROVE  \E w \in Workers : Complete(w) /\ wjob[w] = j
<1>1. CASE OutsideStep
  BY <1>1 DEF OutsideStep, Upload, HeartbeatAges, RequestStep, CancelWrite, RetryWrite, Requeue,
              UndoDelete, UndoMark, RequestFails, CancelRead, RetryRead, UndoRead, ReadJob,
              TypeOK, vars, rowVars
<1>2. ASSUME NEW w \in Workers, Moves(w) PROVE Complete(w) /\ wjob[w] = j
  BY <1>2 DEF Moves, WorkerStep, CleanupStaleJobs, ClaimJob, ClaimRow, NoJob, CheckStatus,
              FetchAndParse, InsertBatch, ReportImport, Complete, CompleteJob, RetryJob, Requeue,
              Heartbeat, Misfortune, ClaimFails, HeartbeatEnds, Crash, TypeOK, rowVars
<1> QED
  BY <1>1, <1>2, Split

\* Only a batch of its own run, or an undo, changes the rows of a job.
LEMMA RowsChange ==
  ASSUME TypeOK, [Next]_vars, NEW j \in Jobs, j \notin undone', rows'[j] # rows[j]
  PROVE  \E w \in Workers : InsertBatch(w) /\ Holds(w, j)
<1>1. CASE OutsideStep
  BY <1>1 DEF OutsideStep, Upload, HeartbeatAges, RequestStep, CancelWrite, RetryWrite,
              UndoDelete, UndoMark, RequestFails, CancelRead, RetryRead, UndoRead, ReadJob,
              TypeOK, vars, dataVars
<1>2. ASSUME NEW w \in Workers, Moves(w) PROVE InsertBatch(w) /\ Holds(w, j)
  <2>1. InsertBatch(w)
    BY <1>2 DEF Moves, WorkerStep, CleanupStaleJobs, ClaimJob, NoJob, CheckStatus,
                FetchAndParse, ReportImport, Complete, RetryJob, Heartbeat, Misfortune, ClaimFails,
                HeartbeatEnds, Crash, dataVars
  <2> QED
    BY <2>1 DEF InsertBatch, InsertRows, Holds, AtWork, TypeOK
<1> QED
  BY <1>1, <1>2, Split

\* The claim stays exclusive: the one way back into the queue that is not the
\* cleanup's or the admin's is taken by the only holder, as it lets go.
LEMMA ExclusiveStep ==
  ASSUME TypeOK, TypeOK', BudgetInv, ExclusiveClaim, [Next]_vars
  PROVE  ExclusiveClaim'
<1> SUFFICES ASSUME NEW j \in Jobs, j \notin requeued'
             PROVE  /\ \A v, w \in Workers : Holds(v, j)' /\ Holds(w, j)' => v = w
                    /\ status'[j] \in {"absent", "queued"} => \A w \in Workers : ~Holds(w, j)'
  BY DEF ExclusiveClaim
<1>1. /\ \A v, w \in Workers : Holds(v, j) /\ Holds(w, j) => v = w
      /\ status[j] \in {"absent", "queued"} => \A w \in Workers : ~Holds(w, j)
  BY Growing DEF Grows, ExclusiveClaim
<1>2. ASSUME NEW w \in Workers, Holds(w, j)' PROVE Holds(w, j) \/ ClaimJob(w, j)
  BY <1>2, HeldBefore DEF Holds
<1>3. ASSUME NEW w \in Workers, ClaimJob(w, j)
      PROVE  status'[j] = "processing" /\ \A v \in Workers : Holds(v, j)' => v = w
  <2>1. status[j] = "queued" /\ status'[j] = "processing"
    BY <1>3 DEF ClaimJob, ClaimRow, Claimable, TypeOK
  <2>2. ASSUME NEW v \in Workers, v # w PROVE ~Holds(v, j)'
    BY <1>1, <1>3, <2>1, <2>2, OthersStay DEF Moves, WorkerStep, Holds
  <2> QED
    BY <2>1, <2>2
<1>4. CASE \A w \in Workers : ~ClaimJob(w, j)
  <2>1. \A w \in Workers : Holds(w, j)' => Holds(w, j)
    BY <1>2, <1>4
  <2>2. ASSUME status'[j] \in {"absent", "queued"}, status[j] \notin {"absent", "queued"},
               NEW w \in Workers, Holds(w, j)'
        PROVE  FALSE
    <3>1. PICK v \in Workers : RetryJob(v) /\ wjob[v] = j /\ wpc'[v] = "idle"
      BY <2>2, BackInQueue
    <3>2. Holds(v, j) /\ ~Holds(v, j)'
      BY <3>1 DEF RetryJob, Holds, AtWork
    <3> QED
      BY <1>1, <2>1, <2>2, <3>2
  <2> QED
    BY <1>1, <2>1, <2>2
<1> QED
  BY <1>3, <1>4

\* A run keeps its account of the batches it has tried.
LEMMA ProgressStep ==
  ASSUME TypeOK, TypeOK', BudgetInv, [Next]_vars, NEW w \in Workers, Progress(w)
  PROVE  Progress(w)'
<1>1. Grows /\ (wpc[w] \in AtWork => wjob[w] \in Jobs) /\ (wpc'[w] \in AtWork => wjob'[w] \in Jobs)
  BY Growing DEF TypeOK, WorkersPlaced
<1>2. wins[w] \in Nat /\ wnext[w] \in Nat /\ wins[w] < wnext[w] /\ NBatches \in Nat \ {0}
  BY QueueAssumption DEF TypeOK, Progress
<1>3. CASE /\ wpc'[w] = wpc[w] /\ wjob'[w] = wjob[w]
           /\ wnext'[w] = wnext[w] /\ wins'[w] = wins[w]
  BY <1>1, <1>3 DEF Progress, Grows, AtWork
<1>4. CASE wpc'[w] \notin AtWork /\ wnext'[w] = 1 /\ wins'[w] = 0
  BY <1>4 DEF Progress, AtWork
<1>5. CASE \E j \in Jobs : ClaimJob(w, j)
  <2>1. wnext[w] = 1 /\ wins[w] = 0
    BY <1>5 DEF ClaimJob, BudgetInv, SnapshotCovered
  <2>2. wpc'[w] = "claimed" /\ wnext'[w] = 1 /\ wins'[w] = 0
    BY <1>5, <2>1 DEF ClaimJob, TypeOK
  <2> QED
    BY <2>2 DEF Progress, Batches
<1>6. CASE CheckStatus(w) \/ FetchAndParse(w)
  <2>1. wnext[w] = 1 /\ wins[w] = 0
    BY <1>6 DEF CheckStatus, FetchAndParse, BudgetInv, SnapshotCovered
  <2>2. wpc'[w] # "complete" /\ wnext'[w] = 1 /\ wins'[w] = 0
    BY <1>6, <2>1 DEF CheckStatus, FetchAndParse, LeaveTo, Goto, TypeOK, workVars
  <2> QED
    BY <2>2 DEF Progress, Batches
<1>7. CASE InsertBatch(w)
  <2>1. /\ wjob[w] \in Jobs /\ wnext[w] \in Batches
        /\ wpc'[w] = "insert" /\ wjob' = wjob /\ wnext'[w] = wnext[w] + 1 /\ UNCHANGED undone
    BY <1>1, <1>7 DEF InsertBatch, MoreBatches, Batches, AtWork, TypeOK, histVars
  <2>2. CASE InsertRows(w) /\ wins'[w] = wins[w] + 1
    <3>1. /\ rows[wjob[w]] \in [Batches -> Nat]
          /\ rows'[wjob[w]] = [rows[wjob[w]] EXCEPT ![wnext[w]] = @ + 1]
      BY <2>1, <2>2 DEF InsertRows, TypeOK
    <3>2. rows[wjob[w]][wnext[w]] \in Nat /\ rows'[wjob[w]][wnext[w]] >= 1
      BY <2>1, <3>1
    <3>3. ASSUME wins[w] = wnext[w] - 1, wjob[w] \notin undone,
                 NEW b \in Batches, b < wnext[w] + 1
          PROVE  rows'[wjob[w]][b] >= 1
      <4>1. CASE b = wnext[w]
        BY <3>2, <4>1
      <4>2. CASE b # wnext[w]
        <5>1. b < wnext[w]
          BY <1>2, <3>3, <4>2 DEF Batches
        <5> QED
          BY <1>7, <2>1, <3>1, <3>3, <4>2, <5>1 DEF Progress, InsertBatch, AtWork
      <4> QED
        BY <4>1, <4>2
    <3> QED
      BY <1>2, <2>1, <2>2, <3>3 DEF Progress
  <2>3. CASE wins'[w] = wins[w]
    BY <1>2, <2>1, <2>3 DEF Progress
  <2> QED
    BY <1>7, <2>2, <2>3 DEF InsertBatch, TypeOK
<1>8. CASE ReportImport(w)
  <2>1. /\ wjob'[w] = wjob[w] /\ wnext'[w] = wnext[w] /\ wins'[w] = wins[w]
        /\ UNCHANGED <<rows, undone>> /\ wpc[w] = "insert" /\ wnext[w] = NBatches + 1
    BY <1>2, <1>8 DEF ReportImport, MoreBatches, Goto, TypeOK, workVars, histVars
  <2>2. wpc'[w] = "complete" => wins[w] = NBatches /\ wjob[w] \in reported'
    <3>1. CASE Goto(w, "retry")
      BY <3>1 DEF Goto, TypeOK
    <3>2. CASE Goto(w, Outcome(w)) /\ Outcome(w) = "complete"
      <4>1. wins[w] = NBatches
        BY <1>2, <2>1, <3>2 DEF Outcome
      <4>2. reported' = IF wins[w] > 0 THEN reported \cup {wjob[w]} ELSE reported
        BY <1>8, <3>2 DEF ReportImport, Goto, TypeOK
      <4> QED
        BY <1>2, <4>1, <4>2
    <3>3. CASE Goto(w, Outcome(w)) /\ Outcome(w) # "complete"
      BY <3>3 DEF Goto, TypeOK
    <3> QED
      BY <1>8, <3>1, <3>2, <3>3 DEF ReportImport
  <2> QED
    BY <1>2, <2>1, <2>2 DEF Progress, AtWork
<1>9. CASE Complete(w)
  <2>1. \/ wpc'[w] = "idle" /\ wnext'[w] = 1 /\ wins'[w] = 0
        \/ /\ wpc'[w] = "retry" /\ wjob'[w] = wjob[w] /\ wnext'[w] = wnext[w] /\ wins'[w] = wins[w]
           /\ UNCHANGED <<rows, undone>>
    <3>1. CASE LeaveTo(w, "idle")
      BY <3>1 DEF LeaveTo, TypeOK
    <3>2. CASE Goto(w, "retry")
      BY <1>9, <3>2 DEF Complete, Goto, TypeOK, workVars, dataVars, histVars
    <3> QED
      BY <1>9, <3>1, <3>2 DEF Complete
  <2>2. CASE wpc'[w] = "idle" /\ wnext'[w] = 1 /\ wins'[w] = 0
    BY <2>2 DEF Progress, AtWork
  <2>3. CASE /\ wpc'[w] = "retry" /\ wjob'[w] = wjob[w] /\ wnext'[w] = wnext[w] /\ wins'[w] = wins[w]
             /\ UNCHANGED <<rows, undone>>
    <3>1. wpc[w] \in AtWork
      BY <1>9 DEF Complete, AtWork
    <3> QED
      BY <2>3, <3>1 DEF Progress
  <2> QED
    BY <2>1, <2>2, <2>3
<1> QED
  BY <1>3, <1>4, <1>5, <1>6, <1>7, <1>8, <1>9, OwnStep, MovesOrStays

\* A job is completed by a run that has its account in order, and the rows stay.
LEMMA CompletedStep ==
  ASSUME TypeOK, TypeOK', \A w \in Workers : Progress(w), CompletedIsLoaded, [Next]_vars
  PROVE  CompletedIsLoaded'
<1> SUFFICES ASSUME NEW j \in Jobs, j \notin undone', status'[j] = "completed"
             PROVE  j \in reported' /\ \A b \in Batches : rows'[j][b] >= 1
  BY DEF CompletedIsLoaded
<1>1. Grows /\ j \notin undone
  BY Growing DEF Grows
<1>2. j \in reported /\ \A b \in Batches : rows[j][b] >= 1
  <2>1. CASE status[j] = "completed"
    BY <1>1, <2>1 DEF CompletedIsLoaded
  <2>2. CASE status[j] # "completed"
    <3>1. PICK w \in Workers : Complete(w) /\ wjob[w] = j
      BY <2>2, BecomesCompleted
    <3>2. wnext[w] = NBatches + 1 /\ wins[w] = NBatches /\ j \in reported
      BY <3>1 DEF Progress, Complete
    <3>3. NBatches \in Nat /\ \A b \in Batches : b < wnext[w]
      BY <3>2, QueueAssumption DEF Batches
    <3> QED
      BY <1>1, <3>1, <3>2, <3>3 DEF Progress, Complete, AtWork
  <2> QED
    BY <2>1, <2>2
<1> QED
  BY <1>1, <1>2 DEF Grows

\* Of a clean job there is one run, and each of its batches adds one copy.
LEMMA CleanRunStep ==
  ASSUME TypeOK, TypeOK', BudgetInv, LoadInv, [Next]_vars, NEW w \in Workers
  PROVE  CleanRun(w)'
<1> USE DEF LoadInv
<1> SUFFICES ASSUME wpc'[w] \in AtWork, Clean(wjob[w])'
             PROVE  \A b \in Batches : rows'[wjob'[w]][b] = IF b < wnext'[w] THEN 1 ELSE 0
  BY DEF CleanRun
<1> DEFINE j == wjob'[w]
<1>1. j \in Jobs /\ wnext[w] \in Nat
  BY QueueAssumption DEF TypeOK, WorkersPlaced
<1>2. Clean(j) /\ j \notin undone' /\ faults'[j] = 0 /\ faults[j] = 0
  BY <1>1, Growing DEF Grows, FaultsGrow, Clean, TypeOK
<1>3. CASE ClaimJob(w, j)
  <2>1. wnext[w] = 1 /\ status[j] = "queued"
    BY <1>3 DEF ClaimJob, Claimable, BudgetInv, SnapshotCovered
  <2>2. \A b \in Batches : rows[j][b] = 0
    BY <1>1, <1>2, <2>1 DEF CleanJob
  <2>3. rows' = rows /\ wnext' = wnext
    BY <1>3 DEF ClaimJob, dataVars
  <2> QED
    BY <2>1, <2>2, <2>3 DEF Batches
<1>4. CASE Holds(w, j) /\ InsertBatch(w)
  <2>1. /\ wjob[w] = j /\ wnext[w] \in Batches /\ wnext'[w] = wnext[w] + 1
        /\ \A b \in Batches : rows[j][b] = IF b < wnext[w] THEN 1 ELSE 0
    BY <1>1, <1>2, <1>4 DEF Holds, InsertBatch, MoreBatches, Batches, CleanRun, TypeOK
  <2>2. ~Fault(j)
    BY <1>1, <1>2, FaultsGrowing
  <2>3. rows'[j] = [rows[j] EXCEPT ![wnext[w]] = @ + 1] /\ rows[j] \in [Batches -> Nat]
    BY <1>1, <1>4, <2>1, <2>2 DEF InsertBatch, InsertRows, TypeOK
  <2>4. ASSUME NEW b \in Batches PROVE rows'[j][b] = IF b < wnext[w] + 1 THEN 1 ELSE 0
    <3>1. b \in Nat /\ rows[j][b] = IF b < wnext[w] THEN 1 ELSE 0
      BY <2>1 DEF Batches
    <3>2. rows'[j][b] = IF b = wnext[w] THEN rows[j][b] + 1 ELSE rows[j][b]
      BY <2>1, <2>3
    <3> HIDE DEF j
    <3> QED
      BY <1>1, <3>1, <3>2
  <2> QED
    BY <2>1, <2>4
<1>5. CASE Holds(w, j) /\ ~InsertBatch(w)
  <2>1. wjob[w] = j /\ \A b \in Batches : rows[j][b] = IF b < wnext[w] THEN 1 ELSE 0
    BY <1>2, <1>5 DEF Holds, CleanRun
  <2>2. wnext'[w] = wnext[w]
    <3>1. wpc[w] # "ready"
      BY <1>5 DEF Holds, AtWork
    <3>2. CASE CheckStatus(w)
      <4>1. ~LeaveTo(w, "idle")
        BY Going DEF AtWork
      <4> QED
        BY <3>2, <4>1 DEF CheckStatus, workVars
    <3>3. CASE FetchAndParse(w)
      BY <3>3, Going DEF FetchAndParse
    <3>4. CASE ReportImport(w)
      BY <3>4, Going DEF ReportImport
    <3>5. CASE Complete(w)
      <4>1. ~LeaveTo(w, "idle")
        BY Going DEF AtWork
      <4> QED
        BY <3>5, <4>1, Going DEF Complete
    <3> QED
      BY <1>5, <3>1, <3>2, <3>3, <3>4, <3>5, OwnStep, MovesOrStays DEF ClaimJob
  <2>3. rows'[j] = rows[j]
    <3>1. ASSUME NEW v \in Workers, InsertBatch(v), Holds(v, j) PROVE FALSE
      BY <1>1, <1>2, <1>5, <3>1 DEF ExclusiveClaim, Clean
    <3> QED
      BY <1>1, <1>2, <3>1, RowsChange
  <2> QED
    BY <2>1, <2>2, <2>3
<1> QED
  BY <1>3, <1>4, <1>5, HeldBefore DEF Holds

\* A clean job that is queued has never been run, and one completed is let go of.
LEMMA CleanJobStep ==
  ASSUME TypeOK, TypeOK', BudgetInv, LoadInv, [Next]_vars, NEW j \in Jobs
  PROVE  CleanJob(j)'
<1> USE DEF LoadInv
<1> SUFFICES ASSUME Clean(j)' PROVE CleanJob(j)'
  BY DEF CleanJob
<1>1. Clean(j) /\ j \notin requeued /\ j \notin requeued' /\ j \notin undone'
      /\ faults'[j] = 0 /\ faults[j] = 0
  BY Growing DEF Grows, FaultsGrow, Clean, TypeOK
<1>2. ASSUME \A v \in Workers : ~Holds(v, j) PROVE rows'[j] = rows[j]
  BY <1>1, <1>2, RowsChange
<1>3. ASSUME status'[j] \in {"absent", "queued"} PROVE \A b \in Batches : rows'[j][b] = 0
  <2>1. status[j] \in {"absent", "queued"}
    <3>1. ASSUME NEW v \in Workers, RetryJob(v), wjob[v] = j PROVE FALSE
      BY <1>1, <3>1 DEF RetryJob, BudgetInv, SnapshotCovered, TypeOK
    <3> QED
      BY <1>1, <1>3, <3>1, BackInQueue
  <2>2. \A v \in Workers : ~Holds(v, j)
    BY <1>1, <2>1 DEF ExclusiveClaim
  <2> QED
    BY <1>1, <1>2, <2>1, <2>2 DEF CleanJob
<1>4. ASSUME status'[j] = "completed"
      PROVE  (\A b \in Batches : rows'[j][b] = 1) /\ \A v \in Workers : ~Holds(v, j)'
  <2>1. CASE status[j] = "completed"
    <3>1. (\A b \in Batches : rows[j][b] = 1) /\ \A v \in Workers : ~Holds(v, j)
      BY <1>1, <2>1 DEF CleanJob
    <3>2. \A v \in Workers : ~Holds(v, j)'
      BY <2>1, <3>1, HeldBefore DEF Holds, ClaimJob, Claimable
    <3> QED
      BY <1>2, <3>1, <3>2
  <2>2. CASE status[j] # "completed"
    <3>1. PICK w \in Workers : Complete(w) /\ wjob[w] = j
      BY <1>4, <2>2, BecomesCompleted
    <3>2. Holds(w, j) /\ wnext[w] = NBatches + 1
      BY <3>1 DEF Complete, Holds, Progress, AtWork
    <3>3. \A b \in Batches : rows[j][b] = 1 /\ rows' = rows
      <4>1. \A b \in Batches : b < wnext[w]
        BY <3>2, QueueAssumption DEF Batches
      <4> QED
        BY <1>1, <3>1, <3>2, <4>1 DEF CleanRun, Holds, Complete, dataVars
    <3>4. ~Holds(w, j)' /\ \A i \in Jobs : ~ClaimJob(w, i)
      <4>1. ~Fault(j)
        BY <1>1, FaultsGrowing
      <4>2. LeaveTo(w, "idle") /\ wpc[w] = "complete"
        BY <3>1, <4>1 DEF Complete
      <4> QED
        BY <4>2 DEF LeaveTo, ClaimJob, Holds, TypeOK, AtWork
    <3>5. ASSUME NEW v \in Workers, v # w, Holds(v, j)' PROVE FALSE
      <4>1. Holds(v, j)
        BY <3>1, <3>5, OthersStay DEF Moves, WorkerStep, Holds
      <4> QED
        BY <1>1, <3>2, <3>5, <4>1 DEF ExclusiveClaim
    <3> QED
      BY <3>3, <3>4, <3>5
  <2> QED
    BY <2>1, <2>2
<1> QED
  BY <1>3, <1>4 DEF CleanJob

-------------------------------------------------------------------------------

\* What the runs of a job have loaded and who holds it, in every reachable state.
THEOREM LoadInvariant == Spec => []LoadInv
<1>1. Init => LoadInv
  BY QueueAssumption
     DEF Init, LoadInv, Known, ExclusiveClaim, Progress, CompletedIsLoaded, CleanRun, CleanJob,
         Holds, AtWork
<1>2. TypeOK /\ TypeOK' /\ BudgetInv /\ LoadInv /\ [Next]_vars => LoadInv'
  BY KnownStep, ExclusiveStep, ProgressStep, CompletedStep, CleanRunStep, CleanJobStep DEF LoadInv
<1> QED
  BY <1>1, <1>2, TypeCorrect, BudgetInvariant, PTL DEF Spec

\* As long as neither the stale cleanup nor the admin puts a job back, no two
\* workers ever hold it, however the claims, crashes and retries interleave.
THEOREM ExclusiveClaimHolds == Spec => []ExclusiveClaim
<1>1. LoadInv => ExclusiveClaim
  BY DEF LoadInv
<1> QED
  BY <1>1, LoadInvariant, PTL

\* "completed" is never said of a job that misses a batch or its report, unless
\* an undo has deleted rows of it.
THEOREM CompletedIsLoadedHolds == Spec => []CompletedIsLoaded
<1>1. LoadInv => CompletedIsLoaded
  BY DEF LoadInv
<1> QED
  BY <1>1, LoadInvariant, PTL

\* Without a fault, an undo or a requeue, no batch of a completed job is there twice.
THEOREM LoadedOnceHolds == Spec => []LoadedOnce
<1>1. LoadInv => LoadedOnce
  BY DEF LoadInv, CleanJob, Clean, LoadedOnce
<1> QED
  BY <1>1, LoadInvariant, PTL

-------------------------------------------------------------------------------
(***************************************************************************)
(* ImportQueue implements ImportContract: a job in the queue or in the      *)
(* hands of a worker is pending, a batch is loaded if a copy of it is there.*)
(***************************************************************************)

PhaseOf(s) == IF s \in Live THEN "pending" ELSE s
Phase == [j \in Jobs |-> PhaseOf(status[j])]
Loaded == [j \in Jobs |-> {b \in Batches : rows[j][b] > 0}]

\* The contract's step, in these terms.
ContractStep ==
    \/ \E j \in Jobs :
          \/ /\ UNCHANGED <<Loaded, undone>>
             /\ \/ Phase' = [Phase EXCEPT ![j] = "pending"]
                \/ /\ Loaded[j] = Batches \/ j \in undone
                   /\ Phase' = [Phase EXCEPT ![j] = "completed"]
                \/ /\ Phase[j] # "absent"
                   /\ \/ Phase' = [Phase EXCEPT ![j] = "failed"]
                      \/ Phase' = [Phase EXCEPT ![j] = "cancelled"]
                      \/ j \in undone /\ Phase' = [Phase EXCEPT ![j] = "deleted"]
          \/ /\ Phase[j] # "absent"
             /\ UNCHANGED <<Phase, undone>>
             /\ \E b \in Batches : Loaded' = [Loaded EXCEPT ![j] = @ \cup {b}]
          \/ /\ Phase[j] # "absent"
             /\ Loaded' \in {Loaded, [Loaded EXCEPT ![j] = {}]}
             /\ undone' = undone \cup {j}
             /\ UNCHANGED Phase
    \/ UNCHANGED <<Phase, Loaded, undone>>

\* Such a step is one the contract allows.
LEMMA ContractStepIs ==
  ASSUME ContractStep
  PROVE  [Contract!Next]_(Contract!cvars)
  BY DEF ContractStep, Contract!Next, Contract!cvars, Contract!Enqueue, Contract!Load,
         Contract!Publish, Contract!GiveUp, Contract!Withdraw, Contract!Uploads, Contract!File,
         Jobs, Batches, Phase, PhaseOf, Loaded

\* A step that writes the status of one job, rows and undos aside, moves the
\* phase of that job.
LEMMA OneStatus ==
  ASSUME TypeOK, NEW j \in Jobs, NEW s, status' = [status EXCEPT ![j] = s],
         UNCHANGED <<rows, undone>>
  PROVE  Phase' = [Phase EXCEPT ![j] = PhaseOf(s)] /\ UNCHANGED <<Loaded, undone>>
  BY DEF TypeOK, Phase, PhaseOf, Loaded

\* A step that moves no job in or out of the queue moves no phase.
LEMMA NoStatus ==
  ASSUME \A j \in Jobs : PhaseOf(status'[j]) = PhaseOf(status[j])
  PROVE  UNCHANGED Phase
  BY DEF Phase, PhaseOf

\* A step that leaves the sales table alone loads and withdraws nothing.
LEMMA NoRows ==
  ASSUME UNCHANGED rows
  PROVE  UNCHANGED Loaded
  BY DEF Loaded

\* The requests, uploads and the clock.
LEMMA OutsideContract ==
  ASSUME TypeOK, Known, OutsideStep
  PROVE  ContractStep
<1> USE DEF ContractStep
<1>1. ASSUME NEW j \in Jobs, Upload(j) PROVE ContractStep
  BY <1>1, OneStatus DEF Upload, PhaseOf, Live, dataVars, histVars
<1>2. CASE \/ \E j \in Jobs : HeartbeatAges(j)
           \/ \E r \in Requests, j \in Jobs : CancelRead(r, j) \/ RetryRead(r, j) \/ UndoRead(r, j)
           \/ \E r \in Requests : RequestFails(r)
           \/ UNCHANGED vars
  <2>1. UNCHANGED <<status, rows, undone>>
    BY <1>2 DEF HeartbeatAges, CancelRead, RetryRead, UndoRead, ReadJob, RequestFails, vars,
                rowVars, dataVars, histVars
  <2> QED
    BY <2>1, NoStatus, NoRows
<1>3. ASSUME NEW r \in Requests, rpc[r] # "none"
      PROVE  rjob[r] \in Jobs /\ Phase[rjob[r]] # "absent"
  BY <1>3 DEF Known, TypeOK, RequestsPlaced, Phase, PhaseOf
<1>4. ASSUME NEW r \in Requests, CancelWrite(r) PROVE ContractStep
  <2>1. Phase' = [Phase EXCEPT ![rjob[r]] = "cancelled"] /\ UNCHANGED <<Loaded, undone>>
    BY <1>3, <1>4, OneStatus DEF CancelWrite, PhaseOf, Live, dataVars, histVars
  <2> QED
    BY <1>3, <1>4, <2>1 DEF CancelWrite
<1>5. ASSUME NEW r \in Requests, RetryWrite(r) PROVE ContractStep
  <2>1. Phase' = [Phase EXCEPT ![rjob[r]] = "pending"] /\ UNCHANGED <<Loaded, undone>>
    BY <1>3, <1>5, OneStatus DEF RetryWrite, Requeue, PhaseOf, Live, dataVars
  <2> QED
    BY <1>3, <1>5, <2>1 DEF RetryWrite
<1>6. ASSUME NEW r \in Requests, UndoDelete(r) PROVE ContractStep
  <2>1. rjob[r] \in Jobs /\ Phase[rjob[r]] # "absent" /\ UNCHANGED Phase
    BY <1>3, <1>6, NoStatus DEF UndoDelete, rowVars
  <2>2. CASE UNCHANGED <<rows, undone>>
    BY <2>1, <2>2, NoRows
  <2>3. CASE rows' = [rows EXCEPT ![rjob[r]] = [b \in Batches |-> 0]] /\ undone' = undone \cup {rjob[r]}
    <3>1. Loaded' = [Loaded EXCEPT ![rjob[r]] = {}]
      <4>1. \A j \in Jobs : rows'[j] = IF j = rjob[r] THEN [b \in Batches |-> 0] ELSE rows[j]
        BY <2>1, <2>3 DEF TypeOK
      <4>2. {b \in Batches : [c \in Batches |-> 0][b] > 0} = {}
        OBVIOUS
      <4> QED
        BY <2>1, <4>1, <4>2 DEF Loaded
    <3> QED
      BY <2>1, <2>3, <3>1
  <2>4. CASE UNCHANGED rows /\ undone' = undone \cup {rjob[r]}
    BY <2>1, <2>4, NoRows
  <2> QED
    BY <1>6, <2>2, <2>3, <2>4 DEF UndoDelete
<1>7. ASSUME NEW r \in Requests, UndoMark(r) PROVE ContractStep
  <2>1. rjob[r] \in Jobs /\ rjob[r] \in undone /\ Phase[rjob[r]] # "absent"
        /\ UNCHANGED <<rows, undone>>
    BY <1>3, <1>7 DEF UndoMark, Known, dataVars, histVars
  <2>2. CASE UNCHANGED status
    BY <2>1, <2>2, NoStatus, NoRows
  <2>3. CASE status' = [status EXCEPT ![rjob[r]] = "deleted"]
    <3>1. Phase' = [Phase EXCEPT ![rjob[r]] = "deleted"] /\ UNCHANGED <<Loaded, undone>>
      BY <2>1, <2>3, OneStatus DEF PhaseOf, Live
    <3> QED
      BY <2>1, <3>1
  <2> QED
    BY <1>7, <2>2, <2>3 DEF UndoMark
<1> QED
  BY <1>1, <1>2, <1>4, <1>5, <1>6, <1>7 DEF OutsideStep, RequestStep

\* The workers.
LEMMA MovesContract ==
  ASSUME TypeOK, LoadInv, NEW w \in Workers, Moves(w)
  PROVE  ContractStep
<1> USE DEF ContractStep
<1>1. wpc[w] \in AtWork => wjob[w] \in Jobs /\ Phase[wjob[w]] # "absent"
  BY DEF LoadInv, Known, TypeOK, WorkersPlaced, Phase, PhaseOf
<1>2. CASE UNCHANGED <<rows, undone>> /\ \A j \in Jobs : PhaseOf(status'[j]) = PhaseOf(status[j])
  BY <1>2, NoStatus, NoRows
<1>3. CASE NoJob(w) \/ CheckStatus(w) \/ FetchAndParse(w) \/ ReportImport(w) \/ Heartbeat(w)
           \/ HeartbeatEnds(w) \/ Crash(w)
  BY <1>2, <1>3 DEF NoJob, CheckStatus, FetchAndParse, ReportImport, Heartbeat, HeartbeatEnds, Crash,
                    rowVars, dataVars, histVars
<1>4. CASE CleanupStaleJobs(w)
  <2>1. \A j \in Jobs : status'[j] = status[j] \/ (status[j] = "processing" /\ status'[j] = "queued")
    BY <1>4 DEF CleanupStaleJobs, IsStale
  <2> QED
    BY <1>2, <1>4, <2>1 DEF CleanupStaleJobs, PhaseOf, Live, dataVars
<1>5. ASSUME NEW j \in Jobs, ClaimJob(w, j) \/ ClaimFails(w, j) PROVE ContractStep
  <2>1. \A i \in Jobs : status'[i] = status[i] \/ (status[i] = "queued" /\ status'[i] = "processing")
    BY <1>5 DEF ClaimJob, ClaimFails, ClaimRow, Claimable, TypeOK, rowVars
  <2> QED
    BY <1>2, <1>5, <2>1 DEF ClaimJob, ClaimFails, PhaseOf, Live, dataVars, histVars
<1>6. CASE InsertBatch(w)
  <2>1. wjob[w] \in Jobs /\ Phase[wjob[w]] # "absent" /\ wnext[w] \in Batches
        /\ UNCHANGED <<Phase, undone>>
    BY <1>1, <1>6, NoStatus DEF InsertBatch, MoreBatches, Batches, AtWork, TypeOK, rowVars, histVars
  <2>2. CASE UNCHANGED rows
    BY <2>1, <2>2, NoRows
  <2>3. CASE InsertRows(w)
    <3>1. Loaded' = [Loaded EXCEPT ![wjob[w]] = @ \cup {wnext[w]}]
      <4>1. ASSUME NEW j \in Jobs, j # wjob[w] PROVE rows'[j] = rows[j]
        BY <2>1, <2>3, <4>1 DEF InsertRows, TypeOK
      <4>2. /\ rows[wjob[w]] \in [Batches -> Nat]
            /\ rows'[wjob[w]] = [rows[wjob[w]] EXCEPT ![wnext[w]] = @ + 1]
        BY <2>1, <2>3 DEF InsertRows, TypeOK
      <4>3. \A b \in Batches : rows'[wjob[w]][b] > 0 <=> rows[wjob[w]][b] > 0 \/ b = wnext[w]
        BY <2>1, <4>2
      <4> QED
        BY <2>1, <4>1, <4>3 DEF Loaded
    <3> QED
      BY <2>1, <3>1
  <2> QED
    BY <1>6, <2>2, <2>3 DEF InsertBatch
<1>7. CASE Complete(w)
  <2>1. wjob[w] \in Jobs /\ UNCHANGED <<rows, undone>>
    BY <1>1, <1>7 DEF Complete, AtWork, dataVars, histVars
  <2>2. CASE UNCHANGED rowVars
    BY <1>2, <2>1, <2>2 DEF rowVars
  <2>3. CASE CompleteJob(wjob[w], TRUE)
    <3>1. Phase' = [Phase EXCEPT ![wjob[w]] = "completed"] /\ UNCHANGED <<Loaded, undone>>
      <4>1. status' = [status EXCEPT ![wjob[w]] = "completed"]
        BY <2>3 DEF CompleteJob
      <4> QED
        BY <2>1, <4>1, OneStatus DEF PhaseOf, Live
    <3>2. Loaded[wjob[w]] = Batches \/ wjob[w] \in undone
      <4>1. wnext[w] = NBatches + 1 /\ wins[w] = wnext[w] - 1
        BY <1>7, QueueAssumption DEF LoadInv, Progress, Complete
      <4>2. \A b \in Batches : b < wnext[w] /\ rows[wjob[w]][b] \in Nat
        BY <2>1, <4>1, QueueAssumption DEF Batches, TypeOK
      <4> QED
        BY <1>7, <2>1, <4>1, <4>2 DEF LoadInv, Progress, Complete, AtWork, Loaded
    <3> QED
      BY <2>1, <3>1, <3>2
  <2> QED
    BY <1>7, <2>2, <2>3 DEF Complete
<1>8. CASE RetryJob(w)
  <2>1. wjob[w] \in Jobs /\ Phase[wjob[w]] # "absent" /\ UNCHANGED <<rows, undone>>
    BY <1>1, <1>8 DEF RetryJob, AtWork, dataVars, histVars
  <2>2. CASE UNCHANGED rowVars
    BY <1>2, <2>1, <2>2 DEF rowVars
  <2>3. CASE CompleteJob(wjob[w], FALSE)
    <3>1. Phase' = [Phase EXCEPT ![wjob[w]] = "failed"] /\ UNCHANGED <<Loaded, undone>>
      <4>1. status' = [status EXCEPT ![wjob[w]] = "failed"]
        BY <2>3 DEF CompleteJob
      <4> QED
        BY <2>1, <4>1, OneStatus DEF PhaseOf, Live
    <3> QED
      BY <2>1, <3>1
  <2>4. CASE Requeue(wjob[w], wsnap[w] + 1)
    <3>1. Phase' = [Phase EXCEPT ![wjob[w]] = "pending"] /\ UNCHANGED <<Loaded, undone>>
      BY <2>1, <2>4, OneStatus DEF Requeue, PhaseOf, Live
    <3> QED
      BY <2>1, <3>1
  <2> QED
    BY <1>8, <2>2, <2>3, <2>4 DEF RetryJob
<1> QED
  BY <1>3, <1>4, <1>5, <1>6, <1>7, <1>8 DEF Moves, WorkerStep, Misfortune

\* The queue keeps the contract: whatever workers, crashes and requests do to it,
\* batches come one by one and go with an undo only, and "completed" is written
\* for a file that is all there.
THEOREM ContractImplemented == Spec => ImplementsContract
<1>1. Init => Contract!Init
  BY QueueAssumption
     DEF Init, Contract!Init, Contract!Uploads, Jobs, Batches, Live
<1>2. TypeOK /\ LoadInv /\ [Next]_vars => [Contract!Next]_(Contract!cvars)
  BY Split, OutsideContract, MovesContract, ContractStepIs DEF LoadInv
<1> QED
  BY <1>1, <1>2, TypeCorrect, LoadInvariant, PTL DEF Spec, ImplementsContract, Contract!Spec

-------------------------------------------------------------------------------
(***************************************************************************)
(* ImportQueue implements ImportRows: what the API and the pages see of a   *)
(* job changes only by those who hold it or were let through to change it.  *)
(***************************************************************************)

Row == [j \in Jobs |-> RowOf(status[j])]
Held == {j \in Jobs : \E w \in Workers : Holds(w, j)}
Pending == {Judged(r) : r \in {q \in Requests : rpc[q] # "none"}}

\* The steps of ImportRows, in these terms.
RowsUpload(j) ==
    /\ Row[j] = "none" /\ \A i \in 1..(j - 1) : Row[i] # "none"
    /\ Row' = [Row EXCEPT ![j] = "active"]
    /\ UNCHANGED <<Held, Pending>>

RowsWorker(j) ==
    /\ UNCHANGED Pending
    /\ \/ Row[j] = "active" /\ Held' = Held \cup {j} /\ UNCHANGED Row
       \/ /\ j \in Held
          /\ \E s \in {"active", "done", "stopped"} : Row' = [Row EXCEPT ![j] = s]
          /\ Held' \in {Held, Held \ {j}}
       \/ Held' = Held \ {j} /\ UNCHANGED Row

RowsRequest(op, j) ==
    /\ UNCHANGED Held
    /\ \/ Rows!Allowed(op, Row[j]) /\ Pending' = Pending \cup {<<op, j>>} /\ UNCHANGED Row
       \/ /\ <<op, j>> \in Pending
          /\ Row' = [Row EXCEPT ![j] = Rows!Outcome(op)]
          /\ Pending' \in {Pending, Pending \ {<<op, j>>}}
       \/ Pending' = Pending \ {<<op, j>>} /\ UNCHANGED Row

RowsStep ==
    \/ \E j \in Jobs : RowsUpload(j) \/ RowsWorker(j)
    \/ \E j \in Jobs, op \in Rows!Requested : RowsRequest(op, j)
    \/ UNCHANGED <<Row, Held, Pending>>

\* Such a step is one of ImportRows.
LEMMA RowsStepIs ==
  ASSUME RowsStep
  PROVE  [Rows!Next]_(Rows!rvars)
<1> USE DEF Row, Held, Pending
<1>1. Rows!Jobs = Jobs
  BY DEF Rows!Jobs, Jobs
<1>2. ASSUME NEW j \in Jobs, RowsUpload(j) PROVE Rows!Next
  BY <1>1, <1>2 DEF RowsUpload, Rows!Next, Rows!Upload
<1>3. ASSUME NEW j \in Jobs, RowsWorker(j) PROVE Rows!Next
  <2>1. Rows!Take(j) \/ Rows!WorkerWrites(j) \/ Rows!LetGo(j)
    BY <1>3 DEF RowsWorker, Rows!Take, Rows!WorkerWrites, Rows!LetGo
  <2> QED
    BY <1>1, <2>1 DEF Rows!Next
<1>4. ASSUME NEW j \in Jobs, NEW op \in Rows!Requested, RowsRequest(op, j) PROVE Rows!Next
  <2>1. Rows!Judge(op, j) \/ Rows!CarryOut(op, j) \/ Rows!Drop(op, j)
    BY <1>4 DEF RowsRequest, Rows!Judge, Rows!CarryOut, Rows!Drop
  <2> QED
    BY <1>1, <2>1 DEF Rows!Next
<1>5. CASE UNCHANGED <<Row, Held, Pending>>
  BY <1>5 DEF Rows!rvars
<1> QED
  BY <1>2, <1>3, <1>4, <1>5 DEF RowsStep

\* A write to the status of one job moves its row.
LEMMA OneRow ==
  ASSUME TypeOK, NEW j \in Jobs, NEW s, status' = [status EXCEPT ![j] = s]
  PROVE  Row' = [Row EXCEPT ![j] = RowOf(s)]
  BY DEF TypeOK, Row

\* A step that leaves every status on the same side of the queue moves no row.
LEMMA NoRow ==
  ASSUME \A j \in Jobs : RowOf(status'[j]) = RowOf(status[j])
  PROVE  UNCHANGED Row
  BY DEF Row

\* Where the workers stay, so do the jobs in their hands; likewise for the requests.
LEMMA HandsStay ==
  ASSUME UNCHANGED workerVars
  PROVE  UNCHANGED Held
  BY DEF Held, Holds, workerVars, workVars

LEMMA PendingStays ==
  ASSUME UNCHANGED requestVars
  PROVE  UNCHANGED Pending
  BY DEF Pending, Judged, requestVars

\* What one worker's step does to the jobs in the workers' hands.
LEMMA HandsMove ==
  ASSUME NEW w \in Workers,
         \A v \in Workers \ {w} : wpc'[v] = wpc[v] /\ wjob'[v] = wjob[v]
  PROVE  /\ (wpc'[w] \in AtWork <=> wpc[w] \in AtWork)
            /\ (wpc[w] \in AtWork => wjob'[w] = wjob[w]) => UNCHANGED Held
         /\ wpc'[w] \notin AtWork => Held' \in {Held, Held \ {wjob[w]}}
         /\ wpc[w] \notin AtWork /\ wpc'[w] \in AtWork /\ wjob'[w] \in Jobs
            => Held' = Held \cup {wjob'[w]}
<1>1. \A j \in Jobs, v \in Workers \ {w} : Holds(v, j)' <=> Holds(v, j)
  BY DEF Holds
<1>2. ASSUME wpc'[w] \in AtWork <=> wpc[w] \in AtWork, wpc[w] \in AtWork => wjob'[w] = wjob[w]
      PROVE  UNCHANGED Held
  <2>1. \A j \in Jobs : Holds(w, j)' <=> Holds(w, j)
    BY <1>2 DEF Holds
  <2>2. \A j \in Jobs, v \in Workers : Holds(v, j)' <=> Holds(v, j)
    BY <1>1, <2>1
  <2> QED
    BY <2>2 DEF Held
<1>3. ASSUME wpc'[w] \notin AtWork PROVE Held' \in {Held, Held \ {wjob[w]}}
  <2>1. \A j \in Jobs : ~Holds(w, j)' /\ (Holds(w, j) => j = wjob[w])
    BY <1>3 DEF Holds
  <2>2. \A j \in Jobs : j \in Held' <=> \E v \in Workers \ {w} : Holds(v, j)
    BY <1>1, <2>1 DEF Held
  <2>3. \A j \in Jobs : j \in Held <=> Holds(w, j) \/ \E v \in Workers \ {w} : Holds(v, j)
    BY DEF Held
  <2>4. Held \subseteq Jobs /\ Held' \subseteq Jobs
    BY DEF Held
  <2>5. CASE \E v \in Workers \ {w} : Holds(v, wjob[w])
    <3>1. \A j \in Jobs : j \in Held' <=> j \in Held
      BY <2>1, <2>2, <2>3, <2>5
    <3> QED
      BY <2>4, <3>1
  <2>6. CASE ~\E v \in Workers \ {w} : Holds(v, wjob[w])
    <3>1. \A j \in Jobs : j \in Held' <=> j \in Held /\ j # wjob[w]
      BY <2>1, <2>2, <2>3, <2>6
    <3>2. Held' = Held \ {wjob[w]}
      BY <2>4, <3>1
    <3> QED
      BY <3>2
  <2> QED
    BY <2>5, <2>6
<1>4. ASSUME wpc[w] \notin AtWork, wpc'[w] \in AtWork, wjob'[w] \in Jobs
      PROVE  Held' = Held \cup {wjob'[w]}
  <2>1. \A j \in Jobs : ~Holds(w, j) /\ (Holds(w, j)' <=> j = wjob'[w])
    BY <1>4 DEF Holds
  <2>2. \A j \in Jobs : j \in Held' <=> j = wjob'[w] \/ \E v \in Workers \ {w} : Holds(v, j)
    BY <1>1, <2>1 DEF Held
  <2>3. \A j \in Jobs : j \in Held <=> \E v \in Workers \ {w} : Holds(v, j)
    BY <2>1 DEF Held
  <2>4. Held \subseteq Jobs /\ Held' \subseteq Jobs
    BY DEF Held
  <2> QED
    BY <1>4, <2>2, <2>3, <2>4
<1> QED
  BY <1>2, <1>3, <1>4

\* What the API has let through, when a request is answered.
LEMMA Answers ==
  ASSUME TypeOK, NEW r \in Requests, rpc[r] # "none", Respond(r)
  PROVE  Pending' \in {Pending, Pending \ {Judged(r)}} /\ Judged(r) \in Pending
<1>1. /\ rpc'[r] = "none"
      /\ \A q \in Requests \ {r} : rpc'[q] = rpc[q] /\ Judged(q)' = Judged(q)
  BY DEF Respond, TypeOK, Judged
<1>2. \A x : x \in Pending' <=> \E q \in Requests \ {r} : rpc[q] # "none" /\ x = Judged(q)
  BY <1>1 DEF Pending
<1>3. \A x : x \in Pending <=> x = Judged(r) \/ \E q \in Requests \ {r} : rpc[q] # "none" /\ x = Judged(q)
  BY DEF Pending
<1>4. CASE \E q \in Requests \ {r} : rpc[q] # "none" /\ Judged(r) = Judged(q)
  <2>1. \A x : x \in Pending' <=> x \in Pending
    BY <1>2, <1>3, <1>4
  <2> QED
    BY <1>3, <2>1
<1>5. CASE ~\E q \in Requests \ {r} : rpc[q] # "none" /\ Judged(r) = Judged(q)
  <2>1. \A x : x \in Pending' <=> x \in Pending /\ x # Judged(r)
    BY <1>2, <1>3, <1>5
  <2>2. Pending' = Pending \ {Judged(r)}
    BY <2>1
  <2> QED
    BY <1>3, <2>2
<1> QED
  BY <1>4, <1>5

\* A request that is read and let through.
LEMMA LetThrough ==
  ASSUME TypeOK, NEW r \in Requests, NEW j \in Jobs, NEW op \in Rows!Requested, ReadJob(r, op, j)
  PROVE  Pending' = Pending \cup {<<op, j>>} /\ UNCHANGED <<Row, Held>>
<1>1. /\ rpc[r] = "none" /\ rpc'[r] # "none" /\ Judged(r)' = <<op, j>>
      /\ \A q \in Requests \ {r} : rpc'[q] = rpc[q] /\ Judged(q)' = Judged(q)
  BY DEF ReadJob, TypeOK, Judged, Rows!Requested
<1>2. \A x : x \in Pending' <=>
               x = <<op, j>> \/ \E q \in Requests \ {r} : rpc[q] # "none" /\ x = Judged(q)
  BY <1>1 DEF Pending
<1>3. \A x : x \in Pending <=> \E q \in Requests \ {r} : rpc[q] # "none" /\ x = Judged(q)
  BY <1>1 DEF Pending
<1>4. \A x : x \in Pending' <=> x \in Pending \cup {<<op, j>>}
  BY <1>2, <1>3
<1>5. UNCHANGED <<status, workerVars>>
  BY DEF ReadJob, rowVars
<1> QED
  BY <1>4, <1>5, HandsStay, NoRow

\* Requests, uploads and the clock.
LEMMA OutsideRows ==
  ASSUME TypeOK, Known, OutsideStep
  PROVE  RowsStep
<1>1. ASSUME NEW j \in Jobs, Upload(j) PROVE RowsStep
  <2>1. Row' = [Row EXCEPT ![j] = "active"] /\ UNCHANGED <<Held, Pending>>
    <3>1. RowOf("queued") = "active"
      BY DEF RowOf, Live
    <3>2. Row' = [Row EXCEPT ![j] = RowOf("queued")]
      BY <1>1, OneRow DEF Upload
    <3> QED
      BY <1>1, <3>1, <3>2, HandsStay, PendingStays DEF Upload
  <2>2. \A i \in Jobs : Row[i] = "none" <=> status[i] = "absent"
    BY DEF Row, RowOf, TypeOK, Statuses, Live
  <2>3. Row[j] = "none" /\ \A i \in 1..(j - 1) : Row[i] # "none"
    BY <1>1, <2>2, QueueAssumption DEF Upload, Jobs
  <2> QED
    BY <2>1, <2>3 DEF RowsStep, RowsUpload
<1>2. CASE (\E j \in Jobs : HeartbeatAges(j)) \/ UNCHANGED vars
  <2>1. UNCHANGED <<status, workerVars, requestVars>>
    BY <1>2 DEF HeartbeatAges, vars, rowVars
  <2> QED
    BY <2>1, NoRow, HandsStay, PendingStays DEF RowsStep
<1>3. ASSUME NEW r \in Requests, NEW j \in Jobs, CancelRead(r, j) \/ RetryRead(r, j) \/ UndoRead(r, j)
      PROVE  RowsStep
  <2>1. PICK op \in Rows!Requested : ReadJob(r, op, j) /\ Rows!Allowed(op, Row[j])
    <3>1. CASE CancelRead(r, j)
      BY <3>1 DEF CancelRead, Rows!Requested, Rows!Allowed, Row, RowOf, Live
    <3>2. CASE RetryRead(r, j)
      BY <3>2 DEF RetryRead, Rows!Requested, Rows!Allowed, Row, RowOf, Live
    <3>3. CASE UndoRead(r, j)
      BY <3>3 DEF UndoRead, Rows!Requested, Rows!Allowed, Row, RowOf, Live, TypeOK, Statuses
    <3> QED
      BY <1>3, <3>1, <3>2, <3>3
  <2>2. RowsRequest(op, j)
    BY <2>1, LetThrough DEF RowsRequest
  <2> QED
    BY <2>2 DEF RowsStep
<1>4. ASSUME NEW r \in Requests, rpc[r] # "none"
      PROVE  rjob[r] \in Jobs /\ \E op \in Rows!Requested : Judged(r) = <<op, rjob[r]>>
  BY <1>4 DEF TypeOK, RequestsPlaced, Judged, Rows!Requested
<1>5. ASSUME NEW r \in Requests, rpc[r] # "none", Respond(r), UNCHANGED <<status, workerVars>>
      PROVE  RowsStep
  <2>1. PICK op \in Rows!Requested : Judged(r) = <<op, rjob[r]>>
    BY <1>4, <1>5
  <2>2. UNCHANGED <<Row, Held>> /\ Pending' \in {Pending, Pending \ {<<op, rjob[r]>>}}
    BY <1>5, <2>1, NoRow, HandsStay, Answers
  <2> QED
    BY <1>4, <1>5, <2>2 DEF RowsStep, RowsRequest
<1>6. ASSUME NEW r \in Requests, rpc[r] # "none", Respond(r), UNCHANGED workerVars,
             NEW op \in Rows!Requested, NEW s, Judged(r) = <<op, rjob[r]>>, RowOf(s) = Rows!Outcome(op),
             status' = [status EXCEPT ![rjob[r]] = s]
      PROVE  RowsStep
  <2>1. rjob[r] \in Jobs
    BY <1>4, <1>6
  <2>2. Row' = [Row EXCEPT ![rjob[r]] = Rows!Outcome(op)] /\ UNCHANGED Held
    BY <1>6, <2>1, OneRow, HandsStay
  <2>3. /\ <<op, rjob[r]>> \in Pending
        /\ Pending' \in {Pending, Pending \ {<<op, rjob[r]>>}}
    BY <1>6, Answers
  <2> QED
    BY <2>1, <2>2, <2>3 DEF RowsStep, RowsRequest
<1>7. ASSUME NEW r \in Requests, CancelWrite(r) PROVE RowsStep
  <2>1. /\ rpc[r] = "cancel" /\ Respond(r) /\ UNCHANGED workerVars
        /\ status' = [status EXCEPT ![rjob[r]] = "cancelled"]
    BY <1>7 DEF CancelWrite
  <2>2. /\ "cancel" \in Rows!Requested /\ Judged(r) = <<"cancel", rjob[r]>>
        /\ RowOf("cancelled") = Rows!Outcome("cancel")
    BY <2>1 DEF Judged, RowOf, Live, Rows!Requested, Rows!Outcome
  <2> QED
    BY <1>6, <2>1, <2>2
<1>8. ASSUME NEW r \in Requests, RetryWrite(r) PROVE RowsStep
  <2>1. /\ rpc[r] = "retry" /\ Respond(r) /\ UNCHANGED workerVars
        /\ status' = [status EXCEPT ![rjob[r]] = "queued"]
    BY <1>8 DEF RetryWrite, Requeue
  <2>2. /\ "retry" \in Rows!Requested /\ Judged(r) = <<"retry", rjob[r]>>
        /\ RowOf("queued") = Rows!Outcome("retry")
    BY <2>1 DEF Judged, RowOf, Live, Rows!Requested, Rows!Outcome
  <2> QED
    BY <1>6, <2>1, <2>2
<1>9. ASSUME NEW r \in Requests, UndoMark(r) PROVE RowsStep
  <2>1. rpc[r] = "mark" /\ Respond(r) /\ UNCHANGED workerVars
    BY <1>9 DEF UndoMark
  <2>2. CASE UNCHANGED status
    BY <1>5, <2>1, <2>2
  <2>3. CASE status' = [status EXCEPT ![rjob[r]] = "deleted"]
    <3>1. /\ "undo" \in Rows!Requested /\ Judged(r) = <<"undo", rjob[r]>>
          /\ RowOf("deleted") = Rows!Outcome("undo")
      BY <2>1 DEF Judged, RowOf, Live, Rows!Requested, Rows!Outcome
    <3> QED
      BY <1>6, <2>1, <2>3, <3>1
  <2> QED
    BY <1>9, <2>2, <2>3 DEF UndoMark
<1>10. ASSUME NEW r \in Requests, UndoDelete(r) PROVE RowsStep
  <2>1. rpc[r] = "undo" /\ UNCHANGED <<status, workerVars>>
    BY <1>10 DEF UndoDelete, rowVars
  <2>2. CASE Respond(r)
    BY <1>5, <2>1, <2>2
  <2>3. CASE rpc' = [rpc EXCEPT ![r] = "mark"] /\ UNCHANGED <<rjob, calls>>
    <3>1. \A q \in Requests : /\ rpc'[q] # "none" <=> rpc[q] # "none"
                              /\ Judged(q)' = Judged(q)
      BY <2>1, <2>3 DEF TypeOK, Judged
    <3>2. UNCHANGED Pending
      BY <3>1 DEF Pending
    <3> QED
      BY <2>1, <3>2, NoRow, HandsStay DEF RowsStep
  <2> QED
    BY <1>10, <2>2, <2>3 DEF UndoDelete
<1>11. ASSUME NEW r \in Requests, RequestFails(r) PROVE RowsStep
  <2>1. rpc[r] # "none" /\ Respond(r) /\ UNCHANGED <<status, workerVars>>
    BY <1>11 DEF RequestFails, rowVars
  <2> QED
    BY <1>5, <2>1
<1> QED
  BY <1>1, <1>2, <1>3, <1>7, <1>8, <1>9, <1>10, <1>11 DEF OutsideStep, RequestStep

\* The workers.
LEMMA MovesRows ==
  ASSUME TypeOK, NEW w \in Workers, Moves(w)
  PROVE  RowsStep
<1>1. UNCHANGED requestVars
  BY DEF Moves, WorkerStep, CleanupStaleJobs, ClaimJob, NoJob, CheckStatus, FetchAndParse, InsertBatch,
         ReportImport, Complete, RetryJob, Heartbeat, Misfortune, ClaimFails, HeartbeatEnds, Crash
<1>2. UNCHANGED Pending
  BY <1>1, PendingStays
<1>3. \A v \in Workers \ {w} : wpc'[v] = wpc[v] /\ wjob'[v] = wjob[v]
  BY OthersStay
<1>4. wpc[w] \in AtWork => wjob[w] \in Jobs /\ wjob[w] \in Held
  BY DEF TypeOK, WorkersPlaced, Held, Holds
<1>5. /\ {"idle", "ready", "dead"} \cap AtWork = {}
      /\ {"claimed", "fetch", "insert", "complete", "retry"} = AtWork
  BY DEF AtWork
<1>6. ASSUME UNCHANGED Row, wpc[w] \in AtWork, wpc'[w] \notin AtWork PROVE RowsStep
  <2>1. Held' \in {Held, Held \ {wjob[w]}}
    BY <1>3, <1>6, HandsMove
  <2> QED
    BY <1>2, <1>4, <1>6, <2>1 DEF RowsStep, RowsWorker
<1>7. ASSUME UNCHANGED Row, wpc'[w] \in AtWork <=> wpc[w] \in AtWork,
             wpc[w] \in AtWork => wjob'[w] = wjob[w]
      PROVE  RowsStep
  <2>1. UNCHANGED Held
    BY <1>3, <1>7, HandsMove
  <2> QED
    BY <1>2, <1>7, <2>1 DEF RowsStep
<1>8. ASSUME NEW s, status' = [status EXCEPT ![wjob[w]] = s], RowOf(s) \in {"active", "done", "stopped"},
             wpc[w] \in AtWork, wpc'[w] \notin AtWork \/ wjob'[w] = wjob[w]
      PROVE  RowsStep
  <2>1. Row' = [Row EXCEPT ![wjob[w]] = RowOf(s)]
    BY <1>4, <1>8, OneRow
  <2>2. Held' \in {Held, Held \ {wjob[w]}}
    BY <1>3, <1>8, HandsMove
  <2> QED
    BY <1>2, <1>4, <1>8, <2>1, <2>2 DEF RowsStep, RowsWorker
<1>9. UNCHANGED status => UNCHANGED Row
  BY NoRow
<1>10. CASE CleanupStaleJobs(w)
  <2>1. \A j \in Jobs : status'[j] = status[j] \/ (status[j] = "processing" /\ status'[j] = "queued")
    BY <1>10 DEF CleanupStaleJobs, IsStale
  <2>2. UNCHANGED Row
    BY <2>1, NoRow DEF RowOf, Live
  <2>3. wpc[w] = "idle" /\ wpc'[w] = "ready"
    BY <1>10, Going DEF CleanupStaleJobs
  <2> QED
    BY <1>5, <1>7, <2>2, <2>3
<1>11. ASSUME NEW j \in Jobs, ClaimJob(w, j) \/ ClaimFails(w, j) PROVE RowsStep
  <2>1. \A i \in Jobs : status'[i] = status[i] \/ (status[i] = "queued" /\ status'[i] = "processing")
    BY <1>11 DEF ClaimJob, ClaimFails, ClaimRow, Claimable, TypeOK, rowVars
  <2>2. UNCHANGED Row
    BY <2>1, NoRow DEF RowOf, Live
  <2>3. wpc[w] = "ready" /\ Row[j] = "active"
    BY <1>11 DEF ClaimJob, ClaimFails, Claimable, Row, RowOf, Live
  <2>4. CASE ClaimJob(w, j)
    <3>1. wpc'[w] = "claimed" /\ wjob'[w] = j
      BY <2>4 DEF ClaimJob, TypeOK
    <3>2. Held' = Held \cup {j}
      BY <1>3, <1>5, <2>3, <3>1, HandsMove
    <3> QED
      BY <1>2, <2>2, <2>3, <3>2 DEF RowsStep, RowsWorker
  <2>5. CASE ClaimFails(w, j)
    <3>1. wpc'[w] = "idle"
      BY <2>5, Going DEF ClaimFails
    <3> QED
      BY <1>5, <1>7, <2>2, <2>3, <3>1
  <2> QED
    BY <1>11, <2>4, <2>5
<1>12. CASE NoJob(w)
  <2>1. wpc[w] = "ready" /\ wpc'[w] = "idle" /\ UNCHANGED status
    BY <1>12, Going DEF NoJob, rowVars
  <2> QED
    BY <1>5, <1>7, <1>9, <2>1
<1>13. CASE CheckStatus(w) \/ FetchAndParse(w) \/ InsertBatch(w) \/ ReportImport(w) \/ Crash(w)
  <2>1. wpc[w] \in AtWork /\ UNCHANGED status
    BY <1>5, <1>13 DEF CheckStatus, FetchAndParse, InsertBatch, ReportImport, Crash, rowVars
  <2>2. wpc'[w] \notin AtWork \/ (wpc'[w] \in AtWork /\ wjob'[w] = wjob[w])
    <3>1. CASE CheckStatus(w)
      BY <1>5, <3>1, Going DEF CheckStatus, TypeOK, workVars
    <3>2. CASE FetchAndParse(w) \/ ReportImport(w)
      BY <1>5, <3>2, Going DEF FetchAndParse, ReportImport, Outcome
    <3>3. CASE InsertBatch(w)
      BY <1>5, <3>3 DEF InsertBatch
    <3>4. CASE Crash(w)
      BY <1>5, <3>4, Going DEF Crash
    <3> QED
      BY <1>13, <3>1, <3>2, <3>3, <3>4
  <2> QED
    BY <1>6, <1>7, <1>9, <2>1, <2>2
<1>14. CASE Heartbeat(w) \/ HeartbeatEnds(w)
  <2>1. UNCHANGED <<status, wpc, wjob>>
    BY <1>14 DEF Heartbeat, HeartbeatEnds, rowVars, workerVars, workVars
  <2> QED
    BY <1>7, <1>9, <2>1
<1>15. CASE Complete(w)
  <2>1. wpc[w] \in AtWork /\ (wpc'[w] \notin AtWork \/ (wpc'[w] \in AtWork /\ wjob'[w] = wjob[w]))
    BY <1>5, <1>15, Going DEF Complete
  <2>2. CASE UNCHANGED rowVars
    BY <1>6, <1>7, <1>9, <2>1, <2>2 DEF rowVars
  <2>3. CASE CompleteJob(wjob[w], TRUE)
    <3>1. status' = [status EXCEPT ![wjob[w]] = "completed"] /\ RowOf("completed") = "done"
      BY <2>3 DEF CompleteJob, RowOf, Live
    <3> QED
      BY <1>8, <2>1, <3>1
  <2> QED
    BY <1>15, <2>2, <2>3 DEF Complete
<1>16. CASE RetryJob(w)
  <2>1. wpc[w] \in AtWork /\ wpc'[w] \notin AtWork
    BY <1>5, <1>16, Going DEF RetryJob
  <2>2. CASE UNCHANGED rowVars
    BY <1>6, <1>9, <2>1, <2>2 DEF rowVars
  <2>3. CASE CompleteJob(wjob[w], FALSE)
    <3>1. status' = [status EXCEPT ![wjob[w]] = "failed"] /\ RowOf("failed") = "stopped"
      BY <2>3 DEF CompleteJob, RowOf, Live
    <3> QED
      BY <1>8, <2>1, <3>1
  <2>4. CASE Requeue(wjob[w], wsnap[w] + 1)
    <3>1. status' = [status EXCEPT ![wjob[w]] = "queued"] /\ RowOf("queued") = "active"
      BY <2>4 DEF Requeue, RowOf, Live
    <3> QED
      BY <1>8, <2>1, <3>1
  <2> QED
    BY <1>16, <2>2, <2>3, <2>4 DEF RetryJob
<1> QED
  BY <1>10, <1>11, <1>12, <1>13, <1>14, <1>15, <1>16 DEF Moves, WorkerStep, Misfortune

\* What the API and the pages see of a job changes only by a worker that took it while it was active
\* and has not let go of it, or by a request the API let through: the claim, the cleanup, crashes and
\* heartbeats bring back nothing that has ended, been cancelled or been deleted.
THEOREM RowsFollowed == Spec => FollowsRows
<1>1. Init => Rows!Init
  <2> SUFFICES ASSUME Init PROVE Rows!Init
    OBVIOUS
  <2>1. [j \in Jobs |-> RowOf(status[j])] = [j \in Rows!Jobs |-> "none"]
    <3>1. \A j \in Jobs : RowOf(status[j]) = "none"
      <4>1. RowOf("absent") = "none"
        BY DEF RowOf, Live
      <4>2. \A j \in Jobs : status[j] = "absent"
        BY DEF Init
      <4> QED
        BY <4>1, <4>2
    <3>2. Rows!Jobs = Jobs
      BY DEF Rows!Jobs, Jobs
    <3> QED
      BY <3>1, <3>2
  <2>2. Held = {} /\ Pending = {}
    BY DEF Init, Held, Holds, AtWork, Pending
  <2> QED
    BY <2>1, <2>2 DEF Rows!Init, Held, Pending
<1>2. TypeOK /\ LoadInv /\ [Next]_vars => [Rows!Next]_(Rows!rvars)
  BY Split, OutsideRows, MovesRows, RowsStepIs DEF LoadInv
<1> QED
  BY <1>1, <1>2, TypeCorrect, LoadInvariant, PTL DEF Spec, FollowsRows, Rows!Spec

-------------------------------------------------------------------------------

\* A cancel that reaches the row before the worker's second look at it is final:
\* only the admin's own retry, or the mark of an undo, takes the job out of it.
THEOREM CancelStandsHolds == Spec => CancelStands
<1>1. ASSUME TypeOK, [Next]_vars, NEW j \in Jobs, CancelledInTime(j)
      PROVE  CancelledInTime(j)' \/ \E r \in Requests : rjob[r] = j /\ rpc[r] \in {"retry", "mark"}
  <2>1. status[j] = "cancelled" /\ \A w \in Workers : Holds(w, j) => wpc[w] = "claimed"
    BY <1>1 DEF CancelledInTime
  <2>2. CASE OutsideStep
    <3>1. UNCHANGED workerVars
      BY <2>2 DEF OutsideStep, Upload, HeartbeatAges, RequestStep, CancelWrite, RetryWrite,
                  UndoDelete, UndoMark, RequestFails, CancelRead, RetryRead, UndoRead, ReadJob, vars
    <3>2. status'[j] = "cancelled" \/ \E r \in Requests : rjob[r] = j /\ rpc[r] \in {"retry", "mark"}
      BY <1>1, <2>1, <2>2
         DEF OutsideStep, Upload, HeartbeatAges, RequestStep, CancelWrite, RetryWrite, Requeue,
             UndoDelete, UndoMark, RequestFails, CancelRead, RetryRead, UndoRead, ReadJob,
             TypeOK, vars, rowVars
    <3> QED
      BY <2>1, <3>1, <3>2 DEF CancelledInTime, Holds, workerVars, workVars
  <2>3. ASSUME NEW w \in Workers, Moves(w) PROVE CancelledInTime(j)'
    <3>1. wpc[w] \notin AtWork \/ wpc[w] = "claimed" \/ wjob[w] # j
      BY <2>1 DEF Holds
    <3>2. status'[j] = "cancelled"
      <4>1. status \in [Jobs -> Statuses]
        BY <1>1 DEF TypeOK
      <4>2. CASE CleanupStaleJobs(w)
        BY <2>1, <4>2 DEF CleanupStaleJobs, IsStale
      <4>3. ASSUME NEW i \in Jobs, ClaimJob(w, i) \/ ClaimFails(w, i) PROVE status'[j] = "cancelled"
        BY <2>1, <4>1, <4>3 DEF ClaimJob, ClaimFails, ClaimRow, Claimable, rowVars
      <4>4. CASE Complete(w) \/ RetryJob(w)
        <5>1. wjob[w] # j
          BY <3>1, <4>4 DEF Complete, RetryJob, AtWork
        <5> QED
          BY <2>1, <4>1, <4>4, <5>1 DEF Complete, RetryJob, CompleteJob, Requeue, rowVars
      <4>5. CASE UNCHANGED status
        BY <2>1, <4>5
      <4>6. CASE Misfortune(w) \/ Heartbeat(w)
        BY <4>3, <4>5, <4>6 DEF Misfortune, Heartbeat, HeartbeatEnds, Crash, rowVars
      <4>7. CASE NoJob(w) \/ CheckStatus(w) \/ FetchAndParse(w) \/ InsertBatch(w) \/ ReportImport(w)
        BY <4>5, <4>7 DEF NoJob, CheckStatus, FetchAndParse, InsertBatch, ReportImport, rowVars
      <4> QED
        BY <2>3, <4>2, <4>3, <4>4, <4>6, <4>7 DEF Moves, WorkerStep
    <3>3. Holds(w, j)' => wpc'[w] = "claimed"
      <4>1. CASE WorkerStep(w) /\ wpc[w] \in {"idle", "ready"}
        <5>1. CleanupStaleJobs(w) \/ (\E i \in Jobs : ClaimJob(w, i)) \/ NoJob(w)
          BY <4>1 DEF WorkerStep, CheckStatus, FetchAndParse, InsertBatch, ReportImport, Complete, RetryJob
        <5>2. CASE \E i \in Jobs : ClaimJob(w, i)
          BY <1>1, <5>2 DEF ClaimJob, TypeOK
        <5>3. CASE CleanupStaleJobs(w) \/ NoJob(w)
          BY <1>1, <5>3, Going DEF CleanupStaleJobs, NoJob, AtWork, Holds
        <5> QED
          BY <5>1, <5>2, <5>3
      <4>2. CASE WorkerStep(w) /\ wpc[w] = "claimed"
        BY <1>1, <2>1, <2>3, <4>2
           DEF WorkerStep, CleanupStaleJobs, ClaimJob, NoJob, CheckStatus, SeenCancelled, FetchAndParse,
               InsertBatch, ReportImport, Complete, RetryJob, LeaveTo, TypeOK, AtWork, Holds, workVars
      <4>3. CASE WorkerStep(w) /\ wpc[w] \in AtWork \ {"claimed"}
        <5>1. wjob[w] # j /\ j # 0
          BY <3>1, <4>3 DEF Jobs
        <5>2. wjob'[w] \in {wjob[w], 0}
          BY <1>1, <2>3, <4>3
             DEF WorkerStep, CleanupStaleJobs, ClaimJob, NoJob, CheckStatus, FetchAndParse, InsertBatch,
                 ReportImport, Complete, RetryJob, Goto, LeaveTo, TypeOK, AtWork, workVars
        <5> QED
          BY <5>1, <5>2 DEF Holds
      <4>4. CASE Heartbeat(w)
        BY <2>1, <4>4 DEF Heartbeat, Holds, workerVars, workVars
      <4>5. CASE Misfortune(w)
        BY <1>1, <2>1, <2>3, <4>5
           DEF Misfortune, ClaimFails, HeartbeatEnds, Crash, LeaveTo, Holds, TypeOK, AtWork, workVars
      <4>6. WorkerStep(w) => wpc[w] \in {"idle", "ready"} \cup AtWork
        BY <2>3 DEF WorkerStep, CleanupStaleJobs, ClaimJob, NoJob, CheckStatus, FetchAndParse, InsertBatch,
               ReportImport, Complete, RetryJob, AtWork
      <4> QED
        BY <2>3, <4>1, <4>2, <4>3, <4>4, <4>5, <4>6 DEF Moves, AtWork
    <3>4. ASSUME NEW v \in Workers, v # w, Holds(v, j)' PROVE wpc'[v] = "claimed"
      BY <1>1, <2>1, <2>3, <3>4, OthersStay DEF Holds
    <3> QED
      BY <3>2, <3>3, <3>4 DEF CancelledInTime
  <2> QED
    BY <1>1, <2>2, <2>3, Split
<1>2. TypeOK /\ [Next]_vars =>
        [\A j \in Jobs : CancelledInTime(j) =>
            \/ CancelledInTime(j)'
            \/ \E r \in Requests : rjob[r] = j /\ rpc[r] \in {"retry", "mark"}]_vars
  BY <1>1
<1> QED
  BY <1>2, TypeCorrect, PTL DEF Spec, CancelStands

===============================================================================
