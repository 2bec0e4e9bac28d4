------------------------------- MODULE CafeImport -------------------------------
(***************************************************************************)
(* A café import from its upload to its reconciliation: the upload wizard    *)
(* (UploadWizardPage and its four steps), the routes it calls, and the one    *)
(* process that executes jobs, the import worker.                            *)
(*                                                                         *)
(* One import in one wizard.  Files, mappings and totals are left out: what   *)
(* matters here is who moves the job from one status to the next.            *)
(***************************************************************************)
EXTENDS Naturals

CONSTANT MaxAttempts    \* how often the mapping step asks again for the proposal

VARIABLES
    job,            \* import_jobs.status, "none" before the upload
    step,           \* of the wizard, "left" once the user has gone
    call,           \* the request of the step that is under way
    attempts,       \* of the mapping step to get the proposal
    proposal,       \* the mapping step: waiting, proposed, or the error shown
    tick,           \* the poll of the progress step: off, asking, or its timer is set
    failMessage     \* the wizard shows that the import failed

vars == <<job, step, call, attempts, proposal, tick, failMessage>>

Terminal == {"completed", "failed", "mapping_timeout", "skipped", "undone", "deleted", "cancelled"}

Init ==
    /\ job = "none"
    /\ step = "upload" /\ call = "none"
    /\ attempts = 0 /\ proposal = "waiting"
    /\ tick = "off" /\ failMessage = FALSE

-----------------------------------------------------------------------------
(* Upload and mapping.                                                       *)

Submit ==
    /\ step = "upload" /\ call = "none"
    /\ call' = "upload"
    /\ UNCHANGED <<job, step, attempts, proposal, tick, failMessage>>

\* cafe_import_upload: the proposal is made from the header; the file itself is not kept.
UploadStored ==
    /\ call = "upload"
    /\ job' = "mapping_proposed"
    /\ step' = "mapping" /\ call' = "none"
    /\ UNCHANGED <<attempts, proposal, tick, failMessage>>

\* A duplicate of a completed import, a file that is refused, a request that is lost.
CallEnds ==
    /\ call # "none"
    /\ call' = "none"
    /\ UNCHANGED <<job, step, attempts, proposal, tick, failMessage>>

GetProposal ==
    /\ step = "mapping" /\ proposal = "waiting"
    /\ \/ /\ proposal' = "proposed"
          /\ UNCHANGED attempts
       \/ /\ attempts < MaxAttempts
          /\ attempts' = attempts + 1
          /\ UNCHANGED proposal
       \/ /\ attempts = MaxAttempts
          /\ proposal' = "error"
          /\ UNCHANGED attempts
    /\ UNCHANGED <<job, step, call, tick, failMessage>>

Confirm ==
    /\ step = "mapping" /\ call = "none" /\ proposal = "proposed"
    /\ call' = "confirm"
    /\ UNCHANGED <<job, step, attempts, proposal, tick, failMessage>>

\* cafe_mapping_confirm: whatever the status was.
MappingConfirmed ==
    /\ call = "confirm"
    /\ job' = "mapping_confirmed"
    /\ step' = "progress" /\ call' = "none" /\ tick' = "asking"
    /\ UNCHANGED <<attempts, proposal, failMessage>>

-----------------------------------------------------------------------------
(* Progress.                                                                 *)

\* The worker takes jobs that are queued, and no others.
Claim ==
    /\ job = "queued"
    /\ job' = "processing"
    /\ UNCHANGED <<step, call, attempts, proposal, tick, failMessage>>

Process ==
    /\ job = "processing"
    /\ job' \in {"completed", "failed"}
    /\ UNCHANGED <<step, call, attempts, proposal, tick, failMessage>>

\* tick, in useImportStatus, and the effect of ImportProgressStep on what it got.
TickAnswered ==
    /\ step = "progress" /\ tick = "asking"
    /\ tick' = IF job \in Terminal THEN "off" ELSE "timer"
    /\ step' = IF job = "completed" THEN "reconciliation" ELSE step
    /\ failMessage' = (failMessage \/ job \in {"failed", "mapping_timeout"})
    /\ UNCHANGED <<job, call, attempts, proposal>>

TickFails ==
    /\ step = "progress" /\ tick = "asking"
    /\ tick' = "timer"
    /\ UNCHANGED <<job, step, call, attempts, proposal, failMessage>>

TimerFires ==
    /\ step = "progress" /\ tick = "timer"
    /\ tick' = "asking"
    /\ UNCHANGED <<job, step, call, attempts, proposal, failMessage>>

-----------------------------------------------------------------------------
(* Reconciliation, and the ways out.                                         *)

\* onYes, onAcceptRounding, onUndo.
Reconcile ==
    /\ step = "reconciliation" /\ call = "none"
    /\ call' \in {"accept", "undo"}
    /\ UNCHANGED <<job, step, attempts, proposal, tick, failMessage>>

\* cafe_reconciliation_confirm, whatever the status was; the wizard goes back to the data page.
Reconciled ==
    /\ call \in {"accept", "undo"}
    /\ job' = IF call = "undo" THEN "undone" ELSE job
    /\ step' = "left" /\ call' = "none"
    /\ UNCHANGED <<attempts, proposal, tick, failMessage>>

\* The user goes to another page.
Leave ==
    /\ step # "left"
    /\ step' = "left" /\ call' = "none" /\ tick' = "off"
    /\ UNCHANGED <<job, attempts, proposal, failMessage>>

-----------------------------------------------------------------------------

Wizard == Submit \/ GetProposal \/ Confirm \/ TickAnswered \/ TickFails \/ TimerFires \/ Reconcile
Server == UploadStored \/ MappingConfirmed \/ Reconciled \/ CallEnds
Worker == Claim \/ Process

Next == Wizard \/ Server \/ Worker \/ Leave

Spec == Init /\ [][Next]_vars

\* The worker works, the timer fires, and of polls without end one is answered.
Fairness == WF_vars(Worker) /\ WF_vars(TimerFires) /\ SF_vars(TickAnswered) /\ WF_vars(TickAnswered \/ TickFails)

FairSpec == Spec /\ Fairness

-----------------------------------------------------------------------------

\* "Polling every 2 seconds until the job finishes" (useImportStatus.tsx:75): an import whose mapping
\* is confirmed finishes, and the wizard moves on or says that it failed, unless the user goes away.
\* The code violates it: nothing takes a job whose mapping is confirmed.
ProgressEnds == step = "progress" ~> (step \in {"reconciliation", "left"} \/ failMessage)
=============================================================================
