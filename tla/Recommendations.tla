----------------------------- MODULE Recommendations -----------------------------
(***************************************************************************)
(* The rows of recommendation_repo for one tenant: the decision engine that  *)
(* adds them, the routes under /actions that list them and decide on them,   *)
(* and the outcome scan.  The repository is a dictionary of the API process. *)
(* The routes are plain functions, which FastAPI runs in threads: each looks *)
(* at a row and writes it in two steps, and anything may come between.  The  *)
(* engine and the scan are called by async routes and never await: they run  *)
(* on the event loop, one at a time, beside the threads.                     *)
(*                                                                         *)
(* Rows under the confidence threshold are never listed; they, sorting and   *)
(* the filter by type are left out, and so is what a list answers.  One      *)
(* clock moves every date: a date is ahead until Pass says it has passed.    *)
(* The nightly scan runs in the cron process, on a dictionary of its own     *)
(* that nothing fills: it changes nothing and is no action here.             *)
(***************************************************************************)
EXTENDS Integers, FiniteSets

CONSTANTS
    NRecs,          \* rows the engine makes, numbered in the order of the dictionary
    Topics,         \* what they are about: a recommendation_type and a primary_item_id
    NoTopic,        \* no candidate, or a row that is not made yet
    Threads,        \* the threads that serve /actions
    Cap,            \* decision_engine_max_recs_per_tenant
    MaxRequests,    \* bound: requests to /actions in one life of the process
    MaxPasses       \* bound: dates that pass in it

ASSUME RecommendationsAssumption ==
    /\ NoTopic \notin Topics
    /\ NRecs \in Nat /\ Cap \in Nat \ {0}
    /\ MaxRequests \in Nat /\ MaxPasses \in Nat

Recs == 1..NRecs

VARIABLES
    topic,          \* of each row
    status,         \* of each row; "none" before it is made
    snoozeOver,     \* rows whose snooze_until has passed
    expiryOver,     \* rows whose expires_at has passed
    due,            \* rows whose outcome_measurement_due has passed
    measured,       \* rows with an outcome_measured
    pc,             \* where each thread is: in the sweep, after it, or between two writes
    at,             \* the row it is at
    broken,         \* sweeping threads whose dictionary has grown: they raise at the next row
    job,            \* what the event loop does: nothing, an upsert or a scan
    jobRow,         \* the row it is at
    jobTopic,       \* the topic of the candidate
    found,          \* rows the scan found due, still to be written
    requests, passes,   \* how many there have been
    verdict,        \* history: the last decision on each row, as the status it wrote
    returned,       \* history: rows a sweep has brought back from an ended snooze since
    overtaken       \* history: rows whose last decision met another's look at them, see Behind

dates == <<snoozeOver, expiryOver, due, measured, passes>>
threads == <<pc, at, broken, requests>>
loop == <<job, jobRow, jobTopic, found>>
history == <<verdict, returned, overtaken>>
vars == <<topic, status, dates, threads, loop, history>>

Status == {"none", "open", "watching", "snoozed", "resolved", "rejected",
           "superseded", "expired"}
Sweeping == {"look", "open", "again", "expire"}

TypeOK ==
    /\ topic \in [Recs -> Topics \cup {NoTopic}] /\ status \in [Recs -> Status]
    /\ snoozeOver \in SUBSET Recs /\ expiryOver \in SUBSET Recs /\ due \in SUBSET Recs
    /\ measured \in SUBSET Recs
    /\ pc \in [Threads -> {"idle", "swept", "until", "due"} \cup Sweeping]
    /\ at \in [Threads -> 1..(NRecs + 1)]
    /\ \A t \in Threads : pc[t] \in {"open", "again", "expire", "until", "due"} => at[t] \in Recs
    /\ broken \in SUBSET Threads
    /\ job \in {"none", "look", "supersede", "scan", "resolve"}
    /\ jobRow \in 1..(NRecs + 1) /\ (job = "supersede" => jobRow \in Recs)
    /\ jobTopic \in Topics \cup {NoTopic} /\ found \in SUBSET Recs
    /\ requests \in 0..MaxRequests /\ passes \in 0..MaxPasses
    /\ verdict \in [Recs -> {"none", "watching", "snoozed", "rejected"}]
    /\ returned \in SUBSET Recs /\ overtaken \in SUBSET Recs

Open == {r \in Recs : status[r] = "open"}
Stored == {r \in Recs : status[r] # "none"}

Init ==
    /\ topic = [r \in Recs |-> NoTopic]
    /\ status = [r \in Recs |-> "none"]
    /\ snoozeOver = {} /\ expiryOver = {} /\ due = {} /\ measured = {}
    /\ pc = [t \in Threads |-> "idle"] /\ at = [t \in Threads |-> 1] /\ broken = {}
    /\ job = "none" /\ jobRow = 1 /\ jobTopic = NoTopic /\ found = {}
    /\ requests = 0 /\ passes = 0
    /\ verdict = [r \in Recs |-> "none"] /\ returned = {} /\ overtaken = {}

-----------------------------------------------------------------------------
(* The sweep: list_open, list_history, get and summary, and so every decision, begin with it. *)

Goto(t, p, r) ==
    /\ pc' = [pc EXCEPT ![t] = p]
    /\ at' = [at EXCEPT ![t] = r]

Write(r, new) == status' = [status EXCEPT ![r] = new]

Begin(t) ==
    /\ pc[t] = "idle"
    /\ requests < MaxRequests
    /\ requests' = requests + 1
    /\ Goto(t, "look", 1)
    /\ UNCHANGED <<topic, status, dates, broken, loop, history>>

\* To the next row, unless the dictionary has grown: then the request raises.
NextRow(t) ==
    /\ IF t \in broken THEN Goto(t, "idle", 1) ELSE Goto(t, "look", at[t] + 1)
    /\ broken' = broken \ {t}

BackAnyStatus(r) == status[r] \in {"snoozed", "watching", "rejected"} /\ r \in snoozeOver  \* mutant
Back(r) == status[r] = "snoozed" /\ r \in snoozeOver
Expired(r) == status[r] = "open" /\ r \in expiryOver

\* Some thread has written a snooze of the row, and its snooze_until not yet.
HalfSnoozed(r) == \E u \in Threads : pc[u] = "until" /\ at[u] = r

Look(t) ==
    /\ pc[t] = "look" /\ at[t] \in Stored
    /\ \/ /\ Back(at[t])
          /\ Goto(t, "open", at[t])
          /\ overtaken' = IF HalfSnoozed(at[t]) THEN overtaken \cup {at[t]} ELSE overtaken
          /\ UNCHANGED broken
       \/ /\ ~Back(at[t]) /\ Expired(at[t])
          /\ Goto(t, "expire", at[t])
          /\ UNCHANGED <<overtaken, broken>>
       \/ /\ ~Back(at[t]) /\ ~Expired(at[t])
          /\ NextRow(t)
          /\ UNCHANGED overtaken
    /\ UNCHANGED <<topic, status, dates, requests, loop, verdict, returned>>

\* The snooze is over: the row is open, and looked at again for its expiry.
WriteOpen(t) ==
    /\ pc[t] = "open"
    /\ Write(at[t], "open")
    /\ returned' = IF /\ status[at[t]] = "snoozed" /\ at[t] \in snoozeOver
                      /\ ~HalfSnoozed(at[t])
                   THEN returned \cup {at[t]} ELSE returned
    /\ Goto(t, "again", at[t])
    /\ UNCHANGED <<topic, dates, broken, requests, loop, verdict, overtaken>>

LookAgain(t) ==
    /\ pc[t] = "again"
    /\ IF Expired(at[t]) THEN Goto(t, "expire", at[t]) /\ UNCHANGED broken ELSE NextRow(t)
    /\ UNCHANGED <<topic, status, dates, requests, loop, history>>

WriteExpired(t) ==
    /\ pc[t] = "expire"
    /\ Write(at[t], "expired")
    /\ NextRow(t)
    /\ UNCHANGED <<topic, dates, requests, loop, history>>

\* There is no further row.
LookEnds(t) ==
    /\ pc[t] = "look" /\ at[t] \notin Stored
    /\ IF t \in broken THEN Goto(t, "idle", 1) ELSE Goto(t, "swept", 1)
    /\ broken' = broken \ {t}
    /\ UNCHANGED <<topic, status, dates, requests, loop, history>>

Answer(t) ==
    /\ pc[t] = "swept"
    /\ Goto(t, "idle", 1)
    /\ UNCHANGED <<topic, status, dates, broken, requests, loop, history>>

-----------------------------------------------------------------------------
(* accept, snooze and reject take any row of the store, whatever its status. *)

\* Another thread, the engine or the scan has looked at the row and is about to write it.
Behind(r) ==
    \/ \E u \in Threads : pc[u] \in {"open", "expire"} /\ at[u] = r
    \/ job = "supersede" /\ jobRow = r
    \/ r \in found

Decide(t, r, new) ==
    /\ pc[t] = "swept" /\ r \in Stored
    /\ Write(r, new)
    /\ verdict' = [verdict EXCEPT ![r] = new]
    /\ returned' = returned \ {r}
    /\ overtaken' = IF Behind(r) THEN overtaken \cup {r} ELSE overtaken \ {r}
    /\ UNCHANGED <<topic, dates, broken, requests, loop>>

\* The date of an acceptance or a snooze is written after the status.
Accept(t, r) == Decide(t, r, "watching") /\ Goto(t, "due", r)
Snooze(t, r) == Decide(t, r, "snoozed") /\ Goto(t, "until", r)
RejectMisspelt(t, r) == Decide(t, r, "denied") /\ Goto(t, "idle", 1)  \* mutant
Reject(t, r) == Decide(t, r, "rejected") /\ Goto(t, "idle", 1)

WriteDate(t) ==
    /\ \/ pc[t] = "until" /\ snoozeOver' = snoozeOver \ {at[t]} /\ UNCHANGED due
       \/ pc[t] = "due" /\ due' = due \ {at[t]} /\ UNCHANGED snoozeOver
    /\ Goto(t, "idle", 1)
    /\ UNCHANGED <<topic, status, expiryOver, measured, passes, broken, requests, loop, history>>

-----------------------------------------------------------------------------
(* The event loop: upsert of a candidate, and the outcome scan.              *)

UpToCap == Cardinality(Open) <= Cap  \* mutant
UnderCap == Cardinality(Open) < Cap

\* upsert of a new candidate.  At the cap it is dropped.  Nothing is swept.
Upsert(p) ==
    /\ job = "none"
    /\ \E r \in Recs : status[r] = "none"
    /\ UnderCap
    /\ job' = "look" /\ jobRow' = 1 /\ jobTopic' = p
    /\ UNCHANGED <<topic, status, dates, threads, found, history>>

SupersedesSnoozed(r) == status[r] = "snoozed" /\ topic[r] = jobTopic  \* mutant
Supersedes(r) == status[r] = "open" /\ topic[r] = jobTopic

\* What is open about the same thing makes place, row by row ...
UpsertLook ==
    /\ job = "look" /\ jobRow \in Recs /\ status[jobRow] # "none"
    /\ IF Supersedes(jobRow) THEN job' = "supersede" /\ UNCHANGED jobRow
                             ELSE jobRow' = jobRow + 1 /\ UNCHANGED job
    /\ UNCHANGED <<topic, status, dates, threads, jobTopic, found, history>>

UpsertSupersede ==
    /\ job = "supersede"
    /\ Write(jobRow, "superseded")
    /\ job' = "look" /\ jobRow' = jobRow + 1
    /\ UNCHANGED <<topic, dates, threads, jobTopic, found, history>>

\* ... and the new row comes after all the others.  Whoever sweeps the dictionary meanwhile raises.
UpsertInsert ==
    /\ job = "look" /\ jobRow \in Recs /\ status[jobRow] = "none"
    /\ Write(jobRow, "open")
    /\ topic' = [topic EXCEPT ![jobRow] = jobTopic]
    /\ broken' = {t \in Threads : pc[t] \in Sweeping}
    /\ job' = "none" /\ jobRow' = 1 /\ jobTopic' = NoTopic
    /\ UNCHANGED <<dates, pc, at, requests, found, history>>

\* POST /admin/engine/outcome-scan: all_watching_due collects the rows, and each is then resolved.
Scan ==
    /\ job = "none" /\ Stored # {}
    /\ job' = "scan" /\ jobRow' = 1
    /\ UNCHANGED <<topic, status, dates, threads, jobTopic, found, history>>

IsDue(r) == status[r] = "watching" /\ r \in due \ measured

ScanLook ==
    /\ job = "scan" /\ jobRow \in Stored
    /\ found' = IF IsDue(jobRow) THEN found \cup {jobRow} ELSE found
    /\ jobRow' = jobRow + 1
    /\ UNCHANGED <<topic, status, dates, threads, job, jobTopic, history>>

ScanLookEnds ==
    /\ job = "scan" /\ jobRow \notin Stored
    /\ job' = (IF found = {} THEN "none" ELSE "resolve") /\ jobRow' = 1
    /\ UNCHANGED <<topic, status, dates, threads, jobTopic, found, history>>

ScanWrite ==
    /\ job = "resolve"
    /\ \E r \in found :
          /\ Write(r, "resolved")
          /\ measured' = measured \cup {r}
          /\ found' = found \ {r}
          /\ job' = IF found = {r} THEN "none" ELSE job
    /\ UNCHANGED <<topic, snoozeOver, expiryOver, due, passes, threads, jobRow, jobTopic, history>>

-----------------------------------------------------------------------------

\* The days go by: a snooze ends, a row expires, the 14 days of an accepted row are over.
Pass(r) ==
    /\ passes < MaxPasses
    /\ passes' = passes + 1
    /\ \/ status[r] = "snoozed" /\ snoozeOver' = snoozeOver \cup {r} /\ UNCHANGED <<expiryOver, due>>
       \/ status[r] = "watching" /\ due' = due \cup {r} /\ UNCHANGED <<snoozeOver, expiryOver>>
       \/ r \in Stored /\ expiryOver' = expiryOver \cup {r} /\ UNCHANGED <<snoozeOver, due>>
    /\ UNCHANGED <<topic, status, measured, threads, loop, history>>

\* The API process restarts, and the dictionary is empty again.
Restart ==
    /\ topic' = [r \in Recs |-> NoTopic]
    /\ status' = [r \in Recs |-> "none"]
    /\ snoozeOver' = {} /\ expiryOver' = {} /\ due' = {} /\ measured' = {}
    /\ pc' = [t \in Threads |-> "idle"] /\ at' = [t \in Threads |-> 1] /\ broken' = {}
    /\ job' = "none" /\ jobRow' = 1 /\ jobTopic' = NoTopic /\ found' = {}
    /\ requests' = 0 /\ passes' = 0
    /\ verdict' = [r \in Recs |-> "none"] /\ returned' = {} /\ overtaken' = {}

Request(t) ==
    \/ Begin(t) \/ Look(t) \/ WriteOpen(t) \/ LookAgain(t) \/ WriteExpired(t) \/ LookEnds(t)
    \/ Answer(t) \/ WriteDate(t)
    \/ \E r \in Recs : Accept(t, r) \/ Snooze(t, r) \/ Reject(t, r)

Engine ==
    \/ \E p \in Topics : Upsert(p)
    \/ UpsertLook \/ UpsertSupersede \/ UpsertInsert

Next ==
    \/ \E t \in Threads : Request(t)
    \/ Engine \/ Scan \/ ScanLook \/ ScanLookEnds \/ ScanWrite
    \/ \E r \in Recs : Pass(r)
    \/ Restart

Spec == Init /\ [][Next]_vars

-----------------------------------------------------------------------------

\* Rows that may be open again though the engine has not just added them.
Resurfaced == returned \cup overtaken

\* There are more open rows than the cap only by rows that came back from a snooze or over a
\* decision (see DecisionStands): whatever threads do between the engine's count of the open rows
\* and its insert, the engine itself never goes beyond the cap.
OpenWithinCap == Cardinality(Open \ Resurfaced) <= Cap

\* Two open rows are about the same thing only when one of them came back from a snooze or over a
\* decision: a newer row supersedes what is open, whatever threads do meanwhile.
OnePerTopic ==
    \A r, x \in Open : topic[r] = topic[x] => r = x \/ {r, x} \cap Resurfaced # {}

\* A row keeps the last decision taken on it (an accepted one is resolved when it has been measured)
\* until a snooze of it ends, unless another thread's sweep, the engine or the scan stood between
\* its look at the row and its write when the decision was written, or looked at the row between a
\* snooze's status and its date: these are the rows the code's look and late write can overtake.
DecisionStands ==
    \A r \in Recs \ Resurfaced :
        verdict[r] # "none" =>
            \/ status[r] = verdict[r]
            \/ verdict[r] = "watching" /\ status[r] = "resolved"
=============================================================================
