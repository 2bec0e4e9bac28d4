------------------------------- MODULE ImportWatch -------------------------------
(***************************************************************************)
(* The list of recent imports of the data page, and how it follows the jobs  *)
(* (DataPage.tsx with GET /data/import/jobs).                                *)
(*                                                                         *)
(* The page asks for the list when it opens and whenever the LENGTH of the    *)
(* list changes; it is then that it decides, from the list on screen, whether *)
(* to ask again every five seconds.  Every action of the user that succeeds   *)
(* asks once more.  Requests overlap and their answers arrive in any order.   *)
(*                                                                         *)
(* A job is what ImportRows says of it: active (queued, processing: it can    *)
(* be cancelled), done (it can be undone), stopped (failed, cancelled: it can *)
(* be retried), deleted.  Workers and the other admins of the tenant are no   *)
(* part of this module: to the page, any job may change at any time.          *)
(***************************************************************************)
EXTENDS Integers, FiniteSets

CONSTANTS
    MaxJobs,        \* imports of the tenant, numbered as they are created
    Limit,          \* how many of the newest the route lists
    Requests,       \* requests the page has under way at a time
    None

ASSUME WatchAssumption == MaxJobs \in Nat /\ Limit \in Nat /\ None \notin 1..MaxJobs

Jobs == 1..MaxJobs
Statuses == {"active", "done", "stopped", "deleted"}
RowActions == {"cancel", "retry"}
Actions == RowActions \cup {"undo"}

VARIABLES
    status,         \* import_jobs, as the page can tell
    shown,          \* importJobs: the list on the page
    polling,        \* the interval of the effect runs
    actionJob,      \* the row whose Cancel or Retry is disabled
    undoingJob,     \* the row whose Undo is disabled
    request,        \* of each request: where it is, what for, and the list it brings
    older,          \* of each request that is answered: those answered before it, and not shown yet
    unfollowed,     \* history: something happened that the page does not follow (see ActiveIsWatched)
    mixed           \* history: kinds of action under way on two rows at once (see ButtonsFollow)

pageVars == <<shown, polling, actionJob, undoingJob>>
history == <<unfollowed, mixed>>
vars == <<status, pageVars, request, older, history>>

Lists == [Jobs -> Statuses \cup {"none"}]
Empty == [j \in Jobs |-> "none"]
Length(list) == Cardinality({j \in Jobs : list[j] # "none"})

Created == {j \in Jobs : status[j] # "none"}

\* list_import_jobs: the newest first, ten of them.
Latest ==
    [j \in Jobs |-> IF Cardinality({k \in Created : k > j}) < Limit THEN status[j] ELSE "none"]

Idle == [at |-> "idle", act |-> "none", job |-> None, list |-> Empty]
\* fetchImportJobs, by the effect or the Refresh button; an action asks for the list in its own request.
Load == [at |-> "asked", act |-> "none", job |-> None, list |-> Empty]

UnderWay == {r \in Requests : request[r].act # "none"}

\* Cancel and Retry share one variable, Undo has another.
Kinds == {"row", "undo"}
Kind(act) == IF act \in RowActions THEN "row" ELSE "undo"
OfKind(k) == {r \in UnderWay : Kind(request[r].act) = k}
Disabled(k) == IF k = "row" THEN actionJob ELSE undoingJob

TypeOK ==
    /\ status \in Lists
    /\ shown \in Lists
    /\ polling \in BOOLEAN
    /\ actionJob \in Jobs \cup {None} /\ undoingJob \in Jobs \cup {None}
    /\ request \in [Requests -> [at : {"idle", "sent", "judged", "lost", "asked", "answered"},
                                act : Actions \cup {"none"}, job : Jobs \cup {None}, list : Lists]]
    /\ older \in [Requests -> SUBSET Requests]
    /\ unfollowed \in BOOLEAN /\ mixed \subseteq Kinds

\* The jobs are there in the order of their numbers.
InOrder == \A j \in Created, k \in Jobs : k < j => k \in Created

\* The page opens: the effect asks for the list.  The jobs are whatever they were.
Init ==
    /\ status \in Lists /\ InOrder
    /\ shown = Empty /\ polling = FALSE
    /\ actionJob = None /\ undoingJob = None
    /\ \E r \in Requests : request = [q \in Requests |-> IF q = r THEN Load ELSE Idle]
    /\ older = [r \in Requests |-> {}]
    /\ unfollowed = FALSE /\ mixed = {}

-----------------------------------------------------------------------------
(* The server.                                                               *)

\* Not followed by the page: a job that has ended and is active again, and one that pushes the oldest
\* off a full list.
GoesUnseen(j, s) ==
    \/ status[j] \in {"done", "stopped", "deleted"} /\ s = "active"
    \/ j \notin Created /\ Cardinality(Created) >= Limit

RowBecomes(j, s) ==
    /\ status' = [status EXCEPT ![j] = s]
    /\ unfollowed' = (unfollowed \/ GoesUnseen(j, s))

\* A new job, asynchronous or (done at once) synchronous.
Enters(j, s) ==
    /\ j \notin Created /\ \A k \in Jobs : k < j => k \in Created
    /\ s \in {"active", "done"}

\* A worker, or another admin (ImportRows says what they may do; it is less).
MayBecome(j, s) == j \in Created \/ Enters(j, s)

Elsewhere(j, s) ==
    /\ MayBecome(j, s)
    /\ RowBecomes(j, s)
    /\ UNCHANGED <<pageVars, request, older, mixed>>

\* The route of an action looks at the job before it writes.
Allowed(act, j) ==
    CASE act = "cancel" -> status[j] = "active"
      [] act = "retry" -> status[j] = "stopped"
      [] act = "undo" -> status[j] \notin {"none", "deleted"}

OutcomeMisspelt(act) ==  \* mutant
    CASE act = "cancel" -> "stopped"
      [] act = "retry" -> "active"
      [] act = "undo" -> "undone"
Outcome(act) ==
    CASE act = "cancel" -> "stopped"
      [] act = "retry" -> "active"
      [] act = "undo" -> "deleted"

-----------------------------------------------------------------------------
(* The list.                                                                 *)

Answer(r) ==
    /\ request[r].at = "asked"
    /\ request' = [request EXCEPT ![r].at = "answered", ![r].list = Latest]
    /\ older' = [older EXCEPT ![r] = {q \in Requests : request[q].at = "answered"}]
    /\ UNCHANGED <<status, pageVars, history>>

\* finally, of the handler that awaited this request.
Clear(act) ==
    /\ actionJob' = IF act \in RowActions THEN None ELSE actionJob
    /\ undoingJob' = IF act = "undo" THEN None ELSE undoingJob

\* A kind is told apart again when the last of its actions under way has ended.
Sorted(r) == mixed' = {k \in mixed : OfKind(k) \ {r} # {}}

\* The answer of r is awaited no more.
Arrived(r) == older' = [q \in Requests |-> IF q = r THEN {} ELSE older[q] \ {r}]

HasActive(list) == \E j \in Jobs : list[j] = "active"

\* The effect: its cleanup clears the interval, it asks for the list, and polls if it must.
EffectOfTheOldList(r, list) ==  \* mutant
    /\ polling' = HasActive(shown)
    /\ request' = [request EXCEPT ![r] = Load]
Effect(r, list) ==
    /\ polling' = HasActive(list)
    /\ request' = [request EXCEPT ![r] = Load]

\* setImportJobs.  The effect depends on the length of the list alone.
Show(r) ==
    /\ request[r].at = "answered"
    /\ shown' = request[r].list
    /\ Clear(request[r].act)
    /\ Arrived(r)
    /\ unfollowed' = (unfollowed \/ older[r] # {})
    /\ Sorted(r)
    /\ \/ /\ Length(shown') # Length(shown)
          /\ Effect(r, shown')
       \/ /\ Length(shown') = Length(shown)
          /\ request' = [request EXCEPT ![r] = Idle]
          /\ UNCHANGED polling
    /\ UNCHANGED status

\* The list is not got: the page logs it and goes on.
LoadFails(r) ==
    /\ request[r].at \in {"asked", "answered"}
    /\ Clear(request[r].act)
    /\ request' = [request EXCEPT ![r] = Idle]
    /\ Arrived(r)
    /\ Sorted(r)
    /\ UNCHANGED <<status, shown, polling, unfollowed>>

\* The interval fires; the user presses Refresh.
PollOnce(r) ==  \* mutant
    /\ polling
    /\ request[r] = Idle
    /\ request' = [request EXCEPT ![r] = Load]
    /\ polling' = FALSE
    /\ UNCHANGED <<status, shown, actionJob, undoingJob, older, history>>
Poll(r) ==
    /\ polling
    /\ request[r] = Idle
    /\ request' = [request EXCEPT ![r] = Load]
    /\ UNCHANGED <<status, pageVars, older, history>>

Refresh(r) ==
    /\ request[r] = Idle
    /\ request' = [request EXCEPT ![r] = Load]
    /\ UNCHANGED <<status, pageVars, older, history>>

-----------------------------------------------------------------------------
(* The actions of the page.                                                  *)

\* handleUpload: the job is there before the page asks for the list.
Upload(r) ==
    /\ request[r] = Idle
    /\ \E j \in Jobs, s \in Statuses : Enters(j, s) /\ RowBecomes(j, s)
    /\ request' = [request EXCEPT ![r] = Load]
    /\ UNCHANGED <<pageVars, older, mixed>>

\* handleCancelImport, handleRetryImport, handleUndoImport, from the buttons of the row.
EnabledAlways(act, j) ==  \* mutant
    CASE act = "cancel" -> shown[j] = "active"
      [] act = "retry" -> shown[j] = "stopped"
      [] act = "undo" -> shown[j] = "done"
Enabled(act, j) ==
    CASE act = "cancel" -> shown[j] = "active" /\ actionJob # j
      [] act = "retry" -> shown[j] = "stopped" /\ actionJob # j
      [] act = "undo" -> shown[j] = "done" /\ undoingJob # j

Press(r, act, j) ==
    /\ request[r] = Idle
    /\ Enabled(act, j)
    /\ request' = [request EXCEPT ![r] = [at |-> "sent", act |-> act, job |-> j, list |-> Empty]]
    /\ actionJob' = IF act \in RowActions THEN j ELSE actionJob
    /\ undoingJob' = IF act = "undo" THEN j ELSE undoingJob
    /\ mixed' = mixed \cup {Kind(request[q].act) :
                            q \in {p \in OfKind(Kind(act)) : request[p].job # j}}
    /\ UNCHANGED <<status, shown, polling, older, unfollowed>>

\* The route reads the job and lets the action through.
Judge(r) ==
    /\ request[r].at = "sent"
    /\ Allowed(request[r].act, request[r].job)
    /\ request' = [request EXCEPT ![r].at = "judged"]
    /\ UNCHANGED <<status, pageVars, older, history>>

\* It writes, whatever has become of the job, and answers, and the page asks for the list
\* (refreshJobs); or the answer is lost.  An undo answers even if it could not mark the job.
Write(r) ==
    /\ request[r].at = "judged"
    /\ \/ RowBecomes(request[r].job, Outcome(request[r].act))
       \/ request[r].act = "undo" /\ UNCHANGED <<status, unfollowed>>
    /\ \E s \in {"asked", "lost"} : request' = [request EXCEPT ![r].at = s]
    /\ UNCHANGED <<pageVars, older, mixed>>

\* Refused, failed or never answered: the page says so and does not ask for the list.
Fails(r) ==
    /\ request[r].at \in {"sent", "judged", "lost"}
    /\ Clear(request[r].act)
    /\ request' = [request EXCEPT ![r] = Idle]
    /\ Sorted(r)
    /\ UNCHANGED <<status, shown, polling, older, unfollowed>>

-----------------------------------------------------------------------------

List(r) == Answer(r) \/ Show(r) \/ LoadFails(r)
User(r) == Refresh(r) \/ Upload(r) \/ (\E act \in Actions, j \in Jobs : Press(r, act, j))

Next ==
    \/ \E j \in Jobs, s \in Statuses : Elsewhere(j, s)
    \/ \E r \in Requests : List(r) \/ Poll(r) \/ User(r) \/ Judge(r) \/ Write(r) \/ Fails(r)

Spec == Init /\ [][Next]_vars

\* The interval fires, an action ends, and a list asked for again and again is got in the end.
Fairness ==
    /\ \A r \in Requests : WF_vars(Fails(r))
    /\ SF_vars(\E r \in Requests : Poll(r))
    /\ SF_vars(\E r \in Requests : Answer(r))
    /\ SF_vars(\E r \in Requests : Show(r))

FairSpec == Spec /\ Fairness

-----------------------------------------------------------------------------

\* Whatever shows as active is being watched: the next look at the job does not depend on the user.
\* The interval is set only when the length changes, so this is about every list that arrives later.
\* Not followed are a job that becomes active again (a retry, of the admin or of a worker that held a
\* job cancelled meanwhile) and a new job on a full list, which leave the length as it is, and a list
\* that arrives after a newer one.
ActiveIsWatched == HasActive(shown) => polling \/ unfollowed

\* A button is disabled only on behalf of an action under way on its own row.  Until actions of its kind
\* are under way on two rows at once, it is disabled all that time and no action is sent a second time
\* before the first has ended; when they are, the one variable names the later row alone and the first
\* to end clears it, so nothing more is promised until the last of them has ended.
ButtonsFollow ==
    \A k \in Kinds :
        /\ Disabled(k) # None => \E r \in OfKind(k) : request[r].job = Disabled(k)
        /\ k \in mixed \/ \A r \in OfKind(k) : OfKind(k) = {r} /\ Disabled(k) = request[r].job

\* A job that has ended does not show as active for ever.
ListCatchesUp ==
    \A j \in Jobs :
        (shown[j] = "active" /\ status[j] # "active") ~>
            (shown[j] # "active" \/ status[j] = "active" \/ unfollowed)
=============================================================================
