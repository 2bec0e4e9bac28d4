------------------------------- MODULE ImportRows -------------------------------
(***************************************************************************)
(* The rows of import_jobs as the API and its pages can tell them apart: a  *)
(* job is active (queued, processing: it can be cancelled), done (it can be *)
(* undone), stopped (failed, cancelled: it can be retried) or deleted.      *)
(*                                                                         *)
(* Whoever changes a row has a title to it, and may use it late: a worker   *)
(* that took the job while it was active writes what it likes for as long   *)
(* as it holds it, and a request that the API has let through writes its    *)
(* outcome over whatever is there by then.  Nothing else moves a row.       *)
(***************************************************************************)
EXTENDS Naturals

CONSTANT NJobs

VARIABLES
    row,        \* of each job, by number
    held,       \* jobs in the hands of a worker
    judged      \* what the API has let through and not yet answered

rvars == <<row, held, judged>>

Jobs == 1..NJobs
Requested == {"cancel", "retry", "undo"}

\* The route looks at the job before it writes.
Allowed(op, s) ==
    CASE op = "cancel" -> s = "active"
      [] op = "retry" -> s = "stopped"
      [] op = "undo" -> s \notin {"none", "deleted"}

Outcome(op) ==
    CASE op = "cancel" -> "stopped"
      [] op = "retry" -> "active"
      [] op = "undo" -> "deleted"

Init ==
    /\ row = [j \in Jobs |-> "none"]
    /\ held = {} /\ judged = {}

Upload(j) ==
    /\ row[j] = "none" /\ \A i \in 1..(j - 1) : row[i] # "none"
    /\ row' = [row EXCEPT ![j] = "active"]
    /\ UNCHANGED <<held, judged>>

Take(j) ==
    /\ row[j] = "active"
    /\ held' = held \cup {j}
    /\ UNCHANGED <<row, judged>>

\* Another worker may hold the job too; and a write whose call raises is written all the same.
WorkerWrites(j) ==
    /\ j \in held
    /\ \E s \in {"active", "done", "stopped"} : row' = [row EXCEPT ![j] = s]
    /\ held' \in {held, held \ {j}}
    /\ UNCHANGED judged

LetGo(j) ==
    /\ held' = held \ {j}
    /\ UNCHANGED <<row, judged>>

Judge(op, j) ==
    /\ Allowed(op, row[j])
    /\ judged' = judged \cup {<<op, j>>}
    /\ UNCHANGED <<row, held>>

\* Another request of the same kind may be under way for the same job.
CarryOut(op, j) ==
    /\ <<op, j>> \in judged
    /\ row' = [row EXCEPT ![j] = Outcome(op)]
    /\ judged' \in {judged, judged \ {<<op, j>>}}
    /\ UNCHANGED held

Drop(op, j) ==
    /\ judged' = judged \ {<<op, j>>}
    /\ UNCHANGED <<row, held>>

Next == \E j \in Jobs :
    \/ Upload(j) \/ Take(j) \/ WorkerWrites(j) \/ LetGo(j)
    \/ \E op \in Requested : Judge(op, j) \/ CarryOut(op, j) \/ Drop(op, j)

Spec == Init /\ [][Next]_rvars

=================================================================================
