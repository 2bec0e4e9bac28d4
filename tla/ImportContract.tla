----------------------------- MODULE ImportContract -----------------------------
(***************************************************************************)
(* What an asynchronous import promises its admin, with no workers, claims  *)
(* or heartbeats in sight: batches arrive one by one and only an undo takes *)
(* them away; "completed" is said only of a file that is all there.  It     *)
(* promises no more than that: an answer once given may be overtaken by     *)
(* another one, because the job row is written by id.                       *)
(***************************************************************************)
EXTENDS Naturals

CONSTANTS NJobs, NBatches

VARIABLES phase, loaded, withdrawn

cvars == <<phase, loaded, withdrawn>>

Uploads == 1..NJobs
File == 1..NBatches

Init ==
    /\ phase = [j \in Uploads |-> "absent"]
    /\ loaded = [j \in Uploads |-> {}]
    /\ withdrawn = {}

\* The file is accepted, or put back for another attempt.
Enqueue(j) ==
    /\ phase' = [phase EXCEPT ![j] = "pending"]
    /\ UNCHANGED <<loaded, withdrawn>>

Load(j, b) ==
    /\ phase[j] # "absent"
    /\ loaded' = [loaded EXCEPT ![j] = @ \cup {b}]
    /\ UNCHANGED <<phase, withdrawn>>

Publish(j) ==
    /\ loaded[j] = File \/ j \in withdrawn
    /\ phase' = [phase EXCEPT ![j] = "completed"]
    /\ UNCHANGED <<loaded, withdrawn>>

GiveUp(j, why) ==
    /\ phase[j] # "absent"
    /\ why = "deleted" => j \in withdrawn
    /\ phase' = [phase EXCEPT ![j] = why]
    /\ UNCHANGED <<loaded, withdrawn>>

Withdraw(j) ==
    /\ phase[j] # "absent"
    /\ loaded' \in {loaded, [loaded EXCEPT ![j] = {}]}
    /\ withdrawn' = withdrawn \cup {j}
    /\ UNCHANGED phase

Next == \E j \in Uploads :
    \/ Enqueue(j)
    \/ \E b \in File : Load(j, b)
    \/ Publish(j)
    \/ \E why \in {"failed", "cancelled", "deleted"} : GiveUp(j, why)
    \/ Withdraw(j)

Spec == Init /\ [][Next]_cvars

===============================================================================
