------------------------------- MODULE TeamSeats -------------------------------
(***************************************************************************)
(* Seats of one workspace: the team endpoints (api/v1/team.py), the          *)
(* reservation of a seat in the database (reserve_team_invite) and the       *)
(* members a plan downgrade locks (plan_downgrade.py).                       *)
(*                                                                         *)
(* A request is what one handler does; its steps are the database calls it   *)
(* makes, and other requests run between them.  Checks on reading that       *)
(* nothing can undo before the write are part of the write.                  *)
(*                                                                         *)
(* A seat is held by an active member or by the address of a pending         *)
(* invitation that has not run out.  reserves_seat is TRUE exactly while an  *)
(* invitation is pending, and has no variable; an invitation that is         *)
(* accepted, cancelled or expired is over, which is all that any reader of   *)
(* its status tells apart, and its other columns are read no more but for    *)
(* its address.                                                             *)
(*                                                                         *)
(* Left out: the members superadmins suspend or activate, and roles.  The    *)
(* founder has the role owner, which no request of the workspace changes:    *)
(* there always is somebody allowed to make these requests.                  *)
(***************************************************************************)
EXTENDS Integers, FiniteSets

CONSTANTS
    People, Owner,   \* accounts; one of them founded the workspace
    Invites,         \* rows of team_invites
    Requests,        \* requests under way at a time
    High, Low,       \* seats of the plan before and after a downgrade
    OwnerRecorded,   \* tenants.owner_user_id is set; only migration 018 ever sets it
    MaxTorn,         \* bound on torn
    None

ASSUME TeamAssumption ==
    /\ Owner \in People /\ IsFiniteSet(People) /\ IsFiniteSet(Invites)
    /\ High \in Nat /\ Low \in Nat /\ 1 <= Low /\ Low <= High
    /\ OwnerRecorded \in BOOLEAN /\ MaxTorn \in Nat /\ None \notin People \cup Invites

VARIABLES
    limit,           \* seats of the plan the workspace is on
    member,          \* membership_status of those whose tenant_id is the workspace
    status, email,   \* columns of an invitation: status, email_normalized
    live,            \* its expires_at lies ahead
    mailed,          \* its invite_token has been mailed
    req,             \* requests under way
    joins,           \* history: how often somebody came in by an invitation
    torn,            \* history: acceptances of it that stopped before marking it, or
                     \* overlapped the removal of whom it is for
    unsent,          \* history: invitations that lack a mail of their link since they were
                     \* invited again, the mail failed or the request that made them stopped
    excused          \* history: something happened that SeatsHold excuses

inviteVars == <<status, email, live, mailed>>
history == <<joins, torn, unsent>>
vars == <<limit, member, inviteVars, req, history, excused>>

Idle == [op |-> "idle", who |-> None, inv |-> None, fresh |-> FALSE, todo |-> {}]
Ops == {"idle", "insert", "token", "token existing", "reread", "mail", "resend", "join", "mark",
        "reactivate", "lock", "downgrade"}

TypeOK ==
    /\ limit \in {High, Low}
    /\ member \in [People -> {"none", "active", "seat_locked"}]
    /\ status \in [Invites -> {"none", "pending", "over"}]
    /\ email \in [Invites -> People \cup {None}]
    /\ live \in [Invites -> BOOLEAN] /\ mailed \in [Invites -> BOOLEAN]
    /\ req \in [Requests -> [op : Ops, who : People \cup {None}, inv : Invites \cup {None},
                             fresh : BOOLEAN, todo : SUBSET People]]
    /\ joins \in [Invites -> Nat] /\ torn \in [Invites -> Nat]
    /\ unsent \subseteq Invites /\ excused \in BOOLEAN

Init ==
    /\ limit = High
    /\ member = [p \in People |-> IF p = Owner THEN "active" ELSE "none"]
    /\ status = [i \in Invites |-> "none"] /\ email = [i \in Invites |-> None]
    /\ live = [i \in Invites |-> FALSE] /\ mailed = [i \in Invites |-> FALSE]
    /\ req = [r \in Requests |-> Idle]
    /\ joins = [i \in Invites |-> 0] /\ torn = [i \in Invites |-> 0]
    /\ unsent = {} /\ excused = FALSE

Active == {p \in People : member[p] = "active"}
Pending == {i \in Invites : status[i] = "pending"}
Reserved == {i \in Pending : live[i]}
Overdue == Pending \ Reserved

OccupiedByMembers == Cardinality(Active)

\* count_occupied_seats
Occupied == Cardinality(Active) + Cardinality(Reserved)

\* Requests between the reading of what they rely on and the last write that relies on it.
Giving(r) == req[r].op \in {"insert", "reactivate", "join", "downgrade"}
Joining(r) == req[r].op \in {"join", "mark"}
Mailing(r, i) == req[r].op \in {"token", "reread", "mail"} /\ req[r].inv = i
Alone(r) == \A s \in Requests \ {r} : ~Giving(s)

Accepting(i) == \E r \in Requests : Joining(r) /\ req[r].inv = i

Note(what) == excused' = (excused \/ what)
Tear(rows) == torn' = [i \in Invites |-> IF i \in rows THEN torn[i] + 1 ELSE torn[i]]
Begin(r, q) == req[r] = Idle /\ req' = [req EXCEPT ![r] = q]
At(r, op) == req[r].op = op
Continue(r, op) == req' = [req EXCEPT ![r].op = op]
End(r) == req' = [req EXCEPT ![r] = Idle]

-------------------------------------------------------------------------------
(* POST /team/invite *)

Close(rows) ==
    /\ status' = [i \in Invites |-> IF i \in rows THEN "over" ELSE status[i]]
    /\ live' = [i \in Invites |-> live[i] /\ i \notin rows]
    /\ mailed' = [i \in Invites |-> mailed[i] /\ i \notin rows]
    /\ UNCHANGED email

\* reserve_team_invite finds a pending invitation to that address.
InviteAgain(r, p) ==
    /\ \E i \in Reserved : email[i] = p /\ Begin(r, [Idle EXCEPT !.op = "token existing", !.inv = i])
    /\ Close(Overdue)
    /\ UNCHANGED <<limit, member, history, excused>>

\* It finds none and counts; without a free seat all is rolled back.  The count sees
\* what is committed, and takes no lock.
InviteCount(r, p) ==
    /\ \A i \in Reserved : email[i] # p
    /\ Occupied < limit
    /\ Begin(r, [Idle EXCEPT !.op = "insert", !.who = p])
    /\ Note(~Alone(r))
    /\ UNCHANGED <<limit, member, inviteVars, history>>

\* It inserts, unless uq_team_invites_pending_email has another by now; commit.
InviteInsert(r) ==
    /\ At(r, "insert")
    /\ IF \E i \in Reserved : email[i] = req[r].who
       THEN End(r) /\ UNCHANGED inviteVars
       ELSE \E i \in Invites :
              /\ status[i] = "none"
              /\ status' = [j \in Invites |-> IF j = i THEN "pending"
                                              ELSE IF j \in Overdue THEN "over" ELSE status[j]]
              /\ email' = [email EXCEPT ![i] = req[r].who]
              /\ live' = [live EXCEPT ![i] = TRUE]
              /\ mailed' = [j \in Invites |-> mailed[j] /\ j \notin Overdue]
              /\ req' = [req EXCEPT ![r] = [Idle EXCEPT !.op = "token", !.inv = i]]
    /\ UNCHANGED <<limit, member, history, excused>>

\* A new token and expiry, for a found invitation as for a new one; whoever has read the
\* row before mails a token that is no more.  The link of a found one is not mailed.
InviteToken(r) ==
    /\ At(r, "token") \/ At(r, "token existing")
    /\ LET i == req[r].inv IN
       /\ mailed' = [mailed EXCEPT ![i] = FALSE]
       /\ live' = [live EXCEPT ![i] = i \in Pending]
       /\ req' = [s \in Requests |->
                    IF s = r THEN IF At(r, "token") THEN [req[r] EXCEPT !.op = "reread"] ELSE Idle
                    ELSE IF req[s].inv = i THEN [req[s] EXCEPT !.fresh = FALSE] ELSE req[s]]
       /\ unsent' = IF At(r, "token") THEN unsent ELSE unsent \cup {i}
    /\ Note(req[r].inv \in Overdue)
    /\ UNCHANGED <<limit, member, status, email, joins, torn>>

\* What it mails is what it reads back.
InviteReread(r) ==
    /\ At(r, "reread")
    /\ req' = [req EXCEPT ![r].op = "mail", ![r].fresh = TRUE]
    /\ UNCHANGED <<limit, member, inviteVars, history, excused>>

\* A mail with the link of a token read before, if it goes out: _send may fail, and only
\* says so in the log.
Mail(r) ==
    LET i == req[r].inv IN
    /\ mailed' \in {mailed, [mailed EXCEPT ![i] = i \in Pending /\ (@ \/ req[r].fresh)]}
    /\ unsent' = IF mailed'[i] THEN unsent \ {i}
                 ELSE IF At(r, "mail") /\ req[r].fresh THEN unsent \cup {i} ELSE unsent

InviteMailOld(r) ==
    /\ At(r, "mail")
    /\ End(r)
    /\ UNCHANGED <<limit, member, inviteVars, history, excused>>

InviteMail(r) ==
    /\ At(r, "mail")
    /\ Mail(r)
    /\ End(r)
    /\ UNCHANGED <<limit, member, status, email, live, joins, torn, excused>>

-------------------------------------------------------------------------------
(* Resend, cancel, accept *)

ResendRead(r, i) ==
    /\ i \in Pending
    /\ Begin(r, [Idle EXCEPT !.op = "resend", !.inv = i, !.fresh = TRUE])
    /\ UNCHANGED <<limit, member, inviteVars, history, excused>>

\* The row is updated by its id alone, and the token read before is mailed.
ResendWrite(r) ==
    /\ At(r, "resend")
    /\ LET i == req[r].inv IN
       /\ live' = [live EXCEPT ![i] = i \in Pending]
       /\ Note(i \in Overdue)
    /\ Mail(r)
    /\ End(r)
    /\ UNCHANGED <<limit, member, status, email, joins, torn>>

Cancel(i) ==
    /\ i \in Pending
    /\ Close({i})
    /\ Note(Accepting(i))
    /\ UNCHANGED <<limit, member, req, history>>

\* accept_invite up to its first write: the link is the current one, the address the
\* user's, and the user in no workspace.
AcceptRead(r, i) ==
    /\ i \in Reserved /\ mailed[i]
    /\ member[email[i]] = "none"
    /\ Begin(r, [Idle EXCEPT !.op = "join", !.inv = i])
    /\ Note(~Alone(r))
    /\ UNCHANGED <<limit, member, inviteVars, history>>

AcceptExpired(i) ==
    /\ i \in Overdue /\ mailed[i]
    /\ Close({i})
    /\ UNCHANGED <<limit, member, req, history, excused>>

AcceptJoin(r) ==
    /\ At(r, "join")
    /\ LET i == req[r].inv IN
       /\ member' = [member EXCEPT ![email[i]] = "active"]
       /\ joins' = [joins EXCEPT ![i] = IF member[email[i]] = "none" THEN @ + 1 ELSE @]
    /\ Continue(r, "mark")
    /\ UNCHANGED <<limit, inviteVars, torn, unsent, excused>>

AcceptMarkForgotten(r) ==
    /\ At(r, "mark")
    /\ End(r)
    /\ UNCHANGED <<limit, member, inviteVars, history, excused>>

\* By the id of the invitation, whatever it has become.
AcceptMark(r) ==
    /\ At(r, "mark")
    /\ Close({req[r].inv})
    /\ End(r)
    /\ UNCHANGED <<limit, member, history, excused>>

-------------------------------------------------------------------------------
(* Members *)

Remove(p) ==
    /\ p # Owner /\ member[p] # "none"
    /\ member' = [member EXCEPT ![p] = "none"]
    /\ LET rows == {i \in Invites : email[i] = p /\ Accepting(i)} IN
       /\ \A i \in rows : torn[i] < MaxTorn
       /\ Tear(rows)
       /\ Note(rows # {})
    /\ UNCHANGED <<limit, inviteVars, req, joins, unsent>>

ReactivateCount(r, p) ==
    /\ member[p] # "none"
    /\ Occupied < limit
    /\ Begin(r, [Idle EXCEPT !.op = "reactivate", !.who = p])
    /\ Note(~Alone(r))
    /\ UNCHANGED <<limit, member, inviteVars, history>>

ReactivateWrite(r) ==
    /\ At(r, "reactivate")
    /\ member' = [member EXCEPT ![req[r].who] = IF @ = "none" THEN @ ELSE "active"]
    /\ End(r)
    /\ UNCHANGED <<limit, inviteVars, history, excused>>

\* POST /team/downgrade-seat-selection: the members the admin does not keep.
SelectRead(r, keep) ==
    /\ Begin(r, [Idle EXCEPT !.op = "lock", !.todo = Active \ keep])
    /\ UNCHANGED <<limit, member, inviteVars, history, excused>>

LockMisspelt(r, p) ==
    /\ At(r, "lock") \/ At(r, "downgrade")
    /\ p \in req[r].todo
    /\ member' = [member EXCEPT ![p] = IF @ = "none" THEN @ ELSE "locked"]
    /\ req' = [req EXCEPT ![r].todo = @ \ {p}]
    /\ UNCHANGED <<limit, inviteVars, history, excused>>

\* One round of either loop; a member removed in the meantime stays removed.
Lock(r, p) ==
    /\ At(r, "lock") \/ At(r, "downgrade")
    /\ p \in req[r].todo
    /\ member' = [member EXCEPT ![p] = IF @ = "none" THEN @ ELSE "seat_locked"]
    /\ req' = [req EXCEPT ![r].todo = @ \ {p}]
    /\ UNCHANGED <<limit, inviteVars, history, excused>>

SelectEnd(r) ==
    /\ At(r, "lock") /\ req[r].todo = {}
    /\ End(r)
    /\ UNCHANGED <<limit, member, inviteVars, history, excused>>

\* apply_plan_downgrade: whom it keeps, the owner if the workspace names one and then
\* members as the database lists them.
Keeps ==
    LET first == IF OwnerRecorded THEN {Owner} ELSE {}
    IN {K \in SUBSET (Active \cup first) :
          /\ first \subseteq K
          /\ Cardinality(K) <= Low
          /\ Cardinality(K) = Low \/ Active \subseteq K}

DowngradeRead(r) ==
    /\ \E K \in Keeps : Begin(r, [Idle EXCEPT !.op = "downgrade", !.todo = Active \ K])
    /\ Note(~Alone(r))
    /\ UNCHANGED <<limit, member, inviteVars, history>>

\* The plan; invitations stay as they are.
DowngradePlan(r) ==
    /\ At(r, "downgrade") /\ req[r].todo = {}
    /\ limit' = Low
    /\ End(r)
    /\ Note(Pending # {})
    /\ UNCHANGED <<member, inviteVars, history>>

Upgrade ==
    /\ limit' = High
    /\ UNCHANGED <<member, inviteVars, req, history, excused>>

-------------------------------------------------------------------------------

\* A call fails or the process dies: the request stops where it is.
RequestFails(r) ==
    /\ req[r] # Idle
    /\ End(r)
    /\ IF At(r, "mark") THEN torn[req[r].inv] < MaxTorn /\ Tear({req[r].inv}) ELSE UNCHANGED torn
    /\ unsent' = IF \E i \in Invites : Mailing(r, i) THEN unsent \cup {req[r].inv} ELSE unsent
    /\ UNCHANGED <<limit, member, inviteVars, joins, excused>>

RunsOut(i) ==
    /\ i \in Reserved
    /\ live' = [live EXCEPT ![i] = FALSE]
    /\ Note(Accepting(i))
    /\ UNCHANGED <<limit, member, status, email, mailed, req, history>>

Starts(r) ==
    \/ \E p \in People : InviteAgain(r, p) \/ InviteCount(r, p) \/ ReactivateCount(r, p)
    \/ \E i \in Invites : ResendRead(r, i) \/ AcceptRead(r, i)
    \/ \E keep \in SUBSET People : SelectRead(r, keep)
    \/ DowngradeRead(r)

Continues(r) ==
    \/ InviteInsert(r) \/ InviteToken(r) \/ InviteReread(r) \/ InviteMail(r) \/ ResendWrite(r)
    \/ AcceptJoin(r) \/ AcceptMark(r) \/ ReactivateWrite(r)
    \/ \E p \in People : Lock(r, p)
    \/ SelectEnd(r) \/ DowngradePlan(r) \/ RequestFails(r)

Next ==
    \/ \E r \in Requests : Starts(r) \/ Continues(r)
    \/ \E i \in Invites : Cancel(i) \/ AcceptExpired(i) \/ RunsOut(i)
    \/ \E p \in People : Remove(p)
    \/ Upgrade

Spec == Init /\ [][Next]_vars

-------------------------------------------------------------------------------
(* Properties *)

Holders == Active \cup {email[i] : i \in Reserved}

\* Nobody fills more seats than the plan has, in spite of requests that stop halfway, unless
\* a request that relies on a free seat overlaps another, an invitation is cancelled or runs
\* out or its person is removed while it is being accepted, an invitation that had run out is
\* revived, or a downgrade finds invitations pending.
SeatsHold == ~excused => Cardinality(Holders) <= limit

\* An invitation lets its person in once, and once more for every acceptance that stopped
\* between the profile and the invitation, or that a removal of the person overlapped:
\* whatever else overlaps, and however often the person is removed at other times.
OneJoinPerInvite == \A i \in Invites : joins[i] <= 1 + torn[i]

\* The link of a pending invitation has been mailed, or the request that made it is about to
\* mail it.  Only three things leave it dead, until a mail of the current link goes out:
\* inviting the address again, a mail that fails, and a request that stops before its mail.
LinkReaches ==
    \A i \in Pending : mailed[i] \/ i \in unsent \/ \E r \in Requests : Mailing(r, i)

===============================================================================
