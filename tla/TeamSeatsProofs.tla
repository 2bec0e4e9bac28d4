----------------------------- MODULE TeamSeatsProofs -----------------------------
(***************************************************************************)
(* What TeamSeats guarantees for any people, invitations and requests.        *)
(* LinkReaches holds because whoever takes the link of an invitation away      *)
(* without mailing the new one is one of the three things it names; LinkComes  *)
(* adds that a request about to mail the link has read the current one.        *)
(*                                                                         *)
(* OneJoinPerInvite counts: JoinsPaid says that an invitation let in one more  *)
(* than it lost acceptances only while it is used up, that is while its person *)
(* is of the workspace and it is about to be marked, or it is over and nobody  *)
(* joins by it any more.                                                      *)
(*                                                                         *)
(* SeatsHold follows from SeatInv: as long as requests do not overlap, one at  *)
(* a time has seen a seat free and has not taken it yet (OneGiver), and Room   *)
(* counts that seat as taken.                                                *)
(***************************************************************************)
EXTENDS TeamSeats, FiniteSetTheorems, TLAPS

\* A request on its way to mail the link of i will mail the current one.
Sends(r, i) == Mailing(r, i) /\ (At(r, "mail") => req[r].fresh)

LinkComes == \A i \in Pending : mailed[i] \/ i \in unsent \/ \E r \in Requests : Sends(r, i)

\* A request that is past finding or making an invitation, or accepts one, knows which.
Referring(r) == req[r].op \in {"token", "token existing", "reread", "mail", "join", "mark"}
RowsKnown == \A r \in Requests : Referring(r) => req[r].inv \in Invites

TypeInv == TypeOK /\ RowsKnown

RequestType == [op : Ops, who : People \cup {None}, inv : Invites \cup {None},
                fresh : BOOLEAN, todo : SUBSET People]

-------------------------------------------------------------------------------

\* A table of truth values stays one.
LEMMA BoolExcept ==
  ASSUME NEW S, NEW f \in [S -> BOOLEAN], NEW i, NEW b \in BOOLEAN
  PROVE  [f EXCEPT ![i] = b] \in [S -> BOOLEAN]
OBVIOUS

\* Updates of requests keep to the type.
LEMMA IdleType == Idle \in RequestType
BY DEF Idle, RequestType, Ops

LEMMA BeginType ==
  ASSUME TypeOK, NEW r \in Requests, NEW q \in RequestType, Begin(r, q)
  PROVE  req' \in [Requests -> RequestType]
BY DEF TypeOK, Begin, RequestType

LEMMA EndType ==
  ASSUME TypeOK, NEW r \in Requests, End(r)
  PROVE  req' \in [Requests -> RequestType]
BY IdleType DEF TypeOK, End, RequestType

LEMMA CloseType ==
  ASSUME TypeOK, NEW rows \in SUBSET Invites, Close(rows)
  PROVE  /\ status' \in [Invites -> {"none", "pending", "over"}]
         /\ email' \in [Invites -> People \cup {None}]
         /\ live' \in [Invites -> BOOLEAN] /\ mailed' \in [Invites -> BOOLEAN]
<1>1. email' \in [Invites -> People \cup {None}]
  BY DEF TypeOK, Close
<1>2. status' \in [Invites -> {"none", "pending", "over"}]
  BY DEF TypeOK, Close
<1>3. live' \in [Invites -> BOOLEAN] /\ mailed' \in [Invites -> BOOLEAN]
  BY Zenon DEF TypeOK, Close
<1> QED
  BY <1>1, <1>2, <1>3

\* A mail, sent or not, leaves a table of what has been mailed.
LEMMA MailType ==
  ASSUME TypeOK, NEW r \in Requests, Mail(r)
  PROVE  mailed' \in [Invites -> BOOLEAN]
<1> DEFINE i == req[r].inv
<1>1. mailed \in [Invites -> BOOLEAN]
  BY DEF TypeOK
<1>2. mailed' = mailed \/ mailed' = [mailed EXCEPT ![i] = i \in Pending /\ (mailed[i] \/ req[r].fresh)]
  BY DEF Mail
<1>3. (i \in Pending /\ (mailed[i] \/ req[r].fresh)) \in BOOLEAN
  OBVIOUS
<1> HIDE DEF i
<1> QED
  BY <1>1, <1>2, <1>3, BoolExcept, Zenon

-------------------------------------------------------------------------------

\* The counts count on, and every request that is known to mail nothing has an invitation.
LEMMA HistoryStep ==
  ASSUME TypeInv, [Next]_vars
  PROVE  /\ joins' \in [Invites -> Nat] /\ torn' \in [Invites -> Nat]
         /\ unsent' \in SUBSET Invites /\ excused' \in BOOLEAN
<1>1. /\ joins \in [Invites -> Nat] /\ torn \in [Invites -> Nat]
      /\ unsent \in SUBSET Invites /\ excused \in BOOLEAN
      /\ \A r \in Requests : At(r, "token") \/ At(r, "token existing") \/ At(r, "mail")
                             => req[r].inv \in Invites
  BY DEF TypeInv, RowsKnown, TypeOK, Referring, At
<1>2. joins' \in [Invites -> Nat]
  <2>1. joins' = joins \/ \E r \in Requests : AcceptJoin(r)
    BY DEF Next, Starts, Continues, InviteAgain, InviteCount, ReactivateCount, ResendRead, AcceptRead,
       SelectRead, DowngradeRead, InviteInsert, InviteToken, InviteReread, InviteMail, ResendWrite,
       AcceptMark, ReactivateWrite, Lock, SelectEnd, DowngradePlan, RequestFails, Cancel,
       AcceptExpired, RunsOut, Remove, Upgrade, vars, history
  <2>2. ASSUME NEW r \in Requests, AcceptJoin(r) PROVE joins' \in [Invites -> Nat]
    <3> DEFINE j == req[r].inv
               n == IF member[email[j]] = "none" THEN joins[j] + 1 ELSE joins[j]
    <3>1. joins' = [joins EXCEPT ![j] = n]
      BY <2>2 DEF AcceptJoin
    <3>2. j \in Invites
      BY <2>2 DEF AcceptJoin, At, TypeInv, RowsKnown, Referring
    <3>3. n \in Nat
      <4>1. joins[j] \in Nat
        BY <1>1, <3>2
      <4>2. joins[j] + 1 \in Nat
        BY <4>1
      <4> HIDE DEF j
      <4> QED
        BY <4>1, <4>2, Zenon
    <3> HIDE DEF n, j
    <3> QED
      BY <1>1, <3>1, <3>2, <3>3
  <2> QED
    BY <1>1, <2>1, <2>2
<1>3. torn' \in [Invites -> Nat]
  <2>1. torn' = torn \/ \E rows : Tear(rows)
    BY DEF Next, Starts, Continues, InviteAgain, InviteCount, ReactivateCount, ResendRead, AcceptRead,
       SelectRead, DowngradeRead, InviteInsert, InviteToken, InviteReread, InviteMail, ResendWrite,
       AcceptJoin, AcceptMark, ReactivateWrite, Lock, SelectEnd, DowngradePlan, RequestFails, Cancel,
       AcceptExpired, RunsOut, Remove, Upgrade, vars, history
  <2>2. ASSUME NEW rows, Tear(rows) PROVE torn' \in [Invites -> Nat]
    <3>1. \A i \in Invites : torn[i] \in Nat
      BY <1>1
    <3>2. \A i \in Invites : torn[i] + 1 \in Nat
      BY <3>1
    <3>3. \A i \in Invites : (IF i \in rows THEN torn[i] + 1 ELSE torn[i]) \in Nat
      BY <3>1, <3>2, Zenon
    <3> QED
      BY <2>2, <3>3 DEF Tear
  <2> QED
    BY <1>1, <2>1, <2>2
<1>4. unsent' \in SUBSET Invites
  <2>1. ASSUME NEW r \in Requests, InviteMail(r) \/ ResendWrite(r) PROVE unsent' \in SUBSET Invites
    BY <1>1, <2>1 DEF InviteMail, ResendWrite, Mail
  <2>2. ASSUME NEW r \in Requests, InviteToken(r) \/ RequestFails(r)
        PROVE  unsent' \in SUBSET Invites
    BY <1>1, <2>2 DEF InviteToken, RequestFails, Mailing
  <2>3. \/ unsent' = unsent
        \/ \E r \in Requests : InviteMail(r) \/ ResendWrite(r) \/ InviteToken(r) \/ RequestFails(r)
    BY DEF Next, Starts, Continues, InviteAgain, InviteCount, ReactivateCount, ResendRead, AcceptRead,
       SelectRead, DowngradeRead, InviteInsert, InviteReread, AcceptJoin, AcceptMark, ReactivateWrite,
       Lock, SelectEnd, DowngradePlan, Cancel, AcceptExpired, RunsOut, Remove, Upgrade, vars, history
  <2> QED
    BY <1>1, <2>1, <2>2, <2>3
<1>5. excused' \in BOOLEAN
  <2>1. ASSUME NEW what, Note(what) PROVE excused' \in BOOLEAN
    BY <2>1, Zenon DEF Note
  <2>2. excused' = excused \/ \E what : Note(what)
    BY DEF Next, Starts, Continues, InviteAgain, InviteCount, ReactivateCount, ResendRead, AcceptRead,
       SelectRead, DowngradeRead, InviteInsert, InviteToken, InviteReread, InviteMail, ResendWrite,
       AcceptJoin, AcceptMark, ReactivateWrite, Lock, SelectEnd, DowngradePlan, RequestFails, Cancel,
       AcceptExpired, RunsOut, Remove, Upgrade, vars
  <2> QED
    BY <1>1, <2>1, <2>2
<1> QED
  BY <1>2, <1>3, <1>4, <1>5

-------------------------------------------------------------------------------

\* Every variable keeps to its type.
LEMMA TypeStep == TypeInv /\ [Next]_vars => TypeOK'
<1> SUFFICES ASSUME TypeInv, [Next]_vars PROVE TypeOK'
  OBVIOUS
<1> USE DEF TypeInv
<1>1. /\ limit \in {High, Low}
      /\ member \in [People -> {"none", "active", "seat_locked"}]
      /\ status \in [Invites -> {"none", "pending", "over"}]
      /\ email \in [Invites -> People \cup {None}]
      /\ live \in [Invites -> BOOLEAN] /\ mailed \in [Invites -> BOOLEAN]
      /\ req \in [Requests -> RequestType]
  BY DEF TypeOK, RequestType
<1>2. Overdue \in SUBSET Invites /\ Pending \in SUBSET Invites /\ Reserved \in SUBSET Pending
      /\ Active \in SUBSET People
  BY DEF Overdue, Reserved, Pending, Active
<1>3. /\ joins' \in [Invites -> Nat] /\ torn' \in [Invites -> Nat]
      /\ unsent' \in SUBSET Invites /\ excused' \in BOOLEAN
  BY HistoryStep
<1>4. \A r \in Requests : req[r].who \in People \cup {None} /\ req[r].inv \in Invites \cup {None}
                         /\ req[r].todo \in SUBSET People /\ req[r].fresh \in BOOLEAN
  BY <1>1 DEF RequestType
<1>5. ASSUME NEW r \in Requests, Starts(r) PROVE TypeOK'
  <2>1. ASSUME NEW p \in People, InviteAgain(r, p) PROVE TypeOK'
    <3>1. PICK i \in Reserved : Begin(r, [Idle EXCEPT !.op = "token existing", !.inv = i])
      BY <2>1 DEF InviteAgain
    <3>2. [Idle EXCEPT !.op = "token existing", !.inv = i] \in RequestType
      BY <1>2, <3>1 DEF Idle, RequestType, Ops
    <3>3. req' \in [Requests -> RequestType]
      BY <3>1, <3>2, BeginType
    <3> QED
      BY <1>1, <1>2, <1>3, <2>1, <3>3, CloseType DEF TypeOK, InviteAgain, RequestType
  <2>2. ASSUME NEW p \in People, InviteCount(r, p) PROVE TypeOK'
    <3>1. [Idle EXCEPT !.op = "insert", !.who = p] \in RequestType
      BY DEF Idle, RequestType, Ops
    <3> QED
      BY <1>1, <1>3, <2>2, <3>1, BeginType DEF TypeOK, InviteCount, RequestType, inviteVars
  <2>3. ASSUME NEW p \in People, ReactivateCount(r, p) PROVE TypeOK'
    <3>1. [Idle EXCEPT !.op = "reactivate", !.who = p] \in RequestType
      BY DEF Idle, RequestType, Ops
    <3> QED
      BY <1>1, <1>3, <2>3, <3>1, BeginType DEF TypeOK, ReactivateCount, RequestType, inviteVars
  <2>4. ASSUME NEW i \in Invites, ResendRead(r, i) PROVE TypeOK'
    <3>1. [Idle EXCEPT !.op = "resend", !.inv = i, !.fresh = TRUE] \in RequestType
      BY DEF Idle, RequestType, Ops
    <3> QED
      BY <1>1, <1>3, <2>4, <3>1, BeginType DEF TypeOK, ResendRead, RequestType, inviteVars
  <2>5. ASSUME NEW i \in Invites, AcceptRead(r, i) PROVE TypeOK'
    <3>1. [Idle EXCEPT !.op = "join", !.inv = i] \in RequestType
      BY DEF Idle, RequestType, Ops
    <3> QED
      BY <1>1, <1>3, <2>5, <3>1, BeginType DEF TypeOK, AcceptRead, RequestType, inviteVars
  <2>6. ASSUME NEW keep \in SUBSET People, SelectRead(r, keep) PROVE TypeOK'
    <3>1. [Idle EXCEPT !.op = "lock", !.todo = Active \ keep] \in RequestType
      BY <1>2 DEF Idle, RequestType, Ops
    <3> QED
      BY <1>1, <1>3, <2>6, <3>1, BeginType DEF TypeOK, SelectRead, RequestType, inviteVars
  <2>7. CASE DowngradeRead(r)
    <3>1. PICK K \in Keeps : Begin(r, [Idle EXCEPT !.op = "downgrade", !.todo = Active \ K])
      BY <2>7 DEF DowngradeRead
    <3>2. [Idle EXCEPT !.op = "downgrade", !.todo = Active \ K] \in RequestType
      BY <1>2 DEF Idle, RequestType, Ops
    <3>3. req' \in [Requests -> RequestType]
      BY <3>1, <3>2, BeginType
    <3> QED
      BY <1>1, <1>3, <2>7, <3>3 DEF TypeOK, DowngradeRead, RequestType, inviteVars
  <2> QED
    BY <1>5, <2>1, <2>2, <2>3, <2>4, <2>5, <2>6, <2>7 DEF Starts
<1>6. ASSUME NEW r \in Requests, Continues(r) PROVE TypeOK'
  <2>1. CASE InviteInsert(r)
    <3>1. CASE End(r) /\ UNCHANGED inviteVars
      BY <1>1, <1>3, <2>1, <3>1, EndType DEF TypeOK, InviteInsert, RequestType, inviteVars
    <3>2. ASSUME NEW i \in Invites,
                 status' = [j \in Invites |-> IF j = i THEN "pending"
                                              ELSE IF j \in Overdue THEN "over" ELSE status[j]],
                 email' = [email EXCEPT ![i] = req[r].who],
                 live' = [live EXCEPT ![i] = TRUE],
                 mailed' = [j \in Invites |-> mailed[j] /\ j \notin Overdue],
                 req' = [req EXCEPT ![r] = [Idle EXCEPT !.op = "token", !.inv = i]]
          PROVE  TypeOK'
      <4>1. [Idle EXCEPT !.op = "token", !.inv = i] \in RequestType
        BY DEF Idle, RequestType, Ops
      <4>2. req' \in [Requests -> RequestType]
        BY <1>1, <3>2, <4>1
      <4>3. status' \in [Invites -> {"none", "pending", "over"}]
            /\ email' \in [Invites -> People \cup {None}]
        BY <1>1, <1>4, <3>2
      <4>4. live' \in [Invites -> BOOLEAN]
        BY <1>1, <3>2
      <4>5. mailed' \in [Invites -> BOOLEAN]
        BY <3>2, Zenon
      <4> QED
        BY <1>1, <1>3, <2>1, <4>2, <4>3, <4>4, <4>5 DEF TypeOK, InviteInsert, RequestType
    <3> QED
      BY <2>1, <3>1, <3>2 DEF InviteInsert
  <2>2. CASE InviteToken(r)
    <3> DEFINE i == req[r].inv
    <3>1. mailed' = [mailed EXCEPT ![i] = FALSE] /\ live' = [live EXCEPT ![i] = i \in Pending]
          /\ req' = [s \in Requests |->
                    IF s = r THEN IF At(r, "token") THEN [req[r] EXCEPT !.op = "reread"] ELSE Idle
                    ELSE IF req[s].inv = i THEN [req[s] EXCEPT !.fresh = FALSE] ELSE req[s]]
      BY <2>2 DEF InviteToken
    <3>2. mailed' \in [Invites -> BOOLEAN]
      BY <1>1, <3>1
    <3>3. live' \in [Invites -> BOOLEAN]
      <4>1. (i \in Pending) \in BOOLEAN
        OBVIOUS
      <4> HIDE DEF i
      <4> QED
        BY <1>1, <3>1, <4>1, Zenon
    <3>4. \A s \in Requests : /\ req[s] \in RequestType
                             /\ [req[s] EXCEPT !.op = "reread"] \in RequestType
                             /\ [req[s] EXCEPT !.fresh = FALSE] \in RequestType
      BY <1>1 DEF RequestType, Ops
    <3>5. req' \in [Requests -> RequestType]
      <4> HIDE DEF i
      <4> QED
        BY <3>1, <3>4, IdleType
    <3> QED
      BY <1>1, <1>3, <2>2, <3>2, <3>3, <3>5 DEF TypeOK, InviteToken, RequestType
  <2>3. CASE InviteMail(r)
    BY <1>1, <1>3, <2>3, MailType, EndType DEF TypeOK, InviteMail, RequestType
  <2>4. CASE ResendWrite(r)
    <3>1. live' \in [Invites -> BOOLEAN]
      <4>1. live' = [live EXCEPT ![req[r].inv] = req[r].inv \in Pending]
        BY <2>4 DEF ResendWrite
      <4>2. (req[r].inv \in Pending) \in BOOLEAN
        OBVIOUS
      <4> QED
        BY <1>1, <4>1, <4>2, BoolExcept, Zenon
    <3> QED
      BY <1>1, <1>3, <2>4, <3>1, MailType, EndType DEF TypeOK, ResendWrite, RequestType
  <2>5. CASE AcceptJoin(r)
    <3>1. req' \in [Requests -> RequestType]
      <4>1. [req[r] EXCEPT !.op = "mark"] \in RequestType
        BY <1>1 DEF RequestType, Ops
      <4>2. req' = [req EXCEPT ![r] = [req[r] EXCEPT !.op = "mark"]]
        BY <1>1, <2>5 DEF AcceptJoin, Continue
      <4> QED
        BY <1>1, <4>1, <4>2
    <3>2. req[r].inv \in Invites
      BY <2>5 DEF AcceptJoin, At, RowsKnown, Referring, Joining
    <3>3. member' \in [People -> {"none", "active", "seat_locked"}]
      BY <1>1, <2>5, <3>2 DEF AcceptJoin
    <3> QED
      BY <1>1, <1>3, <2>5, <3>1, <3>3 DEF TypeOK, AcceptJoin, RequestType, inviteVars
  <2>6. CASE AcceptMark(r)
    <3>1. {req[r].inv} \in SUBSET Invites
      BY <2>6 DEF AcceptMark, At, RowsKnown, Referring, Joining
    <3> QED
      BY <1>1, <1>3, <2>6, <3>1, EndType, CloseType DEF TypeOK, AcceptMark, RequestType
  <2>7. CASE ReactivateWrite(r)
    BY <1>1, <1>3, <2>7, EndType DEF TypeOK, ReactivateWrite, RequestType, inviteVars
  <2>8. ASSUME NEW p \in People, Lock(r, p) PROVE TypeOK'
    <3>1. req' \in [Requests -> RequestType]
      BY <1>1, <2>8 DEF Lock, RequestType
    <3> QED
      BY <1>1, <1>3, <2>8, <3>1 DEF TypeOK, Lock, RequestType, inviteVars
  <2>9. CASE SelectEnd(r)
    BY <1>1, <1>3, <2>9, EndType DEF TypeOK, SelectEnd, RequestType, inviteVars
  <2>10. CASE DowngradePlan(r)
    BY <1>1, <1>3, <2>10, EndType DEF TypeOK, DowngradePlan, RequestType, inviteVars
  <2>11. CASE RequestFails(r)
    BY <1>1, <1>3, <2>11, EndType DEF TypeOK, RequestFails, RequestType, inviteVars
  <2>12. CASE InviteReread(r)
    <3>1. [req[r] EXCEPT !.op = "mail", !.fresh = TRUE] \in RequestType
      BY <1>1 DEF RequestType, Ops
    <3>2. req' = [req EXCEPT ![r] = [req[r] EXCEPT !.op = "mail", !.fresh = TRUE]]
      BY <1>1, <2>12 DEF InviteReread
    <3>3. req' \in [Requests -> RequestType]
      BY <1>1, <3>1, <3>2
    <3> QED
      BY <1>1, <1>3, <2>12, <3>3 DEF TypeOK, InviteReread, RequestType, inviteVars
  <2> QED
    BY <1>6, <2>1, <2>2, <2>3, <2>4, <2>5, <2>6, <2>7, <2>8, <2>9, <2>10, <2>11, <2>12 DEF Continues
<1>7. ASSUME NEW i \in Invites, Cancel(i) \/ AcceptExpired(i) PROVE TypeOK'
  BY <1>1, <1>3, <1>7, CloseType DEF TypeOK, Cancel, AcceptExpired, RequestType
<1>8. ASSUME NEW i \in Invites, RunsOut(i) PROVE TypeOK'
  BY <1>1, <1>3, <1>8 DEF TypeOK, RunsOut, RequestType
<1>9. ASSUME NEW p \in People, Remove(p) PROVE TypeOK'
  BY <1>1, <1>3, <1>9 DEF TypeOK, Remove, RequestType, inviteVars
<1>10. CASE Upgrade
  BY <1>1, <1>3, <1>10 DEF TypeOK, Upgrade, RequestType, inviteVars
<1>11. CASE UNCHANGED vars
  BY <1>1, <1>3, <1>11 DEF TypeOK, vars, RequestType, inviteVars
<1> QED
  BY <1>5, <1>6, <1>7, <1>8, <1>9, <1>10, <1>11 DEF Next

-------------------------------------------------------------------------------

\* What a step does to a request: it begins, goes on under the same invitation, ends, or is of
\* another request.
LEMMA RequestStep ==
  ASSUME TypeInv, [Next]_vars, NEW s \in Requests
  PROVE  \/ req'[s].op = req[s].op /\ req'[s].inv = req[s].inv
         \/ req'[s] = Idle
         \/ req'[s].op = "mark" /\ req[s].op = "join" /\ req'[s].inv = req[s].inv
         \/ req'[s].op = "reread" /\ req[s].op = "token" /\ req'[s].inv = req[s].inv
         \/ req'[s].op = "mail" /\ req[s].op = "reread" /\ req'[s].inv = req[s].inv
         \/ req'[s].op = "token" /\ req'[s].inv \in Invites /\ req[s].op = "insert"
         \/ req[s] = Idle /\ req'[s].op = "join" /\ req'[s].inv \in Invites
         \/ req[s] = Idle /\ req'[s].op \in {"insert", "reactivate", "resend", "lock", "downgrade"}
         \/ req[s] = Idle /\ req'[s].op = "token existing" /\ req'[s].inv \in Invites
<1> DEFINE Goal ==
         \/ req'[s].op = req[s].op /\ req'[s].inv = req[s].inv
         \/ req'[s] = Idle
         \/ req'[s].op = "mark" /\ req[s].op = "join" /\ req'[s].inv = req[s].inv
         \/ req'[s].op = "reread" /\ req[s].op = "token" /\ req'[s].inv = req[s].inv
         \/ req'[s].op = "mail" /\ req[s].op = "reread" /\ req'[s].inv = req[s].inv
         \/ req'[s].op = "token" /\ req'[s].inv \in Invites /\ req[s].op = "insert"
         \/ req[s] = Idle /\ req'[s].op = "join" /\ req'[s].inv \in Invites
         \/ req[s] = Idle /\ req'[s].op \in {"insert", "reactivate", "resend", "lock", "downgrade"}
         \/ req[s] = Idle /\ req'[s].op = "token existing" /\ req'[s].inv \in Invites
<1>1. req \in [Requests -> RequestType]
  BY DEF TypeInv, TypeOK, RequestType
<1>2. ASSUME NEW r \in Requests, Starts(r) PROVE Goal
  <2>1. ASSUME NEW p \in People, InviteAgain(r, p) PROVE Goal
    <3>1. Reserved \subseteq Invites
      BY DEF Reserved, Pending
    <3>2. PICK i \in Reserved : Begin(r, [Idle EXCEPT !.op = "token existing", !.inv = i])
      BY <2>1 DEF InviteAgain
    <3> QED
      BY <1>1, <3>1, <3>2 DEF Begin, Idle
  <2>2. ASSUME NEW q \in RequestType, Begin(r, q),
               q.op \in {"insert", "reactivate", "resend", "lock", "downgrade"}
                 \/ (q.op = "join" /\ q.inv \in Invites)
        PROVE  Goal
    <3>1. CASE s = r
      BY <1>1, <2>2, <3>1 DEF Begin
    <3>2. CASE s # r
      BY <1>1, <2>2, <3>2 DEF Begin
    <3> QED
      BY <3>1, <3>2
  <2>3. ASSUME NEW p \in People, InviteCount(r, p) \/ ReactivateCount(r, p) PROVE Goal
    <3>1. /\ [Idle EXCEPT !.op = "insert", !.who = p] \in RequestType
          /\ [Idle EXCEPT !.op = "reactivate", !.who = p] \in RequestType
          /\ [Idle EXCEPT !.op = "insert", !.who = p].op = "insert"
          /\ [Idle EXCEPT !.op = "reactivate", !.who = p].op = "reactivate"
      BY DEF Idle, RequestType, Ops
    <3> QED
      BY <2>2, <2>3, <3>1 DEF InviteCount, ReactivateCount
  <2>4. ASSUME NEW i \in Invites, ResendRead(r, i) \/ AcceptRead(r, i) PROVE Goal
    <3>1. /\ [Idle EXCEPT !.op = "resend", !.inv = i, !.fresh = TRUE] \in RequestType
          /\ [Idle EXCEPT !.op = "join", !.inv = i] \in RequestType
          /\ [Idle EXCEPT !.op = "resend", !.inv = i, !.fresh = TRUE].op = "resend"
          /\ [Idle EXCEPT !.op = "join", !.inv = i].op = "join"
          /\ [Idle EXCEPT !.op = "join", !.inv = i].inv = i
      BY DEF Idle, RequestType, Ops
    <3> QED
      BY <2>2, <2>4, <3>1 DEF ResendRead, AcceptRead
  <2>5. ASSUME NEW todo \in SUBSET People, NEW op \in {"lock", "downgrade"},
               Begin(r, [Idle EXCEPT !.op = op, !.todo = todo])
        PROVE  Goal
    <3>1. /\ [Idle EXCEPT !.op = op, !.todo = todo] \in RequestType
          /\ [Idle EXCEPT !.op = op, !.todo = todo].op = op
      BY DEF Idle, RequestType, Ops
    <3> QED
      BY <2>2, <2>5, <3>1
  <2>6. CASE (\E keep \in SUBSET People : SelectRead(r, keep)) \/ DowngradeRead(r)
    <3>1. \A K : Active \ K \in SUBSET People
      BY DEF Active
    <3> QED
      BY <2>5, <2>6, <3>1 DEF SelectRead, DowngradeRead
  <2> QED
    BY <1>2, <2>1, <2>3, <2>4, <2>6 DEF Starts
<1>3. ASSUME NEW r \in Requests, Continues(r) PROVE Goal
  <2>1. CASE InviteInsert(r)
    <3>1. req[r].op = "insert"
      BY <2>1 DEF InviteInsert, At
    <3>2. CASE End(r)
      BY <1>1, <3>2 DEF End
    <3>3. ASSUME NEW i \in Invites, req' = [req EXCEPT ![r] = [Idle EXCEPT !.op = "token", !.inv = i]]
          PROVE  Goal
      <4>1. CASE s = r
        BY <1>1, <3>1, <3>3, <4>1 DEF Idle
      <4>2. CASE s # r
        BY <1>1, <3>3, <4>2
      <4> QED
        BY <4>1, <4>2
    <3> QED
      BY <2>1, <3>2, <3>3 DEF InviteInsert
  <2>2. CASE InviteToken(r)
    <3>1. req' = [q \in Requests |->
                    IF q = r THEN IF At(r, "token") THEN [req[r] EXCEPT !.op = "reread"] ELSE Idle
                    ELSE IF req[q].inv = req[r].inv THEN [req[q] EXCEPT !.fresh = FALSE] ELSE req[q]]
      BY <2>2 DEF InviteToken
    <3>2. CASE s = r
      BY <1>1, <3>1, <3>2 DEF At, RequestType
    <3>3. CASE s # r
      BY <1>1, <3>1, <3>3 DEF RequestType
    <3> QED
      BY <3>2, <3>3
  <2>3. CASE InviteMail(r) \/ ResendWrite(r) \/ AcceptMark(r) \/ ReactivateWrite(r)
             \/ SelectEnd(r) \/ DowngradePlan(r) \/ RequestFails(r)
    <3>1. End(r)
      BY <2>3 DEF InviteMail, ResendWrite, AcceptMark, ReactivateWrite, SelectEnd, DowngradePlan,
                  RequestFails
    <3> QED
      BY <1>1, <3>1 DEF End
  <2>4. CASE AcceptJoin(r)
    BY <1>1, <2>4 DEF AcceptJoin, Continue, At, RequestType
  <2>5. ASSUME NEW p \in People, Lock(r, p) PROVE Goal
    BY <1>1, <2>5 DEF Lock, RequestType
  <2>6. CASE InviteReread(r)
    BY <1>1, <2>6 DEF InviteReread, At, RequestType
  <2> QED
    BY <1>3, <2>1, <2>2, <2>3, <2>4, <2>5, <2>6 DEF Continues
<1>4. CASE UNCHANGED req
  BY <1>4
<1>5. \/ \E r \in Requests : Starts(r) \/ Continues(r)
      \/ UNCHANGED req
  BY DEF Next, Cancel, AcceptExpired, RunsOut, Remove, Upgrade, vars
<1> QED
  BY <1>2, <1>3, <1>4, <1>5

\* Whoever is to join somebody still refers to an invitation.
LEMMA ReferStep == TypeInv /\ [Next]_vars => RowsKnown'
<1> SUFFICES ASSUME TypeInv, [Next]_vars, NEW s \in Requests, Referring(s)'
             PROVE  req'[s].inv \in Invites
  BY DEF RowsKnown
<1>1. req'[s].op \in {"token", "token existing", "reread", "mail", "join", "mark"}
  BY DEF Referring
<1>2. Referring(s) => req[s].inv \in Invites
  BY DEF TypeInv, RowsKnown
<1>3. Idle.op = "idle"
  BY DEF Idle
<1> QED
  BY <1>1, <1>2, <1>3, RequestStep DEF Referring

\* An excuse is never taken back.
LEMMA ExcusesStay == [Next]_vars /\ ~excused' => ~excused
<1> SUFFICES ASSUME [Next]_vars, ~excused' PROVE ~excused
  OBVIOUS
<1>1. ASSUME NEW r \in Requests, Starts(r) \/ Continues(r) PROVE ~excused
  BY <1>1 DEF Starts, Continues, InviteAgain, InviteCount, ReactivateCount, ResendRead, AcceptRead,
     SelectRead, DowngradeRead, InviteInsert, InviteToken, InviteReread, InviteMail, ResendWrite, AcceptJoin,
     AcceptMark, ReactivateWrite, Lock, SelectEnd, DowngradePlan, RequestFails,
     Note
<1> QED
  BY <1>1 DEF Next, Cancel, AcceptExpired, RunsOut, Remove, Upgrade, vars, Note

-------------------------------------------------------------------------------

\* Closing invitations leaves the others as they were.
LEMMA CloseLeaves ==
  ASSUME TypeOK, NEW rows \in SUBSET Invites, Close(rows), NEW i \in Pending'
  PROVE  i \in Pending /\ mailed'[i] = mailed[i]
<1>1. i \in Invites /\ status'[i] = "pending"
  BY DEF Pending
<1>2. i \notin rows /\ status[i] = "pending"
  BY <1>1 DEF Close
<1>3. mailed[i] \in BOOLEAN /\ mailed'[i] = (mailed[i] /\ i \notin rows)
  BY <1>1 DEF TypeOK, Close
<1> QED
  BY <1>1, <1>2, <1>3 DEF Pending

\* A step that takes no link away, and no request off its way to mail one, keeps what is to come.
LEMMA LinkKept ==
  ASSUME LinkComes, NEW i \in Pending,
         mailed[i] => mailed'[i], i \in unsent => i \in unsent' \/ mailed'[i],
         \A s \in Requests : Sends(s, i) => Sends(s, i)' \/ i \in unsent' \/ mailed'[i]
  PROVE  mailed'[i] \/ i \in unsent' \/ \E s \in Requests : Sends(s, i)'
BY DEF LinkComes

\* A mail that goes out clears what is said of its invitation, and one that fails says so;
\* it leaves the other invitations alone.
LEMMA MailStep ==
  ASSUME TypeOK, NEW r \in Requests, Mail(r), NEW i \in Pending
  PROVE  /\ mailed[i] => mailed'[i]
         /\ i \in unsent => i \in unsent' \/ mailed'[i]
         /\ At(r, "mail") /\ req[r].fresh /\ req[r].inv = i => i \in unsent' \/ mailed'[i]
<1> DEFINE j == req[r].inv
<1>1. mailed \in [Invites -> BOOLEAN] /\ i \in Invites
  BY DEF TypeOK, Pending
<1>2. mailed' = mailed \/ mailed' = [mailed EXCEPT ![j] = j \in Pending /\ (mailed[j] \/ req[r].fresh)]
  BY DEF Mail
<1>3. unsent' = IF mailed'[j] THEN unsent \ {j}
                ELSE IF At(r, "mail") /\ req[r].fresh THEN unsent \cup {j} ELSE unsent
  BY DEF Mail
<1> HIDE DEF j
<1>4. mailed[i] => mailed'[i]
  BY <1>1, <1>2
<1>5. i \in unsent => i \in unsent' \/ mailed'[i]
  BY <1>3
<1>6. At(r, "mail") /\ req[r].fresh /\ j = i => i \in unsent' \/ mailed'[i]
  BY <1>3
<1> QED
  BY <1>4, <1>5, <1>6 DEF j

\* Every step keeps the promise of the links.
LEMMA LinkStep == TypeInv /\ LinkComes /\ [Next]_vars => LinkComes'
<1> SUFFICES ASSUME TypeInv, LinkComes, [Next]_vars, NEW i \in Pending'
             PROVE  mailed'[i] \/ i \in unsent' \/ \E s \in Requests : Sends(s, i)'
  BY DEF LinkComes
<1>1. TypeOK
  BY DEF TypeInv
<1>2. Overdue \in SUBSET Invites
  BY DEF Overdue, Pending
<1>3. i \in Invites /\ req \in [Requests -> RequestType] /\ mailed \in [Invites -> BOOLEAN]
  BY <1>1 DEF Pending, TypeOK, RequestType
<1> DEFINE Goal == mailed'[i] \/ i \in unsent' \/ \E s \in Requests : Sends(s, i)'
           Others(r) == \A s \in Requests \ {r} : req'[s] = req[s]
<1>4. ASSUME NEW r \in Requests, Others(r), ~Sends(r, i), i \in Pending,
             mailed[i] => mailed'[i], i \in unsent => i \in unsent' \/ mailed'[i]
      PROVE  Goal
  <2>1. \A s \in Requests : Sends(s, i) => Sends(s, i)'
    BY <1>4 DEF Sends, Mailing, At
  <2> QED
    BY <1>4, <2>1, LinkKept
<1>5. ASSUME UNCHANGED <<req, unsent>>, i \in Pending, mailed[i] => mailed'[i] PROVE Goal
  <2>1. \A s \in Requests : Sends(s, i) => Sends(s, i)'
    BY <1>5 DEF Sends, Mailing, At
  <2> QED
    BY <1>5, <2>1, LinkKept
<1>6. ASSUME NEW r \in Requests, Starts(r) PROVE Goal
  <2>1. req[r] = Idle /\ Others(r) /\ unsent' = unsent
    BY <1>3, <1>6 DEF Starts, InviteAgain, InviteCount, ReactivateCount, ResendRead, AcceptRead, SelectRead,
                     DowngradeRead, Begin, history
  <2>2. ~Sends(r, i)
    BY <2>1 DEF Sends, Mailing, Idle
  <2>3. (\E p \in People : InviteAgain(r, p)) \/ UNCHANGED inviteVars
    BY <1>6 DEF Starts, InviteCount, ReactivateCount, ResendRead, AcceptRead, SelectRead, DowngradeRead
  <2>4. i \in Pending /\ mailed'[i] = mailed[i]
    <3>1. ASSUME NEW p \in People, InviteAgain(r, p) PROVE i \in Pending /\ mailed'[i] = mailed[i]
      BY <1>1, <1>2, <3>1, CloseLeaves DEF InviteAgain
    <3> QED
      BY <2>3, <3>1 DEF inviteVars, Pending
  <2> QED
    BY <1>4, <2>1, <2>2, <2>4
<1>7. ASSUME NEW r \in Requests, InviteInsert(r) PROVE Goal
  <2>1. ~Sends(r, i) /\ unsent' = unsent
    BY <1>7 DEF InviteInsert, At, Sends, Mailing, history
  <2>2. CASE End(r) /\ UNCHANGED inviteVars
    <3>1. i \in Pending /\ mailed' = mailed /\ Others(r)
      BY <1>3, <2>2 DEF Pending, inviteVars, End
    <3> QED
      BY <1>4, <2>1, <3>1
  <2>3. ASSUME NEW j \in Invites,
               status' = [k \in Invites |-> IF k = j THEN "pending"
                                            ELSE IF k \in Overdue THEN "over" ELSE status[k]],
               mailed' = [k \in Invites |-> mailed[k] /\ k \notin Overdue],
               req' = [req EXCEPT ![r] = [Idle EXCEPT !.op = "token", !.inv = j]]
        PROVE  Goal
    <3>1. CASE i = j
      <4>1. Sends(r, i)'
        BY <1>3, <2>3, <3>1 DEF Sends, Mailing, At, Idle
      <4> QED
        BY <4>1
    <3>2. CASE i # j
      <4>1. i \in Pending /\ i \notin Overdue
        BY <1>3, <2>3, <3>2 DEF Pending
      <4>2. (mailed[i] => mailed'[i]) /\ Others(r)
        BY <1>3, <2>3, <4>1
      <4> QED
        BY <1>4, <2>1, <4>1, <4>2
    <3> QED
      BY <3>1, <3>2
  <2> QED
    BY <1>7, <2>2, <2>3 DEF InviteInsert
<1>8. ASSUME NEW r \in Requests, InviteToken(r) PROVE Goal
  <2> DEFINE j == req[r].inv
  <2>1. /\ mailed' = [mailed EXCEPT ![j] = FALSE] /\ status' = status
        /\ req' = [s \in Requests |->
                    IF s = r THEN IF At(r, "token") THEN [req[r] EXCEPT !.op = "reread"] ELSE Idle
                    ELSE IF req[s].inv = j THEN [req[s] EXCEPT !.fresh = FALSE] ELSE req[s]]
        /\ unsent' = IF At(r, "token") THEN unsent ELSE unsent \cup {j}
    BY <1>8 DEF InviteToken
  <2>2. i \in Pending
    BY <2>1 DEF Pending
  <2>3. CASE i = j /\ At(r, "token")
    <3>1. req'[r].op = "reread" /\ req'[r].inv = i
      BY <1>3, <2>1, <2>3 DEF RequestType
    <3> QED
      BY <3>1 DEF Sends, Mailing, At
  <2>4. CASE i = j /\ ~At(r, "token")
    BY <2>1, <2>4
  <2>5. CASE i # j
    <3>1. mailed'[i] = mailed[i] /\ unsent \subseteq unsent'
      BY <1>3, <2>1, <2>5
    <3>2. ASSUME NEW s \in Requests, Sends(s, i) PROVE Sends(s, i)'
      <4>1. req[s].inv = i /\ s # r
        BY <2>5, <3>2 DEF Sends, Mailing
      <4>2. req'[s] = req[s]
        BY <2>1, <2>5, <4>1
      <4> QED
        BY <3>2, <4>2 DEF Sends, Mailing, At
    <3> QED
      BY <2>2, <3>1, <3>2, LinkKept
  <2> QED
    BY <2>3, <2>4, <2>5
<1>9. ASSUME NEW r \in Requests, InviteReread(r) PROVE Goal
  <2>1. i \in Pending /\ mailed' = mailed /\ unsent' = unsent
    BY <1>9 DEF InviteReread, inviteVars, Pending, history
  <2>2. req'[r].op = "mail" /\ req'[r].fresh = TRUE /\ req'[r].inv = req[r].inv /\ Others(r)
    BY <1>3, <1>9 DEF InviteReread, RequestType
  <2>3. \A s \in Requests : Sends(s, i) => Sends(s, i)'
    BY <2>2 DEF Sends, Mailing, At
  <2> QED
    BY <2>1, <2>3, LinkKept
<1>10. ASSUME NEW r \in Requests, InviteMail(r) \/ ResendWrite(r) PROVE Goal
  <2>1. /\ i \in Pending /\ Others(r) /\ Mail(r)
        /\ At(r, "mail") \/ At(r, "resend")
    BY <1>3, <1>10 DEF InviteMail, ResendWrite, Pending, End
  <2>2. Sends(r, i) => i \in unsent' \/ mailed'[i]
    BY <1>1, <2>1, MailStep DEF Sends, Mailing, At
  <2>3. (mailed[i] => mailed'[i]) /\ (i \in unsent => i \in unsent' \/ mailed'[i])
    BY <1>1, <2>1, MailStep
  <2> QED
    BY <1>4, <2>1, <2>2, <2>3
<1>11. ASSUME NEW r \in Requests, AcceptMark(r) PROVE Goal
  <2>1. {req[r].inv} \in SUBSET Invites
    BY <1>11 DEF AcceptMark, At, TypeInv, RowsKnown, Referring
  <2>2. i \in Pending /\ mailed'[i] = mailed[i]
    BY <1>1, <1>11, <2>1, CloseLeaves DEF AcceptMark
  <2>3. Others(r) /\ ~Sends(r, i) /\ unsent' = unsent
    BY <1>3, <1>11 DEF AcceptMark, Sends, Mailing, End, At, history
  <2> QED
    BY <1>4, <2>2, <2>3
<1>12. ASSUME NEW r \in Requests,
              \/ AcceptJoin(r) \/ ReactivateWrite(r) \/ SelectEnd(r) \/ DowngradePlan(r)
              \/ \E p \in People : Lock(r, p)
       PROVE  Goal
  <2>1. i \in Pending /\ mailed' = mailed /\ unsent' = unsent
    BY <1>12 DEF AcceptJoin, ReactivateWrite, SelectEnd, DowngradePlan, Lock, inviteVars, Pending, history
  <2>2. ~Sends(r, i)
    BY <1>12 DEF AcceptJoin, ReactivateWrite, SelectEnd, DowngradePlan, Lock, At, Sends, Mailing
  <2>3. Others(r)
    BY <1>3, <1>12 DEF AcceptJoin, ReactivateWrite, SelectEnd, DowngradePlan, Lock, End, Continue
  <2> QED
    BY <1>4, <2>1, <2>2, <2>3
<1>13. ASSUME NEW r \in Requests, RequestFails(r) PROVE Goal
  <2>1. i \in Pending /\ mailed' = mailed /\ Others(r) /\ unsent \subseteq unsent'
    BY <1>3, <1>13 DEF RequestFails, inviteVars, Pending, End
  <2>2. Mailing(r, i) => i \in unsent'
    BY <1>3, <1>13 DEF RequestFails, Mailing
  <2> QED
    BY <1>4, <2>1, <2>2 DEF Sends
<1>14. ASSUME NEW j \in Invites, Cancel(j) \/ AcceptExpired(j) PROVE Goal
  <2>1. i \in Pending /\ mailed'[i] = mailed[i]
    BY <1>1, <1>14, CloseLeaves DEF Cancel, AcceptExpired
  <2> QED
    BY <1>5, <1>14, <2>1 DEF Cancel, AcceptExpired, history
<1>15. CASE UNCHANGED <<status, mailed, req, unsent>>
  BY <1>5, <1>15 DEF Pending
<1> QED
  <2>1. \/ \E r \in Requests : Starts(r) \/ Continues(r)
        \/ \E j \in Invites : Cancel(j) \/ AcceptExpired(j)
        \/ UNCHANGED <<status, mailed, req, unsent>>
    BY DEF Next, RunsOut, Remove, Upgrade, vars, inviteVars, history
  <2> QED
    BY <1>6, <1>7, <1>8, <1>9, <1>10, <1>11, <1>12, <1>13, <1>14, <1>15, <2>1 DEF Continues

-------------------------------------------------------------------------------

\* The variables keep to their types, and joiners to invitations.
THEOREM TeamTypeInvariant == Spec => []TypeInv
<1>1. Init => TypeInv
  <2> SUFFICES ASSUME Init PROVE TypeInv
    OBVIOUS
  <2>1. TypeOK
    BY IdleType, TeamAssumption DEF Init, TypeOK, RequestType, TeamAssumption
  <2>2. RowsKnown
    BY DEF Init, RowsKnown, Referring, Idle
  <2> QED
    BY <2>1, <2>2 DEF TypeInv
<1>2. TypeInv /\ [Next]_vars => TypeInv'
  BY TypeStep, ReferStep DEF TypeInv
<1> QED
  BY <1>1, <1>2, PTL DEF Spec

THEOREM TeamTypeCorrect == Spec => []TypeOK
<1>1. TypeInv => TypeOK
  BY DEF TypeInv
<1> QED
  BY <1>1, TeamTypeInvariant, PTL

\* Whatever requests overlap, the link of a pending invitation is mailed or about to be, unless
\* the address was invited again, a mail failed or a request stopped, and no mail followed.
THEOREM LinkReachesHolds == Spec => []LinkReaches
<1>1. Init => LinkComes
  BY DEF Init, LinkComes, Pending
<1>2. TypeInv /\ LinkComes /\ [Next]_vars => LinkComes'
  BY LinkStep
<1>3. LinkComes => LinkReaches
  BY DEF LinkComes, LinkReaches, Sends
<1> QED
  BY <1>1, <1>2, <1>3, TeamTypeInvariant, PTL DEF Spec

-------------------------------------------------------------------------------
(* Seats: who gives them, who holds them, and who has joined. *)

\* One request at a time is about to give a seat, or to take seats away.
OneGiver ==
    ~excused => \A r, s \in Requests : Giving(r) /\ Giving(s) => r = s

\* Rows that are used have been written, with the address of a person.
Placed ==
    /\ \A r \in Requests : Joining(r) => status[req[r].inv] # "none"
    /\ \A i \in Invites : status[i] # "none" => email[i] \in People
    /\ \A r \in Requests : req[r].op \in {"insert", "reactivate"} => req[r].who \in People

\* Between the profile and the invitation of an acceptance, whoever joined is a member.
MarkKnown ==
    ~excused => \A r \in Requests : At(r, "mark") => member[email[req[r].inv]] # "none"

\* An invitation somebody is about to join by holds its seat, and nobody is closing it.
JoinReserved ==
    ~excused =>
        \A r \in Requests : At(r, "join") =>
            /\ req[r].inv \in Reserved
            /\ \A s \in Requests : At(s, "mark") => req[s].inv # req[r].inv

\* The seats in use leave room for the one that is being given, and a downgrade
\* spares no more members than its plan has seats.
Room ==
    ~excused =>
        /\ Cardinality(Holders) <= limit
        /\ \A r \in Requests :
             /\ At(r, "insert") \/ At(r, "reactivate") =>
                    Cardinality(Holders \cup {req[r].who}) <= limit
             /\ At(r, "downgrade") => Cardinality(Active \ req[r].todo) <= Low

SeatInv == OneGiver /\ Placed /\ MarkKnown /\ JoinReserved /\ Room

\* The invitation i lets nobody in any more: its person is of the workspace and it is about
\* to be marked, or it is over, and whoever still joins by it is of the workspace already.
UsedUp(i) ==
    \/ member[email[i]] # "none" /\ \E r \in Requests : At(r, "mark") /\ req[r].inv = i
    \/ /\ status[i] = "over"
       /\ (\E r \in Requests : At(r, "join") /\ req[r].inv = i) => member[email[i]] # "none"

\* An invitation let in at most as many as it lost acceptances, or one more and is used up.
JoinsPaid ==
    \A i \in Invites : joins[i] <= torn[i] \/ (joins[i] <= torn[i] + 1 /\ UsedUp(i))

-------------------------------------------------------------------------------

\* A request that begins to give a seat, or to take seats away: it has seen that
\* there is one, and changed nothing yet.
Grants(r) ==
    /\ req[r] = Idle /\ Note(~Alone(r))
    /\ UNCHANGED <<limit, member, inviteVars, history>>
    /\ \A s \in Requests \ {r} : req'[s] = req[s]
    /\ \/ /\ req'[r].op \in {"insert", "reactivate"} /\ req'[r].who \in People
          /\ Occupied < limit
       \/ /\ req'[r].op = "join" /\ req'[r].inv \in Reserved
          /\ member[email[req'[r].inv]] = "none"
       \/ /\ req'[r].op = "downgrade"
          /\ \E K \in Keeps : req'[r].todo = Active \ K

Same(s) ==
    /\ req'[s].op = req[s].op /\ req'[s].who = req[s].who /\ req'[s].inv = req[s].inv
    /\ req'[s].todo = req[s].todo \/ \E p \in People : Lock(s, p)

Turns(s) == req'[s].op \in {"idle", "token", "token existing", "reread", "mail", "resend", "lock"}

\* Any other step leaves a request as it is, joins somebody, or takes it to a part in
\* which it gives nothing.
LEMMA Calls ==
  ASSUME TypeInv, [Next]_vars
  PROVE  \/ \E r \in Requests : Grants(r)
         \/ \A s \in Requests :
              \/ Same(s) \/ Turns(s)
              \/ AcceptJoin(s) /\ req'[s].op = "mark" /\ req'[s].inv = req[s].inv
<1> DEFINE Rest == \A s \in Requests :
                     \/ Same(s) \/ Turns(s)
                     \/ AcceptJoin(s) /\ req'[s].op = "mark" /\ req'[s].inv = req[s].inv
           Goal == (\E r \in Requests : Grants(r)) \/ Rest
<1>1. req \in [Requests -> RequestType]
  BY DEF TypeInv, TypeOK, RequestType
<1>2. ASSUME NEW r \in Requests, NEW q \in RequestType, Begin(r, q),
             q.op \in {"token existing", "resend", "lock"}
      PROVE  Goal
  <2>1. req'[r] = q /\ \A s \in Requests \ {r} : req'[s] = req[s]
    BY <1>1, <1>2 DEF Begin
  <2> QED
    BY <1>2, <2>1 DEF Same, Turns
<1>3. ASSUME NEW r \in Requests, NEW q \in RequestType, Begin(r, q)
      PROVE  req[r] = Idle /\ req'[r] = q /\ \A s \in Requests \ {r} : req'[s] = req[s]
  BY <1>1, <1>3 DEF Begin
<1>4. ASSUME NEW r \in Requests, Starts(r) PROVE Goal
  <2>1. ASSUME NEW p \in People, InviteAgain(r, p) PROVE Goal
    <3>1. PICK i \in Reserved : Begin(r, [Idle EXCEPT !.op = "token existing", !.inv = i])
      BY <2>1 DEF InviteAgain
    <3>2. i \in Invites
      BY <3>1 DEF Reserved, Pending
    <3>3. /\ [Idle EXCEPT !.op = "token existing", !.inv = i] \in RequestType
          /\ [Idle EXCEPT !.op = "token existing", !.inv = i].op = "token existing"
      BY <3>2 DEF Idle, RequestType, Ops
    <3> QED
      BY <1>2, <3>1, <3>3
  <2>2. ASSUME NEW p \in People, NEW op \in {"insert", "reactivate"},
               Begin(r, [Idle EXCEPT !.op = op, !.who = p]), Occupied < limit, Note(~Alone(r)),
               UNCHANGED <<limit, member, inviteVars, history>>
        PROVE  Grants(r)
    <3>1. /\ [Idle EXCEPT !.op = op, !.who = p] \in RequestType
          /\ [Idle EXCEPT !.op = op, !.who = p].op = op
          /\ [Idle EXCEPT !.op = op, !.who = p].who = p
      BY DEF Idle, RequestType, Ops
    <3>2. /\ req[r] = Idle /\ req'[r].op = op /\ req'[r].who = p
          /\ \A s \in Requests \ {r} : req'[s] = req[s]
      BY <1>3, <2>2, <3>1
    <3> QED
      BY <2>2, <3>2 DEF Grants
  <2>3. ASSUME NEW i \in Invites, AcceptRead(r, i) PROVE Grants(r)
    <3>1. /\ [Idle EXCEPT !.op = "join", !.inv = i] \in RequestType
          /\ [Idle EXCEPT !.op = "join", !.inv = i].op = "join"
          /\ [Idle EXCEPT !.op = "join", !.inv = i].inv = i
      BY DEF Idle, RequestType, Ops
    <3>2. /\ req[r] = Idle /\ req'[r].op = "join" /\ req'[r].inv = i
          /\ \A s \in Requests \ {r} : req'[s] = req[s]
      BY <1>3, <2>3, <3>1 DEF AcceptRead
    <3> QED
      BY <2>3, <3>2 DEF Grants, AcceptRead
  <2>4. ASSUME NEW i \in Invites, ResendRead(r, i) PROVE Goal
    <3>1. /\ [Idle EXCEPT !.op = "resend", !.inv = i, !.fresh = TRUE] \in RequestType
          /\ [Idle EXCEPT !.op = "resend", !.inv = i, !.fresh = TRUE].op = "resend"
      BY DEF Idle, RequestType, Ops
    <3> QED
      BY <1>2, <2>4, <3>1 DEF ResendRead
  <2>5. ASSUME NEW keep \in SUBSET People, SelectRead(r, keep) PROVE Goal
    <3>1. Active \ keep \in SUBSET People
      BY DEF Active
    <3>2. /\ [Idle EXCEPT !.op = "lock", !.todo = Active \ keep] \in RequestType
          /\ [Idle EXCEPT !.op = "lock", !.todo = Active \ keep].op = "lock"
      BY <3>1 DEF Idle, RequestType, Ops
    <3> QED
      BY <1>2, <2>5, <3>2 DEF SelectRead
  <2>6. CASE DowngradeRead(r)
    <3>1. PICK K \in Keeps : Begin(r, [Idle EXCEPT !.op = "downgrade", !.todo = Active \ K])
      BY <2>6 DEF DowngradeRead
    <3>2. Active \ K \in SUBSET People
      BY DEF Active
    <3>3. /\ [Idle EXCEPT !.op = "downgrade", !.todo = Active \ K] \in RequestType
          /\ [Idle EXCEPT !.op = "downgrade", !.todo = Active \ K].op = "downgrade"
          /\ [Idle EXCEPT !.op = "downgrade", !.todo = Active \ K].todo = Active \ K
      BY <3>2 DEF Idle, RequestType, Ops
    <3>4. /\ req[r] = Idle /\ req'[r].op = "downgrade" /\ req'[r].todo = Active \ K
          /\ \A s \in Requests \ {r} : req'[s] = req[s]
      BY <1>3, <3>1, <3>3
    <3>5. Grants(r)
      BY <2>6, <3>4 DEF Grants, DowngradeRead
    <3> QED
      BY <3>5
  <2>7. ASSUME NEW p \in People, InviteCount(r, p) \/ ReactivateCount(r, p) PROVE Grants(r)
    BY <2>2, <2>7 DEF InviteCount, ReactivateCount
  <2> QED
    BY <1>4, <2>1, <2>3, <2>4, <2>5, <2>6, <2>7 DEF Starts
<1>5. ASSUME NEW r \in Requests, Continues(r) PROVE Rest
  <2>1. ASSUME End(r) PROVE Rest
    <3>1. req'[r].op = "idle" /\ \A s \in Requests \ {r} : req'[s] = req[s]
      BY <1>1, <2>1 DEF End, Idle
    <3> QED
      BY <3>1 DEF Same, Turns
  <2>2. CASE InviteInsert(r)
    <3>1. ASSUME NEW i \in Invites, req' = [req EXCEPT ![r] = [Idle EXCEPT !.op = "token", !.inv = i]]
          PROVE  Rest
      <4>1. req'[r].op = "token" /\ \A s \in Requests \ {r} : req'[s] = req[s]
        BY <1>1, <3>1 DEF Idle
      <4> QED
        BY <4>1 DEF Same, Turns
    <3> QED
      BY <2>1, <2>2, <3>1 DEF InviteInsert
  <2>3. CASE InviteToken(r)
    <3>1. req' = [q \in Requests |->
                    IF q = r THEN IF At(r, "token") THEN [req[r] EXCEPT !.op = "reread"] ELSE Idle
                    ELSE IF req[q].inv = req[r].inv THEN [req[q] EXCEPT !.fresh = FALSE] ELSE req[q]]
      BY <2>3 DEF InviteToken
    <3>2. req'[r].op \in {"reread", "idle"}
      BY <1>1, <3>1 DEF RequestType, Idle
    <3>3. \A s \in Requests \ {r} : Same(s)
      BY <1>1, <3>1 DEF RequestType, Same
    <3> QED
      BY <3>2, <3>3 DEF Turns
  <2>4. CASE AcceptJoin(r)
    <3>1. /\ req'[r].op = "mark" /\ req'[r].inv = req[r].inv
          /\ \A s \in Requests \ {r} : req'[s] = req[s]
      BY <1>1, <2>4 DEF AcceptJoin, Continue, RequestType
    <3> QED
      BY <2>4, <3>1 DEF Same
  <2>5. ASSUME NEW p \in People, Lock(r, p) PROVE Rest
    BY <1>1, <2>5 DEF Lock, RequestType, Same
  <2>6. CASE InviteReread(r)
    <3>1. req'[r].op = "mail" /\ \A s \in Requests \ {r} : req'[s] = req[s]
      BY <1>1, <2>6 DEF InviteReread, RequestType
    <3> QED
      BY <3>1 DEF Same, Turns
  <2> QED
    BY <1>5, <2>1, <2>2, <2>3, <2>4, <2>5, <2>6
       DEF Continues, InviteMail, ResendWrite, AcceptMark, ReactivateWrite, SelectEnd, DowngradePlan,
           RequestFails
<1>6. ASSUME UNCHANGED req PROVE Rest
  BY <1>6 DEF Same
<1> QED
  BY <1>4, <1>5, <1>6 DEF Next, Cancel, AcceptExpired, RunsOut, Remove, Upgrade, vars

\* A new grant beside another leaves nothing certain.
LEMMA GrantAlone ==
  ASSUME NEW r \in Requests, Grants(r), ~excused'
  PROVE  \A s \in Requests \ {r} : ~Giving(s)
BY DEF Grants, Note, Alone

\* One request at a time gives seats.
LEMMA OneGiverStep == TypeInv /\ OneGiver /\ [Next]_vars => OneGiver'
<1> SUFFICES ASSUME TypeInv, OneGiver, [Next]_vars, ~excused',
                    NEW r \in Requests, NEW s \in Requests, Giving(r)', Giving(s)'
             PROVE  r = s
  BY DEF OneGiver
<1>1. ~excused
  BY ExcusesStay
<1>2. ASSUME NEW g \in Requests, Grants(g) PROVE r = s
  <2>1. \A q \in Requests \ {g} : ~Giving(q)'
    BY <1>2, GrantAlone DEF Grants, Giving
  <2> QED
    BY <2>1
<1>3. ASSUME \A q \in Requests :
              \/ Same(q) \/ Turns(q)
              \/ AcceptJoin(q) /\ req'[q].op = "mark" /\ req'[q].inv = req[q].inv
      PROVE  Giving(r) /\ Giving(s)
  BY <1>3 DEF Giving, Same, Turns
<1> QED
  BY <1>1, <1>2, <1>3, Calls DEF OneGiver

\* What was written of an invitation stays, and its address with it.
LEMMA EmailKept ==
  ASSUME TypeInv, [Next]_vars, NEW i \in Invites, status[i] # "none"
  PROVE  status'[i] # "none" /\ email'[i] = email[i]
<1>1. status \in [Invites -> {"none", "pending", "over"}] /\ email \in [Invites -> People \cup {None}]
  BY DEF TypeInv, TypeOK
<1>2. ASSUME NEW rows \in SUBSET Invites, Close(rows)
      PROVE  status'[i] # "none" /\ email'[i] = email[i]
  BY <1>2 DEF Close
<1>3. ASSUME UNCHANGED <<status, email>> PROVE status'[i] # "none" /\ email'[i] = email[i]
  BY <1>3
<1>4. Overdue \in SUBSET Invites
  BY DEF Overdue, Pending
<1>5. ASSUME NEW r \in Requests, Starts(r) PROVE status'[i] # "none" /\ email'[i] = email[i]
  BY <1>2, <1>3, <1>4, <1>5 DEF Starts, InviteAgain, InviteCount, ReactivateCount, ResendRead, AcceptRead,
     SelectRead, DowngradeRead, inviteVars
<1>6. ASSUME NEW r \in Requests, Continues(r) PROVE status'[i] # "none" /\ email'[i] = email[i]
  <2>1. CASE InviteInsert(r)
    <3>1. CASE UNCHANGED inviteVars
      BY <1>3, <3>1 DEF inviteVars
    <3>2. ASSUME NEW k \in Invites, status[k] = "none",
                 status' = [n \in Invites |-> IF n = k THEN "pending"
                                              ELSE IF n \in Overdue THEN "over" ELSE status[n]],
                 email' = [email EXCEPT ![k] = req[r].who]
          PROVE  status'[i] # "none" /\ email'[i] = email[i]
      <4>1. i # k
        BY <3>2
      <4> QED
        BY <1>1, <3>2, <4>1
    <3> QED
      BY <2>1, <3>1, <3>2 DEF InviteInsert
  <2>2. CASE AcceptMark(r)
    <3>1. req[r].inv \in Invites
      BY <2>2 DEF AcceptMark, At, TypeInv, RowsKnown, Referring, Joining
    <3> QED
      BY <1>2, <2>2, <3>1 DEF AcceptMark
  <2> QED
    BY <1>3, <1>6, <2>1, <2>2 DEF Continues, InviteToken, InviteReread, InviteMail, ResendWrite, AcceptJoin,
       ReactivateWrite, Lock, SelectEnd, DowngradePlan, RequestFails, inviteVars
<1>7. ASSUME NEW j \in Invites, Cancel(j) \/ AcceptExpired(j)
      PROVE  status'[i] # "none" /\ email'[i] = email[i]
  BY <1>2, <1>7 DEF Cancel, AcceptExpired
<1> QED
  BY <1>3, <1>5, <1>6, <1>7 DEF Next, RunsOut, Remove, Upgrade, vars, inviteVars

\* Whoever is of the workspace stays of it unless removed.
LEMMA MemberKept ==
  ASSUME TypeInv, [Next]_vars, NEW p \in People, member[p] # "none", ~Remove(p)
  PROVE  member'[p] # "none"
<1>1. member \in [People -> {"none", "active", "seat_locked"}]
  BY DEF TypeInv, TypeOK
<1>2. ASSUME UNCHANGED member PROVE member'[p] # "none"
  BY <1>2
<1>3. ASSUME NEW r \in Requests, Starts(r) PROVE member'[p] # "none"
  BY <1>2, <1>3 DEF Starts, InviteAgain, InviteCount, ReactivateCount, ResendRead, AcceptRead,
     SelectRead, DowngradeRead
<1>4. ASSUME NEW r \in Requests, Continues(r) PROVE member'[p] # "none"
  <2>1. CASE AcceptJoin(r)
    BY <1>1, <2>1 DEF AcceptJoin
  <2>2. CASE ReactivateWrite(r)
    BY <1>1, <2>2 DEF ReactivateWrite
  <2>3. ASSUME NEW q \in People, Lock(r, q) PROVE member'[p] # "none"
    BY <1>1, <2>3 DEF Lock
  <2> QED
    BY <1>2, <1>4, <2>1, <2>2, <2>3 DEF Continues, InviteInsert, InviteToken, InviteReread, InviteMail, ResendWrite,
       AcceptMark, SelectEnd, DowngradePlan, RequestFails
<1>5. ASSUME NEW q \in People, Remove(q) PROVE member'[p] # "none"
  BY <1>1, <1>5 DEF Remove
<1> QED
  BY <1>2, <1>3, <1>4, <1>5 DEF Next, Cancel, AcceptExpired, RunsOut, Upgrade, vars

\* A row is written by an insertion only.
LEMMA WrittenBy ==
  ASSUME TypeInv, Placed, [Next]_vars, NEW i \in Invites, status[i] = "none", status'[i] # "none"
  PROVE  \E r \in Requests : InviteInsert(r) /\ email'[i] = req[r].who
<1>1. status \in [Invites -> {"none", "pending", "over"}] /\ email \in [Invites -> People \cup {None}]
  BY DEF TypeInv, TypeOK
<1>2. Overdue \in SUBSET Pending /\ Overdue \in SUBSET Invites
  BY DEF Overdue, Pending
<1>3. ASSUME NEW rows \in SUBSET Pending, Close(rows) PROVE FALSE
  BY <1>3 DEF Close, Pending
<1>4. ASSUME UNCHANGED status PROVE FALSE
  BY <1>4
<1>5. ASSUME NEW r \in Requests, Starts(r) PROVE FALSE
  BY <1>2, <1>3, <1>4, <1>5 DEF Starts, InviteAgain, InviteCount, ReactivateCount, ResendRead, AcceptRead,
     SelectRead, DowngradeRead, inviteVars
<1>6. ASSUME NEW r \in Requests, InviteInsert(r) PROVE email'[i] = req[r].who
  <2>1. PICK j \in Invites :
              /\ status' = [k \in Invites |-> IF k = j THEN "pending"
                                              ELSE IF k \in Overdue THEN "over" ELSE status[k]]
              /\ email' = [email EXCEPT ![j] = req[r].who]
    BY <1>4, <1>6 DEF InviteInsert, inviteVars
  <2> QED
    BY <1>1, <1>2, <2>1 DEF Pending
<1>7. ASSUME NEW r \in Requests, AcceptMark(r) PROVE FALSE
  <2>1. req[r].inv \in Invites /\ status[req[r].inv] # "none"
    BY <1>7 DEF AcceptMark, At, TypeInv, RowsKnown, Referring, Joining, Placed
  <2> QED
    BY <1>7, <2>1 DEF AcceptMark, Close
<1>8. ASSUME NEW r \in Requests, Continues(r) PROVE InviteInsert(r)
  BY <1>4, <1>7, <1>8 DEF Continues, InviteToken, InviteReread, InviteMail, ResendWrite, AcceptJoin,
     ReactivateWrite, Lock, SelectEnd, DowngradePlan, RequestFails, inviteVars
<1>9. ASSUME NEW j \in Invites, Cancel(j) \/ AcceptExpired(j) PROVE FALSE
  <2>1. {j} \in SUBSET Pending
    BY <1>2, <1>9 DEF Cancel, AcceptExpired
  <2> QED
    BY <1>3, <1>9, <2>1 DEF Cancel, AcceptExpired
<1> QED
  BY <1>4, <1>5, <1>6, <1>8, <1>9 DEF Next, RunsOut, Remove, Upgrade, vars, inviteVars

\* What is used has been written, over one step.
LEMMA PlacedStep == TypeInv /\ Placed /\ [Next]_vars => Placed'
<1> SUFFICES ASSUME TypeInv, Placed, [Next]_vars PROVE Placed'
  OBVIOUS
<1>1. TypeInv'
  BY TypeStep, ReferStep DEF TypeInv
<1>2. Idle.op = "idle"
  BY DEF Idle
<1>3. ASSUME NEW r \in Requests, Joining(r)' PROVE status'[req'[r].inv] # "none"
  <2>1. req'[r].inv \in Invites
    BY <1>1, <1>3 DEF TypeInv, RowsKnown, Referring, Joining
  <2>2. CASE Joining(r) /\ req'[r].inv = req[r].inv
    BY <2>1, <2>2, EmailKept DEF Placed
  <2>3. CASE req[r] = Idle
    <3>1. PICK g \in Requests : Grants(g)
      BY <1>2, <1>3, <2>3, Calls DEF Joining, Same, Turns, AcceptJoin, At
    <3>2. g = r
      BY <1>2, <1>3, <2>3, <3>1 DEF Grants, Joining
    <3>3. req'[r].inv \in Reserved /\ status' = status
      BY <1>3, <3>1, <3>2 DEF Grants, Joining, inviteVars
    <3> QED
      BY <3>3 DEF Reserved, Pending
  <2> QED
    BY <1>2, <1>3, <2>2, <2>3, RequestStep DEF Joining
<1>5. ASSUME NEW i \in Invites, status'[i] # "none" PROVE email'[i] \in People
  <2>1. CASE status[i] # "none"
    BY <2>1, EmailKept DEF Placed
  <2>2. CASE status[i] = "none"
    BY <1>5, <2>2, WrittenBy DEF InviteInsert, At, Placed
  <2> QED
    BY <2>1, <2>2
<1>6. ASSUME NEW r \in Requests, req'[r].op \in {"insert", "reactivate"} PROVE req'[r].who \in People
  <2>1. CASE Same(r)
    BY <1>6, <2>1 DEF Same, Placed
  <2>2. ASSUME NEW g \in Requests, Grants(g) PROVE req'[r].who \in People
    <3>1. CASE r = g
      BY <1>6, <2>2, <3>1 DEF Grants
    <3>2. CASE r # g
      BY <1>6, <2>2, <3>2 DEF Grants, Placed
    <3> QED
      BY <3>1, <3>2
  <2> QED
    BY <1>6, <2>1, <2>2, Calls DEF Turns
<1> QED
  BY <1>3, <1>5, <1>6 DEF Placed

\* Whoever joined and is not yet marked is a member.
LEMMA MarkStep == TypeInv /\ Placed /\ MarkKnown /\ [Next]_vars => MarkKnown'
<1> SUFFICES ASSUME TypeInv, Placed, MarkKnown, [Next]_vars, ~excused',
                    NEW r \in Requests, At(r, "mark")'
             PROVE  member'[email'[req'[r].inv]] # "none"
  BY DEF MarkKnown
<1>1. ~excused /\ req'[r].op = "mark"
  BY ExcusesStay DEF At
<1>2. Idle.op = "idle"
  BY DEF Idle
<1>3. Joining(r) /\ req'[r].inv = req[r].inv
  BY <1>1, <1>2, RequestStep DEF Joining
<1> DEFINE i == req[r].inv
<1>4. i \in Invites /\ status[i] # "none" /\ email[i] \in People
  BY <1>3 DEF TypeInv, RowsKnown, Referring, Joining, Placed
<1>5. email'[i] = email[i]
  BY <1>4, EmailKept
<1>6. CASE At(r, "mark")
  <2>1. member[email[i]] # "none"
    BY <1>1, <1>6 DEF MarkKnown
  <2>2. ~Remove(email[i])
    <3>1. Accepting(i)
      BY <1>3 DEF Accepting
    <3>2. ASSUME Remove(email[i]) PROVE excused'
      BY <1>4, <3>1, <3>2 DEF Remove, Note
    <3> QED
      BY <3>2
  <2> QED
    BY <1>3, <1>4, <1>5, <2>1, <2>2, MemberKept
<1>7. CASE AcceptJoin(r)
  BY <1>3, <1>4, <1>5, <1>7 DEF AcceptJoin, TypeInv, TypeOK
<1>8. ASSUME NEW g \in Requests, Grants(g) PROVE At(r, "mark")
  BY <1>1, <1>8 DEF Grants, At
<1> QED
  BY <1>1, <1>6, <1>7, <1>8, Calls DEF Same, Turns, At

-------------------------------------------------------------------------------

\* While seats are certain, a reserved seat is kept, but by an invitation that is being marked;
\* and nobody is losing it whose link somebody is about to use.
LEMMA ReservedKept ==
  ASSUME TypeInv, [Next]_vars, ~excused', NEW i \in Reserved
  PROVE  \/ i \in Reserved'
         \/ \E r \in Requests : AcceptMark(r) /\ req[r].inv = i
         \/ \A r \in Requests : Joining(r) => req[r].inv # i
<1>1. i \in Invites /\ status[i] = "pending" /\ live[i]
  BY DEF Reserved, Pending
<1>2. /\ status \in [Invites -> {"none", "pending", "over"}] /\ live \in [Invites -> BOOLEAN]
  BY DEF TypeInv, TypeOK
<1> DEFINE Goal == \/ i \in Reserved'
                   \/ \E r \in Requests : AcceptMark(r) /\ req[r].inv = i
                   \/ \A r \in Requests : Joining(r) => req[r].inv # i
<1>3. ASSUME UNCHANGED <<status, live>> PROVE Goal
  BY <1>3 DEF Reserved, Pending
<1>4. ASSUME NEW rows, Close(rows), i \notin rows PROVE Goal
  BY <1>1, <1>4 DEF Close, Reserved, Pending
<1>5. i \notin Overdue
  BY DEF Overdue
<1>6. ASSUME NEW j, UNCHANGED status, live' = [live EXCEPT ![j] = j \in Pending] PROVE Goal
  <2>1. live'[i]
    BY <1>1, <1>2, <1>6 DEF Pending
  <2> QED
    BY <1>1, <1>6, <2>1 DEF Reserved, Pending
<1>7. ASSUME NEW r \in Requests, Starts(r) PROVE Goal
  BY <1>3, <1>4, <1>5, <1>7 DEF Starts, InviteAgain, InviteCount, ReactivateCount, ResendRead, AcceptRead,
     SelectRead, DowngradeRead, inviteVars
<1>8. ASSUME NEW r \in Requests, Continues(r) PROVE Goal
  <2>1. CASE InviteInsert(r)
    <3>1. ASSUME NEW j \in Invites, status[j] = "none",
                 status' = [k \in Invites |-> IF k = j THEN "pending"
                                              ELSE IF k \in Overdue THEN "over" ELSE status[k]],
                 live' = [live EXCEPT ![j] = TRUE]
          PROVE  Goal
      <4>1. status'[i] = "pending" /\ live'[i] = live[i]
        BY <1>1, <1>2, <1>5, <3>1
      <4> QED
        BY <1>1, <4>1 DEF Reserved, Pending
    <3> QED
      BY <1>3, <2>1, <3>1 DEF InviteInsert, inviteVars
  <2>2. CASE AcceptMark(r)
    BY <1>4, <2>2 DEF AcceptMark
  <2>3. CASE InviteToken(r) \/ ResendWrite(r)
    BY <1>6, <2>3 DEF InviteToken, ResendWrite
  <2> HIDE DEF Goal
  <2> QED
    BY <1>3, <1>8, <2>1, <2>2, <2>3 DEF Continues, InviteReread, InviteMail, AcceptJoin, ReactivateWrite, Lock,
       SelectEnd, DowngradePlan, RequestFails, inviteVars
<1>9. ASSUME NEW j \in Invites, Cancel(j) PROVE Goal
  <2>1. CASE i = j
    BY <1>9, <2>1 DEF Cancel, Note, Accepting
  <2>2. CASE i # j
    BY <1>4, <1>9, <2>2 DEF Cancel
  <2> QED
    BY <2>1, <2>2
<1>10. ASSUME NEW j \in Invites, AcceptExpired(j) PROVE Goal
  BY <1>4, <1>5, <1>10 DEF AcceptExpired
<1>11. ASSUME NEW j \in Invites, RunsOut(j) PROVE Goal
  <2>1. CASE i = j
    BY <1>11, <2>1 DEF RunsOut, Note, Accepting
  <2>2. CASE i # j
    <3>1. status' = status /\ live'[i]
      BY <1>1, <1>2, <1>11, <2>2 DEF RunsOut
    <3> QED
      BY <1>1, <3>1 DEF Reserved, Pending
  <2> QED
    BY <2>1, <2>2
<1>12. CASE (\E p \in People : Remove(p)) \/ Upgrade \/ UNCHANGED vars
  <2>1. UNCHANGED <<status, live>>
    BY <1>12 DEF Remove, Upgrade, vars, inviteVars
  <2> QED
    BY <1>3, <2>1
<1>13. ASSUME NEW r \in Requests, Starts(r) \/ Continues(r) PROVE Goal
  BY <1>7, <1>8, <1>13
<1>14. ASSUME NEW j \in Invites, Cancel(j) \/ AcceptExpired(j) \/ RunsOut(j) PROVE Goal
  BY <1>9, <1>10, <1>11, <1>14
<1> QED
  BY <1>12, <1>13, <1>14 DEF Next

\* Somebody about to join has a seat reserved by his invitation.
LEMMA JoinReservedStep ==
  TypeInv /\ Placed /\ OneGiver /\ MarkKnown /\ JoinReserved /\ [Next]_vars => JoinReserved'
<1> SUFFICES ASSUME TypeInv, Placed, OneGiver, MarkKnown, JoinReserved, [Next]_vars,
                    ~excused', NEW r \in Requests, At(r, "join")'
             PROVE  /\ req'[r].inv \in Reserved'
                    /\ \A s \in Requests : At(s, "mark")' => req'[s].inv # req'[r].inv
  BY DEF JoinReserved
<1>1. ~excused /\ req'[r].op = "join" /\ ~excused
  BY ExcusesStay DEF At
<1>2. Idle.op = "idle"
  BY DEF Idle
<1>3. ASSUME NEW g \in Requests, Grants(g)
      PROVE  /\ req'[r].inv \in Reserved'
             /\ \A s \in Requests : At(s, "mark")' => req'[s].inv # req'[r].inv
  <2>1. r = g
    <3>1. r # g => Giving(r)
      BY <1>1, <1>3 DEF Grants, Giving
    <3> QED
      BY <1>3, <3>1, GrantAlone
  <2>2. /\ req'[r].inv \in Reserved /\ member[email[req'[r].inv]] = "none"
        /\ UNCHANGED <<status, live>>
    BY <1>1, <1>3, <2>1 DEF Grants, inviteVars
  <2>3. ASSUME NEW s \in Requests, At(s, "mark")' PROVE req'[s].inv # req'[r].inv
    <3>1. s # r
      BY <1>1, <2>3 DEF At
    <3>2. req'[s] = req[s]
      BY <1>3, <2>1, <3>1 DEF Grants
    <3>3. member[email[req[s].inv]] # "none"
      BY <1>1, <2>3, <3>2 DEF MarkKnown, At
    <3> QED
      BY <2>2, <3>2, <3>3
  <2> QED
    BY <2>2, <2>3 DEF Reserved, Pending
<1>4. ASSUME \A q \in Requests :
              \/ Same(q) \/ Turns(q)
              \/ AcceptJoin(q) /\ req'[q].op = "mark" /\ req'[q].inv = req[q].inv
      PROVE  /\ req'[r].inv \in Reserved'
             /\ \A s \in Requests : At(s, "mark")' => req'[s].inv # req'[r].inv
  <2>1. At(r, "join") /\ req'[r].inv = req[r].inv
    BY <1>1, <1>4 DEF Same, Turns, At
  <2>2. /\ req[r].inv \in Reserved
        /\ \A s \in Requests : At(s, "mark") => req[s].inv # req[r].inv
    BY <1>1, <2>1 DEF JoinReserved
  <2>3. req[r].inv \in Reserved'
    BY <2>1, <2>2, ReservedKept DEF AcceptMark, Joining, At
  <2>4. ASSUME NEW s \in Requests, At(s, "mark")' PROVE req'[s].inv # req'[r].inv
    <3>1. CASE At(s, "mark") /\ req'[s].inv = req[s].inv
      BY <2>1, <2>2, <3>1
    <3>2. CASE At(s, "join")
      <4>1. s = r
        BY <1>1, <2>1, <3>2 DEF OneGiver, Giving, At
      <4> QED
        BY <1>1, <2>4, <4>1 DEF At
    <3> QED
      BY <1>4, <2>4, <3>1, <3>2 DEF Same, Turns, AcceptJoin, At
  <2> QED
    BY <2>1, <2>3, <2>4
<1> QED
  BY <1>3, <1>4, Calls

-------------------------------------------------------------------------------

\* Nobody becomes active but by joining or by being reactivated.
LEMMA ActiveStep ==
  ASSUME TypeInv, [Next]_vars
  PROVE  \/ Active' \subseteq Active
         \/ \E r \in Requests :
              \/ AcceptJoin(r) /\ Active' \subseteq Active \cup {email[req[r].inv]}
              \/ ReactivateWrite(r) /\ Active' \subseteq Active \cup {req[r].who}
<1>1. member \in [People -> {"none", "active", "seat_locked"}]
  BY DEF TypeInv, TypeOK
<1>2. ASSUME UNCHANGED member PROVE Active' \subseteq Active
  BY <1>2 DEF Active
<1>3. ASSUME NEW r \in Requests, Starts(r) PROVE Active' \subseteq Active
  BY <1>2, <1>3 DEF Starts, InviteAgain, InviteCount, ReactivateCount, ResendRead, AcceptRead,
     SelectRead, DowngradeRead
<1>4. ASSUME NEW r \in Requests, AcceptJoin(r)
      PROVE  Active' \subseteq Active \cup {email[req[r].inv]}
  BY <1>1, <1>4 DEF AcceptJoin, Active
<1>5. ASSUME NEW r \in Requests, ReactivateWrite(r)
      PROVE  Active' \subseteq Active \cup {req[r].who}
  BY <1>1, <1>5 DEF ReactivateWrite, Active
<1>6. ASSUME NEW r \in Requests, NEW p \in People, Lock(r, p) PROVE Active' \subseteq Active
  BY <1>1, <1>6 DEF Lock, Active
<1>7. ASSUME NEW p \in People, Remove(p) PROVE Active' \subseteq Active
  BY <1>1, <1>7 DEF Remove, Active
<1>8. ASSUME NEW r \in Requests, Continues(r)
      PROVE  \/ AcceptJoin(r) \/ ReactivateWrite(r) \/ Active' \subseteq Active
  BY <1>2, <1>6, <1>8 DEF Continues, InviteInsert, InviteToken, InviteReread, InviteMail, ResendWrite,
     AcceptMark, SelectEnd, DowngradePlan, RequestFails
<1>9. \/ \E r \in Requests : Starts(r) \/ Continues(r)
      \/ Active' \subseteq Active
  BY <1>2, <1>7 DEF Next, Cancel, AcceptExpired, RunsOut, Upgrade, vars
<1> QED
  BY <1>3, <1>4, <1>5, <1>8, <1>9

\* While seats are certain, no address gets a seat but by an insertion.
LEMMA ReservedStep ==
  ASSUME TypeInv, [Next]_vars, ~excused', NEW i \in Reserved'
  PROVE  \/ i \in Reserved /\ email'[i] = email[i]
         \/ \E r \in Requests : InviteInsert(r) /\ email'[i] = req[r].who
<1>1. i \in Invites /\ status'[i] = "pending" /\ live'[i]
  BY DEF Reserved, Pending
<1>2. /\ status \in [Invites -> {"none", "pending", "over"}] /\ live \in [Invites -> BOOLEAN]
      /\ email \in [Invites -> People \cup {None}]
  BY DEF TypeInv, TypeOK
<1> DEFINE Kept == i \in Reserved /\ email'[i] = email[i]
<1>3. ASSUME UNCHANGED <<status, live, email>> PROVE Kept
  BY <1>1, <1>3 DEF Reserved, Pending
<1>4. ASSUME NEW rows, Close(rows) PROVE Kept
  <2>1. status[i] = "pending" /\ live[i] /\ email' = email
    BY <1>1, <1>4 DEF Close
  <2> QED
    BY <1>1, <2>1 DEF Reserved, Pending
<1>5. ASSUME NEW r \in Requests, InviteToken(r) \/ ResendWrite(r) PROVE Kept
  <2>1. /\ status' = status /\ email' = email /\ Note(req[r].inv \in Overdue)
        /\ live' = [live EXCEPT ![req[r].inv] = req[r].inv \in Pending]
    BY <1>5 DEF InviteToken, ResendWrite
  <2>2. CASE i = req[r].inv
    BY <1>1, <2>1, <2>2 DEF Note, Overdue, Reserved, Pending
  <2>3. CASE i # req[r].inv
    BY <1>1, <1>2, <2>1, <2>3 DEF Reserved, Pending
  <2> QED
    BY <2>2, <2>3
<1>6. ASSUME NEW r \in Requests, InviteInsert(r) PROVE Kept \/ email'[i] = req[r].who
  <2>1. ASSUME NEW j \in Invites,
               status' = [k \in Invites |-> IF k = j THEN "pending"
                                            ELSE IF k \in Overdue THEN "over" ELSE status[k]],
               live' = [live EXCEPT ![j] = TRUE], email' = [email EXCEPT ![j] = req[r].who]
        PROVE  Kept \/ email'[i] = req[r].who
    <3>1. CASE i = j
      BY <1>2, <2>1, <3>1
    <3>2. CASE i # j
      <4>1. status[i] = "pending" /\ live[i] /\ email'[i] = email[i]
        BY <1>1, <1>2, <2>1, <3>2
      <4> QED
        BY <1>1, <4>1 DEF Reserved, Pending
    <3> QED
      BY <3>1, <3>2
  <2> QED
    BY <1>3, <1>6, <2>1 DEF InviteInsert, inviteVars
<1>7. ASSUME NEW r \in Requests, Starts(r) PROVE Kept
  BY <1>3, <1>4, <1>7 DEF Starts, InviteAgain, InviteCount, ReactivateCount, ResendRead, AcceptRead,
     SelectRead, DowngradeRead, inviteVars
<1>8. ASSUME NEW r \in Requests, Continues(r) PROVE Kept \/ InviteInsert(r)
  BY <1>3, <1>4, <1>5, <1>8 DEF Continues, InviteReread, InviteMail, AcceptJoin, AcceptMark, ReactivateWrite,
     Lock, SelectEnd, DowngradePlan, RequestFails, inviteVars
<1>9. ASSUME NEW j \in Invites, Cancel(j) \/ AcceptExpired(j) PROVE Kept
  BY <1>4, <1>9 DEF Cancel, AcceptExpired
<1>10. ASSUME NEW j \in Invites, RunsOut(j) PROVE Kept
  <2>1. status' = status /\ email' = email /\ live' = [live EXCEPT ![j] = FALSE]
    BY <1>10 DEF RunsOut
  <2>2. status[i] = "pending" /\ live[i] /\ email'[i] = email[i]
    BY <1>1, <1>2, <2>1
  <2> QED
    BY <1>1, <2>2 DEF Reserved, Pending
<1>11. (\E r \in Requests : Starts(r) \/ Continues(r)) \/ Kept
  BY <1>3, <1>9, <1>10 DEF Next, Remove, Upgrade, vars, inviteVars
<1> QED
  BY <1>6, <1>7, <1>8, <1>11

\* While seats are certain, the seats in use grow by the one that is being given.
LEMMA HoldersStep ==
  ASSUME TypeInv, JoinReserved, [Next]_vars, ~excused'
  PROVE  \/ Holders' \subseteq Holders
         \/ \E r \in Requests : /\ InviteInsert(r) \/ ReactivateWrite(r)
                                /\ Holders' \subseteq Holders \cup {req[r].who}
<1>1. ~excused
  BY ExcusesStay
<1>2. Holders' = Active' \cup {email'[i] : i \in Reserved'}
  BY DEF Holders
<1>3. Active \subseteq Holders /\ \A i \in Reserved : email[i] \in Holders
  BY DEF Holders
<1>4. CASE \E r \in Requests : InviteInsert(r)
  <2>1. PICK r \in Requests : InviteInsert(r)
    BY <1>4
  <2>2. Active' = Active
    BY <2>1 DEF InviteInsert, Active
  <2>3. \A q \in Requests : InviteInsert(q) => q = r \/ req[q].who = req[r].who
    <3>1. ASSUME NEW q \in Requests, InviteInsert(q)
          PROVE  /\ req[q].op = "insert" /\ req'[q].op # "insert"
                 /\ \A s \in Requests \ {q} : req'[s] = req[s]
      <4>1. req \in [Requests -> RequestType]
        BY DEF TypeInv, TypeOK, RequestType
      <4>2. \/ req' = [req EXCEPT ![q] = Idle]
            \/ \E j \in Invites : req' = [req EXCEPT ![q] = [Idle EXCEPT !.op = "token", !.inv = j]]
        BY <3>1 DEF InviteInsert, End
      <4>3. Idle.op # "insert" /\ \A j \in Invites : [Idle EXCEPT !.op = "token", !.inv = j].op # "insert"
        BY DEF Idle
      <4>4. req[q].op = "insert"
        BY <3>1 DEF InviteInsert, At
      <4> QED
        BY <4>1, <4>2, <4>3, <4>4
    <3> QED
      BY <2>1, <3>1
  <2>4. \A i \in Reserved' : email'[i] \in Holders \cup {req[r].who}
    BY <1>3, <2>3, ReservedStep
  <2> QED
    BY <1>2, <1>3, <2>1, <2>2, <2>4
<1>5. CASE ~\E r \in Requests : InviteInsert(r)
  <2>1. \A i \in Reserved' : email'[i] \in Holders
    BY <1>3, <1>5, ReservedStep
  <2>2. ASSUME NEW r \in Requests, AcceptJoin(r) PROVE email[req[r].inv] \in Holders
    BY <1>1, <1>3, <2>2 DEF AcceptJoin, JoinReserved
  <2>3. \/ Active' \subseteq Holders
        \/ \E r \in Requests : ReactivateWrite(r) /\ Active' \subseteq Holders \cup {req[r].who}
    BY <1>3, <2>2, ActiveStep
  <2> QED
    BY <1>2, <2>1, <2>3
<1> QED
  BY <1>4, <1>5

\* The seats in use are finitely many, and no more than the code counts.
LEMMA HoldersCounted ==
  ASSUME TypeOK
  PROVE  /\ IsFiniteSet(Holders) /\ Cardinality(Holders) \in Nat
         /\ Occupied \in Nat /\ Cardinality(Holders) <= Occupied
<1> DEFINE addresses == {email[i] : i \in Reserved}
<1>1. /\ IsFiniteSet(Active) /\ Cardinality(Active) \in Nat
      /\ IsFiniteSet(Reserved) /\ Cardinality(Reserved) \in Nat
  <2>1. Active \in SUBSET People /\ Reserved \in SUBSET Invites
    BY DEF Active, Reserved, Pending
  <2> QED
    BY <2>1, TeamAssumption, FS_Subset, FS_CardinalityType DEF TeamAssumption
<1>2. IsFiniteSet(addresses) /\ Cardinality(addresses) \in Nat
      /\ Cardinality(addresses) <= Cardinality(Reserved)
  <2>1. [i \in Reserved |-> email[i]] \in Surjection(Reserved, addresses)
    BY DEF Surjection
  <2> QED
    BY <1>1, <2>1, FS_Surjection, FS_CardinalityType
<1>3. /\ IsFiniteSet(Active \cup addresses)
      /\ Cardinality(Active \cup addresses)
           = Cardinality(Active) + Cardinality(addresses) - Cardinality(Active \cap addresses)
  BY <1>1, <1>2, FS_Union
<1>4. Cardinality(Active \cap addresses) \in Nat /\ Cardinality(Active \cup addresses) \in Nat
  <2>1. Active \cap addresses \in SUBSET Active
    OBVIOUS
  <2> QED
    BY <1>1, <1>3, <2>1, FS_Subset, FS_CardinalityType
<1>5. Holders = Active \cup addresses
  BY DEF Holders
<1> HIDE DEF addresses
<1> QED
  BY <1>1, <1>2, <1>3, <1>4, <1>5 DEF Occupied

\* A set with no more than the holders and one other is no greater than they are.
LEMMA NoMore ==
  ASSUME NEW S, IsFiniteSet(S), NEW T, T \subseteq S
  PROVE  IsFiniteSet(T) /\ Cardinality(T) \in Nat /\ Cardinality(T) <= Cardinality(S)
BY FS_Subset, FS_CardinalityType

\* There is room for the seat that is being given, and for those a downgrade spares.
LEMMA RoomStep == TypeInv /\ SeatInv /\ [Next]_vars => Room'
<1> SUFFICES ASSUME TypeInv, SeatInv, [Next]_vars, ~excused' PROVE
        /\ Cardinality(Holders') <= limit'
        /\ \A r \in Requests :
             /\ At(r, "insert")' \/ At(r, "reactivate")' =>
                    Cardinality(Holders' \cup {req'[r].who}) <= limit'
             /\ At(r, "downgrade")' => Cardinality(Active' \ req'[r].todo) <= Low
  BY DEF Room
<1>1. /\ TypeOK /\ OneGiver /\ Placed /\ JoinReserved /\ Room /\ ~excused
      /\ limit \in Nat /\ Low \in Nat /\ High \in Nat /\ limit <= High
  BY ExcusesStay, TeamAssumption DEF TypeInv, TypeOK, SeatInv, TeamAssumption
<1>2. /\ Cardinality(Holders) <= limit
      /\ \A r \in Requests :
             /\ At(r, "insert") \/ At(r, "reactivate") =>
                    Cardinality(Holders \cup {req[r].who}) <= limit
             /\ At(r, "downgrade") => Cardinality(Active \ req[r].todo) <= Low
  BY <1>1 DEF Room
<1>3. /\ IsFiniteSet(Holders) /\ Cardinality(Holders) \in Nat
      /\ Occupied \in Nat /\ Cardinality(Holders) <= Occupied
  BY <1>1, HoldersCounted
<1>4. \A who : /\ IsFiniteSet(Holders \cup {who}) /\ Cardinality(Holders \cup {who}) \in Nat
               /\ Cardinality(Holders \cup {who}) <= Cardinality(Holders) + 1
  <2> SUFFICES ASSUME NEW who
               PROVE  /\ IsFiniteSet(Holders \cup {who}) /\ Cardinality(Holders \cup {who}) \in Nat
                      /\ Cardinality(Holders \cup {who}) <= Cardinality(Holders) + 1
    OBVIOUS
  <2>1. /\ IsFiniteSet(Holders \cup {who})
        /\ Cardinality(Holders \cup {who})
             = IF who \in Holders THEN Cardinality(Holders) ELSE Cardinality(Holders) + 1
    BY <1>3, FS_AddElement
  <2> QED
    BY <1>3, <2>1
<1>5. IsFiniteSet(Active)
  <2>1. Active \subseteq Holders
    BY DEF Holders
  <2> QED
    BY <1>3, <2>1, NoMore
<1>6. ASSUME NEW g \in Requests, Grants(g)
      PROVE  /\ Cardinality(Holders') <= limit'
             /\ \A r \in Requests :
                  /\ At(r, "insert")' \/ At(r, "reactivate")' =>
                         Cardinality(Holders' \cup {req'[r].who}) <= limit'
                  /\ At(r, "downgrade")' => Cardinality(Active' \ req'[r].todo) <= Low
  <2>1. Holders' = Holders /\ Active' = Active /\ limit' = limit
    BY <1>6 DEF Grants, Holders, Active, Reserved, Pending, inviteVars
  <2>2. ASSUME NEW r \in Requests, r # g
        PROVE  /\ At(r, "insert")' \/ At(r, "reactivate")' =>
                         Cardinality(Holders' \cup {req'[r].who}) <= limit'
               /\ At(r, "downgrade")' => Cardinality(Active' \ req'[r].todo) <= Low
    <3>1. req'[r] = req[r]
      BY <1>6, <2>2 DEF Grants
    <3> QED
      BY <1>2, <2>1, <3>1 DEF At
  <2>3. ASSUME At(g, "insert")' \/ At(g, "reactivate")'
        PROVE  Cardinality(Holders' \cup {req'[g].who}) <= limit'
    <3>1. Occupied < limit
      BY <1>6, <2>3 DEF Grants, At
    <3>2. Cardinality(Holders) + 1 <= limit
      BY <1>1, <1>3, <3>1
    <3>3. /\ Cardinality(Holders \cup {req'[g].who}) \in Nat
          /\ Cardinality(Holders \cup {req'[g].who}) <= Cardinality(Holders) + 1
      BY <1>4
    <3>4. Cardinality(Holders \cup {req'[g].who}) <= limit
      BY <1>1, <1>3, <3>2, <3>3
    <3> QED
      BY <2>1, <3>4
  <2>4. ASSUME At(g, "downgrade")' PROVE Cardinality(Active' \ req'[g].todo) <= Low
    <3>1. PICK K \in Keeps : req'[g].todo = Active \ K
      BY <1>6, <2>4 DEF Grants, At
    <3>2. Cardinality(K) <= Low /\ K \subseteq People
      BY TeamAssumption DEF Keeps, Active, TeamAssumption
    <3>3. IsFiniteSet(K) /\ Cardinality(K) \in Nat
      BY <3>2, TeamAssumption, NoMore DEF TeamAssumption
    <3>4. Active' \ req'[g].todo \subseteq K
      BY <2>1, <3>1
    <3> QED
      BY <1>1, <3>2, <3>3, <3>4, NoMore
  <2> QED
    BY <1>2, <2>1, <2>2, <2>3, <2>4
<1>7. ASSUME \A q \in Requests :
              \/ Same(q) \/ Turns(q)
              \/ AcceptJoin(q) /\ req'[q].op = "mark" /\ req'[q].inv = req[q].inv
      PROVE  /\ Cardinality(Holders') <= limit'
             /\ \A r \in Requests :
                  /\ At(r, "insert")' \/ At(r, "reactivate")' =>
                         Cardinality(Holders' \cup {req'[r].who}) <= limit'
                  /\ At(r, "downgrade")' => Cardinality(Active' \ req'[r].todo) <= Low
  <2>1. \/ \E q \in Requests : DowngradePlan(q)
        \/ limit' \in Nat /\ limit <= limit'
    <3>1. limit' = limit \/ limit' = High \/ \E q \in Requests : DowngradePlan(q)
      BY DEF Next, Starts, Continues, InviteAgain, InviteCount, ReactivateCount, ResendRead, AcceptRead,
         SelectRead, DowngradeRead, InviteInsert, InviteToken, InviteReread, InviteMail, ResendWrite, AcceptJoin,
         AcceptMark, ReactivateWrite, Lock, SelectEnd, RequestFails, Cancel,
         AcceptExpired, RunsOut, Remove, Upgrade, vars
    <3> QED
      BY <1>1, <3>1
  <2>2. ASSUME NEW r \in Requests, Giving(r)'
        PROVE  Same(r) /\ Giving(r) /\ \A q \in Requests : Giving(q) => q = r
    BY <1>1, <1>7, <2>2 DEF Giving, Same, Turns, OneGiver
  <2>3. ASSUME NEW q \in Requests, InviteInsert(q) \/ ReactivateWrite(q) \/ AcceptJoin(q) \/ DowngradePlan(q)
        PROVE  \A r \in Requests : ~Giving(r)'
    <3>1. Giving(q)
      BY <2>3 DEF InviteInsert, ReactivateWrite, AcceptJoin, DowngradePlan, At, Giving
    <3>2. ~Giving(q)'
      <4>1. req \in [Requests -> RequestType]
        BY <1>1 DEF TypeOK, RequestType
      <4>2. CASE End(q)
        BY <4>1, <4>2 DEF End, Idle, Giving
      <4>3. ASSUME NEW j \in Invites, req' = [req EXCEPT ![q] = [Idle EXCEPT !.op = "token", !.inv = j]]
            PROVE  ~Giving(q)'
        <5>1. req'[q].op = "token"
          BY <4>1, <4>3 DEF Idle
        <5> QED
          BY <5>1 DEF Giving
      <4>4. CASE AcceptJoin(q)
        BY <4>1, <4>4 DEF AcceptJoin, Continue, Giving, RequestType
      <4> QED
        BY <2>3, <4>2, <4>3, <4>4 DEF InviteInsert, ReactivateWrite, DowngradePlan
    <3> QED
      BY <2>2, <3>1, <3>2
  <2>4. Cardinality(Holders') <= limit'
    <3>1. ASSUME NEW q \in Requests, DowngradePlan(q) PROVE Cardinality(Holders') <= limit'
      <4>1. limit' = Low /\ req[q].todo = {} /\ At(q, "downgrade") /\ Active' = Active
        BY <3>1 DEF DowngradePlan, Active
      <4>2. Reserved' = {}
        BY <3>1 DEF DowngradePlan, Note, Reserved, Pending, inviteVars
      <4>3. Holders' = Active \ req[q].todo
        BY <4>1, <4>2 DEF Holders
      <4> QED
        BY <1>2, <4>1, <4>3
    <3>2. CASE Holders' \subseteq Holders /\ ~\E q \in Requests : DowngradePlan(q)
      BY <1>1, <1>2, <1>3, <2>1, <3>2, NoMore
    <3>3. ASSUME NEW q \in Requests, InviteInsert(q) \/ ReactivateWrite(q),
                 Holders' \subseteq Holders \cup {req[q].who}
          PROVE  Cardinality(Holders') <= limit'
      <4>1. Cardinality(Holders \cup {req[q].who}) <= limit /\ limit' = limit
        BY <1>2, <3>3 DEF InviteInsert, ReactivateWrite
      <4>2. /\ IsFiniteSet(Holders \cup {req[q].who}) /\ Cardinality(Holders \cup {req[q].who}) \in Nat
        BY <1>4
      <4>3. /\ Cardinality(Holders') \in Nat
            /\ Cardinality(Holders') <= Cardinality(Holders \cup {req[q].who})
        BY <3>3, <4>2, NoMore
      <4> QED
        BY <1>1, <4>1, <4>2, <4>3
    <3> QED
      BY <1>1, <3>1, <3>2, <3>3, HoldersStep
  <2>5. ASSUME NEW r \in Requests, At(r, "insert")' \/ At(r, "reactivate")'
        PROVE  Cardinality(Holders' \cup {req'[r].who}) <= limit'
    <3>1. Giving(r)'
      BY <2>5 DEF At, Giving
    <3>2. Same(r) /\ (At(r, "insert") \/ At(r, "reactivate"))
      BY <2>2, <2>5, <3>1 DEF Same, At
    <3>3. Holders' \subseteq Holders
      BY <1>1, <2>3, <3>1, HoldersStep
    <3>4. Holders' \cup {req'[r].who} \subseteq Holders \cup {req[r].who}
      BY <3>2, <3>3 DEF Same
    <3>5. limit' \in Nat /\ limit <= limit'
      BY <2>1, <2>3, <3>1
    <3>6. Cardinality(Holders \cup {req[r].who}) <= limit
      BY <1>2, <3>2
    <3>7. /\ IsFiniteSet(Holders \cup {req[r].who}) /\ Cardinality(Holders \cup {req[r].who}) \in Nat
      BY <1>4
    <3>8. /\ Cardinality(Holders' \cup {req'[r].who}) \in Nat
          /\ Cardinality(Holders' \cup {req'[r].who}) <= Cardinality(Holders \cup {req[r].who})
      BY <3>4, <3>7, NoMore
    <3> QED
      BY <1>1, <3>5, <3>6, <3>7, <3>8
  <2>6. ASSUME NEW r \in Requests, At(r, "downgrade")'
        PROVE  Cardinality(Active' \ req'[r].todo) <= Low
    <3>1. Giving(r)'
      BY <2>6 DEF At, Giving
    <3>2. Same(r) /\ At(r, "downgrade")
      BY <2>2, <2>6, <3>1 DEF Same, At
    <3>3. Active' \subseteq Active
      BY <2>3, <3>1, ActiveStep
    <3>4. Active' \ req'[r].todo \subseteq Active \ req[r].todo
      <4>1. ASSUME NEW p \in People, Lock(r, p)
            PROVE  req'[r].todo = req[r].todo \ {p} /\ p \notin Active'
        BY <1>1, <4>1 DEF Lock, Active, TypeOK
      <4> QED
        BY <3>2, <3>3, <4>1 DEF Same
    <3>5. IsFiniteSet(Active \ req[r].todo) /\ Cardinality(Active \ req[r].todo) \in Nat
      BY <1>5, NoMore
    <3>6. Cardinality(Active \ req[r].todo) <= Low
      BY <1>2, <3>2
    <3> QED
      BY <1>1, <3>4, <3>5, <3>6, NoMore
  <2> QED
    BY <2>4, <2>5, <2>6
<1> QED
  BY <1>6, <1>7, Calls

-------------------------------------------------------------------------------

\* An invitation that is over stays over.
LEMMA OverStays ==
  ASSUME TypeInv, [Next]_vars, NEW i \in Pending', status[i] # "none"
  PROVE  i \in Pending
<1>1. i \in Invites /\ status'[i] = "pending"
  BY DEF Pending
<1>2. status \in [Invites -> {"none", "pending", "over"}]
  BY DEF TypeInv, TypeOK
<1>3. ASSUME UNCHANGED status PROVE i \in Pending
  BY <1>1, <1>3 DEF Pending
<1>4. ASSUME NEW rows, Close(rows) PROVE i \in Pending
  BY <1>1, <1>4 DEF Close, Pending
<1>5. ASSUME NEW r \in Requests, Starts(r) PROVE i \in Pending
  BY <1>3, <1>4, <1>5 DEF Starts, InviteAgain, InviteCount, ReactivateCount, ResendRead, AcceptRead,
     SelectRead, DowngradeRead, inviteVars
<1>6. ASSUME NEW r \in Requests, InviteInsert(r) PROVE i \in Pending
  <2>1. ASSUME NEW j \in Invites, status[j] = "none",
               status' = [k \in Invites |-> IF k = j THEN "pending"
                                            ELSE IF k \in Overdue THEN "over" ELSE status[k]]
        PROVE  i \in Pending
    BY <1>1, <1>2, <2>1 DEF Pending
  <2> QED
    BY <1>3, <1>6, <2>1 DEF InviteInsert, inviteVars
<1>7. ASSUME NEW r \in Requests, Continues(r) PROVE i \in Pending
  BY <1>3, <1>4, <1>6, <1>7 DEF Continues, InviteToken, InviteReread, InviteMail, ResendWrite, AcceptJoin,
     AcceptMark, ReactivateWrite, Lock, SelectEnd, DowngradePlan, RequestFails, inviteVars
<1>8. (\E r \in Requests : Starts(r) \/ Continues(r)) \/ i \in Pending
  BY <1>3, <1>4 DEF Next, Cancel, AcceptExpired, RunsOut, Remove, Upgrade, vars, inviteVars
<1> QED
  BY <1>5, <1>7, <1>8

\* Who has joined somebody marks the invitation, or fails.
LEMMA MarkEnds ==
  ASSUME TypeInv, [Next]_vars, NEW s \in Requests, At(s, "mark")
  PROVE  AcceptMark(s) \/ RequestFails(s) \/ (At(s, "mark")' /\ req'[s].inv = req[s].inv)
<1>1. req \in [Requests -> RequestType] /\ req[s].op = "mark" /\ Idle.op = "idle"
  BY DEF TypeInv, TypeOK, RequestType, At, Idle
<1> DEFINE Stays == req'[s].op = "mark" /\ req'[s].inv = req[s].inv
<1>2. ASSUME UNCHANGED req PROVE Stays
  BY <1>1, <1>2
<1>3. ASSUME NEW r \in Requests, Starts(r) PROVE Stays
  <2>1. req[r] = Idle /\ \A q \in Requests \ {r} : req'[q] = req[q]
    BY <1>1, <1>3 DEF Starts, InviteAgain, InviteCount, ReactivateCount, ResendRead, AcceptRead,
       SelectRead, DowngradeRead, Begin
  <2> QED
    BY <1>1, <2>1
<1>4. ASSUME NEW r \in Requests, Continues(r), r # s PROVE Stays
  <2>1. CASE InviteToken(r)
    BY <1>1, <1>4, <2>1 DEF InviteToken, RequestType
  <2>2. CASE ~InviteToken(r)
    <3>1. req'[s] = req[s]
      BY <1>1, <1>4, <2>2 DEF Continues, InviteInsert, InviteReread, InviteMail, ResendWrite, AcceptJoin,
         AcceptMark, ReactivateWrite, Lock, SelectEnd, DowngradePlan, RequestFails, End, Continue
    <3> QED
      BY <1>1, <3>1
  <2> QED
    BY <2>1, <2>2
<1>5. ASSUME Continues(s) PROVE AcceptMark(s) \/ RequestFails(s)
  BY <1>1, <1>5 DEF Continues, InviteInsert, InviteToken, InviteReread, InviteMail, ResendWrite, AcceptJoin,
       ReactivateWrite, Lock, SelectEnd, DowngradePlan, At
<1> QED
  BY <1>2, <1>3, <1>4, <1>5 DEF Next, Cancel, AcceptExpired, RunsOut, Remove, Upgrade, vars, At

\* What a step does to the counts of one invitation.
LEMMA CountStep ==
  ASSUME TypeInv, [Next]_vars, NEW i \in Invites
  PROVE  /\ torn'[i] = torn[i] \/ torn'[i] = torn[i] + 1
         /\ \/ joins'[i] = joins[i]
            \/ \E r \in Requests : /\ AcceptJoin(r) /\ req[r].inv = i /\ member[email[i]] = "none"
                                   /\ joins'[i] = joins[i] + 1 /\ torn' = torn
<1>1. joins \in [Invites -> Nat] /\ torn \in [Invites -> Nat]
  BY DEF TypeInv, TypeOK
<1>2. torn' = torn \/ \E rows : Tear(rows)
  BY DEF Next, Starts, Continues, InviteAgain, InviteCount, ReactivateCount, ResendRead, AcceptRead,
     SelectRead, DowngradeRead, InviteInsert, InviteToken, InviteReread, InviteMail, ResendWrite,
     AcceptJoin, AcceptMark, ReactivateWrite, Lock, SelectEnd, DowngradePlan, RequestFails, Cancel,
     AcceptExpired, RunsOut, Remove, Upgrade, vars, history
<1>3. joins' = joins \/ \E r \in Requests : AcceptJoin(r)
  BY DEF Next, Starts, Continues, InviteAgain, InviteCount, ReactivateCount, ResendRead, AcceptRead,
     SelectRead, DowngradeRead, InviteInsert, InviteToken, InviteReread, InviteMail, ResendWrite,
     AcceptMark, ReactivateWrite, Lock, SelectEnd, DowngradePlan, RequestFails, Cancel,
     AcceptExpired, RunsOut, Remove, Upgrade, vars, history
<1>4. ASSUME NEW r \in Requests, AcceptJoin(r)
      PROVE  \/ joins'[i] = joins[i]
             \/ /\ req[r].inv = i /\ member[email[i]] = "none"
                /\ joins'[i] = joins[i] + 1 /\ torn' = torn
  BY <1>1, <1>4 DEF AcceptJoin
<1> QED
  BY <1>1, <1>2, <1>3, <1>4 DEF Tear

\* What is used up stays so, unless another of its acceptances is lost.
LEMMA UsedUpKept ==
  ASSUME TypeInv, Placed, [Next]_vars, NEW i \in Invites, UsedUp(i), torn'[i] = torn[i]
  PROVE  UsedUp(i)'
<1>1. torn[i] \in Nat /\ torn'[i] # torn[i] + 1
  BY DEF TypeInv, TypeOK
<1>2. status[i] # "none" /\ email[i] \in People
  BY DEF UsedUp, Placed, Joining, At
<1>3. email'[i] = email[i] /\ status'[i] # "none"
  BY <1>2, EmailKept
<1>4. ASSUME member[email[i]] # "none", Accepting(i) PROVE member'[email[i]] # "none"
  <2>1. ~Remove(email[i])
    BY <1>1, <1>4 DEF Remove, Tear
  <2> QED
    BY <1>2, <1>4, <2>1, MemberKept
<1>5. ASSUME NEW r \in Requests, At(r, "mark"), req[r].inv = i, member[email[i]] # "none"
      PROVE  UsedUp(i)'
  <2>1. member'[email'[i]] # "none"
    BY <1>3, <1>4, <1>5 DEF Accepting, Joining, At
  <2>2. ~RequestFails(r)
    BY <1>1, <1>5 DEF RequestFails, Tear
  <2>3. CASE AcceptMark(r)
    <3>1. status'[i] = "over"
      BY <1>5, <2>3 DEF AcceptMark, Close
    <3> QED
      BY <2>1, <3>1 DEF UsedUp
  <2>4. CASE At(r, "mark")' /\ req'[r].inv = req[r].inv
    BY <1>5, <2>1, <2>4 DEF UsedUp
  <2> QED
    BY <1>5, <2>2, <2>3, <2>4, MarkEnds
<1>6. ASSUME status[i] = "over",
             (\E r \in Requests : At(r, "join") /\ req[r].inv = i) => member[email[i]] # "none"
      PROVE  UsedUp(i)'
  <2>1. status'[i] = "over"
    <3>1. i \notin Pending'
      BY <1>2, <1>6, OverStays DEF Pending
    <3>2. status'[i] \in {"none", "pending", "over"}
      BY TypeStep DEF TypeOK
    <3> QED
      BY <1>3, <3>1, <3>2 DEF Pending
  <2>2. ASSUME NEW r \in Requests, At(r, "join")', req'[r].inv = i PROVE member'[email'[i]] # "none"
    <3>1. At(r, "join") /\ req[r].inv = i
      <4>1. ASSUME NEW g \in Requests, Grants(g) PROVE r # g /\ req'[r] = req[r]
        <5>1. i \notin Reserved
          BY <1>6 DEF Reserved, Pending
        <5> QED
          BY <2>2, <4>1, <5>1 DEF Grants, At
      <4> QED
        BY <2>2, <4>1, Calls DEF Same, Turns, At
    <3> QED
      BY <1>3, <1>4, <1>6, <3>1 DEF Accepting, Joining, At
  <2> QED
    BY <2>1, <2>2 DEF UsedUp
<1> QED
  BY <1>5, <1>6 DEF UsedUp

\* An invitation lets in one more than it lost acceptances.
LEMMA JoinsStep == TypeInv /\ Placed /\ JoinsPaid /\ [Next]_vars => JoinsPaid'
<1> SUFFICES ASSUME TypeInv, Placed, JoinsPaid, [Next]_vars, NEW i \in Invites
             PROVE  joins'[i] <= torn'[i] \/ (joins'[i] <= torn'[i] + 1 /\ UsedUp(i)')
  BY DEF JoinsPaid
<1>1. joins[i] \in Nat /\ torn[i] \in Nat
  BY DEF TypeInv, TypeOK
<1>2. joins[i] <= torn[i] \/ (joins[i] <= torn[i] + 1 /\ UsedUp(i))
  BY DEF JoinsPaid
<1>3. CASE joins'[i] = joins[i] /\ torn'[i] = torn[i]
  BY <1>2, <1>3, UsedUpKept
<1>4. CASE joins'[i] = joins[i] /\ torn'[i] = torn[i] + 1
  BY <1>1, <1>2, <1>4
<1>5. ASSUME NEW r \in Requests, AcceptJoin(r), req[r].inv = i, member[email[i]] = "none",
             joins'[i] = joins[i] + 1, torn' = torn
      PROVE  joins'[i] <= torn'[i] + 1 /\ UsedUp(i)'
  <2>1. ~UsedUp(i)
    BY <1>5 DEF UsedUp, AcceptJoin
  <2>2. member'[email[i]] = "active" /\ email' = email
    <3>1. email[i] \in People
      BY <1>5 DEF AcceptJoin, At, Placed, Joining
    <3> QED
      BY <1>5, <3>1 DEF AcceptJoin, TypeInv, TypeOK, inviteVars
  <2>3. At(r, "mark")' /\ req'[r].inv = i
    BY <1>5 DEF AcceptJoin, Continue, At, TypeInv, TypeOK
  <2>4. UsedUp(i)'
    BY <2>2, <2>3 DEF UsedUp
  <2> QED
    BY <1>1, <1>2, <1>5, <2>1, <2>4
<1> QED
  BY <1>3, <1>4, <1>5, CountStep

-------------------------------------------------------------------------------

\* Seats are given one at a time, by requests that see them free.
THEOREM SeatsInvariant == Spec => []SeatInv
<1>1. Init => SeatInv
  <2> SUFFICES ASSUME Init PROVE SeatInv
    OBVIOUS
  <2>1. \A r \in Requests : req[r].op = "idle"
    BY DEF Init, Idle
  <2>2. OneGiver /\ MarkKnown /\ JoinReserved
    BY <2>1 DEF OneGiver, MarkKnown, JoinReserved, Giving, At
  <2>3. Placed
    BY <2>1 DEF Init, Placed, Joining
  <2>4. Room
    <3>1. Holders = {Owner}
      <4>1. Reserved = {} /\ Active = {Owner}
        BY TeamAssumption DEF Init, Reserved, Pending, Active, TeamAssumption
      <4> QED
        BY <4>1 DEF Holders
    <3>2. Cardinality(Holders) <= limit
      <4>1. Cardinality({Owner}) = 1
        BY FS_Singleton, Zenon
      <4>2. High \in Nat \ {0} /\ limit = High
        BY TeamAssumption DEF Init, TeamAssumption
      <4> QED
        BY <3>1, <4>1, <4>2
    <3> QED
      BY <2>1, <3>2 DEF Room, At
  <2> QED
    BY <2>2, <2>3, <2>4 DEF SeatInv
<1>2. TypeInv /\ SeatInv /\ [Next]_vars => SeatInv'
  BY OneGiverStep, PlacedStep, MarkStep, JoinReservedStep, RoomStep DEF SeatInv
<1> QED
  BY <1>1, <1>2, TeamTypeInvariant, PTL DEF Spec

\* Whoever holds a seat fits the plan, through every crash of a request, unless something that
\* SeatsHold names happened: requests that rely on a free seat overlapped, an invitation ended
\* or its person was removed while accepting it, one that had run out was revived, or a
\* downgrade found some pending.
THEOREM SeatsHoldAlways == Spec => []SeatsHold
<1>1. SeatInv => SeatsHold
  BY DEF SeatInv, Room, SeatsHold
<1> QED
  BY <1>1, SeatsInvariant, PTL

\* An invitation lets its person in once, and once more for each acceptance that stopped before
\* marking it or that a removal of the person overlapped; nothing else is excused.
THEOREM OneJoinPerInviteHolds == Spec => []OneJoinPerInvite
<1>1. Init => JoinsPaid
  BY DEF Init, JoinsPaid
<1>2. TypeInv /\ SeatInv /\ JoinsPaid /\ [Next]_vars => JoinsPaid'
  BY JoinsStep DEF SeatInv
<1>3. TypeInv /\ JoinsPaid => OneJoinPerInvite
  <2> SUFFICES ASSUME TypeInv, JoinsPaid, NEW i \in Invites PROVE joins[i] <= 1 + torn[i]
    BY DEF OneJoinPerInvite
  <2>1. joins[i] \in Nat /\ torn[i] \in Nat
    BY DEF TypeInv, TypeOK
  <2> QED
    BY <2>1 DEF JoinsPaid
<1> QED
  BY <1>1, <1>2, <1>3, TeamTypeInvariant, SeatsInvariant, PTL DEF Spec
===============================================================================
