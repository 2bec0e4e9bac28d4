---------------------------- MODULE ImportWatchProofs ----------------------------
(***************************************************************************)
(* What ImportWatch guarantees for any number of jobs, any limit of the list  *)
(* and any number of requests at a time, so also for lists that are full.     *)
(* ActiveIsWatched is about the moment a list arrives that is as long as the   *)
(* one it replaces: nothing looks then at what it holds.  It is kept because   *)
(* such a list has the same jobs and none newly active (Ordered): jobs that    *)
(* have ended stay so, and lists arrive in the order of their answers, or the  *)
(* page is excused.                                                           *)
(***************************************************************************)
EXTENDS ImportWatch, FiniteSetTheorems, TLAPS

RequestType == [at : {"idle", "sent", "judged", "lost", "asked", "answered"},
                act : Actions \cup {"none"}, job : Jobs \cup {None}, list : Lists]

\* b is later than a: nothing is gone from it, and nothing is newly active.
Newer(a, b) ==
    \A j \in Jobs : a[j] # "none" => b[j] # "none" /\ (b[j] = "active" => a[j] = "active")

Answered == {r \in Requests : request[r].at = "answered"}

\* Of two answers that have not arrived, one is the older.
Arrivals ==
    /\ \A r \in Requests : older[r] \subseteq Answered
    /\ \A r, q \in Answered : r # q => q \in older[r] \/ r \in older[q]

Ordered ==
    /\ Newer(shown, Latest)
    /\ \A r \in Answered : Newer(shown, request[r].list) /\ Newer(request[r].list, Latest)
    /\ \A r, q \in Answered : q \in older[r] => Newer(request[q].list, request[r].list)

\* An action on its way is one, and the API has let it through for a job that is there.
SentActs ==
    \A r \in Requests :
        /\ request[r].at \in {"sent", "judged", "lost"} => request[r].act \in Actions
        /\ request[r].at \in {"sent", "judged"} => request[r].job \in Jobs
        /\ request[r].at = "judged" => request[r].job \in Created

TypeInv == TypeOK /\ SentActs

FollowInv == Arrivals /\ (unfollowed \/ Ordered) /\ ActiveIsWatched

-------------------------------------------------------------------------------

\* Requests keep to their type.
LEMMA RequestTypes ==
  /\ Idle \in RequestType /\ Load \in RequestType
  /\ Idle.at = "idle" /\ Load.at = "asked" /\ Idle.act = "none" /\ Load.act = "none"
<1>1. Empty \in Lists
  BY DEF Empty, Lists
<1> QED
  BY <1>1 DEF Idle, Load, RequestType

LEMMA LatestType == TypeOK => Latest \in Lists
BY DEF TypeOK, Latest, Lists

LEMMA ClearType ==
  ASSUME TypeOK, NEW act, Clear(act)
  PROVE  actionJob' \in Jobs \cup {None} /\ undoingJob' \in Jobs \cup {None}
BY DEF TypeOK, Clear

\* What becomes of a job keeps it in the table.
LEMMA RowType ==
  ASSUME TypeOK, NEW j \in Jobs, NEW s \in Statuses, RowBecomes(j, s)
  PROVE  status' \in Lists /\ unfollowed' \in BOOLEAN /\ Created \subseteq Created'
<1>1. status' = [status EXCEPT ![j] = s] /\ status \in Lists /\ s # "none"
  BY DEF RowBecomes, TypeOK, Statuses
<1>2. status' \in Lists
  BY <1>1 DEF Lists
<1>3. Created \subseteq Created'
  BY <1>1 DEF Created, Lists
<1> QED
  BY <1>2, <1>3 DEF RowBecomes, GoesUnseen, TypeOK

\* A request that is replaced by a well-formed one.
LEMMA SetRequest ==
  ASSUME TypeInv, NEW r \in Requests, NEW e \in RequestType, e.at \notin {"sent", "judged"},
         e.at = "lost" => e.act \in Actions,
         request' = [request EXCEPT ![r] = e], Created \subseteq Created'
  PROVE  request' \in [Requests -> RequestType] /\ SentActs'
<1>1. request \in [Requests -> RequestType]
  BY DEF TypeInv, TypeOK, RequestType
<1>2. request'[r] = e /\ \A q \in Requests : q # r => request'[q] = request[q]
  BY <1>1
<1> QED
  BY <1>1, <1>2 DEF TypeInv, SentActs

\* An action that was carried out asks for the list, or gets no answer: for the same row.
LEMMA ActionAnswered ==
  ASSUME TypeInv, NEW r \in Requests, Write(r)
  PROVE  \E e \in RequestType :
           /\ e.at \in {"asked", "lost"} /\ e.act = request[r].act /\ e.job = request[r].job
           /\ request' = [request EXCEPT ![r] = e]
<1>1. request \in [Requests -> RequestType]
  BY DEF TypeInv, TypeOK, RequestType
<1>2. PICK s \in {"asked", "lost"} : request' = [request EXCEPT ![r].at = s]
  BY DEF Write
<1> DEFINE e == [request[r] EXCEPT !.at = s]
<1>3. e \in RequestType /\ e.at = s /\ e.act = request[r].act /\ e.job = request[r].job
  BY <1>1 DEF RequestType
<1>4. request' = [request EXCEPT ![r] = e]
  BY <1>2
<1> HIDE DEF e
<1> QED
  BY <1>3, <1>4

\* The variables keep to their types, and actions under way are actions.
LEMMA TypeStep == TypeInv /\ [Next]_vars => TypeInv'
<1> SUFFICES ASSUME TypeInv, [Next]_vars PROVE TypeInv'
  OBVIOUS
<1>1. TypeOK /\ SentActs /\ request \in [Requests -> RequestType]
  BY DEF TypeInv, TypeOK, RequestType
<1>2. Idle.at = "idle" /\ Load.at = "asked"
  BY RequestTypes
<1>0. status' = status => Created' = Created
  BY DEF Created
<1>3. ASSUME NEW r \in Requests, Answer(r) PROVE TypeInv'
  <2>1. [request[r] EXCEPT !.at = "answered", !.list = Latest] \in RequestType
    BY <1>1, LatestType DEF RequestType
  <2>2. request' \in [Requests -> RequestType]
    BY <1>1, <1>3, <2>1 DEF Answer
  <2>3. older' \in [Requests -> SUBSET Requests]
    BY <1>1, <1>3 DEF Answer, TypeOK
  <2>4. SentActs'
    <3>1. Created' = Created
      BY <1>0, <1>3 DEF Answer
    <3>2. /\ request'[r].at = "answered"
          /\ \A q \in Requests : q # r => request'[q] = request[q]
      BY <1>1, <1>3, <2>1 DEF Answer, RequestType
    <3> QED
      BY <1>1, <3>1, <3>2 DEF SentActs
  <2> QED
    BY <1>1, <1>3, <2>2, <2>3, <2>4 DEF TypeInv, TypeOK, Answer, pageVars, history, RequestType
<1>4. ASSUME NEW r \in Requests, Show(r) PROVE TypeInv'
  <2>1. request' \in [Requests -> RequestType] /\ SentActs'
    <3>1. request' = [request EXCEPT ![r] = Load]
          \/ request' = [request EXCEPT ![r] = Idle]
      BY <1>4 DEF Show, Effect
    <3>2. Created' = Created
      BY <1>0, <1>4 DEF Show
    <3> QED
      BY <1>2, <3>1, <3>2, RequestTypes, SetRequest
  <2>2. older' \in [Requests -> SUBSET Requests]
    BY <1>1, <1>4 DEF Show, Arrived, TypeOK
  <2>3. shown' \in Lists
    BY <1>1, <1>4 DEF Show, RequestType
  <2>4. polling' \in BOOLEAN
    BY <1>1, <1>4 DEF Show, Effect, HasActive, TypeOK
  <2> QED
    BY <1>1, <1>4, <2>1, <2>2, <2>3, <2>4, ClearType DEF TypeInv, TypeOK, Show, RequestType, Sorted
<1>5. ASSUME NEW r \in Requests, LoadFails(r) \/ Fails(r) PROVE TypeInv'
  <2>1. request' \in [Requests -> RequestType] /\ SentActs'
    <3>1. request' = [request EXCEPT ![r] = Idle] /\ Created' = Created
      BY <1>0, <1>5 DEF LoadFails, Fails
    <3> QED
      BY <1>2, <3>1, RequestTypes, SetRequest
  <2>2. older' \in [Requests -> SUBSET Requests]
    BY <1>1, <1>5 DEF LoadFails, Fails, Arrived, TypeOK
  <2> QED
    BY <1>1, <1>5, <2>1, <2>2, ClearType DEF TypeInv, TypeOK, LoadFails, Fails, RequestType, Sorted
<1>6. ASSUME NEW r \in Requests, Poll(r) \/ Refresh(r) PROVE TypeInv'
  <2>1. request' \in [Requests -> RequestType] /\ SentActs'
    <3>1. request' = [request EXCEPT ![r] = Load] /\ Created' = Created
      BY <1>0, <1>6 DEF Poll, Refresh
    <3> QED
      BY <1>2, <3>1, RequestTypes, SetRequest
  <2> QED
    BY <1>1, <1>6, <2>1 DEF TypeInv, TypeOK, Poll, Refresh, RequestType, pageVars, history
<1>7. ASSUME NEW r \in Requests, Upload(r) PROVE TypeInv'
  <2>1. status' \in Lists /\ unfollowed' \in BOOLEAN /\ Created \subseteq Created'
    BY <1>1, <1>7, RowType DEF Upload
  <2>2. request' \in [Requests -> RequestType] /\ SentActs'
    BY <1>2, <1>7, <2>1, RequestTypes, SetRequest DEF Upload
  <2> QED
    BY <1>1, <1>7, <2>1, <2>2 DEF TypeInv, TypeOK, Upload, RequestType, pageVars
<1>8. ASSUME NEW r \in Requests, NEW act \in Actions, NEW j \in Jobs, Press(r, act, j)
      PROVE  TypeInv'
  <2>1. [at |-> "sent", act |-> act, job |-> j, list |-> Empty] \in RequestType
    BY DEF RequestType, Empty, Lists
  <2>2. request' \in [Requests -> RequestType] /\ SentActs'
    <3>1. Created' = Created
      BY <1>0, <1>8 DEF Press
    <3> QED
      BY <1>1, <1>8, <2>1, <3>1 DEF Press, SentActs
  <2> QED
    <3>1. mixed' \subseteq Kinds
      BY <1>1, <1>8 DEF TypeOK, Press, OfKind, Kind, Kinds
    <3>2. actionJob' \in Jobs \cup {None} /\ undoingJob' \in Jobs \cup {None}
      BY <1>1, <1>8 DEF TypeOK, Press
    <3>3. UNCHANGED <<status, shown, polling, older, unfollowed>>
      BY <1>8 DEF Press
    <3> QED
      BY <1>1, <2>2, <3>1, <3>2, <3>3 DEF TypeInv, TypeOK, RequestType
<1>9. ASSUME NEW r \in Requests, Judge(r) PROVE TypeInv'
  <2>1. [request[r] EXCEPT !.at = "judged"] \in RequestType
    BY <1>1 DEF RequestType
  <2>2. request' \in [Requests -> RequestType]
    BY <1>1, <1>9, <2>1 DEF Judge
  <2>3. SentActs'
    <3>1. request[r].act \in Actions /\ request[r].job \in Jobs
      BY <1>1, <1>9 DEF Judge, SentActs
    <3>2. request[r].job \in Created
      BY <1>9, <3>1 DEF Judge, Allowed, Actions, RowActions, Created
    <3>3. Created' = Created
      BY <1>0, <1>9 DEF Judge
    <3>4. /\ request'[r].act = request[r].act /\ request'[r].job = request[r].job
          /\ \A q \in Requests : q # r => request'[q] = request[q]
      BY <1>1, <1>9 DEF Judge, RequestType
    <3> QED
      BY <1>1, <3>1, <3>2, <3>3, <3>4 DEF SentActs
  <2> QED
    BY <1>1, <1>9, <2>2, <2>3 DEF TypeInv, TypeOK, Judge, RequestType, pageVars, history
<1>10. ASSUME NEW r \in Requests, Write(r) PROVE TypeInv'
  <2>1. request[r].act \in Actions /\ request[r].job \in Jobs
    BY <1>1, <1>10 DEF Write, SentActs
  <2>2. Outcome(request[r].act) \in Statuses
    BY <2>1 DEF Outcome, Statuses, Actions, RowActions
  <2>3. status' \in Lists /\ unfollowed' \in BOOLEAN /\ Created \subseteq Created'
    <3>1. CASE UNCHANGED <<status, unfollowed>>
      BY <1>0, <1>1, <3>1 DEF TypeOK
    <3>2. CASE RowBecomes(request[r].job, Outcome(request[r].act))
      BY <1>1, <2>1, <2>2, <3>2, RowType
    <3> QED
      BY <1>10, <3>1, <3>2 DEF Write
  <2>4. request' \in [Requests -> RequestType] /\ SentActs'
    <3>1. PICK e \in RequestType : /\ e.at \in {"asked", "lost"} /\ e.act = request[r].act
                                  /\ request' = [request EXCEPT ![r] = e]
      BY <1>10, ActionAnswered
    <3> QED
      BY <2>1, <2>3, <3>1, SetRequest
  <2> QED
    BY <1>1, <1>10, <2>3, <2>4 DEF TypeInv, TypeOK, Write, RequestType, pageVars
<1>12. ASSUME NEW j \in Jobs, NEW s \in Statuses, Elsewhere(j, s) PROVE TypeInv'
  <2>1. status' \in Lists /\ unfollowed' \in BOOLEAN /\ Created \subseteq Created'
    BY <1>1, <1>12, RowType DEF Elsewhere
  <2>2. UNCHANGED <<pageVars, request, older, mixed>>
    BY <1>12 DEF Elsewhere
  <2>3. SentActs'
    BY <1>1, <2>1, <2>2 DEF SentActs
  <2> QED
    BY <1>1, <2>1, <2>2, <2>3 DEF TypeInv, TypeOK, pageVars
<1>11. CASE UNCHANGED vars
  BY <1>0, <1>1, <1>11 DEF TypeInv, TypeOK, SentActs, vars, pageVars, history
<1> QED
  BY <1>3, <1>4, <1>5, <1>6, <1>7, <1>8, <1>9, <1>10, <1>11, <1>12 DEF Next, List, User

-------------------------------------------------------------------------------

\* Newer is a preorder.
LEMMA NewerTransitive ==
  ASSUME NEW a, NEW b, NEW c, Newer(a, b), Newer(b, c)
  PROVE  Newer(a, c)
BY DEF Newer

\* Two lists of the same length, one newer than the other, hold the same jobs: if a job is active in
\* the newer one, it was in the older.
LEMMA SameLength ==
  ASSUME NEW a \in Lists, NEW b \in Lists, Newer(a, b), Length(a) = Length(b), HasActive(b)
  PROVE  HasActive(a)
<1> DEFINE A == {j \in Jobs : a[j] # "none"}
           B == {j \in Jobs : b[j] # "none"}
<1>1. IsFiniteSet(Jobs)
  BY WatchAssumption, FS_Interval DEF WatchAssumption, Jobs
<1>2. A \subseteq B /\ IsFiniteSet(B)
  BY <1>1, FS_Subset DEF Newer
<1>3. Cardinality(A) = Cardinality(B)
  BY DEF Length
<1>4. A = B
  BY <1>2, <1>3, FS_Subset
<1>5. PICK j \in Jobs : b[j] = "active"
  BY DEF HasActive
<1>6. a[j] # "none"
  BY <1>4, <1>5
<1> QED
  BY <1>5, <1>6 DEF Newer, HasActive

\* Jobs that end leave a newer list.
LEMMA EndsAreNewer ==
  ASSUME \A j \in Jobs : /\ (status'[j] = "none") = (status[j] = "none")
                         /\ status'[j] = "active" => status[j] = "active"
  PROVE  Newer(Latest, Latest')
<1>1. Created' = Created
  BY DEF Created
<1> QED
  BY <1>1 DEF Latest, Newer

\* So does an upload that finds the list not full: nothing drops off.
LEMMA UploadIsNewer ==
  ASSUME TypeOK, NEW j \in Jobs \ Created, NEW s \in Statuses, Cardinality(Created) < Limit,
         status' = [status EXCEPT ![j] = s]
  PROVE  Newer(Latest, Latest')
<1>1. IsFiniteSet(Jobs) /\ Created \in SUBSET Jobs /\ IsFiniteSet(Created)
  <2>1. IsFiniteSet(Jobs)
    BY WatchAssumption, FS_Interval DEF WatchAssumption, Jobs
  <2>2. Created \in SUBSET Jobs
    BY DEF Created
  <2> QED
    BY <2>1, <2>2, FS_Subset
<1>2. Created' = Created \cup {j} /\ j \notin Created
  BY DEF TypeOK, Lists, Created, Statuses
<1>3. IsFiniteSet(Created') /\ Cardinality(Created') = Cardinality(Created) + 1
      /\ Cardinality(Created) \in Nat
  BY <1>1, <1>2, FS_AddElement, FS_CardinalityType
<1>4. ASSUME NEW k \in Created' PROVE Latest'[k] = status'[k]
  <2> DEFINE Above == {m \in Created' : m > k}
  <2>1. Above \subseteq Created' \ {k}
    BY <1>1, <1>2 DEF Jobs
  <2>2. IsFiniteSet(Created' \ {k}) /\ Cardinality(Created' \ {k}) = Cardinality(Created') - 1
    BY <1>3, FS_RemoveElement
  <2>3. Cardinality(Above) <= Cardinality(Created' \ {k}) /\ Cardinality(Above) \in Nat
    BY <2>1, <2>2, FS_Subset, FS_CardinalityType
  <2>4. Cardinality(Above) < Limit
    BY <1>3, <2>2, <2>3, WatchAssumption DEF WatchAssumption
  <2> QED
    BY <1>1, <1>2, <2>4 DEF Latest
<1>5. \A k \in Created : status'[k] = status[k]
  BY <1>2 DEF TypeOK, Lists, Created
<1>6. \A k \in Jobs : Latest[k] # "none" => k \in Created /\ Latest[k] = status[k]
  BY DEF Latest, Created
<1> QED
  BY <1>2, <1>4, <1>5, <1>6 DEF Newer, Created

-------------------------------------------------------------------------------

\* Whatever becomes of a job, the page is excused or the list is a newer one.
LEMMA RowsMoveOn ==
  ASSUME TypeOK, NEW j \in Jobs, NEW s \in Statuses, RowBecomes(j, s)
  PROVE  /\ unfollowed => unfollowed'
         /\ unfollowed' \/ Newer(Latest, Latest')
<1>1. /\ status' = [status EXCEPT ![j] = s]
      /\ unfollowed' = (unfollowed \/ GoesUnseen(j, s))
  BY DEF RowBecomes
<1>2. ASSUME ~GoesUnseen(j, s), j \in Created PROVE Newer(Latest, Latest')
  <2>1. status[j] \in Statuses /\ (s = "active" => status[j] = "active")
    BY <1>2 DEF GoesUnseen, Created, TypeOK, Lists, Statuses
  <2>2. \A k \in Jobs : status'[k] = IF k = j THEN s ELSE status[k]
    BY <1>1 DEF TypeOK, Lists
  <2>3. \A k \in Jobs : /\ (status'[k] = "none") = (status[k] = "none")
                        /\ status'[k] = "active" => status[k] = "active"
    BY <2>1, <2>2 DEF Statuses
  <2> QED
    BY <2>3, EndsAreNewer
<1>3. ASSUME ~GoesUnseen(j, s), j \notin Created PROVE Newer(Latest, Latest')
  <2>1. IsFiniteSet(Created) /\ Cardinality(Created) \in Nat
    <3>1. IsFiniteSet(Jobs)
      BY WatchAssumption, FS_Interval DEF WatchAssumption, Jobs
    <3>2. Created \in SUBSET Jobs
      BY DEF Created
    <3> QED
      BY <3>1, <3>2, FS_Subset, FS_CardinalityType
  <2>2. ~(Cardinality(Created) >= Limit)
    BY <1>3 DEF GoesUnseen
  <2>3. Cardinality(Created) < Limit
    BY <2>1, <2>2, WatchAssumption DEF WatchAssumption
  <2> QED
    BY <1>1, <1>3, <2>3, UploadIsNewer
<1> QED
  BY <1>1, <1>2, <1>3

\* Steps that neither take nor bring an answer keep FollowInv, if the jobs only end meanwhile.
LEMMA Undisturbed ==
  ASSUME TypeInv, FollowInv, NEW r \in Requests, NEW e,
         request' = [request EXCEPT ![r] = e], request[r].at # "answered", e.at # "answered",
         UNCHANGED <<shown, polling, older>>, unfollowed => unfollowed',
         unfollowed' \/ Newer(Latest, Latest')
  PROVE  FollowInv'
<1>1. request \in [Requests -> RequestType]
  BY DEF TypeInv, TypeOK, RequestType
<1>2. Answered' = Answered /\ \A q \in Answered : request'[q] = request[q]
  BY <1>1 DEF Answered
<1>3. Arrivals'
  BY <1>2 DEF FollowInv, Arrivals
<1>4. ActiveIsWatched'
  BY DEF FollowInv, ActiveIsWatched, HasActive
<1>5. ASSUME ~unfollowed' PROVE Ordered'
  <2>1. Ordered /\ Newer(Latest, Latest')
    BY <1>5 DEF FollowInv
  <2>2. Newer(shown, Latest')
    BY <2>1, NewerTransitive DEF Ordered
  <2>3. \A q \in Answered : Newer(request[q].list, Latest')
    BY <2>1, NewerTransitive DEF Ordered
  <2>4. \A p, q \in Answered : p \in older[q] => Newer(request[p].list, request[q].list)
    BY <2>1 DEF Ordered
  <2> HIDE DEF Newer, Latest
  <2> QED
    BY <1>2, <2>1, <2>2, <2>3, <2>4 DEF Ordered
<1> QED
  BY <1>3, <1>4, <1>5 DEF FollowInv

\* A request that is awaited no more leaves the others in their order.
LEMMA OthersKeepOrder ==
  ASSUME TypeInv, Arrivals, NEW r \in Requests, NEW e, Arrived(r),
         request' = [request EXCEPT ![r] = e], e.at # "answered"
  PROVE  /\ Arrivals'
         /\ Answered' = Answered \ {r}
         /\ \A q \in Answered' : request'[q] = request[q] /\ older'[q] = older[q] \ {r}
<1>1. request \in [Requests -> RequestType]
  BY DEF TypeInv, TypeOK, RequestType
<1>2. Answered' = Answered \ {r} /\ \A q \in Answered' : request'[q] = request[q]
  BY <1>1 DEF Answered
<1>3. \A q \in Requests : older'[q] = IF q = r THEN {} ELSE older[q] \ {r}
  BY DEF Arrived
<1>4. \A q \in Requests : older'[q] \subseteq Answered'
  BY <1>2, <1>3 DEF Arrivals
<1>5. \A p, q \in Answered' : p # q => q \in older'[p] \/ p \in older'[q]
  BY <1>2, <1>3 DEF Arrivals, Answered
<1> QED
  BY <1>2, <1>3, <1>4, <1>5 DEF Arrivals, Answered

\* Lists that arrive, and lists that are taken from the server.
LEMMA FollowStep == TypeInv /\ FollowInv /\ [Next]_vars => FollowInv'
<1> SUFFICES ASSUME TypeInv, FollowInv, [Next]_vars PROVE FollowInv'
  OBVIOUS
<1>1. request \in [Requests -> RequestType] /\ unfollowed \in BOOLEAN /\ TypeOK
  BY DEF TypeInv, TypeOK, RequestType
<1>2. Idle.at = "idle" /\ Load.at = "asked"
  BY RequestTypes
<1>3. status' = status => Latest' = Latest /\ Newer(Latest, Latest')
  BY DEF Latest, Created, Newer
<1>4. ASSUME NEW r \in Requests, Answer(r) PROVE FollowInv'
  <2>1. /\ Answered' = Answered \cup {r} /\ r \notin Answered
        /\ request'[r].list = Latest
        /\ \A q \in Answered : request'[q] = request[q]
    BY <1>1, <1>4 DEF Answer, Answered, RequestType
  <2>2. /\ older'[r] = Answered
        /\ \A q \in Requests : q # r => older'[q] = older[q]
    BY <1>1, <1>4 DEF Answer, TypeOK, Answered
  <2>3. Arrivals'
    <3>1. \A q \in Requests : older'[q] \subseteq Answered'
      BY <2>1, <2>2 DEF FollowInv, Arrivals
    <3>2. ASSUME NEW p \in Answered', NEW q \in Answered', p # q
          PROVE  q \in older'[p] \/ p \in older'[q]
      <4>1. CASE p = r
        BY <2>1, <2>2, <3>2, <4>1
      <4>2. CASE q = r
        BY <2>1, <2>2, <3>2, <4>2
      <4>3. CASE p # r /\ q # r
        BY <2>1, <2>2, <3>2, <4>3 DEF FollowInv, Arrivals, Answered
      <4> QED
        BY <4>1, <4>2, <4>3
    <3> QED
      BY <3>1, <3>2 DEF Arrivals
  <2>4. ASSUME Ordered PROVE Ordered'
    <3>1. Newer(shown, Latest) /\ \A q \in Answered : Newer(request[q].list, Latest)
      BY <2>4 DEF Ordered
    <3>2. shown' = shown /\ Latest' = Latest /\ Newer(Latest, Latest)
      BY <1>3, <1>4 DEF Answer, pageVars
    <3>3. ASSUME NEW p \in Answered', NEW q \in Answered', p \in older'[q]
          PROVE  Newer(request'[p].list, request'[q].list)
      <4>1. CASE q = r
        BY <2>1, <2>2, <3>1, <3>3, <4>1
      <4>2. CASE q # r
        <5>1. q \in Answered /\ p \in older[q] /\ p \in Answered
          BY <2>1, <2>2, <3>3, <4>2 DEF FollowInv, Arrivals, Answered
        <5> QED
          BY <2>1, <2>4, <5>1 DEF Ordered
      <4> QED
        BY <4>1, <4>2
    <3>4. \A q \in Answered' : Newer(shown, request'[q].list) /\ Newer(request'[q].list, Latest)
      BY <2>1, <2>4, <3>1, <3>2 DEF Ordered
    <3> HIDE DEF Latest, Newer
    <3> QED
      BY <3>1, <3>2, <3>3, <3>4 DEF Ordered
  <2>5. ActiveIsWatched' /\ unfollowed' = unfollowed
    BY <1>4 DEF FollowInv, ActiveIsWatched, HasActive, Answer, pageVars, history
  <2> QED
    BY <2>3, <2>4, <2>5 DEF FollowInv
<1>5. ASSUME NEW r \in Requests, Show(r) PROVE FollowInv'
  <2>1. PICK e : request' = [request EXCEPT ![r] = e] /\ e.at # "answered"
    <3>1. request' = [request EXCEPT ![r] = Load]
          \/ request' = [request EXCEPT ![r] = Idle]
      BY <1>5 DEF Show, Effect
    <3> QED
      BY <1>2, <3>1
  <2>2. /\ Arrivals'
        /\ Answered' = Answered \ {r}
        /\ \A q \in Answered' : request'[q] = request[q] /\ older'[q] = older[q] \ {r}
    BY <1>5, <2>1, OthersKeepOrder DEF Show, FollowInv
  <2>3. r \in Answered /\ shown' = request[r].list /\ Latest' = Latest
    BY <1>3, <1>5 DEF Show, Answered
  <2>4. ASSUME ~unfollowed' PROVE Ordered /\ Ordered' /\ ~unfollowed /\ Newer(shown, shown')
    <3>1. Ordered /\ ~unfollowed /\ older[r] = {}
      BY <1>5, <2>4 DEF Show, FollowInv
    <3>2. Newer(shown, request[r].list) /\ Newer(request[r].list, Latest)
      BY <2>3, <3>1 DEF Ordered
    <3>3. \A q \in Answered' : Newer(request[r].list, request[q].list)
      BY <2>2, <2>3, <3>1 DEF Ordered, FollowInv, Arrivals
    <3>4. \A q \in Answered' : Newer(request'[q].list, Latest)
      BY <2>2, <3>1 DEF Ordered
    <3>5. \A p, q \in Answered' :
             p \in older'[q] => Newer(request'[p].list, request'[q].list)
      BY <2>2, <3>1 DEF Ordered
    <3> HIDE DEF Latest, Newer
    <3>6. Ordered'
      BY <2>2, <2>3, <3>2, <3>3, <3>4, <3>5 DEF Ordered
    <3> QED
      BY <2>3, <3>1, <3>2, <3>6
  <2>5. ActiveIsWatched'
    <3>1. CASE Length(shown') # Length(shown)
      BY <1>5, <3>1 DEF Show, Effect, ActiveIsWatched, HasActive
    <3>2. CASE Length(shown') = Length(shown)
      <4>1. polling' = polling
        BY <1>5, <3>2 DEF Show
      <4>2. shown \in Lists /\ shown' \in Lists
        BY <1>1, <2>3 DEF TypeOK, RequestType
      <4>3. ASSUME HasActive(shown'), ~unfollowed' PROVE polling
        BY <2>4, <3>2, <4>2, <4>3, SameLength DEF FollowInv, ActiveIsWatched
      <4>4. HasActive(shown)' <=> HasActive(shown')
        BY DEF HasActive
      <4> QED
        BY <4>1, <4>3, <4>4 DEF ActiveIsWatched
    <3> QED
      BY <3>1, <3>2
  <2> QED
    BY <2>2, <2>4, <2>5 DEF FollowInv
<1>6. ASSUME NEW r \in Requests, LoadFails(r) PROVE FollowInv'
  <2>1. /\ Arrivals'
        /\ Answered' = Answered \ {r}
        /\ \A q \in Answered' : request'[q] = request[q] /\ older'[q] = older[q] \ {r}
    BY <1>2, <1>6, OthersKeepOrder DEF LoadFails, FollowInv
  <2>2. UNCHANGED <<shown, polling, unfollowed>> /\ Latest' = Latest
    BY <1>3, <1>6 DEF LoadFails
  <2>3. ASSUME Ordered PROVE Ordered'
    <3>1. Newer(shown, Latest)
          /\ \A q \in Answered : Newer(shown, request[q].list) /\ Newer(request[q].list, Latest)
      BY <2>3 DEF Ordered
    <3>2. \A p, q \in Answered' :
             p \in older'[q] => Newer(request'[p].list, request'[q].list)
      BY <2>1, <2>3 DEF Ordered
    <3> HIDE DEF Latest, Newer
    <3> QED
      BY <2>1, <2>2, <3>1, <3>2 DEF Ordered
  <2>4. ActiveIsWatched'
    BY <2>2 DEF FollowInv, ActiveIsWatched, HasActive
  <2> QED
    BY <2>1, <2>2, <2>3, <2>4 DEF FollowInv
<1>7. ASSUME NEW r \in Requests, Poll(r) \/ Refresh(r) PROVE FollowInv'
  BY <1>2, <1>3, <1>7, Undisturbed DEF Poll, Refresh, pageVars, history
<1>8. ASSUME NEW r \in Requests, Upload(r) PROVE FollowInv'
  <2>1. PICK j \in Jobs, s \in Statuses : RowBecomes(j, s)
    BY <1>8 DEF Upload
  <2>2. (unfollowed => unfollowed') /\ (unfollowed' \/ Newer(Latest, Latest'))
    BY <1>1, <2>1, RowsMoveOn
  <2>3. /\ request' = [request EXCEPT ![r] = Load] /\ request[r].at = "idle"
        /\ UNCHANGED <<shown, polling, older>>
    BY <1>2, <1>8 DEF Upload, pageVars
  <2> QED
    BY <1>2, <2>2, <2>3, Undisturbed
<1>9. ASSUME NEW r \in Requests, NEW act \in Actions, NEW j \in Jobs, Press(r, act, j)
      PROVE  FollowInv'
  <2> DEFINE e == [at |-> "sent", act |-> act, job |-> j, list |-> Empty]
  <2>1. e.at = "sent" /\ request' = [request EXCEPT ![r] = e] /\ request[r].at = "idle"
    BY <1>2, <1>9 DEF Press
  <2>2. UNCHANGED <<status, shown, polling, older, unfollowed>>
    BY <1>9 DEF Press
  <2> HIDE DEF e
  <2> QED
    BY <1>3, <2>1, <2>2, Undisturbed
<1>10. ASSUME NEW r \in Requests, Write(r) PROVE FollowInv'
  <2>1. request[r].act \in Actions /\ request[r].job \in Jobs
    BY <1>10 DEF TypeInv, SentActs, Write
  <2>2. (unfollowed => unfollowed') /\ (unfollowed' \/ Newer(Latest, Latest'))
    <3>1. CASE UNCHANGED <<status, unfollowed>>
      BY <1>3, <3>1
    <3>2. CASE RowBecomes(request[r].job, Outcome(request[r].act))
      <4>1. Outcome(request[r].act) \in Statuses
        BY <2>1 DEF Outcome, Statuses, Actions, RowActions
      <4> QED
        BY <1>1, <2>1, <3>2, <4>1, RowsMoveOn
    <3> QED
      BY <1>10, <3>1, <3>2 DEF Write
  <2>3. request[r].at = "judged" /\ UNCHANGED <<shown, polling, older>>
    BY <1>10 DEF Write, pageVars
  <2>4. PICK e \in RequestType : request' = [request EXCEPT ![r] = e] /\ e.at # "answered"
    BY <1>10, ActionAnswered
  <2> QED
    BY <2>2, <2>3, <2>4, Undisturbed
<1>14. ASSUME NEW r \in Requests, Judge(r) PROVE FollowInv'
  <2> DEFINE e == [request[r] EXCEPT !.at = "judged"]
  <2>1. e.at = "judged" /\ request' = [request EXCEPT ![r] = e] /\ request[r].at = "sent"
    BY <1>1, <1>14 DEF Judge, RequestType
  <2>2. UNCHANGED <<status, shown, polling, older, unfollowed>>
    BY <1>14 DEF Judge, pageVars, history
  <2> HIDE DEF e
  <2> QED
    BY <1>3, <2>1, <2>2, Undisturbed
<1>11. ASSUME NEW r \in Requests, Fails(r) PROVE FollowInv'
  BY <1>2, <1>3, <1>11, Undisturbed DEF Fails
<1>12. ASSUME NEW j \in Jobs, NEW s \in Statuses, Elsewhere(j, s) PROVE FollowInv'
  <2>1. RowBecomes(j, s) /\ UNCHANGED <<shown, polling, older, request>>
    BY <1>12 DEF Elsewhere, pageVars
  <2>2. (unfollowed => unfollowed') /\ (unfollowed' \/ Newer(Latest, Latest'))
    BY <1>1, <2>1, RowsMoveOn
  <2>4. Answered' = Answered /\ Arrivals' /\ ActiveIsWatched'
    BY <2>1, <2>2 DEF Answered, FollowInv, Arrivals, ActiveIsWatched, HasActive
  <2>5. ASSUME ~unfollowed' PROVE Ordered'
    <3>0. Ordered
      BY <2>2, <2>5 DEF FollowInv
    <3>1. Newer(shown, Latest') /\ \A q \in Answered : Newer(request[q].list, Latest')
      BY <2>2, <2>5, <3>0, NewerTransitive DEF Ordered
    <3>2. /\ \A q \in Answered : Newer(shown, request[q].list)
          /\ \A p, q \in Answered : p \in older[q] => Newer(request[p].list, request[q].list)
      BY <3>0 DEF Ordered
    <3> HIDE DEF Latest, Newer
    <3> QED
      BY <2>1, <2>4, <3>1, <3>2 DEF Ordered
  <2> QED
    BY <2>4, <2>5 DEF FollowInv
<1>13. CASE UNCHANGED vars
  <2>1. UNCHANGED <<shown, polling, older, request, unfollowed>> /\ Latest' = Latest
    BY <1>3, <1>13 DEF vars, pageVars, history
  <2> HIDE DEF Latest, Newer
  <2> QED
    BY <2>1 DEF FollowInv, Arrivals, Ordered, ActiveIsWatched, HasActive, Answered
<1> QED
  BY <1>4, <1>5, <1>6, <1>7, <1>8, <1>9, <1>10, <1>11, <1>12, <1>13, <1>14 DEF Next, List, User

-------------------------------------------------------------------------------

\* A request whose action is over: its button is enabled again, and the other kind is left alone.
LEMMA ActionEnds ==
  ASSUME TypeInv, ButtonsFollow, NEW r \in Requests, NEW e, e.act = "none",
         request' = [request EXCEPT ![r] = e],
         Clear(request[r].act), Sorted(r)
  PROVE  ButtonsFollow'
<1>1. request \in [Requests -> RequestType]
  BY DEF TypeInv, TypeOK, RequestType
<1>2. /\ UnderWay' = UnderWay \ {r}
      /\ \A q \in UnderWay' : request'[q] = request[q]
  BY <1>1 DEF UnderWay
<1> SUFFICES ASSUME NEW k \in Kinds
             PROVE  /\ Disabled(k)' # None => \E q \in OfKind(k)' : request'[q].job = Disabled(k)'
                    /\ k \in mixed' \/ \A q \in OfKind(k)' :
                          OfKind(k)' = {q} /\ Disabled(k)' = request'[q].job
  BY DEF ButtonsFollow
<1>3. OfKind(k)' = OfKind(k) \ {r} /\ \A q \in OfKind(k)' : request'[q] = request[q]
  BY <1>2 DEF OfKind
<1>4. /\ Disabled(k) # None => \E q \in OfKind(k) : request[q].job = Disabled(k)
      /\ k \in mixed \/ \A q \in OfKind(k) : OfKind(k) = {q} /\ Disabled(k) = request[q].job
  BY DEF ButtonsFollow
<1>5. OfKind(k)' # {} /\ k \in mixed => k \in mixed'
  BY <1>3 DEF Sorted
<1>6. CASE r \in OfKind(k)
  <2>1. Disabled(k)' = None
    <3>1. request[r].act \in Actions /\ Kind(request[r].act) = k
      BY <1>1, <1>6 DEF OfKind, UnderWay, RequestType
    <3> QED
      BY <3>1 DEF Kind, Actions, RowActions, Clear, Disabled
  <2>2. k \in mixed \/ OfKind(k)' = {}
    BY <1>3, <1>4, <1>6
  <2> QED
    BY <1>5, <2>1, <2>2
<1>7. CASE r \notin OfKind(k)
  <2>1. Disabled(k)' = Disabled(k)
    <3>1. request[r].act = "none" \/ Kind(request[r].act) # k
      BY <1>7 DEF OfKind, UnderWay
    <3>2. request[r].act \in Actions \cup {"none"}
      BY <1>1 DEF RequestType
    <3> QED
      BY <3>1, <3>2 DEF Kind, Kinds, Actions, RowActions, Clear, Disabled
  <2>2. OfKind(k)' = OfKind(k)
    BY <1>3, <1>7
  <2> QED
    BY <1>3, <1>4, <1>5, <2>1, <2>2
<1> QED
  BY <1>6, <1>7

\* A request that goes on with the same action, for the same row, disturbs no button.
LEMMA ActionGoesOn ==
  ASSUME TypeInv, ButtonsFollow, NEW r \in Requests, NEW e,
         e.act = request[r].act, e.act # "none" => e.job = request[r].job,
         request' = [request EXCEPT ![r] = e],
         UNCHANGED <<actionJob, undoingJob, mixed>>
  PROVE  ButtonsFollow'
<1>1. request \in [Requests -> RequestType]
  BY DEF TypeInv, TypeOK, RequestType
<1>2. \A q \in Requests : /\ request'[q].act = request[q].act
                          /\ request[q].act # "none" => request'[q].job = request[q].job
  BY <1>1
<1>3. \A k \in Kinds : /\ OfKind(k)' = OfKind(k) /\ Disabled(k)' = Disabled(k)
                       /\ \A q \in OfKind(k) : request'[q].job = request[q].job
  BY <1>2 DEF OfKind, UnderWay, Disabled
<1> QED
  BY <1>3 DEF ButtonsFollow

\* The buttons over one step.
LEMMA ButtonStep == TypeInv /\ ButtonsFollow /\ [Next]_vars => ButtonsFollow'
<1> SUFFICES ASSUME TypeInv, ButtonsFollow, [Next]_vars PROVE ButtonsFollow'
  OBVIOUS
<1>1. request \in [Requests -> RequestType]
  BY DEF TypeInv, TypeOK, RequestType
<1>2. Idle.act = "none" /\ Load.act = "none"
  BY RequestTypes
<1>3. ASSUME NEW r \in Requests, Answer(r) PROVE ButtonsFollow'
  <2> DEFINE e == [request[r] EXCEPT !.at = "answered", !.list = Latest]
  <2>1. /\ e.act = request[r].act /\ e.job = request[r].job
        /\ request' = [request EXCEPT ![r] = e]
    BY <1>1, <1>3 DEF Answer, RequestType
  <2> HIDE DEF e
  <2> QED
    BY <1>3, <2>1, ActionGoesOn DEF Answer, pageVars, history
<1>4. ASSUME NEW r \in Requests, Show(r) PROVE ButtonsFollow'
  <2>1. request' = [request EXCEPT ![r] = Load]
        \/ request' = [request EXCEPT ![r] = Idle]
    BY <1>4 DEF Show, Effect
  <2> QED
    BY <1>2, <1>4, <2>1, ActionEnds DEF Show
<1>5. ASSUME NEW r \in Requests, LoadFails(r) \/ Fails(r) PROVE ButtonsFollow'
  BY <1>2, <1>5, ActionEnds DEF LoadFails, Fails
<1>6. ASSUME NEW r \in Requests, Poll(r) \/ Refresh(r) PROVE ButtonsFollow'
  <2>1. /\ request[r].act = "none" /\ request' = [request EXCEPT ![r] = Load]
        /\ UNCHANGED <<actionJob, undoingJob, mixed>>
    BY <1>2, <1>6 DEF Poll, Refresh, pageVars, history
  <2> QED
    BY <1>2, <2>1, ActionGoesOn
<1>7. ASSUME NEW r \in Requests, Upload(r) PROVE ButtonsFollow'
  <2>1. /\ request[r].act = "none" /\ request' = [request EXCEPT ![r] = Load]
        /\ UNCHANGED <<actionJob, undoingJob, mixed>>
    BY <1>2, <1>7 DEF Upload, pageVars
  <2> QED
    BY <1>2, <2>1, ActionGoesOn
<1>8. ASSUME NEW r \in Requests, NEW act \in Actions, NEW j \in Jobs, Press(r, act, j)
      PROVE  ButtonsFollow'
  <2> DEFINE e == [at |-> "sent", act |-> act, job |-> j, list |-> Empty]
  <2>1. /\ e.act = act /\ e.job = j /\ act # "none"
        /\ request' = [request EXCEPT ![r] = e] /\ request[r].act = "none"
    BY <1>2, <1>8 DEF Press, Actions, RowActions
  <2> HIDE DEF e
  <2>2. /\ UnderWay' = UnderWay \cup {r} /\ r \notin UnderWay
        /\ request'[r].act = act /\ request'[r].job = j
        /\ \A q \in UnderWay : request'[q] = request[q]
    BY <1>1, <2>1 DEF UnderWay
  <2> SUFFICES ASSUME NEW k \in Kinds
               PROVE  /\ Disabled(k)' # None => \E q \in OfKind(k)' : request'[q].job = Disabled(k)'
                      /\ k \in mixed' \/ \A q \in OfKind(k)' :
                            OfKind(k)' = {q} /\ Disabled(k)' = request'[q].job
    BY DEF ButtonsFollow
  <2>3. /\ Disabled(k) # None => \E q \in OfKind(k) : request[q].job = Disabled(k)
        /\ k \in mixed \/ \A q \in OfKind(k) : OfKind(k) = {q} /\ Disabled(k) = request[q].job
    BY DEF ButtonsFollow
  <2>4. mixed \subseteq mixed'
    BY <1>8 DEF Press
  <2>5. CASE k = Kind(act)
    <3>1. OfKind(k)' = OfKind(k) \cup {r} /\ \A q \in OfKind(k) : request'[q] = request[q]
      BY <2>2, <2>5 DEF OfKind
    <3>2. Disabled(k)' = j /\ Disabled(k) # j
      BY <1>8, <2>5 DEF Press, Enabled, Disabled, Kind, Actions, RowActions
    <3>3. ASSUME k \notin mixed' PROVE OfKind(k) = {}
      <4>1. \A q \in OfKind(k) : request[q].job = j
        BY <1>8, <2>5, <3>3 DEF Press, OfKind
      <4> QED
        BY <2>3, <2>4, <3>2, <3>3, <4>1
    <3> QED
      BY <2>2, <3>1, <3>2, <3>3
  <2>6. CASE k # Kind(act)
    <3>1. OfKind(k)' = OfKind(k) /\ \A q \in OfKind(k) : request'[q] = request[q]
      BY <2>2, <2>6 DEF OfKind
    <3>2. Disabled(k)' = Disabled(k)
      BY <1>8, <2>6 DEF Press, Disabled, Kind, Kinds, Actions, RowActions
    <3> QED
      BY <2>3, <2>4, <3>1, <3>2
  <2> QED
    BY <2>5, <2>6
<1>9. ASSUME NEW r \in Requests, Write(r) PROVE ButtonsFollow'
  <2>2. UNCHANGED <<actionJob, undoingJob, mixed>>
    BY <1>9 DEF Write, pageVars
  <2>3. PICK e \in RequestType : /\ e.act = request[r].act /\ e.job = request[r].job
                                /\ request' = [request EXCEPT ![r] = e]
    BY <1>9, ActionAnswered
  <2> QED
    BY <2>2, <2>3, ActionGoesOn
<1>11. ASSUME NEW r \in Requests, Judge(r) PROVE ButtonsFollow'
  <2> DEFINE e == [request[r] EXCEPT !.at = "judged"]
  <2>1. /\ e.act = request[r].act /\ e.job = request[r].job
        /\ request' = [request EXCEPT ![r] = e]
    BY <1>1, <1>11 DEF Judge, RequestType
  <2>2. UNCHANGED <<actionJob, undoingJob, mixed>>
    BY <1>11 DEF Judge, pageVars, history
  <2> HIDE DEF e
  <2> QED
    BY <2>1, <2>2, ActionGoesOn
<1>10. CASE (\E j \in Jobs, s \in Statuses : Elsewhere(j, s)) \/ UNCHANGED vars
  <2>1. UNCHANGED <<request, actionJob, undoingJob, mixed>>
    BY <1>10 DEF Elsewhere, vars, pageVars, history
  <2> QED
    BY <2>1 DEF ButtonsFollow, OfKind, Disabled, UnderWay
<1> QED
  BY <1>3, <1>4, <1>5, <1>6, <1>7, <1>8, <1>9, <1>10, <1>11 DEF Next, List, User

-------------------------------------------------------------------------------

\* The page as it opens.
LEMMA WatchInit == Init => TypeInv /\ FollowInv /\ ButtonsFollow
<1> SUFFICES ASSUME Init PROVE TypeInv /\ FollowInv /\ ButtonsFollow
  OBVIOUS
<1>1. PICK r \in Requests : request = [q \in Requests |-> IF q = r THEN Load ELSE Idle]
  BY DEF Init
<1>2. /\ Idle.at = "idle" /\ Idle.act = "none"
      /\ Load.at = "asked" /\ Load.act = "none"
  BY RequestTypes
<1>3. /\ request \in [Requests -> RequestType]
      /\ \A q \in Requests : request[q].at \in {"idle", "asked"} /\ request[q].act = "none"
  BY <1>1, <1>2, RequestTypes
<1>4. Answered = {} /\ UnderWay = {} /\ SentActs
  BY <1>3 DEF Answered, UnderWay, SentActs
<1>5. TypeInv
  BY <1>3, <1>4 DEF Init, TypeInv, TypeOK, RequestType, Empty, Lists
<1>6. FollowInv
  BY <1>4 DEF Init, FollowInv, Arrivals, Ordered, ActiveIsWatched, HasActive, Empty, Newer
<1>7. ButtonsFollow
  BY <1>4 DEF Init, ButtonsFollow, OfKind, Disabled, Kinds
<1> QED
  BY <1>5, <1>6, <1>7

\* What holds of the page at every moment.
THEOREM WatchInvariant == Spec => [](TypeInv /\ FollowInv /\ ButtonsFollow)
BY WatchInit, TypeStep, FollowStep, ButtonStep, PTL DEF Spec

\* The page's variables keep to their types.
THEOREM WatchTypeCorrect == Spec => []TypeOK
<1>1. TypeInv => TypeOK
  BY DEF TypeInv
<1> QED
  BY <1>1, WatchInvariant, PTL

\* Whatever shows as active is looked at again without the user, except where the page does not follow.
THEOREM ActiveIsWatchedHolds == Spec => []ActiveIsWatched
<1>1. FollowInv => ActiveIsWatched
  BY DEF FollowInv
<1> QED
  BY <1>1, WatchInvariant, PTL

\* A button is disabled only for an action under way on its row, and all that time but for actions of
\* its kind on two rows at once; till then no action of a row is sent twice.
THEOREM ButtonsFollowHolds == Spec => []ButtonsFollow
BY WatchInvariant, PTL

-------------------------------------------------------------------------------
(***************************************************************************)
(* The jobs of this module are those of ImportRows, and so of ImportQueue   *)
(* (RowsFollowed in ImportQueueProofs): when the page opens they may be as   *)
(* Init says, and then whatever the workers and the API do is Elsewhere's.   *)
(***************************************************************************)

VARIABLES held, judged

Rows == INSTANCE ImportRows WITH NJobs <- MaxJobs, row <- status

RowsInv ==
    /\ status \in Lists /\ InOrder
    /\ held \subseteq Created
    /\ \A op \in Rows!Requested, j \in Jobs : <<op, j>> \in judged => j \in Created

RowMoves(j, s) == MayBecome(j, s) /\ status' = [status EXCEPT ![j] = s]

\* A job that may change, or come, keeps the table in order.
LEMMA RowsStayInOrder ==
  ASSUME status \in Lists, InOrder, NEW j \in Jobs, NEW s \in Statuses, RowMoves(j, s)
  PROVE  status' \in Lists /\ InOrder' /\ Created \subseteq Created'
<1>1. status' \in Lists
  BY DEF RowMoves, Lists
<1>2. Created' = Created \cup {j} /\ Created \subseteq Jobs
  BY DEF RowMoves, Lists, Created, Statuses
<1>3. InOrder'
  <2>1. CASE j \in Created
    BY <1>2, <2>1 DEF InOrder
  <2>2. CASE Enters(j, s)
    BY <1>2, <2>2 DEF InOrder, Enters
  <2> QED
    BY <2>1, <2>2 DEF RowMoves, MayBecome
<1> QED
  BY <1>1, <1>2, <1>3

\* What the server does to its rows.
LEMMA RowsStep ==
  ASSUME RowsInv, [Rows!Next]_(Rows!rvars)
  PROVE  RowsInv' /\ (UNCHANGED status \/ \E j \in Jobs, s \in Statuses : RowMoves(j, s))
<1>1. Rows!Jobs = Jobs /\ Created \subseteq Jobs
  BY DEF Rows!Jobs, Jobs, Created
<1>2. ASSUME UNCHANGED status, held' \subseteq Created,
             \A op \in Rows!Requested, j \in Jobs : <<op, j>> \in judged' => j \in Created
      PROVE  RowsInv'
  <2>1. Created' = Created
    BY <1>2 DEF Created
  <2> QED
    BY <1>2, <2>1 DEF RowsInv, InOrder
<1>3. ASSUME NEW j \in Jobs, NEW s \in Statuses, RowMoves(j, s), held' \subseteq held, judged' \subseteq judged
      PROVE  RowsInv'
  <2>1. status' \in Lists /\ InOrder' /\ Created \subseteq Created'
    BY <1>3, RowsStayInOrder DEF RowsInv
  <2> QED
    BY <1>3, <2>1 DEF RowsInv
<1>4. CASE UNCHANGED Rows!rvars
  BY <1>2, <1>4 DEF Rows!rvars, RowsInv
<1>5. ASSUME NEW j \in Jobs, Rows!Upload(j) PROVE RowMoves(j, "active") /\ RowsInv'
  <2>1. Enters(j, "active")
    BY <1>5 DEF Rows!Upload, Enters, Created, Jobs
  <2>2. RowMoves(j, "active")
    BY <1>5, <2>1 DEF Rows!Upload, RowMoves, MayBecome
  <2>3. held' \subseteq held /\ judged' \subseteq judged
    BY <1>5 DEF Rows!Upload
  <2> QED
    BY <1>3, <2>2, <2>3 DEF Statuses
<1>6. ASSUME NEW j \in Jobs, Rows!Take(j) PROVE UNCHANGED status /\ RowsInv'
  <2>1. j \in Created
    BY <1>6 DEF Rows!Take, Created
  <2> QED
    BY <1>2, <1>6, <2>1 DEF Rows!Take, RowsInv
<1>7. ASSUME NEW j \in Jobs, Rows!WorkerWrites(j)
      PROVE  RowsInv' /\ \E s \in Statuses : RowMoves(j, s)
  <2>1. PICK s \in Statuses : status' = [status EXCEPT ![j] = s]
    BY <1>7 DEF Rows!WorkerWrites, Statuses
  <2>2. RowMoves(j, s)
    BY <1>7, <2>1 DEF Rows!WorkerWrites, RowsInv, RowMoves, MayBecome
  <2>3. held' \subseteq held /\ judged' \subseteq judged
    BY <1>7 DEF Rows!WorkerWrites
  <2> QED
    BY <1>3, <2>2, <2>3
<1>8. ASSUME NEW j \in Jobs, Rows!LetGo(j) PROVE UNCHANGED status /\ RowsInv'
  BY <1>2, <1>8 DEF Rows!LetGo, RowsInv
<1>9. ASSUME NEW j \in Jobs, NEW op \in Rows!Requested, Rows!Judge(op, j) PROVE UNCHANGED status /\ RowsInv'
  <2>1. j \in Created
    BY <1>9 DEF Rows!Judge, Rows!Allowed, Rows!Requested, Created
  <2>2. \A o \in Rows!Requested, i \in Jobs : <<o, i>> \in judged' => <<o, i>> \in judged \/ i = j
    BY <1>9 DEF Rows!Judge
  <2> QED
    BY <1>2, <1>9, <2>1, <2>2 DEF Rows!Judge, RowsInv
<1>10. ASSUME NEW j \in Jobs, NEW op \in Rows!Requested, Rows!CarryOut(op, j)
       PROVE  RowsInv' /\ \E s \in Statuses : RowMoves(j, s)
  <2>1. Rows!Outcome(op) \in Statuses /\ status' = [status EXCEPT ![j] = Rows!Outcome(op)]
    BY <1>10 DEF Rows!CarryOut, Rows!Outcome, Rows!Requested, Statuses
  <2>2. RowMoves(j, Rows!Outcome(op))
    BY <1>10, <2>1 DEF Rows!CarryOut, RowsInv, RowMoves, MayBecome
  <2>3. held' \subseteq held /\ judged' \subseteq judged
    BY <1>10 DEF Rows!CarryOut
  <2> QED
    BY <1>3, <2>1, <2>2, <2>3
<1>11. ASSUME NEW j \in Jobs, NEW op \in Rows!Requested, Rows!Drop(op, j) PROVE UNCHANGED status /\ RowsInv'
  BY <1>2, <1>11 DEF Rows!Drop, RowsInv
<1>12. CASE Rows!Next
  <2>1. PICK j \in Jobs : \/ Rows!Upload(j) \/ Rows!Take(j) \/ Rows!WorkerWrites(j) \/ Rows!LetGo(j)
                          \/ \E op \in Rows!Requested :
                                Rows!Judge(op, j) \/ Rows!CarryOut(op, j) \/ Rows!Drop(op, j)
    BY <1>1, <1>12 DEF Rows!Next
  <2>2. "active" \in Statuses
    BY DEF Statuses
  <2> QED
    BY <1>5, <1>6, <1>7, <1>8, <1>9, <1>10, <1>11, <2>1, <2>2
<1> QED
  BY <1>4, <1>12 DEF Rows!rvars

\* At any moment the rows of the server are such as the page may find them when it opens, and whatever
\* happens to them is what Elsewhere lets happen: what holds of the page here holds of it over
\* ImportRows, with late workers and requests.
THEOREM RowsAreElsewhere ==
  Rows!Spec => /\ [](status \in Lists /\ InOrder)
               /\ [][\E j \in Jobs, s \in Statuses : RowMoves(j, s)]_status
<1>1. Rows!Init => RowsInv
  <2> SUFFICES ASSUME Rows!Init PROVE RowsInv
    OBVIOUS
  <2>1. status = Empty /\ held = {} /\ judged = {}
    BY DEF Rows!Init, Rows!Jobs, Jobs, Empty
  <2>2. Created = {} /\ status \in Lists
    BY <2>1 DEF Created, Empty, Lists
  <2> QED
    BY <2>1, <2>2 DEF RowsInv, InOrder
<1>2. RowsInv /\ [Rows!Next]_(Rows!rvars) =>
        RowsInv' /\ [\E j \in Jobs, s \in Statuses : RowMoves(j, s)]_status
  BY RowsStep
<1>3. RowsInv => status \in Lists /\ InOrder
  BY DEF RowsInv
<1> QED
  BY <1>1, <1>2, <1>3, PTL DEF Rows!Spec

===============================================================================
