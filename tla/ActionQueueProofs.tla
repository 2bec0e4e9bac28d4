---------------------------- MODULE ActionQueueProofs ----------------------------
(***************************************************************************)
(* What ActionQueue guarantees for any recommendations, any sort orders and  *)
(* types, and any number of decisions at a time.  SettledQueue speaks of the *)
(* list on screen when nothing is under way; it is kept because any list the *)
(* page may show without asking, or is about to be answered with, is right   *)
(* as well (ListsAreRight), and because the page asks for a list that is not *)
(* fresh (ShownIsFresh).  HiddenWhileDecided is kept because no answer can    *)
(* arrive during the page's only decision (Undisturbed): cancelQueries saw   *)
(* to it, and no list was asked for since.                                   *)
(***************************************************************************)
EXTENDS ActionQueue, FiniteSetTheorems, TLAPS

IsRight(f) == items[f] = open \cap Rows[f] /\ count[f] = Cardinality(items[f])

\* While no decision is under way, a fresh list and an answer on its way hold what the server has.
ListsAreRight ==
    UnderWay = {} => \A f \in Filters \ behind :
        /\ fetch[f] = "read" => answer[f] = open \cap Rows[f]
        /\ fetch[f] = "none" /\ age[f] = "fresh" => IsRight(f)

\* While no decision is under way, the page shows a fresh list, or its query is at work or failed.
ShownIsFresh ==
    UnderWay = {} /\ shown # None => fetch[shown] # "none" \/ age[shown] = "fresh"

\* During the only decision, with no list asked for, no list can arrive.
Undisturbed ==
    \A c \in UnderWay :
        crossed \/ (UnderWay = {c} /\ \A f \in Filters : fetch[f] \in {"none", "failed"})

QueueInv ==
    TypeOK /\ ListsAreRight /\ ShownIsFresh /\ SettledQueue /\ HiddenWhileDecided /\ Undisturbed

-------------------------------------------------------------------------------

\* A list on the page is no longer than the set of recommendations.
LEMMA SizeBound ==
  ASSUME NEW s \in SUBSET Recs
  PROVE  /\ Cardinality(s) \in 0..Cardinality(Recs)
         /\ Cardinality(Recs) \in Nat
BY QueueAssumption, FS_Subset, FS_CardinalityType DEF QueueAssumption

\* What is known of a decision whose request is out or has failed: its row and its snapshot.
LEMMA CallType ==
  ASSUME TypeOK, NEW c \in Calls, call[c].at \in {"sent", "failed"}
  PROVE  call[c] \in [at : {"sent", "failed"}, rec : Recs, items : Lists, count : Counts,
                      known : SUBSET Filters]
BY DEF TypeOK, Decisions, Idle

\* A decision under way is about a recommendation.
LEMMA UnderWayType ==
  ASSUME TypeOK, NEW c \in UnderWay
  PROVE  /\ c \in Calls
         /\ call[c].at \in {"sent", "done", "failed"}
         /\ call[c].rec \in Recs
BY DEF TypeOK, UnderWay, Decisions, Idle

\* A decision that ends is under way no more, and the others are as they were.
LEMMA CallEnds ==
  ASSUME TypeOK, NEW c \in UnderWay, EndCall(c)
  PROVE  /\ UnderWay' = UnderWay \ {c}
         /\ \A d \in UnderWay \ {c} : call'[d] = call[d]
         /\ call' \in [Calls -> {Idle} \cup Decisions]
         /\ crossed' \in BOOLEAN
BY DEF TypeOK, UnderWay, EndCall, Idle

\* A request that is handled, or fails, stays under way, about the same row.
LEMMA CallStays ==
  ASSUME TypeOK, NEW c \in Calls, Handle(c) \/ HandleFails(c)
  PROVE  /\ c \in UnderWay /\ UnderWay' = UnderWay
         /\ \A d \in Calls : call'[d].rec = call[d].rec
         /\ call' \in [Calls -> {Idle} \cup Decisions]
<1>1. call[c].at = "sent"
  BY DEF Handle, HandleFails
<1>2. call[c] \in [at : {"sent", "failed"}, rec : Recs, items : Lists, count : Counts,
                  known : SUBSET Filters]
  BY <1>1, CallType
<1>3. \E m \in Decisions : m.at # "idle" /\ m.rec = call[c].rec /\ call' = [call EXCEPT ![c] = m]
  <2>1. CASE call' = [call EXCEPT ![c].at = "failed"]
    <3> DEFINE m == [call[c] EXCEPT !.at = "failed"]
    <3>1. m \in Decisions /\ m.at # "idle" /\ m.rec = call[c].rec
      BY <1>2 DEF Decisions
    <3>2. call' = [call EXCEPT ![c] = m]
      BY <2>1
    <3> QED
      BY <3>1, <3>2
  <2>2. CASE call' = [call EXCEPT ![c] = [at |-> "done", rec |-> call[c].rec]]
    <3>1. [at |-> "done", rec |-> call[c].rec] \in Decisions
      BY <1>2 DEF Decisions
    <3> QED
      BY <2>2, <3>1
  <2> QED
    BY <2>1, <2>2 DEF Handle, HandleFails
<1>4. PICK m \in Decisions : m.at # "idle" /\ m.rec = call[c].rec /\ call' = [call EXCEPT ![c] = m]
  BY <1>3
<1>5. call \in [Calls -> {Idle} \cup Decisions]
  BY DEF TypeOK
<1>6. \A d \in Calls : call'[d] = IF d = c THEN m ELSE call[d]
  BY <1>4, <1>5
<1>7. call' \in [Calls -> {Idle} \cup Decisions]
  BY <1>4, <1>5
<1> QED
  BY <1>1, <1>4, <1>6, <1>7 DEF UnderWay

\* What the end of a decision leaves in the cache: well-typed lists, none of them fresh, the one
\* shown asked for again, and a list whose answer is on its way unshown counted as behind.
LEMMA Invalidated ==
  ASSUME TypeOK, invalidateQueries
  PROVE  /\ age' \in [Filters -> {"never", "fresh", "old"}]
         /\ fetch' \in [Filters -> {"none", "asked", "read", "failed"}] /\ answer' \in Lists
         /\ behind' \in SUBSET Filters
         /\ \A f \in Filters : age'[f] # "fresh"
         /\ \A f \in Filters : fetch'[f] = "read" => f \in behind'
         /\ shown # None => fetch'[shown] = "asked"
BY DEF TypeOK, invalidateQueries, Lists

\* Putting a snapshot back keeps the lists to their types.
LEMMA Restored ==
  ASSUME TypeOK, NEW c \in Calls, call[c].at = "failed", restore(call[c])
  PROVE  items' \in Lists /\ count' \in Counts
BY CallType DEF TypeOK, restore, Lists, Counts

-------------------------------------------------------------------------------

\* Every variable keeps to its type.
LEMMA TypeStep == TypeOK /\ [Next]_vars => TypeOK'
<1> SUFFICES ASSUME TypeOK, [Next]_vars PROVE TypeOK'
  OBVIOUS
<1>1. CASE ServerChanges
  BY <1>1 DEF TypeOK, ServerChanges, lists, queries
<1>2. ASSUME NEW f \in Filters, ReadQueue(f) PROVE TypeOK'
  BY <1>2 DEF TypeOK, ReadQueue, lists, Lists
<1>3. ASSUME NEW f \in Filters, ShowQueue(f) PROVE TypeOK'
  <2>1. answer[f] \in SUBSET Recs
    BY DEF TypeOK, Lists
  <2>2. Cardinality(answer[f]) \in 0..Cardinality(Recs)
    BY <2>1, SizeBound
  <2> QED
    BY <1>3, <2>1, <2>2 DEF TypeOK, ShowQueue, Lists, Counts
<1>4. ASSUME NEW f \in Filters, QueueFails(f) PROVE TypeOK'
  BY <1>4 DEF TypeOK, QueueFails, lists, Lists
<1>5. ASSUME NEW f \in Filters, Visit(f) PROVE TypeOK'
  BY <1>5 DEF TypeOK, Visit, Ask, lists
<1>6. CASE Leave \/ Reconnect \/ CloseModal
  BY <1>6 DEF TypeOK, Leave, Reconnect, CloseModal, Ask, lists, queries
<1>7. ASSUME NEW r \in Recs, OpenModal(r) PROVE TypeOK'
  BY <1>7 DEF TypeOK, OpenModal, lists, queries
<1>8. ASSUME NEW c \in Calls, Confirm(c) PROVE TypeOK'
  <2>1. modal \in Recs /\ items \in Lists /\ count \in Counts /\ Known \in SUBSET Filters
    BY <1>8 DEF TypeOK, Confirm, Known
  <2>2. [at |-> "sent", rec |-> modal, items |-> items, count |-> count, known |-> Known]
          \in Decisions
    BY <2>1 DEF Decisions
  <2>3. call' \in [Calls -> {Idle} \cup Decisions]
    BY <1>8, <2>2 DEF TypeOK, Confirm
  <2>4. items' \in Lists /\ count' \in Counts
    BY <1>8, <2>1, SizeBound DEF Confirm, optimisticRemove, Lists, Counts
  <2>5. /\ fetch' \in [Filters -> {"none", "asked", "read", "failed"}]
        /\ answer' \in Lists
    BY <1>8 DEF Confirm, cancelQueries, Nothing, Lists
  <2>6. age' \in [Filters -> {"never", "fresh", "old"}]
    BY <1>8 DEF Confirm
  <2> QED
    BY <1>8, <2>3, <2>4, <2>5, <2>6 DEF TypeOK, Confirm
<1>9. ASSUME NEW c \in Calls, Handle(c) \/ HandleFails(c) PROVE TypeOK'
  BY <1>9, CallStays DEF TypeOK, Handle, HandleFails, lists, queries
<1>10. ASSUME NEW c \in Calls, Succeeded(c) PROVE TypeOK'
  <2>1. c \in UnderWay
    BY <1>10 DEF Succeeded, UnderWay
  <2> QED
    BY <1>10, <2>1, CallEnds, Invalidated DEF TypeOK, Succeeded
<1>11. ASSUME NEW c \in Calls, Failed(c) PROVE TypeOK'
  <2>1. c \in UnderWay
    BY <1>11 DEF Failed, UnderWay
  <2> QED
    BY <1>11, <2>1, CallEnds, Invalidated, Restored DEF TypeOK, Failed
<1>12. CASE UNCHANGED vars
  BY <1>12 DEF TypeOK, vars, lists, queries
<1> QED
  BY <1>1, <1>2, <1>3, <1>4, <1>5, <1>6, <1>7, <1>8, <1>9, <1>10, <1>11, <1>12
     DEF Next, User, Query, Decision

-------------------------------------------------------------------------------

\* The two conjuncts about the lists while no decision is under way.
LEMMA ListsStep ==
  ASSUME TypeOK, ListsAreRight, ShownIsFresh, [Next]_vars
  PROVE  ListsAreRight' /\ ShownIsFresh'
<1>1. CASE ServerChanges
  BY <1>1 DEF ListsAreRight, ShownIsFresh, ServerChanges, UnderWay, lists, queries
<1>2. ASSUME NEW f \in Filters, ReadQueue(f) PROVE ListsAreRight' /\ ShownIsFresh'
  <2>1. UnderWay' = UnderWay /\ UNCHANGED <<open, shown, items, count, age>>
    BY <1>2 DEF ReadQueue, UnderWay, lists
  <2>2. /\ fetch'[f] = "read" /\ answer'[f] = open \cap Rows[f]
        /\ \A g \in Filters \ {f} : fetch'[g] = fetch[g] /\ answer'[g] = answer[g]
    BY <1>2 DEF TypeOK, ReadQueue, Lists
  <2>3. \A g \in Filters \ {f} : g \in behind' <=> g \in behind
    BY <1>2 DEF ReadQueue
  <2> QED
    BY <2>1, <2>2, <2>3 DEF TypeOK, ListsAreRight, ShownIsFresh, IsRight
<1>3. ASSUME NEW f \in Filters, ShowQueue(f) PROVE ListsAreRight' /\ ShownIsFresh'
  BY <1>3 DEF TypeOK, ListsAreRight, ShownIsFresh, IsRight, ShowQueue, UnderWay, Lists, Counts
<1>4. ASSUME NEW f \in Filters, QueueFails(f) PROVE ListsAreRight' /\ ShownIsFresh'
  BY <1>4 DEF TypeOK, ListsAreRight, ShownIsFresh, IsRight, QueueFails, UnderWay, lists
<1>5. ASSUME NEW f \in Filters, Visit(f) PROVE ListsAreRight' /\ ShownIsFresh'
  <2>1. UnderWay' = UnderWay /\ shown' = f
    BY <1>5 DEF Visit, UnderWay
  <2>2. \A g \in Filters : fetch'[g] = fetch[g] \/ fetch'[g] = "asked"
    BY <1>5 DEF TypeOK, Visit, Ask
  <2>3. ListsAreRight'
    BY <1>5, <2>1, <2>2 DEF ListsAreRight, IsRight, Visit, lists
  <2>4. fetch'[f] # "none" \/ age'[f] = "fresh"
    BY <1>5 DEF TypeOK, Visit, Ask, lists
  <2> QED
    BY <2>1, <2>3, <2>4 DEF ShownIsFresh
<1>6. CASE Leave \/ CloseModal \/ \E r \in Recs : OpenModal(r)
  BY <1>6 DEF ListsAreRight, ShownIsFresh, IsRight, Leave, CloseModal, OpenModal, UnderWay,
              lists, queries
<1>7. CASE Reconnect
  BY <1>7 DEF TypeOK, ListsAreRight, ShownIsFresh, IsRight, Reconnect, Ask, UnderWay, lists
<1>8. ASSUME NEW c \in Calls, Confirm(c) PROVE ListsAreRight' /\ ShownIsFresh'
  <2>1. c \in UnderWay'
    BY <1>8 DEF TypeOK, Confirm, UnderWay
  <2> QED
    BY <2>1 DEF ListsAreRight, ShownIsFresh
<1>9. ASSUME NEW c \in Calls, Handle(c) \/ HandleFails(c)
      PROVE  ListsAreRight' /\ ShownIsFresh'
  <2>1. c \in UnderWay'
    BY <1>9, CallStays
  <2> QED
    BY <2>1 DEF ListsAreRight, ShownIsFresh
<1>10. ASSUME NEW c \in Calls, Succeeded(c) \/ Failed(c) PROVE ListsAreRight' /\ ShownIsFresh'
  <2>1. invalidateQueries /\ shown' = shown
    BY <1>10 DEF Succeeded, Failed
  <2> QED
    BY <2>1, Invalidated DEF ListsAreRight, ShownIsFresh
<1>11. CASE UNCHANGED vars
  BY <1>11 DEF ListsAreRight, ShownIsFresh, IsRight, UnderWay, vars, lists, queries
<1> QED
  BY <1>1, <1>2, <1>3, <1>4, <1>5, <1>6, <1>7, <1>8, <1>9, <1>10, <1>11
     DEF Next, User, Query, Decision

\* The list on screen is one of them.
LEMMA ListsImplySettled ==
  ASSUME TypeOK, ListsAreRight, ShownIsFresh
  PROVE  SettledQueue
BY DEF TypeOK, ListsAreRight, ShownIsFresh, SettledQueue, IsRight

\* The two conjuncts about the only decision.
LEMMA HiddenStep ==
  ASSUME TypeOK, HiddenWhileDecided, Undisturbed, [Next]_vars
  PROVE  HiddenWhileDecided' /\ Undisturbed'
<1> DEFINE Goal == HiddenWhileDecided' /\ Undisturbed'
<1>1. CASE ServerChanges
  BY <1>1 DEF HiddenWhileDecided, Undisturbed, ServerChanges, UnderWay, lists, queries
<1>2. ASSUME NEW f \in Filters, ReadQueue(f) \/ ShowQueue(f) \/ QueueFails(f) PROVE Goal
  <2>1. \A c \in UnderWay : crossed
    BY <1>2 DEF Undisturbed, ReadQueue, ShowQueue, QueueFails
  <2>2. UnderWay' = UnderWay /\ crossed' = crossed
    BY <1>2 DEF ReadQueue, ShowQueue, QueueFails, UnderWay
  <2> QED
    BY <2>1, <2>2 DEF HiddenWhileDecided, Undisturbed
<1>3. ASSUME NEW f \in Filters, Ask(f), call' = call PROVE Goal
  <2>1. UnderWay' = UnderWay
    BY <1>3 DEF UnderWay
  <2>2. \A c \in UnderWay' : crossed'
    BY <1>3, <2>1 DEF Ask
  <2> QED
    BY <2>2 DEF HiddenWhileDecided, Undisturbed
<1>4. ASSUME UNCHANGED <<call, lists, crossed>>, modal' \in {modal, None},
             fetch' = fetch
      PROVE  Goal
  BY <1>4, UnderWayType, QueueAssumption
     DEF HiddenWhileDecided, Undisturbed, UnderWay, lists, QueueAssumption
<1>5. ASSUME NEW f \in Filters, Visit(f) PROVE Goal
  BY <1>3, <1>4, <1>5 DEF Visit
<1>6. CASE Leave \/ CloseModal
  BY <1>4, <1>6 DEF Leave, CloseModal, queries
<1>7. CASE Reconnect
  <2>1. shown \in Filters /\ Ask(shown) /\ call' = call
    BY <1>7 DEF TypeOK, Reconnect
  <2> QED
    BY <1>3, <2>1
<1>8. ASSUME NEW r \in Recs, OpenModal(r) PROVE Goal
  BY <1>8 DEF TypeOK, HiddenWhileDecided, Undisturbed, OpenModal, UnderWay, lists, queries
<1>9. ASSUME NEW c \in Calls, Confirm(c) PROVE Goal
  <2>1. UnderWay' = UnderWay \cup {c}
    BY <1>9 DEF TypeOK, Confirm, UnderWay
  <2>2. CASE UnderWay = {}
    <3>1. UnderWay' = {c}
      BY <2>1, <2>2
    <3>2. \A f \in Filters : fetch'[f] \in {"none", "failed"}
      BY <1>9 DEF Confirm, cancelQueries
    <3>3. call'[c].rec = modal /\ modal \in Recs /\ modal' = None
      BY <1>9 DEF TypeOK, Confirm
    <3>4. \A f \in Filters : modal \notin items'[f]
      BY <1>9 DEF Confirm, optimisticRemove
    <3> QED
      BY <3>1, <3>2, <3>3, <3>4, QueueAssumption
         DEF HiddenWhileDecided, Undisturbed, QueueAssumption
  <2>3. CASE UnderWay # {}
    BY <1>9, <2>3 DEF HiddenWhileDecided, Undisturbed, Confirm
  <2> QED
    BY <2>2, <2>3
<1>10. ASSUME NEW c \in Calls, Handle(c) \/ HandleFails(c) PROVE Goal
  <2>1. UnderWay' = UnderWay /\ \A d \in UnderWay : call'[d].rec = call[d].rec
    BY <1>10, CallStays DEF UnderWay
  <2>2. items' = items /\ modal' = modal /\ fetch' = fetch /\ crossed' = crossed
    BY <1>10 DEF Handle, HandleFails, lists, queries
  <2> QED
    BY <2>1, <2>2 DEF HiddenWhileDecided, Undisturbed
<1>11. ASSUME NEW c \in Calls, Succeeded(c) \/ Failed(c) PROVE Goal
  <2>1. c \in UnderWay /\ EndCall(c)
    BY <1>11 DEF Succeeded, Failed, UnderWay
  <2>2. UnderWay' = UnderWay \ {c}
    BY <2>1, CallEnds
  <2>3. UnderWay' # {} => crossed /\ crossed'
    <3>1. SUFFICES ASSUME UnderWay' # {} PROVE crossed /\ crossed'
      OBVIOUS
    <3>2. UnderWay # {c}
      BY <2>2, <3>1
    <3> QED
      BY <2>1, <3>2 DEF Undisturbed, EndCall
  <2> QED
    BY <2>3 DEF HiddenWhileDecided, Undisturbed
<1>12. CASE UNCHANGED vars
  BY <1>4, <1>12 DEF vars, queries
<1> QED
  BY <1>1, <1>2, <1>5, <1>6, <1>7, <1>8, <1>9, <1>10, <1>11, <1>12
     DEF Next, User, Query, Decision

-------------------------------------------------------------------------------

\* The inductive invariant holds in every state, whatever Recs, Filters, Rows and Calls are.
THEOREM QueueInvariant == Spec => []QueueInv
<1>1. Init => QueueInv
  <2> SUFFICES ASSUME Init PROVE QueueInv
    OBVIOUS
  <2>1. 0 \in 0..Cardinality(Recs)
    BY SizeBound
  <2>2. UnderWay = {}
    BY DEF Init, UnderWay, Idle
  <2>3. TypeOK
    BY <2>1 DEF Init, TypeOK, Nothing, Lists, Counts
  <2> QED
    BY <2>2, <2>3 DEF Init, QueueInv, ListsAreRight, ShownIsFresh, SettledQueue,
                      HiddenWhileDecided, Undisturbed
<1>2. QueueInv /\ [Next]_vars => QueueInv'
  <2> SUFFICES ASSUME QueueInv, [Next]_vars PROVE QueueInv'
    OBVIOUS
  <2>1. TypeOK'
    BY TypeStep DEF QueueInv
  <2>2. ListsAreRight' /\ ShownIsFresh' /\ HiddenWhileDecided' /\ Undisturbed'
    BY ListsStep, HiddenStep DEF QueueInv
  <2>3. TypeOK /\ ListsAreRight /\ ShownIsFresh => SettledQueue
    BY ListsImplySettled
  <2>4. (TypeOK /\ ListsAreRight /\ ShownIsFresh => SettledQueue)'
    BY ListsImplySettled, PTL
  <2> QED
    BY <2>1, <2>2, <2>4 DEF QueueInv
<1> QED
  BY <1>1, <1>2, PTL DEF Spec

\* The variables of the page keep to their types.
THEOREM QueueTypeCorrect == Spec => []TypeOK
<1>1. QueueInv => TypeOK
  BY DEF QueueInv
<1> QED
  BY <1>1, QueueInvariant, PTL

\* A quiet page shows the open rows of the type it lists and counts them right, unless the list is
\* behind.
THEOREM SettledQueueHolds == Spec => []SettledQueue
<1>1. QueueInv => SettledQueue
  BY DEF QueueInv
<1> QED
  BY <1>1, QueueInvariant, PTL

\* The row of a decision is in no list and no modal, unless another decision is taken or a list is
\* asked for before the answer.
THEOREM HiddenWhileDecidedHolds == Spec => []HiddenWhileDecided
<1>1. QueueInv => HiddenWhileDecided
  BY DEF QueueInv
<1> QED
  BY <1>1, QueueInvariant, PTL
=============================================================================
