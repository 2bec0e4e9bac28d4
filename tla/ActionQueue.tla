------------------------------- MODULE ActionQueue -------------------------------
(***************************************************************************)
(* The page of open recommendations: ActionQueuePage, the queue query        *)
(* (useActions) and the optimistic decisions (useActionMutations).           *)
(*                                                                         *)
(* The cache holds one list per sort order and type, here a filter; the page *)
(* shows one of them, or is left, and decisions act on all of them.  A list  *)
(* that is not shown keeps its fetch under way, but is not fetched again when *)
(* a decision invalidates it: that waits until it is shown.  The cache drops *)
(* lists nobody showed for five minutes, which only makes the page ask again *)
(* and is left out.                                                          *)
(*                                                                         *)
(* The page is one thread: a handler runs to its next answer from the        *)
(* network before another starts, so onMutate is one step, and so are        *)
(* onError and onSettled together.                                           *)
(*                                                                         *)
(* Of the server only the set of open rows is kept (Recommendations says     *)
(* how it comes about): a decision takes the row out of it, the engine,      *)
(* sweeps, restarts and other administrators change it as they like.  The    *)
(* page acts alike on the three decisions.                                   *)
(***************************************************************************)
EXTENDS Integers, FiniteSets

CONSTANTS
    Recs,           \* ids of recommendations
    Filters,        \* pairs of a sort order and a type
    Rows,           \* of each filter: the recommendations of its type
    Calls,          \* decisions the page may have under way at a time
    None

ASSUME QueueAssumption ==
    /\ IsFiniteSet(Recs) /\ None \notin Recs \cup Filters
    /\ Rows \in [Filters -> SUBSET Recs]

VARIABLES
    open,           \* the open rows of the server
    shown,          \* the filter the page shows, or None when the page is left
    items, count,   \* of each filter: the cached answer's items and open_count
    age,            \* of each filter: never answered, fresh, or old: invalidated since
    fetch, answer,  \* of each filter: its query, and what the server answered
    modal,          \* the row whose modal is open, or None
    call,           \* of each call: where its request is, and the snapshot of its onMutate
    behind,         \* history: filters whose list may be behind the server and not asked for again
    crossed         \* history: during a decision another was taken, or a list asked for

lists == <<items, count, age>>
queries == <<fetch, answer>>
vars == <<open, shown, lists, queries, modal, call, behind, crossed>>

Lists == [Filters -> SUBSET Recs]
Counts == [Filters -> 0..Cardinality(Recs)]
Idle == [at |-> "idle"]
Decisions == [at : {"sent", "failed"}, rec : Recs, items : Lists, count : Counts,
              known : SUBSET Filters]
             \cup [at : {"done"}, rec : Recs]

TypeOK ==
    /\ open \in SUBSET Recs /\ shown \in Filters \cup {None}
    /\ items \in Lists /\ count \in Counts /\ age \in [Filters -> {"never", "fresh", "old"}]
    /\ fetch \in [Filters -> {"none", "asked", "read", "failed"}] /\ answer \in Lists
    /\ modal \in Recs \cup {None}
    /\ call \in [Calls -> {Idle} \cup Decisions]
    /\ behind \in SUBSET Filters /\ crossed \in BOOLEAN

UnderWay == {c \in Calls : call[c].at # "idle"}
Known == {f \in Filters : age[f] # "never"}
Nothing == [f \in Filters |-> {}]

Init ==
    /\ open \in SUBSET Recs /\ shown = None
    /\ items = Nothing /\ count = [f \in Filters |-> 0] /\ age = [f \in Filters |-> "never"]
    /\ fetch = [f \in Filters |-> "none"] /\ answer = Nothing
    /\ modal = None
    /\ call = [c \in Calls |-> Idle]
    /\ behind = {} /\ crossed = FALSE

\* upsert, sweep, other administrators.
ServerChanges ==
    /\ open' \in SUBSET Recs \ {open}
    /\ behind' = Filters
    /\ UNCHANGED <<shown, lists, queries, modal, call, crossed>>

-----------------------------------------------------------------------------
(* The queue query: useActions, GET /actions.                                *)

ReadQueue(f) ==
    /\ fetch[f] = "asked"
    /\ fetch' = [fetch EXCEPT ![f] = "read"]
    /\ answer' = [answer EXCEPT ![f] = open \cap Rows[f]]
    /\ behind' = behind \ {f}
    /\ UNCHANGED <<open, shown, lists, modal, call, crossed>>

ShowQueue(f) ==
    /\ fetch[f] = "read"
    /\ fetch' = [fetch EXCEPT ![f] = "none"] /\ answer' = [answer EXCEPT ![f] = {}]
    /\ items' = [items EXCEPT ![f] = answer[f]]
    /\ count' = [count EXCEPT ![f] = Cardinality(answer[f])]
    /\ age' = [age EXCEPT ![f] = "fresh"]
    /\ UNCHANGED <<open, shown, modal, call, behind, crossed>>

\* The third attempt fails: the page says so in place of the list.
QueueFails(f) ==
    /\ fetch[f] \in {"asked", "read"}
    /\ fetch' = [fetch EXCEPT ![f] = "failed"] /\ answer' = [answer EXCEPT ![f] = {}]
    /\ UNCHANGED <<open, shown, lists, modal, call, behind, crossed>>

\* A list is asked for during a decision, or not.
Ask(f) ==
    /\ fetch[f] \in {"none", "failed"}
    /\ fetch' = [fetch EXCEPT ![f] = "asked"]
    /\ crossed' = (crossed \/ UnderWay # {})

\* The page opens, or its sort order or type changes.  The list is fetched unless a fetch is under
\* way or it is fresh; it is fresh for five minutes only.
Visit(f) ==
    /\ shown # f /\ modal = None
    /\ shown' = f
    /\ \/ Ask(f)
       \/ (age[f] = "fresh" \/ fetch[f] \in {"asked", "read"}) /\ UNCHANGED <<fetch, crossed>>
    /\ UNCHANGED <<open, lists, answer, modal, call, behind>>

\* The page is left: its decisions and its query go on.
Leave ==
    /\ shown # None
    /\ shown' = None /\ modal' = None
    /\ UNCHANGED <<open, lists, queries, call, behind, crossed>>

\* The network is back: the list shown is fetched when it is not fresh any more.
Reconnect ==
    /\ shown # None /\ Ask(shown)
    /\ UNCHANGED <<open, shown, lists, answer, modal, call, behind>>

-----------------------------------------------------------------------------
(* The decisions of the page: ActionQueuePage, useActionMutations.           *)

OpenModal(r) ==
    /\ shown # None /\ modal = None
    /\ r \in items[shown] /\ fetch[shown] # "failed"
    /\ modal' = r
    /\ UNCHANGED <<open, shown, lists, queries, call, behind, crossed>>

CloseModal ==
    /\ modal # None
    /\ modal' = None
    /\ UNCHANGED <<open, shown, lists, queries, call, behind, crossed>>

\* setQueriesData on every list: a list without the row is counted one less as well.
OpenNotCounted(r) ==  \* mutant
    /\ items' = [f \in Filters |-> items[f] \ {r}]
    /\ count' = [f \in Filters |-> count[f] - 1]
optimisticRemove(r) ==
    /\ items' = [f \in Filters |-> items[f] \ {r}]
    /\ count' = [f \in Filters |-> IF count[f] > 0 THEN count[f] - 1 ELSE 0]

\* cancelQueries on every list: the answers under way will not be shown.  A list that was answered
\* before is written next, by optimisticRemove, and shows in place of an error.
KeepQueries == UNCHANGED queries  \* mutant
cancelQueries ==
    /\ fetch' = [f \in Filters |-> IF fetch[f] = "failed" /\ f \notin Known THEN "failed" ELSE "none"]
    /\ answer' = Nothing

\* mutate, onMutate and the request.
Confirm(c) ==
    /\ modal # None /\ call[c] = Idle
    /\ cancelQueries
    /\ call' = [call EXCEPT ![c] = [at |-> "sent", rec |-> modal, items |-> items, count |-> count,
                                    known |-> Known]]
    /\ optimisticRemove(modal)
    /\ age' = [f \in Filters |-> IF f \in Known THEN "fresh" ELSE "never"]
    /\ modal' = None
    /\ crossed' = (crossed \/ UnderWay # {})
    /\ UNCHANGED <<open, shown, behind>>

\* The route takes the row out of the queue, and may sweep others in or out of it; the answer
\* arrives, and the snapshot will not be used, or it is lost.
Handle(c) ==
    /\ call[c].at = "sent"
    /\ open' \in SUBSET (Recs \ {call[c].rec})
    /\ \/ call' = [call EXCEPT ![c].at = "failed"]
       \/ call' = [call EXCEPT ![c] = [at |-> "done", rec |-> call[c].rec]]
    /\ UNCHANGED <<shown, lists, queries, modal, behind, crossed>>

\* The request is lost, the user is no administrator (403), or the row is not there (404).
HandleFails(c) ==
    /\ call[c].at = "sent"
    /\ call' = [call EXCEPT ![c].at = "failed"]
    /\ UNCHANGED <<open, shown, lists, queries, modal, behind, crossed>>

EndCall(c) ==
    /\ call' = [call EXCEPT ![c] = Idle]
    /\ crossed' = (crossed /\ UnderWay # {c})

\* invalidateQueries, in onSettled: every list is old; the one shown has its query cancelled and
\* asked again.  A fetch under way of another goes on, and makes it fresh again when it ends.
invalidateQueries ==
    /\ age' = [f \in Filters |-> IF f \in Known THEN "old" ELSE "never"]
    /\ fetch' = [f \in Filters |-> IF f = shown THEN "asked" ELSE fetch[f]]
    /\ answer' = [f \in Filters |-> IF f = shown THEN {} ELSE answer[f]]
    /\ behind' = behind \cup {f \in Filters \ {shown} : fetch[f] = "read"}

\* onSuccess says so, and nothing else.
Succeeded(c) ==
    /\ call[c].at = "done"
    /\ EndCall(c)
    /\ invalidateQueries
    /\ UNCHANGED <<open, shown, items, count, modal>>

\* Every list that was there at onMutate is put back as it was.
restore(s) ==
    /\ items' = [f \in Filters |-> IF f \in s.known THEN s.items[f] ELSE items[f]]
    /\ count' = [f \in Filters |-> IF f \in s.known THEN s.count[f] ELSE count[f]]

\* onError, onSettled.
FailedNotSettled(c) ==  \* mutant
    /\ call[c].at = "failed"
    /\ EndCall(c)
    /\ restore(call[c])
    /\ UNCHANGED <<open, shown, age, queries, modal, behind>>

Failed(c) ==
    /\ call[c].at = "failed"
    /\ EndCall(c)
    /\ restore(call[c])
    /\ invalidateQueries
    /\ UNCHANGED <<open, shown, modal>>

-----------------------------------------------------------------------------

Query(f) == ReadQueue(f) \/ ShowQueue(f) \/ QueueFails(f) \/ Visit(f)
User == Leave \/ Reconnect \/ CloseModal \/ (\E r \in Recs : OpenModal(r))
Decision(c) == Confirm(c) \/ Handle(c) \/ HandleFails(c) \/ Succeeded(c) \/ Failed(c)

Next == ServerChanges \/ User \/ (\E f \in Filters : Query(f)) \/ (\E c \in Calls : Decision(c))

Spec == Init /\ [][Next]_vars

-----------------------------------------------------------------------------

\* Once no decision is under way and the list shown is not being fetched, it holds the open rows of
\* its type and counts them right: whatever was removed ahead of the answer, or put back after an
\* error, does not stay, whichever lists the page showed meanwhile.  Two cases are excepted
\* (behind): somebody else changed the open rows since the list was read, and the list was read
\* before a decision ended and its answer came after, while the page did not show it.
SettledQueue ==
    UnderWay = {} /\ shown # None =>
        \/ fetch[shown] # "none" \/ shown \in behind
        \/ items[shown] = open \cap Rows[shown] /\ count[shown] = Cardinality(items[shown])

\* A row on which a decision is under way is in no list and no modal, so that it cannot be decided
\* on again before the answer.  Two cases are excepted, in which the row can come back with its
\* buttons: another decision is taken meanwhile, whose snapshot may be put back, and a list is
\* asked for meanwhile, because the page is opened, the sort order or the type is changed, or the
\* network is back.
HiddenWhileDecided ==
    \A c \in UnderWay :
        crossed \/ (modal # call[c].rec /\ \A f \in Filters : call[c].rec \notin items[f])
=============================================================================
