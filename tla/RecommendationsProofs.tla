-------------------------- MODULE RecommendationsProofs --------------------------
(***************************************************************************)
(* What Recommendations guarantees for every cap, any number of rows and      *)
(* threads and any topics.  Whoever stands between its look at a row and its   *)
(* write either knows the row as it still is, or the row has been decided on    *)
(* since, and then it is among the overtaken (Standing); an upsert has left      *)
(* room under the cap, and nothing open about its topic behind it, but for        *)
(* rows that resurfaced (UpsertRoom).                                               *)
(***************************************************************************)
EXTENDS Recommendations, FiniteSetTheorems, TLAPS

\* Rows are made in the order of their numbers.
Numbered == \A r, x \in Recs : status[r] = "none" /\ r < x => status[x] = "none"

\* Rows are decided on after they were made, and only a decision snoozes or accepts one.
Decisions ==
    \A r \in Recs :
        /\ verdict[r] # "none" => r \in Stored
        /\ status[r] \in {"snoozed", "watching"} => verdict[r] # "none"

\* What those between a look and a write still know of the row.
ToOpen(r) ==
    /\ r \in Stored
    /\ r \in Resurfaced \/ (status[r] = "snoozed" /\ r \in snoozeOver /\ ~HalfSnoozed(r))
Undecided(r) == r \in Stored /\ (r \in Resurfaced \/ verdict[r] = "none")
Accepted(r) == r \in Stored /\ (r \in Resurfaced \/ verdict[r] = "watching")

Standing ==
    /\ \A t \in Threads : pc[t] = "open" => ToOpen(at[t])
    /\ \A t \in Threads : pc[t] = "expire" => Undecided(at[t])
    /\ job = "supersede" => Undecided(jobRow)
    /\ \A r \in found : Accepted(r)

\* An upsert under way has room, and has dealt with the rows before the one it is at.
UpsertRoom ==
    job \in {"look", "supersede"} =>
        /\ Cardinality(Open \ Resurfaced) < Cap
        /\ \A x \in Open \ Resurfaced : topic[x] = jobTopic => jobRow <= x
        /\ \A x \in Recs : x < jobRow => x \in Stored

RecInv ==
    TypeOK /\ Numbered /\ Decisions /\ Standing /\ UpsertRoom
    /\ OpenWithinCap /\ OnePerTopic /\ DecisionStands

-------------------------------------------------------------------------------

\* Nothing new is open but rows that resurfaced: then neither the cap nor the topics can be broken.
LEMMA FewerOpen ==
  ASSUME TypeOK, OpenWithinCap, OnePerTopic,
         Open' \ Resurfaced' \subseteq Open \ Resurfaced, topic' = topic
  PROVE  /\ Cardinality(Open' \ Resurfaced') <= Cardinality(Open \ Resurfaced)
         /\ Cardinality(Open' \ Resurfaced') \in Nat /\ Cardinality(Open \ Resurfaced) \in Nat
         /\ OpenWithinCap' /\ OnePerTopic'
<1>1. IsFiniteSet(Open \ Resurfaced)
  <2>1. IsFiniteSet(Recs)
    BY RecommendationsAssumption, FS_Interval DEF RecommendationsAssumption, Recs
  <2>2. Open \ Resurfaced \subseteq Recs
    BY DEF Open
  <2> QED
    BY <2>1, <2>2, FS_Subset
<1>2. /\ IsFiniteSet(Open' \ Resurfaced')
      /\ Cardinality(Open' \ Resurfaced') <= Cardinality(Open \ Resurfaced)
  BY <1>1, FS_Subset
<1>3. Cardinality(Open' \ Resurfaced') \in Nat /\ Cardinality(Open \ Resurfaced) \in Nat
  BY <1>1, <1>2, FS_CardinalityType
<1>4. OpenWithinCap'
  BY <1>2, <1>3, RecommendationsAssumption DEF OpenWithinCap, RecommendationsAssumption
<1>5. OnePerTopic'
  BY DEF OnePerTopic, Open
<1> QED
  BY <1>2, <1>3, <1>4, <1>5

\* The same for a step that leaves an upsert where it is.
LEMMA RoomKept ==
  ASSUME TypeOK, UpsertRoom, OpenWithinCap, OnePerTopic,
         Open' \ Resurfaced' \subseteq Open \ Resurfaced, topic' = topic, Stored' = Stored,
         UNCHANGED <<job, jobRow, jobTopic>> \/ job' \notin {"look", "supersede"}
  PROVE  UpsertRoom' /\ OpenWithinCap' /\ OnePerTopic'
<1>1. /\ Cardinality(Open' \ Resurfaced') <= Cardinality(Open \ Resurfaced)
      /\ Cardinality(Open' \ Resurfaced') \in Nat /\ Cardinality(Open \ Resurfaced) \in Nat
      /\ OpenWithinCap' /\ OnePerTopic'
  BY FewerOpen
<1>2. UpsertRoom'
  BY <1>1, RecommendationsAssumption DEF UpsertRoom, RecommendationsAssumption
<1> QED
  BY <1>1, <1>2

\* A step that changes no row and no history.
LEMMA RowsKept ==
  ASSUME RecInv, UNCHANGED <<topic, status, verdict, returned, overtaken>>,
         UNCHANGED <<job, jobRow, jobTopic>> \/ job' \notin {"look", "supersede"}
  PROVE  /\ Numbered' /\ Decisions' /\ DecisionStands'
         /\ UpsertRoom' /\ OpenWithinCap' /\ OnePerTopic'
<1>1. Open' = Open /\ Stored' = Stored /\ Resurfaced' = Resurfaced
  BY DEF Open, Stored, Resurfaced
<1>2. UpsertRoom' /\ OpenWithinCap' /\ OnePerTopic'
  BY <1>1, RoomKept DEF RecInv
<1>3. Numbered' /\ Decisions' /\ DecisionStands'
  BY <1>1 DEF RecInv, Numbered, Decisions, DecisionStands
<1> QED
  BY <1>2, <1>3

\* Moving on in the sweep, or out of it, keeps the types and takes nobody to a write.
LEMMA Moves ==
  ASSUME TypeOK, NEW t \in Threads, NEW p, NEW r \in 1..(NRecs + 1), Goto(t, p, r),
         p \in {"idle", "swept"} \cup Sweeping \/ p \in {"until", "due"},
         p \in {"open", "again", "expire", "until", "due"} => r \in Recs
  PROVE  /\ pc' \in [Threads -> {"idle", "swept", "until", "due"} \cup Sweeping]
         /\ at' \in [Threads -> 1..(NRecs + 1)]
         /\ \A u \in Threads : pc'[u] \in {"open", "again", "expire", "until", "due"} => at'[u] \in Recs
         /\ pc'[t] = p /\ at'[t] = r
         /\ \A u \in Threads : u # t => pc'[u] = pc[u] /\ at'[u] = at[u]
BY DEF TypeOK, Goto

\* Where NextRow leads.
LEMMA NextRowMoves ==
  ASSUME TypeOK, NEW t \in Threads, at[t] \in Recs, NextRow(t)
  PROVE  /\ pc' \in [Threads -> {"idle", "swept", "until", "due"} \cup Sweeping]
         /\ at' \in [Threads -> 1..(NRecs + 1)]
         /\ \A u \in Threads : pc'[u] \in {"open", "again", "expire", "until", "due"} => at'[u] \in Recs
         /\ pc'[t] \in {"idle", "look"} /\ broken' \in SUBSET Threads
         /\ \A u \in Threads : u # t => pc'[u] = pc[u] /\ at'[u] = at[u]
<1>1. at[t] + 1 \in 1..(NRecs + 1) /\ 1 \in 1..(NRecs + 1)
  BY RecommendationsAssumption DEF RecommendationsAssumption, Recs
<1>2. broken' \in SUBSET Threads
  BY DEF TypeOK, NextRow
<1>3. CASE t \in broken
  <2>1. Goto(t, "idle", 1)
    BY <1>3 DEF NextRow
  <2> QED
    BY <1>1, <1>2, <2>1, Moves
<1>4. CASE t \notin broken
  <2>1. Goto(t, "look", at[t] + 1)
    BY <1>4 DEF NextRow
  <2> QED
    BY <1>1, <1>2, <2>1, Moves DEF Sweeping
<1> QED
  BY <1>3, <1>4

-------------------------------------------------------------------------------
(* The sweep.                                                               *)

\* A sweep begins at the first row, and an answer ends a request.
LEMMA BeginStep ==
  ASSUME RecInv, NEW t \in Threads, Begin(t) \/ Answer(t)
  PROVE  RecInv'
<1>1. \E p \in {"look", "idle"} : Goto(t, p, 1)
  BY DEF Begin, Answer
<1>2. 1 \in 1..(NRecs + 1)
  BY RecommendationsAssumption DEF RecommendationsAssumption
<1>3. PICK p \in {"look", "idle"} : Goto(t, p, 1)
  BY <1>1
<1>4. /\ pc' \in [Threads -> {"idle", "swept", "until", "due"} \cup Sweeping]
      /\ at' \in [Threads -> 1..(NRecs + 1)]
      /\ \A u \in Threads : pc'[u] \in {"open", "again", "expire", "until", "due"} => at'[u] \in Recs
      /\ pc'[t] = p
      /\ \A u \in Threads : u # t => pc'[u] = pc[u] /\ at'[u] = at[u]
  BY <1>2, <1>3, Moves DEF RecInv, Sweeping
<1>5. requests' \in 0..MaxRequests
  BY RecommendationsAssumption DEF Begin, Answer, RecInv, TypeOK, RecommendationsAssumption
<1>6. TypeOK'
  BY <1>4, <1>5 DEF Begin, Answer, RecInv, TypeOK, dates, loop, history
<1>7. Standing'
  BY <1>3, <1>4 DEF Begin, Answer, RecInv, Standing, ToOpen, Undecided, Accepted, HalfSnoozed, Stored, Resurfaced,
     dates, loop, history
<1> QED
  BY <1>6, <1>7, RowsKept DEF RecInv, Begin, Answer, loop, history

\* A look that finds nothing to write, or the end of the rows.
LEMMA PassesBy ==
  ASSUME RecInv, NEW t \in Threads, pc[t] # "until",
         pc' \in [Threads -> {"idle", "swept", "until", "due"} \cup Sweeping],
         at' \in [Threads -> 1..(NRecs + 1)],
         \A u \in Threads : pc'[u] \in {"open", "again", "expire", "until", "due"} => at'[u] \in Recs,
         pc'[t] \in {"idle", "look", "swept"}, broken' \in SUBSET Threads,
         \A u \in Threads : u # t => pc'[u] = pc[u] /\ at'[u] = at[u],
         UNCHANGED <<topic, status, dates, requests, loop, history>>
  PROVE  RecInv'
<1>1. TypeOK'
  BY DEF RecInv, TypeOK, dates, loop, history
<1>2. Standing'
  BY DEF RecInv, Standing, ToOpen, Undecided, Accepted, HalfSnoozed, Stored, Resurfaced,
     dates, loop, history
<1> QED
  BY <1>1, <1>2, RowsKept DEF RecInv, loop, history

\* The sweep has come to the end of the rows.
LEMMA LookEndsStep ==
  ASSUME RecInv, NEW t \in Threads, LookEnds(t)
  PROVE  RecInv'
<1>1. PICK p \in {"idle", "swept"} : Goto(t, p, 1)
  BY DEF LookEnds
<1>2. 1 \in 1..(NRecs + 1)
  BY RecommendationsAssumption DEF RecommendationsAssumption
<1>3. /\ pc' \in [Threads -> {"idle", "swept", "until", "due"} \cup Sweeping]
      /\ at' \in [Threads -> 1..(NRecs + 1)]
      /\ \A u \in Threads : pc'[u] \in {"open", "again", "expire", "until", "due"} => at'[u] \in Recs
      /\ pc'[t] = p
      /\ \A u \in Threads : u # t => pc'[u] = pc[u] /\ at'[u] = at[u]
  BY <1>1, <1>2, Moves DEF RecInv
<1>4. broken' \in SUBSET Threads /\ pc[t] # "until"
  BY DEF LookEnds, RecInv, TypeOK
<1> QED
  BY <1>3, <1>4, PassesBy DEF LookEnds

\* A row seen open and out of date was never decided on, or has resurfaced.
LEMMA ExpiredUndecided ==
  ASSUME RecInv, NEW r \in Recs, Expired(r)
  PROVE  Undecided(r)
BY DEF RecInv, TypeOK, DecisionStands, Expired, Undecided, Stored

\* A look that finds the row out of date.
LEMMA ToExpireStep ==
  ASSUME RecInv, NEW t \in Threads, at[t] \in Recs, Expired(at[t]), pc[t] # "until",
         Goto(t, "expire", at[t]),
         UNCHANGED <<topic, status, dates, broken, requests, loop, history>>
  PROVE  RecInv'
<1>1. at[t] \in 1..(NRecs + 1)
  BY DEF RecInv, TypeOK
<1>2. /\ pc' \in [Threads -> {"idle", "swept", "until", "due"} \cup Sweeping]
      /\ at' \in [Threads -> 1..(NRecs + 1)]
      /\ \A u \in Threads : pc'[u] \in {"open", "again", "expire", "until", "due"} => at'[u] \in Recs
      /\ pc'[t] = "expire" /\ at'[t] = at[t]
      /\ \A u \in Threads : u # t => pc'[u] = pc[u] /\ at'[u] = at[u]
  BY <1>1, Moves DEF RecInv, Sweeping
<1>3. TypeOK'
  BY <1>2 DEF RecInv, TypeOK, dates, loop, history
<1>4. Undecided(at[t])
  BY ExpiredUndecided
<1>5. Standing'
  BY <1>2, <1>4 DEF RecInv, Standing, ToOpen, Undecided, Accepted, HalfSnoozed, Stored,
     Resurfaced, dates, loop, history
<1> QED
  BY <1>3, <1>5, RowsKept DEF RecInv, loop, history

\* A look at a row whose snooze is over: if its snooze is only half written, the row is overtaken.
LEMMA ToOpenStep ==
  ASSUME RecInv, NEW t \in Threads, at[t] \in Recs, Back(at[t]), pc[t] = "look", Look(t)
  PROVE  RecInv'
<1>1. at[t] \in 1..(NRecs + 1)
  BY DEF RecInv, TypeOK
<1>2. /\ Goto(t, "open", at[t])
      /\ overtaken' = IF HalfSnoozed(at[t]) THEN overtaken \cup {at[t]} ELSE overtaken
      /\ UNCHANGED <<topic, status, dates, broken, requests, loop, verdict, returned>>
  BY DEF Look
<1>3. /\ pc' \in [Threads -> {"idle", "swept", "until", "due"} \cup Sweeping]
      /\ at' \in [Threads -> 1..(NRecs + 1)]
      /\ \A u \in Threads : pc'[u] \in {"open", "again", "expire", "until", "due"} => at'[u] \in Recs
      /\ pc'[t] = "open" /\ at'[t] = at[t]
      /\ \A u \in Threads : u # t => pc'[u] = pc[u] /\ at'[u] = at[u]
  BY <1>1, <1>2, Moves DEF RecInv, Sweeping
<1>4. TypeOK'
  BY <1>2, <1>3 DEF RecInv, TypeOK, dates, loop
<1>5. Resurfaced \subseteq Resurfaced' /\ Stored' = Stored /\ Open' = Open
  BY <1>2 DEF Resurfaced, Stored, Open
<1>6. \A r \in Recs : HalfSnoozed(r)' => HalfSnoozed(r)
  BY <1>3 DEF HalfSnoozed
<1>7. ToOpen(at[t])'
  <2>1. at[t] \in Stored /\ status[at[t]] = "snoozed" /\ at[t] \in snoozeOver
    BY DEF Back, Stored
  <2>2. HalfSnoozed(at[t]) => at[t] \in Resurfaced'
    BY <1>2 DEF Resurfaced
  <2>3. ToOpen(at[t])' <=> /\ at[t]' \in Stored'
                           /\ \/ at[t]' \in Resurfaced'
                              \/ /\ status'[at[t]'] = "snoozed" /\ at[t]' \in snoozeOver'
                                 /\ ~HalfSnoozed(at[t])'
    BY DEF ToOpen
  <2>4. at[t]' = at[t]
    BY <1>3
  <2> QED
    BY <1>2, <1>3, <1>5, <1>6, <2>1, <2>2, <2>3, <2>4 DEF dates, HalfSnoozed
<1>8. Standing'
  <2>1. \A u \in Threads : u # t /\ pc'[u] = "open" => ToOpen(at[u])'
    BY <1>2, <1>3, <1>5, <1>6 DEF RecInv, TypeOK, Standing, ToOpen, HalfSnoozed, dates
  <2>2. \A u \in Threads : pc'[u] = "expire" => Undecided(at[u])'
    BY <1>2, <1>3, <1>5 DEF RecInv, Standing, Undecided
  <2>3. /\ job' = "supersede" => Undecided(jobRow)'
        /\ \A r \in found' : Accepted(r)'
    BY <1>2, <1>5 DEF RecInv, Standing, Undecided, Accepted, loop
  <2> QED
    BY <1>3, <1>7, <2>1, <2>2, <2>3 DEF Standing
<1>9. Open' \ Resurfaced' \subseteq Open \ Resurfaced
  BY <1>5
<1>10. UpsertRoom' /\ OpenWithinCap' /\ OnePerTopic'
  BY <1>2, <1>5, <1>9, RoomKept DEF RecInv, loop
<1>11. Numbered' /\ Decisions' /\ DecisionStands'
  BY <1>2, <1>5 DEF RecInv, Numbered, Decisions, DecisionStands
<1> QED
  BY <1>4, <1>8, <1>10, <1>11 DEF RecInv

\* A look at a row: it is to be opened, to be expired, or passed.
LEMMA LookStep ==
  ASSUME RecInv, NEW t \in Threads, Look(t)
  PROVE  RecInv'
<1>1. pc[t] = "look" /\ at[t] \in Recs
  BY DEF Look, Stored
<1>2. CASE Back(at[t])
  BY <1>1, <1>2, ToOpenStep
<1>3. CASE ~Back(at[t]) /\ Expired(at[t])
  BY <1>1, <1>3, ToExpireStep DEF Look, history
<1>4. CASE ~Back(at[t]) /\ ~Expired(at[t])
  <2>1. NextRow(t) /\ UNCHANGED <<topic, status, dates, requests, loop, history>>
    BY <1>4 DEF Look, history
  <2> QED
    BY <1>1, <2>1, NextRowMoves, PassesBy DEF RecInv
<1> QED
  BY <1>2, <1>3, <1>4

\* A row just opened is looked at again for its expiry.
LEMMA LookAgainStep ==
  ASSUME RecInv, NEW t \in Threads, LookAgain(t)
  PROVE  RecInv'
<1>1. pc[t] = "again" /\ at[t] \in Recs
  BY DEF LookAgain, RecInv, TypeOK
<1>2. CASE Expired(at[t])
  BY <1>1, <1>2, ToExpireStep DEF LookAgain
<1>3. CASE ~Expired(at[t])
  <2>1. NextRow(t) /\ UNCHANGED <<topic, status, dates, requests, loop, history>>
    BY <1>3 DEF LookAgain
  <2> QED
    BY <1>1, <2>1, NextRowMoves, PassesBy DEF RecInv
<1> QED
  BY <1>2, <1>3

\* A row is opened by a sweep only after a snooze of it, or over a decision.
LEMMA WriteOpenStep ==
  ASSUME RecInv, NEW t \in Threads, WriteOpen(t)
  PROVE  RecInv'
<1> DEFINE r == at[t]
<1>1. pc[t] = "open" /\ r \in Recs /\ r \in 1..(NRecs + 1) /\ ToOpen(r)
  BY DEF WriteOpen, RecInv, TypeOK, Standing
<1>2. /\ Goto(t, "again", r)
      /\ status' = [status EXCEPT ![r] = "open"]
      /\ UNCHANGED <<topic, dates, broken, requests, loop, verdict, overtaken>>
  BY DEF WriteOpen, Write
<1>3. /\ pc' \in [Threads -> {"idle", "swept", "until", "due"} \cup Sweeping]
      /\ at' \in [Threads -> 1..(NRecs + 1)]
      /\ \A u \in Threads : pc'[u] \in {"open", "again", "expire", "until", "due"} => at'[u] \in Recs
      /\ pc'[t] = "again" /\ at'[t] = r
      /\ \A u \in Threads : u # t => pc'[u] = pc[u] /\ at'[u] = at[u]
  BY <1>1, <1>2, Moves DEF RecInv, Sweeping
<1>4. returned \subseteq returned' /\ returned' \subseteq returned \cup {r}
  BY DEF WriteOpen
<1>5. r \in Resurfaced' /\ Resurfaced \subseteq Resurfaced'
  BY <1>1, <1>2, <1>4 DEF WriteOpen, ToOpen, Resurfaced
<1>6. /\ status'[r] = "open"
      /\ \A x \in Recs : x # r => status'[x] = status[x]
      /\ Stored' = Stored
  BY <1>1, <1>2 DEF RecInv, TypeOK, ToOpen, Stored
<1>7. TypeOK'
  <2>1. status' \in [Recs -> Status] /\ returned' \in SUBSET Recs
    BY <1>1, <1>2, <1>4 DEF RecInv, TypeOK, Status
  <2> QED
    BY <1>2, <1>3, <2>1 DEF RecInv, TypeOK, dates, loop
<1>8. Open' \ Resurfaced' \subseteq Open \ Resurfaced
  BY <1>5, <1>6 DEF Open
<1>9. UpsertRoom' /\ OpenWithinCap' /\ OnePerTopic'
  BY <1>2, <1>6, <1>8, RoomKept DEF RecInv, loop
<1>10. Numbered' /\ Decisions' /\ DecisionStands'
  BY <1>1, <1>2, <1>5, <1>6 DEF RecInv, Numbered, Decisions, DecisionStands, ToOpen, Stored
<1>11. Standing'
  <2>1. \A x \in Recs : HalfSnoozed(x)' => HalfSnoozed(x)
    BY <1>3 DEF HalfSnoozed
  <2>2. \A u \in Threads : pc'[u] = "open" => ToOpen(at[u])'
    <3> SUFFICES ASSUME NEW u \in Threads, pc'[u] = "open" PROVE ToOpen(at[u])'
      OBVIOUS
    <3>1. u # t /\ at'[u] = at[u] /\ at[u] \in Recs /\ ToOpen(at[u])
      BY <1>3 DEF RecInv, TypeOK, Standing
    <3>2. CASE at[u] = r
      BY <1>1, <1>5, <1>6, <3>1, <3>2 DEF ToOpen
    <3>3. CASE at[u] # r
      BY <1>2, <1>3, <1>5, <1>6, <3>1, <3>3 DEF ToOpen, HalfSnoozed, dates
    <3> QED
      BY <3>2, <3>3
  <2>3. \A u \in Threads : pc'[u] = "expire" => Undecided(at[u])'
    BY <1>2, <1>3, <1>5, <1>6 DEF RecInv, Standing, Undecided
  <2>4. /\ job' = "supersede" => Undecided(jobRow)'
        /\ \A x \in found' : Accepted(x)'
    BY <1>2, <1>5, <1>6 DEF RecInv, Standing, Undecided, Accepted, loop
  <2> QED
    BY <2>2, <2>3, <2>4 DEF Standing
<1> QED
  BY <1>7, <1>9, <1>10, <1>11 DEF RecInv

\* A late write of a status other than open, over a row that was not decided on or has resurfaced,
\* or over an accepted one that is resolved.
LateWriting(r, new) ==
    /\ Undecided(r) \/ (new = "resolved" /\ Accepted(r))
    /\ status' = [status EXCEPT ![r] = new]
    /\ UNCHANGED <<topic, snoozeOver, history>>
    /\ found' \subseteq found
    /\ job' = "supersede" => (job = "supersede" /\ jobRow' = jobRow)
    /\ \A u \in Threads :
            \/ pc'[u] = pc[u] /\ at'[u] = at[u]
            \/ pc'[u] \in {"idle", "look"}

\* Such a write opens nothing and leaves every decision standing, and every writer where it was.
LEMMA LateWrite ==
  ASSUME RecInv, NEW r \in Recs, NEW new \in {"expired", "superseded", "resolved"},
         LateWriting(r, new)
  PROVE  /\ status' \in [Recs -> Status] /\ Open' \ Resurfaced' \subseteq Open \ Resurfaced
         /\ Stored' = Stored
         /\ Numbered' /\ Decisions' /\ DecisionStands' /\ Standing'
<1> USE DEF LateWriting
<1>1. /\ status'[r] = new
      /\ \A x \in Recs : x # r => status'[x] = status[x]
      /\ Stored' = Stored /\ Resurfaced' = Resurfaced /\ r \in Stored
  BY DEF RecInv, TypeOK, Undecided, Accepted, Stored, Resurfaced, history
<1>2. status' \in [Recs -> Status] /\ Open' \ Resurfaced' \subseteq Open \ Resurfaced
  BY <1>1 DEF RecInv, TypeOK, Status, Open
<1>3. Numbered' /\ Decisions'
  BY <1>1 DEF RecInv, Numbered, Decisions, Stored, history
<1>4. DecisionStands'
  BY <1>1 DEF RecInv, DecisionStands, Undecided, Accepted, history
<1>5. \A x \in Recs : HalfSnoozed(x)' => HalfSnoozed(x)
  BY DEF HalfSnoozed
<1>6. \A u \in Threads : pc'[u] = "open" => ToOpen(at[u])'
  <2> SUFFICES ASSUME NEW u \in Threads, pc'[u] = "open" PROVE ToOpen(at[u])'
    OBVIOUS
  <2>1. pc[u] = "open" /\ at'[u] = at[u] /\ at[u] \in Recs /\ ToOpen(at[u])
    BY DEF RecInv, TypeOK, Standing
  <2>2. CASE at[u] = r
    \* A row still snoozed was decided on: only one that has resurfaced is written over.
    <3>1. status[r] = "snoozed" => r \in Resurfaced
      BY DEF RecInv, Decisions, DecisionStands, Undecided, Accepted
    <3> QED
      BY <1>1, <2>1, <2>2, <3>1 DEF ToOpen
  <2>3. CASE at[u] # r
    BY <1>1, <1>5, <2>1, <2>3 DEF ToOpen, HalfSnoozed
  <2> QED
    BY <2>2, <2>3
<1>7. \A u \in Threads : pc'[u] = "expire" => Undecided(at[u])'
  BY <1>1 DEF RecInv, Standing, Undecided, history
<1>8. /\ job' = "supersede" => Undecided(jobRow)'
      /\ \A x \in found' : Accepted(x)'
  BY <1>1 DEF RecInv, Standing, Undecided, Accepted, history
<1> QED
  BY <1>1, <1>2, <1>3, <1>4, <1>6, <1>7, <1>8 DEF Standing

\* A sweep closes a row it saw out of date: undecided, or overtaken.
LEMMA WriteExpiredStep ==
  ASSUME RecInv, NEW t \in Threads, WriteExpired(t)
  PROVE  RecInv'
<1>1. /\ pc[t] = "expire" /\ at[t] \in Recs /\ Undecided(at[t])
      /\ status' = [status EXCEPT ![at[t]] = "expired"] /\ NextRow(t)
      /\ UNCHANGED <<topic, dates, requests, loop, history>>
  BY DEF WriteExpired, RecInv, TypeOK, Standing, Write
<1>2. /\ pc' \in [Threads -> {"idle", "swept", "until", "due"} \cup Sweeping]
      /\ at' \in [Threads -> 1..(NRecs + 1)]
      /\ \A u \in Threads : pc'[u] \in {"open", "again", "expire", "until", "due"} => at'[u] \in Recs
      /\ pc'[t] \in {"idle", "look"} /\ broken' \in SUBSET Threads
      /\ \A u \in Threads : u # t => pc'[u] = pc[u] /\ at'[u] = at[u]
  BY <1>1, NextRowMoves DEF RecInv
<1>3. /\ status' \in [Recs -> Status] /\ Open' \ Resurfaced' \subseteq Open \ Resurfaced
      /\ Stored' = Stored
      /\ Numbered' /\ Decisions' /\ DecisionStands' /\ Standing'
  <2>1. LateWriting(at[t], "expired")
    BY <1>1, <1>2 DEF LateWriting, dates, loop
  <2> QED
    BY <1>1, <2>1, LateWrite
<1>4. UpsertRoom' /\ OpenWithinCap' /\ OnePerTopic'
  BY <1>1, <1>3, RoomKept DEF RecInv, loop
<1>5. TypeOK'
  BY <1>1, <1>2, <1>3 DEF RecInv, TypeOK, dates, loop, history
<1> QED
  BY <1>3, <1>4, <1>5 DEF RecInv

-------------------------------------------------------------------------------
(* Decisions.                                                               *)

\* Whoever stands before a write of the row makes it one of the overtaken.
LEMMA DecideStep ==
  ASSUME RecInv, NEW t \in Threads, NEW r \in Recs,
         NEW new \in {"watching", "snoozed", "rejected"}, Decide(t, r, new),
         NEW p \in {"idle", "until", "due"}, NEW x \in 1..(NRecs + 1), Goto(t, p, x),
         p # "idle" => x = r, p = "until" => new = "snoozed"
  PROVE  RecInv'
<1>1. /\ pc[t] = "swept" /\ r \in Stored
      /\ status' = [status EXCEPT ![r] = new]
      /\ verdict' = [verdict EXCEPT ![r] = new]
      /\ returned' = returned \ {r}
      /\ overtaken' = IF Behind(r) THEN overtaken \cup {r} ELSE overtaken \ {r}
      /\ UNCHANGED <<topic, dates, broken, requests, loop>>
  BY DEF Decide, Write
<1>2. /\ pc' \in [Threads -> {"idle", "swept", "until", "due"} \cup Sweeping]
      /\ at' \in [Threads -> 1..(NRecs + 1)]
      /\ \A u \in Threads : pc'[u] \in {"open", "again", "expire", "until", "due"} => at'[u] \in Recs
      /\ pc'[t] = p /\ at'[t] = x
      /\ \A u \in Threads : u # t => pc'[u] = pc[u] /\ at'[u] = at[u]
  BY Moves DEF RecInv
<1>3. /\ status'[r] = new /\ verdict'[r] = new
      /\ \A y \in Recs : y # r => status'[y] = status[y] /\ verdict'[y] = verdict[y]
      /\ Stored' = Stored
  BY <1>1 DEF RecInv, TypeOK, Stored
<1>4. /\ \A y \in Recs : y # r => (y \in Resurfaced' <=> y \in Resurfaced)
      /\ Behind(r) => r \in Resurfaced'
  BY <1>1 DEF Resurfaced
<1>5. TypeOK'
  <2>1. status' \in [Recs -> Status]
    BY <1>1 DEF RecInv, TypeOK, Status
  <2>2. verdict' \in [Recs -> {"none", "watching", "snoozed", "rejected"}]
    BY <1>1 DEF RecInv, TypeOK
  <2>3. returned' \in SUBSET Recs /\ overtaken' \in SUBSET Recs
    BY <1>1 DEF RecInv, TypeOK
  <2> QED
    BY <1>1, <1>2, <2>1, <2>2, <2>3 DEF RecInv, TypeOK, dates, loop
<1>6. Numbered' /\ Decisions' /\ DecisionStands'
  BY <1>1, <1>3, <1>4 DEF RecInv, Numbered, Decisions, DecisionStands, Stored
<1>7. Open' \ Resurfaced' \subseteq Open \ Resurfaced
  BY <1>3, <1>4 DEF Open
<1>8. UpsertRoom' /\ OpenWithinCap' /\ OnePerTopic'
  BY <1>1, <1>3, <1>7, RoomKept DEF RecInv, loop
<1>9. Standing'
  <2>1. \A y \in Recs : y # r /\ HalfSnoozed(y)' => HalfSnoozed(y)
    BY <1>2 DEF HalfSnoozed
  <2>2. \A u \in Threads : pc'[u] = "open" => ToOpen(at[u])'
    <3> SUFFICES ASSUME NEW u \in Threads, pc'[u] = "open" PROVE ToOpen(at[u])'
      OBVIOUS
    <3>1. u # t /\ pc[u] = "open" /\ at'[u] = at[u] /\ at[u] \in Recs /\ ToOpen(at[u])
      BY <1>2 DEF RecInv, TypeOK, Standing
    <3>2. CASE at[u] = r
      BY <1>1, <1>3, <1>4, <3>1, <3>2 DEF ToOpen, Behind
    <3>3. CASE at[u] # r
      BY <1>1, <1>3, <1>4, <2>1, <3>1, <3>3 DEF ToOpen, HalfSnoozed, dates
    <3> QED
      BY <3>2, <3>3
  <2>3. \A u \in Threads : pc'[u] = "expire" => Undecided(at[u])'
    <3> SUFFICES ASSUME NEW u \in Threads, pc'[u] = "expire" PROVE Undecided(at[u])'
      OBVIOUS
    <3>1. u # t /\ pc[u] = "expire" /\ at'[u] = at[u] /\ at[u] \in Recs /\ Undecided(at[u])
      BY <1>2 DEF RecInv, TypeOK, Standing
    <3> QED
      BY <1>1, <1>3, <1>4, <3>1 DEF Undecided, Behind
  <2>4. job' = "supersede" => Undecided(jobRow)'
    BY <1>1, <1>3, <1>4 DEF RecInv, TypeOK, Standing, Undecided, Behind, loop
  <2>5. \A y \in found' : Accepted(y)'
    BY <1>1, <1>3, <1>4 DEF RecInv, TypeOK, Standing, Accepted, Behind, loop
  <2> QED
    BY <2>2, <2>3, <2>4, <2>5 DEF Standing
<1> QED
  BY <1>5, <1>6, <1>8, <1>9 DEF RecInv

\* The date of a decision is written.
LEMMA WriteDateStep ==
  ASSUME RecInv, NEW t \in Threads, WriteDate(t)
  PROVE  RecInv'
<1>1. /\ pc[t] \in {"until", "due"} /\ at[t] \in Recs
      /\ UNCHANGED <<topic, status, broken, requests, loop, history, passes, measured, expiryOver>>
      /\ snoozeOver' \in SUBSET Recs /\ due' \in SUBSET Recs
      /\ \/ snoozeOver' = snoozeOver
         \/ pc[t] = "until" /\ snoozeOver' = snoozeOver \ {at[t]}
  BY DEF WriteDate, RecInv, TypeOK
<1>2. 1 \in 1..(NRecs + 1)
  BY RecommendationsAssumption DEF RecommendationsAssumption
<1>3. /\ pc' \in [Threads -> {"idle", "swept", "until", "due"} \cup Sweeping]
      /\ at' \in [Threads -> 1..(NRecs + 1)]
      /\ \A u \in Threads : pc'[u] \in {"open", "again", "expire", "until", "due"} => at'[u] \in Recs
      /\ pc'[t] = "idle"
      /\ \A u \in Threads : u # t => pc'[u] = pc[u] /\ at'[u] = at[u]
  BY <1>2, Moves DEF RecInv, WriteDate
<1>4. TypeOK'
  BY <1>1, <1>3 DEF RecInv, TypeOK, loop, history
<1>5. Stored' = Stored /\ Resurfaced' = Resurfaced
  BY <1>1 DEF Stored, Resurfaced, history
<1>6. \A u \in Threads : pc'[u] = "open" => ToOpen(at[u])'
  <2> SUFFICES ASSUME NEW u \in Threads, pc'[u] = "open" PROVE ToOpen(at[u])'
    OBVIOUS
  <2>1. pc[u] = "open" /\ at'[u] = at[u] /\ at[u] \in Recs /\ ToOpen(at[u])
    BY <1>3 DEF RecInv, TypeOK, Standing
  <2>2. \A y \in Recs : HalfSnoozed(y)' => HalfSnoozed(y)
    BY <1>3 DEF HalfSnoozed
  <2>3. pc[t] = "until" => HalfSnoozed(at[t])
    BY DEF HalfSnoozed
  <2> QED
    BY <1>1, <1>3, <1>5, <2>1, <2>2, <2>3 DEF ToOpen, HalfSnoozed
<1>7. Standing'
  BY <1>1, <1>3, <1>5, <1>6 DEF RecInv, Standing, Undecided, Accepted, loop, history
<1> QED
  BY <1>1, <1>4, <1>7, RowsKept DEF RecInv, loop, history

-------------------------------------------------------------------------------
(* The event loop.                                                          *)

\* Steps of the event loop that touch no row leave the threads where they are.
LEMMA LoopStanding ==
  ASSUME RecInv, UNCHANGED <<status, snoozeOver, pc, at, verdict, returned, overtaken>>,
         job' = "supersede" => jobRow' \in Recs /\ Undecided(jobRow'),
         \A r \in found' : Accepted(r)
  PROVE  Standing'
BY DEF RecInv, Standing, ToOpen, Undecided, Accepted, HalfSnoozed, Stored, Resurfaced

\* The count of the open rows leaves room for one more.
LEMMA UpsertStep ==
  ASSUME RecInv, NEW p \in Topics, Upsert(p)
  PROVE  RecInv'
<1>1. /\ UnderCap /\ job' = "look" /\ jobRow' = 1 /\ jobTopic' = p
      /\ UNCHANGED <<topic, status, dates, threads, found, history>>
  BY DEF Upsert
<1>2. Open' = Open /\ Stored' = Stored /\ Resurfaced' = Resurfaced
  BY <1>1 DEF Open, Stored, Resurfaced, history
<1>3. 1 \in 1..(NRecs + 1)
  BY RecommendationsAssumption DEF RecommendationsAssumption
<1>4. TypeOK'
  BY <1>1, <1>3 DEF RecInv, TypeOK, dates, threads, history
<1>5. Standing'
  BY <1>1, LoopStanding DEF RecInv, Standing, dates, threads, history
<1>6. Numbered' /\ Decisions' /\ DecisionStands' /\ OpenWithinCap' /\ OnePerTopic'
  BY <1>1, <1>2 DEF RecInv, Numbered, Decisions, DecisionStands, OpenWithinCap, OnePerTopic, history
<1>7. UpsertRoom'
  <2>1. IsFiniteSet(Recs)
    BY RecommendationsAssumption, FS_Interval DEF RecommendationsAssumption, Recs
  <2>2. IsFiniteSet(Open)
    BY <2>1, FS_Subset DEF Open
  <2>3. /\ Cardinality(Open \ Resurfaced) <= Cardinality(Open)
        /\ Cardinality(Open) \in Nat /\ Cardinality(Open \ Resurfaced) \in Nat
    BY <2>2, FS_Subset, FS_CardinalityType
  <2>4. Cardinality(Open \ Resurfaced) < Cap
    BY <1>1, <2>3, RecommendationsAssumption DEF UnderCap, RecommendationsAssumption
  <2>5. \A x \in Recs : 1 <= x /\ ~(x < 1)
    BY RecommendationsAssumption DEF Recs, RecommendationsAssumption
  <2> QED
    BY <1>1, <1>2, <2>4, <2>5 DEF UpsertRoom, Open
<1> QED
  BY <1>4, <1>5, <1>6, <1>7 DEF RecInv

\* A row about the same thing is open: undecided, or it has resurfaced.  Any other is passed.
LEMMA UpsertLookStep == RecInv /\ UpsertLook => RecInv'
<1> SUFFICES ASSUME RecInv, UpsertLook PROVE RecInv'
  OBVIOUS
<1>1. /\ job = "look" /\ jobRow \in Recs /\ jobRow \in Stored
      /\ UNCHANGED <<topic, status, dates, threads, jobTopic, found, history>>
      /\ \/ Supersedes(jobRow) /\ job' = "supersede" /\ jobRow' = jobRow
         \/ ~Supersedes(jobRow) /\ job' = "look" /\ jobRow' = jobRow + 1
  BY DEF UpsertLook, Stored
<1>2. Open' = Open /\ Stored' = Stored /\ Resurfaced' = Resurfaced
  BY <1>1 DEF Open, Stored, Resurfaced, history
<1>3. jobRow' \in 1..(NRecs + 1)
  BY <1>1, RecommendationsAssumption DEF RecInv, TypeOK, Recs, RecommendationsAssumption
<1>4. TypeOK'
  BY <1>1, <1>3 DEF RecInv, TypeOK, dates, threads, history
<1>5. Standing'
  <2>1. Supersedes(jobRow) => Undecided(jobRow)
    BY <1>1 DEF RecInv, TypeOK, DecisionStands, Supersedes, Undecided
  <2> QED
    BY <1>1, <2>1, LoopStanding DEF RecInv, Standing, dates, threads, history
<1>6. Numbered' /\ Decisions' /\ DecisionStands' /\ OpenWithinCap' /\ OnePerTopic'
  BY <1>1, <1>2 DEF RecInv, Numbered, Decisions, DecisionStands, OpenWithinCap, OnePerTopic, history
<1>7. UpsertRoom'
  <2>1. /\ Cardinality(Open \ Resurfaced) < Cap
        /\ \A x \in Open \ Resurfaced : topic[x] = jobTopic => jobRow <= x
        /\ \A x \in Recs : x < jobRow => x \in Stored
    BY <1>1 DEF RecInv, UpsertRoom
  <2>2. \A x \in Recs : x \in Nat /\ jobRow \in Nat
    BY <1>1, RecommendationsAssumption DEF Open, Recs, RecommendationsAssumption
  <2>3. \A x \in Open \ Resurfaced : topic[x] = jobTopic => jobRow' <= x
    BY <1>1, <2>1, <2>2 DEF Supersedes, Open
  <2>4. \A x \in Recs : x < jobRow' => x \in Stored
    BY <1>1, <2>1, <2>2
  <2> QED
    BY <1>1, <1>2, <2>1, <2>3, <2>4 DEF UpsertRoom
<1> QED
  BY <1>4, <1>5, <1>6, <1>7 DEF RecInv

\* An open row about the candidate's topic is superseded: undecided, or overtaken.
LEMMA UpsertSupersedeStep == RecInv /\ UpsertSupersede => RecInv'
<1> SUFFICES ASSUME RecInv, UpsertSupersede PROVE RecInv'
  OBVIOUS
<1>1. /\ job = "supersede" /\ jobRow \in Recs /\ Undecided(jobRow)
      /\ status' = [status EXCEPT ![jobRow] = "superseded"]
      /\ job' = "look" /\ jobRow' = jobRow + 1
      /\ UNCHANGED <<topic, dates, threads, jobTopic, found, history>>
  BY DEF UpsertSupersede, Write, RecInv, TypeOK, Standing
<1>2. /\ status' \in [Recs -> Status] /\ Open' \ Resurfaced' \subseteq Open \ Resurfaced
      /\ Stored' = Stored
      /\ Numbered' /\ Decisions' /\ DecisionStands' /\ Standing'
  <2>1. LateWriting(jobRow, "superseded")
    BY <1>1 DEF LateWriting, dates, threads
  <2> QED
    BY <1>1, <2>1, LateWrite
<1>3. jobRow' \in 1..(NRecs + 1)
  BY <1>1, RecommendationsAssumption DEF Recs, RecommendationsAssumption
<1>4. TypeOK'
  BY <1>1, <1>2, <1>3 DEF RecInv, TypeOK, dates, threads, history
<1>5. /\ Cardinality(Open' \ Resurfaced') <= Cardinality(Open \ Resurfaced)
      /\ Cardinality(Open' \ Resurfaced') \in Nat /\ Cardinality(Open \ Resurfaced) \in Nat
      /\ OpenWithinCap' /\ OnePerTopic'
  BY <1>1, <1>2, FewerOpen DEF RecInv
<1>6. UpsertRoom'
  <2>1. /\ Cardinality(Open \ Resurfaced) < Cap
        /\ \A x \in Open \ Resurfaced : topic[x] = jobTopic => jobRow <= x
        /\ \A x \in Recs : x < jobRow => x \in Stored
    BY <1>1 DEF RecInv, UpsertRoom
  <2>2. jobRow \notin Open'
    BY <1>1 DEF RecInv, TypeOK, Open
  <2>3. \A x \in Recs : x \in Nat /\ jobRow \in Nat
    BY <1>1, RecommendationsAssumption DEF Recs, RecommendationsAssumption
  <2>4. \A x \in Open' \ Resurfaced' : topic'[x] = jobTopic' => jobRow' <= x
    BY <1>1, <1>2, <2>1, <2>2, <2>3 DEF Open
  <2>5. \A x \in Recs : x < jobRow' => x \in Stored'
    BY <1>1, <1>2, <2>1, <2>3 DEF Undecided
  <2> QED
    BY <1>1, <1>5, <2>1, <2>4, <2>5, RecommendationsAssumption DEF UpsertRoom, RecommendationsAssumption
<1> QED
  BY <1>2, <1>4, <1>5, <1>6 DEF RecInv

\* The insert: the room the count left is still there, and nothing about the topic is open.
LEMMA UpsertInsertStep == RecInv /\ UpsertInsert => RecInv'
<1> SUFFICES ASSUME RecInv, UpsertInsert PROVE RecInv'
  OBVIOUS
<1> DEFINE r == jobRow
<1>1. /\ job = "look" /\ r \in Recs /\ status[r] = "none"
      /\ status' = [status EXCEPT ![r] = "open"]
      /\ topic' = [topic EXCEPT ![r] = jobTopic]
      /\ broken' \in SUBSET Threads
      /\ job' = "none" /\ jobRow' = 1 /\ jobTopic' = NoTopic
      /\ UNCHANGED <<dates, pc, at, requests, found, history>>
  BY DEF UpsertInsert, Write
<1>2. /\ status'[r] = "open" /\ topic'[r] = jobTopic
      /\ \A x \in Recs : x # r => status'[x] = status[x] /\ topic'[x] = topic[x]
      /\ Stored' = Stored \cup {r} /\ Resurfaced' = Resurfaced
      /\ Open' = Open \cup {r} /\ r \notin Open /\ r \notin Stored
  BY <1>1 DEF RecInv, TypeOK, Stored, Open, Resurfaced, history
<1>3. TypeOK'
  <2>1. status' \in [Recs -> Status] /\ topic' \in [Recs -> Topics \cup {NoTopic}]
    BY <1>1 DEF RecInv, TypeOK, Status
  <2>2. 1 \in 1..(NRecs + 1)
    BY RecommendationsAssumption DEF RecommendationsAssumption
  <2> QED
    BY <1>1, <2>1, <2>2 DEF RecInv, TypeOK, dates, history
<1>4. Decisions' /\ DecisionStands'
  BY <1>1, <1>2 DEF RecInv, Decisions, DecisionStands, history
<1>5. Numbered'
  <2>1. \A x \in Recs : x < r => x \in Stored
    BY <1>1 DEF RecInv, UpsertRoom
  <2> QED
    BY <1>1, <1>2, <2>1 DEF RecInv, Numbered, Stored
<1>6. Standing'
  <2>1. \A u \in Threads : pc'[u] = "open" => ToOpen(at[u])'
    BY <1>1, <1>2 DEF RecInv, TypeOK, Standing, ToOpen, HalfSnoozed, dates
  <2>2. \A u \in Threads : pc'[u] = "expire" => Undecided(at[u])'
    BY <1>1, <1>2 DEF RecInv, Standing, Undecided, history
  <2>3. \A x \in found' : Accepted(x)'
    BY <1>1, <1>2 DEF RecInv, Standing, Accepted, history
  <2> QED
    BY <1>1, <2>1, <2>2, <2>3 DEF Standing
<1>7. OpenWithinCap'
  <2>1. IsFiniteSet(Recs)
    BY RecommendationsAssumption, FS_Interval DEF RecommendationsAssumption, Recs
  <2>2. IsFiniteSet(Open \ Resurfaced)
    BY <2>1, FS_Subset DEF Open
  <2>3. /\ IsFiniteSet((Open \ Resurfaced) \cup {r})
        /\ Cardinality((Open \ Resurfaced) \cup {r}) = Cardinality(Open \ Resurfaced) + 1
        /\ Cardinality(Open \ Resurfaced) \in Nat
    BY <1>2, <2>2, FS_AddElement, FS_CardinalityType
  <2>4. Open' \ Resurfaced' \subseteq (Open \ Resurfaced) \cup {r}
    BY <1>2
  <2>5. /\ Cardinality(Open' \ Resurfaced') <= Cardinality((Open \ Resurfaced) \cup {r})
        /\ Cardinality(Open' \ Resurfaced') \in Nat
    BY <2>3, <2>4, FS_Subset, FS_CardinalityType
  <2>6. Cardinality(Open \ Resurfaced) < Cap
    BY <1>1 DEF RecInv, UpsertRoom
  <2> QED
    BY <2>3, <2>5, <2>6, RecommendationsAssumption DEF OpenWithinCap, RecommendationsAssumption
<1>8. OnePerTopic'
  <2>1. \A x \in Open \ Resurfaced : topic[x] # jobTopic
    <3> SUFFICES ASSUME NEW x \in Open \ Resurfaced, topic[x] = jobTopic PROVE FALSE
      OBVIOUS
    <3>1. r <= x /\ r # x
      BY <1>1, <1>2 DEF RecInv, UpsertRoom
    <3>2. r \in Nat /\ x \in Nat /\ x \in Recs
      BY <1>1, RecommendationsAssumption DEF Open, Recs, RecommendationsAssumption
    <3>3. status[x] = "none"
      BY <1>1, <3>1, <3>2 DEF RecInv, Numbered
    <3> QED
      BY <3>3 DEF Open
  <2>2. \A x, y \in Open : topic'[x] = topic'[y] => x = y \/ {x, y} \cap Resurfaced' # {}
    BY <1>1, <1>2 DEF RecInv, OnePerTopic, Open
  <2>3. \A x \in Open : topic'[x] = topic'[r] => x \in Resurfaced'
    BY <1>2, <2>1 DEF Open
  <2> QED
    BY <1>2, <2>2, <2>3 DEF OnePerTopic
<1>9. UpsertRoom'
  BY <1>1 DEF UpsertRoom
<1> QED
  BY <1>3, <1>4, <1>5, <1>6, <1>7, <1>8, <1>9 DEF RecInv

\* The scan collects accepted rows ...
LEMMA ScanLookStep ==
  ASSUME RecInv, Scan \/ ScanLook \/ ScanLookEnds
  PROVE  RecInv'
<1>1. /\ job' \in {"none", "scan", "resolve"}
      /\ UNCHANGED <<topic, status, dates, threads, jobTopic, history>>
      /\ found' \subseteq found \cup {x \in Recs : x = jobRow /\ x \in Stored /\ status[x] = "watching"}
  BY DEF Scan, ScanLook, ScanLookEnds, IsDue, Stored
<1>2. jobRow' \in 1..(NRecs + 1)
  BY RecommendationsAssumption
     DEF Scan, ScanLook, ScanLookEnds, Stored, RecInv, TypeOK, Recs, RecommendationsAssumption
<1>3. TypeOK'
  BY <1>1, <1>2 DEF RecInv, TypeOK, dates, threads, history
<1>4. Standing'
  <2>1. \A r \in Recs : r \in Stored /\ status[r] = "watching" => Accepted(r)
    \* A row in watching was accepted, by what it was decided last.
    BY DEF RecInv, DecisionStands, Accepted, Decisions
  <2> QED
    BY <1>1, <2>1, LoopStanding DEF RecInv, Standing, dates, threads, history
<1> QED
  BY <1>1, <1>3, <1>4, RowsKept DEF RecInv, history

\* ... and resolves them.
LEMMA ScanWriteStep == RecInv /\ ScanWrite => RecInv'
<1> SUFFICES ASSUME RecInv, ScanWrite PROVE RecInv'
  OBVIOUS
<1>1. PICK r \in found : /\ status' = [status EXCEPT ![r] = "resolved"]
                         /\ measured' = measured \cup {r} /\ found' = found \ {r}
                         /\ job' = IF found = {r} THEN "none" ELSE job
  BY DEF ScanWrite, Write
<1>2. /\ job = "resolve" /\ r \in Recs /\ Accepted(r)
      /\ UNCHANGED <<topic, snoozeOver, expiryOver, due, passes, threads, jobRow, jobTopic, history>>
  BY <1>1 DEF ScanWrite, RecInv, TypeOK, Standing
<1>3. /\ status' \in [Recs -> Status] /\ Open' \ Resurfaced' \subseteq Open \ Resurfaced
      /\ Numbered' /\ Decisions' /\ DecisionStands' /\ Standing'
      /\ Stored' = Stored
  <2>1. LateWriting(r, "resolved")
    BY <1>1, <1>2 DEF LateWriting, threads
  <2> QED
    BY <1>1, <1>2, <2>1, LateWrite
<1>4. TypeOK'
  BY <1>1, <1>2, <1>3 DEF RecInv, TypeOK, threads, history
<1>5. UpsertRoom' /\ OpenWithinCap' /\ OnePerTopic'
  BY <1>1, <1>2, <1>3, RoomKept DEF RecInv
<1> QED
  BY <1>3, <1>4, <1>5 DEF RecInv

-------------------------------------------------------------------------------

\* Time passes.
LEMMA PassStep ==
  ASSUME RecInv, NEW r \in Recs, Pass(r)
  PROVE  RecInv'
<1>1. /\ UNCHANGED <<topic, status, measured, threads, loop, history>>
      /\ snoozeOver \subseteq snoozeOver'
      /\ snoozeOver' \in SUBSET Recs /\ expiryOver' \in SUBSET Recs /\ due' \in SUBSET Recs
      /\ passes' \in 0..MaxPasses
  BY RecommendationsAssumption DEF Pass, RecInv, TypeOK, RecommendationsAssumption
<1>2. TypeOK'
  BY <1>1 DEF RecInv, TypeOK, threads, loop, history
<1>3. Standing'
  BY <1>1 DEF RecInv, TypeOK, Standing, ToOpen, Undecided, Accepted, HalfSnoozed, Stored, Resurfaced,
     threads, loop, history
<1> QED
  BY <1>1, <1>2, <1>3, RowsKept DEF RecInv, loop, history

\* A fresh dictionary satisfies the invariant.
LEMMA InitStep == Init => RecInv
<1> SUFFICES ASSUME Init PROVE RecInv
  OBVIOUS
<1>1. 1 \in 1..(NRecs + 1)
  BY RecommendationsAssumption DEF RecommendationsAssumption
<1>2. TypeOK
  BY <1>1, RecommendationsAssumption DEF Init, TypeOK, Status, RecommendationsAssumption
<1>3. Open = {}
  BY DEF Init, Open
<1>4. OpenWithinCap
  BY <1>3, FS_EmptySet, RecommendationsAssumption DEF OpenWithinCap, RecommendationsAssumption
<1> QED
  BY <1>2, <1>3, <1>4 DEF RecInv, Init, Numbered, Decisions, Standing, UpsertRoom, OnePerTopic,
     DecisionStands

\* The process restarts: the dictionary is as at the start.
LEMMA RestartStep == RecInv /\ Restart => RecInv'
<1> SUFFICES ASSUME RecInv, Restart PROVE RecInv'
  OBVIOUS
<1>1. 1 \in 1..(NRecs + 1)
  BY RecommendationsAssumption DEF RecommendationsAssumption
<1>2. TypeOK'
  BY <1>1, RecommendationsAssumption DEF Restart, TypeOK, Status, RecommendationsAssumption
<1>3. Open' = {}
  BY DEF Restart, Open
<1>4. OpenWithinCap'
  BY <1>3, FS_EmptySet, RecommendationsAssumption DEF OpenWithinCap, RecommendationsAssumption
<1> QED
  BY <1>2, <1>3, <1>4 DEF RecInv, Restart, Numbered, Decisions, Standing, UpsertRoom, OnePerTopic,
     DecisionStands

-------------------------------------------------------------------------------

\* The inductive invariant holds in every state.
THEOREM RecommendationsInvariant == Spec => []RecInv
<1>1. Init => RecInv
  BY InitStep
<1>2. RecInv /\ [Next]_vars => RecInv'
  <2> SUFFICES ASSUME RecInv, [Next]_vars PROVE RecInv'
    OBVIOUS
  <2>1. ASSUME NEW t \in Threads, Request(t) PROVE RecInv'
    <3>1. CASE Begin(t) \/ Answer(t)
      BY <3>1, BeginStep
    <3>2. CASE Look(t) \/ LookAgain(t) \/ LookEnds(t)
      BY <3>2, LookStep, LookAgainStep, LookEndsStep
    <3>3. CASE WriteOpen(t) \/ WriteExpired(t) \/ WriteDate(t)
      BY <3>3, WriteOpenStep, WriteExpiredStep, WriteDateStep
    <3>4. ASSUME NEW r \in Recs, Accept(t, r) \/ Snooze(t, r) \/ Reject(t, r) PROVE RecInv'
      <4>1. r \in 1..(NRecs + 1) /\ 1 \in 1..(NRecs + 1)
        BY RecommendationsAssumption DEF Recs, RecommendationsAssumption
      <4>2. CASE Accept(t, r)
        BY <4>1, <4>2, DecideStep DEF Accept
      <4>3. CASE Snooze(t, r)
        BY <4>1, <4>3, DecideStep DEF Snooze
      <4>4. CASE Reject(t, r)
        BY <4>1, <4>4, DecideStep DEF Reject
      <4> QED
        BY <3>4, <4>2, <4>3, <4>4
    <3> QED
      BY <2>1, <3>1, <3>2, <3>3, <3>4 DEF Request
  <2>2. CASE Engine
    BY <2>2, UpsertStep, UpsertLookStep, UpsertSupersedeStep, UpsertInsertStep DEF Engine
  <2>3. CASE Scan \/ ScanLook \/ ScanLookEnds \/ ScanWrite
    BY <2>3, ScanLookStep, ScanWriteStep
  <2>4. CASE Restart
    BY <2>4, RestartStep
  <2>5. ASSUME NEW r \in Recs, Pass(r) PROVE RecInv'
    BY <2>5, PassStep
  <2>6. CASE UNCHANGED vars
    <3>1. TypeOK'
      BY <2>6 DEF vars, dates, threads, loop, history, RecInv, TypeOK
    <3>2. Standing'
      BY <2>6 DEF vars, dates, threads, loop, history, RecInv, Standing, ToOpen, Undecided, Accepted,
                  HalfSnoozed, Stored, Resurfaced
    <3> QED
      BY <2>6, <3>1, <3>2, RowsKept DEF vars, loop, history, RecInv
  <2> QED
    BY <2>1, <2>2, <2>3, <2>4, <2>5, <2>6 DEF Next
<1> QED
  BY <1>1, <1>2, PTL DEF Spec

\* The variables keep to their types.
THEOREM RecommendationsTypeCorrect == Spec => []TypeOK
<1>1. RecInv => TypeOK
  BY DEF RecInv
<1> QED
  BY <1>1, RecommendationsInvariant, PTL

\* The engine never goes beyond its cap, but for rows that resurfaced.
THEOREM OpenWithinCapHolds == Spec => []OpenWithinCap
<1>1. RecInv => OpenWithinCap
  BY DEF RecInv
<1> QED
  BY <1>1, RecommendationsInvariant, PTL

\* Two open rows about one thing: one of them has resurfaced.
THEOREM OnePerTopicHolds == Spec => []OnePerTopic
<1>1. RecInv => OnePerTopic
  BY DEF RecInv
<1> QED
  BY <1>1, RecommendationsInvariant, PTL

\* A row keeps the last decision on it until a snooze ends, or a late write overtakes the decision.
THEOREM DecisionStandsHolds == Spec => []DecisionStands
<1>1. RecInv => DecisionStands
  BY DEF RecInv
<1> QED
  BY <1>1, RecommendationsInvariant, PTL
=============================================================================
