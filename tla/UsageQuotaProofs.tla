---------------------------- MODULE UsageQuotaProofs ----------------------------
(***************************************************************************)
(* What UsageQuota guarantees for every set of limits.  The invariant says   *)
(* of each counter that a guard never reads less than what was done          *)
(* (NothingForgotten, so a passed guard means room for one more), and that   *)
(* what was done together with what has been let in keeps to the quota       *)
(* (Committed): the second alone is not inductive, since a guard looks at    *)
(* the counter and not at the history.                                       *)
(***************************************************************************)
EXTENDS UsageQuota, FiniteSetTheorems, TLAPS

\* Uses that a guard has let in and that are not done.
Pending(c) ==
    IF c = "copilot_calls" THEN Cardinality(chat)
    ELSE IF c = "undos_today" THEN (IF loop = "undo" THEN 1 ELSE 0)
    ELSE (IF loop = "import" THEN 1 ELSE 0)

Committed ==
    \A c \in Counters : done[c] + Pending(c) <= Limit[c] + Overshoot(c) + slack[c]

QuotaInv == TypeOK /\ NothingForgotten /\ Committed

-------------------------------------------------------------------------------

\* The set of chats under way is finite and no larger than the set of requests.
LEMMA ChatSize ==
  ASSUME TypeOK
  PROVE  /\ IsFiniteSet(chat) /\ Cardinality(chat) \in Nat
         /\ Cardinality(Chats) \in Nat /\ Cardinality(Chats) >= 1
         /\ Cardinality(chat) <= Cardinality(Chats)
<1>1. IsFiniteSet(Chats) /\ Chats # {} /\ chat \subseteq Chats
  BY QuotaAssumption DEF QuotaAssumption, TypeOK
<1>2. Cardinality(Chats) \in Nat /\ Cardinality(Chats) # 0
  BY <1>1, FS_CardinalityType, FS_EmptySet
<1> QED
  BY <1>1, <1>2, FS_Subset, FS_CardinalityType

\* The limits are positive and the numbers of the invariant are numbers.
LEMMA Numbers ==
  ASSUME TypeOK, NEW c \in Counters
  PROVE  /\ Limit[c] \in Nat \ {0}
         /\ Overshoot(c) \in Nat
         /\ Pending(c) \in Nat
         /\ Reported(c) \in Nat
<1>1. Limit[c] \in Nat \ {0}
  BY QuotaAssumption DEF QuotaAssumption, Limit, Counters, Daily
<1>2. Overshoot(c) \in Nat /\ Pending(c) \in Nat
  BY ChatSize DEF Overshoot, Pending
<1>3. Reported(c) \in Nat
  BY DEF TypeOK, Reported
<1> QED
  BY <1>1, <1>2, <1>3

\* An increment shows up in what is reported and lowers nothing, even when it
\* brings back a counter of another day.
LEMMA IncrementShows ==
  ASSUME TypeOK, NEW c \in Counters, Increment(c), day' = day
  PROVE  /\ usage' \in [Counters -> Nat] /\ last' \in Nat \cup {NoDay}
         /\ Reported(c)' >= Reported(c) + 1
         /\ \A k \in Counters : Reported(k)' >= Reported(k)
<1>1. usage' \in [Counters -> Nat] /\ last' \in Nat \cup {NoDay}
  BY QuotaAssumption DEF QuotaAssumption, TypeOK, Increment
<1>2. \A k \in Counters : Reported(k)' = usage'[k]
  BY DEF Increment, Reported
<1>3. usage'[c] = usage[c] + 1 /\ \A k \in Counters : usage'[k] >= usage[k]
  BY DEF TypeOK, Increment
<1>4. \A k \in Counters : usage[k] >= Reported(k)
  BY DEF TypeOK, Reported
<1> QED
  BY <1>1, <1>2, <1>3, <1>4, Numbers DEF TypeOK

\* So does an activity of another kind, which only dates the row.
LEMMA DateShows ==
  ASSUME TypeOK, usage' = usage, last' \in {last, day}, day' = day
  PROVE  /\ last' \in Nat \cup {NoDay}
         /\ \A k \in Counters : Reported(k)' >= Reported(k)
<1>1. last' \in Nat \cup {NoDay}
  BY QuotaAssumption DEF QuotaAssumption, TypeOK
<1>2. \A k \in Counters : Reported(k)' >= Reported(k)
  BY DEF TypeOK, Reported
<1> QED
  BY <1>1, <1>2

\* Charging counters.
LEMMA ChargeAdds ==
  ASSUME TypeOK, NEW cs \in SUBSET Counters, Charge(cs)
  PROVE  /\ slack' \in [Counters -> Nat]
         /\ \A k \in cs : slack'[k] = slack[k] + 1
         /\ \A k \in Counters : slack'[k] >= slack[k]
BY DEF TypeOK, Charge

\* Using counters.
LEMMA UseAdds ==
  ASSUME TypeOK, NEW cs \in SUBSET Counters, Use(cs)
  PROVE  /\ done' \in [Counters -> Nat]
         /\ \A k \in cs : done'[k] = done[k] + 1
         /\ \A k \in Counters \ cs : done'[k] = done[k]
BY DEF TypeOK, Use

\* A guard that passes leaves room for one more use of its counters, while no
\* handler is in the middle of counting.
LEMMA PassMakesRoom ==
  ASSUME TypeOK, NothingForgotten, loop = "free", NEW cs \in SUBSET Counters, Pass(cs)
  PROVE  /\ slack' \in [Counters -> Nat]
         /\ \A k \in Counters : slack'[k] >= slack[k]
         /\ \A k \in cs : \/ done[k] + 1 <= Limit[k] + slack[k] /\ slack'[k] = slack[k]
                          \/ slack'[k] = slack[k] + 1
<1>1. CASE Charge(cs)
  BY <1>1, ChargeAdds
<1>2. CASE Below(cs) /\ UNCHANGED slack
  <2>1. \A k \in cs : done[k] <= Reported(k) + slack[k]
    <3>1. \A k \in Counters : loop \notin Uncounted[k]
      BY DEF Uncounted, Counters, Daily
    <3> QED
      BY <3>1, Numbers DEF NothingForgotten, TypeOK
  <2>2. \A k \in cs : Reported(k) + 1 <= Limit[k]
    BY <1>2, Numbers DEF Below
  <2>3. \A k \in cs : done[k] + 1 <= Limit[k] + slack[k]
    BY <2>1, <2>2, Numbers DEF TypeOK
  <2> QED
    BY <1>2, <2>3 DEF TypeOK
<1> QED
  BY <1>1, <1>2 DEF Pass

\* An increment that may be lost: the counter is reported one higher or its
\* slack is one larger, and nothing is lowered.
LEMMA CountShowsOrCharges ==
  ASSUME TypeOK, day' = day, NEW c \in Counters, NEW next, NEW skipped \in SUBSET Counters,
         c \in skipped, Count(c, next, skipped)
  PROVE  /\ usage' \in [Counters -> Nat] /\ last' \in Nat \cup {NoDay}
         /\ slack' \in [Counters -> Nat]
         /\ \A k \in Counters : Reported(k)' >= Reported(k) /\ slack'[k] >= slack[k]
         /\ \/ /\ loop' = next
               /\ Reported(c)' >= Reported(c) + 1
            \/ /\ loop' = "free"
               /\ \A k \in skipped : slack'[k] = slack[k] + 1
<1>1. CASE Increment(c) /\ loop' = next /\ UNCHANGED slack
  BY <1>1, IncrementShows DEF TypeOK
<1>2. CASE (Increment(c) \/ UNCHANGED rowVars) /\ loop' = "free" /\ Charge(skipped)
  <2>1. /\ usage' \in [Counters -> Nat] /\ last' \in Nat \cup {NoDay}
        /\ \A k \in Counters : Reported(k)' >= Reported(k)
    <3>1. CASE Increment(c)
      BY <3>1, IncrementShows
    <3>2. CASE UNCHANGED rowVars
      BY <3>2, DateShows DEF rowVars, TypeOK
    <3> QED
      BY <1>2, <3>1, <3>2
  <2> QED
    BY <1>2, <2>1, ChargeAdds
<1> QED
  BY <1>1, <1>2 DEF Count


-------------------------------------------------------------------------------
(* The invariant, action by action.                                         *)

\* Nothing is forgotten: for a step within a day, it is enough that no counter
\* is done more than reported, charged, or about to be counted.
LEMMA StillCovered ==
  ASSUME TypeOK, TypeOK', NothingForgotten,
         \A k \in Counters :
            \/ /\ done'[k] = done[k] /\ Reported(k)' >= Reported(k) /\ slack'[k] >= slack[k]
               /\ \/ loop' \in Uncounted[k] \/ loop \notin Uncounted[k]
                  \/ Reported(k)' >= Reported(k) + 1 \/ slack'[k] >= slack[k] + 1
            \/ /\ done'[k] = done[k] + 1 /\ Reported(k)' >= Reported(k) /\ slack'[k] >= slack[k]
               /\ loop \notin Uncounted[k]
               /\ \/ loop' \in Uncounted[k]
                  \/ Reported(k)' >= Reported(k) + 1 \/ slack'[k] >= slack[k] + 1
  PROVE  NothingForgotten'
<1> SUFFICES ASSUME NEW k \in Counters
             PROVE  done'[k] <= Reported(k)' + slack'[k]
                                  + (IF loop' \in Uncounted[k] THEN 1 ELSE 0)
  BY DEF NothingForgotten, Uncounted
<1>1. done[k] <= Reported(k) + slack[k] + (IF loop \in Uncounted[k] THEN 1 ELSE 0)
  BY DEF NothingForgotten
<1>2. Reported(k) \in Nat /\ Reported(k)' \in Nat
  BY DEF TypeOK, Reported
<1>3. done[k] \in Nat /\ slack[k] \in Nat /\ done'[k] \in Nat /\ slack'[k] \in Nat
  BY DEF TypeOK
<1> QED
  BY <1>1, <1>2, <1>3

\* Type correctness of a step.
LEMMA TypeStep ==
  ASSUME TypeOK, [Next]_vars
  PROVE  TypeOK'
<1> USE DEF TypeOK
<1>1. CASE UNCHANGED vars
  BY <1>1 DEF vars, rowVars, histVars
<1>2. CASE Midnight
  <2>1. day' \in 0..(DaysPerMonth - 1)
    BY <1>2, QuotaAssumption DEF Midnight, QuotaAssumption
  <2> QED
    BY <1>2, <2>1 DEF Midnight, Zeros
<1>3. CASE GuardImport
  BY <1>3, ChargeAdds DEF GuardImport, Pass, Uploads, Counters, Daily, rowVars
<1>4. CASE ImportFile
  BY <1>4, UseAdds DEF ImportFile, Uploads, Counters, Daily, rowVars
<1>5. CASE CountRows
  <2>1. last' \in Nat \cup {NoDay}
    BY <1>5, QuotaAssumption DEF CountRows, QuotaAssumption
  <2> QED
    BY <1>5, <2>1, ChargeAdds DEF CountRows, Uploads, Counters, Daily
<1>6. CASE CountUpload
  BY <1>6, CountShowsOrCharges DEF CountUpload, Uploads, Counters, Daily
<1>7. CASE CountToday
  BY <1>7, CountShowsOrCharges DEF CountToday, Counters, Daily
<1>8. CASE QueueImport
  BY <1>8, ChargeAdds DEF QueueImport, Pass, Uploads, Counters, Daily, rowVars
<1>9. CASE GuardUndo
  BY <1>9, ChargeAdds DEF GuardUndo, Pass, Counters, Daily, rowVars
<1>10. CASE UndoRows
  BY <1>10, UseAdds DEF UndoRows, Counters, Daily, rowVars
<1>11. CASE CountUndo
  BY <1>11, CountShowsOrCharges DEF CountUndo, Counters, Daily
<1>12. ASSUME NEW c \in Chats, GuardChat(c) PROVE TypeOK'
  BY <1>12, ChargeAdds DEF GuardChat, Pass, Counters, Daily, rowVars
<1>13. ASSUME NEW c \in Chats, EndChat(c) PROVE TypeOK'
  <2>1. CASE Use({"copilot_calls"}) /\ Count("copilot_calls", "free", {"copilot_calls"})
    BY <1>13, <2>1, UseAdds, CountShowsOrCharges DEF EndChat, Counters, Daily
  <2>2. CASE UNCHANGED <<rowVars, loop, done, slack>>
    BY <1>13, <2>2 DEF EndChat, rowVars
  <2> QED
    BY <1>13, <2>1, <2>2 DEF EndChat, Answered
<1> QED
  BY <1>1, <1>2, <1>3, <1>4, <1>5, <1>6, <1>7, <1>8, <1>9, <1>10, <1>11, <1>12, <1>13
     DEF Next

\* Nothing is forgotten by a step.
LEMMA ForgottenStep ==
  ASSUME TypeOK, TypeOK', NothingForgotten, [Next]_vars
  PROVE  NothingForgotten'
<1> USE DEF Counters, Daily
<1>1. CASE UNCHANGED vars
  BY <1>1 DEF vars, rowVars, histVars, NothingForgotten, Reported, Uncounted
<1>2. CASE Midnight
  <2> SUFFICES ASSUME NEW k \in Counters
               PROVE  done'[k] <= Reported(k)' + slack'[k]
                                    + (IF loop' \in Uncounted[k] THEN 1 ELSE 0)
    BY DEF NothingForgotten, Uncounted
  <2>1. Reported(k)' \in Nat /\ slack'[k] \in Nat
    BY DEF TypeOK, Reported
  <2>2. CASE done'[k] = 0
    BY <2>1, <2>2
  <2>3. CASE k \notin Daily /\ day + 1 # DaysPerMonth
    BY <1>2, <2>3 DEF Midnight, NothingForgotten, Reported, TypeOK
  <2> QED
    BY <1>2, <2>2, <2>3 DEF Midnight
<1>3. CASE GuardImport
  BY <1>3, StillCovered, PassMakesRoom, Numbers DEF GuardImport, Uploads, rowVars, Reported, Uncounted, TypeOK
<1>4. CASE ImportFile
  BY <1>4, StillCovered, UseAdds DEF ImportFile, Uploads, rowVars, Reported, Uncounted, TypeOK
<1>5. CASE CountRows
  BY <1>5, StillCovered, DateShows, ChargeAdds DEF CountRows, Uploads, Uncounted, TypeOK
<1>6. CASE CountUpload
  BY <1>6, StillCovered, CountShowsOrCharges DEF CountUpload, Uploads, Uncounted, TypeOK
<1>7. CASE CountToday
  BY <1>7, StillCovered, CountShowsOrCharges DEF CountToday, Uncounted, TypeOK
<1>8. CASE QueueImport
  BY <1>8, StillCovered, PassMakesRoom DEF QueueImport, Uploads, rowVars, Reported, Uncounted, TypeOK
<1>9. CASE GuardUndo
  BY <1>9, StillCovered, PassMakesRoom DEF GuardUndo, rowVars, Reported, Uncounted, TypeOK
<1>10. CASE UndoRows
  BY <1>10, StillCovered, UseAdds DEF UndoRows, rowVars, Reported, Uncounted, TypeOK
<1>11. CASE CountUndo
  BY <1>11, StillCovered, CountShowsOrCharges DEF CountUndo, Uncounted, TypeOK
<1>12. ASSUME NEW c \in Chats, GuardChat(c) PROVE NothingForgotten'
  BY <1>12, StillCovered, PassMakesRoom DEF GuardChat, rowVars, Reported, Uncounted, TypeOK
<1>13. ASSUME NEW c \in Chats, EndChat(c) PROVE NothingForgotten'
  <2>1. CASE Use({"copilot_calls"}) /\ Count("copilot_calls", "free", {"copilot_calls"})
    BY <1>13, <2>1, StillCovered, UseAdds, CountShowsOrCharges DEF EndChat, Uncounted, TypeOK
  <2>2. CASE UNCHANGED <<rowVars, loop, done, slack>>
    BY <1>13, <2>2, StillCovered DEF EndChat, rowVars, Reported, Uncounted, TypeOK
  <2> QED
    BY <1>13, <2>1, <2>2 DEF EndChat, Answered
<1> QED
  BY <1>1, <1>2, <1>3, <1>4, <1>5, <1>6, <1>7, <1>8, <1>9, <1>10, <1>11, <1>12, <1>13
     DEF Next

\* Within a day a counter keeps to its quota if its uses, done and pending, do
\* not become more, or if a guard has made room for one more.
LEMMA StillCommitted ==
  ASSUME TypeOK, TypeOK', Committed,
         \A k \in Counters :
            \/ done'[k] + Pending(k)' <= done[k] + Pending(k) /\ slack'[k] >= slack[k]
            \/ /\ done'[k] + Pending(k)' <= done[k] + Pending(k) + 1
               /\ slack'[k] = slack[k] + 1
            \/ done'[k] + Pending(k)' <= Limit[k] + Overshoot(k) + slack'[k]
  PROVE  Committed'
<1> SUFFICES ASSUME NEW k \in Counters
             PROVE  done'[k] + Pending(k)' <= Limit[k] + Overshoot(k) + slack'[k]
  BY DEF Committed, Limit, Overshoot
<1>1. done[k] + Pending(k) <= Limit[k] + Overshoot(k) + slack[k]
  BY DEF Committed
<1>2. /\ Limit[k] \in Nat /\ Overshoot(k) \in Nat /\ Pending(k) \in Nat
      /\ slack[k] \in Nat /\ slack'[k] \in Nat /\ done[k] \in Nat /\ done'[k] \in Nat
  BY Numbers DEF TypeOK
<1>3. Pending(k)' \in Nat
  <2>1. Cardinality(chat') \in Nat
    BY QuotaAssumption, FS_Subset, FS_CardinalityType DEF QuotaAssumption, TypeOK
  <2> QED
    BY <2>1 DEF Pending
<1> QED
  BY <1>1, <1>2, <1>3

\* The quotas are kept by a step.
LEMMA CommittedStep ==
  ASSUME TypeOK, TypeOK', NothingForgotten, Committed, [Next]_vars
  PROVE  Committed'
<1> USE DEF Counters, Daily
<1>0. Cardinality(chat) \in Nat
  BY ChatSize
<1>1. CASE UNCHANGED vars
  BY <1>1 DEF vars, histVars, Committed, Pending, Limit, Overshoot
<1>2. CASE Midnight
  <2> SUFFICES ASSUME NEW k \in Counters
               PROVE  done'[k] + Pending(k)' <= Limit[k] + Overshoot(k) + slack'[k]
    BY DEF Committed, Limit, Overshoot
  <2>1. Pending(k)' = Pending(k)
    BY <1>2 DEF Midnight, Pending
  <2>2. CASE done'[k] = 0 /\ slack'[k] = 0
    <3>1. Pending(k) <= Limit[k] + Overshoot(k)
      <4>1. CASE k = "copilot_calls"
        BY <4>1, ChatSize, Numbers DEF Pending, Overshoot
      <4>2. CASE k # "copilot_calls"
        BY <4>2, Numbers DEF Pending
      <4> QED
        BY <4>1, <4>2
    <3> QED
      BY <2>1, <2>2, <3>1, Numbers
  <2>3. CASE done'[k] = done[k] /\ slack'[k] = slack[k]
    BY <2>1, <2>3 DEF Committed
  <2> QED
    BY <1>2, <2>2, <2>3 DEF Midnight, TypeOK
<1>3. CASE GuardImport
  BY <1>3, <1>0, StillCommitted, PassMakesRoom, Numbers
     DEF GuardImport, Uploads, Pending, Overshoot, TypeOK
<1>4. CASE ImportFile
  BY <1>4, <1>0, StillCommitted, UseAdds DEF ImportFile, Uploads, Pending, TypeOK
<1>5. CASE CountRows
  BY <1>5, <1>0, StillCommitted, ChargeAdds DEF CountRows, Uploads, Pending, TypeOK
<1>6. CASE CountUpload
  BY <1>6, <1>0, StillCommitted, CountShowsOrCharges DEF CountUpload, Uploads, Pending, TypeOK
<1>7. CASE CountToday
  BY <1>7, <1>0, StillCommitted, CountShowsOrCharges DEF CountToday, Pending, TypeOK
<1>8. CASE QueueImport
  BY <1>8, <1>0, StillCommitted, PassMakesRoom DEF QueueImport, Uploads, Pending, TypeOK
<1>9. CASE GuardUndo
  BY <1>9, <1>0, StillCommitted, PassMakesRoom, Numbers DEF GuardUndo, Pending, Overshoot, TypeOK
<1>10. CASE UndoRows
  BY <1>10, <1>0, StillCommitted, UseAdds DEF UndoRows, Pending, TypeOK
<1>11. CASE CountUndo
  BY <1>11, <1>0, StillCommitted, CountShowsOrCharges DEF CountUndo, Pending, TypeOK
<1>12. ASSUME NEW c \in Chats, GuardChat(c) PROVE Committed'
  <2>1. Cardinality(chat') = Cardinality(chat) + 1 /\ Cardinality(chat') <= Cardinality(Chats)
    <3>1. IsFiniteSet(Chats) /\ chat' \subseteq Chats
      BY QuotaAssumption DEF QuotaAssumption, TypeOK
    <3> QED
      BY <1>12, <3>1, ChatSize, FS_AddElement, FS_Subset DEF GuardChat
  <2>2. \A k \in Counters : done'[k] = done[k] /\ slack'[k] >= slack[k]
    BY <1>12, PassMakesRoom DEF GuardChat
  <2>3. \A k \in Counters \ {"copilot_calls"} : Pending(k)' = Pending(k)
    BY <1>12 DEF GuardChat, Pending
  <2>4. Pending("copilot_calls")' = Cardinality(chat') /\ Pending("copilot_calls") = Cardinality(chat)
    BY DEF Pending
  <2>5. \/ done["copilot_calls"] + 1 <= Limit["copilot_calls"] + slack["copilot_calls"]
           /\ slack'["copilot_calls"] = slack["copilot_calls"]
        \/ slack'["copilot_calls"] = slack["copilot_calls"] + 1
    BY <1>12, PassMakesRoom DEF GuardChat
  <2>6. Overshoot("copilot_calls") = Cardinality(Chats) - 1
    BY DEF Overshoot
  <2>7. done["copilot_calls"] \in Nat /\ slack["copilot_calls"] \in Nat /\ Limit["copilot_calls"] \in Nat
    BY Numbers DEF TypeOK
  <2>8. \/ done'["copilot_calls"] + Pending("copilot_calls")'
             <= Limit["copilot_calls"] + Overshoot("copilot_calls") + slack'["copilot_calls"]
        \/ /\ done'["copilot_calls"] + Pending("copilot_calls")'
                <= done["copilot_calls"] + Pending("copilot_calls") + 1
           /\ slack'["copilot_calls"] = slack["copilot_calls"] + 1
    BY <1>0, <2>1, <2>2, <2>4, <2>5, <2>6, <2>7, ChatSize
  <2>9. \A k \in Counters \ {"copilot_calls"} :
           done'[k] + Pending(k)' <= done[k] + Pending(k) /\ slack'[k] >= slack[k]
    BY <2>2, <2>3, Numbers DEF TypeOK
  <2> QED
    BY <2>8, <2>9, StillCommitted
<1>13. ASSUME NEW c \in Chats, EndChat(c) PROVE Committed'
  <2>1. Cardinality(chat') = Cardinality(chat) - 1
    BY <1>13, ChatSize, FS_RemoveElement DEF EndChat
  <2>2. CASE Use({"copilot_calls"}) /\ Count("copilot_calls", "free", {"copilot_calls"})
    <3>1. loop' = "free" /\ loop = "free" /\ \A k \in Counters : slack'[k] >= slack[k]
      BY <1>13, <2>2, CountShowsOrCharges DEF EndChat
    <3>2. \A k \in Counters : done'[k] + Pending(k)' <= done[k] + Pending(k)
      BY <1>0, <2>1, <2>2, <3>1, UseAdds DEF Pending, TypeOK
    <3> QED
      BY <3>1, <3>2, StillCommitted
  <2>3. CASE UNCHANGED <<rowVars, loop, done, slack>>
    BY <1>0, <1>13, <2>1, <2>3, StillCommitted DEF Pending, TypeOK
  <2> QED
    BY <1>13, <2>2, <2>3 DEF EndChat, Answered
<1> QED
  BY <1>1, <1>2, <1>3, <1>4, <1>5, <1>6, <1>7, <1>8, <1>9, <1>10, <1>11, <1>12, <1>13
     DEF Next

-------------------------------------------------------------------------------
(* Theorems.                                                                *)

\* The inductive invariant of the quotas.
THEOREM QuotaInvariant == Spec => []QuotaInv
<1>1. Init => QuotaInv
  <2> SUFFICES ASSUME Init PROVE QuotaInv
    OBVIOUS
  <2>1. TypeOK
    BY QuotaAssumption DEF Init, TypeOK, QuotaAssumption, Zeros
  <2>2. \A k \in Counters : done[k] = 0 /\ slack[k] = 0 /\ Pending(k) = 0
    BY FS_EmptySet DEF Init, Zeros, Pending
  <2> QED
    BY <2>1, <2>2, Numbers DEF QuotaInv, NothingForgotten, Committed, Uncounted
<1>2. QuotaInv /\ [Next]_vars => QuotaInv'
  BY TypeStep, ForgottenStep, CommittedStep DEF QuotaInv
<1> QED
  BY <1>1, <1>2, PTL DEF Spec

\* Type correctness.
THEOREM TypeCorrect == Spec => []TypeOK
<1>1. QuotaInv => TypeOK
  BY DEF QuotaInv
<1> QED
  BY <1>1, QuotaInvariant, PTL

\* What the guards of plan_guard.py read never falls short of what was done,
\* but for lost increments and the request that is about to count.
THEOREM NothingForgottenHolds == Spec => []NothingForgotten
<1>1. QuotaInv => NothingForgotten
  BY DEF QuotaInv
<1> QED
  BY <1>1, QuotaInvariant, PTL

\* For any limits and any number of concurrent chats, a quota is overrun by no
\* more than the chats let in together and the calls that failed.
THEOREM QuotasHoldAlways == Spec => []QuotasHold
<1>1. QuotaInv => QuotasHold
  BY Numbers DEF QuotaInv, Committed, QuotasHold, TypeOK
<1> QED
  BY <1>1, QuotaInvariant, PTL

===============================================================================
