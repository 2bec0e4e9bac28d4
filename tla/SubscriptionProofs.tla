--------------------------- MODULE SubscriptionProofs ---------------------------
(***************************************************************************)
(* Proofs about Subscription, for any number of subscriptions, events,      *)
(* reminders and failed calls.                                              *)
(***************************************************************************)
EXTENDS Subscription, FiniteSetTheorems, SequenceTheorems, TLAPS

\* The change of the event at hand has been written, or has failed to be.
UnderHand == hook.pc \in {"invoice", "mark", "error"}

\* A handler works on an event that is there and not marked; one that issues an
\* invoice has a payment.  The dunning job knows the failure and the offset it
\* is about, a request knows its subscription.
Ready ==
    /\ Len(events) <= MaxEvents
    /\ hook.pc # "idle" => hook.event \in DOMAIN events \ processed
    /\ hook.pc = "invoice" => events[hook.event].payment # NoPayment
    /\ dun.pc # "idle" => dun.since # Never
    /\ dun.pc \in {"record", "send", "insert"} => dun.at \in Slots
    /\ req.pc \in {"stale", "store", "fetch", "sync"} => req.sub \in Subs
    /\ logFaults <= faults

\* Each time an event's change has been written is paid for: once by the event's
\* mark, which may be still to come, and else by a fault.
Paid ==
    \A e \in Events :
        applied[e] <= faults + IF e \in processed \/ (UnderHand /\ hook.event = e) THEN 1 ELSE 0

\* So is each failure that has been stamped.
Stamped ==
    failures <= Cardinality(processed) + faults + IF UnderHand THEN 1 ELSE 0

\* Each e-mail is paid for by its record in dunning_sent_log or by a call on it
\* that failed, the one about to be sent included; one about to be recorded has
\* no record to pay with, or its lookup has just failed.
Recorded ==
    /\ dun.pc = "record" => reminded[<<dun.at, dun.since>>] <= logFaults
    /\ \A x \in DOMAIN reminded :
          reminded[x] + (IF dun.pc = "send" /\ x = <<dun.at, dun.since>> THEN 1 ELSE 0)
              <= logFaults + IF x \in sentLog THEN 1 ELSE 0

BillingInv == TypeOK /\ Ready /\ Paid /\ Stamped /\ InvoicedOnce /\ Recorded

-------------------------------------------------------------------------------
(* The parts of the type invariant: what one step changes at a time.        *)

\* The tenant's row, with the days and failures it is about.
RowType ==
    /\ plan \in {"free", "paid"}
    /\ status \in {"active", "past_due", "cancelled", "trialing"}
    /\ since \in Episodes \cup {Never}
    /\ sub \in Subs \cup {NoSub}
    /\ age \in 0..LastOffset
    /\ status = "past_due" => since # Never

\* Razorpay's subscriptions and the events it delivers.
FeedType ==
    /\ prov \in [Subs -> {"none", "created", "authenticated", "active", "failing", "cancelled"}]
    /\ events \in Seq([kind : Kinds, sub : Subs, payment : Events \cup {NoPayment}])
    /\ pending \subseteq DOMAIN events /\ processed \subseteq DOMAIN events
    /\ unhandled \subseteq DOMAIN events

\* What the webhooks have done, and the one under way.
HookType ==
    /\ invoices \subseteq Events \X (1..MaxMonth)
    /\ hook \in [pc : {"idle", "apply", "invoice", "mark", "error"}, event : Events \cup {0}]
    /\ applied \in [Events -> Nat]

\* The dunning job's record of where it is, and what it has sent.
DunType == [pc : {"idle", "check", "record", "send", "insert"}, at : 1..(Len(Offsets) + 1),
            since : Episodes \cup {Never}, days : 0..LastOffset, plan : {"free", "paid"}]

SentType ==
    /\ sentLog \subseteq Slots \X Episodes /\ sentEvents \subseteq Slots
    /\ reminded \in [Slots \X Episodes -> Nat]
    /\ logFaults \in 0..MaxFaults

ReqType == [pc : {"idle", "stale", "create", "store", "fetch", "sync"}, sub : Subs \cup {NoSub}]

LEMMA TypeParts ==
  /\ TypeOK <=> /\ RowType /\ FeedType /\ HookType /\ SentType /\ dun \in DunType /\ req \in ReqType
                /\ failures \in Episodes \cup {Never} /\ month \in 1..MaxMonth /\ faults \in 0..MaxFaults
  /\ TypeOK' <=> /\ RowType' /\ FeedType' /\ HookType' /\ SentType' /\ dun' \in DunType /\ req' \in ReqType
                 /\ failures' \in Episodes \cup {Never} /\ month' \in 1..MaxMonth /\ faults' \in 0..MaxFaults
  BY DEF TypeOK, RowType, FeedType, HookType, SentType, DunType, ReqType

LEMMA SameRow == RowType /\ UNCHANGED row => RowType'
  BY DEF RowType, row

LEMMA SameWebhook == HookType /\ UNCHANGED webhook => HookType'
  BY DEF HookType, webhook

LEMMA SameDunning ==
  SentType /\ dun \in DunType /\ UNCHANGED dunning => SentType' /\ dun' \in DunType
  BY DEF SentType, dunning

LEMMA SameFeed == FeedType /\ UNCHANGED <<prov, events, pending, processed, unhandled>> => FeedType'
  BY DEF FeedType

-------------------------------------------------------------------------------
(* The constants.                                                           *)

\* What the assumption says of the offsets and the bounds.
LEMMA Constants ==
  /\ Len(Offsets) \in Nat \ {0} /\ LastOffset \in Nat
  /\ \A k \in Slots : Offsets[k] \in Nat
  /\ MaxEvents \in Nat /\ MaxFaults \in Nat /\ MaxMonth \in Nat \ {0}
  BY SubscriptionAssumption DEF LastOffset, Slots

\* The events marked processed are a finite set, and one that is not marked yet
\* adds to it.
LEMMA Marked ==
  ASSUME TypeOK, Ready
  PROVE  /\ Cardinality(processed) \in Nat
         /\ \A e \in DOMAIN events : Cardinality(processed \cup {e}) =
               Cardinality(processed) + (IF e \in processed THEN 0 ELSE 1)
         /\ hook.pc # "idle" => Cardinality(processed) + 1 <= MaxEvents
<1>1. DOMAIN events = 1..Len(events) /\ Len(events) \in Nat
  BY DEF TypeOK
<1>2. IsFiniteSet(DOMAIN events) /\ Cardinality(DOMAIN events) = Len(events)
  <2>1. 1 \in Int /\ Len(events) \in Int
    BY <1>1
  <2>2. /\ IsFiniteSet(1..Len(events))
        /\ Cardinality(1..Len(events)) = IF 1 > Len(events) THEN 0 ELSE Len(events) - 1 + 1
    BY <2>1, FS_Interval
  <2> QED
    BY <1>1, <2>2
<1>3. processed \subseteq DOMAIN events /\ IsFiniteSet(processed)
  BY <1>2, FS_Subset DEF TypeOK
<1>4. \A e \in DOMAIN events : Cardinality(processed \cup {e}) =
               Cardinality(processed) + (IF e \in processed THEN 0 ELSE 1)
  BY <1>3, FS_AddElement, FS_CardinalityType
<1>5. ASSUME NEW e \in DOMAIN events \ processed PROVE Cardinality(processed) + 1 <= MaxEvents
  <2>1. processed \cup {e} \subseteq DOMAIN events
    BY <1>3
  <2>2. Cardinality(processed \cup {e}) <= Len(events)
    BY <1>2, <2>1, FS_Subset
  <2> QED
    BY <1>1, <1>3, <1>4, <2>2, Constants, FS_CardinalityType DEF Ready
<1> QED
  BY <1>3, <1>4, <1>5, FS_CardinalityType DEF Ready

-------------------------------------------------------------------------------
(* What a step leaves alone.                                                *)

\* Faults only grow, and never beyond their bound.
MoreFaults == faults' \in 0..MaxFaults /\ faults' >= faults

\* An event that was emitted is an event.
LEMMA EventType ==
  ASSUME TypeOK, NEW e \in DOMAIN events
  PROVE  events[e] \in [kind : Kinds, sub : Subs, payment : Events \cup {NoPayment}]
<1>1. /\ events \in Seq([kind : Kinds, sub : Subs, payment : Events \cup {NoPayment}])
      /\ e \in 1..Len(events)
  BY DEF TypeOK
<1> QED
  BY <1>1, ElementOfSeq

\* A fault is one more, as long as the bound allows it.
LEMMA FaultBound ==
  ASSUME TypeOK, Fault \/ UNCHANGED faults
  PROVE  MoreFaults /\ (Fault => faults' = faults + 1)
  BY Constants DEF TypeOK, Fault, MoreFaults

\* A step that writes no event's change and marks none keeps what is paid for.
LEMMA StillPaid ==
  ASSUME TypeOK, MoreFaults, Paid, UNCHANGED webhook
  PROVE  Paid'
<1> SUFFICES ASSUME NEW e \in Events
             PROVE  applied'[e] <= faults' + (IF e \in processed' \/ (UnderHand' /\ hook'.event = e)
                                              THEN 1 ELSE 0)
  BY DEF Paid
<1>1. /\ applied'[e] = applied[e] /\ processed' = processed /\ hook' = hook
      /\ applied[e] \in Nat /\ faults \in Nat /\ faults' \in Nat /\ faults' >= faults
  BY DEF webhook, TypeOK, MoreFaults
<1>2. applied[e] <= faults + (IF e \in processed \/ (UnderHand /\ hook.event = e) THEN 1 ELSE 0)
  BY DEF Paid
<1>3. UnderHand' <=> UnderHand
  BY <1>1 DEF UnderHand
<1>4. applied[e] <= faults' + (IF e \in processed \/ (UnderHand /\ hook.event = e) THEN 1 ELSE 0)
  <2>1. CASE e \in processed \/ (UnderHand /\ hook.event = e)
    BY <1>1, <1>2, <2>1
  <2>2. CASE ~(e \in processed \/ (UnderHand /\ hook.event = e))
    BY <1>1, <1>2, <2>2
  <2> QED
    BY <2>1, <2>2
<1> QED
  BY <1>1, <1>3, <1>4

\* Nor does it disturb what the failures are paid for with.
LEMMA StillStamped ==
  ASSUME TypeOK, Ready, MoreFaults, Stamped, UNCHANGED <<webhook, failures>>
  PROVE  Stamped'
<1>1. /\ Cardinality(processed) \in Nat /\ faults \in Nat /\ faults' \in Nat /\ faults' >= faults
      /\ failures \in Nat
  <2>1. Cardinality(processed) \in Nat
    BY Marked, Zenon
  <2> QED
    BY <2>1, TypeParts DEF MoreFaults, Episodes, Never
<1>2. /\ failures' = failures /\ Cardinality(processed') = Cardinality(processed)
      /\ UnderHand' <=> UnderHand
  BY DEF UnderHand, webhook
<1>3. failures <= Cardinality(processed) + faults + IF UnderHand THEN 1 ELSE 0
  BY DEF Stamped
<1>4. failures <= Cardinality(processed) + faults' + IF UnderHand THEN 1 ELSE 0
  <2>1. CASE UnderHand
    BY <1>1, <1>3, <2>1
  <2>2. CASE ~UnderHand
    BY <1>1, <1>3, <2>2
  <2> QED
    BY <2>1, <2>2
<1>5. failures' <= Cardinality(processed') + faults' + IF UnderHand' THEN 1 ELSE 0
  BY <1>2, <1>4
<1> QED
  BY <1>5 DEF Stamped

\* A step outside the dunning job leaves its records alone.
LEMMA StillRecorded ==
  ASSUME Recorded, UNCHANGED dunning
  PROVE  Recorded'
  BY DEF Recorded, dunning

\* Razorpay may have one event more.
LEMMA Emitted ==
  ASSUME TypeOK, Ready, NEW kind \in Kinds, NEW s \in Subs, NEW payment \in Events \cup {NoPayment},
         Emit(kind, s, payment)
  PROVE  /\ events' \in Seq([kind : Kinds, sub : Subs, payment : Events \cup {NoPayment}])
         /\ DOMAIN events \subseteq DOMAIN events'
         /\ pending' \subseteq DOMAIN events'
         /\ Len(events') <= MaxEvents
         /\ \A e \in DOMAIN events : events'[e] = events[e]
<1>1. [kind |-> kind, sub |-> s, payment |-> payment]
         \in [kind : Kinds, sub : Subs, payment : Events \cup {NoPayment}]
  OBVIOUS
<1>2. Len(events') = Len(events) + 1 /\ DOMAIN events = 1..Len(events) /\ DOMAIN events' = 1..Len(events')
      /\ Len(events) \in Nat
  BY <1>1 DEF Emit, TypeOK
<1>3. events' \in Seq([kind : Kinds, sub : Subs, payment : Events \cup {NoPayment}])
  BY <1>1 DEF Emit, TypeOK
<1>4. \A e \in DOMAIN events : events'[e] = events[e]
  BY <1>1, <1>2 DEF Emit, TypeOK
<1> QED
  BY <1>2, <1>3, <1>4, Constants DEF Emit, TypeOK

-------------------------------------------------------------------------------
(* Razorpay, the calendar, checkout, sync and the superadmin.               *)

AsideStep ==
    \/ \E s \in Subs : Razorpay(s) \/ CheckoutCreate(s)
    \/ Day \/ NextMonth
    \/ CheckoutRead \/ CancelStale \/ CheckoutStore
    \/ SyncRead \/ SyncFetch \/ SyncWrite
    \/ ManualUpgrade \/ ExtendTrial
    \/ UNCHANGED vars

\* None of them touches the webhook, the invoices or the dunning job.
LEMMA AsideLeaves ==
  ASSUME TypeOK, AsideStep
  PROVE  UNCHANGED <<webhook, dunning, failures>> /\ MoreFaults
<1>1. UNCHANGED <<webhook, dunning, failures>> /\ (Fault \/ UNCHANGED faults)
  BY DEF AsideStep, Razorpay, CheckoutCreate, Day, NextMonth, CheckoutRead, CancelStale, CheckoutStore,
         SyncRead, SyncFetch, SyncWrite, ManualUpgrade, ExtendTrial, vars, clock
<1> QED
  BY <1>1, FaultBound

\* Razorpay's events are only added to, within their bound.
LEMMA AsideRazorpay ==
  ASSUME TypeOK, Ready, AsideStep
  PROVE  /\ prov' \in [Subs -> {"none", "created", "authenticated", "active", "failing", "cancelled"}]
         /\ events' \in Seq([kind : Kinds, sub : Subs, payment : Events \cup {NoPayment}])
         /\ DOMAIN events \subseteq DOMAIN events'
         /\ pending' \subseteq DOMAIN events'
         /\ Len(events') <= MaxEvents
         /\ \A e \in DOMAIN events : events'[e] = events[e]
<1>1. CASE UNCHANGED razorpay
  BY <1>1 DEF razorpay, TypeOK, Ready
<1>2. ASSUME NEW s \in Subs, CheckoutCreate(s)
      PROVE  prov' \in [Subs -> {"none", "created", "authenticated", "active", "failing", "cancelled"}]
             /\ UNCHANGED <<events, pending>>
  BY <1>2 DEF CheckoutCreate, Move, TypeOK
<1>3. ASSUME NEW s \in Subs, Razorpay(s)
      PROVE  /\ prov' \in [Subs -> {"none", "created", "authenticated", "active", "failing", "cancelled"}]
             /\ \E kind \in Kinds, payment \in Events \cup {NoPayment} : Emit(kind, s, payment)
  <2>1. prov' \in [Subs -> {"none", "created", "authenticated", "active", "failing", "cancelled"}]
    BY <1>3 DEF Razorpay, Move, TypeOK
  <2>2. ASSUME NEW e \in DOMAIN events PROVE events[e].payment \in Events \cup {NoPayment}
    BY <2>2, EventType
  <2>3. ASSUME NEW kind, NEW payment, Emit(kind, s, payment) PROVE Len(events) + 1 \in Events
    BY <2>3, Constants DEF Emit, Events, TypeOK
  <2> QED
    BY <1>3, <2>1, <2>2, <2>3 DEF Razorpay, Kinds
<1>4. CASE CancelStale /\ ~UNCHANGED razorpay
  <2>1. req.sub \in Subs /\ Move(req.sub, PendingStatuses, "cancelled") /\ Emit("cancelled", req.sub, NoPayment)
    BY <1>4 DEF CancelStale, Ready
  <2>2. prov' \in [Subs -> {"none", "created", "authenticated", "active", "failing", "cancelled"}]
    BY <2>1 DEF Move, TypeOK
  <2> QED
    BY <2>1, <2>2, Emitted DEF Kinds
<1>5. CASE UNCHANGED razorpay \/ (\E s \in Subs : Razorpay(s) \/ CheckoutCreate(s)) \/ CancelStale
  BY <1>1, <1>2, <1>3, <1>4, <1>5, Emitted DEF TypeOK, Ready
<1> QED
  BY <1>5 DEF AsideStep, Day, NextMonth, CheckoutRead, CheckoutStore, SyncRead, SyncFetch, SyncWrite,
              ManualUpgrade, ExtendTrial, vars

\* The tenant's row and the request stay well-typed.
LEMMA AsideTenant ==
  ASSUME TypeOK, Ready, AsideStep
  PROVE  /\ plan' \in {"free", "paid"}
         /\ status' \in {"active", "past_due", "cancelled", "trialing"}
         /\ since' \in Episodes \cup {Never}
         /\ sub' \in Subs \cup {NoSub}
         /\ age' \in 0..LastOffset /\ month' \in 1..MaxMonth
         /\ status' = "past_due" => since' # Never
         /\ req' \in [pc : {"idle", "stale", "create", "store", "fetch", "sync"}, sub : Subs \cup {NoSub}]
         /\ req'.pc \in {"stale", "store", "fetch", "sync"} => req'.sub \in Subs
<1> DEFINE RequestOK ==
             /\ req' \in [pc : {"idle", "stale", "create", "store", "fetch", "sync"}, sub : Subs \cup {NoSub}]
             /\ req'.pc \in {"stale", "store", "fetch", "sync"} => req'.sub \in Subs
<1>1. /\ plan \in {"free", "paid"}
      /\ status \in {"active", "past_due", "cancelled", "trialing"}
      /\ since \in Episodes \cup {Never}
      /\ sub \in Subs \cup {NoSub}
      /\ status = "past_due" => since # Never
  BY DEF TypeOK
<1>2. /\ age \in 0..LastOffset /\ LastOffset \in Nat /\ month \in 1..MaxMonth /\ MaxMonth \in Nat
      /\ 0 \in 0..LastOffset
  BY Constants DEF TypeOK
<1>3. /\ req \in [pc : {"idle", "stale", "create", "store", "fetch", "sync"}, sub : Subs \cup {NoSub}]
      /\ req.pc \in {"stale", "store", "fetch", "sync"} => req.sub \in Subs
  BY DEF TypeOK, Ready
<1>4. \A pc \in {"idle", "create"} : req' = [pc |-> pc, sub |-> NoSub] => RequestOK
  OBVIOUS
<1>5. \A pc \in {"stale", "store", "fetch"}, s \in Subs : req' = [pc |-> pc, sub |-> s] => RequestOK
  OBVIOUS
<1>6. UNCHANGED req => RequestOK
  BY <1>3
<1> HIDE DEF RequestOK
<1>7. CASE UNCHANGED <<row, month, req>>
  BY <1>1, <1>2, <1>6, <1>7 DEF row, RequestOK
<1>8. ASSUME NEW s \in Subs, CheckoutCreate(s) PROVE UNCHANGED <<row, month>> /\ RequestOK
  BY <1>5, <1>8 DEF CheckoutCreate, clock
<1>9. CASE Day
  <2>1. age' \in 0..LastOffset
    BY <1>2, <1>9 DEF Day
  <2> QED
    BY <1>1, <1>2, <1>6, <1>9, <2>1 DEF Day, clock, RequestOK
<1>10. CASE NextMonth
  <2>1. month' \in 1..MaxMonth
    BY <1>2, <1>10 DEF NextMonth
  <2> QED
    BY <1>1, <1>2, <1>6, <1>10, <2>1 DEF NextMonth, row, RequestOK
<1>11. CASE CheckoutRead \/ SyncRead
  <2>1. UNCHANGED <<row, month>>
    BY <1>11 DEF CheckoutRead, SyncRead, clock
  <2>2. RequestOK
    BY <1>1, <1>4, <1>5, <1>11 DEF CheckoutRead, SyncRead
  <2> QED
    BY <1>1, <1>2, <2>1, <2>2 DEF row, RequestOK
<1>12. CASE CancelStale
  <2>1. UNCHANGED <<row, month>> /\ RequestOK
    BY <1>4, <1>12 DEF CancelStale, clock
  <2> QED
    BY <1>1, <1>2, <2>1 DEF row, RequestOK
<1>13. CASE CheckoutStore
  <2>1. UNCHANGED <<plan, status, since, age, month>> /\ RequestOK
    BY <1>4, <1>13 DEF CheckoutStore, ReqIdle, clock
  <2>2. sub' \in Subs \cup {NoSub}
    BY <1>1, <1>3, <1>13 DEF CheckoutStore
  <2> QED
    BY <1>1, <1>2, <2>1, <2>2 DEF RequestOK
<1>14. CASE SyncFetch
  <2>1. UNCHANGED <<row, month>>
    BY <1>14 DEF SyncFetch, clock
  <2>2. [req EXCEPT !.pc = "sync"] = [pc |-> "sync", sub |-> req.sub] /\ (req.pc = "fetch" => req.sub \in Subs)
    BY <1>3
  <2>3. CASE req' = ReqIdle
    BY <1>1, <1>2, <1>4, <2>1, <2>3 DEF ReqIdle, row, RequestOK
  <2>4. CASE req' = [req EXCEPT !.pc = "sync"]
    <3>1. RequestOK
      BY <1>14, <2>2, <2>4 DEF SyncFetch, RequestOK
    <3> QED
      BY <1>1, <1>2, <2>1, <3>1 DEF row, RequestOK
  <2> QED
    BY <1>14, <2>3, <2>4 DEF SyncFetch
<1>15. CASE SyncWrite
  <2>1. UNCHANGED month /\ RequestOK
    BY <1>4, <1>15 DEF SyncWrite, ReqIdle, clock
  <2> QED
    BY <1>1, <1>2, <1>3, <1>15, <2>1 DEF SyncWrite, PaidBy, RequestOK
<1>16. CASE ManualUpgrade \/ ExtendTrial
  <2>1. UNCHANGED month /\ RequestOK
    BY <1>6, <1>16 DEF ManualUpgrade, ExtendTrial, clock
  <2> QED
    BY <1>1, <1>2, <1>16, <2>1 DEF ManualUpgrade, ExtendTrial, RequestOK
<1>17. (\E s \in Subs : Razorpay(s)) \/ UNCHANGED vars => UNCHANGED <<row, month, req>>
  BY DEF Razorpay, clock, vars
<1>18. ASSUME NEW s \in Subs, CheckoutCreate(s) PROVE UNCHANGED <<plan, status, since, sub, age, month>> /\ RequestOK
  BY <1>8, <1>18 DEF row
<1>19. CASE \E s \in Subs : CheckoutCreate(s)
  BY <1>1, <1>2, <1>18, <1>19 DEF RequestOK
<1> QED
  BY <1>7, <1>9, <1>10, <1>11, <1>12, <1>13, <1>14, <1>15, <1>16, <1>17, <1>19 DEF AsideStep

\* All in all these steps keep the invariant.
LEMMA AsideKeeps ==
  ASSUME BillingInv, AsideStep
  PROVE  BillingInv'
<1> USE DEF BillingInv
<1>1. UNCHANGED <<webhook, dunning, failures>> /\ MoreFaults
  BY AsideLeaves
<1>2. TypeOK'
  BY <1>1, AsideRazorpay, AsideTenant, SameWebhook, SameDunning, TypeParts, Constants
     DEF RowType, ReqType, FeedType, webhook, MoreFaults
<1>3. Ready'
  <2>1. DOMAIN events \subseteq DOMAIN events' /\ \A e \in DOMAIN events : events'[e] = events[e]
    BY AsideRazorpay
  <2>2. hook' = hook /\ processed' = processed /\ dun' = dun /\ logFaults' = logFaults
    BY <1>1 DEF webhook, dunning
  <2>3. hook'.pc # "idle" => hook'.event \in DOMAIN events' \ processed'
    BY <2>1, <2>2 DEF Ready
  <2>4. hook'.pc = "invoice" => events'[hook'.event].payment # NoPayment
    BY <2>1, <2>2 DEF Ready
  <2>5. logFaults' <= faults'
    BY <1>1, <2>2, Constants DEF Ready, TypeOK, MoreFaults
  <2>6. (dun'.pc # "idle" => dun'.since # Never) /\ (dun'.pc \in {"record", "send", "insert"} => dun'.at \in Slots)
    BY <2>2 DEF Ready
  <2> QED
    BY <2>3, <2>4, <2>5, <2>6, AsideRazorpay, AsideTenant DEF Ready
<1>4. Paid' /\ Stamped' /\ Recorded'
  BY <1>1, StillPaid, StillStamped, StillRecorded
<1>5. InvoicedOnce'
  BY <1>1 DEF InvoicedOnce, webhook
<1> QED
  BY <1>2, <1>3, <1>4, <1>5

-------------------------------------------------------------------------------
(* The webhook.                                                             *)

\* An event's change leaves a well-typed tenant, and at most one more failure
\* stamped.
LEMMA WriteType ==
  ASSUME TypeOK, failures + 1 \in Episodes,
         NEW ev \in [kind : Kinds, sub : Subs, payment : Events \cup {NoPayment}], Write(ev)
  PROVE  /\ plan' \in {"free", "paid"}
         /\ status' \in {"active", "past_due", "cancelled", "trialing"}
         /\ since' \in Episodes \cup {Never}
         /\ sub' \in Subs \cup {NoSub}
         /\ age' \in 0..LastOffset
         /\ status' = "past_due" => since' # Never
         /\ failures' \in {failures, failures + 1}
<1>1. 0 \in 0..LastOffset /\ failures + 1 # Never
  BY Constants DEF Episodes, Never
<1>2. CASE ev.kind \in {"activated", "charged"}
  BY <1>1, <1>2 DEF Write, PaidBy, TypeOK
<1>3. CASE ev.kind = "captured"
  BY <1>1, <1>3 DEF Write, PaidBy, TypeOK
<1>4. CASE ev.kind = "failed"
  BY <1>1, <1>4 DEF Write, Overdue, TypeOK
<1>5. CASE ev.kind \in {"cancelled", "refunded"}
  BY <1>1, <1>5 DEF Write, Downgrade, TypeOK
<1> QED
  BY <1>2, <1>3, <1>4, <1>5 DEF Kinds

\* What is left of the invariant when an event is handled.
LEMMA HookLeaves ==
  ASSUME TypeOK, Ready, Recorded, MoreFaults, UNCHANGED <<prov, events, dunning>>
  PROVE  /\ Recorded'
         /\ logFaults' <= faults'
         /\ dun'.pc # "idle" => dun'.since # Never
         /\ dun'.pc \in {"record", "send", "insert"} => dun'.at \in Slots
<1>1. logFaults' = logFaults /\ logFaults \in Nat /\ faults \in Nat /\ faults' \in Nat
  BY Constants DEF dunning, TypeOK, MoreFaults
<1> QED
  BY <1>1, StillRecorded DEF Ready, dunning, MoreFaults

\* A delivery of an event that is marked changes nothing; else a handler starts.
LEMMA DeliverKeeps ==
  ASSUME BillingInv, NEW e \in DOMAIN events, Deliver(e)
  PROVE  BillingInv'
<1> USE DEF BillingInv
<1>1. UNCHANGED <<row, clock, prov, events, processed, invoices, applied, unhandled, dunning, req,
                  faults>>
  BY DEF Deliver
<1>2. e \in Events
  BY Constants DEF TypeOK, Ready, Events
<1>3. MoreFaults /\ Recorded'
  BY <1>1, FaultBound, StillRecorded
<1>4. /\ hook' \in [pc : {"idle", "apply", "invoice", "mark", "error"}, event : Events \cup {0}]
      /\ pending' \subseteq DOMAIN events
      /\ ~UnderHand /\ ~UnderHand'
      /\ hook'.pc \in {"idle", "apply"}
      /\ hook'.pc = "apply" => hook'.event \in DOMAIN events \ processed
  BY <1>2 DEF Deliver, AlreadyProcessed, UnderHand, TypeOK
<1>5. TypeOK'
  <2>1. RowType' /\ SentType' /\ dun' \in DunType
    BY <1>1, SameRow, SameDunning, TypeParts
  <2>2. FeedType' /\ HookType'
    BY <1>1, <1>4, TypeParts DEF FeedType, HookType
  <2> QED
    BY <1>1, <2>1, <2>2, TypeParts DEF clock
<1>6. Ready'
  BY <1>1, <1>4 DEF Ready, dunning
<1>7. Paid' /\ Stamped' /\ InvoicedOnce'
  BY <1>1, <1>4 DEF Paid, Stamped, InvoicedOnce, clock
<1> QED
  BY <1>3, <1>5, <1>6, <1>7

\* The change of an event that is not marked is written: it is paid for by the mark
\* to come.
LEMMA ApplyKeeps ==
  ASSUME BillingInv, Apply
  PROVE  BillingInv'
<1> USE DEF BillingInv
<1> DEFINE e == hook.event
<1>1. e \in DOMAIN events \ processed /\ e \in Events /\ ~UnderHand
  BY Constants DEF Apply, TypeOK, Ready, Events, UnderHand
<1>2. UNCHANGED <<month, prov, events, pending, processed, invoices, unhandled, dunning, req>> /\ MoreFaults
  <2>1. UNCHANGED <<month, razorpay, processed, invoices, unhandled, dunning, req>>
        /\ (Fault \/ UNCHANGED faults)
    BY DEF Apply
  <2> QED
    BY <2>1, FaultBound DEF razorpay
<1>3. failures \in Nat /\ faults \in Nat /\ Cardinality(processed) \in Nat
  <2>1. Cardinality(processed) \in Nat
    BY Marked, Zenon
  <2> QED
    BY <2>1, TypeParts DEF Episodes, Never
<1>4. failures <= Cardinality(processed) + faults /\ Cardinality(processed) + 1 <= MaxEvents
  <2>1. failures <= Cardinality(processed) + faults + 0
    BY <1>1 DEF Stamped
  <2> QED
    BY <1>3, <2>1, Marked DEF Apply
<1>5. failures + 1 \in Episodes
  BY <1>3, <1>4, Constants DEF Episodes, TypeOK
<1>6. \/ /\ Write(events[e])
         /\ applied' = [applied EXCEPT ![e] = @ + 1]
         /\ hook' \in {[hook EXCEPT !.pc = "invoice"], [hook EXCEPT !.pc = "mark"],
                       [hook EXCEPT !.pc = "error"]}
         /\ hook'.pc = "invoice" => events[e].payment # NoPayment
      \/ /\ hook' = [hook EXCEPT !.pc = "error"] /\ Fault
         /\ UNCHANGED <<row, failures, applied>>
  BY DEF Apply, TypeOK
<1>7. /\ plan' \in {"free", "paid"}
      /\ status' \in {"active", "past_due", "cancelled", "trialing"}
      /\ since' \in Episodes \cup {Never}
      /\ sub' \in Subs \cup {NoSub}
      /\ age' \in 0..LastOffset
      /\ status' = "past_due" => since' # Never
      /\ failures' \in {failures, failures + 1}
  BY <1>1, <1>5, <1>6, EventType, WriteType DEF TypeOK, row
<1>8. /\ hook' \in [pc : {"idle", "apply", "invoice", "mark", "error"}, event : Events \cup {0}]
      /\ hook'.event = e /\ UnderHand'
      /\ hook'.pc = "invoice" => events[e].payment # NoPayment
  BY <1>6 DEF TypeOK, UnderHand
<1>9. applied' \in [Events -> Nat] /\ (\A d \in Events : d # e => applied'[d] = applied[d])
      /\ applied'[e] \in {applied[e], applied[e] + 1}
  <2>1. applied \in [Events -> Nat]
    BY DEF TypeOK
  <2>2. applied' = [applied EXCEPT ![e] = @ + 1] \/ applied' = applied
    BY <1>6
  <2> HIDE DEF e
  <2> QED
    BY <1>1, <2>1, <2>2
<1>10. TypeOK'
  <2>1. RowType'
    BY <1>7 DEF RowType
  <2>2. FeedType' /\ SentType' /\ dun' \in DunType /\ req' \in ReqType
    BY <1>2, SameFeed, SameDunning, TypeParts
  <2>3. HookType'
    BY <1>2, <1>8, <1>9, TypeParts DEF HookType
  <2>4. failures' \in Episodes \cup {Never}
    BY <1>5, <1>7, TypeParts
  <2> QED
    BY <1>2, <2>1, <2>2, <2>3, <2>4, TypeParts DEF MoreFaults
<1>11. Ready' /\ Recorded'
  BY <1>1, <1>2, <1>8, HookLeaves DEF Ready
<1>12. Paid'
  <2> SUFFICES ASSUME NEW d \in Events
               PROVE  applied'[d] <= faults' + (IF d \in processed' \/ (UnderHand' /\ hook'.event = d)
                                                THEN 1 ELSE 0)
    BY DEF Paid
  <2>1. applied[d] <= faults + (IF d \in processed THEN 1 ELSE 0)
    BY <1>1 DEF Paid
  <2>2. applied[d] \in Nat /\ faults' \in Nat /\ faults' >= faults /\ processed' = processed
    BY <1>2 DEF TypeOK, MoreFaults
  <2> HIDE DEF e
  <2> QED
    BY <1>1, <1>3, <1>8, <1>9, <2>1, <2>2
<1>13. Stamped'
  BY <1>2, <1>3, <1>4, <1>7, <1>8 DEF Stamped, MoreFaults
<1>14. InvoicedOnce'
  BY <1>2 DEF InvoicedOnce
<1> QED
  BY <1>10, <1>11, <1>12, <1>13, <1>14

\* An invoice is added only where there is none for the payment or the month.
LEMMA InvoiceKeeps ==
  ASSUME BillingInv, Invoice
  PROVE  BillingInv'
<1> USE DEF BillingInv
<1> DEFINE payment == events[hook.event].payment
<1>1. UNCHANGED <<row, clock, prov, events, pending, processed, applied, unhandled, dunning, req>>
      /\ MoreFaults
  BY FaultBound DEF Invoice, razorpay
<1>2. /\ hook.pc = "invoice" /\ hook.event \in DOMAIN events \ processed
      /\ payment \in Events /\ month \in 1..MaxMonth
  BY EventType DEF Invoice, Ready, TypeOK
<1>3. hook' \in {[hook EXCEPT !.pc = "mark"], [hook EXCEPT !.pc = "error"]}
  BY DEF Invoice
<1>4. /\ hook' \in [pc : {"idle", "apply", "invoice", "mark", "error"}, event : Events \cup {0}]
      /\ hook'.event = hook.event /\ hook'.pc # "invoice" /\ hook'.pc # "idle"
      /\ UnderHand /\ UnderHand'
  BY <1>2, <1>3 DEF TypeOK, UnderHand
<1>5. \/ invoices' = invoices
      \/ ~AlreadyInvoiced(payment) /\ invoices' = invoices \cup {<<payment, month>>}
  BY DEF Invoice
<1>6. TypeOK'
  <2>1. RowType' /\ FeedType' /\ SentType' /\ dun' \in DunType
    BY <1>1, SameRow, SameFeed, SameDunning, TypeParts
  <2>2. invoices' \subseteq Events \X (1..MaxMonth)
    BY <1>2, <1>5, TypeParts DEF HookType
  <2>3. HookType'
    BY <1>1, <1>4, <2>2, TypeParts DEF HookType
  <2> QED
    BY <1>1, <2>1, <2>3, TypeParts DEF clock, MoreFaults
<1>7. Ready' /\ Recorded'
  BY <1>1, <1>2, <1>4, HookLeaves DEF Ready
<1>8. Paid' /\ Stamped'
  <2>1. faults \in Nat /\ faults' \in Nat /\ faults' >= faults
    BY <1>1 DEF TypeOK, MoreFaults
  <2>2. Paid'
    <3> SUFFICES ASSUME NEW d \in Events
                 PROVE  applied'[d] <= faults' + (IF d \in processed' \/ (UnderHand' /\ hook'.event = d)
                                                  THEN 1 ELSE 0)
      BY DEF Paid
    <3>1. applied[d] <= faults + (IF d \in processed \/ (UnderHand /\ hook.event = d) THEN 1 ELSE 0)
          /\ applied[d] \in Nat /\ applied'[d] = applied[d] /\ processed' = processed
      BY <1>1 DEF Paid, TypeOK
    <3>2. applied[d] <= faults' + (IF d \in processed \/ hook.event = d THEN 1 ELSE 0)
      <4>1. CASE d \in processed \/ hook.event = d
        BY <1>4, <2>1, <3>1, <4>1
      <4>2. CASE ~(d \in processed \/ hook.event = d)
        BY <1>4, <2>1, <3>1, <4>2
      <4> QED
        BY <4>1, <4>2
    <3>3. /\ applied'[d] = applied[d]
          /\ d \in processed' \/ (UnderHand' /\ hook'.event = d) <=> d \in processed \/ hook.event = d
      BY <1>4, <3>1
    <3> QED
      BY <3>2, <3>3
  <2>3. Stamped'
    <3>1. failures \in Nat /\ failures' = failures /\ Cardinality(processed) \in Nat /\ processed' = processed
      <4>1. Cardinality(processed) \in Nat
        BY Marked, Zenon
      <4> QED
        BY <1>1, <4>1, TypeParts DEF Episodes, Never, clock
    <3>2. failures <= Cardinality(processed) + faults + 1
      BY <1>4 DEF Stamped
    <3>3. failures <= Cardinality(processed) + faults' + 1
      BY <2>1, <3>1, <3>2
    <3> QED
      BY <1>4, <3>1, <3>3 DEF Stamped
  <2> QED
    BY <2>2, <2>3
<1>9. InvoicedOnce'
  <2>1. CASE invoices' = invoices
    BY <2>1 DEF InvoicedOnce
  <2>2. CASE ~AlreadyInvoiced(payment) /\ invoices' = invoices \cup {<<payment, month>>}
    BY <2>2 DEF InvoicedOnce, AlreadyInvoiced
  <2> QED
    BY <1>5, <2>1, <2>2
<1> QED
  BY <1>6, <1>7, <1>8, <1>9

\* The handler is done: the event is marked, or a fault has come in between.
LEMMA HookEnds ==
  ASSUME BillingInv, hook' = HookIdle, MoreFaults,
         \/ hook.pc # "idle" /\ processed' = processed \cup {hook.event}
         \/ processed' = processed /\ (UnderHand => faults' = faults + 1),
         UNCHANGED <<applied, failures>>
  PROVE  Paid' /\ Stamped'
<1> USE DEF BillingInv
<1>1. faults \in Nat /\ faults' \in Nat /\ faults' >= faults /\ ~UnderHand'
  BY DEF TypeOK, MoreFaults, UnderHand, HookIdle
<1>2. Paid'
  <2> SUFFICES ASSUME NEW d \in Events
               PROVE  applied'[d] <= faults' + (IF d \in processed' THEN 1 ELSE 0)
    BY <1>1 DEF Paid
  <2>1. applied[d] <= faults + (IF d \in processed \/ (UnderHand /\ hook.event = d) THEN 1 ELSE 0)
        /\ applied[d] \in Nat /\ applied'[d] = applied[d]
    BY DEF Paid, TypeOK
  <2>2. CASE d \in processed'
    <3>1. applied[d] <= faults + 1
      BY <1>1, <2>1
    <3>2. applied'[d] <= faults' + 1
      BY <1>1, <2>1, <3>1
    <3> QED
      BY <2>2, <3>2
  <2>3. CASE d \notin processed' /\ UnderHand /\ hook.event = d
    <3>1. processed' = processed /\ faults' = faults + 1
      BY <2>3
    <3>2. applied[d] <= faults + 1
      BY <1>1, <2>1
    <3>3. applied'[d] <= faults' + 0
      BY <1>1, <2>1, <3>1, <3>2
    <3> QED
      BY <2>3, <3>3
  <2>4. CASE d \notin processed' /\ ~(UnderHand /\ hook.event = d)
    <3>1. d \notin processed
      BY <2>4
    <3>2. applied[d] <= faults
      BY <1>1, <2>1, <2>4, <3>1
    <3>3. applied'[d] <= faults' + 0
      BY <1>1, <2>1, <3>2
    <3> QED
      BY <2>4, <3>3
  <2> QED
    BY <2>2, <2>3, <2>4
<1>3. Stamped'
  <2>1. failures \in Nat /\ failures' = failures /\ Cardinality(processed) \in Nat
    <3>1. Cardinality(processed) \in Nat
      BY Marked, Zenon
    <3> QED
      BY <3>1, TypeParts DEF Episodes, Never
  <2>2. hook.pc # "idle" => Cardinality(processed \cup {hook.event}) = Cardinality(processed) + 1
    BY Marked DEF Ready
  <2>3. failures <= Cardinality(processed) + faults + IF UnderHand THEN 1 ELSE 0
    BY DEF Stamped
  <2>4. failures <= Cardinality(processed') + faults'
    <3>1. CASE hook.pc # "idle" /\ processed' = processed \cup {hook.event}
      <4>1. Cardinality(processed') = Cardinality(processed) + 1
        BY <2>2, <3>1
      <4> HIDE DEF UnderHand
      <4> QED
        BY <1>1, <2>1, <2>3, <4>1
    <3>2. CASE processed' = processed /\ (UnderHand => faults' = faults + 1)
      <4>1. Cardinality(processed') = Cardinality(processed)
        BY <3>2
      <4> QED
        BY <1>1, <2>1, <2>3, <3>2, <4>1
    <3> QED
      BY <3>1, <3>2
  <2>5. Cardinality(processed') \in Nat
    <3>1. CASE hook.pc # "idle" /\ processed' = processed \cup {hook.event}
      <4>1. Cardinality(processed') = Cardinality(processed) + 1
        BY <2>2, <3>1
      <4> QED
        BY <2>1, <4>1
    <3>2. CASE processed' = processed
      BY <2>1, <3>2
    <3> QED
      BY <3>1, <3>2
  <2> QED
    BY <1>1, <2>1, <2>4, <2>5 DEF Stamped
<1> QED
  BY <1>2, <1>3

\* An event that could not be applied has changed nothing and is not marked.
LEMMA NotHandledKeeps ==
  ASSUME BillingInv, NotHandled
  PROVE  BillingInv'
<1> USE DEF BillingInv
<1>1. /\ UNCHANGED <<row, clock, prov, events, processed, invoices, applied, dunning, req, faults>>
      /\ hook' = HookIdle /\ ~UnderHand /\ pending' \subseteq pending
      /\ unhandled' = unhandled \cup {hook.event} /\ hook.event \in DOMAIN events
  BY DEF NotHandled, UnderHand, Ready
<1>2. MoreFaults
  BY <1>1, FaultBound
<1>3. Paid' /\ Stamped'
  BY <1>1, <1>2, HookEnds DEF clock
<1>4. TypeOK'
  <2>1. RowType' /\ SentType' /\ dun' \in DunType
    BY <1>1, SameRow, SameDunning, TypeParts
  <2>2. FeedType'
    BY <1>1, TypeParts DEF FeedType
  <2>3. HookType'
    BY <1>1, TypeParts DEF HookType, HookIdle
  <2> QED
    BY <1>1, <2>1, <2>2, <2>3, TypeParts DEF clock
<1>5. Ready' /\ Recorded'
  BY <1>1, <1>2, HookLeaves DEF Ready, HookIdle
<1>6. InvoicedOnce'
  BY <1>1 DEF InvoicedOnce
<1> QED
  BY <1>3, <1>4, <1>5, <1>6

\* A marking, one that fails, and a crash of the API.
LEMMA MarkKeeps ==
  ASSUME BillingInv, Mark \/ ApiCrash
  PROVE  BillingInv'
<1> USE DEF BillingInv
<1>1. /\ UNCHANGED <<row, clock, prov, events, invoices, applied, unhandled, dunning>> /\ MoreFaults
      /\ hook' = HookIdle /\ pending' \subseteq pending
      /\ req' \in {req, ReqIdle}
  BY FaultBound DEF Mark, ApiCrash, razorpay
<1>2. \/ hook.pc # "idle" /\ processed' = processed \cup {hook.event}
      \/ processed' = processed /\ faults' = faults + 1
  BY FaultBound DEF Mark, ApiCrash, MarkProcessed
<1>3. Paid' /\ Stamped'
  BY <1>1, <1>2, HookEnds DEF clock
<1>4. processed' \subseteq DOMAIN events
  BY <1>2 DEF TypeOK, Ready
<1>5. TypeOK'
  <2>1. RowType' /\ SentType' /\ dun' \in DunType
    BY <1>1, SameRow, SameDunning, TypeParts
  <2>2. FeedType'
    BY <1>1, <1>4, TypeParts DEF FeedType
  <2>3. HookType' /\ req' \in ReqType
    BY <1>1, TypeParts DEF HookType, HookIdle, ReqType, ReqIdle
  <2> QED
    BY <1>1, <2>1, <2>2, <2>3, TypeParts DEF clock, MoreFaults
<1>6. Ready' /\ Recorded'
  BY <1>1, HookLeaves DEF Ready, HookIdle, ReqIdle
<1>7. InvoicedOnce'
  BY <1>1 DEF InvoicedOnce
<1> QED
  BY <1>3, <1>5, <1>6, <1>7

-------------------------------------------------------------------------------
(* The dunning job.                                                         *)

DunningMove == DunningStep \/ DunningCrash

\* The job touches no event, and of the tenant's row only what a downgrade writes.
LEMMA DunningLeaves ==
  ASSUME BillingInv, DunningMove
  PROVE  /\ UNCHANGED <<clock, razorpay, webhook, req>> /\ MoreFaults
         /\ Paid' /\ Stamped' /\ InvoicedOnce'
         /\ plan' \in {"free", "paid"}
         /\ status' \in {"active", "past_due", "cancelled", "trialing"}
         /\ since' = since
         /\ sub' \in Subs \cup {NoSub}
         /\ age' \in 0..LastOffset
         /\ status' = "past_due" => status = "past_due"
<1> USE DEF BillingInv
<1>1. UNCHANGED <<clock, razorpay, webhook, req>> /\ MoreFaults
  BY FaultBound DEF DunningMove, DunningStep, DunningCycle, CheckOffset, RecordSent, SendReminder,
                    InsertEvent, EndCycle, DunningCrash
<1>2. UNCHANGED row \/ Downgrade
  BY DEF DunningMove, DunningStep, DunningCycle, CheckOffset, RecordSent, SendReminder,
         InsertEvent, EndCycle, DunningCrash
<1>3. Paid' /\ Stamped' /\ InvoicedOnce'
  BY <1>1, StillPaid, StillStamped DEF clock, webhook, InvoicedOnce
<1> QED
  BY <1>1, <1>2, <1>3, Constants DEF row, Downgrade, TypeOK

\* The job goes from one offset to the next and stays within them.
LEMMA DunMoves ==
  ASSUME TypeOK, Ready, DunningMove
  PROVE  /\ dun' \in DunType
         /\ dun'.pc # "idle" => dun'.since # Never
         /\ dun'.pc \in {"record", "send", "insert"} => dun'.at \in Slots
<1>1. dun \in DunType /\ DunIdle \in DunType /\ DunIdle.pc = "idle"
  BY Constants DEF TypeOK, DunType, DunIdle
<1>2. CASE dun' = DunIdle
  BY <1>1, <1>2
<1>3. CASE DunningCycle
  BY <1>3, Constants DEF DunningCycle, TypeOK, DunType
<1>4. ASSUME NEW pc \in {"record", "send", "insert"}, DunGo(pc), dun.at \in Slots, dun.since # Never
      PROVE  dun' \in DunType /\ dun'.since # Never /\ dun'.at \in Slots
  BY <1>1, <1>4 DEF DunGo, DunType
<1>5. ASSUME DunNext, dun.at \in Slots, dun.since # Never
      PROVE  dun' \in DunType /\ dun'.since # Never /\ dun'.pc = "check"
  <2>1. dun.at + 1 \in 1..(Len(Offsets) + 1)
    BY <1>5, Constants DEF Slots
  <2> QED
    BY <1>1, <1>5, <2>1 DEF DunNext, DunType
<1>6. CASE CheckOffset
  <2>1. dun.at \in Slots /\ dun.since # Never
    BY <1>1, <1>6, Constants DEF CheckOffset, Slots, DunType, Ready
  <2> QED
    BY <1>2, <1>4, <1>5, <1>6, <2>1 DEF CheckOffset, Judge
<1>7. CASE RecordSent \/ SendReminder \/ InsertEvent
  <2>1. dun.at \in Slots /\ dun.since # Never
    BY <1>7 DEF RecordSent, SendReminder, InsertEvent, Ready
  <2> QED
    BY <1>2, <1>4, <1>5, <1>7, <2>1 DEF RecordSent, SendReminder, InsertEvent
<1> QED
  BY <1>2, <1>3, <1>6, <1>7 DEF DunningMove, DunningStep, EndCycle, DunningCrash

\* Its tables stay well-typed, and a call on the log fails to a fault only.
LEMMA DunTables ==
  ASSUME TypeOK, Ready, DunningMove
  PROVE  /\ sentLog' \subseteq Slots \X Episodes
         /\ sentEvents' \subseteq Slots
         /\ reminded' \in [Slots \X Episodes -> Nat]
         /\ logFaults' \in 0..MaxFaults /\ logFaults' <= faults'
<1>1. dun.pc \in {"record", "send", "insert"} =>
         dun.at \in Slots /\ dun.since \in Episodes /\ <<dun.at, dun.since>> \in Slots \X Episodes
  BY DEF Ready, TypeOK
<1>2. logFaults' \in 0..MaxFaults /\ logFaults' <= faults'
  <2>1. /\ logFaults \in Nat /\ faults \in Nat /\ logFaults <= faults
        /\ faults' \in 0..MaxFaults /\ faults' >= faults /\ (Fault => faults' = faults + 1)
    BY FaultBound, Constants
       DEF Ready, TypeOK, MoreFaults, DunningMove, DunningStep, DunningCycle, CheckOffset, RecordSent,
           SendReminder, InsertEvent, EndCycle, DunningCrash
  <2>2. logFaults' = logFaults \/ (logFaults' = logFaults + 1 /\ Fault)
    BY DEF DunningMove, DunningStep, DunningCycle, CheckOffset, RecordSent, SendReminder, InsertEvent,
           EndCycle, DunningCrash
  <2> QED
    BY <2>1, <2>2, Constants
<1>3. sentLog' \subseteq Slots \X Episodes
  BY <1>1 DEF TypeOK, DunningMove, DunningStep, DunningCycle, CheckOffset, RecordSent, SendReminder,
              InsertEvent, EndCycle, DunningCrash
<1>4. sentEvents' \subseteq Slots
  <2>1. Len(Offsets) \in Slots
    BY Constants DEF Slots
  <2> QED
    BY <1>1, <2>1
       DEF TypeOK, DunningMove, DunningStep, DunningCycle, CheckOffset, RecordSent, SendReminder,
           InsertEvent, EndCycle, DunningCrash
<1>5. reminded' \in [Slots \X Episodes -> Nat]
  <2>1. CASE SendReminder
    <3>1. reminded \in [Slots \X Episodes -> Nat] /\ <<dun.at, dun.since>> \in Slots \X Episodes
      BY <1>1, <2>1 DEF SendReminder, TypeOK
    <3>2. reminded' = [reminded EXCEPT ![<<dun.at, dun.since>>] = reminded[<<dun.at, dun.since>>] + 1]
      BY <2>1 DEF SendReminder
    <3> QED
      BY <3>1, <3>2
  <2>2. CASE ~SendReminder
    <3>1. UNCHANGED reminded
      BY <2>2 DEF DunningMove, DunningStep, DunningCycle, CheckOffset, RecordSent, InsertEvent, EndCycle,
                  DunningCrash
    <3> QED
      BY <3>1 DEF TypeOK
  <2> QED
    BY <2>1, <2>2
<1> QED
  BY <1>2, <1>3, <1>4, <1>5

\* An e-mail goes out after its record, or after a call on the log failed.
LEMMA DunRecords ==
  ASSUME TypeOK, Ready, Recorded, DunningMove
  PROVE  Recorded'
<1> DEFINE here == <<dun.at, dun.since>>
<1>1. /\ dun \in DunType
      /\ \A x \in DOMAIN reminded : reminded[x] \in Nat /\ logFaults \in Nat
      /\ DOMAIN reminded = Slots \X Episodes
      /\ dun.pc \in {"record", "send", "insert"} => here \in DOMAIN reminded
  BY DEF TypeOK, Ready, DunType
<1>2. \A x \in DOMAIN reminded :
          reminded[x] + (IF dun.pc = "send" /\ x = here THEN 1 ELSE 0)
              <= logFaults + IF x \in sentLog THEN 1 ELSE 0
  BY DEF Recorded
<1>a. \A x \in DOMAIN reminded : reminded[x] <= logFaults + IF x \in sentLog THEN 1 ELSE 0
  <2> SUFFICES ASSUME NEW x \in DOMAIN reminded
               PROVE  reminded[x] <= logFaults + IF x \in sentLog THEN 1 ELSE 0
    OBVIOUS
  <2>1. reminded[x] <= reminded[x] + (IF dun.pc = "send" /\ x = here THEN 1 ELSE 0)
    BY <1>1
  <2> HIDE DEF here
  <2> QED
    BY <1>1, <1>2, <2>1
<1>3. CASE dun'.pc \notin {"record", "send"} /\ UNCHANGED <<sentLog, reminded>>
           /\ logFaults' \in {logFaults, logFaults + 1}
  <2>1. ASSUME NEW x \in DOMAIN reminded
        PROVE  reminded[x] + 0 <= logFaults' + IF x \in sentLog THEN 1 ELSE 0
    <3>1. reminded[x] <= logFaults + IF x \in sentLog THEN 1 ELSE 0
      BY <1>a
    <3> QED
      BY <1>1, <1>3, <3>1
  <2> QED
    BY <1>3, <2>1 DEF Recorded
<1>4. CASE CheckOffset /\ dun'.pc = "record"
  <2>1. /\ dun' = [dun EXCEPT !.pc = "record"] /\ UNCHANGED <<sentLog, reminded>>
        /\ dun.pc = "check" /\ here \in DOMAIN reminded
        /\ \/ logFaults' = logFaults /\ here \notin sentLog
           \/ logFaults' = logFaults + 1
    <3>1. DunNext => dun'.pc = "check"
      BY <1>1 DEF DunNext, DunType
    <3>2. dun' # DunIdle
      BY <1>4 DEF DunIdle
    <3>3. here \in DOMAIN reminded
      BY <1>1, <1>4, Constants DEF CheckOffset, DunType, Slots, Ready
    <3> QED
      BY <1>4, <3>1, <3>2, <3>3 DEF CheckOffset, Judge, AlreadySent, DunGo
  <2>2. dun'.pc = "record" /\ <<dun'.at, dun'.since>> = here
    BY <1>1, <2>1 DEF DunType
  <2>3. reminded[here] <= logFaults'
    <3> HIDE DEF here
    <3>1. reminded[here] <= logFaults + IF here \in sentLog THEN 1 ELSE 0
      BY <1>a, <2>1
    <3> QED
      BY <1>1, <2>1, <3>1
  <2>4. ASSUME NEW x \in DOMAIN reminded
        PROVE  reminded[x] + 0 <= logFaults' + IF x \in sentLog THEN 1 ELSE 0
    <3>1. reminded[x] <= logFaults + IF x \in sentLog THEN 1 ELSE 0
      BY <1>a
    <3> QED
      BY <1>1, <2>1, <3>1
  <2> HIDE DEF here
  <2>5. reminded'[<<dun'.at, dun'.since>>] <= logFaults'
    BY <2>1, <2>2, <2>3
  <2> QED
    BY <2>1, <2>2, <2>4, <2>5 DEF Recorded
<1>5. CASE RecordSent
  <2>1. /\ dun' = [dun EXCEPT !.pc = "send"] /\ reminded' = reminded
        /\ \/ sentLog' = sentLog \cup {here} /\ logFaults' = logFaults
           \/ sentLog' = sentLog /\ logFaults' = logFaults + 1
        /\ dun.pc = "record" /\ reminded[here] <= logFaults
    BY <1>5 DEF RecordSent, DunGo, Recorded
  <2>2. dun'.pc = "send" /\ <<dun'.at, dun'.since>> = here
    BY <1>1, <2>1 DEF DunType
  <2>3. ASSUME NEW x \in DOMAIN reminded
        PROVE  reminded[x] + (IF x = here THEN 1 ELSE 0) <= logFaults' + IF x \in sentLog' THEN 1 ELSE 0
    <3> HIDE DEF here
    <3>1. reminded[x] <= logFaults + IF x \in sentLog THEN 1 ELSE 0
      BY <1>a
    <3>2. CASE x = here
      BY <1>1, <2>1, <3>2
    <3>3. CASE x # here
      BY <1>1, <2>1, <3>1, <3>3
    <3> QED
      BY <3>2, <3>3
  <2> QED
    BY <2>1, <2>2, <2>3 DEF Recorded
<1>6. CASE SendReminder
  <2>1. /\ dun' = [dun EXCEPT !.pc = "insert"] /\ reminded' = [reminded EXCEPT ![here] = @ + 1]
        /\ UNCHANGED <<sentLog, logFaults>> /\ dun.pc = "send"
    BY <1>6 DEF SendReminder, DunGo
  <2>2. dun'.pc = "insert" /\ DOMAIN reminded' = DOMAIN reminded
    BY <1>1, <2>1 DEF DunType
  <2>3. \A x \in DOMAIN reminded : reminded'[x] = reminded[x] + IF x = here THEN 1 ELSE 0
    <3>1. reminded \in [Slots \X Episodes -> Nat]
      BY DEF TypeOK
    <3> HIDE DEF here
    <3> QED
      BY <1>1, <2>1, <3>1
  <2>4. \A x \in DOMAIN reminded : reminded'[x] \in Nat
    BY <1>1, <2>3
  <2>5. ASSUME NEW x \in DOMAIN reminded
        PROVE  reminded'[x] <= logFaults + IF x \in sentLog THEN 1 ELSE 0
    BY <1>2, <2>1, <2>3
  <2> QED
    BY <1>1, <2>1, <2>2, <2>4, <2>5 DEF Recorded
<1>7. CASE DunningCycle \/ InsertEvent \/ EndCycle \/ DunningCrash \/ (CheckOffset /\ dun'.pc # "record")
  <2>1. dun'.pc \notin {"record", "send"}
    <3>1. CASE dun' = DunIdle \/ DunningCycle
      BY <3>1 DEF DunIdle, DunningCycle
    <3>2. CASE DunNext
      BY <1>1, <3>2 DEF DunNext, DunType
    <3>3. DunGo("record") => dun'.pc = "record"
      BY <1>1 DEF DunGo, DunType
    <3> QED
      BY <1>7, <3>1, <3>2, <3>3 DEF InsertEvent, EndCycle, DunningCrash, CheckOffset, Judge
  <2>2. UNCHANGED <<sentLog, reminded>> /\ logFaults' \in {logFaults, logFaults + 1}
    BY <1>7 DEF DunningCycle, InsertEvent, EndCycle, DunningCrash, CheckOffset
  <2> QED
    BY <1>3, <2>1, <2>2
<1> QED
  BY <1>4, <1>5, <1>6, <1>7 DEF DunningMove, DunningStep

\* All in all the dunning job keeps the invariant.
LEMMA DunningKeeps ==
  ASSUME BillingInv, DunningMove
  PROVE  BillingInv'
<1> USE DEF BillingInv
<1>1. TypeOK'
  <2>1. RowType'
    BY DunningLeaves DEF RowType, TypeOK
  <2>2. FeedType' /\ HookType'
    BY DunningLeaves, SameFeed, SameWebhook, TypeParts DEF razorpay, webhook
  <2>3. SentType' /\ dun' \in DunType
    BY DunMoves, DunTables DEF SentType
  <2> QED
    BY <2>1, <2>2, <2>3, DunningLeaves, TypeParts DEF clock, MoreFaults
<1>2. Ready'
  BY DunningLeaves, DunMoves, DunTables DEF Ready, razorpay, webhook
<1> QED
  BY <1>1, <1>2, DunningLeaves, DunRecords

-------------------------------------------------------------------------------

\* Type correctness, and what every applied change, stamped failure and mailed
\* reminder is paid for with, in every reachable state.
THEOREM BillingInvariant == Spec => []BillingInv
<1>1. Init => BillingInv
  <2> SUFFICES ASSUME Init PROVE BillingInv
    OBVIOUS
  <2> USE Constants DEF Init
  <2>1. TypeOK
    BY DEF TypeOK, HookIdle, DunIdle, ReqIdle, Never
  <2>2. Ready /\ Recorded
    BY DEF Ready, Recorded, HookIdle, DunIdle, ReqIdle
  <2>3. Paid /\ InvoicedOnce
    BY DEF Paid, InvoicedOnce, UnderHand, HookIdle
  <2>4. Stamped
    BY FS_EmptySet DEF Stamped, UnderHand, HookIdle
  <2> QED
    BY <2>1, <2>2, <2>3, <2>4 DEF BillingInv
<1>2. BillingInv /\ [Next]_vars => BillingInv'
  BY AsideKeeps, DeliverKeeps, ApplyKeeps, NotHandledKeeps, InvoiceKeeps, MarkKeeps, DunningKeeps
     DEF Next, HandleEvent, AsideStep, DunningMove
<1> QED
  BY <1>1, <1>2, PTL DEF Spec

\* Every variable keeps its type: above all, no more failures are stamped than
\* events and faults can account for.
THEOREM TypeCorrect == Spec => []TypeOK
<1>1. BillingInv => TypeOK
  BY DEF BillingInv
<1> QED
  BY <1>1, BillingInvariant, PTL

\* An event's change is written once, but for faults, however often and in
\* whatever order the events are delivered.
THEOREM AppliedOnceHolds == Spec => []AppliedOnce
<1>1. BillingInv => AppliedOnce
  BY Constants DEF BillingInv, Paid, AppliedOnce, TypeOK
<1> QED
  BY <1>1, BillingInvariant, PTL

\* A payment has one invoice, and so has a month.
THEOREM InvoicedOnceHolds == Spec => []InvoicedOnce
<1>1. BillingInv => InvoicedOnce
  BY DEF BillingInv
<1> QED
  BY <1>1, BillingInvariant, PTL

\* A reminder is sent once for a failure, but for calls on dunning_sent_log that failed.
THEOREM RemindedOnceHolds == Spec => []RemindedOnce
<1>1. BillingInv => RemindedOnce
  <2> SUFFICES ASSUME BillingInv, NEW x \in DOMAIN reminded
               PROVE  reminded[x] <= 1 + logFaults
    BY DEF RemindedOnce
  <2>1. reminded[x] \in Nat /\ logFaults \in Nat
    BY Constants DEF BillingInv, TypeOK
  <2> QED
    BY <2>1 DEF BillingInv, Recorded
<1> QED
  BY <1>1, BillingInvariant, PTL

===============================================================================
