------------------------------ MODULE Subscription ------------------------------
(***************************************************************************)
(* The billing state of one tenant and everything that writes it: Razorpay  *)
(* webhooks (domain/billing/webhook_handler.py) with the invoices they      *)
(* create (gst_invoice.py), the daily dunning job (workers/dunning.py),     *)
(* checkout and sync (domain/billing/checkout.py) and the superadmin's      *)
(* overrides (api/superadmin/billing.py).                                   *)
(*                                                                         *)
(* The webhook endpoint is an async def that never awaits while it handles  *)
(* an event, in an API of one process: events are handled one at a time.    *)
(* The dunning job is another process, checkout and sync run in the API's   *)
(* threads; all interleave between their calls to the database.  Razorpay   *)
(* and the answers of the database client are external.                     *)
(*                                                                         *)
(* Left out: which paid plan (pro and business are one), the customer id,   *)
(* trial_ends_at, the seats a downgrade locks, the notice of day 0 and its  *)
(* records, the mail of the downgrade, e-mail that fails, and invoice        *)
(* numbers.  Whether an event is found to be the tenant's, by its notes, its *)
(* customer or its subscription, is left to chance (NotHandled).            *)
(***************************************************************************)
EXTENDS Integers, FiniteSets, Sequences

CONSTANTS
    Subs,          \* Razorpay subscriptions the tenant may open
    Offsets,       \* DUNNING_DAYS, ascending; the last one downgrades
    EmptyAnswers,  \* what maybe_single() answers for no row: an "empty" result or "none"
    MaxEvents,     \* bound: webhook events Razorpay emits
    MaxMonth,      \* bound: calendar months
    MaxFaults      \* bound: calls that raise, and crashes

ASSUME SubscriptionAssumption ==
    /\ IsFiniteSet(Subs) /\ Subs # {}
    /\ Offsets \in Seq(Nat) /\ Offsets # <<>>
    /\ EmptyAnswers \subseteq {"empty", "none"} /\ EmptyAnswers # {}
    /\ MaxEvents \in Nat /\ MaxMonth \in Nat \ {0} /\ MaxFaults \in Nat

NoSub == "no subscription"
Never == 0
NoPayment == 0
Slots == 1..Len(Offsets)
LastOffset == Offsets[Len(Offsets)]

Events == 1..MaxEvents
Episodes == 1..(MaxEvents + MaxFaults)
Kinds == {"activated", "failed", "charged", "captured", "cancelled", "refunded"}

VARIABLES
    plan,       \* tenants.plan: free or paid
    status,     \* tenants.plan_status
    since,      \* tenants.past_due_since, as the number of the failure that set it
    sub,        \* tenants.razorpay_subscription_id
    age,        \* while past due: whole days since past_due_since, up to LastOffset
    failures,   \* how many failures have been stamped
    month,      \* the calendar month
    prov,       \* Razorpay: the state of each subscription
    events,     \* Razorpay: the events emitted
    pending,    \* Razorpay: events not answered 2xx yet, to be delivered again
    processed,  \* payment_webhook_events with processed_at
    invoices,   \* rows of invoices, as <<payment, month>>
    hook,       \* the webhook request being handled
    sentLog,    \* dunning_sent_log, as <<offset index, past_due_at>>
    sentEvents, \* dunning_events: offset indexes
    dun,        \* the dunning job
    req,        \* a checkout or sync request in its thread
    applied,    \* history: how often each event's change was written
    reminded,   \* history: e-mails sent, by <<offset index, past_due_at>>
    unhandled,  \* history: events answered without being applied or marked
    logFaults,  \* history: calls on dunning_sent_log that failed
    faults      \* history: injected failures

row == <<plan, status, since, sub, age>>
clock == <<failures, month>>
razorpay == <<prov, events, pending>>
webhook == <<processed, invoices, hook, applied, unhandled>>
dunning == <<sentLog, sentEvents, dun, reminded, logFaults>>
vars == <<row, clock, razorpay, webhook, dunning, req, faults>>

HookIdle == [pc |-> "idle", event |-> 0]
DunIdle == [pc |-> "idle", at |-> 1, since |-> Never, days |-> 0, plan |-> "free"]
ReqIdle == [pc |-> "idle", sub |-> NoSub]

TypeOK ==
    /\ plan \in {"free", "paid"}
    /\ status \in {"active", "past_due", "cancelled", "trialing"}
    /\ since \in Episodes \cup {Never} /\ failures \in Episodes \cup {Never}
    /\ sub \in Subs \cup {NoSub}
    /\ age \in 0..LastOffset /\ month \in 1..MaxMonth
    /\ prov \in [Subs -> {"none", "created", "authenticated", "active", "failing", "cancelled"}]
    /\ events \in Seq([kind : Kinds, sub : Subs, payment : Events \cup {NoPayment}])
    /\ pending \subseteq DOMAIN events
    /\ processed \subseteq DOMAIN events /\ unhandled \subseteq DOMAIN events
    /\ invoices \subseteq Events \X (1..MaxMonth)
    /\ hook \in [pc : {"idle", "apply", "invoice", "mark", "error"}, event : Events \cup {0}]
    /\ sentLog \subseteq Slots \X Episodes
    /\ sentEvents \subseteq Slots
    /\ dun \in [pc : {"idle", "check", "record", "send", "insert"}, at : 1..(Len(Offsets) + 1),
                since : Episodes \cup {Never}, days : 0..LastOffset, plan : {"free", "paid"}]
    /\ req \in [pc : {"idle", "stale", "create", "store", "fetch", "sync"}, sub : Subs \cup {NoSub}]
    /\ applied \in [Events -> Nat] /\ reminded \in [Slots \X Episodes -> Nat]
    /\ status = "past_due" => since # Never
    /\ logFaults \in 0..MaxFaults /\ faults \in 0..MaxFaults

Init ==
    /\ plan = "free" /\ status = "active" /\ since = Never /\ sub = NoSub
    /\ age = 0 /\ failures = 0 /\ month = 1
    /\ prov = [s \in Subs |-> "none"]
    /\ events = <<>> /\ pending = {}
    /\ processed = {} /\ unhandled = {} /\ invoices = {} /\ hook = HookIdle
    /\ sentLog = {} /\ sentEvents = {} /\ dun = DunIdle
    /\ req = ReqIdle
    /\ applied = [e \in Events |-> 0]
    /\ reminded = [x \in Slots \X Episodes |-> 0]
    /\ logFaults = 0 /\ faults = 0

\* A call raises or a process dies.
Fault == faults < MaxFaults /\ faults' = faults + 1

-------------------------------------------------------------------------------
(* Razorpay and the calendar.                                               *)

Emit(kind, s, payment) ==
    /\ Len(events) < MaxEvents
    /\ events' = Append(events, [kind |-> kind, sub |-> s, payment |-> payment])
    /\ pending' = pending \cup {Len(events) + 1}

Move(s, from, to) == prov[s] \in from /\ prov' = [prov EXCEPT ![s] = to]

Payments == {events[e].payment : e \in DOMAIN events} \ {NoPayment}

Opened == {"authenticated", "active", "failing"}

\* A subscription is authorised and started, its payment fails or succeeds, it is cancelled (by
\* the customer through cancel_subscription, or otherwise) and a payment is
\* refunded.  A payment is reported by subscription.charged, and again by
\* payment.captured.
Razorpay(s) ==
    /\ \/ Move(s, {"created"}, "authenticated") /\ Emit("activated", s, NoPayment)
       \/ Move(s, {"authenticated"}, "active") /\ Emit("activated", s, NoPayment)
       \/ Move(s, Opened, "failing") /\ Emit("failed", s, NoPayment)
       \/ Move(s, Opened, "active") /\ Emit("charged", s, Len(events) + 1)
       \/ Move(s, Opened \cup {"created"}, "cancelled") /\ Emit("cancelled", s, NoPayment)
       \/ /\ \E e \in DOMAIN events :
                /\ events[e].kind = "charged" /\ events[e].sub = s
                /\ \/ Emit("captured", s, events[e].payment)
                   \/ Emit("refunded", s, NoPayment)
          /\ UNCHANGED prov
    /\ UNCHANGED <<row, clock, webhook, dunning, req, faults>>

Day ==
    /\ status = "past_due" /\ age < LastOffset
    /\ age' = age + 1
    /\ UNCHANGED <<plan, status, since, sub, clock, razorpay, webhook, dunning, req, faults>>

NextMonth ==
    /\ month < MaxMonth
    /\ month' = month + 1
    /\ UNCHANGED <<row, failures, razorpay, webhook, dunning, req, faults>>

-------------------------------------------------------------------------------
(* dispatch_razorpay_event                                                  *)

AlreadyProcessedNever(e) == FALSE

AlreadyApplied(e) == applied[e] > 0

AlreadyProcessed(e) == e \in processed

\* An event Razorpay has no 2xx for is delivered, in any order, as often as it takes.
Deliver(e) ==
    /\ hook.pc = "idle"
    /\ e \in pending
    /\ IF AlreadyProcessed(e)
       THEN pending' = pending \ {e} /\ UNCHANGED hook
       ELSE hook' = [pc |-> "apply", event |-> e] /\ UNCHANGED pending
    /\ UNCHANGED <<row, clock, prov, events, processed, invoices, applied, unhandled, dunning, req,
                   faults>>

\* apply_plan_downgrade: past_due_since stays as it is.
Downgrade ==
    /\ plan' = "free" /\ status' = "cancelled" /\ sub' = NoSub
    /\ age' = 0
    /\ UNCHANGED since

\* A payment that succeeds, or a subscription found active.
PaidBy(s) ==
    /\ plan' = "paid" /\ status' = "active" /\ since' = Never /\ sub' = s
    /\ age' = 0

OverdueUnstamped == status' = "past_due" /\ UNCHANGED <<since, failures>>

\* A failed payment: every one of them dates past_due_since anew.
Overdue == status' = "past_due" /\ since' = failures + 1 /\ failures' = failures + 1

\* What the handler of an event writes; payment.captured may name no subscription.
Write(ev) ==
    CASE ev.kind \in {"activated", "charged"} ->
            PaidBy(ev.sub) /\ UNCHANGED failures
      [] ev.kind = "captured" ->
            (PaidBy(ev.sub) \/ PaidBy(NoSub)) /\ UNCHANGED failures
      [] ev.kind = "failed" ->
            Overdue /\ age' = 0 /\ UNCHANGED <<plan, sub>>
      [] ev.kind \in {"cancelled", "refunded"} ->
            Downgrade /\ UNCHANGED failures

\* The change is written, or the handler raises before or after.
Apply ==
    LET e == hook.event IN
    /\ hook.pc = "apply"
    /\ \/ /\ Write(events[e])
          /\ applied' = [applied EXCEPT ![e] = @ + 1]
          /\ \/ /\ hook' = [hook EXCEPT !.pc =
                                IF events[e].payment # NoPayment THEN "invoice" ELSE "mark"]
                /\ UNCHANGED faults
             \/ hook' = [hook EXCEPT !.pc = "error"] /\ Fault
       \/ /\ hook' = [hook EXCEPT !.pc = "error"] /\ Fault
          /\ UNCHANGED <<row, failures, applied>>
    /\ UNCHANGED <<month, razorpay, processed, invoices, unhandled, dunning, req>>

\* The handler finds no tenant of the event, or not the entity it is about, and returns False: the
\* event is answered 2xx and not marked, so it does not come again.
NotHandled ==
    /\ hook.pc = "apply"
    /\ pending' = pending \ {hook.event}
    /\ unhandled' = unhandled \cup {hook.event}
    /\ hook' = HookIdle
    /\ UNCHANGED <<row, clock, prov, events, processed, invoices, applied, dunning, req, faults>>

InvoicedThisMonth(payment) == \E i \in invoices : i[2] = month

\* Nothing is issued for a payment that has its invoice, or in a month that has one.
AlreadyInvoiced(payment) == \E i \in invoices : i[1] = payment \/ i[2] = month

\* The lookup of the month's invoice reads .data of the answer, whatever it is.
Invoice ==
    LET payment == events[hook.event].payment IN
    /\ hook.pc = "invoice"
    /\ \/ /\ AlreadyInvoiced(payment)
          /\ hook' = [hook EXCEPT !.pc = "mark"]
          /\ UNCHANGED <<invoices, faults>>
       \/ /\ ~AlreadyInvoiced(payment)
          /\ "none" \in EmptyAnswers
          /\ hook' = [hook EXCEPT !.pc = "error"]
          /\ UNCHANGED <<invoices, faults>>
       \/ /\ ~AlreadyInvoiced(payment)
          /\ "empty" \in EmptyAnswers
          /\ invoices' = invoices \cup {<<payment, month>>}
          /\ \/ hook' = [hook EXCEPT !.pc = "mark"] /\ UNCHANGED faults
             \/ hook' = [hook EXCEPT !.pc = "error"] /\ Fault
       \/ /\ hook' = [hook EXCEPT !.pc = "error"] /\ Fault
          /\ UNCHANGED invoices
    /\ UNCHANGED <<row, clock, razorpay, processed, applied, unhandled, dunning, req>>

\* _mark_processed, with or without an error message.
MarkProcessed(e) == processed' = processed \cup {e}

\* A handled event is marked and answered 2xx.  One whose handler raised is
\* marked with the error and answered 500, and so is one whose first marking raised.
Mark ==
    LET e == hook.event IN
    /\ hook.pc \in {"mark", "error"}
    /\ \/ /\ MarkProcessed(e)
          /\ pending' = IF hook.pc = "mark" THEN pending \ {e} ELSE pending
          /\ UNCHANGED faults
       \/ (MarkProcessed(e) \/ UNCHANGED processed) /\ Fault /\ UNCHANGED pending
    /\ hook' = HookIdle
    /\ UNCHANGED <<row, clock, prov, events, invoices, applied, unhandled, dunning, req>>

\* The API restarts: its requests are gone, Razorpay has no answer.
ApiCrash ==
    /\ hook.pc # "idle" \/ req.pc # "idle"
    /\ Fault
    /\ hook' = HookIdle /\ req' = ReqIdle
    /\ UNCHANGED <<row, clock, razorpay, processed, invoices, applied, unhandled, dunning>>

-------------------------------------------------------------------------------
(* run_dunning_cycle                                                        *)

\* The tenants that are past due are read once, at the start.
DunningCycle ==
    /\ dun.pc = "idle"
    /\ status = "past_due" /\ since # Never
    /\ dun' = [pc |-> "check", at |-> 1, since |-> since, days |-> age, plan |-> plan]
    /\ UNCHANGED <<row, clock, razorpay, webhook, sentLog, sentEvents, reminded, logFaults, req, faults>>

DunGo(pc) == dun' = [dun EXCEPT !.pc = pc]
DunNext == dun' = [dun EXCEPT !.pc = "check", !.at = @ + 1]

SentForGood(k) == k \in sentEvents  \* mutant

\* _dunning_already_sent: logged for this failure, or an event of any failure.
AlreadySent(k) == <<k, dun.since>> \in sentLog \/ k \in sentEvents

\* The offset is passed over or recorded and sent.  No row in dunning_events: the answer's .data is
\* read, whatever it is.
Judge(sent) ==
    \/ sent /\ DunNext
    \/ ~sent /\ "none" \in EmptyAnswers /\ dun' = DunIdle
    \/ ~sent /\ "empty" \in EmptyAnswers /\ DunGo("record")

\* A lookup in dunning_sent_log that fails is passed over as if it had found nothing.
CheckOffset ==
    LET k == dun.at IN
    /\ dun.pc = "check" /\ k <= Len(Offsets)
    /\ \/ dun.days < Offsets[k] /\ DunNext /\ UNCHANGED <<logFaults, faults>>
       \/ dun.days >= Offsets[k] /\ Judge(AlreadySent(k)) /\ UNCHANGED <<logFaults, faults>>
       \/ /\ dun.days >= Offsets[k] /\ Judge(k \in sentEvents)
          /\ Fault /\ logFaults' = logFaults + 1
    /\ UNCHANGED <<row, clock, razorpay, webhook, sentLog, sentEvents, reminded, req>>

\* A failed insert into dunning_sent_log is only a warning, and so is that of a row that is there.
RecordSent ==
    /\ dun.pc = "record"
    /\ DunGo("send")
    /\ \/ sentLog' = sentLog \cup {<<dun.at, dun.since>>} /\ UNCHANGED <<logFaults, faults>>
       \/ logFaults' = logFaults + 1 /\ Fault /\ UNCHANGED sentLog
    /\ UNCHANGED <<row, clock, razorpay, webhook, sentEvents, reminded, req>>

SendReminder ==
    /\ dun.pc = "send"
    /\ DunGo("insert")
    /\ reminded' = [reminded EXCEPT ![<<dun.at, dun.since>>] = @ + 1]
    /\ UNCHANGED <<row, clock, razorpay, webhook, sentLog, sentEvents, logFaults, req, faults>>

\* If this insert raises, the cycle is over.
InsertEvent ==
    /\ dun.pc = "insert"
    /\ \/ sentEvents' = sentEvents \cup {dun.at} /\ DunNext /\ UNCHANGED faults
       \/ dun' = DunIdle /\ Fault /\ UNCHANGED sentEvents
    /\ UNCHANGED <<row, clock, razorpay, webhook, sentLog, reminded, logFaults, req>>

\* After the reminders: the downgrade, on what was read at the start.  A mail of it should follow,
\* recorded as the last reminder is.  The loop has recorded that one, so the mail is not sent, unless
\* the log is what it was recorded in and the lookup fails.
EndCycle ==
    /\ dun.pc = "check" /\ dun.at > Len(Offsets)
    /\ IF dun.days >= LastOffset /\ dun.plan # "free"
       THEN /\ Downgrade
            /\ \/ UNCHANGED <<sentEvents, logFaults, faults>>
               \/ /\ "empty" \in EmptyAnswers /\ Len(Offsets) \notin sentEvents
                  /\ Fault /\ logFaults' = logFaults + 1
                  /\ sentEvents' = sentEvents \cup {Len(Offsets)}
       ELSE UNCHANGED <<row, sentEvents, logFaults, faults>>
    /\ dun' = DunIdle
    /\ UNCHANGED <<clock, razorpay, webhook, sentLog, reminded, req>>

DunningCrash ==
    /\ dun.pc # "idle"
    /\ Fault
    /\ dun' = DunIdle
    /\ UNCHANGED <<row, clock, razorpay, webhook, sentLog, sentEvents, reminded, logFaults, req>>

-------------------------------------------------------------------------------
(* Checkout, sync and the superadmin.                                       *)

\* create_checkout_session reads the row and refuses a tenant that has a subscription.
CheckoutRead ==
    /\ req.pc = "idle"
    /\ ~(plan = "paid" /\ sub # NoSub /\ status # "cancelled")
    /\ req' = IF plan = "free" /\ sub # NoSub
              THEN [pc |-> "stale", sub |-> sub]
              ELSE [pc |-> "create", sub |-> NoSub]
    /\ UNCHANGED <<row, clock, razorpay, webhook, dunning, faults>>

PendingStatuses == {"created", "authenticated"}
ActiveStatuses == {"active", "authenticated"}

\* _cancel_stale_subscription: one that is not active yet is cancelled; if that
\* fails, it is only a warning.
CancelStale ==
    /\ req.pc = "stale"
    /\ \/ /\ Move(req.sub, PendingStatuses, "cancelled")
          /\ Emit("cancelled", req.sub, NoPayment)
          /\ UNCHANGED faults
       \/ /\ prov[req.sub] \notin PendingStatuses
          /\ UNCHANGED <<razorpay, faults>>
       \/ Fault /\ UNCHANGED razorpay
    /\ req' = [pc |-> "create", sub |-> NoSub]
    /\ UNCHANGED <<row, clock, webhook, dunning>>

CheckoutCreate(s) ==
    /\ req.pc = "create"
    /\ Move(s, {"none"}, "created")
    /\ req' = [pc |-> "store", sub |-> s]
    /\ UNCHANGED <<row, clock, events, pending, webhook, dunning, faults>>

CheckoutStore ==
    /\ req.pc = "store"
    /\ \/ sub' = req.sub /\ UNCHANGED faults
       \/ Fault /\ UNCHANGED sub
    /\ req' = ReqIdle
    /\ UNCHANGED <<plan, status, since, age, clock, razorpay, webhook, dunning>>

\* sync_subscription_from_razorpay: the row is read (a row in order is left
\* alone), the subscription is asked for and found active ...
SyncRead ==
    /\ req.pc = "idle"
    /\ sub # NoSub
    /\ plan = "free" \/ status # "active"
    /\ req' = [pc |-> "fetch", sub |-> sub]
    /\ UNCHANGED <<row, clock, razorpay, webhook, dunning, faults>>

SyncFetch ==
    /\ req.pc = "fetch"
    /\ req' = IF prov[req.sub] \in ActiveStatuses
              THEN [req EXCEPT !.pc = "sync"]
              ELSE ReqIdle
    /\ UNCHANGED <<row, clock, razorpay, webhook, dunning, faults>>

\* ... and the row is written from that.
SyncWrite ==
    /\ req.pc = "sync"
    /\ PaidBy(req.sub)
    /\ req' = ReqIdle
    /\ UNCHANGED <<clock, razorpay, webhook, dunning, faults>>

ManualUpgrade ==
    /\ plan' = "paid" /\ status' = "active" /\ age' = 0
    /\ since' \in {since, Never}
    /\ UNCHANGED <<sub, clock, razorpay, webhook, dunning, req, faults>>

ExtendTrial ==
    /\ status' = "trialing" /\ age' = 0
    /\ UNCHANGED <<plan, since, sub, clock, razorpay, webhook, dunning, req, faults>>

-------------------------------------------------------------------------------

HandleEvent == Apply \/ NotHandled \/ Invoice \/ Mark
DunningStep == DunningCycle \/ CheckOffset \/ RecordSent \/ SendReminder \/ InsertEvent \/ EndCycle

Next ==
    \/ \E s \in Subs : Razorpay(s) \/ CheckoutCreate(s)
    \/ Day \/ NextMonth
    \/ \E e \in DOMAIN events : Deliver(e)
    \/ HandleEvent \/ ApiCrash
    \/ DunningStep \/ DunningCrash
    \/ CheckoutRead \/ CancelStale \/ CheckoutStore
    \/ SyncRead \/ SyncFetch \/ SyncWrite
    \/ ManualUpgrade \/ ExtendTrial

Spec == Init /\ [][Next]_vars

\* A handler runs to its end, Razorpay delivers again until it is answered 2xx,
\* days pass, and the dunning job is run daily.
FairSpec ==
    /\ Spec
    /\ WF_vars(HandleEvent)
    /\ \A e \in Events : WF_vars(e \in DOMAIN events /\ Deliver(e))
    /\ WF_vars(Day) /\ WF_vars(DunningStep)

-------------------------------------------------------------------------------
(* Properties.                                                              *)

\* An event's change is written once, however often the event is delivered and in
\* whatever order; only a call that raised or a crash costs another time.
AppliedOnce == \A e \in Events : applied[e] <= 1 + faults

\* "Replay: no duplicate invoice": a payment has one invoice although two events
\* report it, in two months perhaps, and a month has one invoice.
InvoicedOnce == \A i, j \in invoices : i[1] = j[1] \/ i[2] = j[2] => i = j

\* A reminder is sent once for a failure, whatever the job is interrupted by;
\* only a call on dunning_sent_log that failed, the lookup as well as the
\* insert, costs another e-mail.
RemindedOnce == \A x \in DOMAIN reminded : reminded[x] <= 1 + logFaults

\* An event Razorpay emits is answered in the end, and then either marked
\* processed, with or without an error, or one its handler could not apply.
EveryEventSettles ==
    \A e \in Events :
        (e \in DOMAIN events) ~> (e \notin pending /\ e \in processed \cup unhandled)

\* "After subscription.charged / payment.captured: row in invoices": with nothing
\* failed, a payment whose event is processed has an invoice.
PaymentInvoiced ==
    faults = 0 =>
        \A e \in processed :
            events[e].payment # NoPayment => \E i \in invoices : i[1] = events[e].payment

\* "past_due_since 3+ days ago + dunning cron: e-mail": a tenant past due for as
\* long as the last offset gets the reminder, unless the failure is settled or
\* followed by another.
ReminderArrives ==
    \A n \in Episodes :
        (since = n /\ status = "past_due" /\ age = LastOffset)
            ~> (since # n \/ status # "past_due" \/ reminded[<<1, n>>] > 0)

===============================================================================
