# Akara: a TLA+ model of imports, quotas, billing, seats and the pages on top

Akara is a multi-tenant analytics product: a backend (FastAPI, Supabase/Postgres,
Razorpay, an LLM copilot) and a web front end (React, React Query). Its risk is
not in algorithms but in state that several actors change one call at a time:
import jobs, usage counters, the tenant's billing row, seats and invitations,
recommendations; and in pages that go on being clicked while they wait for
answers. This directory models those, checks them with TLC on small instances,
and proves for every instance what matters most.

## The system

Processes: one API process (`src/backend/Procfile`: a single uvicorn), any
number of import workers started by a scheduler or kept running
(`workers/import_worker.py`), a daily dunning job, other scheduled workers, and
outside Razorpay, the LLM provider and the mail service. They share Postgres
and call nothing of each other. `async def` handlers that never await hold the
event loop from start to end; plain `def` handlers run in threads. A page runs on
one thread: whatever stands between two awaits of a handler is one step, and
clicks, timers and answers come in between in any order.

| Part | State | Operations | What is hard | What makes it correct |
|---|---|---|---|---|
| Import queue and worker | `import_jobs` (status, retry_count, worker_id, heartbeat_at), sales rows, `generated_reports` | upload, claim, heartbeat, batch insert, complete, retry, stale cleanup; cancel, retry, undo by an admin | several workers, crashes, lost heartbeats, calls that raise though they were applied, requests by id on an earlier read | exclusive claims, a job is lost on its last attempt only, retries within budget, completed means loaded, a cancel is respected |
| Usage quotas | one `usage_tracking` row per IST month | guard, work, increment: import, undo, chat; two RPCs | check and count are apart, midnight, guards that fail open, lost increments | counters never forget a use, limits overrun only by what is accounted for |
| Billing webhooks, invoices | `tenants` billing columns, `payment_webhook_events`, `invoices` | six kinds of event | redelivery, reordering, handlers that raise half way or cannot find the tenant | every event applied once and settled, one invoice a payment |
| Dunning | `dunning_sent_log`, `dunning_events` | daily cycle of reminders, downgrade | a crash between log, mail and event; failures of the log that are swallowed; a stale snapshot | a reminder once for each failure, unless the log fails |
| Checkout, sync | Razorpay subscriptions, `razorpay_subscription_id` | create, store, sync | row and Razorpay disagree in between | nothing the code promises: modelled as writers that interfere |
| Superadmin console | any row | manual upgrade, extend trial, refunds, catalogue, broadcast, sudo | interferes with everything | only as a writer here |
| Team seats | `profiles`, `team_invites` | reserve, token, mail, resend, accept, cancel, remove, reactivate, select, downgrade | counting and writing are apart, requests stop halfway, tokens are replaced | seats within the plan, one join per invitation for each acceptance that is marked, a link that works until it is replaced |
| Recommendations | a dictionary of the API process | upsert, sweep, accept, snooze, reject, outcome scan | every read changes rows, routes run in threads and look at a row before they write it, any row can be decided on, a restart forgets | the cap, one row a topic, a decision stands unless it meets another's look |
| Actions page | one cached list per sort order and type, snapshots of mutations | fetch, change the filter, open a modal, accept, snooze, reject | optimistic removal on all lists, cancelled fetches, rollbacks, lists asked for during a decision | the list shown settles to the server's; a row stays away during the only decision |
| Copilot chat page | messages, `isStreaming`, `conversationId`, `abortRef` | send, stream, cancel, new chat, open a conversation, timeout | three awaits in a call, calls overlap, the server falls silent | the page agrees with the server, the input is never locked for good |
| Data page, list of imports | `importJobs`, an interval, `actionJobId`, `undoingJobId` | fetch, poll, upload, cancel, retry, undo | the effect depends on the list's length; answers come in any order | active imports are watched, the list catches up |
| Cafe import wizard | `import_jobs.status`, the step of the wizard | upload, confirm a mapping, poll, reconcile | who moves the job on | the progress ends |
| Account export, deletion | requests, purge worker | request, cancel, purge | the purge is done in several deletes | nothing purged after a cancellation |
| Weekly debrief | `generated_reports`, `debrief_count` | generate once a week | the lifetime count is kept by month | a free plan has one debrief |
| Circuit breaker, idempotency keys, alerts, connectors, content and retention jobs, KPI, parsing, auth, charts | | | mostly I/O, data cleaning, pure computation, drawing | |

`PROJECT.json` lists every part with its sources and status, and every hazard
of the code at its line.

## Modules

| Module | What it is |
|---|---|
| `ImportQueue` | the queue, the workers and the admin's requests |
| `ImportContract` | what the queue promises, with no workers in sight: a job is pending, then completed (with all of its file loaded), failed, cancelled or deleted |
| `ImportRows` | the same rows as the API and its pages can tell them apart (active, done, stopped, deleted), and who may change them when |
| `MCImportQueue` | instances for TLC |
| `ImportQueueProofs` | theorems about `ImportQueue`, the refinement of `ImportContract` among them |
| `UsageQuota`, `MCUsageQuota`, `UsageQuotaProofs` | the usage row, its guards and the handlers that count |
| `Subscription`, `MCSubscription`, `SubscriptionProofs` | the tenant's billing row with webhooks, dunning, checkout, sync and superadmin overrides |
| `TeamSeats`, `MCTeamSeats`, `TeamSeatsProofs` | seats of one workspace: invitations, members, a downgrade |
| `Recommendations`, `MCRecommendations`, `RecommendationsProofs` | the rows of `recommendation_repo` |
| `ActionQueue`, `MCActionQueue`, `ActionQueueProofs` | the actions page over an arbitrary set of open rows |
| `CopilotChat`, `MCCopilotChat`, `CopilotChatProofs` | the copilot page with the stream and the server behind it |
| `ImportWatch`, `MCImportWatch`, `ImportWatchProofs` | the list of imports on the data page |
| `CafeImport`, `MCCafeImport` | the cafe upload wizard with its routes and the worker |

Every model keeps one component, and of the others what it can see of them.
`UsageQuota` keeps the plan fixed, `ImportQueue` lets any upload in. `ActionQueue`
is the page over `Recommendations`; there the server's set of open rows changes at
will, which asks more of the page than the server does. `ImportWatch` is the page
over `ImportQueue`, and `ImportRows` is where the two meet: `RowsFollowed` proves that
the queue implements it, and `RowsAreElsewhere` that all it can do to the rows is
something `ImportWatch` expects of the workers and the other admins. So what holds of
the page holds over the queue as it is, late writes and all. `CopilotChat` has its
page and its server in one module, since what is hard is how they interleave.

### ImportQueue

`status`, `retries`, `owner`, `beat` are the columns of `import_jobs`; `beat` is
heartbeat_at as the cleanup's WHERE sees it: NULL, recent, or older than ten
minutes. `rows[j][b]` counts the copies of batch `b` of job `j`'s file in its
sales table. Every worker has a place in `run_once` (`wpc`) and the job dict it
was given by `RETURNING` (`wjob`, `wsnap`): from then on it never looks at the
row again, except once, in `CheckStatus`.

One action is one database call with the code around it: `CleanupStaleJobs`,
`ClaimJob`, `CheckStatus`, `FetchAndParse`, `InsertBatch` (one turn of the loop of
`import_dataframe`), `ReportImport` (its end), `Complete`, `RetryJob`. Each may
fail where the code has a call that may raise, and where the call writes, the
write may have been applied all the same (`ClaimFails`, `InsertBatch`,
`Complete`). `Heartbeat` is the task beside the job, `HeartbeatEnds` its timeout
or its first failed update, `Crash` the death of the process; a worker has a new
`worker_id` when it is started again, so the same one never comes back.
`HeartbeatAges` is ten minutes passing for a row whose worker no longer writes;
it does not happen to a row whose heartbeat task is alive (ten seconds against
ten minutes). Admin requests read (`CancelRead`, `RetryRead`, `UndoRead`) and
write (`CancelWrite`, `RetryWrite`, `UndoDelete`, `UndoMark`) in separate
actions; as their handlers never await, the runs have one at a time.

Left out: columns nothing reads back, contents of rows, notices of failure, the
retry of an insert without `import_job_id` (a database without migration 011),
and jobs of the synchronous import, which no worker sees.

### UsageQuota

`usage` and `last` are the counters and the date of this month's row. `loop` says
which handler holds the event loop and where; `chat` the chats that passed the
guard and wait for the model. `Increment` and `Reported` are the two RPCs. `Pass`
is a guard, open when the counters cannot be read; `Count` a call that counts,
whose failure skips the calls behind it in the same `try`. `Midnight` may fall
between any two steps; on the last day of a month it also starts a new row.
`done`, `queued` and `slack` are history: what was really done in the period,
and what failed in it.

### Subscription

`plan`, `status`, `since`, `sub` are columns of `tenants`; `since` is the number of
the failure that dated past_due_since. `age` counts the days of that date.
`Razorpay(s)` moves a subscription and emits the event that reports it; `pending`
are the events it will deliver again. A webhook is `Deliver`, `Apply` (the one
write to the tenant), `Invoice` (for payments), `Mark`; a handler that raised ends
in `Mark` too, is marked and answered 500. A handler that finds no tenant returns
False (`NotHandled`): the event is answered 200, is not marked, and does not come
again (`unhandled`; `test_billing_sync.py:30` asks for this). The dunning job is `DunningCycle` (it
reads the tenant once), then for each offset `CheckOffset`, `RecordSent`,
`SendReminder`, `InsertEvent`, and `EndCycle`, which downgrades. A lookup in
`dunning_sent_log` that fails is swallowed (`dunning.py:57`) and the job goes on as if
it had found nothing, and so is an insert that fails; `logFaults` counts both. Checkout is
`CheckoutRead`, `CancelStale`, `CheckoutCreate`, `CheckoutStore`; sync is
`SyncRead`, `SyncFetch`, `SyncWrite`. Webhooks are handled one at a time (an `async
def` that does not await); the dunning job and one thread of checkout or sync
run beside them.

`EmptyAnswers` says what the database client's `maybe_single()` answers when there
is no row: an empty result, or None. The code has callers of both opinions
(`webhook_handler.py:40` guards against None, `gst_invoice.py:187` does not), and
the test `test_razorpay_webhook.py:25` has it answer None; `uv.lock` fixes postgrest 2.31.0.
The safety run allows both answers, so nothing it shows depends on the choice.

Left out: which paid plan, customer ids, trial_ends_at, the locking of seats (in `TeamSeats`), the
notice of day 0, an administrator without an e-mail address, refunds started by
the superadmin, invoice numbers and tax.

### TeamSeats

`member` is `membership_status` of everybody in the workspace; `status`, `email`,
`live` and `mailed` describe an invitation, the last two being whether its expiry
lies ahead and whether its current token has been mailed. A request (`req`) is one
handler between its database calls. `POST /team/invite` is `InviteAgain` or
`InviteCount` and `InviteInsert` (the SQL function counts, then inserts against
the unique index; it takes no lock), then `InviteToken`, `InviteReread` and
`InviteMail`, which mails what was read back; `InviteAgain` ends with the token, as the
link of an invitation that is found is not mailed. Accepting is `AcceptRead`,
`AcceptJoin`, `AcceptMark`; reactivation is `ReactivateCount`, `ReactivateWrite`; a
downgrade is `DowngradeRead`, one `Lock` for each member, `DowngradePlan`.
`RequestFails` stops any of them at any call.

Each property has a history of its own, which names what it excuses and nothing
else. `torn` counts, for each invitation, the acceptances that stopped between the
profile and the invitation or were overlapped by the removal of the person.
`unsent` are the invitations that were made anew, whose mail failed or whose request
stopped before its mail, until a mail with the current link goes out. `excused`
belongs to `SeatsHold`: two requests that rely on a free seat overlap, an invitation
is cancelled or runs out or its person is removed while it is accepted, one that
had run out is revived, a downgrade finds invitations pending.

### Recommendations and ActionQueue

The routes under `/actions` are plain `def`: each runs in a thread, and all begin with
the sweep. A request is `Begin`, then for each row of the dictionary `Look` and, if
the row's snooze is over or it has expired, `WriteOpen`, `LookAgain` or
`WriteExpired`, and `LookEnds`; then `Answer`, or a decision (`Accept`, `Snooze`,
`Reject`: the status) and `WriteDate` (the date the first two write after it).
A decision takes any row of the store, whatever its status. The engine's upsert
(`Upsert`, `UpsertLook`, `UpsertSupersede`, `UpsertInsert`; it neither sweeps nor
counts what is snoozed) and the outcome scan (`Scan`, `ScanLook`, `ScanLookEnds`,
`ScanWrite`) are called by async routes that never await: they run on the event
loop, one at a time, row by row beside the threads. An insert makes every sweep
under way raise at its next row (`broken`), as a dictionary that grows under an
iteration does. `Restart` loses all rows. The nightly scan of the cron process works
on a dictionary nothing fills; it changes nothing and has no action. Two
histories say which rows the properties except: `returned`, which a sweep brought
back when their snooze had ended, and `overtaken`, whose last decision was written
while somebody else stood between a look at the row and a write of it (`Behind`), or
whose snooze a sweep looked at before its date was there.

`ActionQueue` has, for each sort order and type (a filter), `items` and `count` as
cached by React Query, whether that list is fresh (`age`) and its query (`fetch`,
`answer`); which of them the page shows, the modal, and of each mutation where its
request is and the snapshot it took. `Visit` opens the page or changes the filter
and fetches the list if it must, `Leave` closes it, `Reconnect` fetches again.
`Confirm` is `onMutate` whole: cancel the queries, take the snapshot of every list,
remove the row from all. `Failed` and `Succeeded` are `onError`/`onSuccess` with
`onSettled`, which makes every list old and asks for the one shown. `behind` is
history: lists that somebody else has changed at the server, or that were read
before a decision ended and are shown after it. `crossed`: another decision was
taken, or a list asked for, during a decision.

### CopilotChat

`pc` says at which await a call of `sendMessage` stands: the session (`auth`), the
head of the response (`sent`), the next chunk (`reading`). `chan` holds what the
server sent and nobody has read. `Finally` is the finally block; it clears the flag
and the controller of whichever call is current. `StartNewConversation` and
`CancelStream` abort through `abortRef`, `Timeout` is the timer of
`STREAM_TIMEOUT_MS`. The server refuses, accepts, finishes or fails, or does
nothing at all. `overlap` is history: the user acted while something was awaited.

### ImportRows, ImportWatch and CafeImport

`ImportRows` keeps `row`, the jobs in the hands of a worker (`held`) and what the API
has let through and not answered (`judged`). A worker writes what it likes for as
long as it holds the job, whatever the row says by then (`WorkerWrites`), and a
request writes its outcome on what it read earlier (`Judge`, `CarryOut`). In
`ImportQueue` the mapping is `RowOf` and `Judged`.

In `ImportWatch`, `Elsewhere` is a worker or another admin: any job may become anything
and new ones come. The page's own action is read and let through (`Judge`), then
written (`Write`), and its answer may be lost after that. `GoesUnseen` is a change the
page has no means to notice. `request` holds what the page has under way; the two
histories remember what the page does not follow (`unfollowed`) and of which kinds
(Cancel and Retry are one, Undo the other) actions are under way on two rows (`mixed`).
`Show` is `setImportJobs` with the effect it triggers when the length of the list
changes; `older` orders answers so that a list overtaken by a newer one is told
apart. In `CafeImport` the wizard, the routes and the worker share one job.

## What TLC checks

| Run | Instance | Result |
|---|---|---|
| `import_safety` | 1 job of 2 batches, 2 workers, 1 retry, 3 faults, 3 requests | 650,000 states, holds, `FollowsRows` and `ImplementsContract` included |
| `import_liveness` | 1 job of 2 batches, 2 workers, 1 retry, 3 faults, 2 requests | 491,000 states, holds |
| `import_undo` | 2 workers, 1 fault, 1 request | violated |
| `quota_safety` | 2 months of 2 days, 2 chats, 1 failure a period and counter | 2,800,000 states, holds |
| `billing_safety` | 1 subscription, 3 events, one reminder, 2 months, 1 failure | 4,300,000 states, holds |
| `billing_liveness` | 1 subscription, 2 events, one reminder, 2 failures | 369,000 states, holds |
| `team` | 3 people, 2 invitations, 2 requests, 1 torn acceptance of each, owner not recorded | 2,900,000 states, holds |
| `actions_store` | 3 rows, 3 topics, a cap of 2, 2 threads, 3 requests and 2 dates | 5,250,000 states, holds |
| `actions` | 2 filters of a row each, 2 decisions at a time | 5,200,000 states, holds |
| `copilot` | 2 questions, 1 conversation being loaded | 400,000 states, holds |
| `watch` | 2 jobs, a list of the latest, 2 requests; nobody else acts once `unfollowed` | 125,000 states, holds |
| `wizard` | 1 import | violated |

Import. `ExclusiveClaim`: unless a job was put back, one worker has it.
`ClaimedRowsCanGoStale`: a row in processing names its worker and carries a heartbeat, which can be seen to go
stale. It does not say that the cleanup takes the row: that also asks
`retry_count < max_retries` (`import_worker.py:295`).
`RetriesAreFaults`: stale snapshots, the cleanup and the
admin together never charge a job for more than went wrong. `CompletedIsLoaded`,
`LoadedOnce`: completed means every batch is there, once if nothing went wrong.
`CancelStands`: a cancel before the worker's second look is final. `ImplementsContract`:
under the mapping of pending to queued and processing, every step is a step of
`ImportContract`. `FollowsRows`: whoever changes a row took the job while it was active
or was let through by a route that looked at it first. `EverySettles`: a job leaves the queue, unless
it is `Stranded`: in processing on its last attempt with no worker left that has it,
where the cleanup never finds it. Three faults against one retry reach that case.
`UploadsComplete`: with no more faults than retries, every upload completes.
Three faults are one more than it takes a job with one retry to be dead-lettered,
and enough for a lost heartbeat, a stale cleanup and a further failure in one
behaviour. Two workers are what exclusion and the stale-worker race need. One job
is enough for safety because a worker's step touches one job's row, and the claim may take any job that is
queued.

Quotas. `NothingForgotten` compares what is done with what a guard reads;
`QuotasHold` bounds the overrun by the chats admitted together and by failures.
Two days a month have every kind of midnight; limits of 1 to 3 are reached and
overrun within `MaxDone`.

Billing. `AppliedOnce`: an event's change is written once for every failure or
crash plus one. `InvoicedOnce`: one invoice a payment and a month. `RemindedOnce`:
one mail a failure and offset, and one more for each call on `dunning_sent_log` that
failed, the lookup as well as the insert. `EveryEventSettles`: redelivery ends, and the
event is either processed (with or without an error) or one its handler returned
unhandled. Three events are a payment reported twice and a failure, the
cancellation of it, or a refund; two months let the two reports fall apart. Two
failures are a lookup and an insert that fail in one run of reminders. One offset is
both the reminder and the one that downgrades; the theorems have any number.

Team. `SeatsHold`: who is active or holds a live invitation fits the plan, also when
requests stop halfway, but not once one of the cases of `excused` has occurred.
`OneJoinPerInvite`: an invitation lets its person in once, and once more for each
acceptance that stopped between the profile and the invitation or was overlapped by
the removal of the person: not when requests overlap otherwise, and not when the
person is removed at another time. `LinkReaches`: the link of a pending invitation is
mailed or about to be, but for inviting the address again, a failed mail and a
request that stopped before its mail, and until the current link is mailed. Two
requests are the overlap that matters, since every check is undone by one other
write; three people are the founder, a member and somebody invited.

Recommendations. `OpenWithinCap` and `OnePerTopic` say that only rows back from a
snooze or over a decision are past the cap, and that of two open rows about the same
thing one is such a row: whatever the threads do between the engine's count and its
insert, the engine adds no more. `DecisionStands`: a row keeps the last decision on
it until a snooze ends, unless the decision met another's look at the row
(`overtaken`). Then the sweep, the engine or the scan does write over it, and that is
what the code does. Three rows are one more than the cap; two threads are a sweep
beside a decision; two dates are a snooze that ends and a row that expires.

Actions page. `SettledQueue`: removal ahead of the answer and rollback leave no
trace in the list shown once all is quiet, unless that list is `behind`.
`HiddenWhileDecided`: a row does not come back while it is decided on, unless another
decision is taken or a list asked for meanwhile: by a change of the sort order or
the type, by leaving and coming back, or when the network returns. In those cases it
does come back, with its buttons. Two filters of one row each are a list a decision
is about and one it is not; the theorems have any filters, which may share rows.

Copilot page. `Coherent`: if the user did one thing at a time, the turns on screen
are those of the conversation the next question goes to. `CancelReachesAnswer`: the
button cancels the question at the server. Neither says anything once calls have overlapped. `NeverLockedForGood`: however the calls
overlap, a locked input has a question that will unlock it. `UsageShown`: the
quota shown has what is on the screen. `EveryQuestionSettles`: a question ends even
if the server never answers. Two questions and one load are every pair of calls
that can overlap.

Data page. `ActiveIsWatched` and `ListCatchesUp`: an active import on the list is
polled for and does not show as active for ever, but for a retry (which leaves the
length as it is), an upload onto a full list, and a list that comes after a newer
one. `ButtonsFollow`: a disabled button
is that of a row with an action under way; and until actions of one kind are under
way on two rows, the button of the row is disabled all the while its action is, so that
it is not sent twice. When they are, the page's one variable names the later row only,
and the first to end clears it. Two requests are an answer that overtakes another. Two jobs
and a list of one are a list that grows, a list that is full (a new job pushes out
the one that shows) and actions on two rows at once; with lists of two the same
holds, by theorem for the invariants. `OthersLetBe` ends what others do once
`unfollowed` is set: `ActiveIsWatched` and `ListCatchesUp` hold from then on whatever
they do, and `ButtonsFollow` does not look at the jobs' rows.

Bounds: `MaxFaults`, `MaxCalls`, `MaxDone`, `MaxSlack`, `MaxEvents`, `MaxMonth`,
`MaxTorn`, `MaxRequests`, `MaxPasses`, `MaxAttempts`, `MaxJobs` stand in guards and are declared in their modules. Symmetry is used only in safety
runs, among workers, requests, chats, people, threads, topics, filters and calls; `OthersLetBe` is the one action
constraint. A mutant of the code is listed for each
property of the passing runs; it breaks the property.

### Where the code and its documents disagree

* `import_undo`: undo leaves rows of tables other than `sales_data`, and rows a
  worker inserts after it; it says "Delete all rows from a specific import job".
* `wizard`: once its mapping is confirmed a cafe import stays at
  `mapping_confirmed`. The worker claims jobs that are `queued` and no others, so the
  progress step, "Polling every 2 seconds until the job finishes", polls until the
  user leaves.

Five more statements of the documents are kept as definitions beside the models,
each with the sentence it comes from. The code does not satisfy them, and no run
lists them:

* `ImportQueue!NoDuplicateRows` ("no duplicate rows"): a retried job inserts the
  batches of the failed run again.
* `UsageQuota!DailyCountersReset` ("Daily counters auto-reset to 0 when
  last_activity_date != today"): true of the reading only; a first increment of
  another kind brings the old count back as today's.
* `UsageQuota!DailyHardCap`: the "hard daily cap" does not count asynchronous imports.
* `Subscription!PaymentInvoiced`, `Subscription!ReminderArrives`: where
  `maybe_single()` answers None for no row, the first invoice of a month and the
  first reminder are never written.

## Fairness

`ImportQueue!Fairness`: a scheduler starts the worker every minute, so
`WF(WorkerStep(w))` for every worker; the heartbeat task runs while it exists;
ten minutes pass; a request is answered. A dead worker takes no step and one
worker is left (its bound in `Crash`), as the scheduler starts others. Nothing is
assumed of uploads, crashes, failures and requests.

`CopilotChat!Fairness`: the session's answer comes or fails, and the timer set with
every request fires. Nothing is asked of the server or the network.
`ImportWatch!Fairness`: the interval goes on firing (`SF(Poll)`), an action's request
is answered or fails, and of lists asked for again and again one arrives.
`CafeImport!Fairness`: the worker works, the timer of the progress step fires, and
of polls without end one is answered: what fails there fails although everybody does
their part.

`Subscription!FairSpec`: a webhook handler runs to its end or raises; Razorpay
delivers an event again until it is answered 2xx, as an unhandled one is (`WF(Deliver(e))` for every event); days pass; the dunning job is started daily and takes its steps.

## What is proved

TLAPS proves these for every value of the constants, from the assumption on the
constants that each module names (`QueueAssumption`, `QuotaAssumption`,
`SubscriptionAssumption`, ...): sets that are counted are finite, marks like `None` are
apart from what they stand beside, bounds are numbers.

`ImportQueueProofs`: `TypeCorrect`; `BudgetInvariant`, with its consequences
`RetriesAreFaultsHolds`; `ClaimedRowsCanGoStaleHolds`.
`RetriesAreFaults` is not inductive: `retry_job` writes the snapshot of the claim
plus one, so that snapshots must be covered as well. `BudgetInv` says that a
snapshot is at most the job's faults, and below them as soon as the worker is on
its way to `retry_job`; and that a row in processing whose heartbeat can go stale
has a fault to its name that the cleanup has not charged yet, since a heartbeat
ages only when its worker died, lost the task or lost the claim's answer.

A second invariant, `LoadInv` (`LoadInvariant`), is about the sales table. A completed
job is complete because of what its run did before: `Progress` says that as long as
no batch of a run failed, every batch it has tried is there, and that it reaches
`complete` only after the last one and the report. `CleanRun` and `CleanJob` say the
same exactly (once, and no more) of a job nothing has happened to, and exclusion
is part of it, since another run would insert again. `ExclusiveClaimHolds`,
`CompletedIsLoadedHolds` and `LoadedOnceHolds` follow. `ContractImplemented` proves
step by step, with the mapping the run checks, that the queue implements
`ImportContract`; `CancelStandsHolds` is the action property, from the same invariant.

`RowsFollowed` proves the other refinement, of `ImportRows`, from type correctness
alone: a step of the queue moves at most one row, and only one held by the worker
that takes the step or judged for the request that writes. What has to be shown
is that the title is there before the write and gone no earlier.

`SubscriptionProofs`: `BillingInvariant`, with `TypeCorrect`, `AppliedOnceHolds`,
`InvoicedOnceHolds` and `RemindedOnceHolds`. The argument is bookkeeping: each time an
event's change has been written is paid for by the event's mark, which may be still
to come, or by a failure (`Paid`), so is each failed payment that was dated
(`Stamped`), and each e-mail by its record or by a call on the log that failed, the
one about to be sent included (`Recorded`): a job about to record a reminder found
no record of it, or its lookup has just failed and pays.

`UsageQuotaProofs`: `TypeCorrect`; `QuotaInvariant`, with `NothingForgottenHolds` and
`QuotasHoldAlways`. `QuotasHold` alone is not inductive: a request past its guard
has not been done yet. The invariant adds `Committed`: what is done and what is
admitted together stay within the limit, the chats and the failures.

`RecommendationsProofs`: `RecommendationsInvariant`, with
`RecommendationsTypeCorrect`, `OpenWithinCapHolds`, `OnePerTopicHolds` and
`DecisionStandsHolds`. What a thread saw may be gone when it writes. `Standing` says what
is left of it: a row about to be expired or superseded was never decided on, one
about to be resolved is accepted, one about to be opened is snoozed past its date,
or else the row is among those the properties except, because the decision that
came in between put it there. `UpsertRoom` says that an upsert under way still has
room under the cap and nothing open about its topic behind it, though threads have
written since it counted: they only close rows, or open rows that are excepted.

`ActionQueueProofs`: `QueueInvariant`, with `QueueTypeCorrect`, `SettledQueueHolds` and
`HiddenWhileDecidedHolds`. A quiet page is right only because a busy one is about to
be corrected: the invariant adds that while no decision is under way every fresh list
and every answer not yet shown is the server's unless it is `behind`
(`ListsAreRight`), that the list shown is fresh or being fetched (`ShownIsFresh`), and
that during the only decision, with no list asked for, no list can arrive
(`Undisturbed`).

`TeamSeatsProofs`: `TeamTypeInvariant`, with `TeamTypeCorrect` and `LinkReachesHolds`.
The invariant adds that an invitation without a mailed link that is not `unsent` has a
request at work on it, which if it is about to mail has read the current token
(`LinkComes`). `SeatsInvariant` is behind `SeatsHoldAlways` and `OneJoinPerInviteHolds`.
For the seats: unless excused, one request at a time is between its count and its
write (`OneGiver`), and the seats in use leave room for the one it is giving and not
only for those taken (`Room`). For the joins no such condition is needed:
`JoinsPaid` says that an invitation let in one more than its torn acceptances pay for
only while it is used up, with its person in the workspace and the request that
will close it at work, or closed.

`ImportWatchProofs`: `WatchInvariant`, with `WatchTypeCorrect`, `ActiveIsWatchedHolds` and
`ButtonsFollowHolds`. That a list of the same length starts no interval is harmless
only if lists arrive in the order they were read: two lists of one length differ
in what became active since, and only a retry makes a job active again. `FollowInv`
says so of every list under way (a list answered later shows no job as active that
an earlier one shows as ended, and is no shorter). `ButtonsFollow` is inductive as it
stands: it names the kinds in question, and what it says of the other kind survives. `RowsAreElsewhere` is about `ImportRows`: its rows stay in the
order of their numbers, and every step of it is one that `Elsewhere` allows.

`CopilotChatProofs`: `ChatTypeCorrect`, `NeverLockedForGoodHolds`, and `ChatInvariant`
with `CoherentHolds`, `CancelReachesAnswerHolds` and `UsageShownHolds`. The page is told
about its conversation and its answer through a channel it reads late, so the
invariant begins there: nothing comes before the head of the response, `done` comes
last, and a conversation that was created is announced before it (`ChannelInv`).
Then `BubbleInv` and `SavedInv` say where a turn is, `CalmInv` that a user who does one
thing at a time has one call under way, in the page's conversation or none, and
`UsageInv` that an answer counted before its bubble is one is asked for again at the
end of its stream.

Only model-checked: liveness (`UploadsComplete`, `EverySettles`, `EveryEventSettles`,
`EveryQuestionSettles`, `ListCatchesUp`) and fairness, which are out of the prover's
reach. Every other property of a passing run is a theorem.

## Not modelled

The models stand for the parts of the code that keep state which more than one
actor, or more than one call, changes. Most of the repository by lines is
something else, above all in the front end:

* Pages, charts, effects and forms draw what a query returned. A drawing that is
  wrong is wrong at once and for every reader; it has no interleavings. This is the
  bulk of the TypeScript: charts (funnel, heatmap, gauge, bar), the superadmin
  console, debrief reports, marketing pages, generated types.
* Pure computations (KPIs, simulator, GST arithmetic, formatting, date ranges,
  detection of columns) are functions of their input, on which tables of examples
  do well.
* Answers of the language model, SQL it plans, mails, PDFs and spreadsheets are
  data.
* Authentication and token refresh are a library's; connectors are other vendors'.
* Account deletion, the weekly debrief, alerts, content and retention jobs have one
  writer; what could go wrong in them is listed in `PROJECT.json` where it was seen.
* The job row of a synchronous import, roles in a workspace, the suspension of
  members by superadmins, and the idempotency cache of checkout would fit the models
  that are here and are not in them.
