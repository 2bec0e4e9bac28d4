------------------------------- MODULE UsageQuota -------------------------------
(***************************************************************************)
(* The usage quotas of one tenant: the row of usage_tracking for the        *)
(* current IST month (increment_usage and get_current_usage, migration      *)
(* 011_billing.sql), the guards that read it (core/plan_guard.py) and the   *)
(* handlers that count after the work is done: import, undo and copilot     *)
(* chat (api/v1/data.py, api/v1/copilot.py).                                *)
(*                                                                         *)
(* The API is one uvicorn process.  The import and undo handlers never      *)
(* await between their guard and their last increment, so they hold the     *)
(* event loop; a chat lets go of it while the model answers.  Midnight may  *)
(* fall between any two calls.  Days are numbered within their month: the   *)
(* code never compares dates of two months, a new month has a new row.      *)
(*                                                                         *)
(* Left out: the plan is fixed and paid up; the row-storage cap (a refusal  *)
(* changes nothing) and rows_imported, which no guard reads, but for the    *)
(* last_activity_date its increment writes; debrief_count; POST /data/sync, *)
(* which raises before it counts anything.                                  *)
(***************************************************************************)
EXTENDS Integers, FiniteSets

CONSTANTS
    DaysPerMonth,
    CopilotLimit,     \* copilot_calls_per_month
    MonthlyUploads,   \* uploads_per_month
    DailyUploads,     \* uploads_per_day
    DailyUndos,       \* undos_per_day
    Chats,            \* chat requests the API may be serving at a time
    MaxDone,          \* bound: completed uses per period
    MaxSlack          \* bound: failed calls per period

ASSUME QuotaAssumption ==
    /\ DaysPerMonth \in Nat \ {0}
    /\ CopilotLimit \in Nat \ {0} /\ MonthlyUploads \in Nat \ {0}
    /\ DailyUploads \in Nat \ {0} /\ DailyUndos \in Nat \ {0}
    /\ IsFiniteSet(Chats) /\ Chats # {}
    /\ MaxDone \in Nat /\ MaxSlack \in Nat

Daily == {"uploads_today", "undos_today"}
Counters == {"copilot_calls", "uploads_count"} \cup Daily

Limit == [copilot_calls |-> CopilotLimit, uploads_count |-> MonthlyUploads,
          uploads_today |-> DailyUploads, undos_today |-> DailyUndos]

Zeros == [c \in Counters |-> 0]
NoDay == -1

VARIABLES
    day,      \* the IST date, as a day of its month
    usage,    \* the counters of this month's row
    last,     \* its last_activity_date, NoDay while there is no row
    loop,     \* what holds the event loop: nothing, or a handler at one of its steps
    chat,     \* chats whose answer is awaited
    done,     \* history: uses of each counter completed in its period
    queued,   \* history: files accepted by POST /data/import/async today
    slack     \* history: guards that read nothing and increments that raised in the period

rowVars == <<usage, last>>
histVars == <<done, queued, slack>>
vars == <<day, rowVars, loop, chat, histVars>>

TypeOK ==
    /\ day \in 0..(DaysPerMonth - 1)
    /\ usage \in [Counters -> Nat]
    /\ last \in Nat \cup {NoDay}
    /\ loop \in {"free", "import", "rows", "count", "today", "undo", "undone"}
    /\ chat \in SUBSET Chats
    /\ done \in [Counters -> Nat]
    /\ queued \in Nat
    /\ slack \in [Counters -> Nat]

Init ==
    /\ day = 0
    /\ usage = Zeros
    /\ last = NoDay
    /\ loop = "free"
    /\ chat = {}
    /\ done = Zeros
    /\ queued = 0
    /\ slack = Zeros

-------------------------------------------------------------------------------
(* The row.                                                                 *)

IncrementGivingBack(c) ==
    /\ usage' = [usage EXCEPT ![c] = @ + 1,
                              !["uploads_today"] = IF c = "undos_today" THEN @ - 1 ELSE @]
    /\ last' = day

\* increment_usage: the counter, and the date of the last activity of any kind.
Increment(c) == usage' = [usage EXCEPT ![c] = @ + 1] /\ last' = day

ReportedYesterdays(c) == IF c \in Daily /\ last = day THEN 0 ELSE usage[c]

\* get_current_usage: a daily counter is shown only if the last activity is of today.
Reported(c) == IF c \in Daily /\ last # day THEN 0 ELSE usage[c]

\* The day ends; the first day of a month has no row yet.
Midnight ==
    LET newMonth == day + 1 = DaysPerMonth
        over == IF newMonth THEN Counters ELSE Daily
    IN  /\ day' = IF newMonth THEN 0 ELSE day + 1
        /\ usage' = IF newMonth THEN Zeros ELSE usage
        /\ last' = IF newMonth THEN NoDay ELSE last
        /\ done' = [c \in Counters |-> IF c \in over THEN 0 ELSE done[c]]
        /\ slack' = [c \in Counters |-> IF c \in over THEN 0 ELSE slack[c]]
        /\ queued' = 0
        /\ UNCHANGED <<loop, chat>>

-------------------------------------------------------------------------------
(* Guards and counting.                                                     *)

\* Something failed on behalf of these counters.
Charge(cs) ==
    /\ \A c \in cs : slack[c] < MaxSlack
    /\ slack' = [c \in Counters |-> IF c \in cs THEN slack[c] + 1 ELSE slack[c]]

Use(cs) ==
    /\ \A c \in cs : done[c] < MaxDone
    /\ done' = [c \in Counters |-> IF c \in cs THEN done[c] + 1 ELSE done[c]]

BelowOrAt(cs) == \A c \in cs : Reported(c) <= Limit[c]

Below(cs) == \A c \in cs : Reported(c) < Limit[c]

\* A guard lets the request pass below the limits, or, with all counters taken
\* as zero, when they cannot be read.
Pass(cs) ==
    \/ Below(cs) /\ UNCHANGED slack
    \/ Charge(cs)

\* A call to increment_usage; if it raises, applied or not, the calls after it
\* in the same try block are skipped and the request still succeeds.
Count(c, next, skipped) ==
    \/ Increment(c) /\ loop' = next /\ UNCHANGED slack
    \/ /\ Increment(c) \/ UNCHANGED rowVars
       /\ loop' = "free"
       /\ Charge(skipped)

-------------------------------------------------------------------------------
(* POST /data/import                                                        *)

Uploads == {"uploads_count", "uploads_today"}

GuardImport ==
    /\ loop = "free"
    /\ Pass(Uploads)
    /\ loop' = "import"
    /\ UNCHANGED <<day, rowVars, chat, done, queued>>

\* import_file returns, or raises and nothing is counted.
ImportFile ==
    /\ loop = "import"
    /\ \/ Use(Uploads) /\ loop' = "rows"
       \/ loop' = "free" /\ UNCHANGED done
    /\ UNCHANGED <<day, rowVars, chat, queued, slack>>

CountRows ==
    /\ loop = "rows"
    /\ \/ last' = day /\ loop' = "count" /\ UNCHANGED <<usage, slack>>
       \/ last' \in {last, day} /\ loop' = "free" /\ Charge(Uploads) /\ UNCHANGED usage
    /\ UNCHANGED <<day, chat, done, queued>>

CountUpload ==
    /\ loop = "count"
    /\ Count("uploads_count", "today", Uploads)
    /\ UNCHANGED <<day, chat, done, queued>>

CountToday ==
    /\ loop = "today"
    /\ Count("uploads_today", "free", {"uploads_today"})
    /\ UNCHANGED <<day, chat, done, queued>>

\* POST /data/import/async: guarded alike, never counted.
QueueImport ==
    /\ loop = "free"
    /\ queued < MaxDone
    /\ Pass(Uploads)
    /\ queued' = queued + 1
    /\ UNCHANGED <<day, rowVars, loop, chat, done>>

-------------------------------------------------------------------------------
(* DELETE /data/imports/{id}                                                *)

GuardUndo ==
    /\ loop = "free"
    /\ Pass({"undos_today"})
    /\ loop' = "undo"
    /\ UNCHANGED <<day, rowVars, chat, done, queued>>

\* The rows are deleted, or the request ends: no such job, undone before, or an error.
UndoRows ==
    /\ loop = "undo"
    /\ \/ Use({"undos_today"}) /\ loop' = "undone"
       \/ loop' = "free" /\ UNCHANGED done
    /\ UNCHANGED <<day, rowVars, chat, queued, slack>>

CountUndo ==
    /\ loop = "undone"
    /\ Count("undos_today", "free", {"undos_today"})
    /\ UNCHANGED <<day, chat, done, queued>>

-------------------------------------------------------------------------------
(* POST /copilot/chat, streaming or not.                                    *)

GuardChat(c) ==
    /\ loop = "free"
    /\ c \notin chat
    /\ Pass({"copilot_calls"})
    /\ chat' = chat \cup {c}
    /\ UNCHANGED <<day, rowVars, loop, done, queued>>

\* An answer is counted; a failed or interrupted one is not.
Answered(c) ==
    \/ Use({"copilot_calls"}) /\ Count("copilot_calls", "free", {"copilot_calls"})
    \/ UNCHANGED <<rowVars, loop, done, slack>>

EndChat(c) ==
    /\ loop = "free"
    /\ c \in chat
    /\ Answered(c)
    /\ chat' = chat \ {c}
    /\ UNCHANGED <<day, queued>>

-------------------------------------------------------------------------------

Next ==
    \/ Midnight
    \/ GuardImport \/ ImportFile \/ CountRows \/ CountUpload \/ CountToday
    \/ QueueImport
    \/ GuardUndo \/ UndoRows \/ CountUndo
    \/ \E c \in Chats : GuardChat(c) \/ EndChat(c)

Spec == Init /\ [][Next]_vars

-------------------------------------------------------------------------------
(* Properties.                                                              *)

\* Chats that may have passed the guard on the same reading of the counter.
Overshoot(c) == IF c = "copilot_calls" THEN Cardinality(Chats) - 1 ELSE 0

\* A quota is overrun by no more than the chats that were let in together and
\* the calls that failed (a guard that could not read lets one use in, a lost
\* increment hides one), whatever midnight, the month's end, or a counter left
\* over from another day come in between.
QuotasHold == \A c \in Counters : done[c] <= Limit[c] + Overshoot(c) + slack[c]

\* Where a handler is between the work and the increment of a counter.
Uncounted == [copilot_calls |-> {}, uploads_count |-> {"rows", "count"},
              uploads_today |-> {"rows", "count", "today"}, undos_today |-> {"undone"}]

\* What a guard reads never falls short of what was done, but for lost
\* increments and the request that is about to count.
NothingForgotten ==
    \A c \in Counters :
        done[c] <= Reported(c) + slack[c] + (IF loop \in Uncounted[c] THEN 1 ELSE 0)

\* "Daily counters auto-reset to 0 when last_activity_date != today": what is
\* shown as today's use is use of today, but for the one request that midnight
\* overtook between its work and its count.
DailyCountersReset == \A c \in Daily : Reported(c) <= done[c] + 1

\* "Daily hard cap, all plans": with nothing failed, no more files than
\* uploads_per_day are accepted in a day.
DailyHardCap ==
    slack["uploads_today"] = 0 => done["uploads_today"] + queued <= DailyUploads

===============================================================================
