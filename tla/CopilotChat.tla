------------------------------- MODULE CopilotChat -------------------------------
(***************************************************************************)
(* The chat page of the copilot: the hook useCopilot, the handlers of        *)
(* CopilotPage that call it, and the server behind them: the streaming       *)
(* branch of POST /copilot/chat and the messages of a conversation.          *)
(*                                                                         *)
(* The page runs on one thread: an action is what runs between two awaits    *)
(* of a handler.  sendMessage awaits the session, the head of the response   *)
(* and each chunk of it; loadConversation awaits a session and an answer.    *)
(* The user goes on clicking meanwhile.                                      *)
(*                                                                         *)
(* A turn is one question with its answer.  A send that starts a             *)
(* conversation gives it its own name; an old conversation holds one turn,   *)
(* named like it.                                                            *)
(*                                                                         *)
(* Left out: the error banner, phases and evidence (shown, never read); the  *)
(* list of past conversations; all chunks of an answer but the first.        *)
(***************************************************************************)
EXTENDS Integers, Sequences, FiniteSets

CONSTANTS
    Sends,    \* calls of sendMessage
    Old,      \* conversations on the server when the page opens
    Loads,    \* calls of loadConversation under way at a time
    None

ASSUME ChatAssumption ==
    /\ IsFiniteSet(Sends) /\ Sends # {}
    /\ Sends \cap Old = {} /\ None \notin Sends \cup Old

Turns == Sends \cup Old
Conversations == Sends \cup Old

VARIABLES
    pc,              \* of each send: the await it stands at
    active,          \* its activeConversationId, from the conversationId of its render
    loaded,          \* turns in the list that were loaded
    bubble,          \* the assistant bubble of a send, if it is in the list
    isStreaming, conversationId, abortRef,
    load,            \* the conversation a loadConversation call awaits, or None
    usageFetch,      \* the refetch of ["billing","usage"]
    usage,           \* the count it shows
    srv,             \* what the server does with a request
    chan,            \* what it has sent and the page has not read
    home,            \* the conversation_id of its request, or the one created for it
    saved,           \* chat_history
    counted,         \* sends counted in copilot_calls
    overlap          \* history: the user acted while a send or a load was awaited

callVars == <<pc, active>>
pageVars == <<loaded, bubble, isStreaming, conversationId, abortRef>>
usageVars == <<usageFetch, usage>>
serverVars == <<srv, chan, home, saved, counted>>
vars == <<callVars, pageVars, load, usageVars, serverVars, overlap>>

Event == {"ok", "reject", "conversation_id", "text", "error", "done"}

TypeOK ==
    /\ pc \in [Sends -> {"idle", "auth", "sent", "reading", "end"}]
    /\ active \in [Sends -> Conversations \cup {None}]
    /\ loaded \in SUBSET Turns
    /\ bubble \in [Sends -> {"none", "waiting", "partial", "answered", "error"}]
    /\ isStreaming \in BOOLEAN
    /\ conversationId \in Conversations \cup {None}
    /\ abortRef \in Sends \cup {None}
    /\ load \in [Loads -> Conversations \cup {None}]
    /\ usageFetch \in {"none", "asked", "failed"}
    /\ usage \in Nat
    /\ srv \in [Sends -> {"idle", "received", "answering", "closed"}]
    /\ chan \in [Sends -> Seq(Event)]
    /\ home \in [Sends -> Conversations \cup {None}]
    /\ saved \in [Conversations -> SUBSET Turns]
    /\ counted \in SUBSET Sends
    /\ overlap \in BOOLEAN

Init ==
    /\ pc = [s \in Sends |-> "idle"]
    /\ active = [s \in Sends |-> None]
    /\ loaded = {} /\ bubble = [s \in Sends |-> "none"]
    /\ isStreaming = FALSE /\ conversationId = None /\ abortRef = None
    /\ load = [l \in Loads |-> None]
    /\ usageFetch = "none" /\ usage = 0
    /\ srv = [s \in Sends |-> "idle"] /\ chan = [s \in Sends |-> <<>>]
    /\ home = [s \in Sends |-> None]
    /\ saved = [c \in Conversations |-> IF c \in Old THEN {c} ELSE {}]
    /\ counted = {} /\ overlap = FALSE

AtServer(s) == pc[s] \in {"sent", "reading"}
InFlight(s) == pc[s] = "auth" \/ AtServer(s)
Loading == \E l \in Loads : load[l] # None
Quiet == ~Loading /\ \A s \in Sends : ~InFlight(s)

-------------------------------------------------------------------------------
(* sendMessage *)

\* handleSend, up to the await of the session.  The page locks its input only
\* after that await, so a second question can come in before.
Send(s) ==
    /\ pc[s] = "idle" /\ ~isStreaming
    /\ pc' = [pc EXCEPT ![s] = "auth"]
    /\ active' = [active EXCEPT ![s] = conversationId]
    /\ overlap' = (overlap \/ Loading \/ \E r \in Sends : InFlight(r))
    /\ UNCHANGED <<pageVars, load, usageVars, serverVars>>

\* There is no session: the question is dropped.
NoSession(s) ==
    /\ pc[s] = "auth"
    /\ pc' = [pc EXCEPT ![s] = "end"]
    /\ active' = [active EXCEPT ![s] = None]
    /\ UNCHANGED <<pageVars, load, usageVars, serverVars, overlap>>

PostWithoutController(s) ==
    /\ pc[s] = "auth"
    /\ pc' = [pc EXCEPT ![s] = "sent"]
    /\ bubble' = [bubble EXCEPT ![s] = "waiting"]
    /\ isStreaming' = TRUE
    /\ srv' = [srv EXCEPT ![s] = "received"]
    /\ home' = [home EXCEPT ![s] = active[s]]
    /\ UNCHANGED <<active, loaded, conversationId, abortRef, load, usageVars, chan, saved,
                   counted, overlap>>

Post(s) ==
    /\ pc[s] = "auth"
    /\ pc' = [pc EXCEPT ![s] = "sent"]
    /\ bubble' = [bubble EXCEPT ![s] = "waiting"]
    /\ isStreaming' = TRUE
    /\ abortRef' = s
    /\ srv' = [srv EXCEPT ![s] = "received"]
    /\ home' = [home EXCEPT ![s] = active[s]]
    /\ UNCHANGED <<active, loaded, conversationId, load, usageVars, chan, saved,
                   counted, overlap>>

\* invalidateQueries cancels a refetch under way and starts another.
InvalidateUsage == usageFetch' = "asked" /\ UNCHANGED usage

\* setMessages(prev => prev.map(...)): a bubble that left the list stays out of it.
SetBubble(s, b) ==
    bubble' = [bubble EXCEPT ![s] = IF @ = "none" THEN "none" ELSE b]

\* The next thing the server sent.
Receive(s, e) ==
    /\ AtServer(s)
    /\ chan[s] # <<>> /\ Head(chan[s]) = e
    /\ chan' = [chan EXCEPT ![s] = Tail(@)]
    /\ UNCHANGED <<srv, home, saved, counted>>

ResponseOk(s) ==
    /\ Receive(s, "ok")
    /\ pc' = [pc EXCEPT ![s] = "reading"]
    /\ InvalidateUsage
    /\ UNCHANGED <<active, pageVars, load, overlap>>

ConversationEvent(s) ==
    /\ Receive(s, "conversation_id")
    /\ active' = [active EXCEPT ![s] = home[s]]
    /\ conversationId' = home[s]
    /\ UNCHANGED <<pc, loaded, bubble, isStreaming, abortRef, load,
                   usageVars, overlap>>

TextEvent(s) ==
    /\ Receive(s, "text")
    /\ SetBubble(s, IF bubble[s] = "waiting" THEN "partial" ELSE bubble[s])
    /\ UNCHANGED <<callVars, loaded, isStreaming, conversationId, abortRef, load,
                   usageVars, overlap>>

ErrorEvent(s) ==
    /\ Receive(s, "error")
    /\ SetBubble(s, "error")
    /\ UNCHANGED <<callVars, loaded, isStreaming, conversationId, abortRef, load,
                   usageVars, overlap>>

FinallyStreaming(s) ==
    /\ pc' = [pc EXCEPT ![s] = "end"]
    /\ active' = [active EXCEPT ![s] = None]
    /\ abortRef' = None
    /\ isStreaming' = (isStreaming /\ pc[s] = "sent")
    /\ IF pc[s] = "reading" THEN InvalidateUsage ELSE UNCHANGED usageVars

FinallyNoRefetch(s) ==
    /\ pc' = [pc EXCEPT ![s] = "end"]
    /\ active' = [active EXCEPT ![s] = None]
    /\ abortRef' = None
    /\ isStreaming' = FALSE
    /\ UNCHANGED usageVars

\* The finally block; the variables of the call go with it.
Finally(s) ==
    /\ pc' = [pc EXCEPT ![s] = "end"]
    /\ active' = [active EXCEPT ![s] = None]
    /\ abortRef' = None
    /\ isStreaming' = FALSE
    /\ IF pc[s] = "reading" THEN InvalidateUsage ELSE UNCHANGED usageVars

StreamEnd(s) ==
    /\ Receive(s, "done")
    /\ SetBubble(s, IF bubble[s] = "partial" THEN "answered" ELSE "error")
    /\ conversationId' = IF active[s] # None THEN active[s] ELSE conversationId
    /\ Finally(s)
    /\ UNCHANGED <<loaded, load, overlap>>

\* The catch block.  What the server has sent and nobody reads any more is lost.
Caught(s) ==
    /\ AtServer(s)
    /\ Finally(s)
    /\ chan' = [chan EXCEPT ![s] = <<>>]
    /\ UNCHANGED <<load, srv, home, saved, counted, overlap>>

Failed(s) == Caught(s) /\ SetBubble(s, "error") /\ UNCHANGED <<loaded, conversationId>>

Rejected(s) == chan[s] # <<>> /\ Head(chan[s]) = "reject" /\ Failed(s)
ConnectionLost(s) == Failed(s)

TimeoutForHeaders(s) == pc[s] = "sent" /\ Failed(s)

\* The timer of STREAM_TIMEOUT_MS, armed until the finally block, aborts the request:
\* the await is rejected at once and its catch block runs before any other task.
Timeout(s) == Failed(s)

-------------------------------------------------------------------------------
(* The other handlers of the page *)

\* The button is there while isStreaming.
CancelStream == isStreaming /\ abortRef # None /\ Failed(abortRef)

StartNewKeepingList ==
    /\ UNCHANGED <<loaded, bubble>>
    /\ conversationId' = None
    /\ IF abortRef # None
       THEN Caught(abortRef)
       ELSE UNCHANGED <<callVars, isStreaming, abortRef, load, usageVars, serverVars, overlap>>

\* It aborts the current request, then empties the page; the catch block finds no bubble.
StartNewConversation ==
    /\ loaded' = {} /\ bubble' = [s \in Sends |-> "none"]
    /\ conversationId' = None
    /\ IF abortRef # None
       THEN Caught(abortRef)
       ELSE UNCHANGED <<callVars, isStreaming, abortRef, load, usageVars, serverVars, overlap>>

\* A click on a past conversation; nothing locks the list while an answer streams.
SelectConversation(l, c) ==
    /\ load[l] = None
    /\ c \in (Old \cup {home[s] : s \in Sends}) \ {None}
    /\ load' = [load EXCEPT ![l] = c]
    /\ overlap' = (overlap \/ \E s \in Sends : InFlight(s))
    /\ UNCHANGED <<callVars, pageVars, usageVars, serverVars>>

\* get_conversation_messages answers and the page shows what it said.
ShowConversation(l) ==
    /\ load[l] # None
    /\ loaded' = saved[load[l]] /\ bubble' = [s \in Sends |-> "none"]
    /\ conversationId' = load[l]
    /\ load' = [load EXCEPT ![l] = None]
    /\ UNCHANGED <<callVars, isStreaming, abortRef, usageVars, serverVars, overlap>>

\* No session, an error status or no answer.
LoadFails(l) ==
    /\ load[l] # None
    /\ load' = [load EXCEPT ![l] = None]
    /\ UNCHANGED <<callVars, pageVars, usageVars, serverVars, overlap>>

ShowRemaining ==
    /\ usageFetch = "asked"
    /\ usageFetch' = "none" /\ usage' = -Cardinality(counted)
    /\ UNCHANGED <<callVars, pageVars, load, serverVars, overlap>>

\* The answer of a refetch that nobody invalidated since it was asked.
ShowUsage ==
    /\ usageFetch = "asked"
    /\ usageFetch' = "none" /\ usage' = Cardinality(counted)
    /\ UNCHANGED <<callVars, pageVars, load, serverVars, overlap>>

UsageFails ==
    /\ usageFetch = "asked"
    /\ usageFetch' = "failed"
    /\ UNCHANGED <<callVars, pageVars, load, usage, serverVars, overlap>>

-------------------------------------------------------------------------------
(* POST /copilot/chat with stream: true *)

ServerStep(s, from, to, events) ==
    /\ srv[s] = from
    /\ srv' = [srv EXCEPT ![s] = to]
    /\ chan' = IF AtServer(s) THEN [chan EXCEPT ![s] = @ \o events] ELSE chan
    /\ UNCHANGED <<callVars, pageVars, load, usageVars, overlap>>

\* The quota, the rate limit, the plan or an error before the stream.
Refuse(s) ==
    /\ ServerStep(s, "received", "closed", <<"reject">>)
    /\ UNCHANGED <<home, saved, counted>>

\* The stream opens; _create_conversation may fail, and then there is none.
Accept(s) ==
    /\ \E created \in BOOLEAN :
         LET new == home[s] = None /\ created IN
         /\ ServerStep(s, "received", "answering",
                       IF new THEN <<"ok", "conversation_id">> ELSE <<"ok">>)
         /\ home' = IF new THEN [home EXCEPT ![s] = s] ELSE home
    /\ UNCHANGED <<saved, counted>>

\* The answer is complete: it is counted, then saved if there is a conversation
\* and the answer is not empty.  Either call may raise and is then only logged.
Finish(s) ==
    /\ \E text \in {<<>>, <<"text">>} :
         /\ ServerStep(s, "answering", "closed", text \o <<"done">>)
         /\ \/ home[s] # None /\ text # <<>> /\ saved' = [saved EXCEPT ![home[s]] = @ \cup {s}]
            \/ saved' = saved
    /\ counted' \in {counted, counted \cup {s}}
    /\ UNCHANGED home

ModelFails(s) ==
    /\ \E text \in {<<>>, <<"text">>} :
         ServerStep(s, "answering", "closed", text \o <<"error", "done">>)
    /\ UNCHANGED <<home, saved, counted>>

-------------------------------------------------------------------------------

PageSend(s) ==
    \/ NoSession(s) \/ Post(s) \/ ResponseOk(s) \/ ConversationEvent(s) \/ TextEvent(s)
    \/ ErrorEvent(s) \/ StreamEnd(s) \/ Rejected(s) \/ ConnectionLost(s) \/ Timeout(s)

Server(s) ==
    Refuse(s) \/ Accept(s) \/ Finish(s) \/ ModelFails(s)

PageLoad(l) == ShowConversation(l) \/ LoadFails(l)

User ==
    \/ \E s \in Sends : Send(s)
    \/ CancelStream \/ StartNewConversation
    \/ \E l \in Loads, c \in Conversations : SelectConversation(l, c)

UsageQuery == ShowUsage \/ UsageFails

Next ==
    \/ User \/ UsageQuery
    \/ \E s \in Sends : PageSend(s) \/ Server(s)
    \/ \E l \in Loads : PageLoad(l)

\* The session's answer comes or fails, timers fire and a rejected promise is
\* handled.  Nothing is asked of the server or the network.
Fairness ==
    \A s \in Sends : WF_vars(NoSession(s) \/ Post(s) \/ Timeout(s))

Spec == Init /\ [][Next]_vars
FairSpec == Spec /\ Fairness

-------------------------------------------------------------------------------
(* Properties *)

\* The conversation a turn belongs to on the server; None if none could be created.
ConversationOf(t) == IF t \in Old THEN t ELSE home[t]

\* The user asked one thing at a time, and all is answered: the turns on the screen that
\* the server knows are those of the conversation the next question will go to, none of
\* an earlier chat is left, and the page's own bubbles are answers or errors.
Coherent ==
    ~overlap /\ Quiet =>
        /\ \A t \in loaded \cup {s \in Sends : bubble[s] = "answered"} :
             ConversationOf(t) \in {conversationId, None}
        /\ \A s \in Sends : bubble[s] \in {"none", "answered", "error"}

\* The input is locked exactly while a question is at the server, and the cancel button
\* reaches that very question (useCopilot clears the flag and the controller of whichever
\* call ends last).
CancelReachesAnswer ==
    ~overlap => /\ isStreaming <=> \E s \in Sends : AtServer(s)
                /\ \A s \in Sends : AtServer(s) => abortRef = s

\* Whatever the user clicks and however calls overlap, the input is never left locked
\* with no question at the server that will unlock it.
NeverLockedForGood == isStreaming => \E s \in Sends : AtServer(s)

\* After the last question is settled and the usage query with it, the quota shown has
\* every question whose answer is on the screen, and nothing that was not counted.
UsageShown ==
    /\ Quiet /\ usageFetch = "none" =>
         usage >= Cardinality({s \in counted : bubble[s] = "answered"})
    /\ usage <= Cardinality(counted)

\* A question that was asked is settled in the end, whatever the server does: the timer
\* of sendMessage fires.
EveryQuestionSettles == \A s \in Sends : InFlight(s) ~> pc[s] = "end"

===============================================================================
