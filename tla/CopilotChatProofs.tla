--------------------------- MODULE CopilotChatProofs ---------------------------
(***************************************************************************)
(* What the chat page guarantees for any number of questions, conversations  *)
(* and loads.  Five invariants are behind it: what the server has sent and    *)
(* the page has not read (ChannelInv), where turns are (BubbleInv, SavedInv), *)
(* what holds while the user does one thing at a time (CalmInv), and the      *)
(* quota shown against the count behind it (UsageInv).                        *)
(***************************************************************************)
EXTENDS CopilotChat, FiniteSetTheorems, SequenceTheorems, TLAPS

\* The page empties its list, and the next question starts a conversation.
Emptied ==
    loaded' = {} /\ bubble' = [s \in Sends |-> "none"] /\ conversationId' = None

\* Every step, with the ways in which a request ends early taken together.
LEMMA Steps ==
  ASSUME TypeOK, [Next]_vars
  PROVE  \/ \E s \in Sends :
              \/ Send(s) \/ NoSession(s) \/ Post(s) \/ ResponseOk(s) \/ ConversationEvent(s)
              \/ TextEvent(s) \/ ErrorEvent(s) \/ StreamEnd(s) \/ Failed(s)
              \/ Caught(s) /\ Emptied
              \/ Refuse(s) \/ Accept(s) \/ Finish(s) \/ ModelFails(s)
         \/ Emptied /\ UNCHANGED <<callVars, isStreaming, abortRef, load, usageVars, serverVars, overlap>>
         \/ \E l \in Loads : \/ ShowConversation(l) \/ LoadFails(l)
                             \/ \E c \in Conversations : SelectConversation(l, c)
         \/ ShowUsage \/ UsageFails \/ UNCHANGED vars
<1>1. abortRef \in Sends \cup {None}
  BY DEF TypeOK
<1>2. ASSUME StartNewConversation
      PROVE  \/ \E s \in Sends : Caught(s) /\ Emptied
             \/ Emptied /\ UNCHANGED <<callVars, isStreaming, abortRef, load, usageVars, serverVars, overlap>>
  BY <1>1, <1>2 DEF StartNewConversation, Emptied
<1>3. ASSUME CancelStream PROVE \E s \in Sends : Failed(s)
  BY <1>1, <1>3 DEF CancelStream
<1> QED
  BY <1>2, <1>3 DEF Next, User, UsageQuery, PageSend, PageLoad, Server, Rejected, ConnectionLost, Timeout

-------------------------------------------------------------------------------

\* Events in a channel keep to the type, whether the page reads one or the server sends some.
LEMMA ReceiveType ==
  ASSUME TypeOK, NEW s \in Sends, NEW e, Receive(s, e)
  PROVE  /\ chan' \in [Sends -> Seq(Event)] /\ chan[s] \in Seq(Event) /\ chan[s] # <<>>
         /\ AtServer(s) /\ Head(chan[s]) = e /\ chan'[s] = Tail(chan[s])
         /\ \A r \in Sends \ {s} : chan'[r] = chan[r]
<1>1. chan \in [Sends -> Seq(Event)] /\ chan[s] \in Seq(Event) /\ chan[s] # <<>>
  BY DEF TypeOK, Receive
<1>2. Tail(chan[s]) \in Seq(Event)
  BY <1>1, HeadTailProperties
<1> QED
  BY <1>1, <1>2 DEF Receive

LEMMA ServerType ==
  ASSUME TypeOK, NEW s \in Sends, NEW from, NEW to \in {"answering", "closed"},
         NEW events \in Seq(Event), ServerStep(s, from, to, events)
  PROVE  /\ chan' \in [Sends -> Seq(Event)] /\ chan[s] \in Seq(Event)
         /\ srv' \in [Sends -> {"idle", "received", "answering", "closed"}]
         /\ srv[s] = from /\ srv'[s] = to /\ \A r \in Sends \ {s} : srv'[r] = srv[r]
         /\ AtServer(s) => chan'[s] = chan[s] \o events
         /\ ~AtServer(s) => chan'[s] = chan[s]
         /\ \A r \in Sends \ {s} : chan'[r] = chan[r]
<1>1. chan \in [Sends -> Seq(Event)] /\ chan[s] \in Seq(Event)
      /\ srv \in [Sends -> {"idle", "received", "answering", "closed"}]
  BY DEF TypeOK
<1>2. chan[s] \o events \in Seq(Event)
  BY <1>1, ConcatProperties
<1> QED
  BY <1>1, <1>2 DEF ServerStep

\* Events put behind others.
LEMMA Joined ==
  \A first, last \in Seq(Event) :
     /\ first \o last \in Seq(Event) /\ Len(first \o last) = Len(first) + Len(last)
     /\ \A i \in 1..Len(first) + Len(last) :
          (first \o last)[i] = IF i <= Len(first) THEN first[i] ELSE last[i - Len(first)]
  BY ConcatProperties, Zenon

\* What the server sends, and where it says that it is done.
Ending(events) == \A n \in 1..Len(events) : events[n] = "done" => n = Len(events)

LEMMA EventsType ==
  /\ <<"reject">> \in Seq(Event) /\ <<"ok">> \in Seq(Event)
  /\ <<"ok", "conversation_id">> \in Seq(Event)
  /\ \A text \in {<<>>, <<"text">>} :
       \A last \in {<<"done">>, <<"error", "done">>} :
         text \o last \in Seq(Event) /\ text \o last # <<>> /\ Ending(text \o last)
<1>1. <<"reject">> \in Seq(Event) /\ <<"ok">> \in Seq(Event) /\ <<"ok", "conversation_id">> \in Seq(Event)
      /\ <<"done">> \in Seq(Event) /\ <<"error", "done">> \in Seq(Event)
  BY DEF Event
<1>2. ASSUME NEW text \in {<<>>, <<"text">>}
      PROVE  text \in Seq(Event) /\ \A n \in 1..Len(text) : text[n] # "done"
  <2>1. CASE text = <<>>
    BY <2>1
  <2>2. CASE text = <<"text">>
    BY <2>2 DEF Event
  <2> QED
    BY <1>2, <2>1, <2>2
<1>3. ASSUME NEW text \in {<<>>, <<"text">>}, NEW last \in {<<"done">>, <<"error", "done">>}
      PROVE  text \o last \in Seq(Event) /\ text \o last # <<>> /\ Ending(text \o last)
  <2>1. last \in Seq(Event) /\ Len(last) > 0 /\ Ending(last)
    <3>1. CASE last = <<"done">>
      BY <1>1, <3>1 DEF Ending
    <3>2. CASE last = <<"error", "done">>
      BY <1>1, <3>2 DEF Ending
    <3> QED
      BY <1>3, <3>1, <3>2
  <2>2. /\ text \o last \in Seq(Event) /\ Len(text \o last) = Len(text) + Len(last)
        /\ \A i \in 1..Len(text) + Len(last) :
             (text \o last)[i] = IF i <= Len(text) THEN text[i] ELSE last[i - Len(text)]
    <3>1. text \in Seq(Event) /\ last \in Seq(Event)
      BY <1>2, <2>1
    <3> QED
      BY <3>1, Joined
  <2>3. Len(text) \in Nat /\ Len(last) \in Nat
    BY <1>2, <2>1, LenProperties
  <2>4. ASSUME NEW n \in 1..Len(text \o last), (text \o last)[n] = "done"
        PROVE  n = Len(text \o last)
    <3>1. n \in 1..Len(text) + Len(last) /\ n \in Nat
      BY <2>2, <2>3
    <3>2. ~(n <= Len(text))
      BY <1>2, <2>2, <2>3, <2>4, <3>1
    <3>3. n - Len(text) \in 1..Len(last) /\ last[n - Len(text)] = "done"
      BY <2>2, <2>3, <2>4, <3>1, <3>2
    <3>4. n - Len(text) = Len(last)
      BY <2>1, <3>3 DEF Ending
    <3> QED
      BY <2>2, <2>3, <3>1, <3>4
  <2>5. text \o last # <<>>
    BY <2>1, <2>2, <2>3
  <2> QED
    BY <2>2, <2>4, <2>5 DEF Ending
<1> QED
  BY <1>1, <1>3

LEMMA FinallyType ==
  ASSUME TypeOK, NEW s \in Sends, Finally(s)
  PROVE  /\ pc' \in [Sends -> {"idle", "auth", "sent", "reading", "end"}]
         /\ active' \in [Sends -> Conversations \cup {None}]
         /\ abortRef' \in Sends \cup {None} /\ isStreaming' \in BOOLEAN
         /\ usageFetch' \in {"none", "asked", "failed"} /\ usage' \in Nat
BY DEF TypeOK, Finally, InvalidateUsage, usageVars

LEMMA BubbleType ==
  ASSUME TypeOK, NEW s \in Sends, NEW b \in {"waiting", "partial", "answered", "error"}, SetBubble(s, b)
  PROVE  bubble' \in [Sends -> {"none", "waiting", "partial", "answered", "error"}]
BY DEF TypeOK, SetBubble

-------------------------------------------------------------------------------

\* Types over one step.
LEMMA TypeStep == TypeOK /\ [Next]_vars => TypeOK'
<1> SUFFICES ASSUME TypeOK, [Next]_vars PROVE TypeOK'
  OBVIOUS
<1>1. /\ pc \in [Sends -> {"idle", "auth", "sent", "reading", "end"}]
      /\ active \in [Sends -> Conversations \cup {None}]
      /\ loaded \in SUBSET Turns
      /\ bubble \in [Sends -> {"none", "waiting", "partial", "answered", "error"}]
      /\ isStreaming \in BOOLEAN
      /\ conversationId \in Conversations \cup {None}
      /\ abortRef \in Sends \cup {None}
      /\ load \in [Loads -> Conversations \cup {None}]
      /\ usageFetch \in {"none", "asked", "failed"}
      /\ usage \in Nat
      /\ srv \in [Sends -> {"idle", "received", "answering", "closed"}]
      /\ chan \in [Sends -> Seq(Event)]
      /\ home \in [Sends -> Conversations \cup {None}]
      /\ saved \in [Conversations -> SUBSET Turns]
      /\ counted \in SUBSET Sends
      /\ overlap \in BOOLEAN
  BY DEF TypeOK
<1>2. IsFiniteSet(counted) /\ Cardinality(counted) \in Nat
  BY <1>1, ChatAssumption, FS_Subset, FS_CardinalityType DEF ChatAssumption
<1>3. Sends \subseteq Conversations /\ Sends \subseteq Turns
  BY DEF Conversations, Turns
<1>4. Emptied => loaded' \in SUBSET Turns /\ conversationId' \in Conversations \cup {None}
                 /\ bubble' \in [Sends -> {"none", "waiting", "partial", "answered", "error"}]
  BY DEF Emptied
<1>5. ASSUME NEW s \in Sends, Caught(s)
      PROVE  /\ pc' \in [Sends -> {"idle", "auth", "sent", "reading", "end"}]
             /\ active' \in [Sends -> Conversations \cup {None}]
             /\ abortRef' \in Sends \cup {None} /\ isStreaming' \in BOOLEAN
             /\ usageFetch' \in {"none", "asked", "failed"} /\ usage' \in Nat
             /\ chan' \in [Sends -> Seq(Event)]
             /\ UNCHANGED <<load, srv, home, saved, counted, overlap>>
  <2>1. chan' \in [Sends -> Seq(Event)]
    BY <1>1, <1>5, EmptySeq DEF Caught
  <2> QED
    BY <1>5, <2>1, FinallyType DEF Caught
<1>6. ASSUME NEW s \in Sends, Failed(s) PROVE TypeOK'
  <2>1. bubble' \in [Sends -> {"none", "waiting", "partial", "answered", "error"}]
    BY <1>6, BubbleType DEF Failed
  <2> QED
    BY <1>1, <1>5, <1>6, <2>1 DEF Failed, TypeOK
<1>7. ASSUME NEW s \in Sends, Caught(s), Emptied PROVE TypeOK'
  BY <1>1, <1>4, <1>5, <1>7 DEF TypeOK
<1>8. ASSUME Emptied, UNCHANGED <<callVars, isStreaming, abortRef, load, usageVars, serverVars, overlap>>
      PROVE  TypeOK'
  BY <1>1, <1>4, <1>8 DEF TypeOK, callVars, usageVars, serverVars
<1>9. ASSUME NEW s \in Sends, Send(s) PROVE TypeOK'
  <2>1. overlap' \in BOOLEAN
    BY <1>9 DEF Send
  <2>2. pc' \in [Sends -> {"idle", "auth", "sent", "reading", "end"}]
        /\ active' \in [Sends -> Conversations \cup {None}]
    BY <1>1, <1>9 DEF Send
  <2> QED
    BY <1>1, <1>9, <2>1, <2>2 DEF Send, TypeOK, pageVars, usageVars, serverVars
<1>10. ASSUME NEW s \in Sends, NoSession(s) PROVE TypeOK'
  BY <1>1, <1>10 DEF NoSession, TypeOK, pageVars, usageVars, serverVars
<1>11. ASSUME NEW s \in Sends, Post(s) PROVE TypeOK'
  BY <1>1, <1>11 DEF Post, TypeOK, usageVars
<1>12. ASSUME NEW s \in Sends, ResponseOk(s) PROVE TypeOK'
  <2>1. chan' \in [Sends -> Seq(Event)]
    BY <1>12, ReceiveType DEF ResponseOk
  <2> QED
    BY <1>1, <1>12, <2>1 DEF ResponseOk, Receive, InvalidateUsage, TypeOK, pageVars
<1>13. ASSUME NEW s \in Sends, ConversationEvent(s) PROVE TypeOK'
  <2>1. chan' \in [Sends -> Seq(Event)]
    BY <1>13, ReceiveType DEF ConversationEvent
  <2> QED
    BY <1>1, <1>13, <2>1 DEF ConversationEvent, Receive, TypeOK, usageVars
<1>14. ASSUME NEW s \in Sends, TextEvent(s) \/ ErrorEvent(s) PROVE TypeOK'
  <2>1. chan' \in [Sends -> Seq(Event)]
    BY <1>14, ReceiveType DEF TextEvent, ErrorEvent
  <2>2. bubble' \in [Sends -> {"none", "waiting", "partial", "answered", "error"}]
    BY <1>1, <1>14 DEF TextEvent, ErrorEvent, SetBubble
  <2> QED
    BY <1>1, <1>14, <2>1, <2>2 DEF TextEvent, ErrorEvent, Receive, TypeOK, callVars, usageVars
<1>15. ASSUME NEW s \in Sends, StreamEnd(s) PROVE TypeOK'
  <2>1. chan' \in [Sends -> Seq(Event)]
    BY <1>15, ReceiveType DEF StreamEnd
  <2>2. bubble' \in [Sends -> {"none", "waiting", "partial", "answered", "error"}]
    BY <1>15, BubbleType DEF StreamEnd
  <2>3. conversationId' \in Conversations \cup {None}
    BY <1>1, <1>15 DEF StreamEnd
  <2> QED
    BY <1>1, <1>15, <2>1, <2>2, <2>3, FinallyType DEF StreamEnd, Receive, TypeOK
<1>16. ASSUME NEW s \in Sends, Refuse(s) PROVE TypeOK'
  BY <1>1, <1>16, ServerType, EventsType
     DEF Refuse, ServerStep, TypeOK, callVars, pageVars, usageVars
<1>17. ASSUME NEW s \in Sends, Accept(s) PROVE TypeOK'
  <2>1. /\ chan' \in [Sends -> Seq(Event)]
        /\ srv' \in [Sends -> {"idle", "received", "answering", "closed"}]
        /\ UNCHANGED <<callVars, pageVars, load, usageVars, overlap>>
    BY <1>17, ServerType, EventsType DEF Accept, ServerStep
  <2>2. home' \in [Sends -> Conversations \cup {None}]
    BY <1>1, <1>3, <1>17 DEF Accept
  <2> QED
    BY <1>1, <1>17, <2>1, <2>2 DEF Accept, TypeOK, callVars, pageVars, usageVars
<1>18. ASSUME NEW s \in Sends, Finish(s) PROVE TypeOK'
  <2>1. /\ chan' \in [Sends -> Seq(Event)]
        /\ srv' \in [Sends -> {"idle", "received", "answering", "closed"}]
        /\ UNCHANGED <<callVars, pageVars, load, usageVars, overlap>>
    BY <1>18, ServerType, EventsType DEF Finish, ServerStep
  <2>2. saved' \in [Conversations -> SUBSET Turns]
    <3>1. CASE home[s] # None /\ saved' = [saved EXCEPT ![home[s]] = @ \cup {s}]
      <4>1. home[s] \in Conversations /\ saved[home[s]] \cup {s} \in SUBSET Turns
        BY <1>1, <1>3, <3>1
      <4> QED
        BY <1>1, <3>1, <4>1
    <3>2. CASE saved' = saved
      BY <1>1, <3>2
    <3> QED
      BY <1>18, <3>1, <3>2 DEF Finish
  <2>3. counted' \in SUBSET Sends
    BY <1>1, <1>18 DEF Finish
  <2> QED
    BY <1>1, <1>18, <2>1, <2>2, <2>3 DEF Finish, TypeOK, callVars, pageVars, usageVars
<1>19. ASSUME NEW s \in Sends, ModelFails(s) PROVE TypeOK'
  <2>1. /\ chan' \in [Sends -> Seq(Event)]
        /\ srv' \in [Sends -> {"idle", "received", "answering", "closed"}]
        /\ UNCHANGED <<callVars, pageVars, load, usageVars, overlap>>
    BY <1>19, ServerType, EventsType DEF ModelFails, ServerStep
  <2> QED
    BY <1>1, <1>19, <2>1 DEF ModelFails, TypeOK, callVars, pageVars, usageVars
<1>20. ASSUME NEW l \in Loads, NEW c \in Conversations, SelectConversation(l, c) PROVE TypeOK'
  <2>1. overlap' \in BOOLEAN /\ load' \in [Loads -> Conversations \cup {None}]
    BY <1>1, <1>20 DEF SelectConversation
  <2> QED
    BY <1>1, <1>20, <2>1 DEF SelectConversation, TypeOK, callVars, pageVars, usageVars, serverVars
<1>21. ASSUME NEW l \in Loads, ShowConversation(l) \/ LoadFails(l) PROVE TypeOK'
  <2>1. load' \in [Loads -> Conversations \cup {None}]
    BY <1>1, <1>21 DEF ShowConversation, LoadFails
  <2>2. CASE ShowConversation(l)
    <3>1. load[l] \in Conversations
      BY <1>1, <2>2 DEF ShowConversation
    <3>2. saved[load[l]] \in SUBSET Turns
      BY <1>1, <3>1
    <3> QED
      BY <1>1, <2>1, <2>2, <3>1, <3>2
         DEF ShowConversation, TypeOK, callVars, usageVars, serverVars
  <2>3. CASE LoadFails(l)
    BY <1>1, <2>1, <2>3 DEF LoadFails, TypeOK, callVars, pageVars, usageVars, serverVars
  <2> QED
    BY <1>21, <2>2, <2>3
<1>22. CASE ShowUsage \/ UsageFails
  BY <1>1, <1>2, <1>22 DEF ShowUsage, UsageFails, TypeOK, callVars, pageVars, serverVars
<1>23. CASE UNCHANGED vars
  BY <1>1, <1>23 DEF TypeOK, vars, callVars, pageVars, usageVars, serverVars
<1>24. ASSUME NEW s \in Sends,
              \/ Send(s) \/ NoSession(s) \/ Post(s) \/ ResponseOk(s) \/ ConversationEvent(s)
              \/ TextEvent(s) \/ ErrorEvent(s) \/ StreamEnd(s) \/ Failed(s)
              \/ Caught(s) /\ Emptied
              \/ Refuse(s) \/ Accept(s) \/ Finish(s) \/ ModelFails(s)
       PROVE  TypeOK'
  BY <1>6, <1>7, <1>9, <1>10, <1>11, <1>12, <1>13, <1>14, <1>15, <1>16, <1>17, <1>18, <1>19, <1>24
<1> QED
  BY <1>8, <1>20, <1>21, <1>22, <1>23, <1>24, Steps

\* The variables keep to their types.
THEOREM ChatTypeCorrect == Spec => []TypeOK
<1>1. Init => TypeOK
  <2> SUFFICES ASSUME Init PROVE TypeOK
    OBVIOUS
  <2>1. chan \in [Sends -> Seq(Event)]
    BY EmptySeq DEF Init
  <2>2. saved \in [Conversations -> SUBSET Turns]
    BY DEF Init, Conversations, Turns
  <2> QED
    BY <2>1, <2>2 DEF Init, TypeOK
<1> QED
  BY <1>1, TypeStep, PTL DEF Spec

-------------------------------------------------------------------------------

\* Whatever overlaps, a locked input has a question at the server: whatever takes a question
\* away from there unlocks the input.
THEOREM NeverLockedForGoodHolds == Spec => []NeverLockedForGood
<1>1. Init => NeverLockedForGood
  BY DEF Init, NeverLockedForGood
<1>2. TypeOK /\ NeverLockedForGood /\ [Next]_vars => NeverLockedForGood'
  <2> SUFFICES ASSUME TypeOK, NeverLockedForGood, [Next]_vars, isStreaming'
               PROVE  \E s \in Sends : AtServer(s)'
    BY DEF NeverLockedForGood
  <2>1. pc \in [Sends -> {"idle", "auth", "sent", "reading", "end"}]
    BY DEF TypeOK
  <2> DEFINE Locked == \E s \in Sends : AtServer(s)'
  <2>2. ASSUME isStreaming' = isStreaming, \A s \in Sends : AtServer(s) => AtServer(s)' PROVE Locked
    BY <2>2 DEF NeverLockedForGood
  <2>3. ASSUME NEW s \in Sends, Finally(s) PROVE Locked
    BY <2>3 DEF Finally
  <2>4. ASSUME NEW s \in Sends, Post(s) PROVE Locked
    BY <2>1, <2>4 DEF Post, AtServer
  <2>5. ASSUME NEW s \in Sends, Send(s) \/ NoSession(s) PROVE Locked
    BY <2>1, <2>2, <2>5 DEF Send, NoSession, pageVars, AtServer
  <2>6. ASSUME NEW s \in Sends, ResponseOk(s) PROVE Locked
    BY <2>1, <2>2, <2>6 DEF ResponseOk, pageVars, AtServer
  <2>7. ASSUME UNCHANGED <<pc, isStreaming>> PROVE Locked
    BY <2>2, <2>7 DEF AtServer
  <2>8. ASSUME NEW s \in Sends,
               \/ Send(s) \/ NoSession(s) \/ Post(s) \/ ResponseOk(s) \/ ConversationEvent(s)
               \/ TextEvent(s) \/ ErrorEvent(s) \/ StreamEnd(s) \/ Failed(s)
               \/ Caught(s) /\ Emptied
               \/ Refuse(s) \/ Accept(s) \/ Finish(s) \/ ModelFails(s)
        PROVE  Locked
    <3>1. CASE StreamEnd(s) \/ Failed(s) \/ Caught(s)
      BY <2>3, <3>1 DEF StreamEnd, Failed, Caught
    <3>2. CASE ConversationEvent(s) \/ TextEvent(s) \/ ErrorEvent(s)
      BY <2>7, <3>2 DEF ConversationEvent, TextEvent, ErrorEvent, callVars
    <3>3. CASE Refuse(s) \/ Accept(s) \/ Finish(s) \/ ModelFails(s)
      BY <2>7, <3>3 DEF Refuse, Accept, Finish, ModelFails, ServerStep, callVars, pageVars
    <3> QED
      BY <2>4, <2>5, <2>6, <2>8, <3>1, <3>2, <3>3
  <2>9. ASSUME NEW l \in Loads, \/ ShowConversation(l) \/ LoadFails(l)
                               \/ \E c \in Conversations : SelectConversation(l, c)
        PROVE  Locked
    BY <2>7, <2>9 DEF ShowConversation, LoadFails, SelectConversation, callVars, pageVars
  <2>10. CASE ShowUsage \/ UsageFails \/ UNCHANGED vars
    BY <2>7, <2>10 DEF ShowUsage, UsageFails, vars, callVars, pageVars
  <2>11. CASE UNCHANGED <<callVars, isStreaming, abortRef, load, usageVars, serverVars, overlap>>
    BY <2>7, <2>11 DEF callVars
  <2> QED
    BY <2>8, <2>9, <2>10, <2>11, Steps
<1> QED
  BY <1>1, <1>2, ChatTypeCorrect, PTL DEF Spec
-------------------------------------------------------------------------------


\* What the server has sent of an answer and the page has not read.  The page has seen no
\* "ok" while it is there unread, "done" comes last and once, and a conversation that was
\* created is announced before that.
Channel(s) ==
    /\ pc[s] \in {"idle", "auth"} => srv[s] = "idle" /\ home[s] = None
    /\ srv[s] \in {"idle", "received"} => chan[s] = <<>>
    /\ pc[s] = "sent" /\ chan[s] # <<>> => Head(chan[s]) \in {"ok", "reject"}
    /\ pc[s] = "sent" /\ srv[s] \in {"answering", "closed"} => chan[s] # <<>>
    /\ \A n \in 1..Len(chan[s]) : chan[s][n] = "done" => n = Len(chan[s]) /\ srv[s] = "closed"
    /\ AtServer(s) /\ home[s] # active[s] =>
          active[s] = None /\ \E n \in 1..Len(chan[s]) : chan[s][n] = "conversation_id"

ChannelInv == \A s \in Sends : Channel(s)

\* A bubble that waits has its question at the server, one that is answered has all of its
\* answer.
BubbleInv ==
    \A s \in Sends : /\ bubble[s] \in {"waiting", "partial"} => AtServer(s)
                     /\ bubble[s] = "answered" => srv[s] = "closed"

\* What was saved or loaded belongs to the conversation it was saved to or loaded with.
SavedInv ==
    /\ \A c \in Conversations : \A t \in saved[c] : ConversationOf(t) = c
    /\ \A t \in loaded : ConversationOf(t) # None

\* The turns on the screen that are somewhere on the server.
OnScreen == loaded \cup {s \in Sends : bubble[s] = "answered"}

\* While the user does one thing at a time, one question is under way and no load beside it;
\* the page is in its conversation, or in none, and so is all it shows.
CalmInv ==
    ~overlap =>
        /\ \A r, s \in Sends : InFlight(r) /\ InFlight(s) => r = s
        /\ \A s \in Sends : InFlight(s) => ~Loading /\ conversationId \in {active[s], None}
        /\ \A s \in Sends : AtServer(s) => isStreaming /\ abortRef = s
        /\ \A t \in OnScreen : ConversationOf(t) \in {conversationId, None}

UsageInv ==
    /\ usage <= Cardinality(counted)
    /\ usageFetch = "none" => usage >= Cardinality({s \in counted : bubble[s] = "answered"})

-------------------------------------------------------------------------------

\* What the page leaves unread when it reads one event.
LEMMA TailIs ==
  ASSUME NEW q \in Seq(Event), q # <<>>
  PROVE  /\ Len(q) \in Nat \ {0} /\ Head(q) = q[1] /\ Tail(q) \in Seq(Event)
         /\ Len(Tail(q)) = Len(q) - 1
         /\ \A n \in 1..Len(q) - 1 : Tail(q)[n] = q[n + 1]
BY HeadTailProperties, LenProperties

\* The page reads the channel of a question from its head.
LEMMA ReadChannel ==
  ASSUME TypeOK, NEW s \in Sends, NEW e, Receive(s, e), Channel(s)
  PROVE  /\ pc[s] = "sent" => e \in {"ok", "reject"}
         /\ pc[s] \in {"sent", "reading"} /\ srv[s] \in {"answering", "closed"}
         /\ UNCHANGED <<srv, home>>
         /\ \A n \in 1..Len(chan'[s]) : chan'[s][n] = "done" => n = Len(chan'[s]) /\ srv[s] = "closed"
         /\ e # "conversation_id" /\ home[s] # active[s] =>
               active[s] = None /\ \E n \in 1..Len(chan'[s]) : chan'[s][n] = "conversation_id"
         /\ e = "done" => home[s] = active[s] /\ srv[s] = "closed"
<1>1. /\ chan[s] \in Seq(Event) /\ chan[s] # <<>> /\ AtServer(s) /\ Head(chan[s]) = e
      /\ chan'[s] = Tail(chan[s])
  BY ReceiveType
<1>2. pc[s] \in {"sent", "reading"} /\ srv[s] \in {"idle", "received", "answering", "closed"}
  BY <1>1 DEF AtServer, TypeOK
<1>3. /\ Len(chan[s]) \in Nat \ {0} /\ e = chan[s][1]
      /\ Len(chan'[s]) = Len(chan[s]) - 1
      /\ \A n \in 1..Len(chan[s]) - 1 : chan'[s][n] = chan[s][n + 1]
  BY <1>1, TailIs
<1>4. ASSUME NEW n \in 1..Len(chan'[s]), chan'[s][n] = "done"
      PROVE  n = Len(chan'[s]) /\ srv[s] = "closed"
  <2>1. n + 1 \in 1..Len(chan[s]) /\ chan[s][n + 1] = "done"
    BY <1>3, <1>4
  <2>2. n + 1 = Len(chan[s]) /\ srv[s] = "closed"
    BY <2>1 DEF Channel
  <2> QED
    BY <1>3, <1>4, <2>2
<1>5. ASSUME e # "conversation_id", home[s] # active[s]
      PROVE  active[s] = None /\ \E n \in 1..Len(chan'[s]) : chan'[s][n] = "conversation_id"
  <2>1. PICK n \in 1..Len(chan[s]) : active[s] = None /\ chan[s][n] = "conversation_id"
    BY <1>1, <1>5 DEF Channel
  <2>2. n # 1
    BY <1>3, <1>5, <2>1
  <2>3. n - 1 \in 1..Len(chan'[s]) /\ (n - 1) + 1 = n
    BY <1>3, <2>1, <2>2
  <2>4. chan'[s][n - 1] = chan[s][n]
    BY <1>3, <2>3
  <2> QED
    BY <2>1, <2>3, <2>4
<1>6. ASSUME e = "done" PROVE home[s] = active[s] /\ srv[s] = "closed"
  <2>1. 1 \in 1..Len(chan[s])
    BY <1>3
  <2>2. Len(chan[s]) = 1 /\ srv[s] = "closed"
    BY <1>3, <1>6, <2>1 DEF Channel
  <2>3. Len(chan'[s]) = 0
    BY <1>3, <2>2
  <2>4. 1..0 = {}
    OBVIOUS
  <2> QED
    BY <1>5, <1>6, <2>2, <2>3, <2>4
<1> QED
  BY <1>1, <1>2, <1>4, <1>5, <1>6 DEF Channel, Receive

\* The server appends to the channel of a question that is still at it.
LEMMA SentChannel ==
  ASSUME TypeOK, NEW s \in Sends, NEW from \in {"received", "answering"}, NEW to \in {"answering", "closed"},
         NEW events \in Seq(Event), ServerStep(s, from, to, events), Channel(s),
         events # <<>>, from = "received" => events[1] \in {"ok", "reject"},
         Ending(events), to # "closed" => \A n \in 1..Len(events) : events[n] # "done",
         AtServer(s) /\ home'[s] # active[s] =>
            \/ home[s] # active[s]
            \/ active[s] = None /\ \E n \in 1..Len(events) : events[n] = "conversation_id"
  PROVE  Channel(s)'
<1>1. /\ chan[s] \in Seq(Event) /\ srv[s] = from /\ srv'[s] = to
      /\ AtServer(s) => chan'[s] = chan[s] \o events
      /\ ~AtServer(s) => chan'[s] = chan[s]
      /\ UNCHANGED <<pc, active>>
  BY ServerType DEF ServerStep, callVars
<1>2. pc[s] \notin {"idle", "auth"}
  BY <1>1 DEF Channel
<1>3. \A n \in 1..Len(chan[s]) : chan[s][n] # "done"
  BY <1>1 DEF Channel
<1>4. ASSUME ~AtServer(s) PROVE Channel(s)'
  <2>1. pc[s] \notin {"sent", "reading"} /\ ~AtServer(s)'
    BY <1>1, <1>4 DEF AtServer
  <2> QED
    BY <1>1, <1>2, <1>3, <1>4, <2>1 DEF Channel
<1>5. ASSUME AtServer(s) PROVE Channel(s)'
  <2>1. /\ chan'[s] \in Seq(Event) /\ Len(chan'[s]) = Len(chan[s]) + Len(events)
        /\ \A i \in 1..Len(chan[s]) + Len(events) :
             chan'[s][i] = IF i <= Len(chan[s]) THEN chan[s][i] ELSE events[i - Len(chan[s])]
    <3>1. chan[s] \in Seq(Event) /\ events \in Seq(Event) /\ chan'[s] = chan[s] \o events
      BY <1>1, <1>5
    <3>2. /\ chan[s] \o events \in Seq(Event) /\ Len(chan[s] \o events) = Len(chan[s]) + Len(events)
          /\ \A i \in 1..Len(chan[s]) + Len(events) :
               (chan[s] \o events)[i] = IF i <= Len(chan[s]) THEN chan[s][i] ELSE events[i - Len(chan[s])]
      BY <3>1, Joined, Zenon
    <3> QED
      BY <3>1, <3>2, Zenon
  <2>2. Len(chan[s]) \in Nat /\ Len(events) \in Nat /\ Len(events) > 0
    BY <1>1, LenProperties, EmptySeq
  <2>3. chan'[s] # <<>>
    BY <2>1, <2>2, LenProperties
  <2>4. Head(chan'[s]) = chan'[s][1]
    BY <2>1, <2>3, HeadTailProperties
  <2>5. pc[s] = "sent" => chan'[s][1] \in {"ok", "reject"}
    <3>1. CASE chan[s] = <<>>
      <4>1. Len(chan[s]) = 0
        BY <3>1
      <4>2. chan'[s][1] = events[1]
        BY <2>1, <2>2, <4>1
      <4>3. pc[s] = "sent" => from = "received"
        BY <1>1, <3>1 DEF Channel
      <4> QED
        BY <4>2, <4>3
    <3>2. CASE chan[s] # <<>>
      <4>1. Len(chan[s]) > 0 /\ Head(chan[s]) = chan[s][1]
        BY <1>1, <3>2, TailIs
      <4>2. chan'[s][1] = chan[s][1]
        BY <2>1, <2>2, <4>1
      <4> QED
        BY <3>2, <4>1, <4>2 DEF Channel
    <3> QED
      BY <3>1, <3>2
  <2>6. ASSUME NEW n \in 1..Len(chan'[s]), chan'[s][n] = "done"
        PROVE  n = Len(chan'[s]) /\ srv'[s] = "closed"
    <3>1. ~(n <= Len(chan[s]))
      BY <1>3, <2>1, <2>2, <2>6
    <3>2. n - Len(chan[s]) \in 1..Len(events) /\ events[n - Len(chan[s])] = "done"
      BY <2>1, <2>2, <2>6, <3>1
    <3>3. n - Len(chan[s]) = Len(events) /\ to = "closed"
      BY <3>2 DEF Ending
    <3> QED
      BY <1>1, <2>1, <2>2, <2>6, <3>3
  <2>7. ASSUME home'[s] # active[s]
        PROVE  active[s] = None /\ \E n \in 1..Len(chan'[s]) : chan'[s][n] = "conversation_id"
    <3>1. CASE home[s] # active[s]
      <4>1. PICK n \in 1..Len(chan[s]) : active[s] = None /\ chan[s][n] = "conversation_id"
        BY <1>5, <3>1 DEF Channel
      <4>2. n \in 1..Len(chan'[s]) /\ chan'[s][n] = chan[s][n]
        BY <2>1, <2>2, <4>1
      <4> QED
        BY <4>1, <4>2
    <3>2. CASE active[s] = None /\ \E n \in 1..Len(events) : events[n] = "conversation_id"
      <4>1. PICK n \in 1..Len(events) : events[n] = "conversation_id"
        BY <3>2
      <4>2. /\ Len(chan[s]) + n \in 1..Len(chan'[s]) /\ ~(Len(chan[s]) + n <= Len(chan[s]))
            /\ (Len(chan[s]) + n) - Len(chan[s]) = n
        BY <2>1, <2>2, <4>1
      <4>3. chan'[s][Len(chan[s]) + n] = events[n]
        BY <2>1, <4>2
      <4> QED
        BY <3>2, <4>1, <4>2, <4>3
    <3> QED
      BY <1>5, <2>7, <3>1, <3>2
  <2>8. /\ pc'[s] \notin {"idle", "auth"} /\ srv'[s] \in {"answering", "closed"}
        /\ pc'[s] = "sent" => chan'[s] # <<>> /\ Head(chan'[s]) \in {"ok", "reject"}
    BY <1>1, <1>2, <2>3, <2>4, <2>5
  <2>9. \A n \in 1..Len(chan'[s]) : chan'[s][n] = "done" => n = Len(chan'[s]) /\ srv'[s] = "closed"
    BY <2>6
  <2>10. home'[s] # active'[s] =>
            active'[s] = None /\ \E n \in 1..Len(chan'[s]) : chan'[s][n] = "conversation_id"
    BY <1>1, <2>7
  <2> QED
    BY <2>8, <2>9, <2>10 DEF Channel
<1> QED
  BY <1>4, <1>5
LEMMA SameChannel ==
  ASSUME NEW r \in Sends, Channel(r), pc'[r] = pc[r], active'[r] = active[r],
         srv'[r] = srv[r], chan'[r] = chan[r], home'[r] = home[r]
  PROVE  Channel(r)'
<1>1. AtServer(r)' <=> AtServer(r)
  BY DEF AtServer
<1> QED
  BY <1>1 DEF Channel

\* A request that ends early takes its channel with it.
LEMMA CaughtChannel ==
  ASSUME TypeOK, ChannelInv, NEW s \in Sends, Caught(s)
  PROVE  ChannelInv'
<1>1. /\ pc'[s] = "end" /\ chan'[s] = <<>> /\ UNCHANGED <<srv, home>>
      /\ \A r \in Sends \ {s} : pc'[r] = pc[r] /\ active'[r] = active[r] /\ chan'[r] = chan[r]
  BY DEF TypeOK, Caught, Finally
<1>2. Channel(s)'
  <2>1. ~AtServer(s)'
    BY <1>1 DEF AtServer
  <2>2. \A n \in 1..Len(chan'[s]) : FALSE
    BY <1>1
  <2> QED
    BY <1>1, <2>1, <2>2 DEF Channel
<1>3. ASSUME NEW r \in Sends \ {s} PROVE Channel(r)'
  BY <1>1, <1>3, SameChannel DEF ChannelInv
<1> QED
  BY <1>2, <1>3 DEF ChannelInv

\* The channel after the page has read an event of it.
LEMMA ReceiveChannel ==
  ASSUME TypeOK, ChannelInv, NEW s \in Sends, NEW e, Receive(s, e),
         \/ pc'[s] = "end" \/ pc'[s] = "reading",
         pc'[s] = "reading" => home[s] = active'[s] \/ (e # "conversation_id" /\ active'[s] = active[s]),
         \A r \in Sends \ {s} : pc'[r] = pc[r] /\ active'[r] = active[r]
  PROVE  ChannelInv'
<1>1. Channel(s)
  BY DEF ChannelInv
<1>2. /\ srv[s] \in {"answering", "closed"} /\ UNCHANGED <<srv, home>>
      /\ \A n \in 1..Len(chan'[s]) : chan'[s][n] = "done" => n = Len(chan'[s]) /\ srv[s] = "closed"
      /\ e # "conversation_id" /\ home[s] # active[s] =>
            active[s] = None /\ \E n \in 1..Len(chan'[s]) : chan'[s][n] = "conversation_id"
  BY <1>1, ReadChannel
<1>3. AtServer(s)' => pc'[s] = "reading"
  BY DEF AtServer
<1>4. Channel(s)'
  <2>1. pc'[s] \notin {"idle", "auth", "sent"} /\ srv'[s] \in {"answering", "closed"}
    BY <1>2
  <2>2. \A n \in 1..Len(chan'[s]) : chan'[s][n] = "done" => n = Len(chan'[s]) /\ srv'[s] = "closed"
    BY <1>2
  <2>3. AtServer(s)' /\ home'[s] # active'[s] =>
            active'[s] = None /\ \E n \in 1..Len(chan'[s]) : chan'[s][n] = "conversation_id"
    BY <1>2, <1>3
  <2> QED
    BY <2>1, <2>2, <2>3 DEF Channel
<1>5. ASSUME NEW r \in Sends \ {s} PROVE Channel(r)'
  <2>1. chan'[r] = chan[r] /\ srv'[r] = srv[r] /\ home'[r] = home[r]
    BY <1>2, ReceiveType
  <2> QED
    BY <2>1, SameChannel DEF ChannelInv
<1> QED
  BY <1>4, <1>5 DEF ChannelInv

\* Channels over one step.
LEMMA ChannelStep == TypeOK /\ ChannelInv /\ [Next]_vars => ChannelInv'
<1> SUFFICES ASSUME TypeOK, ChannelInv, [Next]_vars PROVE ChannelInv'
  OBVIOUS
<1>1. /\ pc \in [Sends -> {"idle", "auth", "sent", "reading", "end"}]
      /\ active \in [Sends -> Conversations \cup {None}]
      /\ srv \in [Sends -> {"idle", "received", "answering", "closed"}]
      /\ chan \in [Sends -> Seq(Event)] /\ home \in [Sends -> Conversations \cup {None}]
  BY DEF TypeOK
<1>2. \A s \in Sends : Channel(s)
  BY DEF ChannelInv
<1>3. ASSUME UNCHANGED <<pc, active, srv, chan, home>> PROVE ChannelInv'
  BY <1>2, <1>3, SameChannel DEF ChannelInv
<1>4. ASSUME NEW s \in Sends, Send(s) \/ NoSession(s) \/ Post(s) PROVE ChannelInv'
  <2>1. /\ pc[s] \in {"idle", "auth"} /\ chan[s] = <<>> /\ UNCHANGED chan /\ pc'[s] # "reading"
        /\ \A r \in Sends \ {s} : /\ pc'[r] = pc[r] /\ active'[r] = active[r]
                                  /\ srv'[r] = srv[r] /\ home'[r] = home[r]
    BY <1>1, <1>2, <1>4 DEF Send, NoSession, Post, serverVars, Channel
  <2>2. \A n \in 1..Len(chan'[s]) : FALSE
    BY <2>1
  <2>3. Channel(s)'
    <3>1. CASE Send(s) \/ NoSession(s)
      <4>1. /\ pc'[s] \in {"auth", "end"} /\ UNCHANGED <<srv, home>>
            /\ srv[s] = "idle" /\ home[s] = None
        BY <1>1, <1>2, <3>1 DEF Send, NoSession, serverVars, Channel
      <4>2. ~AtServer(s)'
        BY <4>1 DEF AtServer
      <4> QED
        BY <2>1, <2>2, <4>1, <4>2 DEF Channel
    <3>2. CASE Post(s)
      <4>1. pc'[s] = "sent" /\ srv'[s] = "received" /\ home'[s] = active[s] /\ UNCHANGED active
        BY <1>1, <3>2 DEF Post
      <4> QED
        BY <2>1, <2>2, <4>1 DEF Channel
    <3> QED
      BY <1>4, <3>1, <3>2
  <2>4. ASSUME NEW r \in Sends \ {s} PROVE Channel(r)'
    BY <1>2, <2>1, SameChannel
  <2> QED
    BY <2>3, <2>4 DEF ChannelInv
<1>5. ASSUME NEW s \in Sends, ResponseOk(s) PROVE ChannelInv'
  <2>1. pc'[s] = "reading" /\ UNCHANGED active /\ \A r \in Sends \ {s} : pc'[r] = pc[r]
    BY <1>1, <1>5 DEF ResponseOk
  <2> QED
    BY <1>5, <2>1, ReceiveChannel DEF ResponseOk
<1>6. ASSUME NEW s \in Sends, NEW e \in {"conversation_id", "text", "error"}, Receive(s, e)
      PROVE  pc[s] = "reading"
  BY <1>2, <1>6, ReadChannel
<1>7. ASSUME NEW s \in Sends, ConversationEvent(s) PROVE ChannelInv'
  <2>1. /\ pc'[s] = "reading" /\ active'[s] = home[s]
        /\ \A r \in Sends \ {s} : pc'[r] = pc[r] /\ active'[r] = active[r]
    BY <1>1, <1>6, <1>7 DEF ConversationEvent
  <2> QED
    BY <1>7, <2>1, ReceiveChannel DEF ConversationEvent
<1>8. ASSUME NEW s \in Sends, NEW e \in {"text", "error"}, Receive(s, e), UNCHANGED callVars
      PROVE  ChannelInv'
  <2>1. pc'[s] = "reading" /\ UNCHANGED <<pc, active>>
    BY <1>6, <1>8 DEF callVars
  <2> QED
    BY <1>8, <2>1, ReceiveChannel
<1>9. ASSUME NEW s \in Sends, StreamEnd(s) PROVE ChannelInv'
  <2>1. pc'[s] = "end" /\ \A r \in Sends \ {s} : pc'[r] = pc[r] /\ active'[r] = active[r]
    BY <1>1, <1>9 DEF StreamEnd, Finally
  <2> QED
    BY <1>9, <2>1, ReceiveChannel DEF StreamEnd
<1>10. ASSUME NEW s \in Sends, NEW from, NEW to \in {"answering", "closed"},
              NEW events \in Seq(Event), ServerStep(s, from, to, events),
              \A r \in Sends \ {s} : home'[r] = home[r], Channel(s)'
       PROVE  ChannelInv'
  <2>1. \A r \in Sends \ {s} : /\ pc'[r] = pc[r] /\ active'[r] = active[r]
                               /\ srv'[r] = srv[r] /\ chan'[r] = chan[r]
    BY <1>10, ServerType DEF ServerStep, callVars
  <2>2. ASSUME NEW r \in Sends \ {s} PROVE Channel(r)'
    BY <1>2, <1>10, <2>1, SameChannel
  <2> QED
    BY <1>10, <2>2 DEF ChannelInv
<1>11. ASSUME NEW s \in Sends, Refuse(s) PROVE ChannelInv'
  <2>1. <<"reject">>[1] = "reject" /\ <<"reject">> # <<>> /\ Ending(<<"reject">>)
    BY DEF Ending
  <2>2. ServerStep(s, "received", "closed", <<"reject">>) /\ UNCHANGED home
    BY <1>11 DEF Refuse
  <2>3. Channel(s)'
    BY <1>2, <2>1, <2>2, EventsType, SentChannel
  <2> QED
    BY <1>10, <2>2, <2>3, EventsType
<1>12. ASSUME NEW s \in Sends, Accept(s) PROVE ChannelInv'
  <2>1. CASE /\ home[s] = None /\ home' = [home EXCEPT ![s] = s]
             /\ ServerStep(s, "received", "answering", <<"ok", "conversation_id">>)
    <3> DEFINE events == <<"ok", "conversation_id">>
    <3>1. /\ events[1] = "ok" /\ events # <<>> /\ Len(events) = 2 /\ events[2] = "conversation_id"
          /\ events \in Seq(Event)
      BY EventsType
    <3>2. \A n \in 1..Len(events) : events[n] # "done"
      BY <3>1
    <3>3. \E n \in 1..Len(events) : events[n] = "conversation_id"
      BY <3>1
    <3>4. Ending(events)
      BY <3>2 DEF Ending
    <3>5. home[s] # active[s] \/ active[s] = None
      BY <2>1
    <3>6. ServerStep(s, "received", "answering", events)
      BY <2>1
    <3> HIDE DEF events
    <3>7. Channel(s)'
      BY <1>2, <3>1, <3>2, <3>3, <3>4, <3>5, <3>6, SentChannel
    <3>8. \A r \in Sends \ {s} : home'[r] = home[r]
      BY <1>1, <2>1
    <3> QED
      BY <1>10, <3>1, <3>6, <3>7, <3>8
  <2>2. CASE home' = home /\ ServerStep(s, "received", "answering", <<"ok">>)
    <3>1. <<"ok">>[1] = "ok" /\ <<"ok">> # <<>> /\ \A n \in 1..Len(<<"ok">>) : <<"ok">>[n] # "done"
      OBVIOUS
    <3>2. Ending(<<"ok">>)
      BY <3>1 DEF Ending
    <3>3. Channel(s)'
      BY <1>2, <2>2, <3>1, <3>2, EventsType, SentChannel
    <3> QED
      BY <1>10, <2>2, <3>3, EventsType
  <2> QED
    BY <1>12, <2>1, <2>2 DEF Accept
<1>13. ASSUME NEW s \in Sends, Finish(s) \/ ModelFails(s) PROVE ChannelInv'
  <2>1. UNCHANGED home
    BY <1>13 DEF Finish, ModelFails
  <2>2. PICK text \in {<<>>, <<"text">>}, last \in {<<"done">>, <<"error", "done">>} :
          ServerStep(s, "answering", "closed", text \o last)
    BY <1>13 DEF Finish, ModelFails
  <2>3. text \o last \in Seq(Event) /\ text \o last # <<>> /\ Ending(text \o last)
    BY EventsType
  <2>4. Channel(s)'
    BY <1>2, <2>1, <2>2, <2>3, SentChannel
  <2> QED
    BY <1>10, <2>1, <2>2, <2>3, <2>4
<1>14. ASSUME NEW s \in Sends,
              \/ Send(s) \/ NoSession(s) \/ Post(s) \/ ResponseOk(s) \/ ConversationEvent(s)
              \/ TextEvent(s) \/ ErrorEvent(s) \/ StreamEnd(s) \/ Failed(s)
              \/ Caught(s) /\ Emptied
              \/ Refuse(s) \/ Accept(s) \/ Finish(s) \/ ModelFails(s)
       PROVE  ChannelInv'
  <2>1. CASE TextEvent(s) \/ ErrorEvent(s)
    BY <1>8, <2>1 DEF TextEvent, ErrorEvent
  <2>2. CASE Caught(s)
    BY <2>2, CaughtChannel
  <2> QED
    BY <1>4, <1>5, <1>7, <1>9, <1>11, <1>12, <1>13, <1>14, <2>1, <2>2 DEF Failed
<1>15. ASSUME NEW l \in Loads, \/ ShowConversation(l) \/ LoadFails(l)
                               \/ \E c \in Conversations : SelectConversation(l, c)
       PROVE  ChannelInv'
  BY <1>3, <1>15 DEF ShowConversation, LoadFails, SelectConversation, callVars, serverVars
<1>16. CASE ShowUsage \/ UsageFails \/ UNCHANGED vars
  BY <1>3, <1>16 DEF ShowUsage, UsageFails, vars, callVars, serverVars
<1>17. CASE UNCHANGED <<callVars, isStreaming, abortRef, load, usageVars, serverVars, overlap>>
  BY <1>3, <1>17 DEF callVars, serverVars
<1> QED
  BY <1>14, <1>15, <1>16, <1>17, Steps
-------------------------------------------------------------------------------

\* Bubbles over one step: only the end of the stream makes one an answer, and by then the
\* server has closed.
LEMMA BubbleStep == TypeOK /\ ChannelInv /\ BubbleInv /\ [Next]_vars => BubbleInv'
<1> SUFFICES ASSUME TypeOK, ChannelInv, BubbleInv, [Next]_vars PROVE BubbleInv'
  OBVIOUS
<1>1. /\ pc \in [Sends -> {"idle", "auth", "sent", "reading", "end"}]
      /\ bubble \in [Sends -> {"none", "waiting", "partial", "answered", "error"}]
      /\ srv \in [Sends -> {"idle", "received", "answering", "closed"}]
  BY DEF TypeOK
<1>2. ASSUME \A r \in Sends : bubble'[r] \in {"none", "error", bubble[r]},
             \A r \in Sends : bubble'[r] = bubble[r] => srv'[r] = srv[r] \/ srv[r] # "closed",
             \A r \in Sends : bubble'[r] = bubble[r] /\ AtServer(r) => AtServer(r)'
      PROVE  BubbleInv'
  <2>1. ASSUME NEW r \in Sends, bubble'[r] \in {"waiting", "partial"} PROVE AtServer(r)'
    BY <1>2, <2>1 DEF BubbleInv
  <2>2. ASSUME NEW r \in Sends, bubble'[r] = "answered" PROVE srv'[r] = "closed"
    BY <1>2, <2>2 DEF BubbleInv
  <2> QED
    BY <2>1, <2>2 DEF BubbleInv
<1>3. ASSUME NEW s \in Sends, Send(s) \/ NoSession(s) PROVE BubbleInv'
  <2>1. UNCHANGED <<bubble, srv>> /\ pc[s] \in {"idle", "auth"} /\ \A r \in Sends \ {s} : pc'[r] = pc[r]
    BY <1>1, <1>3 DEF Send, NoSession, pageVars, serverVars
  <2>2. \A r \in Sends : AtServer(r) => AtServer(r)'
    BY <2>1 DEF AtServer
  <2> QED
    BY <1>2, <2>1, <2>2
<1>4. ASSUME NEW s \in Sends, Post(s) PROVE BubbleInv'
  <2>1. /\ bubble'[s] = "waiting" /\ pc'[s] = "sent"
        /\ \A r \in Sends \ {s} : pc'[r] = pc[r] /\ bubble'[r] = bubble[r] /\ srv'[r] = srv[r]
    BY <1>1, <1>4 DEF Post
  <2>2. \A r \in Sends : bubble'[r] \in {"waiting", "partial"} => AtServer(r)'
    BY <2>1 DEF BubbleInv, AtServer
  <2>3. \A r \in Sends : bubble'[r] = "answered" => srv'[r] = "closed"
    BY <2>1 DEF BubbleInv
  <2> QED
    BY <2>2, <2>3 DEF BubbleInv
<1>5. ASSUME NEW s \in Sends, ResponseOk(s) PROVE BubbleInv'
  <2>1. UNCHANGED <<bubble, srv>> /\ \A r \in Sends : AtServer(r) => AtServer(r)'
    BY <1>1, <1>5 DEF ResponseOk, Receive, pageVars, AtServer
  <2> QED
    BY <1>2, <2>1
<1>6. ASSUME UNCHANGED <<pc, bubble, srv>> PROVE BubbleInv'
  <2>1. \A r \in Sends : AtServer(r) => AtServer(r)'
    BY <1>6 DEF AtServer
  <2> QED
    BY <1>2, <1>6, <2>1
<1>7. ASSUME NEW s \in Sends, TextEvent(s) \/ ErrorEvent(s) PROVE BubbleInv'
  <2>1. AtServer(s) /\ UNCHANGED <<pc, srv>>
    BY <1>7 DEF TextEvent, ErrorEvent, Receive, callVars
  <2>2. \A r \in Sends \ {s} : bubble'[r] = bubble[r]
    BY <1>1, <1>7 DEF TextEvent, ErrorEvent, SetBubble
  <2>3. bubble'[s] \in {"none", "partial", "error", bubble[s]}
    BY <1>1, <1>7 DEF TextEvent, ErrorEvent, SetBubble
  <2>4. \A r \in Sends : AtServer(r)' <=> AtServer(r)
    BY <2>1 DEF AtServer
  <2>5. \A r \in Sends : bubble'[r] \in {"waiting", "partial"} => AtServer(r)'
    BY <2>1, <2>2, <2>3, <2>4 DEF BubbleInv
  <2>6. \A r \in Sends : bubble'[r] = "answered" => srv'[r] = "closed"
    BY <2>1, <2>2, <2>3 DEF BubbleInv
  <2> QED
    BY <2>5, <2>6 DEF BubbleInv
<1>8. ASSUME NEW s \in Sends, Finally(s)
      PROVE  \A r \in Sends \ {s} : AtServer(r) => AtServer(r)'
  BY <1>1, <1>8 DEF Finally, AtServer
<1>9. ASSUME NEW s \in Sends, StreamEnd(s) PROVE BubbleInv'
  <2>1. Receive(s, "done") /\ Channel(s)
    BY <1>9 DEF StreamEnd, ChannelInv
  <2>2. srv[s] = "closed" /\ UNCHANGED srv
    BY <2>1, ReadChannel
  <2>3. bubble'[s] \in {"none", "answered", "error"} /\ \A r \in Sends \ {s} : bubble'[r] = bubble[r]
    BY <1>1, <1>9 DEF StreamEnd, SetBubble
  <2>4. \A r \in Sends \ {s} : AtServer(r) => AtServer(r)'
    BY <1>8, <1>9 DEF StreamEnd
  <2>5. \A r \in Sends : bubble'[r] \in {"waiting", "partial"} => AtServer(r)'
    BY <2>3, <2>4 DEF BubbleInv
  <2>6. \A r \in Sends : bubble'[r] = "answered" => srv'[r] = "closed"
    BY <2>2, <2>3 DEF BubbleInv
  <2> QED
    BY <2>5, <2>6 DEF BubbleInv
<1>10. ASSUME NEW s \in Sends, Failed(s) PROVE BubbleInv'
  <2>1. bubble'[s] \in {"none", "error"} /\ UNCHANGED srv /\ \A r \in Sends \ {s} : bubble'[r] = bubble[r]
    BY <1>1, <1>10 DEF Failed, Caught, SetBubble
  <2>2. \A r \in Sends \ {s} : AtServer(r) => AtServer(r)'
    BY <1>8, <1>10 DEF Failed, Caught
  <2>3. \A r \in Sends : bubble'[r] \in {"waiting", "partial"} => AtServer(r)'
    BY <2>1, <2>2 DEF BubbleInv
  <2>4. \A r \in Sends : bubble'[r] = "answered" => srv'[r] = "closed"
    BY <2>1 DEF BubbleInv
  <2> QED
    BY <2>3, <2>4 DEF BubbleInv
<1>11. ASSUME bubble' = [s \in Sends |-> "none"] PROVE BubbleInv'
  BY <1>11 DEF BubbleInv
<1>12. ASSUME NEW s \in Sends, NEW from \in {"received", "answering"}, NEW to \in {"answering", "closed"},
              NEW events \in Seq(Event), ServerStep(s, from, to, events)
       PROVE  BubbleInv'
  <2>1. UNCHANGED <<pc, bubble>> /\ srv[s] # "closed" /\ \A r \in Sends \ {s} : srv'[r] = srv[r]
    BY <1>1, <1>12 DEF ServerStep, callVars, pageVars
  <2>2. \A r \in Sends : AtServer(r) => AtServer(r)'
    BY <2>1 DEF AtServer
  <2>3. \A r \in Sends : srv'[r] = srv[r] \/ srv[r] # "closed"
    BY <2>1
  <2> QED
    BY <1>2, <2>1, <2>2, <2>3
<1>13. ASSUME NEW s \in Sends, Refuse(s) \/ Accept(s) \/ Finish(s) \/ ModelFails(s) PROVE BubbleInv'
  <2>1. PICK from \in {"received", "answering"}, to \in {"answering", "closed"}, events \in Seq(Event) :
          ServerStep(s, from, to, events)
    BY <1>13, EventsType DEF Refuse, Accept, Finish, ModelFails
  <2> QED
    BY <1>12, <2>1
<1>14. ASSUME NEW s \in Sends,
              \/ Send(s) \/ NoSession(s) \/ Post(s) \/ ResponseOk(s) \/ ConversationEvent(s)
              \/ TextEvent(s) \/ ErrorEvent(s) \/ StreamEnd(s) \/ Failed(s)
              \/ Caught(s) /\ Emptied
              \/ Refuse(s) \/ Accept(s) \/ Finish(s) \/ ModelFails(s)
       PROVE  BubbleInv'
  <2>1. CASE ConversationEvent(s)
    BY <1>6, <2>1 DEF ConversationEvent, Receive
  <2>2. CASE Emptied
    BY <1>11, <2>2 DEF Emptied
  <2> QED
    BY <1>3, <1>4, <1>5, <1>7, <1>9, <1>10, <1>13, <1>14, <2>1, <2>2
<1>15. ASSUME NEW l \in Loads, \/ ShowConversation(l) \/ LoadFails(l)
                               \/ \E c \in Conversations : SelectConversation(l, c)
       PROVE  BubbleInv'
  BY <1>6, <1>11, <1>15 DEF ShowConversation, LoadFails, SelectConversation, callVars, pageVars, serverVars
<1>16. CASE ShowUsage \/ UsageFails \/ UNCHANGED vars
  BY <1>6, <1>16 DEF ShowUsage, UsageFails, vars, callVars, pageVars, serverVars
<1>17. CASE Emptied
  BY <1>11, <1>17 DEF Emptied
<1> QED
  BY <1>14, <1>15, <1>16, <1>17, Steps

-------------------------------------------------------------------------------

\* A question gets its conversation once: with its request, or when one is created for it.
LEMMA HomeStep ==
  ASSUME TypeOK, ChannelInv, [Next]_vars
  PROVE  \/ UNCHANGED home
         \/ \E s \in Sends : /\ Post(s) \/ Accept(s)
                             /\ home[s] = None /\ \A r \in Sends \ {s} : home'[r] = home[r]
<1>1. home \in [Sends -> Conversations \cup {None}] /\ pc \in [Sends -> {"idle", "auth", "sent", "reading", "end"}]
  BY DEF TypeOK
<1>2. ASSUME NEW s \in Sends, Post(s)
      PROVE  home[s] = None /\ \A r \in Sends \ {s} : home'[r] = home[r]
  <2>1. Channel(s)
    BY DEF ChannelInv
  <2> QED
    BY <1>1, <1>2, <2>1 DEF Post, Channel
<1>3. ASSUME NEW s \in Sends, Accept(s)
      PROVE  \/ UNCHANGED home
             \/ home[s] = None /\ \A r \in Sends \ {s} : home'[r] = home[r]
  BY <1>1, <1>3 DEF Accept
<1>4. ASSUME NEW s \in Sends,
              \/ Send(s) \/ NoSession(s) \/ ResponseOk(s) \/ ConversationEvent(s)
              \/ TextEvent(s) \/ ErrorEvent(s) \/ StreamEnd(s) \/ Failed(s)
              \/ Caught(s) /\ Emptied
              \/ Refuse(s) \/ Finish(s) \/ ModelFails(s)
      PROVE  UNCHANGED home
  <2>1. CASE Send(s) \/ NoSession(s)
    BY <2>1 DEF Send, NoSession, serverVars
  <2>2. CASE ResponseOk(s) \/ ConversationEvent(s) \/ TextEvent(s) \/ ErrorEvent(s) \/ StreamEnd(s)
    BY <2>2 DEF ResponseOk, ConversationEvent, TextEvent, ErrorEvent, StreamEnd, Receive
  <2>3. CASE Failed(s) \/ Caught(s)
    BY <2>3 DEF Failed, Caught
  <2>4. CASE Refuse(s) \/ Finish(s) \/ ModelFails(s)
    BY <2>4 DEF Refuse, Finish, ModelFails
  <2> QED
    BY <1>4, <2>1, <2>2, <2>3, <2>4
<1>5. ASSUME NEW l \in Loads, \/ ShowConversation(l) \/ LoadFails(l)
                               \/ \E c \in Conversations : SelectConversation(l, c)
       PROVE  UNCHANGED home
  BY <1>5 DEF ShowConversation, LoadFails, SelectConversation, serverVars
<1>6. CASE ShowUsage \/ UsageFails \/ UNCHANGED vars
  BY <1>6 DEF ShowUsage, UsageFails, vars, serverVars
<1>7. CASE UNCHANGED <<callVars, isStreaming, abortRef, load, usageVars, serverVars, overlap>>
  BY <1>7 DEF serverVars
<1> QED
  BY <1>2, <1>3, <1>4, <1>5, <1>6, <1>7, Steps

\* So a turn that has a conversation keeps it.
LEMMA ConversationKept ==
  ASSUME TypeOK, ChannelInv, [Next]_vars, NEW t \in Turns, ConversationOf(t) # None
  PROVE  ConversationOf(t)' = ConversationOf(t)
<1>1. CASE t \in Old
  BY <1>1 DEF ConversationOf
<1>2. CASE t \notin Old
  <2>1. t \in Sends /\ home[t] # None
    BY <1>2 DEF Turns, ConversationOf
  <2>2. home'[t] = home[t]
    BY <2>1, HomeStep
  <2> QED
    BY <1>2, <2>2 DEF ConversationOf
<1> QED
  BY <1>1, <1>2

\* Saved and loaded turns over one step.
LEMMA SavedStep == TypeOK /\ ChannelInv /\ SavedInv /\ [Next]_vars => SavedInv'
<1> SUFFICES ASSUME TypeOK, ChannelInv, SavedInv, [Next]_vars PROVE SavedInv'
  OBVIOUS
<1>1. /\ loaded \in SUBSET Turns /\ saved \in [Conversations -> SUBSET Turns]
      /\ load \in [Loads -> Conversations \cup {None}] /\ home \in [Sends -> Conversations \cup {None}]
  BY DEF TypeOK
<1>2. None \notin Conversations
  BY ChatAssumption DEF ChatAssumption, Conversations
<1>3. ASSUME NEW c \in Conversations, NEW t \in saved[c] PROVE ConversationOf(t)' = c
  <2>1. ConversationOf(t) = c /\ t \in Turns
    BY <1>1, <1>3 DEF SavedInv
  <2> QED
    BY <1>2, <2>1, ConversationKept
<1>4. ASSUME NEW t \in loaded PROVE ConversationOf(t)' # None
  <2>1. ConversationOf(t) # None /\ t \in Turns
    BY <1>1, <1>4 DEF SavedInv
  <2> QED
    BY <2>1, ConversationKept
<1>5. ASSUME UNCHANGED saved, UNCHANGED loaded \/ loaded' = {} PROVE SavedInv'
  BY <1>3, <1>4, <1>5 DEF SavedInv
<1>6. ASSUME NEW s \in Sends, Finish(s) PROVE SavedInv'
  <2>1. UNCHANGED loaded /\ UNCHANGED home
    BY <1>6 DEF Finish, ServerStep, pageVars
  <2>2. CASE home[s] # None /\ saved' = [saved EXCEPT ![home[s]] = @ \cup {s}]
    <3>1. s \notin Old /\ home[s] \in Conversations
      BY <1>1, <2>2, ChatAssumption DEF ChatAssumption
    <3>2. ConversationOf(s)' = home[s]
      BY <2>1, <3>1 DEF ConversationOf
    <3>3. ASSUME NEW c \in Conversations, NEW t \in saved'[c] PROVE ConversationOf(t)' = c
      <4>1. t \in saved[c] \/ (c = home[s] /\ t = s)
        BY <1>1, <2>2, <3>1, <3>3
      <4> QED
        BY <1>3, <3>2, <3>3, <4>1
    <3> QED
      BY <1>4, <2>1, <3>3 DEF SavedInv
  <2>3. CASE UNCHANGED saved
    BY <1>5, <2>1, <2>3
  <2> QED
    BY <1>6, <2>2, <2>3 DEF Finish
<1>7. ASSUME NEW l \in Loads, ShowConversation(l) PROVE SavedInv'
  <2>1. load[l] \in Conversations /\ loaded' = saved[load[l]] /\ UNCHANGED saved
    BY <1>1, <1>7 DEF ShowConversation, serverVars
  <2>2. ASSUME NEW t \in loaded' PROVE ConversationOf(t)' # None
    BY <1>2, <1>3, <2>1, <2>2
  <2> QED
    BY <1>3, <2>1, <2>2 DEF SavedInv
<1>8. ASSUME NEW s \in Sends,
              \/ Send(s) \/ NoSession(s) \/ Post(s) \/ ResponseOk(s) \/ ConversationEvent(s)
              \/ TextEvent(s) \/ ErrorEvent(s) \/ StreamEnd(s) \/ Failed(s)
              \/ Caught(s) /\ Emptied
              \/ Refuse(s) \/ Accept(s) \/ Finish(s) \/ ModelFails(s)
      PROVE  SavedInv'
  <2>1. CASE Send(s) \/ NoSession(s) \/ Post(s)
    BY <1>5, <2>1 DEF Send, NoSession, Post, pageVars, serverVars
  <2>2. CASE ResponseOk(s) \/ ConversationEvent(s) \/ TextEvent(s) \/ ErrorEvent(s) \/ StreamEnd(s)
    BY <1>5, <2>2 DEF ResponseOk, ConversationEvent, TextEvent, ErrorEvent, StreamEnd, Receive, pageVars
  <2>3. CASE Failed(s)
    BY <1>5, <2>3 DEF Failed, Caught
  <2>4. CASE Caught(s) /\ Emptied
    BY <1>5, <2>4 DEF Caught, Emptied
  <2>5. CASE Refuse(s) \/ Accept(s) \/ ModelFails(s)
    <3>1. UNCHANGED saved /\ UNCHANGED pageVars
      BY <2>5 DEF Refuse, Accept, ModelFails, ServerStep
    <3> QED
      BY <1>5, <3>1 DEF pageVars
  <2> QED
    BY <1>6, <1>8, <2>1, <2>2, <2>3, <2>4, <2>5
<1>9. ASSUME NEW l \in Loads, \/ ShowConversation(l) \/ LoadFails(l)
                              \/ \E c \in Conversations : SelectConversation(l, c)
      PROVE  SavedInv'
  BY <1>5, <1>7, <1>9 DEF LoadFails, SelectConversation, pageVars, serverVars
<1>10. CASE ShowUsage \/ UsageFails \/ UNCHANGED vars
  BY <1>5, <1>10 DEF ShowUsage, UsageFails, vars, pageVars, serverVars
<1>11. CASE Emptied /\ UNCHANGED <<callVars, isStreaming, abortRef, load, usageVars, serverVars, overlap>>
  BY <1>5, <1>11 DEF Emptied, serverVars
<1> QED
  BY <1>8, <1>9, <1>10, <1>11, Steps
-------------------------------------------------------------------------------

\* A turn that is and stays on the screen keeps its conversation, even if it has none.
LEMMA ScreenKept ==
  ASSUME TypeOK, ChannelInv, BubbleInv, SavedInv, [Next]_vars, NEW t \in OnScreen, t \in OnScreen'
  PROVE  ConversationOf(t)' = ConversationOf(t)
<1>1. /\ loaded \in SUBSET Turns /\ home \in [Sends -> Conversations \cup {None}]
      /\ bubble \in [Sends -> {"none", "waiting", "partial", "answered", "error"}]
  BY DEF TypeOK
<1>2. t \in Turns
  BY <1>1 DEF OnScreen, Turns
<1>3. CASE t \in Old
  BY <1>3 DEF ConversationOf
<1>4. CASE t \notin Old /\ home'[t] = home[t]
  BY <1>4 DEF ConversationOf
<1>5. CASE t \notin Old /\ home'[t] # home[t]
  <2>1. t \in Sends
    BY <1>2, <1>5 DEF Turns
  <2>2. (Post(t) \/ Accept(t)) /\ home[t] = None
    BY <1>5, <2>1, HomeStep
  <2>3. t \notin loaded
    BY <1>5, <2>2 DEF SavedInv, ConversationOf
  <2>4. CASE Post(t)
    <3>1. bubble'[t] = "waiting" /\ loaded' = loaded
      BY <1>1, <2>1, <2>4 DEF Post
    <3> QED
      BY <2>3, <3>1 DEF OnScreen
  <2>5. CASE Accept(t)
    <3>1. bubble' = bubble /\ loaded' = loaded /\ srv[t] = "received"
      BY <2>5 DEF Accept, ServerStep, pageVars
    <3>2. bubble[t] # "answered"
      BY <2>1, <3>1 DEF BubbleInv
    <3> QED
      BY <2>3, <3>1, <3>2 DEF OnScreen
  <2> QED
    BY <2>2, <2>4, <2>5
<1> QED
  BY <1>3, <1>4, <1>5

\* The user doing one thing at a time, over one step.
LEMMA CalmStep ==
  TypeOK /\ ChannelInv /\ BubbleInv /\ SavedInv /\ CalmInv /\ [Next]_vars => CalmInv'
<1> SUFFICES ASSUME TypeOK, ChannelInv, BubbleInv, SavedInv, CalmInv, [Next]_vars, ~overlap'
             PROVE  /\ \A r, s \in Sends : InFlight(r)' /\ InFlight(s)' => r = s
                    /\ \A s \in Sends : InFlight(s)' => ~Loading' /\ conversationId' \in {active'[s], None}
                    /\ \A s \in Sends : AtServer(s)' => isStreaming' /\ abortRef' = s
                    /\ \A t \in OnScreen' : ConversationOf(t)' \in {conversationId', None}
  BY DEF CalmInv
<1> DEFINE Alone == \A r, s \in Sends : InFlight(r)' /\ InFlight(s)' => r = s
           Home  == \A s \in Sends : InFlight(s)' => ~Loading' /\ conversationId' \in {active'[s], None}
           Locks == \A s \in Sends : AtServer(s)' => isStreaming' /\ abortRef' = s
           Shown == \A t \in OnScreen' : ConversationOf(t)' \in {conversationId', None}
           Goal  == Alone /\ Home /\ Locks /\ Shown
<1>1. /\ pc \in [Sends -> {"idle", "auth", "sent", "reading", "end"}]
      /\ active \in [Sends -> Conversations \cup {None}]
      /\ loaded \in SUBSET Turns
      /\ bubble \in [Sends -> {"none", "waiting", "partial", "answered", "error"}]
      /\ load \in [Loads -> Conversations \cup {None}]
      /\ home \in [Sends -> Conversations \cup {None}]
  BY DEF TypeOK
<1>2. None \notin Conversations /\ \A s \in Sends : s \notin Old
  BY ChatAssumption DEF ChatAssumption, Conversations
\* The user was doing one thing at a time before the step too.
<1>3. ~overlap
  <2>1. ASSUME NEW s \in Sends,
               \/ Send(s) \/ NoSession(s) \/ Post(s) \/ ResponseOk(s) \/ ConversationEvent(s)
               \/ TextEvent(s) \/ ErrorEvent(s) \/ StreamEnd(s) \/ Failed(s)
               \/ Caught(s) /\ Emptied
               \/ Refuse(s) \/ Accept(s) \/ Finish(s) \/ ModelFails(s)
        PROVE  ~overlap
    <3>1. CASE Send(s) \/ NoSession(s) \/ Post(s) \/ ResponseOk(s) \/ ConversationEvent(s)
      BY <3>1 DEF Send, NoSession, Post, ResponseOk, ConversationEvent
    <3>2. CASE TextEvent(s) \/ ErrorEvent(s) \/ StreamEnd(s) \/ Failed(s) \/ Caught(s)
      BY <3>2 DEF TextEvent, ErrorEvent, StreamEnd, Failed, Caught
    <3>3. CASE Refuse(s) \/ Accept(s) \/ Finish(s) \/ ModelFails(s)
      BY <3>3 DEF Refuse, Accept, Finish, ModelFails, ServerStep
    <3> QED
      BY <2>1, <3>1, <3>2, <3>3
  <2>2. ASSUME NEW l \in Loads, \/ ShowConversation(l) \/ LoadFails(l)
                                \/ \E c \in Conversations : SelectConversation(l, c)
        PROVE  ~overlap
    BY <2>2 DEF ShowConversation, LoadFails, SelectConversation
  <2>3. CASE ShowUsage \/ UsageFails \/ UNCHANGED vars
    BY <2>3 DEF ShowUsage, UsageFails, vars
  <2> QED
    BY <2>1, <2>2, <2>3, Steps
<1>4. /\ \A r, s \in Sends : InFlight(r) /\ InFlight(s) => r = s
      /\ \A s \in Sends : InFlight(s) => ~Loading /\ conversationId \in {active[s], None}
      /\ \A s \in Sends : AtServer(s) => isStreaming /\ abortRef = s
      /\ \A t \in OnScreen : ConversationOf(t) \in {conversationId, None}
  BY <1>3 DEF CalmInv
\* What takes nothing new to the screen and leaves the page in its conversation.
<1>5. ASSUME OnScreen' \subseteq OnScreen, UNCHANGED conversationId PROVE Shown
  BY <1>4, <1>5, ScreenKept
<1>6. ASSUME OnScreen' = {} PROVE Shown
  BY <1>6
\* What leaves every call where it is.
<1>7. ASSUME UNCHANGED <<pc, active>>, UNCHANGED conversationId \/ conversationId' = None,
             Loading' => Loading
      PROVE  Alone /\ Home
  BY <1>4, <1>7 DEF InFlight, AtServer
<1>8. ASSUME UNCHANGED <<pc, isStreaming, abortRef>> PROVE Locks
  BY <1>4, <1>8 DEF AtServer
\* What ends the only call there is.
<1>9. ASSUME NEW s \in Sends, InFlight(s), pc'[s] = "end", \A r \in Sends \ {s} : pc'[r] = pc[r]
      PROVE  Alone /\ Home /\ Locks
  <2>1. ASSUME NEW r \in Sends PROVE ~InFlight(r)'
    <3>1. CASE r = s
      BY <1>9, <3>1 DEF InFlight, AtServer
    <3>2. CASE r # s
      <4>1. ~InFlight(r)
        BY <1>4, <1>9, <3>2
      <4> QED
        BY <1>9, <3>2, <4>1 DEF InFlight, AtServer
    <3> QED
      BY <3>1, <3>2
  <2> QED
    BY <2>1 DEF InFlight
<1>10. UNCHANGED load => (Loading' <=> Loading)
  BY DEF Loading
<1>11. ASSUME NEW s \in Sends, Send(s) PROVE Goal
  <2>1. ~Loading /\ \A r \in Sends : ~InFlight(r)
    BY <1>11 DEF Send
  <2>2. /\ pc'[s] = "auth" /\ active'[s] = conversationId
        /\ \A r \in Sends \ {s} : pc'[r] = pc[r]
        /\ UNCHANGED <<conversationId, load, loaded, bubble>>
    BY <1>1, <1>11 DEF Send, pageVars
  <2>3. \A r \in Sends \ {s} : ~InFlight(r)'
    BY <2>1, <2>2 DEF InFlight, AtServer
  <2>4. ~AtServer(s)'
    BY <2>2 DEF AtServer
  <2>5. Shown
    BY <1>5, <2>2 DEF OnScreen
  <2>6. Alone
    BY <2>3
  <2>7. Home
    BY <1>10, <2>1, <2>2, <2>3
  <2>8. Locks
    BY <2>3, <2>4 DEF InFlight
  <2> QED
    BY <2>5, <2>6, <2>7, <2>8
<1>12. ASSUME NEW s \in Sends, NoSession(s) PROVE Goal
  <2>1. /\ InFlight(s) /\ pc'[s] = "end" /\ \A r \in Sends \ {s} : pc'[r] = pc[r]
        /\ UNCHANGED <<conversationId, loaded, bubble>>
    BY <1>1, <1>12 DEF NoSession, InFlight, pageVars
  <2>2. Shown
    BY <1>5, <2>1 DEF OnScreen
  <2> QED
    BY <1>9, <2>1, <2>2
<1>13. ASSUME NEW s \in Sends, Post(s) PROVE Goal
  <2>1. /\ InFlight(s) /\ pc'[s] = "sent" /\ \A r \in Sends \ {s} : pc'[r] = pc[r]
        /\ UNCHANGED <<conversationId, active, load, loaded>> /\ isStreaming' = TRUE /\ abortRef' = s
    BY <1>1, <1>13 DEF Post, InFlight
  <2>2. \A r \in Sends \ {s} : ~InFlight(r)'
    BY <1>4, <2>1 DEF InFlight, AtServer
  <2>3. OnScreen' \subseteq OnScreen
    BY <1>1, <1>13 DEF Post, OnScreen
  <2>4. Alone
    BY <2>2
  <2>5. Home
    BY <1>4, <1>10, <2>1, <2>2
  <2>6. Locks
    BY <2>1, <2>2 DEF InFlight
  <2> QED
    BY <1>5, <2>1, <2>3, <2>4, <2>5, <2>6
<1>14. ASSUME NEW s \in Sends, ResponseOk(s) PROVE Goal
  <2>1. /\ UNCHANGED <<conversationId, active, load, loaded, bubble, isStreaming, abortRef>>
        /\ AtServer(s) /\ \A r \in Sends \ {s} : pc'[r] = pc[r]
    BY <1>1, <1>14 DEF ResponseOk, Receive, pageVars
  <2>2. \A r \in Sends : AtServer(r)' => AtServer(r)
    BY <2>1 DEF AtServer
  <2>3. \A r \in Sends : InFlight(r)' => InFlight(r)
    BY <2>1 DEF InFlight, AtServer
  <2>4. Alone
    BY <1>4, <2>3
  <2>5. Home
    BY <1>4, <1>10, <2>1, <2>3
  <2>6. Locks
    BY <1>4, <2>1, <2>2
  <2>7. Shown
    BY <1>5, <2>1 DEF OnScreen
  <2> QED
    BY <2>4, <2>5, <2>6, <2>7
<1>15. ASSUME NEW s \in Sends, ConversationEvent(s) PROVE Goal
  <2>1. /\ Receive(s, "conversation_id") /\ Channel(s) /\ AtServer(s)
        /\ active'[s] = home[s] /\ conversationId' = home[s]
        /\ UNCHANGED <<pc, load, loaded, bubble, isStreaming, abortRef>>
    BY <1>1, <1>15 DEF ConversationEvent, ChannelInv, Receive
  <2>2. InFlight(s) /\ UNCHANGED home
    BY <2>1 DEF InFlight, Receive
  <2>3. conversationId \in {active[s], None} /\ ~Loading
    BY <1>4, <2>2
  <2>4. conversationId \in {home[s], None}
    BY <2>1, <2>3 DEF Channel
  <2>5. Shown
    <3>1. OnScreen' = OnScreen
      BY <2>1 DEF OnScreen
    <3>2. ASSUME NEW t \in OnScreen PROVE ConversationOf(t)' \in {conversationId', None}
      <4>1. ConversationOf(t)' = ConversationOf(t)
        BY <2>2 DEF ConversationOf
      <4> QED
        BY <1>4, <2>1, <2>4, <4>1
    <3> QED
      BY <3>1, <3>2
  <2>6. \A r \in Sends : InFlight(r)' <=> InFlight(r)
    BY <2>1 DEF InFlight, AtServer
  <2>7. Alone
    BY <1>4, <2>6
  <2>8. Home
    BY <1>4, <1>10, <2>1, <2>2, <2>3, <2>6
  <2> QED
    BY <1>8, <2>1, <2>5, <2>7, <2>8
<1>16. ASSUME NEW s \in Sends, TextEvent(s) \/ ErrorEvent(s) PROVE Goal
  <2>1. UNCHANGED <<pc, active, conversationId, load, loaded, isStreaming, abortRef>>
    BY <1>16 DEF TextEvent, ErrorEvent, callVars
  <2>2. \A r \in Sends : bubble'[r] = "answered" => bubble[r] = "answered"
    BY <1>1, <1>16 DEF TextEvent, ErrorEvent, SetBubble
  <2>3. OnScreen' \subseteq OnScreen
    BY <2>1, <2>2 DEF OnScreen
  <2> QED
    BY <1>5, <1>7, <1>8, <1>10, <2>1, <2>3
<1>17. ASSUME NEW s \in Sends, StreamEnd(s) PROVE Goal
  <2>1. /\ Receive(s, "done") /\ Channel(s) /\ AtServer(s) /\ InFlight(s)
        /\ pc'[s] = "end" /\ \A r \in Sends \ {s} : pc'[r] = pc[r]
    BY <1>1, <1>17 DEF StreamEnd, ChannelInv, Receive, Finally, InFlight
  <2>2. home[s] = active[s] /\ UNCHANGED home
    BY <2>1, ReadChannel
  <2>3. conversationId \in {active[s], None}
    BY <1>4, <2>1
  <2>4. conversationId' = IF active[s] # None THEN active[s] ELSE conversationId
    BY <1>17 DEF StreamEnd
  <2>5. ConversationOf(s)' = active[s]
    BY <1>2, <2>2 DEF ConversationOf
  <2>6. ASSUME NEW t \in OnScreen' PROVE ConversationOf(t)' \in {conversationId', None}
    <3>1. CASE t = s
      BY <2>3, <2>4, <2>5, <3>1
    <3>2. CASE t # s
      <4>1. loaded' = loaded /\ \A r \in Sends \ {s} : bubble'[r] = bubble[r]
        BY <1>1, <1>17 DEF StreamEnd, SetBubble
      <4>2. t \in OnScreen
        BY <3>2, <4>1 DEF OnScreen
      <4>3. ConversationOf(t)' = ConversationOf(t)
        BY <2>2 DEF ConversationOf
      <4> QED
        BY <1>4, <2>3, <2>4, <4>2, <4>3
    <3> QED
      BY <3>1, <3>2
  <2> QED
    BY <1>9, <2>1, <2>6
<1>18. ASSUME NEW s \in Sends, Caught(s) PROVE Alone /\ Home /\ Locks
  <2>1. InFlight(s) /\ pc'[s] = "end" /\ \A r \in Sends \ {s} : pc'[r] = pc[r]
    BY <1>1, <1>18 DEF Caught, Finally, InFlight
  <2> QED
    BY <1>9, <2>1
<1>19. ASSUME NEW s \in Sends, Failed(s) PROVE Goal
  <2>1. UNCHANGED <<loaded, conversationId>>
    BY <1>19 DEF Failed
  <2>2. \A r \in Sends : bubble'[r] = "answered" => bubble[r] = "answered"
    BY <1>1, <1>19 DEF Failed, SetBubble
  <2>3. OnScreen' \subseteq OnScreen
    BY <2>1, <2>2 DEF OnScreen
  <2> QED
    BY <1>5, <1>18, <1>19, <2>1, <2>3 DEF Failed
<1>20. ASSUME Emptied PROVE Shown
  <2>1. OnScreen' = {}
    BY <1>20 DEF Emptied, OnScreen
  <2> QED
    BY <1>6, <2>1
<1>21. ASSUME NEW s \in Sends, Refuse(s) \/ Accept(s) \/ Finish(s) \/ ModelFails(s) PROVE Goal
  <2>1. UNCHANGED <<pc, active, conversationId, load, loaded, bubble, isStreaming, abortRef>>
    BY <1>21 DEF Refuse, Accept, Finish, ModelFails, ServerStep, callVars, pageVars
  <2>2. OnScreen' \subseteq OnScreen
    BY <2>1 DEF OnScreen
  <2> QED
    BY <1>5, <1>7, <1>8, <1>10, <2>1, <2>2
<1>22. ASSUME NEW l \in Loads, NEW c \in Conversations, SelectConversation(l, c) PROVE Goal
  <2>1. \A s \in Sends : ~InFlight(s)
    BY <1>22 DEF SelectConversation
  <2>2. UNCHANGED <<pc, active, conversationId, loaded, bubble, isStreaming, abortRef>>
    BY <1>22 DEF SelectConversation, callVars, pageVars
  <2>3. \A s \in Sends : ~InFlight(s)'
    BY <2>1, <2>2 DEF InFlight, AtServer
  <2>4. OnScreen' \subseteq OnScreen
    BY <2>2 DEF OnScreen
  <2>5. Alone /\ Home
    BY <2>3
  <2> QED
    BY <1>5, <1>8, <2>2, <2>4, <2>5
<1>23. ASSUME NEW l \in Loads, ShowConversation(l) PROVE Goal
  <2>1. Loading /\ UNCHANGED <<pc, active, isStreaming, abortRef, home>>
    BY <1>23 DEF ShowConversation, Loading, callVars, serverVars
  <2>2. \A s \in Sends : ~InFlight(s)
    BY <1>4, <2>1
  <2>3. \A s \in Sends : ~InFlight(s)'
    BY <2>1, <2>2 DEF InFlight, AtServer
  <2>4. load[l] \in Conversations
    BY <1>1, <1>23 DEF ShowConversation
  <2>5. OnScreen' = saved[load[l]] /\ conversationId' = load[l]
    BY <1>23 DEF ShowConversation, OnScreen
  <2>6. ASSUME NEW t \in OnScreen' PROVE ConversationOf(t)' \in {conversationId', None}
    <3>1. ConversationOf(t) = load[l]
      BY <2>4, <2>5, <2>6 DEF SavedInv
    <3>2. ConversationOf(t)' = ConversationOf(t)
      BY <2>1 DEF ConversationOf
    <3> QED
      BY <2>5, <3>1, <3>2
  <2>7. Alone /\ Home
    BY <2>3
  <2> QED
    BY <1>8, <2>1, <2>6, <2>7
<1>24. ASSUME NEW l \in Loads, LoadFails(l) PROVE Goal
  <2>1. UNCHANGED <<pc, active, conversationId, loaded, bubble, isStreaming, abortRef>>
    BY <1>24 DEF LoadFails, callVars, pageVars
  <2>2. Loading' => Loading
    BY <1>1, <1>24 DEF LoadFails, Loading
  <2>3. OnScreen' \subseteq OnScreen
    BY <2>1 DEF OnScreen
  <2> QED
    BY <1>5, <1>7, <1>8, <2>1, <2>2, <2>3
<1>25. CASE ShowUsage \/ UsageFails \/ UNCHANGED vars
  <2>1. UNCHANGED <<pc, active, conversationId, load, loaded, bubble, isStreaming, abortRef>>
    BY <1>25 DEF ShowUsage, UsageFails, vars, callVars, pageVars
  <2>2. OnScreen' \subseteq OnScreen
    BY <2>1 DEF OnScreen
  <2> QED
    BY <1>5, <1>7, <1>8, <1>10, <2>1, <2>2
<1>26. CASE Emptied /\ UNCHANGED <<callVars, isStreaming, abortRef, load, usageVars, serverVars, overlap>>
  <2>1. UNCHANGED <<pc, active, load, isStreaming, abortRef>> /\ conversationId' = None
    BY <1>26 DEF Emptied, callVars
  <2> QED
    BY <1>7, <1>8, <1>10, <1>20, <1>26, <2>1
<1>27. ASSUME NEW s \in Sends,
              \/ Send(s) \/ NoSession(s) \/ Post(s) \/ ResponseOk(s) \/ ConversationEvent(s)
              \/ TextEvent(s) \/ ErrorEvent(s) \/ StreamEnd(s) \/ Failed(s)
              \/ Caught(s) /\ Emptied
              \/ Refuse(s) \/ Accept(s) \/ Finish(s) \/ ModelFails(s)
       PROVE  Goal
  <2>1. CASE Caught(s) /\ Emptied
    BY <1>18, <1>20, <2>1
  <2> QED
    BY <1>11, <1>12, <1>13, <1>14, <1>15, <1>16, <1>17, <1>19, <1>21, <1>27, <2>1
<1>28. ASSUME NEW l \in Loads, \/ ShowConversation(l) \/ LoadFails(l)
                               \/ \E c \in Conversations : SelectConversation(l, c)
       PROVE  Goal
  BY <1>22, <1>23, <1>24, <1>28
<1> QED
  BY <1>25, <1>26, <1>27, <1>28, Steps

\* The quota shown and the count behind it, over one step: an answer counted while its bubble
\* is not yet an answer is asked for again at the end of its stream.
LEMMA UsageStep ==
  TypeOK /\ ChannelInv /\ BubbleInv /\ UsageInv /\ [Next]_vars => UsageInv'
<1> SUFFICES ASSUME TypeOK, ChannelInv, BubbleInv, UsageInv, [Next]_vars PROVE UsageInv'
  OBVIOUS
<1> DEFINE Answered == {s \in counted : bubble[s] = "answered"}
<1>1. /\ bubble \in [Sends -> {"none", "waiting", "partial", "answered", "error"}]
      /\ usage \in Nat /\ counted \in SUBSET Sends
      /\ pc \in [Sends -> {"idle", "auth", "sent", "reading", "end"}]
  BY DEF TypeOK
<1>2. /\ usage <= Cardinality(counted)
      /\ usageFetch = "none" => usage >= Cardinality(Answered)
  BY DEF UsageInv
<1>3. /\ IsFiniteSet(counted) /\ IsFiniteSet(Answered)
      /\ Cardinality(counted) \in Nat /\ Cardinality(Answered) \in Nat
      /\ Cardinality(Answered) <= Cardinality(counted)
  <2>1. IsFiniteSet(counted)
    BY <1>1, ChatAssumption, FS_Subset DEF ChatAssumption
  <2>2. IsFiniteSet(Answered)
    BY <2>1, FS_Subset
  <2> QED
    BY <2>1, <2>2, FS_Subset, FS_CardinalityType
<1>4. ASSUME usage' = usage, Cardinality(counted) <= Cardinality(counted'), Cardinality(counted') \in Nat,
             usageFetch' = "none" => usageFetch = "none",
             usageFetch' = "none" => Answered' \subseteq Answered
      PROVE  UsageInv'
  <2>1. usage' <= Cardinality(counted')
    BY <1>1, <1>2, <1>3, <1>4
  <2>2. ASSUME usageFetch' = "none" PROVE usage' >= Cardinality(Answered')
    <3>1. Cardinality(Answered') <= Cardinality(Answered) /\ Cardinality(Answered') \in Nat
      BY <1>3, <1>4, <2>2, FS_Subset, FS_CardinalityType
    <3> QED
      BY <1>1, <1>2, <1>3, <1>4, <2>2, <3>1
  <2> QED
    BY <2>1, <2>2 DEF UsageInv
<1>5. ASSUME UNCHANGED <<usage, counted>>, usageFetch' = "none" => usageFetch = "none",
             usageFetch' = "none" => \A s \in Sends : bubble'[s] = "answered" => bubble[s] = "answered"
      PROVE  UsageInv'
  <2>1. usageFetch' = "none" => Answered' \subseteq Answered
    BY <1>1, <1>5
  <2>2. Cardinality(counted) <= Cardinality(counted') /\ Cardinality(counted') \in Nat
    BY <1>3, <1>5
  <2> QED
    BY <1>4, <1>5, <2>1, <2>2
<1>6. ASSUME NEW s \in Sends, Finally(s)
      PROVE  usage' = usage /\ usageFetch' \in {usageFetch, "asked"} /\ (pc[s] = "reading" => usageFetch' = "asked")
  BY <1>6 DEF Finally, InvalidateUsage, usageVars
<1>7. ASSUME NEW s \in Sends, Send(s) \/ NoSession(s) \/ Post(s) PROVE UsageInv'
  <2>1. /\ UNCHANGED <<usage, counted, usageFetch>>
        /\ \A r \in Sends : bubble'[r] = "answered" => bubble[r] = "answered"
    BY <1>1, <1>7 DEF Send, NoSession, Post, pageVars, usageVars, serverVars
  <2> QED
    BY <1>5, <2>1
<1>8. ASSUME NEW s \in Sends, ResponseOk(s) \/ ConversationEvent(s) PROVE UsageInv'
  <2>1. UNCHANGED <<usage, counted, bubble>> /\ usageFetch' \in {usageFetch, "asked"}
    BY <1>8 DEF ResponseOk, ConversationEvent, Receive, InvalidateUsage, pageVars, usageVars
  <2> QED
    BY <1>5, <2>1
<1>9. ASSUME NEW s \in Sends, TextEvent(s) \/ ErrorEvent(s) PROVE UsageInv'
  <2>1. /\ UNCHANGED <<usage, counted, usageFetch>>
        /\ \A r \in Sends : bubble'[r] = "answered" => bubble[r] = "answered"
    BY <1>1, <1>9 DEF TextEvent, ErrorEvent, Receive, SetBubble, usageVars
  <2> QED
    BY <1>5, <2>1
<1>10. ASSUME NEW s \in Sends, StreamEnd(s) PROVE UsageInv'
  <2>1. Receive(s, "done") /\ Channel(s) /\ UNCHANGED counted
    BY <1>10 DEF StreamEnd, ChannelInv, Receive
  <2>2. pc[s] = "reading"
    BY <2>1, ReadChannel
  <2>3. usage' = usage /\ usageFetch' = "asked"
    BY <1>6, <1>10, <2>2 DEF StreamEnd
  <2> QED
    BY <1>5, <2>1, <2>3
<1>11. ASSUME NEW s \in Sends, Caught(s), \A r \in Sends : bubble'[r] = "answered" => bubble[r] = "answered"
       PROVE  UsageInv'
  <2>1. usage' = usage /\ usageFetch' \in {usageFetch, "asked"} /\ UNCHANGED counted
    BY <1>6, <1>11 DEF Caught
  <2> QED
    BY <1>5, <1>11, <2>1
<1>12. ASSUME NEW s \in Sends, Failed(s) PROVE UsageInv'
  <2>1. \A r \in Sends : bubble'[r] = "answered" => bubble[r] = "answered"
    BY <1>1, <1>12 DEF Failed, SetBubble
  <2> QED
    BY <1>11, <1>12, <2>1 DEF Failed
<1>13. ASSUME Emptied PROVE \A r \in Sends : bubble'[r] = "answered" => bubble[r] = "answered"
  BY <1>13 DEF Emptied
<1>14. ASSUME NEW s \in Sends, Refuse(s) \/ Accept(s) \/ ModelFails(s) PROVE UsageInv'
  <2>1. UNCHANGED <<usage, counted, usageFetch, bubble>>
    BY <1>14 DEF Refuse, Accept, ModelFails, ServerStep, usageVars, pageVars
  <2> QED
    BY <1>5, <2>1
<1>15. ASSUME NEW s \in Sends, Finish(s) PROVE UsageInv'
  <2>1. UNCHANGED <<usage, usageFetch, bubble>> /\ srv[s] = "answering"
    BY <1>15 DEF Finish, ServerStep, usageVars, pageVars
  <2>2. bubble[s] # "answered"
    BY <2>1 DEF BubbleInv
  <2>3. counted' \in SUBSET Sends /\ counted \subseteq counted' /\ counted' \subseteq counted \cup {s}
    BY <1>1, <1>15 DEF Finish
  <2>4. Answered' \subseteq Answered
    BY <2>1, <2>2, <2>3
  <2>5. IsFiniteSet(counted')
    BY <2>3, ChatAssumption, FS_Subset DEF ChatAssumption
  <2>6. Cardinality(counted) <= Cardinality(counted') /\ Cardinality(counted') \in Nat
    BY <2>3, <2>5, FS_Subset, FS_CardinalityType
  <2> QED
    BY <1>4, <2>1, <2>4, <2>6
<1>16. ASSUME NEW l \in Loads, \/ ShowConversation(l) \/ LoadFails(l)
                               \/ \E c \in Conversations : SelectConversation(l, c)
       PROVE  UsageInv'
  <2>1. /\ UNCHANGED <<usage, counted, usageFetch>>
        /\ \A r \in Sends : bubble'[r] = "answered" => bubble[r] = "answered"
    BY <1>1, <1>16 DEF ShowConversation, LoadFails, SelectConversation, pageVars, usageVars, serverVars
  <2> QED
    BY <1>5, <2>1
<1>17. CASE ShowUsage
  <2>1. usage' = Cardinality(counted) /\ UNCHANGED <<counted, bubble>>
    BY <1>17 DEF ShowUsage, pageVars, serverVars
  <2>2. Answered' = Answered
    BY <2>1
  <2>3. usage' <= Cardinality(counted') /\ usage' >= Cardinality(Answered')
    BY <1>3, <2>1, <2>2
  <2> QED
    BY <2>3 DEF UsageInv
<1>18. CASE UsageFails \/ UNCHANGED vars
  <2>1. /\ UNCHANGED <<usage, counted, bubble>> /\ usageFetch' \in {usageFetch, "failed"}
    BY <1>18 DEF UsageFails, vars, pageVars, usageVars, serverVars
  <2> QED
    BY <1>5, <2>1
<1>19. CASE Emptied /\ UNCHANGED <<callVars, isStreaming, abortRef, load, usageVars, serverVars, overlap>>
  <2>1. UNCHANGED <<usage, counted, usageFetch>>
    BY <1>19 DEF usageVars, serverVars
  <2> QED
    BY <1>5, <1>13, <1>19, <2>1
<1>20. ASSUME NEW s \in Sends,
              \/ Send(s) \/ NoSession(s) \/ Post(s) \/ ResponseOk(s) \/ ConversationEvent(s)
              \/ TextEvent(s) \/ ErrorEvent(s) \/ StreamEnd(s) \/ Failed(s)
              \/ Caught(s) /\ Emptied
              \/ Refuse(s) \/ Accept(s) \/ Finish(s) \/ ModelFails(s)
       PROVE  UsageInv'
  BY <1>7, <1>8, <1>9, <1>10, <1>11, <1>12, <1>13, <1>14, <1>15, <1>20
<1> QED
  BY <1>16, <1>17, <1>18, <1>19, <1>20, Steps

-------------------------------------------------------------------------------

ChatInv == ChannelInv /\ BubbleInv /\ SavedInv /\ CalmInv /\ UsageInv

\* What the server has sent, where each turn is, and what a user who does one thing at a
\* time can count on, in every state.
THEOREM ChatInvariant == Spec => []ChatInv
<1>1. Init => ChatInv
  <2> SUFFICES ASSUME Init PROVE ChatInv
    OBVIOUS
  <2>1. None \notin Conversations /\ \A c \in Old : c \in Conversations
    BY ChatAssumption DEF ChatAssumption, Conversations
  <2>2. /\ pc = [s \in Sends |-> "idle"] /\ srv = [s \in Sends |-> "idle"]
        /\ home = [s \in Sends |-> None] /\ chan = [s \in Sends |-> <<>>]
        /\ bubble = [s \in Sends |-> "none"] /\ loaded = {} /\ counted = {} /\ usage = 0
    BY DEF Init
  <2>3. \A s \in Sends : ~AtServer(s) /\ ~InFlight(s)
    BY <2>2 DEF InFlight, AtServer
  <2>4. ChannelInv
    <3>1. ASSUME NEW s \in Sends PROVE Channel(s)
      <4>1. \A n \in 1..Len(chan[s]) : FALSE
        BY <2>2
      <4> QED
        BY <2>2, <2>3, <4>1 DEF Channel
    <3> QED
      BY <3>1 DEF ChannelInv
  <2>5. BubbleInv
    BY <2>2 DEF BubbleInv
  <2>6. SavedInv
    <3>1. \A c \in Conversations : saved[c] = IF c \in Old THEN {c} ELSE {}
      BY DEF Init
    <3> QED
      BY <2>2, <3>1 DEF SavedInv, ConversationOf
  <2>7. CalmInv
    BY <2>2, <2>3 DEF CalmInv, OnScreen
  <2>8. UsageInv
    <3>1. {s \in counted : bubble[s] = "answered"} = {} /\ Cardinality({}) = 0
      BY <2>2, FS_EmptySet
    <3>2. Cardinality(counted) = 0 /\ Cardinality({s \in counted : bubble[s] = "answered"}) = 0
      BY <2>2, <3>1
    <3> QED
      BY <2>2, <3>2 DEF UsageInv
  <2> QED
    BY <2>4, <2>5, <2>6, <2>7, <2>8 DEF ChatInv
<1>2. TypeOK /\ ChatInv /\ [Next]_vars => ChatInv'
  BY ChannelStep, BubbleStep, SavedStep, CalmStep, UsageStep DEF ChatInv
<1> QED
  BY <1>1, <1>2, ChatTypeCorrect, PTL DEF Spec

\* While the user does one thing at a time, the cancel button is there for as long as a
\* question is at the server and reaches it.
THEOREM CancelReachesAnswerHolds == Spec => []CancelReachesAnswer
<1>1. ChatInv /\ NeverLockedForGood => CancelReachesAnswer
  BY DEF ChatInv, CalmInv, NeverLockedForGood, CancelReachesAnswer
<1> QED
  BY <1>1, ChatInvariant, NeverLockedForGoodHolds, PTL

\* With everything answered, a user who did one thing at a time sees turns of the
\* conversation the next question goes to, and no bubble that waits.
THEOREM CoherentHolds == Spec => []Coherent
<1>1. TypeOK /\ ChatInv => Coherent
  <2> SUFFICES ASSUME TypeOK, ChatInv, ~overlap, Quiet
               PROVE  /\ \A t \in OnScreen : ConversationOf(t) \in {conversationId, None}
                      /\ \A s \in Sends : bubble[s] \in {"none", "answered", "error"}
    BY DEF Coherent, OnScreen
  <2>1. \A t \in OnScreen : ConversationOf(t) \in {conversationId, None}
    BY DEF ChatInv, CalmInv
  <2>2. ASSUME NEW s \in Sends PROVE bubble[s] \in {"none", "answered", "error"}
    <3>1. bubble[s] \in {"none", "waiting", "partial", "answered", "error"} /\ ~AtServer(s)
      BY DEF TypeOK, Quiet, InFlight
    <3> QED
      BY <3>1 DEF ChatInv, BubbleInv
  <2> QED
    BY <2>1, <2>2
<1> QED
  BY <1>1, ChatTypeCorrect, ChatInvariant, PTL

\* The quota shown is never more than what was counted, nor, once its query has settled,
\* less than the answers on the screen that were.
THEOREM UsageShownHolds == Spec => []UsageShown
<1>1. ChatInv => UsageShown
  BY DEF ChatInv, UsageInv, UsageShown
<1> QED
  BY <1>1, ChatInvariant, PTL
===============================================================================
