--------------------------- MODULE ContextHistory ---------------------------
(***************************************************************************)
(* The history of one task as the provider gets to see it.  Messages are   *)
(* never thrown away to save room: summarizeConversation (condense) and    *)
(* truncateConversation tag the messages they hide with the id of a        *)
(* summary or of a truncation marker, getEffectiveApiHistory leaves out    *)
(* what is hidden, and MessageManager.rewindToTimestamp (delete or edit of *)
(* a user message) cuts both histories and takes back the condensations    *)
(* and truncations that happened after the cut.  The link between the two  *)
(* histories is the id carried by the condense_context or                  *)
(* sliding_window_truncation message of the chat.                          *)
(*                                                                         *)
(* The task runs with native tool calls.  Token counts are abstracted:     *)
(* whether a threshold is reached is a free choice.                        *)
(***************************************************************************)
EXTENDS Integers, FiniteSetsExt, Selection

CONSTANTS
    MaxNow,         \* bound: the time of the last message
    MaxChat,        \* bound: messages of the chat when the user comments
    MaxReductions,  \* bound: condensations, truncations and uncondensations
    MaxRewinds,     \* bound: deletions or edits of a user message
    MaxCalls,       \* bound: tool calls of one response
    StartTurns      \* uneventful turns already made, a set of numbers

ASSUME HistoryAssumption ==
    {MaxNow, MaxChat, MaxReductions, MaxRewinds, MaxCalls} \union StartTurns \subseteq Nat

Keep == 3           \* N_MESSAGES_TO_KEEP
None == 0

\* Saving a message takes longer than the milliseconds by which summaries and
\* markers are set before the messages they precede.
Gap == MaxReductions + 2

VARIABLES
    api,            \* Task.apiConversationHistory
    chat,           \* Task.clineMessages: user feedback and context events
    pc,             \* where the agent's loop is
    calls,          \* tool calls of the response being handled
    open,           \* those of them not finished
    pending,        \* the calls answered in userMessageContent
    manual,         \* the history a manual condensation is summarising
    now,            \* Date.now()
    made,           \* tool calls made so far: their ids
    reductions, rewinds

vars == <<api, chat, pc, calls, open, pending, manual, now, made, reductions, rewinds>>

(***************************************************************************)
(* Messages.  id is unique; a summary is known by it as condenseId, a      *)
(* marker as truncationId.  tells holds the exchanges a reader of the      *)
(* message learns of: a message tells of itself, a summary of everything   *)
(* it was made from, a marker of nothing.  cut: a truncation has hidden it, *)
(* if only for a time.                                                     *)
(***************************************************************************)
Plain(role, uses, results) ==
    [id |-> now, ts |-> now, role |-> role, kind |-> "plain", uses |-> uses,
     results |-> results, tells |-> {now},
     condenseParent |-> None, truncationParent |-> None, cut |-> FALSE]

Ids(history) == [i \in DOMAIN history |-> history[i].id]
OfKind(history, kind) == {history[i].id : i \in {j \in DOMAIN history : history[j].kind = kind}}
Has(history, kind) == OfKind(history, kind) # {}

\* getEffectiveApiHistory: all but the messages whose summary or marker exists.
EffectiveHistory(history) ==
    Selected(history, {m \in Range(history) :
        /\ m.condenseParent \notin OfKind(history, "summary")
        /\ m.truncationParent \notin OfKind(history, "marker")})

\* getMessagesSinceLastSummary: the last summary and what follows it, behind
\* the first message, for the conversation has to begin with the user.
SinceLastSummary(history) ==
    LET last == SelectLastInSeq(history, LAMBDA m : m.kind = "summary")
        since == SubSeq(history, last, Len(history))
    IN  CASE last = 0 -> history
          [] last # 0 /\ history[last].role # "user" -> <<Head(history)>> \o since
          [] OTHER -> since

\* What the next request carries.
Sent == SinceLastSummary(EffectiveHistory(api))

(***************************************************************************)
(* Condensation.                                                           *)
(***************************************************************************)
KeepStart(history) == Max({Len(history) - Keep, 0})   \* messages before the kept ones
Kept(history) == SubSeq(history, KeepStart(history) + 1, Len(history))

\* Mutant: the summary carries no calls.
CallsToPreserve_None(history) == {}

\* getKeepMessagesWithToolBlocks: the calls that kept results answer and that
\* stand in the last messages before the kept ones; the summary carries them.
CallsToPreserve(history) ==
    LET searched == Max({KeepStart(history) - Keep, 0}) + 1 .. KeepStart(history)
        answered == UNION {m.results : m \in Range(Kept(history))}
    IN  IF Len(history) <= Keep THEN {}
        ELSE answered \intersect UNION {history[i].uses : i \in searched}

\* Mutant: the summary stops one message before the kept ones.
MessagesToSummarize_Short(history) ==
    SinceLastSummary(SubSeq(history, 1, Max({KeepStart(history) - 1, 0})))

\* The messages the summary is made from: those since the last summary, with
\* the first kept one when it answers a call among them, without a last
\* message whose calls nothing would answer.
MessagesToSummarize(history) ==
    LET upTo == KeepStart(history) + (IF CallsToPreserve(history) # {} THEN 1 ELSE 0)
        since == IF upTo > 0 THEN SinceLastSummary(SubSeq(history, 1, upTo)) ELSE <<>>
    IN  IF since # <<>> /\ Last(since).uses # {} THEN Front(since) ELSE since

\* The two refusals of summarizeConversation that depend on the history.
CanCondense(history) ==
    /\ Len(MessagesToSummarize(history)) > 1
    /\ ~ Has(Kept(history), "summary")

Summary(history) ==
    [id |-> now, ts |-> Head(Kept(history)).ts - 1, role |-> "assistant", kind |-> "summary",
     uses |-> CallsToPreserve(history), results |-> {},
     tells |-> UNION {m.tells : m \in Range(MessagesToSummarize(history))},
     condenseParent |-> None, truncationParent |-> None, cut |-> FALSE]

\* summarizeConversation: all but the first and the kept messages are tagged,
\* unless an earlier summary holds them; the summary goes before the kept ones.
Condensed(history) ==
    LET tagged == [i \in DOMAIN history |->
            IF i = 1 \/ i > KeepStart(history) \/ history[i].condenseParent # None
            THEN history[i]
            ELSE [history[i] EXCEPT !.condenseParent = now]]
    IN  InsertAt(tagged, KeepStart(history) + 1, Summary(history))

(***************************************************************************)
(* Truncation.                                                             *)
(***************************************************************************)
\* Positions truncateConversation counts as visible: condensed ones are among them.
Visible(history) ==
    Selected([i \in DOMAIN history |-> i], {i \in DOMAIN history :
        history[i].truncationParent = None /\ history[i].kind # "marker"})

\* Half of the visible messages behind the first, an even number of them.
ToRemove(history) ==
    LET half == (Max({Len(Visible(history)), 1}) - 1) \div 2
    IN  half - (half % 2)

Marker(history, at) ==
    [id |-> now, ts |-> (IF at <= Len(history) THEN history[at].ts ELSE now) - 1,
     role |-> "user", kind |-> "marker", uses |-> {}, results |-> {}, tells |-> {},
     condenseParent |-> None, truncationParent |-> None, cut |-> FALSE]

\* Where the marker goes: before the first visible message that stays.
MarkerAt(history) ==
    IF Len(Visible(history)) > ToRemove(history) + 1
    THEN Visible(history)[ToRemove(history) + 2] ELSE Len(history) + 1

\* truncateConversation(messages, 0.5)
Truncated(history) ==
    LET hidden == Range(SubSeq(Visible(history), 2, ToRemove(history) + 1))
        tagged == [i \in DOMAIN history |->
            IF i \in hidden THEN [history[i] EXCEPT !.truncationParent = now, !.cut = TRUE]
            ELSE history[i]]
    IN  IF ToRemove(history) = 0 THEN history
        ELSE InsertAt(tagged, MarkerAt(history), Marker(history, MarkerAt(history)))

(***************************************************************************)
(* Taking condensations back.                                              *)
(***************************************************************************)
\* cleanupAfterTruncation: tags whose summary or marker is gone are cleared.
CleanedUp(history) ==
    [i \in DOMAIN history |->
        [history[i] EXCEPT
            !.condenseParent = IF @ \in OfKind(history, "summary") THEN @ ELSE None,
            !.truncationParent = IF @ \in OfKind(history, "marker") THEN @ ELSE None]]

\* uncondenseForExtendedThinking: the summaries in invalid are removed and the
\* messages they hid lose their tag.
Uncondensed(history, invalid) ==
    LET left == Selected(history, {m \in Range(history) : m.id \notin invalid})
    IN  [i \in DOMAIN left |->
            IF left[i].condenseParent \in invalid
            THEN [left[i] EXCEPT !.condenseParent = None] ELSE left[i]]

\* Mutant: the cut is made at the time of the chat message itself.
ActualCutoff_AtTarget(history, ts) == ts

\* truncateApiHistoryWithCleanup, step 1: a chat message has no counterpart of
\* its time; the history is cut at the first user message that follows it.
ActualCutoff(history, ts) ==
    LET exact == \E m \in Range(history) : m.ts = ts
        before == \E m \in Range(history) : m.ts < ts
        following == SelectInSeq(history, LAMBDA m : m.ts >= ts /\ m.role = "user")
    IN  IF ~ exact /\ before /\ following # 0 THEN history[following].ts ELSE ts

\* Mutant: the summaries of removed condensations stay.
Rewound_KeepsSummaries(history, ts, removed) ==
    LET cutoff == ActualCutoff(history, ts)
        stays == {m \in Range(history) : m.ts < cutoff /\ ~ (m.kind = "marker" /\ m.id \in removed)}
    IN  CleanedUp(Selected(history, stays))

\* truncateApiHistoryWithCleanup
Rewound(history, ts, removed) ==
    LET cutoff == ActualCutoff(history, ts)
        stays == {m \in Range(history) : m.ts < cutoff /\ ~ (m.kind # "plain" /\ m.id \in removed)}
    IN  CleanedUp(Selected(history, stays))

(***************************************************************************)
(* The chat.  A user message remembers, for the properties, what the       *)
(* provider had seen of the conversation it answers (before) and whether a *)
(* rewind to it can still bring that back (intact).                        *)
(***************************************************************************)
Feedback == [ts |-> now, kind |-> "feedback", event |-> None,
             before |-> Ids(EffectiveHistory(api)), intact |-> TRUE]
Event(kind) == [ts |-> now, kind |-> kind, event |-> now, before |-> <<>>, intact |-> FALSE]

Spoiled(messages, gone(_)) ==
    [i \in DOMAIN messages |->
        IF gone(messages[i]) THEN [messages[i] EXCEPT !.intact = FALSE] ELSE messages[i]]
AllSpoiled(messages) == Spoiled(messages, LAMBDA m : TRUE)

\* The answer in progress belongs to the conversation its feedback refers to.
WithAnswer(messages, answer) ==
    [i \in DOMAIN messages |->
        IF messages[i].kind = "feedback" /\ messages[i].ts > Last(api).ts
        THEN [messages[i] EXCEPT !.before = Append(@, answer.id)] ELSE messages[i]]

\* The user message that carried the comment is cut away, the comment stays:
\* two comments on one answer travel in one message.
SpoiledByCut(messages, history) ==
    Spoiled(messages, LAMBDA m :
        \A h \in Range(history) : h.role = "user" => h.ts < m.ts)

\* A marker is a user message: put before the answer that streamed while the
\* comment was made, it is the first user message that follows the comment.
SpoiledByMarker(messages, history, at) ==
    Spoiled(messages, LAMBDA m :
        /\ at <= Len(history) /\ history[at].role = "assistant"
        /\ m.ts < history[at].ts
        /\ \A i \in 1 .. at - 1 : history[i].ts >= m.ts => history[i].role = "assistant")

(***************************************************************************)
(* Tool results on their way into the history.                             *)
(***************************************************************************)
\* validateAndFixToolResultIds (module ToolResults): the results answer exactly
\* the calls of the last assistant message, or stay when it has none.
ResultsFor(results, history) ==
    LET answer == SelectLastInSeq(history, LAMBDA m : m.role = "assistant")
    IN  IF answer = 0 \/ history[answer].uses = {} THEN results ELSE history[answer].uses

UserMessage == Plain("user", {}, ResultsFor(pending, api))

(***************************************************************************)
(* A history of n turns in which nothing special happened: each response   *)
(* called one tool and the user commented on it.                           *)
(***************************************************************************)
StartHistory(n) ==
    LET At(i) == Gap * ((3 * i - 1) \div 2)    \* 1, 2, 4, 5, 7, 8, ... gaps
    IN  [i \in 1 .. 2 * n |->
            [id |-> At(i), ts |-> At(i), role |-> IF i % 2 = 1 THEN "user" ELSE "assistant",
             kind |-> "plain", uses |-> IF i % 2 = 0 THEN {i \div 2} ELSE {},
             results |-> IF i % 2 = 1 /\ i > 1 THEN {i \div 2} ELSE {}, tells |-> {At(i)},
             condenseParent |-> None, truncationParent |-> None, cut |-> FALSE]]

StartChat(n) ==
    [i \in 1 .. n - 1 |->
        [ts |-> Gap * (3 * i), kind |-> "feedback", event |-> None,
         before |-> Ids(SubSeq(StartHistory(n), 1, 2 * i)), intact |-> TRUE]]

Init ==
    \E n \in StartTurns :
        /\ api = StartHistory(n)
        /\ chat = StartChat(n)
        /\ calls = (IF n = 0 THEN {} ELSE {n})
        /\ open = calls
        /\ now = Gap * (3 * n + 1)
        /\ made = n
        /\ pc = "tools"
        /\ pending = {}
        /\ manual = <<>>
        /\ reductions = 0
        /\ rewinds = 0

(***************************************************************************)
(* The agent's loop.                                                       *)
(***************************************************************************)
\* Nothing is saved at the same time as something else.
Tick == now < MaxNow /\ now' = now + Gap

\* Mutant: userMessageContent is not emptied.
AddUser_KeepsResults ==
    /\ pc = "tools" /\ open = {}
    /\ api' = Append(api, UserMessage)
    /\ pc' = "request"
    /\ Tick
    /\ UNCHANGED <<chat, calls, open, pending, manual, made, reductions, rewinds>>

\* recursivelyMakeClineRequests: the results and comments become a user message.
AddUser ==
    /\ pc = "tools" /\ open = {}
    /\ api' = Append(api, UserMessage)
    /\ pending' = {}
    /\ pc' = "request"
    /\ Tick
    /\ UNCHANGED <<chat, calls, open, manual, made, reductions, rewinds>>

\* The request is sent and its answer streams in.
StartResponse ==
    /\ pc = "request"
    /\ \E n \in 0 .. MaxCalls : calls' = made + 1 .. made + n /\ made' = made + n
    /\ open' = calls'
    /\ pc' = "stream"
    /\ UNCHANGED <<api, chat, pending, manual, now, reductions, rewinds>>

\* A tool ends, perhaps before the stream does; its ask may bring a comment,
\* which say posts at once and which goes with the tool's result.
RunTool ==
    /\ pc \in {"stream", "tools"} /\ open # {}
    /\ open' = open \ {Min(open)}
    /\ pending' = pending \union {Min(open)}
    /\ \/ UNCHANGED <<chat, now>>
       \/ /\ Len(chat) < MaxChat
          /\ chat' = Append(chat, Feedback)
          /\ Tick
    /\ UNCHANGED <<api, pc, calls, manual, made, reductions, rewinds>>

\* The stream has ended: the assistant message is saved.
AddAssistant ==
    /\ pc = "stream"
    /\ api' = Append(api, Plain("assistant", calls, {}))
    /\ chat' = WithAnswer(chat, Last(api'))
    /\ pc' = "tools"
    /\ Tick
    /\ UNCHANGED <<calls, open, pending, manual, made, reductions, rewinds>>

(***************************************************************************)
(* Context management.                                                     *)
(***************************************************************************)
Reduces ==
    /\ reductions < MaxReductions
    /\ reductions' = reductions + 1
    /\ Tick
    /\ UNCHANGED <<pc, calls, open, made, rewinds>>

\* attemptApiRequest condenses; the chat's message carries the condenseId.
CondenseBeforeRequest ==
    /\ pc = "request" /\ CanCondense(api)
    /\ api' = Condensed(api)
    /\ chat' = Append(chat, Event("condensed"))
    /\ Reduces
    /\ UNCHANGED <<pending, manual>>

\* attemptApiRequest or handleContextWindowExceededError truncates.  When a
\* condensation was tried first and failed, attemptApiRequest posts its error
\* instead of the message with the truncationId.
Truncate ==
    /\ pc = "request"
    /\ api' = Truncated(api)
    /\ \/ chat' = Append(SpoiledByMarker(chat, api, MarkerAt(api)), Event("truncated"))
       \/ chat' = AllSpoiled(chat)
    /\ Reduces
    /\ UNCHANGED <<pending, manual>>

\* handleContextWindowExceededError condenses: its message has no condenseId.
CondenseOverWindow ==
    /\ pc = "request" /\ CanCondense(api)
    /\ api' = Condensed(api)
    /\ chat' = Append(AllSpoiled(chat), [Event("condensed") EXCEPT !.event = None])
    /\ Reduces
    /\ UNCHANGED <<pending, manual>>

\* The model now wants thinking blocks that some summaries lack: they are
\* removed and the conversation is condensed again, if it can be.
Uncondense ==
    /\ pc = "request"
    /\ \E invalid \in SUBSET OfKind(api, "summary") \ {{}} :
           LET plain == Uncondensed(api, invalid)
           IN  api' \in {plain} \union (IF CanCondense(plain) THEN {Condensed(plain)} ELSE {})
    /\ chat' = AllSpoiled(chat)
    /\ Reduces
    /\ UNCHANGED <<pending, manual>>

\* condenseContext, at the user's wish while an ask waits: the results at hand
\* are saved as a user message and the history goes to the model ...
BeginManual ==
    /\ open # {} /\ manual = <<>>
    /\ api' = (IF pending = {} THEN api ELSE Append(api, UserMessage))
    /\ manual' = api'
    /\ pending' = {}
    /\ Reduces
    /\ UNCHANGED chat

\* ... and when the model has answered, the condensed form of what it was given
\* becomes the history, whatever was added since.
EndManual ==
    /\ manual # <<>>
    /\ \/ /\ CanCondense(manual)
          /\ api' = Condensed(manual)
          /\ chat' = Append(IF api = manual THEN chat ELSE AllSpoiled(chat), Event("condensed"))
          /\ Tick
       \/ UNCHANGED <<api, chat, now>>
    /\ manual' = <<>>
    /\ UNCHANGED <<pc, calls, open, pending, made, reductions, rewinds>>

(***************************************************************************)
(* Deleting or editing a user message.                                     *)
(***************************************************************************)
\* rewindToTimestamp: offered while a tool asks, even when the stream goes on.
Rewind ==
    /\ pc \in {"stream", "tools"} /\ open # {}
    /\ rewinds < MaxRewinds
    /\ \E i \in DOMAIN chat :
           /\ chat[i].kind = "feedback"
           /\ api' = Rewound(api, chat[i].ts, {chat[j].event : j \in i .. Len(chat)})
           /\ chat' = SpoiledByCut(SubSeq(chat, 1, i - 1), api')
    /\ rewinds' = rewinds + 1
    /\ UNCHANGED <<pc, calls, open, pending, manual, now, made, reductions>>

Next ==
    \/ AddUser \/ StartResponse \/ RunTool \/ AddAssistant
    \/ CondenseBeforeRequest \/ Truncate \/ CondenseOverWindow \/ Uncondense
    \/ BeginManual \/ EndManual \/ Rewind

Spec == Init /\ [][Next]_vars

(***************************************************************************)
(* Properties.                                                             *)
(***************************************************************************)
\* The variables have their types, ids are unique and no message hides itself.
TypeOK ==
    /\ pc \in {"request", "stream", "tools"}
    /\ open \subseteq calls /\ pending \subseteq calls
    /\ \A i, j \in DOMAIN api : i < j => api[i].id # api[j].id
    /\ \A i, j \in DOMAIN chat : i < j => chat[i].ts < chat[j].ts
    /\ \A m \in Range(api) :
           /\ m.role \in {"user", "assistant"} /\ m.kind \in {"plain", "summary", "marker"}
           /\ m.uses # {} => m.role = "assistant"
           /\ m.results # {} => m.role = "user" /\ m.kind = "plain"
           /\ m.id \notin {m.condenseParent, m.truncationParent}

\* Rewinding to a user message (performRewind) brings back exactly the history
\* the provider had seen before that message, once the message is itself in
\* the history, whatever was condensed or truncated, once or again, in between.
RewindRestores ==
    [][Len(chat') < Len(chat) =>
          LET target == chat[Len(chat') + 1]
              saved == \E m \in Range(api) : m.role = "user" /\ m.ts >= target.ts
          IN  target.intact /\ saved => Ids(EffectiveHistory(api')) = target.before]_vars

\* What the provider is not sent any more it has been told of: each message is
\* sent, or a summary that is sent tells of it, unless a truncation hid it or
\* hid the summary (getEffectiveApiHistory, getMessagesSinceLastSummary).  Only
\* an answer none of whose calls has a result after it is left out of a summary.
NothingForgotten ==
    LET told == UNION {m.tells : m \in Range(Sent)}
        truncated == UNION {m.tells : m \in {x \in Range(api) :
                                x.truncationParent \in OfKind(api, "marker")}}
    IN  \A i \in DOMAIN api :
            \/ api[i].tells \subseteq told \union truncated
            \/ /\ api[i].uses # {}
               /\ \A k \in i + 1 .. Len(api) : api[k].results \intersect api[i].uses = {}

\* The last message of the assistant before the i-th of history has all the
\* calls that message answers.
Answers(history, i) ==
    LET answer == SelectLastInSeq(SubSeq(history, 1, i - 1), LAMBDA m : m.role = "assistant")
    IN  answer # 0 /\ history[i].results \subseteq history[answer].uses

\* The r-th message answers the c-th, with nothing but summaries in between, and
\* no truncation has ever hidden the c-th.
AnswersAtOnce(c, r) ==
    /\ c < r /\ api[c].role = "assistant" /\ api[c].kind = "plain" /\ ~ api[c].cut
    /\ api[r].results \subseteq api[c].uses
    /\ \A k \in c + 1 .. r - 1 : api[k].kind = "summary"

\* Hiding messages does not part a tool result from its call: results that
\* directly follow the answer with their calls, and are sent, are sent behind a
\* message of the assistant that has the calls, be it a summary.  A truncation
\* may part them, for it may hide the calls alone.
ResultsHaveCalls ==
    LET sent == Sent
    IN  \A i \in DOMAIN sent :
            /\ sent[i].results # {}
            /\ \E r \in DOMAIN api : api[r].id = sent[i].id /\ \E c \in DOMAIN api : AnswersAtOnce(c, r)
            => Answers(sent, i)
=============================================================================
