---------------------------- MODULE Conversation -----------------------------
(***************************************************************************)
(* The API conversation of a task: what recursivelyMakeClineRequests,      *)
(* resumeTaskFromHistory and the delegation to a subtask (core/task/       *)
(* Task.ts, ClineProvider.ts) write to apiConversationHistory, in memory   *)
(* and on disk, across failed streams, empty responses, retries, closed    *)
(* and reopened tasks.                                                     *)
(*                                                                         *)
(* A token is a piece of information the model is to be told: a user text  *)
(* or the outcome of a tool call (the token of call c is c itself).        *)
(* Environment details, reminders and placeholders carry no token; the     *)
(* text of assistant messages is left out, their tool_use blocks are kept. *)
(***************************************************************************)
EXTENDS ToolResults

CONSTANTS MaxTokens, MaxMessages, MaxCalls, MaxFailures, MaxEmpty, MaxCloses  \* bounds

ASSUME ConversationAssumption ==
    /\ {MaxTokens, MaxMessages, MaxCalls, MaxFailures, MaxEmpty, MaxCloses} \subseteq Nat
    /\ MaxTokens >= 2

VARIABLES native,     \* the task's locked tool protocol is the native one
          autoApproval,  \* autoApprovalEnabled
          mistakeLimit,  \* consecutiveMistakeLimit > 0
          history,    \* apiConversationHistory of the open instance
          disk,       \* the saved api_conversation_history.json
          pc,         \* where the request loop stands; "closed": no open instance
          item,       \* the StackItem being worked on
          mistaken,   \* consecutiveMistakeCount has reached the limit
          called,     \* tool calls of the response, in order
          answered,   \* how many of them have ended
          results,    \* userMessageContent
          used,       \* didAlreadyUseTool
          flushed,    \* a new_task has flushed results and not yet closed the parent
          spawns,     \* the calls whose tool is new_task
          active,     \* subtasks whose history item is "active", named by their call
          reporting,  \* the subtask that wrote its result to disk and reopens the parent
          told,       \* tokens that the open instance has been handed
          clock, failures, empties, closes  \* bounds

vars == <<native, autoApproval, mistakeLimit, history, disk, pc, item, mistaken, called, answered, results, used,
          flushed, spawns, active, reporting, told, clock, failures, empties, closes>>
settings == <<native, autoApproval, mistakeLimit>>
bounds == <<failures, empties, closes>>
response == <<called, answered, results, used, flushed>>
children == <<spawns, active, reporting>>

Text(token) == Block(NoCall, token)
User(content) == Message("user", content)
Assistant(content) == Message("assistant", content)
Reminder == <<Text(NoNews)>>
AllTokens(h) == UNION {TokensOf(h[i].content) : i \in {j \in DOMAIN h : h[j].role = "user"}}
LastRole(h) == IF h = <<>> THEN "none" ELSE Last(h).role

(***************************************************************************)
(* A StackItem: its userContent, and in attempt what retryAttempt and      *)
(* userMessageWasRemoved say: "first" is attempt 0, "again" a retry,       *)
(* "readd" a retry whose message was removed, "resumed" attempt 0 with the *)
(* empty content of a parent reopened by its subtask.                      *)
(***************************************************************************)
Item(content, attempt) == [content |-> content, attempt |-> attempt]
NoItem == Item(<<>>, "resumed")
AddsUserMessage == item.attempt \in {"first", "readd"}

\* Mutant: the content is added as it is.
AddUserMessage_Unchecked(h, content) == Append(h, User(content))

AddUserMessage(h, content) == Append(h, User(ValidResults(content, h)))

Save(h) == /\ history' = h
           /\ disk' = h
\* Mutant: the content index survives the reset.
NoResponse_KeepsCount == called' = <<>> /\ results' = <<>> /\ used' = FALSE
                         /\ flushed' = FALSE /\ UNCHANGED answered

NoResponse == /\ called' = <<>>
              /\ answered' = 0
              /\ results' = <<>>
              /\ used' = FALSE
              /\ flushed' = FALSE
Fresh == /\ clock < MaxTokens
         /\ clock' = clock + 1

Init ==
    /\ native \in BOOLEAN /\ autoApproval \in BOOLEAN /\ mistakeLimit \in BOOLEAN
    /\ history = IF native THEN <<>> ELSE <<User(<<Text(1)>>), Assistant(<<>>)>>
    /\ disk = history
    /\ pc = IF native THEN "start" ELSE "closed"
    /\ item = Item(<<Text(1)>>, "first")
    /\ mistaken = FALSE
    /\ called = <<>> /\ answered = 0 /\ results = <<>> /\ used = FALSE /\ flushed = FALSE
    /\ spawns = {} /\ active = {} /\ reporting = NoCall
    /\ told = {1} /\ clock = 2
    /\ failures = 0 /\ empties = 0 /\ closes = 0

-----------------------------------------------------------------------------
(* The top of the request loop.                                            *)

\* The mistake limit asks for guidance; what the user answers joins the content.
Guidance ==
    /\ pc = "start" /\ mistaken
    /\ mistaken' = FALSE
    /\ \/ /\ Fresh
          /\ item' = [item EXCEPT !.content = Append(@, Text(clock))]
          /\ told' = told \union {clock}
       \/ UNCHANGED <<item, told, clock>>
    /\ UNCHANGED <<settings, history, disk, pc, response, children, bounds>>

\* The user message enters the conversation, unless this attempt finds it there.
SendRequest ==
    /\ pc = "start" /\ ~mistaken
    /\ IF AddsUserMessage
       THEN Len(history) < MaxMessages /\ Save(AddUserMessage(history, item.content))
       ELSE UNCHANGED <<history, disk>>
    /\ pc' = "stream"
    /\ NoResponse
    /\ UNCHANGED <<settings, item, mistaken, children, told, clock, bounds>>

-----------------------------------------------------------------------------
(* The response: tools run while it streams and after it has ended.        *)

StreamToolCall ==
    /\ pc = "stream" /\ Len(called) < MaxCalls
    /\ Fresh
    /\ called' = Append(called, clock)
    /\ spawns' \in {spawns} \union {spawns \union {clock}}
    /\ UNCHANGED <<settings, history, disk, pc, item, mistaken, answered, results, used,
                   flushed,
                   active, reporting, told, bounds>>

\* The next call ends.  One tool a message is executed; later ones are skipped
\* with a result that says so.  Only new_task always executes: another call may
\* be refused by validation (a result, no execution) or, as an accepted
\* attempt_completion, end without a result.
ToolEnds ==
    /\ pc \in {"stream", "tools"} /\ ~flushed /\ answered < Len(called)
    /\ answered' = answered + 1
    /\ LET call == called[answered + 1]
           result == Append(results, Block(IF native THEN call ELSE NoCall, call))
       IN  \/ results' = result /\ used' = TRUE
           \/ call \notin spawns /\ results' = result /\ UNCHANGED used
           \/ call \notin spawns /\ ~used /\ UNCHANGED <<results, used>>
    /\ UNCHANGED <<settings, history, disk, pc, item, mistaken, called, flushed, children,
                   told, clock, bounds>>

\* Stream ends with a response: the assistant message is saved.
StreamEnds ==
    /\ pc = "stream" /\ Len(history) < MaxMessages
    /\ Save(Append(history,
            Assistant(IF native THEN [i \in DOMAIN called |-> Block(called[i], NoNews)] ELSE <<>>)))
    /\ pc' = "tools"
    /\ UNCHANGED <<settings, item, mistaken, response, children, told, clock, bounds>>

\* Mutant: the retry adds its message a second time.
StreamFails_Readds ==
    /\ pc = "stream" /\ ~flushed /\ failures < MaxFailures
    /\ failures' = failures + 1
    /\ item' = [item EXCEPT !.attempt = "readd"]
    /\ pc' = "start"
    /\ mistaken' \in {FALSE, mistakeLimit /\ answered > 0}
    /\ NoResponse
    /\ UNCHANGED <<settings, history, disk, children, told, clock, empties, closes>>

\* Stream breaks: the same content is pushed back, its message stays in the history.
StreamFails ==
    /\ pc = "stream" /\ ~flushed /\ failures < MaxFailures
    /\ failures' = failures + 1
    /\ item' = [item EXCEPT !.attempt = "again"]
    /\ pc' = "start"
    /\ mistaken' \in {FALSE, mistakeLimit /\ answered > 0}
    /\ NoResponse
    /\ UNCHANGED <<settings, history, disk, children, told, clock, empties, closes>>

\* Mutant: the retry does not know that its message was removed.
EmptyResponse_Forgets ==
    /\ pc = "stream" /\ called = <<>> /\ empties < MaxEmpty
    /\ empties' = empties + 1
    /\ history' = IF native /\ LastRole(history) = "user" THEN Front(history) ELSE history
    /\ pc' = "start"
    /\ item' = [item EXCEPT !.attempt = "again"]
    /\ UNCHANGED <<settings, disk, mistaken, response, children, told, clock, failures,
                   closes>>

\* Stream ends without text or calls: the user message is taken out of memory.
EmptyResponse ==
    /\ pc = "stream" /\ called = <<>> /\ empties < MaxEmpty
    /\ empties' = empties + 1
    /\ history' = IF native /\ LastRole(history) = "user" THEN Front(history) ELSE history
    /\ IF autoApproval
       THEN /\ pc' = "start"
            /\ item' = [item EXCEPT !.attempt = "readd"]
       ELSE /\ pc' = "decide"
            /\ UNCHANGED item
    /\ UNCHANGED <<settings, disk, mistaken, response, children, told, clock, failures,
                   closes>>

\* The user answers api_req_failed with yes: the same content is pushed back.
RetryByHand ==
    /\ pc = "decide"
    /\ pc' = "start"
    /\ item' = [item EXCEPT !.attempt = "again"]
    /\ UNCHANGED <<settings, history, disk, mistaken, response, children, told, clock,
                   bounds>>

\* Or with no: the exchange is recorded as failed and the loop goes on.
GiveUp ==
    /\ pc = "decide" /\ Len(history) + 1 < MaxMessages
    /\ LET asked == IF native THEN AddUserMessage(history, item.content) ELSE history
       IN  Save(Append(asked, Assistant(<<>>)))
    /\ pc' = "start"
    /\ item' = Item(Reminder, "first")
    /\ UNCHANGED <<settings, mistaken, response, children, told, clock, bounds>>

\* Every tool has ended: their results are the next item.  The turn may have
\* brought consecutiveMistakeCount to its limit.
NextItem ==
    /\ pc = "tools" /\ answered = Len(called)
    /\ item' = Item(IF results = <<>> THEN Reminder ELSE results, "first")
    /\ told' = told \union TokensOf(results)
    /\ mistaken' \in {FALSE, mistakeLimit}
    /\ pc' = "start"
    /\ UNCHANGED <<settings, history, disk, response, children, clock, bounds>>

-----------------------------------------------------------------------------
(* A task is closed (cancelled, replaced, lost with its window) and resumed. *)

Forget ==
    /\ pc' = "closed"
    /\ history' = <<>> /\ item' = NoItem /\ mistaken' = FALSE /\ told' = {}
    /\ NoResponse

Close ==
    /\ pc # "closed" /\ closes < MaxCloses
    /\ closes' = closes + 1
    /\ Forget
    /\ UNCHANGED <<settings, disk, children, clock, failures, empties>>

\* resumeTaskFromHistory: the last user message is taken back into the content.
Resume ==
    /\ pc = "closed" /\ reporting = NoCall
    /\ LET byUser == LastRole(disk) = "user"
           kept == IF byUser THEN Front(disk) ELSE disk
           old == IF byUser THEN Last(disk).content ELSE <<>>
           calls == IF LastRole(kept) = "assistant" THEN Last(kept).content ELSE <<>>
           content == old \o Unanswered(old, calls)
       IN  /\ Save(kept)
           /\ \/ /\ Fresh
                 /\ item' = Item(Append(content, Text(clock)), "first")
              \/ /\ item' = Item(IF content = <<>> THEN Reminder ELSE content, "first")
                 /\ UNCHANGED clock
           /\ told' = AllTokens(kept) \union TokensOf(item'.content)
    /\ pc' = "start"
    /\ UNCHANGED <<settings, mistaken, response, children, bounds>>

-----------------------------------------------------------------------------
(* new_task: the parent is closed, the subtask's result reopens it.        *)

\* delegateParentAndOpenChild: results of earlier calls are saved ...
FlushResults ==
    /\ pc \in {"stream", "tools"} /\ ~flushed /\ ~used
    /\ answered < Len(called) /\ called[answered + 1] \in spawns
    /\ IF results = <<>> THEN UNCHANGED <<history, disk>>
       ELSE Save(AddUserMessage(history, results))
    /\ told' = told \union TokensOf(results)
    /\ results' = <<>>
    /\ flushed' = TRUE
    /\ UNCHANGED <<settings, pc, item, mistaken, called, answered, used, children, clock,
                   bounds>>

\* ... then the parent is disposed and the subtask created.
OpenChild ==
    /\ flushed
    /\ active' = active \union {called[answered + 1]}
    /\ Forget
    /\ UNCHANGED <<settings, disk, spawns, reporting, clock, bounds>>

\* The new_task call a reopened conversation is searched for: the first in the
\* last assistant message that has one.
LastSpawn(h) ==
    LET spawning == {i \in DOMAIN h : h[i].role = "assistant"
                                      /\ CallsIn(h[i].content) \intersect spawns # {}}
    IN  IF spawning = {} THEN NoCall
        ELSE Min(CallsIn(h[Max(spawning)].content) \intersect spawns)

\* The conversation with the subtask's result: in the result block the last
\* message has for that call, else in a user message of its own.
WithResult(h, child) ==
    LET call == LastSpawn(h)
        content == IF h = <<>> THEN <<>> ELSE Last(h).content
        filled == [i \in DOMAIN content |->
                     IF content[i].call = call THEN Block(call, child) ELSE content[i]]
    IN  IF call # NoCall /\ LastRole(h) = "user" /\ call \in CallsIn(content)
        THEN Append(Front(h), User(ValidResults(filled, Front(h))))
        ELSE AddUserMessage(h, <<Block(call, child)>>)

\* reopenParentFromDelegation: an active subtask completes and its result is saved ...
ChildReports(child) ==
    /\ pc = "closed" /\ reporting = NoCall
    /\ disk' = WithResult(disk, child)
    /\ reporting' = child
    /\ UNCHANGED <<settings, history, pc, item, mistaken, response, spawns, active, told,
                   clock, bounds>>

\* ... then the subtask's status, and the parent continues with empty content.
ReopenParent ==
    /\ reporting # NoCall
    /\ active' = active \ {reporting}
    /\ reporting' = NoCall
    /\ history' = disk
    /\ pc' = "start"
    /\ item' = Item(<<>>, "resumed")
    /\ told' = AllTokens(disk) \union {reporting}
    /\ UNCHANGED <<settings, disk, mistaken, response, spawns, clock, bounds>>

\* The window is lost between the two.
ReopenLost ==
    /\ reporting # NoCall /\ closes < MaxCloses
    /\ closes' = closes + 1
    /\ reporting' = NoCall
    /\ UNCHANGED <<settings, history, disk, pc, item, mistaken, response, spawns, active,
                   told, clock, failures, empties>>

-----------------------------------------------------------------------------
Next ==
    \/ Guidance
    \/ SendRequest
    \/ StreamToolCall
    \/ ToolEnds
    \/ StreamEnds
    \/ StreamFails
    \/ EmptyResponse
    \/ RetryByHand
    \/ GiveUp
    \/ NextItem
    \/ Close
    \/ Resume
    \/ FlushResults
    \/ OpenChild
    \/ \E child \in active : ChildReports(child)
    \/ ReopenParent
    \/ ReopenLost

Spec == Init /\ [][Next]_vars

-----------------------------------------------------------------------------
Blocks == [call : 0 .. MaxTokens, token : 0 .. MaxTokens]
Messages == [role : {"user", "assistant"}, content : Seq(Blocks)]

\* Every variable has its type.
TypeOK ==
    /\ history \in Seq(Messages) /\ disk \in Seq(Messages)
    /\ pc \in {"start", "stream", "tools", "decide", "closed"}
    /\ item \in [content : Seq(Blocks), attempt : {"first", "again", "readd", "resumed"}]
    /\ {native, autoApproval, mistakeLimit, mistaken, used, flushed} \subseteq BOOLEAN
    /\ called \in Seq(1 .. MaxTokens) /\ answered \in 0 .. Len(called)
    /\ results \in Seq(Blocks)
    /\ spawns \subseteq 1 .. MaxTokens /\ active \subseteq spawns
    /\ reporting \in {NoCall} \union active
    /\ told \subseteq 1 .. MaxTokens /\ clock \in 1 .. MaxTokens
    /\ failures \in 0 .. MaxFailures /\ empties \in 0 .. MaxEmpty /\ closes \in 0 .. MaxCloses

\* A request shows the model everything the open task has been handed: the
\* user's texts, its guidance, every tool result and every subtask's result
\* ("Push the same content back to retry").
RequestHasEverything == pc = "stream" => told \subseteq AllTokens(history)

\* That holds, whatever was retried, resumed or reopened on the way, as long as
\* an empty response is retried automatically and in a task without subtasks,
\* no guidance was asked for at the retry of a broken stream, and the task is
\* not about to be closed for a delegation.
NothingLost ==
    /\ empties > 0 => autoApproval /\ spawns = {}
    /\ mistakeLimit => failures = 0
    /\ ~flushed
    => RequestHasEverything

\* Results that are flushed when the response is complete all reach the
\* conversation, each as the answer to its own call ("We only need to flush the
\* pending user message with tool_results").  When new_task is executed while
\* the response streams, the message they answer is not there yet, and they are
\* checked against the one before: then they may be lost.
FlushKeepsResults ==
    [][~flushed /\ flushed' /\ pc = "tools" => TokensOf(results) \subseteq AllTokens(history')]_vars

\* The messages of a request alternate between user and assistant and end with
\* the user's ("This prevents consecutive user messages while allowing re-add
\* when needed"); a delegation while the response streams, a retry by hand and
\* an empty response under the XML protocol can break this.
RolesAlternate ==
    pc = "stream" /\ spawns = {} /\ (empties > 0 => autoApproval /\ native) =>
        /\ LastRole(history) = "user"
        /\ \A i \in 1 .. Len(history) - 1 : history[i].role # history[i + 1].role

\* In a request every tool call of an assistant message is answered once, by
\* the message that follows it, which answers nothing else (the task having
\* delegated nothing, and empty responses being retried automatically).
CallsAnswered ==
    pc = "stream" /\ native /\ spawns = {} /\ (empties > 0 => autoApproval) =>
        \A i \in 1 .. Len(history) - 1 : history[i].role = "assistant" =>
            /\ CallsIn(history[i + 1].content) = CallsIn(history[i].content)
            /\ \A j, k \in DOMAIN history[i + 1].content :
                  /\ history[i + 1].content[j].call = history[i + 1].content[k].call
                  /\ history[i + 1].content[j].call # NoCall
                  => j = k
=============================================================================
