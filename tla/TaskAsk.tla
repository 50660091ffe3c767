------------------------------ MODULE TaskAsk ------------------------------
(***************************************************************************)
(* The ask protocol of a task (src/core/task/Task.ts): a task blocks on a  *)
(* question, "ask", until the webview, the auto-approval settings, an      *)
(* auto-approval timer or the message queue answers it.                    *)
(*                                                                         *)
(* All questions of a task share ONE answer slot (askResponse) and ONE     *)
(* notion of the question being asked (lastMessageTs).  Two call sites may *)
(* be inside ask() at the same time: the agent, which runs the tools of a  *)
(* response one after the other, and the output callback of a terminal     *)
(* command (ExecuteCommandTool.ts), which the agent may have left running. *)
(*                                                                         *)
(* Every JavaScript run-to-completion segment between two awaits that can  *)
(* be preempted by a timer, a webview message or another call is one       *)
(* action.  Texts and images are abstracted; a user's message is its       *)
(* number.                                                                 *)
(***************************************************************************)
EXTENDS Integers, Sequences, FiniteSets

CONSTANTS
    AskTypes,   \* the kinds of question the agent asks
    MaxTs,      \* bound on the clock (milliseconds, abstracted)
    MaxSends    \* bound on the messages the user sends from the webview

\* The kinds of question, packages/types/src/message.ts
InteractiveAsks  == {"followup", "command", "tool", "browser_action_launch", "use_mcp_server"}
ResumableAsks    == {"resume_task"}
IdleAsks         == {"completion_result", "api_req_failed", "mistake_limit_reached"}
NonBlockingAsks  == {"command_output"}
ClineAsk         == InteractiveAsks \cup ResumableAsks \cup IdleAsks \cup NonBlockingAsks

\* asks a queued message approves instead of merely answering
ToolApprovalAsks == {"tool", "command", "browser_action_launch", "use_mcp_server"}

ASSUME AskTypesAssumption == AskTypes \subseteq ClineAsk \ NonBlockingAsks
ASSUME BoundsAssumption   == MaxTs \in Nat \ {0} /\ MaxSends \in Nat

None == 0                              \* no timestamp, no message: both start at 1
Say  == "say"                          \* the kind of a message that is not an ask
Ts   == 1..MaxTs
Sends == 1..MaxSends
Replies == {"yesButtonClicked", "noButtonClicked", "messageResponse"}
Sources == {"user", "queue", "auto", "timer", "yolo"}

\* One entry of clineMessages.
Message == [ts: Ts, kind: ClineAsk \cup {Say}, partial: BOOLEAN, isAnswered: BOOLEAN]

\* The answer slot: what was answered, by whom, to which ask (the one the
\* webview displayed when the user clicked, the one the settings decided
\* about) and with which user message.
Answer   == [reply: Replies, src: Sources, for: Ts \cup {None}, id: Sends \cup {None}]
NoAnswer == [reply |-> "none", src |-> "none", for |-> None, id |-> None]

Calls == {"agent", "output"}

VARIABLES
    clock,              \* Date.now()
    abort,              \* Task.abort
    clineMessages,      \* Task.clineMessages
    lastMessageTs,      \* Task.lastMessageTs: the ask that may take the answer
    askResponse,        \* Task.askResponse, askResponseText, askResponseImages
    call,               \* per call site, where its ask() stands
    autoTimers,         \* asks whose auto-approval timer is pending
    autoApprovalTimeoutRef, \* the one such timer the task can still cancel
    statusTimers,       \* asks whose 2 s status timer is pending
    statusAsk,          \* Task.interactiveAsk, resumableAsk, idleAsk
    queue,              \* MessageQueueService._messages
    wire,               \* webview messages the extension has not handled yet
    sends,              \* how many messages the user has sent
    command,            \* the terminal command the agent runs
    returned,           \* history: the asks that returned, with their answers
    denied              \* history: asks the settings denied

vars == <<clock, abort, clineMessages, lastMessageTs, askResponse, call,
          autoTimers, autoApprovalTimeoutRef, statusTimers, statusAsk, queue,
          wire, sends, command, returned, denied>>

timers == <<autoTimers, autoApprovalTimeoutRef, statusTimers>>
webview == <<queue, wire, sends>>
history == <<returned, denied>>

StatusKinds == {"interactive", "resumable", "idle"}
CallPcs     == {"idle", "stamp", "decide", "wait", "approved", "running"}
CommandPcs  == {"none", "running", "background", "done"}

\* Where a call site stands: which ask, and from which step of ask().
CallState   == [pc: CallPcs, type: ClineAsk, partial: BOOLEAN, ts: Ts \cup {None}]
WebviewMessage == [kind: {"askResponse", "queueMessage"}, reply: Replies,
                   for: Ts \cup {None}, id: Sends]
ReturnedAsk == [call: Calls, ts: Ts, type: ClineAsk, answer: Answer]

TypeOK ==
    /\ clock \in Ts
    /\ abort \in BOOLEAN
    /\ clineMessages \in Seq(Message)
    /\ lastMessageTs \in Ts \cup {None}
    /\ askResponse \in Answer \cup {NoAnswer}
    /\ call \in [Calls -> CallState]
    /\ autoTimers \subseteq Ts
    /\ autoApprovalTimeoutRef \in Ts \cup {None}
    /\ statusTimers \subseteq Ts
    /\ statusAsk \in [StatusKinds -> Ts \cup {None}]
    /\ queue \in Seq(Sends)
    /\ wire \subseteq WebviewMessage
    /\ sends \in 0..MaxSends
    /\ command \in [pc: CommandPcs, asked: BOOLEAN]
    /\ returned \subseteq ReturnedAsk
    /\ denied \subseteq Ts

Idle(c) == [pc |-> "idle", type |-> call[c].type, partial |-> FALSE, ts |-> None]

Init ==
    /\ clock = 1
    /\ abort = FALSE
    /\ clineMessages = <<>>
    /\ lastMessageTs = None
    /\ askResponse = NoAnswer
    /\ call = [c \in Calls |-> [pc |-> "idle", type |-> "command_output",
                                partial |-> FALSE, ts |-> None]]
    /\ autoTimers = {} /\ autoApprovalTimeoutRef = None
    /\ statusTimers = {}
    /\ statusAsk = [k \in StatusKinds |-> None]
    /\ queue = <<>> /\ wire = {} /\ sends = 0
    /\ command = [pc |-> "none", asked |-> FALSE]
    /\ returned = {} /\ denied = {}

-----------------------------------------------------------------------------
(* Messages                                                                *)

LastMessage == clineMessages[Len(clineMessages)]
LastTs      == IF clineMessages = <<>> THEN None ELSE LastMessage.ts

\* Mutant: A timestamp that may equal the last message's.
TimestampFree_Equal == clock >= LastTs

\* nextClineMessageTimestamp_kilocode: Date.now(), once it has passed the
\* last message.  An action that stamps a message is enabled only then.
TimestampFree == clock > LastTs

Post(kind, partial) ==
    clineMessages' = Append(clineMessages, [ts |-> clock, kind |-> kind,
                                            partial |-> partial, isAnswered |-> FALSE])

UpdatesPreviousPartial(type) ==
    /\ clineMessages # <<>>
    /\ LastMessage.partial
    /\ LastMessage.kind = type

\* The last follow-up question no answer has marked yet.
IsLastOpenFollowup(i) ==
    /\ clineMessages[i].kind = "followup" /\ ~clineMessages[i].isAnswered
    /\ \A j \in DOMAIN clineMessages :
          (clineMessages[j].kind = "followup" /\ ~clineMessages[j].isAnswered) => j <= i

MarkAnswered(reply) ==
    IF reply = "noButtonClicked"
      THEN clineMessages
      ELSE [i \in DOMAIN clineMessages |->
              IF IsLastOpenFollowup(i)
                THEN [clineMessages[i] EXCEPT !.isAnswered = TRUE]
                ELSE clineMessages[i]]

-----------------------------------------------------------------------------
(* ask(): from the call to the registered question                         *)

\* ask(type, text, partial): the answer slot is emptied, then the call waits
\* for a free timestamp.  A partial question leaves the slot alone.
BeginAsk(c, type, partial) ==
    /\ ~abort
    /\ call[c].pc = "idle"
    /\ partial => ~UpdatesPreviousPartial(type)
    /\ call' = [call EXCEPT ![c] = [pc |-> "stamp", type |-> type,
                                    partial |-> partial, ts |-> None]]
    /\ askResponse' = IF partial THEN askResponse ELSE NoAnswer
    /\ UNCHANGED <<clock, abort, clineMessages, lastMessageTs, timers, statusAsk,
                   webview, command, history>>

\* ask(type, text, false) that completes the partial question shown last: it
\* keeps that question's timestamp.
CompletePartial(c, type) ==
    /\ ~abort
    /\ call[c].pc = "idle"
    /\ UpdatesPreviousPartial(type)
    /\ askResponse' = NoAnswer
    /\ lastMessageTs' = LastTs
    /\ clineMessages' = [clineMessages EXCEPT ![Len(clineMessages)].partial = FALSE]
    /\ call' = [call EXCEPT ![c] = [pc |-> "decide", type |-> type,
                                    partial |-> FALSE, ts |-> LastTs]]
    /\ UNCHANGED <<clock, abort, timers, statusAsk, webview, command, history>>

\* The timestamp is there: the question becomes the one being asked.  A
\* partial question then ends in AskIgnoredError("new partial").
Stamp(c) ==
    /\ call[c].pc = "stamp"
    /\ TimestampFree
    /\ lastMessageTs' = clock
    /\ Post(call[c].type, call[c].partial)
    /\ call' = [call EXCEPT ![c] = IF call[c].partial THEN Idle(c)
                                   ELSE [@ EXCEPT !.pc = "decide", !.ts = clock]]
    /\ UNCHANGED <<clock, abort, askResponse, timers, statusAsk, webview, command, history>>
-----------------------------------------------------------------------------
(* ask(): the decision, and the wait                                       *)

\* checkAutoApproval, and YOLO mode for a follow-up.  The settings and the
\* question's text, which select one of these, may be anything.
Decisions(type) ==
    CASE type = "command_output"           -> {"approve"}
      [] type = "followup"                 -> {"ask", "timeout", "yolo"}
      [] type = "command"                  -> {"ask", "approve", "deny"}
      [] type \in ToolApprovalAsks \ {"command"} -> {"ask", "approve"}
      [] OTHER                             -> {"ask"}

\* What the settings put in the answer slot: approveAsk, denyAsk, or nothing.
AutoAnswer(decision, ts) ==
    CASE decision = "approve" -> [reply |-> "yesButtonClicked", src |-> "auto", for |-> ts, id |-> None]
      [] decision = "deny"    -> [reply |-> "noButtonClicked",  src |-> "auto", for |-> ts, id |-> None]
      [] OTHER                -> askResponse

\* A queued message approves a tool and answers any other question.
QueuedAnswer(type, ts) ==
    [reply |-> IF type \in ToolApprovalAsks THEN "yesButtonClicked" ELSE "messageResponse",
     src |-> "queue", for |-> ts, id |-> Head(queue)]

StatusKind(type) ==
    CASE type \in InteractiveAsks -> "interactive"
      [] type \in ResumableAsks   -> "resumable"
      [] OTHER                    -> "idle"

\* Mutant: The timer's handle is forgotten but the timer is not stopped.
CancelReachable_Forgets(pending, ref) == pending

\* handleWebviewAskResponse cancels the auto-approval timer the task can
\* still reach, whichever ask started it.
CancelReachable(pending, ref) == pending \ {ref}

\* What the caller does with its answer: a command that was approved is run;
\* the agent goes on without its command once the output was answered in words.
ActOnAnswer(c, answer) ==
    LET approved == c = "agent" /\ call[c].type = "command" /\ answer.reply = "yesButtonClicked"
        goesOn   == c = "output" /\ answer.reply = "messageResponse" /\ command.pc = "running"
    IN /\ command' = IF goesOn THEN [command EXCEPT !.pc = "background"] ELSE command
       /\ call' = [d \in Calls |->
             IF d = c THEN [Idle(c) EXCEPT !.pc = IF approved THEN "approved" ELSE "idle"]
             ELSE IF d = "agent" /\ goesOn THEN Idle(d) ELSE call[d]]

\* Mutant: An ask that does not notice it was superseded by an older timestamp only.
Superseded_Never(c) == FALSE

\* The end of the wait, with `answer' in the slot and these timers pending.
\* A call whose question is no longer the current one throws
\* AskIgnoredError("superseded") and leaves its timers and the slot alone.
Superseded(c) == lastMessageTs # call[c].ts

Ignored(c, answer, auto, ref) ==
    /\ Superseded(c)
    /\ askResponse' = answer
    /\ call' = [call EXCEPT ![c] = Idle(c)]
    /\ autoTimers' = auto /\ autoApprovalTimeoutRef' = ref
    /\ UNCHANGED <<statusTimers, statusAsk, command, returned>>

\* Mutant: the wait resolves without looking whether there is an answer.
Answered_Unchecked(c, answer, auto, ref) ==
    /\ ~Superseded(c)
    /\ returned' = returned \cup {[call |-> c, ts |-> call[c].ts, type |-> call[c].type,
                                   answer |-> answer]}
    /\ askResponse' = NoAnswer
    /\ autoTimers' = auto \ {call[c].ts} /\ autoApprovalTimeoutRef' = ref
    /\ statusTimers' = statusTimers \ {call[c].ts}
    /\ statusAsk' = [k \in StatusKinds |-> None]
    /\ ActOnAnswer(c, answer)

\* Otherwise it takes the answer, stops its own timers and clears the status.
Answered(c, answer, auto, ref) ==
    /\ ~Superseded(c)
    /\ answer # NoAnswer
    /\ returned' = returned \cup {[call |-> c, ts |-> call[c].ts, type |-> call[c].type,
                                   answer |-> answer]}
    /\ askResponse' = NoAnswer
    /\ autoTimers' = auto \ {call[c].ts} /\ autoApprovalTimeoutRef' = ref
    /\ statusTimers' = statusTimers \ {call[c].ts}
    /\ statusAsk' = [k \in StatusKinds |-> None]
    /\ ActOnAnswer(c, answer)

\* No answer yet: the call blocks, with a status timer if it may show one.
Blocks(c, answer, decision, auto, ref) ==
    /\ ~Superseded(c)
    /\ answer = NoAnswer
    /\ askResponse' = answer
    /\ call' = [call EXCEPT ![c].pc = "wait"]
    /\ autoTimers' = auto /\ autoApprovalTimeoutRef' = ref
    /\ statusTimers' = IF decision = "ask" THEN statusTimers \cup {call[c].ts} ELSE statusTimers
    /\ UNCHANGED <<statusAsk, command, returned>>

\* After the settings were read: the automatic answer, then a queued message
\* over it, then the first look at the slot.
Decide(c, decision) ==
    LET ts       == call[c].ts
        queued   == queue # <<>>
        auto     == AutoAnswer(decision, ts)
        answer   == IF queued THEN QueuedAnswer(call[c].type, ts) ELSE auto
        handled  == queued \/ decision \in {"approve", "deny"}
        started  == IF decision = "timeout" THEN autoTimers \cup {ts} ELSE autoTimers
        ref      == IF decision = "timeout" THEN ts ELSE autoApprovalTimeoutRef
        pending  == IF handled THEN CancelReachable(started, ref) ELSE started
        refAfter == IF handled THEN None ELSE ref
    IN /\ call[c].pc = "decide"
       /\ decision \in Decisions(call[c].type) \ {"yolo"}
       /\ denied' = IF decision = "deny" THEN denied \cup {ts} ELSE denied
       /\ queue' = IF queued THEN Tail(queue) ELSE queue
       /\ clineMessages' = IF handled THEN MarkAnswered(answer.reply) ELSE clineMessages
       /\ \/ Ignored(c, answer, pending, refAfter)
          \/ Answered(c, answer, pending, refAfter)
          \/ Blocks(c, answer, decision, pending, refAfter)
       /\ UNCHANGED <<clock, abort, lastMessageTs, wire, sends>>

\* YOLO mode answers a follow-up with its first suggestion and returns at once.
DecideYolo(c) ==
    /\ call[c].pc = "decide"
    /\ "yolo" \in Decisions(call[c].type)
    /\ autoTimers' = CancelReachable(autoTimers, autoApprovalTimeoutRef)
    /\ autoApprovalTimeoutRef' = None
    /\ clineMessages' = MarkAnswered("messageResponse")
    /\ returned' = returned \cup
         {[call |-> c, ts |-> call[c].ts, type |-> call[c].type,
           answer |-> [reply |-> "messageResponse", src |-> "yolo", for |-> call[c].ts, id |-> None]]}
    /\ askResponse' = NoAnswer
    /\ call' = [call EXCEPT ![c] = Idle(c)]
    /\ UNCHANGED <<clock, abort, lastMessageTs, statusTimers, statusAsk, webview, command, denied>>

\* Mutant: The wait looks at the answer slot only.
Poll_IgnoresSupersession(c) ==
    /\ call[c].pc = "wait"
    /\ Answered(c, askResponse, autoTimers, autoApprovalTimeoutRef)
    /\ UNCHANGED <<clock, abort, lastMessageTs, clineMessages, webview, denied>>

\* The poll that blocks: the slot is looked at every 100 ms.
Poll(c) ==
    /\ call[c].pc = "wait"
    /\ \/ Ignored(c, askResponse, autoTimers, autoApprovalTimeoutRef)
       \/ Answered(c, askResponse, autoTimers, autoApprovalTimeoutRef)
    /\ UNCHANGED <<clock, abort, lastMessageTs, clineMessages, webview, denied>>

\* Mutant: The message is read but stays in the queue.
ConsumeQueued_Peek(c) ==
    /\ call[c].pc = "wait"
    /\ ~Superseded(c) /\ askResponse = NoAnswer
    /\ queue # <<>>
    /\ askResponse' = QueuedAnswer(call[c].type, call[c].ts)
    /\ autoTimers' = CancelReachable(autoTimers, autoApprovalTimeoutRef)
    /\ autoApprovalTimeoutRef' = None
    /\ clineMessages' = MarkAnswered(QueuedAnswer(call[c].type, call[c].ts).reply)
    /\ UNCHANGED <<clock, abort, lastMessageTs, call, statusTimers, statusAsk, webview,
                   command, history>>

\* Mutant: The wait looks at the queue only once, before it starts.
ConsumeQueued_Never(c) == call[c].pc = "wait" /\ FALSE /\ UNCHANGED vars

\* A poll that finds no answer takes one from the queue; the next poll sees it.
ConsumeQueued(c) ==
    /\ call[c].pc = "wait"
    /\ ~Superseded(c) /\ askResponse = NoAnswer
    /\ queue # <<>>
    /\ askResponse' = QueuedAnswer(call[c].type, call[c].ts)
    /\ queue' = Tail(queue)
    /\ autoTimers' = CancelReachable(autoTimers, autoApprovalTimeoutRef)
    /\ autoApprovalTimeoutRef' = None
    /\ clineMessages' = MarkAnswered(QueuedAnswer(call[c].type, call[c].ts).reply)
    /\ UNCHANGED <<clock, abort, lastMessageTs, call, statusTimers, statusAsk, wire, sends,
                   command, history>>

-----------------------------------------------------------------------------
(* Timers                                                                  *)

\* The auto-approval timer of the ask at ts: it answers whatever is asked now.
FireAuto(ts) ==
    /\ ts \in autoTimers
    /\ autoTimers' = CancelReachable(autoTimers \ {ts}, autoApprovalTimeoutRef)
    /\ autoApprovalTimeoutRef' = None
    /\ askResponse' = [reply |-> "messageResponse", src |-> "timer", for |-> ts, id |-> None]
    /\ clineMessages' = MarkAnswered("messageResponse")
    /\ UNCHANGED <<clock, abort, lastMessageTs, call, statusTimers, statusAsk, webview,
                   command, history>>

KindAt(ts) == LET i == CHOOSE i \in DOMAIN clineMessages : clineMessages[i].ts = ts
              IN clineMessages[i].kind

\* The status timer of the ask at ts: the task now shows that it is waiting.
FireStatus(ts) ==
    /\ ts \in statusTimers
    /\ statusTimers' = statusTimers \ {ts}
    /\ statusAsk' = [statusAsk EXCEPT ![StatusKind(KindAt(ts))] = ts]
    /\ UNCHANGED <<clock, abort, clineMessages, lastMessageTs, askResponse, call, autoTimers,
                   autoApprovalTimeoutRef, webview, command, history>>

Tick ==
    /\ clock < MaxTs
    /\ clock' = clock + 1
    /\ UNCHANGED <<abort, clineMessages, lastMessageTs, askResponse, call, timers, statusAsk,
                   webview, command, history>>

-----------------------------------------------------------------------------
(* The user: messages the webview sends, and their handlers                *)

\* The webview answers the complete ask it shows, and queues a message while
\* the task is busy or the queue is not empty.
Send(kind, reply) ==
    /\ sends < MaxSends
    /\ kind = "askResponse" => /\ clineMessages # <<>>
                               /\ LastMessage.kind # Say /\ ~LastMessage.partial
    /\ kind = "queueMessage" => reply = "messageResponse"
    /\ sends' = sends + 1
    /\ wire' = wire \cup {[kind |-> kind, reply |-> reply, id |-> sends + 1,
                           for |-> IF kind = "askResponse" THEN LastTs ELSE None]}
    /\ UNCHANGED <<clock, abort, clineMessages, lastMessageTs, askResponse, call, timers,
                   statusAsk, queue, command, history>>

\* "askResponse": handleUserWebviewAskResponse, whatever is asked by now.
HandleAskResponse(m) ==
    /\ m \in wire /\ m.kind = "askResponse"
    /\ wire' = wire \ {m}
    /\ autoTimers' = CancelReachable(autoTimers, autoApprovalTimeoutRef)
    /\ autoApprovalTimeoutRef' = None
    /\ askResponse' = [reply |-> m.reply, src |-> "user", for |-> m.for, id |-> m.id]
    /\ clineMessages' = MarkAnswered(m.reply)
    /\ UNCHANGED <<clock, abort, lastMessageTs, call, statusTimers, statusAsk, queue, sends,
                   command, history>>

\* "queueMessage": MessageQueueService.addMessage.
HandleQueueMessage(m) ==
    /\ m \in wire /\ m.kind = "queueMessage"
    /\ wire' = wire \ {m}
    /\ queue' = Append(queue, m.id)
    /\ UNCHANGED <<clock, abort, clineMessages, lastMessageTs, askResponse, call, timers,
                   statusAsk, sends, command, history>>

\* "removeQueuedMessage": MessageQueueService.removeMessage.
RemoveQueued(i) ==
    /\ i \in DOMAIN queue
    /\ queue' = SubSeq(queue, 1, i - 1) \o SubSeq(queue, i + 1, Len(queue))
    /\ UNCHANGED <<clock, abort, clineMessages, lastMessageTs, askResponse, call, timers,
                   statusAsk, wire, sends, command, history>>

\* "cancelAutoApproval": the user started to type.
CancelAutoApprovalTimeout ==
    /\ autoApprovalTimeoutRef # None
    /\ autoTimers' = CancelReachable(autoTimers, autoApprovalTimeoutRef)
    /\ autoApprovalTimeoutRef' = None
    /\ UNCHANGED <<clock, abort, clineMessages, lastMessageTs, askResponse, call, statusTimers,
                   statusAsk, webview, command, history>>

\* After an edit, the agent resubmits the first queued message: the webview
\* sends it as if the user had, to the ask it shows or back to the queue.
ProcessQueuedMessages ==
    /\ call["agent"].pc = "idle"
    /\ queue # <<>>
    /\ queue' = Tail(queue)
    /\ \E kind \in {"askResponse", "queueMessage"} :
          /\ kind = "askResponse" => /\ clineMessages # <<>>
                                     /\ LastMessage.kind # Say /\ ~LastMessage.partial
          /\ wire' = wire \cup {[kind |-> kind, reply |-> "messageResponse", id |-> Head(queue),
                                 for |-> IF kind = "askResponse" THEN LastTs ELSE None]}
    /\ UNCHANGED <<clock, abort, clineMessages, lastMessageTs, askResponse, call, timers,
                   statusAsk, sends, command, history>>

-----------------------------------------------------------------------------
(* The agent and its terminal command                                      *)

\* say(): interactive messages also end the current ask.
SayInteractive ==
    /\ ~abort
    /\ call["agent"].pc \in {"idle", "approved"}
    /\ TimestampFree
    /\ Post(Say, FALSE)
    /\ lastMessageTs' = clock
    /\ UNCHANGED <<clock, abort, askResponse, call, timers, statusAsk, webview, command, history>>

\* say() with isNonInteractive (checkpoints, condensing): at any time.
SayNonInteractive ==
    /\ ~abort
    /\ TimestampFree
    /\ Post(Say, FALSE)
    /\ UNCHANGED <<clock, abort, lastMessageTs, askResponse, call, timers, statusAsk, webview,
                   command, history>>

\* An approved command starts; the agent waits for it.
RunCommand ==
    /\ call["agent"].pc = "approved"
    /\ command.pc \in {"none", "done"}
    /\ command' = [pc |-> "running", asked |-> FALSE]
    /\ call' = [call EXCEPT !["agent"].pc = "running"]
    /\ UNCHANGED <<clock, abort, clineMessages, lastMessageTs, askResponse, timers, statusAsk,
                   webview, history>>

\* The command cannot start (no such directory), or only after another one.
SkipCommand ==
    /\ call["agent"].pc = "approved"
    /\ call' = [call EXCEPT !["agent"] = Idle("agent")]
    /\ UNCHANGED <<clock, abort, clineMessages, lastMessageTs, askResponse, timers, statusAsk,
                   webview, command, history>>

\* onLine: the first output asks whether to go on (once per execution).
CommandOutput ==
    /\ command.pc = "running" /\ ~command.asked
    /\ ~abort
    /\ call["output"].pc = "idle"
    /\ command' = [command EXCEPT !.asked = TRUE]
    /\ askResponse' = NoAnswer
    /\ call' = [call EXCEPT !["output"] = [pc |-> "stamp", type |-> "command_output",
                                           partial |-> FALSE, ts |-> None]]
    /\ UNCHANGED <<clock, abort, clineMessages, lastMessageTs, timers, statusAsk, webview, history>>

\* "terminalOperation: continue": the user lets the agent go on without the
\* command, whose line listeners are removed.
ContinueInBackground ==
    /\ command.pc = "running"
    /\ command' = [command EXCEPT !.pc = "background"]
    /\ call' = [call EXCEPT !["agent"] = Idle("agent")]
    /\ UNCHANGED <<clock, abort, clineMessages, lastMessageTs, askResponse, timers, statusAsk,
                   webview, history>>

\* onCompleted: the output is said, as an interactive message, whoever waits.
CommandCompletes ==
    /\ command.pc \in {"running", "background"}
    /\ command' = [command EXCEPT !.pc = "done"]
    /\ call' = IF command.pc = "running" THEN [call EXCEPT !["agent"] = Idle("agent")] ELSE call
    /\ IF abort
         THEN UNCHANGED <<clineMessages, lastMessageTs>>
         ELSE TimestampFree /\ Post(Say, FALSE) /\ lastMessageTs' = clock
    /\ UNCHANGED <<clock, abort, askResponse, timers, statusAsk, webview, history>>

\* Shell integration failed: warn, supersede the ask of the first execution,
\* and run the command again without it.
CommandFallsBack ==
    /\ command.pc = "running"
    /\ ~abort
    /\ TimestampFree
    /\ Post(Say, FALSE)
    /\ lastMessageTs' = clock
    /\ command' = [command EXCEPT !.asked = FALSE]
    /\ UNCHANGED <<clock, abort, askResponse, call, timers, statusAsk, webview, history>>

\* abortTask: no new ask or say; the queue is disposed.  Pending asks stay.
AbortTask ==
    /\ ~abort
    /\ abort' = TRUE
    /\ queue' = <<>>
    /\ UNCHANGED <<clock, clineMessages, lastMessageTs, askResponse, call, timers, statusAsk,
                   wire, sends, command, history>>

-----------------------------------------------------------------------------
AskStep(c) ==
    \/ Stamp(c)
    \/ \E d \in {"ask", "approve", "deny", "timeout"} : Decide(c, d)
    \/ DecideYolo(c)
    \/ Poll(c)
    \/ ConsumeQueued(c)

AgentStep ==
    \/ \E type \in AskTypes : \/ \E partial \in BOOLEAN : BeginAsk("agent", type, partial)
                              \/ CompletePartial("agent", type)
    \/ SayInteractive \/ SayNonInteractive \/ ProcessQueuedMessages
    \/ RunCommand \/ SkipCommand

CommandStep ==
    \/ CommandOutput \/ ContinueInBackground \/ CommandCompletes \/ CommandFallsBack

TimerStep == Tick \/ \E ts \in Ts : FireAuto(ts) \/ FireStatus(ts)

UserStep ==
    \/ \E kind \in {"askResponse", "queueMessage"}, reply \in Replies : Send(kind, reply)
    \/ \E m \in wire : HandleAskResponse(m) \/ HandleQueueMessage(m)
    \/ \E i \in DOMAIN queue : RemoveQueued(i)
    \/ CancelAutoApprovalTimeout
    \/ AbortTask

Next == \/ \E c \in Calls : AskStep(c)
        \/ AgentStep \/ CommandStep \/ TimerStep \/ UserStep

Spec == Init /\ [][Next]_vars

\* The event loop runs a call's poll again and again; nothing else is owed.
Fairness == \A c \in Calls : WF_vars(Poll(c) \/ ConsumeQueued(c))

FairSpec == Spec /\ Fairness

-----------------------------------------------------------------------------
(* Properties                                                              *)

Asking(c) == call[c].pc \in {"decide", "wait"}

\* Two calls never compete for one answer: the questions being asked have
\* different timestamps, so at most one of them is the current one.  This is
\* what nextClineMessageTimestamp_kilocode and lastMessageTs are for.
OneAskTakesTheAnswer ==
    \A c, d \in Calls : Asking(c) /\ Asking(d) /\ call[c].ts = call[d].ts => c = d

\* A click the user made on a newer question never answers an older one that
\* was still waiting: ask() looks at lastMessageTs before it takes the answer.
ClickNeverAnswersOlderAsk ==
    \A r \in returned : r.answer.src = "user" => r.answer.for <= r.ts

\* A message of the user is used up by the question it answers: it is never
\* the answer of two questions, whether it came from the queue or directly.
MessageAnswersOneAsk ==
    \A r, q \in returned :
        r.answer.id # None /\ r.answer.id = q.answer.id => r.ts = q.ts

\* Once the user has answered the question that waits, nothing automatic
\* replaces the answer (Task.ts: "Clear any pending auto-approval timeout when
\* user responds"), as long as no command has run.
UserAnswerStands ==
    [][\A c \in Calls :
          /\ command.pc = "none"
          /\ call[c].pc = "wait" /\ ~Superseded(c)
          /\ askResponse.src = "user" /\ call'[c] = call[c]
          => askResponse'.src = "user"]_vars

\* A superseded call does not wait for ever.
SupersededAskEnds ==
    \A c \in Calls : (call[c].pc = "wait" /\ Superseded(c)) ~> (call[c].pc # "wait")

\* A message that arrives in the queue while the task is blocked on an ask is
\* consumed, so that the task does not hang.
QueuedMessageUnblocks ==
    \A c \in Calls : (call[c].pc = "wait" /\ queue # <<>>) ~> (call[c].pc # "wait" \/ queue = <<>>)

-----------------------------------------------------------------------------
(* What the documentation says, and the code does not keep                 *)

\* A command the settings deny is not approved ("automatically denied without
\* asking for approval").
DeniedCommandNotRun ==
    \A r \in returned : r.ts \in denied => r.answer.reply # "yesButtonClicked"
=============================================================================
