-------------------------- MODULE PresentAssistant --------------------------
(***************************************************************************)
(* How a task executes the response of the model while it streams in:      *)
(* presentAssistantMessage() (src/core/assistant-message) and the stream   *)
(* reader of recursivelyMakeClineRequests() (src/core/task/Task.ts), for   *)
(* tools called over the native protocol.                                  *)
(*                                                                         *)
(* The reader appends content blocks and calls presentAssistantMessage()   *)
(* without waiting for it.  A flag, presentAssistantMessageLocked, lets    *)
(* one call present at a time; a call that finds it set leaves word in     *)
(* presentAssistantMessageHasPendingUpdates.  The reader goes on to the    *)
(* next request when userMessageContentReady is set.                       *)
(*                                                                         *)
(* A call of presentAssistantMessage() runs to its first await inside the  *)
(* step of its caller; after that it has a slot of its own.                *)
(***************************************************************************)
EXTENDS Integers, Sequences, FiniteSets

CONSTANTS
    Ids,            \* identifiers of tool calls
    MaxBlocks,      \* bound on the blocks of a response
    MaxTurns,       \* bound on the requests, retries included
    MaxFailures,    \* bound on what fails: streams that break off, and calls
                    \* that cannot be shown while they arrive
    MaxCalls        \* bound on the calls of presentAssistantMessage in flight

ASSUME BoundsAssumption == /\ MaxBlocks \in Nat \ {0} /\ MaxTurns \in Nat \ {0}
                           /\ MaxFailures \in Nat /\ MaxCalls \in Nat \ {0}

None == "none"
ASSUME NoneAssumption == None \notin Ids

Slots == 1..MaxCalls
Turns == 1..MaxTurns
Block == [kind: {"text"}, id: {None}, partial: BOOLEAN]
           \cup [kind: {"tool"}, id: Ids, partial: BOOLEAN]

VARIABLES
    provider,      \* "streamed": calls arrive in pieces; "whole": in one chunk
    content,       \* assistantMessageContent
    index,         \* currentStreamingContentIndex, from 0
    locked,        \* presentAssistantMessageLocked
    pending,       \* presentAssistantMessageHasPendingUpdates
    ready,         \* userMessageContentReady
    complete,      \* didCompleteReadingStream
    rejected,      \* didRejectTool
    used,          \* didAlreadyUseTool
    results,       \* the tool results in userMessageContent
    open,          \* streamingToolCallIndices: position of a call still arriving, or 0
    reader,        \* where the stream reader stands
    calls,         \* the calls of presentAssistantMessage in flight
    turn,          \* history: the number of the request
    failures,      \* history: what has failed
    ran,           \* history: the blocks of this turn that were executed in full
    unanswered     \* history: tool calls of this turn that ended without a result

vars == <<provider, content, index, locked, pending, ready, complete, rejected, used, results,
          open, reader, calls, turn, failures, ran, unanswered>>

flags  == <<rejected, used>>
history == <<ran, unanswered>>
stream == <<provider, content, open, complete, reader, turn, failures>>

ReaderPcs == {"reading", "finalizing", "waiting", "idle", "failed"}
CallPcs   == {"free", "presenting", "executing", "finishing", "yielded"}
NoBlock   == [kind |-> "text", id |-> None, partial |-> FALSE]
Call      == [pc: CallPcs, block: Block, turn: Turns, at: 0..MaxBlocks]
Result    == [id: Ids, executed: BOOLEAN, turn: Turns]
Free      == [pc |-> "free", block |-> NoBlock, turn |-> 1, at |-> 0]

TypeOK ==
    /\ provider \in {"streamed", "whole"}
    /\ content \in Seq(Block) /\ Len(content) <= MaxBlocks
    /\ index \in Nat /\ (failures = 0 => index <= Len(content))
    /\ {locked, pending, ready, complete, rejected, used} \subseteq BOOLEAN
    /\ results \in Seq(Result)
    /\ open \in [Ids -> 0..MaxBlocks]
    /\ reader \in ReaderPcs
    /\ calls \in [Slots -> Call]
    /\ turn \in Turns
    /\ failures \in 0..MaxFailures
    /\ ran \subseteq 0..MaxBlocks
    /\ unanswered \subseteq Ids

Init ==
    /\ provider \in {"streamed", "whole"}
    /\ content = <<>> /\ index = 0
    /\ locked = FALSE /\ pending = FALSE /\ ready = FALSE /\ complete = FALSE
    /\ rejected = FALSE /\ used = FALSE
    /\ results = <<>>
    /\ open = [id \in Ids |-> 0]
    /\ reader = "reading"
    /\ calls = [s \in Slots |-> Free]
    /\ turn = 1 /\ failures = 0 /\ ran = {} /\ unanswered = {}

-----------------------------------------------------------------------------
(* presentAssistantMessage(), from its entry to its first await            *)

FreeSlots == {s \in Slots : calls[s].pc = "free"}
FreeSlot  == CHOOSE s \in FreeSlots : TRUE

\* Slot s presents the block at the current index of c: it takes a copy.
Presenting(c) == [pc |-> "presenting", block |-> c[index + 1], turn |-> turn, at |-> index]

\* The last lines of the function for slot s, once block is dealt with: the
\* lock is dropped, a finished block is left behind, and the call either ends
\* or yields and presents again.  c, r, p and done are the content, ready,
\* pending and complete flags it finds.  u says whether a tool was rejected or
\* used.
Epilogue(s, block, c, r, p, done, u) ==
    LET passes == ~block.partial \/ u
        next   == IF passes THEN index + 1 ELSE index
        again  == (passes /\ next < Len(c)) \/ p
    IN /\ locked' = FALSE
       /\ index' = next
       /\ ready' = (r \/ (passes /\ (next = Len(c) \/ (next >= Len(c) /\ done))))
       /\ pending' = p
       /\ calls' = [calls EXCEPT ![s] = IF again THEN [Free EXCEPT !.pc = "yielded"] ELSE Free]

\* Mutant: The lock is not looked at.
Present_Unlocked(s, c, r, done) ==
    \/ /\ index >= Len(c)
       /\ pending' = FALSE
       /\ ready' = (r \/ done)
       /\ calls' = [calls EXCEPT ![s] = Free]
       /\ UNCHANGED <<locked, index>>
    \/ /\ index < Len(c)
       /\ locked' = TRUE /\ pending' = FALSE /\ ready' = r
       /\ calls' = [calls EXCEPT ![s] = Presenting(c)]
       /\ UNCHANGED index

\* Mutant: A call that finds the lock set leaves no word.
Present_ForgetsUpdates(s, c, r, done) ==
    \/ /\ locked
       /\ ready' = r
       /\ calls' = [calls EXCEPT ![s] = Free]
       /\ UNCHANGED <<index, locked, pending>>
    \/ /\ ~locked /\ index >= Len(c)
       /\ pending' = FALSE
       /\ ready' = (r \/ done)
       /\ calls' = [calls EXCEPT ![s] = Free]
       /\ UNCHANGED <<index, locked>>
    \/ /\ ~locked /\ index < Len(c)
       /\ ~(c[index + 1].kind = "text" /\ (rejected \/ used))
       /\ locked' = TRUE /\ pending' = FALSE /\ ready' = r
       /\ calls' = [calls EXCEPT ![s] = Presenting(c)]
       /\ UNCHANGED index
    \/ /\ ~locked /\ index < Len(c)
       /\ c[index + 1].kind = "text" /\ (rejected \/ used)
       /\ Epilogue(s, c[index + 1], c, r, FALSE, done, TRUE)

\* A call in slot s that finds content c, ready r and complete done.
Present(s, c, r, done) ==
    \/ /\ locked
       /\ pending' = TRUE /\ ready' = r
       /\ calls' = [calls EXCEPT ![s] = Free]
       /\ UNCHANGED <<index, locked>>
    \/ /\ ~locked /\ index >= Len(c)
       /\ pending' = FALSE
       /\ ready' = (r \/ done)
       /\ calls' = [calls EXCEPT ![s] = Free]
       /\ UNCHANGED <<index, locked>>
    \/ /\ ~locked /\ index < Len(c)
       /\ ~(c[index + 1].kind = "text" /\ (rejected \/ used))
       /\ locked' = TRUE /\ pending' = FALSE /\ ready' = r
       /\ calls' = [calls EXCEPT ![s] = Presenting(c)]
       /\ UNCHANGED index
    \/ \* text after a tool was used is passed over without an await
       /\ ~locked /\ index < Len(c)
       /\ c[index + 1].kind = "text" /\ (rejected \/ used)
       /\ Epilogue(s, c[index + 1], c, r, FALSE, done, TRUE)

-----------------------------------------------------------------------------
(* The reader of the stream                                                *)

\* After each chunk the reader looks whether a tool has interrupted it.
AfterChunk == IF rejected \/ used THEN "finalizing" ELSE "reading"

\* What a chunk does: new content, and a call to present it.
Chunk(c, r) ==
    /\ FreeSlots # {}
    /\ content' = c
    /\ Present(FreeSlot, c, r, FALSE)
    /\ reader' = AfterChunk
    /\ UNCHANGED <<provider, complete, flags, results, turn, failures, history>>

Last == content[Len(content)]
InPartialText == content # <<>> /\ Last.kind = "text" /\ Last.partial

ReadText ==
    /\ reader = "reading"
    /\ \/ InPartialText /\ Chunk(content, ready)
       \/ /\ ~InPartialText /\ Len(content) < MaxBlocks
          /\ Chunk(Append(content, [kind |-> "text", id |-> None, partial |-> TRUE]), FALSE)
    /\ UNCHANGED open

\* tool_call_partial, first piece: the text before it is complete now.
ReadToolStart(id) ==
    LET before == IF InPartialText THEN [content EXCEPT ![Len(content)].partial = FALSE]
                  ELSE content
    IN /\ reader = "reading" /\ provider = "streamed"
       /\ open[id] = 0 /\ Len(content) < MaxBlocks
       /\ open' = [open EXCEPT ![id] = Len(content) + 1]
       /\ Chunk(Append(before, [kind |-> "tool", id |-> id, partial |-> TRUE]), FALSE)

\* tool_call_partial, more arguments.
ReadToolDelta(id) ==
    /\ reader = "reading"
    /\ open[id] # 0
    /\ Chunk(content, ready)
    /\ UNCHANGED open

\* tool_call: a whole call in one chunk.  The text before it stays partial.
ReadToolCall(id) ==
    /\ reader = "reading" /\ provider = "whole"
    /\ Len(content) < MaxBlocks
    /\ Chunk(Append(content, [kind |-> "tool", id |-> id, partial |-> FALSE]), FALSE)
    /\ UNCHANGED open

EndOfStream ==
    /\ reader = "reading"
    /\ reader' = "finalizing"
    /\ UNCHANGED <<provider, content, index, locked, pending, ready, complete, flags,
                   results, open, calls, turn, failures, history>>

\* finalizeRawChunks: the calls still arriving are complete, oldest first.
FinalizeCall(id) ==
    LET c == [content EXCEPT ![open[id]].partial = FALSE]
    IN /\ reader = "finalizing"
       /\ open[id] # 0 /\ \A other \in Ids : open[other] # 0 => open[id] <= open[other]
       /\ FreeSlots # {}
       /\ content' = c
       /\ open' = [open EXCEPT ![id] = 0]
       /\ Present(FreeSlot, c, FALSE, FALSE)
       /\ UNCHANGED <<provider, complete, reader, flags, results, turn, failures, history>>

\* The stream is complete, and so is every block.  Blocks that only now became
\* complete are presented.  A response without content is asked for again.
CompleteStream ==
    LET c == [i \in DOMAIN content |-> [content[i] EXCEPT !.partial = FALSE]]
    IN /\ reader = "finalizing"
       /\ \A id \in Ids : open[id] = 0
       /\ FreeSlots # {}
       /\ complete' = TRUE
       /\ content' = c
       /\ reader' = IF content = <<>> THEN "failed" ELSE "waiting"
       /\ IF \E i \in DOMAIN content : content[i].partial
            THEN Present(FreeSlot, c, ready, TRUE)
            ELSE UNCHANGED <<index, locked, pending, ready, calls>>
       /\ UNCHANGED <<provider, flags, results, open, turn, failures, history>>

\* The provider breaks off; the request will be made again.
StreamFails ==
    /\ reader = "reading"
    /\ failures < MaxFailures
    /\ failures' = failures + 1
    /\ reader' = "failed"
    /\ UNCHANGED <<provider, content, index, locked, pending, ready, complete, flags,
                   results, open, calls, turn, history>>

\* Mutant: The reader goes on as soon as the stream is complete.
LeaveWait_Early ==
    /\ reader = "waiting"
    /\ complete
    /\ reader' = "idle"
    /\ UNCHANGED <<provider, content, index, locked, pending, ready, complete, flags,
                   results, open, calls, turn, failures, history>>

\* pWaitFor(userMessageContentReady): the results go into the next request.
LeaveWait ==
    /\ reader = "waiting"
    /\ ready
    /\ reader' = "idle"
    /\ UNCHANGED <<provider, content, index, locked, pending, ready, complete, flags,
                   results, open, calls, turn, failures, history>>

\* The streaming state is reset for the next request, whoever still presents.
NextRequest ==
    /\ reader \in {"idle", "failed"}
    /\ turn < MaxTurns
    /\ turn' = turn + 1
    /\ content' = <<>> /\ index' = 0
    /\ locked' = FALSE /\ pending' = FALSE /\ ready' = FALSE /\ complete' = FALSE
    /\ rejected' = FALSE /\ used' = FALSE
    /\ results' = <<>> /\ ran' = {} /\ unanswered' = {}
    /\ open' = [id \in Ids |-> 0]
    /\ reader' = "reading"
    /\ UNCHANGED <<provider, calls, failures>>

-----------------------------------------------------------------------------
(* A call of presentAssistantMessage() after its first await               *)

\* Mutant: The results already there are not looked at.
Pushed_Blindly(id, executed, of) == Append(results, [id |-> id, executed |-> executed, turn |-> of])

\* pushToolResultToUserContent: one result per tool call.
Pushed(id, executed, of) ==
    IF \E i \in DOMAIN results : results[i].id = id
      THEN results
      ELSE Append(results, [id |-> id, executed |-> executed, turn |-> of])

\* Nothing else runs while the reader is in its last, synchronous part.
Runs(s, pc) == calls[s].pc = pc /\ reader # "finalizing"

BlockOf(s) == calls[s].block
Ends(s, u) == Epilogue(s, BlockOf(s), content, ready, pending, complete, u)

\* Text is shown.
ShowText(s) ==
    /\ Runs(s, "presenting") /\ BlockOf(s).kind = "text"
    /\ Ends(s, rejected \/ used)
    /\ UNCHANGED <<stream, flags, results, history>>

\* Mutant: A call that is skipped gets no result.
SkipTool_Silently(s) ==
    /\ Runs(s, "presenting") /\ BlockOf(s).kind = "tool"
    /\ rejected \/ used
    /\ Ends(s, TRUE)
    /\ UNCHANGED <<stream, flags, results, history>>

\* After a tool was rejected or used, the other calls are answered, not executed.
SkipTool(s) ==
    /\ Runs(s, "presenting") /\ BlockOf(s).kind = "tool"
    /\ rejected \/ used
    /\ results' = Pushed(BlockOf(s).id, FALSE, calls[s].turn)
    /\ Ends(s, TRUE)
    /\ UNCHANGED <<stream, flags, history>>

\* An unknown or forbidden tool is answered, and does not count as used.
RefuseTool(s) ==
    /\ Runs(s, "presenting") /\ BlockOf(s).kind = "tool" /\ ~BlockOf(s).partial
    /\ ~(rejected \/ used)
    /\ results' = Pushed(BlockOf(s).id, FALSE, calls[s].turn)
    /\ Ends(s, FALSE)
    /\ UNCHANGED <<stream, flags, history>>

\* Mutant: A tool is executed although another one was used.
BeginTool_Again(s) ==
    /\ Runs(s, "presenting") /\ BlockOf(s).kind = "tool"
    /\ ~rejected
    /\ calls' = [calls EXCEPT ![s].pc = "executing"]
    /\ ran' = IF calls[s].turn = turn /\ ~BlockOf(s).partial THEN ran \cup {calls[s].at} ELSE ran
    /\ UNCHANGED <<index, locked, pending, ready, stream, flags, results, unanswered>>

\* The tool is executed, or shown as it arrives.
BeginTool(s) ==
    /\ Runs(s, "presenting") /\ BlockOf(s).kind = "tool"
    /\ ~(rejected \/ used)
    /\ calls' = [calls EXCEPT ![s].pc = "executing"]
    /\ ran' = IF calls[s].turn = turn /\ ~BlockOf(s).partial THEN ran \cup {calls[s].at} ELSE ran
    /\ UNCHANGED <<index, locked, pending, ready, stream, flags, results, unanswered>>

\* pushToolResult, and askApproval for a tool that the user rejects.
ToolResult(s, isRejected) ==
    /\ Runs(s, "executing") /\ ~BlockOf(s).partial
    /\ results' = Pushed(BlockOf(s).id, TRUE, calls[s].turn)
    /\ used' = TRUE
    /\ rejected' = (rejected \/ isRejected)
    /\ calls' = [calls EXCEPT ![s].pc = "finishing"]
    /\ UNCHANGED <<index, locked, pending, ready, stream, history>>

\* A tool that ends without a result: its ask was superseded, or it is an
\* attempt_completion that the user accepts.
ToolEndsSilently(s) ==
    /\ Runs(s, "executing") /\ ~BlockOf(s).partial
    /\ unanswered' = IF calls[s].turn = turn THEN unanswered \cup {BlockOf(s).id} ELSE unanswered
    /\ calls' = [calls EXCEPT ![s].pc = "finishing"]
    /\ UNCHANGED <<index, locked, pending, ready, stream, flags, results, ran>>

\* handlePartial: the call is shown as far as it has arrived.
PartialShown(s) ==
    /\ Runs(s, "executing") /\ BlockOf(s).partial
    /\ Ends(s, rejected \/ used)
    /\ UNCHANGED <<stream, flags, results, history>>

\* handlePartial throws: the error is the result of the call.
PartialError(s) ==
    /\ failures < MaxFailures
    /\ failures' = failures + 1
    /\ Runs(s, "executing") /\ BlockOf(s).partial
    /\ results' = Pushed(BlockOf(s).id, TRUE, calls[s].turn)
    /\ used' = TRUE
    /\ Ends(s, TRUE)
    /\ UNCHANGED <<provider, content, open, complete, reader, turn, rejected, history>>

FinishTool(s) ==
    /\ Runs(s, "finishing")
    /\ Ends(s, rejected \/ used)
    /\ UNCHANGED <<stream, flags, results, history>>

\* After yieldPromise(): the same call presents again.
PresentAgain(s) ==
    /\ Runs(s, "yielded")
    /\ Present(s, content, ready, complete)
    /\ UNCHANGED <<stream, flags, results, history>>

-----------------------------------------------------------------------------
ReaderStep ==
    \/ ReadText
    \/ \E id \in Ids : ReadToolStart(id) \/ ReadToolDelta(id) \/ ReadToolCall(id) \/ FinalizeCall(id)
    \/ EndOfStream \/ CompleteStream \/ StreamFails \/ LeaveWait \/ NextRequest

PresentStep(s) ==
    \/ ShowText(s) \/ SkipTool(s) \/ RefuseTool(s) \/ BeginTool(s)
    \/ \E isRejected \in BOOLEAN : ToolResult(s, isRejected)
    \/ ToolEndsSilently(s) \/ PartialShown(s) \/ PartialError(s) \/ FinishTool(s)
    \/ PresentAgain(s)

Next == ReaderStep \/ \E s \in Slots : PresentStep(s)

Spec == Init /\ [][Next]_vars

\* Streams end, tools end, and the event loop runs what is due.
Fairness ==
    /\ WF_vars(EndOfStream \/ CompleteStream \/ LeaveWait \/ \E id \in Ids : FinalizeCall(id))
    /\ \A s \in Slots : WF_vars(PresentStep(s))

FairSpec == Spec /\ Fairness

-----------------------------------------------------------------------------
(* Properties                                                              *)

Busy == {s \in Slots : calls[s].pc \in {"presenting", "executing", "finishing"}}

\* presentAssistantMessage "uses a locking mechanism to prevent concurrent
\* execution": one call presents a block at any time, unless a stream broke off
\* and its calls go on beside those of the request that replaces it.
OneBlockAtATime == failures = 0 => \A s, t \in Busy : s = t

\* A tool call is executed once, however often its block is presented.
ToolsRunOnce ==
    [][\A s \in Slots :
          /\ failures = 0
          /\ calls[s].pc = "presenting" /\ calls'[s].pc = "executing"
          /\ ~calls[s].block.partial /\ calls[s].turn = turn
          => calls[s].at \notin ran]_vars

\* "Only one tool may be used per message": one result at most comes from a
\* tool that was executed, however the response is cut into chunks.
OneToolUsed ==
    failures = 0 => Cardinality({i \in DOMAIN results : results[i].executed}) <= 1

ToolIds == {content[i].id : i \in {j \in DOMAIN content : content[j].kind = "tool"}}
Answers(id) == {i \in DOMAIN results : results[i].id = id}

\* Never two results for one tool call, even when a stream broke off and a tool
\* of the old response answers late: "duplicate tool_use_ids cause API errors".
\* And when the results go into the next request, every tool call of the
\* response has one, unless the tool itself ended without a result.
EveryCallAnswered ==
    /\ \A id \in Ids : Cardinality(Answers(id)) <= 1
    /\ failures = 0 /\ reader = "idle" =>
         \A id \in ToolIds \ unanswered : Answers(id) # {}

\* A response that was read is presented to the end: the task does not wait
\* for ever for userMessageContentReady ("it sets userMessageContentReady to
\* true itself").
WaitAlwaysEnds == (reader = "waiting") ~> (reader # "waiting")

\* That holds as long as no stream has broken off and no call has failed while
\* it was arriving.
WaitEnds ==
    (reader = "waiting" /\ failures = 0) ~> (reader # "waiting" \/ failures > 0)

=============================================================================
