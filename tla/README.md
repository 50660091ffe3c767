# Verification of the Kilo Code agent

TLA+ models of the parts of Kilo Code in which the order of events decides
whether the program is right: the loop in which an agent asks the model, runs
the tools of the response, asks the user and keeps the conversation on disk, the
reduction and the rewinding of that conversation, the checkpoints of a workspace
beside the tracking of its files, and the upload of a task's files to its cloud
session. TLC checks the models on small instances; TLAPS proves the theorems of
section 4 for every instance.

Paths below are relative to the root of the repository.

## 1. The system

Kilo Code is a VS Code extension (`src/`), also run inside a JetBrains plugin
(`jetbrains/`) and in processes of its own (`packages/agent-runtime`). Its webview
(`webview-ui/`) exchanges messages with `ClineProvider`, which owns a stack of
`Task`s. A `Task` runs one agent. All of it is asynchronous JavaScript: code runs
without interruption between two `await`s, and everything else may happen at one.

### Inventory

**Ask protocol** (`core/task/Task.ts`: `ask`, `say`, `handleWebviewAskResponse`;
`core/message-queue`; `core/auto-approval`; the asks of `core/tools/ExecuteCommandTool.ts`).
State: `clineMessages`, `lastMessageTs`, the one answer slot (`askResponse`, text,
images), `interactiveAsk` / `resumableAsk` / `idleAsk`, the handle of the
auto-approval timer, the message queue. Operations: a question is stamped, decided
by the settings, or waited for with a 100 ms poll; answers come from a click, the
queue, the settings, a timer. Interactions: every tool asks through it; the output
callback of a terminal command asks beside the agent. Hard: two calls of `ask` at
once over one slot; timers that outlive their question; queue, timer and user
racing for one answer. Correct when: one question takes an answer, it is the one
the answer was for, and no question is left waiting beside an answer.

**Presentation of the response** (`core/assistant-message/presentAssistantMessage.ts`
and the stream reader in `Task.recursivelyMakeClineRequests`). State:
`assistantMessageContent`, the content index, the lock and its "pending updates"
flag, `userMessageContentReady`, `didRejectTool`, `didAlreadyUseTool`,
`userMessageContent`. Operations: the reader appends or completes blocks and calls
the presenter without awaiting it; the presenter shows text and executes tools, one
block at a time, and sets the flag the reader waits for. Hard: re-entrance, a stream
that breaks off while a tool runs, an error in a call that is still arriving.
Correct when: one block is presented at a time, no tool runs twice, every call gets
exactly one result, the wait ends.

**Conversation** (`Task`: `recursivelyMakeClineRequests`, `addToApiConversationHistory`,
`resumeTaskFromHistory`, `flushPendingToolResultsToHistory`;
`ClineProvider.delegateParentAndOpenChild`, `reopenParentFromDelegation`;
`core/task/validateToolResultIds.ts`). State: `apiConversationHistory` in memory and on
disk, the stack of requests with `retryAttempt` and `userMessageWasRemoved`, history
items of subtasks. Hard: what is in memory and what on disk after a failed attempt,
retries, close and resume at any point, a subtask that returns to a parent that has
moved on. Correct when: a request holds everything the agent was told, alternates
roles, answers every call once, and is on disk.

**safeWriteJson** (`utils/safeWriteJson.ts`). State: the file, its temporary and backup
files, the lock. Callers: histories, UI messages, metadata, caches. Hard: a failure or
a crash between any two file operations, several processes. Correct when: the text
last put in place survives, and calls exclude each other.

**Session sync** (`shared/kilocode/cli-sessions/core`: `SyncQueue`, `SessionSyncService`,
`SessionLifecycleService`). State: the queue and its two indexes, `pendingSync`, the
task-to-session map, git hashes. `ClineProvider` feeds it with each saved file and
forces a run when a task completes; a session made on request gets the two files of the
conversation, and not the task's metadata. Hard: overlapping runs, a file saved while it is
uploaded, failures half-way. Correct when: nothing queued is forgotten, uploads do not
go backwards, runs do not overlap, forced calls return.

**Context history** (`core/condense`, `core/context-management`, `core/message-manager`,
and their callers in `Task`). State: tags on the messages of `apiConversationHistory`
(`condenseParent`, `truncationParent`, summaries, markers) and the events of the chat
that carry their ids. Operations: condense before a request, over the window or by hand,
truncate, take summaries back, send what is not hidden, rewind both histories to a
message of the user. Hard: the two histories are linked by time and by ids, and an
answer is saved after the comment that was made on it. Correct when: a message is sent
or told of by a summary, a result keeps its call, and a rewind brings back what the
provider had seen.

**Checkpoints** (`core/checkpoints`, `services/checkpoints`). State: per instance of a
task the service, its initialisation flag and whether checkpoints are enabled; a shadow
repository for each task; one line of waiting restores for each workspace; windows that
have not acknowledged a restore. Operations: get the service (begin, share or wait for
its initialisation), save, diff, restore, and the reload of the task after it. Hard:
waiting for an initialisation that fails or hangs, restores of two tasks over the same
files, an instance that is replaced under a restore. Correct when: restores take turns,
waiters come back, a window shows the chat of the workspace it restored.

**File context** (`core/context-tracking`). State: watchers, the mark of the agent's own
edit, the files modified by somebody else. Hard: the editor does not say whose change it
reports. Interacts with checkpoints: a restore is a change by nobody the tracker knows,
and a reloaded task has a new tracker. Correct when: a change of somebody else that was
reported reaches the agent.

**Code index, managed index, MCP hub, agent manager** (`services/code-index`,
`services/mcp`, `core/kilocode/agent-manager`). State machines around a service:
starting, stopping, replacing connections or processes as they overlap. Planned.

**Cloud client** (`packages/cloud`). The retry queue, the bridge, sign-in. Telemetry
does not enqueue in this fork; last of the plan.

**Not core logic.** API providers (`api/`), message parsing, terminals, tools' effects on the
workspace, configuration, autocomplete, speech, marketplace, browser, IPC, the webview,
the JetBrains host, web apps and evals: inputs or outputs of the above, text processing,
or features that are a few sequential calls. `PROJECT.json` lists them one by one, with
the reason for each.

## 2. Modules

| Module | Models | State of the code it keeps |
|---|---|---|
| `TaskAsk` | the ask protocol, the queue, the timers, one terminal command | `clineMessages` (kind, timestamp, partial, answered), `lastMessageTs`, the slot, both timers, `queue`, messages on their way from the webview |
| `PresentAssistant` | stream reader and presenter, native tool calls | blocks, index, lock, flags, results, and the calls of the presenter in flight |
| `ToolResults` | `validateAndFixToolResultIds` as operators | none: a pure function |
| `Conversation` | the writes to the API conversation; EXTENDS `ToolResults` | history in memory and on disk, the request being worked on, tool calls and results of the response, subtasks |
| `ContextHistory` | condensing, truncating, sending, rewinding | both histories with tags and events, the response and its results, a condensation by hand under way |
| `AtomicFile` | what callers of `safeWriteJson` rely on (abstract) | a text and the state of each call |
| `SafeWrite` | calls of `safeWriteJson` for one file; implements `AtomicFile` | the file, temporary and backup files, the lock, failures |
| `Checkpoints` | checkpoint service, saves, restores, their line, reloads | instances of tasks, services, repositories, `operationTails`, the workspace |
| `FileContext` | the tracker of one file, per task | watcher, mark, modified, the tool's own tracking, reports to come |
| `Workspace` | `Checkpoints` and `FileContext` over one file | both |
| `SessionSync` | queue, sync runs, forced syncs, a session asked for by the user | queue and indexes, `pendingSync`, runs, sessions on the server, calls that make a session on request, git hashes |
| `Selection` | `Array.prototype.filter`, as a fold | none |
| `OperatorLemmas` | lemmas about sequences of any length, about filtering and inserting, and about the operators of `ToolResults` | |
| `..._proofs` | theorems: `TaskAsk`, `PresentAssistant`, `Conversation` (with `MCToolResults`), `ContextHistory`, `SafeWrite`, `Workspace`, `SessionSync` | |
| `MC...` | instances for TLC | |

How the models are cut:

* **One action for one stretch of code between two awaits** that another activity may
  come between. Where nothing else can touch the state across an await the stretches
  are one action, and the comment says so.
* **Data is what the properties tell apart.** Texts, images and prompts are numbers or
  model values. In `Conversation` a *token* is a piece of information (a user text or the
  outcome of a call); the token of call *c* is *c*, so that a result which answers the
  wrong call is visible. In `SessionSync` a file is its version number.
* **What the world may do is a choice**: the settings and the text that select an
  auto-approval decision, whether a stream breaks, whether a file operation or a server
  call fails (and for uploads whether the server had done it), whether a process dies.
* **History variables** (`returned`, `denied`, `ran`, `unanswered`, `told`, `latest`,
  `mark`, `asked`, `stray`, `due`, and in `ContextHistory` the fields `tells`, `cut`,
  `before` and `intact`) record what a property needs and never enable an action.

### TaskAsk

`Calls == {"agent", "output"}` are the two call sites that may be inside `ask()` at once.
`BeginAsk` empties the slot, `Stamp` posts the message and makes it current
(`lastMessageTs`), `Decide` reads the settings and then the queue, and either ends at once
or blocks; `Poll` and `ConsumeQueued` are the 100 ms loop; `FireAuto` and `FireStatus` the
timers; `Send`, `HandleAskResponse` and `HandleQueueMessage` the webview's messages, in
any order; `AbortTask` keeps pending asks, as the code does. The fork waits for a free
millisecond before it stamps a message (`nextClineMessageTimestamp_kilocode`); this is
`TimestampFree`, and the proof of `OneAskSafe` rests on it.

### PresentAssistant

A call of `presentAssistantMessage` runs to its first await in the step of the caller
(`Present`); then it has a slot with the block it copied. `ReadText`, `ReadToolStart`,
`ReadToolDelta`, `ReadToolCall`, `FinalizeCall`, `EndOfStream`, `CompleteStream`,
`StreamFails`, `LeaveWait` and `NextRequest` are the reader. `provider` says how calls
arrive and never changes. Slots of an earlier request live on after a broken stream.

### Conversation

`native`, `autoApproval` and `mistakeLimit` are settings, chosen at the start and fixed.
`SendRequest` adds the user message unless the attempt finds it there; `StreamFails`,
`EmptyResponse`, `RetryByHand` and `GiveUp` are the ways an attempt ends without a
response; `NextItem` passes the results on. `Close` forgets what is in memory and `Resume`
rebuilds it from disk. `FlushResults` and `OpenChild`, `ChildReports` and `ReopenParent`
are the two halves of a delegation and of its return, with a crash (`ReopenLost`) between.
The calls of the response are in the order of their blocks; that only one is executed and
how they are presented is `PresentAssistant`'s, from which this module takes the
interface: each call ends with a result, with a refusal, or (silently) without one.

### ContextHistory

Messages carry what the code's do (role, tags, calls, results, time) and, for the
properties, which exchanges a reader of the message learns of. `EffectiveHistory`,
`SinceLastSummary`, `Condensed`, `Truncated`, `Uncondensed`, `CleanedUp`, `ActualCutoff`
and `Rewound` are the pure functions of the code as operators over sequences; the
actions are the loop (`AddUser`, `StartResponse`, `RunTool`, `AddAssistant`), the ways to
reduce (`CondenseBeforeRequest`, `CondenseOverWindow`, `Truncate`, `Uncondense`,
`BeginManual`, `EndManual`) and `Rewind`. A task starts with some uneventful turns behind
it, since reductions need a history to work on. What is saved is saved at multiples of `Gap`,
which leaves more room than all reductions together take, so that `ts - 1` of a summary or a
marker lies between two messages: the code relies on it, for a summary set before a summary
or a marker is one millisecond before that one. Calls are numbered as they are made (`made`),
as the provider's ids are all different. Which threshold is reached is a free choice.

### SafeWrite and AtomicFile

One action for each awaited file operation and one for its failure; `Crash` at any point.
The lock library is external: a lock is stale when its holder is over or gone.
`AtomicFile` is the promise: a call puts its text in place once or not at all, and only
a death in the middle or a second error takes the file away. `ReplacesAtomically`
instantiates it with a mapping (the text is the file, or what a rollback will put back;
a call has taken effect from its commit on).

### Checkpoints, FileContext and Workspace

A call in `Checkpoints` is one call of `getCheckpointService` with what its caller does
next. `Begin` is the code before the first await and goes four ways: a service is there,
it is being made (`WaitOver`, `WaitTimesOut`), it is made here (`InitDone`, `InitFails`), or
the workspace is refused. A save is `Stage` then `Commit`; a restore gets in line (`Ask`),
is let in (`Grant`), cleans (`Clean`), resets (`Reset`), tells the other windows
(`Broadcast`), cuts the chat and reloads the task (`Finish`). A new instance of a task
has fresh fields, and calls of the old one go on with the old ones. `FileContext` has a
tracker per task: `ToolWrote`, `Mark`, `Watch` are `trackFileContext` cut at its awaits,
`DidChange` the watcher's report, `TellAgent` the next request. `Workspace` lets a tool, the
user and restores write the same file and renews the tracker with the instance: each step is
a step of one of the two with its effect on the other.

### SessionSync

Runs of `doSync` step through token, git state, session, reads and uploads; queue items
carry a version so that it can be told what was sent. `woken` puts callers resumed by a
settled promise before everything else, as microtasks are.

`Share` is `getOrCreateSessionForTask` cut at its awaits: it looks for a session, reads the two
files of the conversation (`ApiHistory`, `UiMessages`), creates a session, uploads the one and
then the other, and only then makes the session the task's. Other files of the task, its
metadata, are not uploaded. A call that fails leaves its session to itself: nothing refers
to it again, so what it holds is not kept.

## 3. Checks

| Run | Instance | What it shows |
|---|---|---|
| `ask_asks` | commands and follow-ups, 3 timestamps, 1 user message | answers reach one question, the right one; superseded questions end; queued messages are consumed |
| `present` | 2 calls, 3 blocks, 2 requests, 1 failure, 2 presenters in flight | lock, uniqueness and completeness of results, one tool a message, the wait ends |
| `results_repair` | every content of up to 5 blocks after up to 3 calls | each call answered exactly once, right answers kept, wrong ids replaced by position |
| `conv_loop` | 4 tokens, 7 messages, 2 calls a response, 1 broken stream, 1 empty response, 1 close; all 8 settings | requests are complete, alternate and answer every call, across retries, resumes and subtasks |
| `history` | 3 turns behind it, 2 reductions, 2 rewinds, 2 calls a response, 4 messages in the chat | nothing is dropped without a summary telling of it, results keep their calls, a rewind restores |
| `workspace` | 2 tasks, the tracker of one, 2 calls, 2 writes, 1 fault | restores take turns and reload, waiters come back, others' changes are told |
| `sync` | 1 task with its conversation and its metadata, 2 saves, 2 runs, 1 forced call, 1 session asked for, 1 git change, 1 failure | runs do not overlap; no file drops out of sight or goes back; the forced call returns |
| `safewrite` | 3 calls, 2 failures, crashes anywhere | exclusion, survival, settling, and that the calls implement `AtomicFile` |
| `ask_denied`, `present_hang`, `conv_retry`, `sync_forgotten` | the smallest instance with the behaviour | the disagreements of section 5 |

**Bounds.** `MaxTs` counts messages: three let an ask be superseded by another and that
by a third. One user message is enough for the races with timers, settings and queue;
that a message answers one question only needs one message. Three blocks hold a text
before or between two calls, and two requests let tools of a broken stream meet the next
response. Four tokens hold the task's text, two calls and a text of the user or a second
round. Two sync runs are what one forced call can make overlap, and two saves are a save
during the upload of the other. In that instance the two files of the conversation are one,
which a session made on request gets twice: what sets files apart is whether such a session
gets them. Further tasks and files are left to the theorems, which have any number of both,
except for `ForcedSyncReturns`. Three writers let a third take over the lock a crashed
one left while another waits. Three turns are the least history that can be condensed
behind its kept messages, two reductions are a condensation of a condensed or truncated
history, and two rewinds one over what another left. Two tasks with two calls let a
restore meet another, a save, or an initialisation of its own instance; the first write
is the user's or the agent's beside a restore, and one fault is a cancellation in the
middle or a git operation that fails. Bounds only disable actions (`Tick`, `Send`,
`StreamToolCall`, `SaveFile`, ...), and each is a CONSTANT named `Max...` with its
meaning beside it.

**Deadlock** is not checked: in every model the system may come to rest (no user
message, nothing to sync, all calls over, the bounds reached).

**Fairness.** `TaskAsk`: the poll of a waiting call, because `pWaitFor` polls until the
condition holds; nothing is assumed of users, timers or commands. `PresentAssistant`: the
reader and each presenter go on, i.e. streams and tools end; without it a tool that never
returns would keep the task waiting, which the code does not exclude and the property is
not about. `SessionSync`: runs and resumed callers go on, because every server call
returns or fails. `SafeWrite`: file operations return. `Workspace`: for each call, timers go
off and git answers a restore; an initialisation and a save may hang, and neither users
nor other windows have to act. `Conversation` and `ContextHistory` have no liveness.

**Conditions in the properties.** Some invariants carry a condition that excludes what
breaks them, and the comment at the property names the cause; the conditions are the
boundary of what the code keeps:

* `UserAnswerStands`: as long as no terminal command has run.
* The properties of `PresentAssistant` (of `EveryCallAnswered` the second part): as long as
  no stream has broken off and no partial call has failed.
* `NothingLost`: not across an empty response retried by hand or in a task with subtasks,
  nor guidance given at a retry, nor once a delegation has flushed the results and the
  task is about to be closed. `FlushKeepsResults` (proved, and
  no part of a run): the response was complete. `RolesAlternate`, `CallsAnswered`: in a task that
  delegates nothing, with empty responses retried automatically.
* `NothingForgotten` of `ContextHistory`: a truncation hides without telling, and an answer
  none of whose calls has a result behind it is left out of a summary. `ResultsHaveCalls`:
  the results directly follow the answer with their calls, and no truncation ever hid that
  answer (section 5 says how the two are parted otherwise). `RewindRestores`: the chat message is
  `intact` (nothing of section 5 that loses its link has happened) and the message that
  carried it is in the history.
* `RestoreReloads`: the restore has not failed, and no other window's restore waits to be
  acknowledged. `OthersChangesTold`: no stray mark, i.e. each mark of an own edit was set
  while the report it is for was still to come (the file was watched before the write and
  the report did not overtake the mark).
* `OneSyncAtATime`: with one forced call. `ForcedSyncFlushes`: nothing failed.
  `QueuedOrStored`: not for the metadata of a task whose session was made on request.
* `LatestSurvives`: at most one file operation fails.

Each property of a passing run has a mutant: a definition with a bug that could
be made in that code, next to the definition it replaces. TLC finds the property
violated under it.

## 4. Theorems

Proved by TLAPS for every value of the constants, from the assumptions the modules
state about them (`AskTypesAssumption`, `BoundsAssumption` of `TaskAsk` and of
`PresentAssistant`, `NoneAssumption`, `ValuesDiffer` and `FailuresNat` of `SafeWrite`, `BoundsNat` and
`TasksExist` of `Checkpoints`, `ConstantsOK` of `SessionSync`, `ConversationAssumption` of
`Conversation`, `BoundsAssumption` of `MCToolResults`, `HistoryAssumption` of
`ContextHistory`) and nothing else.

| Theorem | Property |
|---|---|
| `TaskAsk_proofs`: `TypeCorrect`, `OneAskSafe`, `ClickSafe`, `MessageSafe`, `AnswerSafe` | `TypeOK`, `OneAskTakesTheAnswer`, `ClickNeverAnswersOlderAsk`, `MessageAnswersOneAsk`, `UserAnswerStands` |
| `PresentAssistant_proofs`: `TypeCorrect`, `OneAtATime`, `OneUsed`, `AllAnswered`, `RunOnce` | `TypeOK`, `OneBlockAtATime`, `OneToolUsed`, `EveryCallAnswered`, `ToolsRunOnce` |
| `Conversation_proofs`, about `MCToolResults`: `ExactlyAnswered`, `AnswersKept` | `AnsweredExactly`, `RightAnswersKept` |
| `Conversation_proofs`: `TypeCorrect`, `NothingIsLost`, `RolesInTurn`, `AnsweredInTurn` | `TypeOK`, `NothingLost`, `RolesAlternate`, `CallsAnswered` |
| `Conversation_proofs`: `AlwaysWellFormed`, `FlushedInFull` | the invariant `WellFormed`; `FlushKeepsResults` |
| `ContextHistory_proofs`: `TypeCorrect`, `NothingForgottenEver`, `ResultsHaveCallsEver`, `RewindRestoresEver` | `TypeOK`, `NothingForgotten`, `ResultsHaveCalls`, `RewindRestores` |
| `ContextHistory_proofs`: `TypeInvAlways` | the invariant `TypeInv` |
| `SafeWrite_proofs`: `TypeCorrect`, `OneWriter`, `NothingLost`, `RestsWithLatest`, `Refines` | `TypeOK`, `OneWriterInside`, `LatestSurvives`, `RestingFileIsLatest`, `ReplacesAtomically` |
| `Workspace_proofs`: `Turns` (and `CkTurns`), `ChangesTold`, `TypeCorrect` | `RestoresTakeTurns`, `OthersChangesTold`, `TypeOK` |
| `SessionSync_proofs`: `TypeCorrect`, `IndexesTheorem`, `FlushesAll` | `TypeOK`, `IndexesAgree`, `ForcedSyncFlushes` |
| `SessionSync_proofs`: `OneRun`, `NeverGoesBack`, `NeverOutOfSight` | `OneSyncAtATime`, `ServerNeverGoesBack`, `QueuedOrStored`, with one forced call |

**TaskAsk.** `TypeCorrect`, `OneAskSafe`, `ClickSafe`. `TypeOK` alone is not inductive:
that a waiting call has a timestamp (`AskingHasTs`) is needed when it is superseded or
answered. `OneAskTakesTheAnswer` is about two calls, and a step changes one: what makes
a new stamp different from the other call's is that every question being asked has a
message (`AsksArePosted`), that messages are stamped in order (`MessagesInOrder`), and
that a stamp waits for the clock to pass the last one. The completion of a partial
question reuses a stamp, and is safe because a question being asked is not partial
(second part of `AsksArePosted`). `ClickNeverAnswersOlderAsk` adds that what the user
clicked on was shown, hence not newer than the current ask (`ClicksArePast`). One lemma for
each group of actions shows the parts kept; steps that post nothing share `QuietStep`,
and steps that stamp a message share `PostStep`.

`MessageSafe` follows a message of the user: it is on its way, in the queue, in the slot,
or the answer of one question, and never at two of these places nor twice at one
(`AtOnePlace`). The queue is a sequence, so what is left after a message was taken or
removed is stated as an injection into what was there (`Shrinks`). `AnswerSafe`: before
any command the agent alone asks and its question stands (`AgentIsCurrent`), so a pending
timer is that question's own and the one the task's handle reaches (`TimerIsOwn`); the
handler of a click therefore stops the only timer there is (`AnswerStopsTimer`).

**PresentAssistant.** All five from one invariant. `OneBlockAtATime` needs that whoever is
busy holds the lock and a copy of the block at the index (`BusyHolds`); that nothing else
starts after the last block needs that the reader is released behind it only
(`ReadyAtEnd`). `UsedOnce` ties the flag `used` to results and to a tool at work,
`RanBehind` puts every tool that ran behind the index or at it and still busy, and
`SettledBehind` says that a call behind the index has a result or ended without one: when
the index has reached the end, every call is settled, which is `EveryCallAnswered`. Except
for types and for the uniqueness of results, these parts hold until something fails
half-way, and are stated so.

**ToolResults.** The repair walks a content twice, and both walks are folds: what they do to
a content with one more block is one step more (`WithoutRepeatsAppend`, `RelabellingAppend` of
`OperatorLemmas`), so what they return follows by induction over the content.
`WithoutRepeatsOnce`: the same calls are answered, none of them twice.
`RelabelledOnce`: what has been used is what the result answers, each once, and only calls
of the assistant message. `UnansweredAnswers`: the placeholders are for exactly the rest.
Together (`ValidResultsAnswer`) each call leaves with one answer. `ValidResultsKeep`: when all
ids are calls' and none repeats, relabelling changes no block (`RelabellingRight`).
That a wrong id is replaced by the one at its position is an induction over both walks at once
(`Walked`): as long as the right ids are in place, the ids used are those of the first calls,
as many as there were results, so the next one is free (`NextInPlace`).
`MCToolResults` lets the content be any sequence of blocks, so its two theorems are about
every input of the function. They are at the end of `Conversation_proofs`, which rests on the
same lemmas; the variables of `MCToolResults` are none of `Conversation`'s.

**Conversation.** `WellFormed` is the types with three parts. `CallsOK`: the calls of a response
have different ids, and its results answer calls that have ended, once each. `PlaceOK`: what
goes with each place of the request loop; in particular, while tools run the last message is the
response with these calls, unless a delegation has flushed behind it. `HistoryOK`: in memory
and on disk each user message that follows calls answers exactly those, since all of them
pass through `ValidResults`. It holds of every prefix, so taking the last message back
(`FrontOK`) and reopening from disk keep it.

`InTurn` is about a task that has delegated nothing and retried empty responses at once
(`Plain`, which once false stays false, so a plain state had plain states before it). Roles
alternate; when the attempt will add its message, the history does not end with the user's;
when not, the message is there and the item answers what the message before it called. An
attempt that would add its message a second time, or not at all, breaks one of the two; the
empty content of a parent that is reopened (`resumed`) is no item of such a task.
`RolesInTurn` and `AnsweredInTurn` follow.

`Complete` says where everything told is: in the history, or in the item that goes there next,
and then the item passes the repair as it is, for its results answer calls of the last
response, once each (`Completes`); a result that is not a call's would be dropped. An empty
response takes its message back, and must have the item it came from behind it: for this the
proof needs `InTurn`. `NothingIsLost` follows. The proof attempt showed an
earlier form of the property to be too strong: results flushed while the response streams can
be lost (section 5), and the condition that no flush is under way was added.
`FlushedInFull` is the half that holds: when the response is complete, its message is last
(`PlaceOK`), and all results it was given are kept.

**SafeWrite.** `TypeCorrect`, `OneWriter`, `NothingLost`, `RestsWithLatest`, from
`Inductive`. `LatestSurvives` does not say which backup holds the text, so `IInv` adds that a
call inside has the lock (`LockHeld`), that a call before its move has no backup
(`NoBackupYet`), that between move and commit or rollback the backup is the latest text
and the file is missing (`BackupIsLatest`), that a call in trouble has cost a failure
(`FailureCounted`: a second one is the rollback that fails), and that when the file is
not the latest, its backup belongs to a call that will still roll back or has crashed
(`Recoverable`). One lemma for each part, one step for each action.
`Refines` maps each operation to `Put`, `Abort`, `Resolve`, `Reject`, `Die`, `Err` or a stutter;
that a rollback restores the mapped text is the same `BackupIsLatest`.

**Workspace.** `Turns` is about a line kept as a chain of promises: each restore knows only
the one before it. The invariant numbers them in the order they asked: who asked is not
early any more (`AskedIsLate`), who waits does so for the one just before, or all before it
are past (`InLine`), whoever got in had everybody before it past (`TurnTaken`), and the
tail is the last who asked, or there is none and all are past (`TailIsLast`).
`ChangesTold` counts own reports still to come: as long as no mark was stray there is one
for a mark that is set, one for a write about to be marked, and one more when a change
of somebody else was taken for the agent's (`OwnReportsSuffice`): that last one will be
taken for somebody else's, and the agent is told after all. `TypeCorrect` counts too: every
new instance of a task is owed to a call that ended or to a fault (`Counts`), so instances
stay within `Instance`; and a restore is asked for with a commit, commits are only added,
and only restores get in line (`Jobs`, `Repos`), so `git reset` has a commit to go to.

**SessionSync.** The queue is filtered and folded, so its facts are about sequences of any
length. `OperatorLemmas` has them: induction over sequences is proved there from the
well-foundedness of `<` on the naturals, in the form of a set that has `<<>>` and is
closed under `Append` (a set is an expression, so the lemma can be used where one with an
operator as its parameter could not); a fold over a sequence exists as a function over
its index sets and gains one step with each `Append`; what `Selected` returns follows.

`TypeCorrect` and `IndexesTheorem` are parts of one invariant, `Typed`: the types of a run need
those of the queue and its indexes, for a run takes the files to read from the index by
task, and a task of the queue is a task (`UniqueTasksOf`). That the indexes agree after a
removal is that filtering twice is filtering once by both tests (`SelectedTwice`).

`OneRun`: `pendingSync` is the run at work whenever one is (`WorkIsPending`), and a forced
call resumed by the end of a run finds none pending, with nothing in between
(`ResumedAlone`); it does not look again, which is why a second forced call breaks the
property (section 5). `OneForced` is the hypothesis of the three theorems that rest on it;
with two forced calls TLC finds all three violated.

`NeverGoesBack`: what a run has read or is sending is no older than what its session has
and no newer than the disk (`Reading`, `Uploading`), versions on the server are at most those
on disk (`VersionsFit`), and a session that is being filled on request is no task's and no
run's yet, and its files are no newer than what the call has read (`ShareFit`, `RunFit`), so its two
uploads replace nothing newer. Only the run at work can be disturbed, since it is the only one
(`AloneAtWork`).

`NeverOutOfSight` is `NothingLost`: a file that was sent (saved, and its message come) is queued
or on the server. What leaves the queue is on the server of the run's session, but the
property is about the task's session, and the two may differ when a session made on
request comes in between: that one has both files of the conversation, because it became
the task's only after the second upload (`Made`). It never got the metadata, which is why
the property makes an exception of it; without the exception TLC finds it violated
(section 5).

`FlushesAll` needs no hypothesis. `Flushed` says what a forced call still waits for: each item
it marked is gone, or `Ahead` of the run it waits for (its task is still to come, or its
file still to be sent under a time that covers the item). That the time covers it is
`Newest`, which needs `IndexesAgree`; that a file with an item is not skipped as unreadable is
`WorkSaved`; that a marked item is not queued again is `Old`.

**ContextHistory.** Every operation makes a history of a history. What each returns is stated
as a map between indexes: a *derived* history has each of its messages from the one before,
in the same order, but for at most one that is new (`Derived`); a *thinned* one has all that
are in a set (`Thinned`). One lemma for each operator of the code says which it does, and
what becomes of the tags (`CondensedDoes`, `TruncatedDoes`, `UncondensedDoes`, `RewoundDoes`); the
lemmas about invariants use these and no operator. A filter is a fold, so what it returns is
an induction over sequences (`SelectedIndices` of `OperatorLemmas`).

`TypeInv` is the form of a history: ids differ, plain messages have increasing times with
summaries and markers between them (`InOrder`), at most `reductions` before a message's time
(`MessageOK`; this is where `Gap` is needed), a summary lies behind all it hides
(`HiddenBefore`), and a history begins with the user's message. A condensation by hand works on
a history of an earlier moment, so the form holds of `manual` as well, with one reduction less.
A rewind asks for the time of a comment, which no message has (`CommentsApart`): so it cuts at
a user message, and the first message stays.

`TellInv` holds of both histories too. `Telling`: a summary tells of what the summaries before
it told of (`TellOn`), of each earlier message but an answer none of whose calls has a result
behind it (`TellAll`), and of each answer whose calls a later summary still carries
(`TellCarried`). The last is needed because a result may come to an answer after it was
summarised without one. What may come is a result for a call in hand, and every summary behind
the answer with those calls tells of it (`CurrentAnswer`). `Parting`: a summary behind an
answer has its calls, unless it was set before the answer that follows (`CarriedOn`); the next
user message has the results of all of them (`AnsweredNext`); both for answers that no
truncation ever hid, and a truncation hides all there is before its marker (`CutBefore`).
`SentFrom` says what is sent: a range of the history with hidden messages left out, from the last
summary on. `NothingForgottenEver` and `ResultsHaveCallsEver` follow. The proof attempt showed earlier forms of both properties
to be too strong, and TLC then found the histories: they are stated now of answers without
results *behind* them, and of results that directly follow their calls (section 5).

`RewindInv` says of each intact comment, at every moment, what a rewind to it would bring back.
`Left` is what the rewind would leave: each plain message that no user message after the comment
precedes, and each summary and marker made before the comment. `SeenThen` is what of this is
hidden by nothing that is left, and `Restorable` that it is what was before the comment: a tag
set later must name a summary or a marker that goes, and no tag that was there before may
have been lost. The rest is needed for the code to find what `Left` says. Each summary or
marker made after the comment is linked to a later message of the chat (`Linked`), or it would
stay. A marker is a user message and may be where the history is cut: one made after the comment
was made after a user message (`MarkedLater`), and no answer comes between it and
the user message after the comment (`MarkedApart`). While an answer streams in, the comment
is either answered by a saved user message or newer than the whole history, so that the answer
is part of what was before it (`Waits`). New messages keep this (`Grown`), as does a rewind
to a later comment (`CutTo`). TLC had checked `RewindInv` on all states of `history` before it
was proved. In the theorem the cut falls on the first user message after the comment
(`CutoffFollows`: no message has the comment's time), what the rewind keeps is what is `Left`
(`KeptIsLeft`), and a step that makes the chat shorter is a rewind (`OnlyRewindCuts`).

**Only model-checked.** All liveness
(`SupersededAskEnds`, `QueuedMessageUnblocks`, `WaitEnds`, `ForcedSyncReturns`, `CallsSettle`,
`WaitersComeBack`, `RestoreReloads`), which the prover does not reach under fairness.

## 5. Where the code and its documentation disagree

With a run of their own (details in `PROJECT.json`):

* `ask_denied`: a queued message overrides a decision of the denylist.
* `present_hang`: an error in a call that is still arriving leaves the task waiting for
  `userMessageContentReady` for ever.
* `conv_retry`: after an empty response, a retry by hand sends the request without the
  user's message and the tool results in it.
* `sync_forgotten`: a file saved between its read and its upload is taken off the queue
  with the older version sent.

Met while modelling, and visible by dropping a condition of section 3 or by stating the
quoted sentence as a property:

* `ExecuteCommandTool.ts:219` says the output of a command that went on in the background
  as an interactive message, which supersedes whatever question the user is looking at
  (`Task.ts:2395` warns of it). The timers of the superseded question go on
  (`Task.ts:2010`): one may answer a later question, the other reports that the
  task waits.
* The automatic approval of a `command_output` ask that was superseded while it read the
  settings lands in the slot and approves the command ask registered meanwhile
  (`Task.ts:1895`).
* A task aborted between an ask and its answer goes on to start the command
  (`Task.ts:1976` does not look at `abort`).
* A retry after a broken stream clears the presenter's lock under a tool that is still
  running (`Task.ts:3378`), and the index then counts for both.
* A tool whose ask was superseded, or an accepted `attempt_completion`, ends without a
  result (`presentAssistantMessage.ts:764`); the repair answers for it later.
* Guidance given at the mistake limit during a retry reaches no request (`Task.ts:3139`);
  a subtask's result is lost when the parent's first response is empty (`Task.ts:4392`);
  under the XML protocol an empty response adds the user's message twice (`Task.ts:4421`).
* `new_task` may delegate while the response streams, before the assistant message is
  saved, contrary to `ClineProvider.ts:4428`. Results of calls before it that were refused are
  then checked against the assistant message before (`Task.ts:1552`): the first take the ids of
  its calls, those beyond their number are dropped. TLC shows it when `pc = "tools"` is dropped
  from `FlushKeepsResults`, with 6 tokens, 3 calls a response and 5 messages. A subtask may report to a parent that has gone on
  without it (`ClineProvider.ts:4567`).
* Two forced syncs that wait for the same run both start one (`SessionSyncService.ts:164`);
  a session asked for while a run creates one gives the task two
  (`SessionLifecycleService.ts:356`); a git state whose upload failed is never sent
  (`SessionSyncService.ts:577`).
* A session made on request gets the conversation only (`SessionLifecycleService.ts:448`). When
  it takes the place of a session that had the task's `task_metadata`
  (`SessionSyncService.ts:627` queues it), those have left the queue, and the task's session is
  without them until they are saved again. TLC shows it when the exception of
  `QueuedOrStored` is dropped.
* `safeWriteJson` moves the file away before it renames the new one to it
  (`safeWriteJson.ts:89`): in between there is no file, for readers and after a crash.

About the context history (with the `intact` mark of `RewindRestores` dropped, TLC shows the
ones about rewinding):

* The `condense_context` message of `handleContextWindowExceededError` has no
  `condenseId` (`Task.ts:4779`), `condenseTool` posts none, and a condensation made again
  after `uncondenseForExtendedThinking` is linked to no message: a rewind leaves their
  summaries. A truncation after a failed condensation posts the error only, so its marker
  stays as well (`Task.ts:5005`).
* A truncation marker is a user message. One placed before an answer that was saved
  after a comment becomes the "first user message" of a rewind to that comment, and the
  answer is lost (`message-manager/index.ts:166`). A rewind before the comment's own user
  message is saved cuts the answer too, and one while the answer streams leaves two
  assistant messages in a row.
* A condensation by hand replaces the history with the condensed form of what it read
  and loses messages added meanwhile (`Task.ts:2271`); made while a response streams it saves
  tool results before the assistant message with their calls.
* `getKeepMessagesWithToolBlocks` looks for the calls of a kept result in the three messages
  before the kept ones (`condense/index.ts:122`). Each condensation by hand saves the results
  at hand, which the repair fills up to all calls of the answer, so that the messages after it
  repeat them; after a few of them the call is out of reach, and the repeated result is sent
  without it.
* Truncation counts messages that a condensation already hid, and can hide a call
  without its result. Condensing twice in a row gives two summaries one timestamp.
* `message-manager/index.ts:39` calls itself the single entry point for rewinding;
  `deleteMessagesForResend` (`webviewMessageHandlerUtils.ts:170`) and
  `ClineProvider.ts:1535` cut the histories without it.

About checkpoints and file context (with the exceptions of `RestoreReloads` and
`OthersChangesTold` dropped, TLC shows the first two and the marks):

* `cancelTask` at the end of a restore is not awaited and throws while another window's
  restore is unacknowledged (`checkpoints/index.ts:331`): the task is not reloaded, contrary
  to "we need to re-init to get the updated messages" above it.
* Deleting a message with a restore aborts the instance first, so the rewind's own
  message always throws and checkpoints end for that instance; a cancellation during a
  restore does the same.
* Saves and diffs take no lock: a checkpoint may hold a workspace that a restore has
  half cleaned. An error of `git add` is swallowed, and the commit holds what was staged
  before.
* An initialisation that fails in git leaves its flag set, and callers wait out the
  whole timeout; a waiter's timeout disables checkpoints although the initialisation may
  still succeed; the initialiser has no timeout of its own.
* `FileContextTracker.ts:22` promises to track a file "modified outside of Roo". The
  first edit of a file that is not watched yet, or one reported before its mark, leaves
  a mark that swallows the user's next change; files that appear or go are not watched, a
  change between reading and watching is not seen, and a reopened task watches nothing.

## 6. Plan

Done: `TaskAsk`, `PresentAssistant`, `ToolResults` with `Conversation`, `ContextHistory`,
`SafeWrite` with `AtomicFile`, `Checkpoints` and `FileContext` with `Workspace`,
`SessionSync`, and the proofs of section 4. What is left, in this order:

1. `CodeIndex` (`services/code-index`): manager and orchestrator starting, stopping and
   clearing while a scan and the watcher run; that a stopped index does not report itself
   as indexed.
2. `McpHub`: connections replaced by a settings change while they connect, and the
   watcher's own restarts; that one connection is left per server.
3. `AgentManager`: agent processes, their sessions and the events that arrive after a
   process was replaced.
4. The XML protocol in `PresentAssistant` and `ContextHistory`; the dated records of file
   metadata in `FileContext` (an unlocked read-modify-write); branches of the old layout
   in `Checkpoints`.
5. Refinements: the queue of `SessionSync` implements a set of dirty files; the lock of
   `PresentAssistant` implements one presenter over the list of blocks.

## 7. Composition, and what is not modelled

`Conversation` EXTENDS `ToolResults`, and `Workspace` composes `Checkpoints` and
`FileContext`. The others are composed by their interface (what a result is, what a save
does), each stating what it assumes of its neighbour: `Conversation` takes a save as one
step, which `Refines` justifies up to the gap noted above, and the end of a tool call as
one step, which `AllAnswered` and `OneAtATime` justify while no stream breaks off;
`ContextHistory` takes over the repaired results of `ToolResults`.

Not modelled, beyond the plan: API providers, the parsing of XML tool calls, the effects
of tools on files other than the one of `Workspace`, terminals below the command of
`TaskAsk`, configuration, autocomplete, speech, marketplace, the webview and the JetBrains
host. They are inputs or outputs of what is modelled, text processing or user interface,
a large part of the lines of the repository, and hold little state that outlives one
call. `ClineProvider` and the webview's message handler appear through the operations
they call; the rest of both is dispatch.
