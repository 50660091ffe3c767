---------------------------- MODULE SessionSync ----------------------------
(* The upload of a task's files to its cloud session: SyncQueue, which         *)
(* remembers which files changed, SessionSyncService, which uploads them, and  *)
(* SessionLifecycleService.getOrCreateSessionForTask, which makes a session    *)
(* for a task on its own and gives it the two files of the conversation.       *)
(*                                                                             *)
(* A file is its version number: SaveFile writes the next one, and the         *)
(* message that follows the save (FileUpdated) queues an item.  doSync runs    *)
(* are asynchronous: one action for each stretch between two awaits.  The      *)
(* callers resumed by the end of a run (woken) go before anything else, as     *)
(* microtasks do.  Titles, modes and updated_at stamps are left out, and       *)
(* KILO_DISABLE_SESSIONS is unset.                                             *)
EXTENDS Naturals, FiniteSets, FiniteSetsExt, Selection

CONSTANTS Task,        \* the tasks
          Blob,        \* the files of a task
          ApiHistory, UiMessages, \* the two of them a session made on request gets
          Sync,        \* names for the doSync runs under way
          Forced,      \* the calls of doSync(true)
          Shared,      \* the tasks whose session the user asks for
          FlushAt,     \* queueFlushThreshold
          MaxWrites,   \* saves of all files
          MaxGit,      \* changes of the git state
          MaxFailures, \* calls that fail
          NoTask, NoItem, NoSync

Items == [task : Task, blob : Blob, time : Nat, version : Nat]

ASSUME ConstantsOK ==
    /\ NoSync \notin Sync /\ NoTask \notin Task /\ NoItem \notin Items
    /\ Shared \subseteq Task
    /\ {ApiHistory, UiMessages} \subseteq Blob
    /\ {FlushAt, MaxWrites, MaxGit, MaxFailures} \subseteq Nat

VARIABLES file,      \* the version of each file on disk
          unsent,    \* the files saved whose "...Saved" message is to come
          now,       \* Date.now() when an item was last queued, 0 before
          items,     \* SyncQueue.items
          taskIndex, \* SyncQueue.taskIndex
          blobIndex, \* SyncQueue.blobIndex
          pending,   \* SessionSyncService.pendingSync
          run,       \* the doSync runs under way
          caller,    \* where each call of doSync(true) is, and on which run
          woken,     \* the calls whose await just ended
          sessionFor,\* the session of each task, 0 for none
          active,    \* the active session id, 0 for null
          server,    \* the sessions on the server
          sharing,   \* the calls of getOrCreateSessionForTask
          gitNow,    \* the git state of the workspace, 0 outside a repository
          gitHash,   \* the hash of the git state last uploaded for each task
          failures

queue == <<items, taskIndex, blobIndex>>
disk  == <<file, unsent, now>>
cloud == <<sessionFor, server>>
git   == <<gitNow, gitHash>>
calls == <<pending, caller, woken, active>>
vars  == <<disk, queue, calls, run, cloud, sharing, git, failures>>

Idle == [pc |-> "idle", todo |-> <<>>, last |-> NoTask, git |-> 0,
         session |-> 0, names |-> {}, live |-> FALSE,
         read |-> <<>>, sending |-> <<>>]
Unread == 0
Session(t) == [task |-> t, blob |-> [b \in Blob |-> 0], git |-> 0]
TaskOf(s) == Head(run[s].todo)
Conversation == {ApiHistory, UiMessages}

TypeOK ==
    /\ file \in [Task -> [Blob -> Nat]]
    /\ unsent \subseteq Task \X Blob
    /\ items \in Seq(Items)
    /\ taskIndex \in [Task -> Seq(Items)]
    /\ blobIndex \in [Task -> [Blob -> Items \cup {NoItem}]]
    /\ pending \in Sync \cup {NoSync}
    /\ \A s \in Sync :
         /\ run[s].pc \in {"idle", "token", "git", "session", "reading",
                           "uploading", "git upload"}
         /\ run[s].todo \in Seq(Task)
         /\ run[s].pc \in {"session", "reading", "uploading", "git upload"}
              => run[s].todo # <<>>
         /\ run[s].names \subseteq Blob
         /\ DOMAIN run[s].read \subseteq run[s].names
         /\ DOMAIN run[s].sending \subseteq run[s].names
    /\ \A f \in Forced :
         caller[f].pc \in {"uncalled", "waiting", "running", "done"}
    /\ woken \subseteq Forced
    /\ sessionFor \in [Task -> 0..Len(server)]
    /\ active \in 0..Len(server)
    /\ gitHash \in [Task -> 0..MaxGit] /\ gitNow \in 0..MaxGit
    /\ failures \in 0..MaxFailures

Init ==
    /\ file = [t \in Task |-> [b \in Blob |-> 0]] /\ unsent = {} /\ now = 0
    /\ items = <<>> /\ taskIndex = [t \in Task |-> <<>>]
    /\ blobIndex = [t \in Task |-> [b \in Blob |-> NoItem]]
    /\ pending = NoSync /\ run = [s \in Sync |-> Idle]
    /\ caller = [f \in Forced |-> [pc |-> "uncalled", on |-> NoSync, mark |-> {}]]
    /\ woken = {}
    /\ sessionFor = [t \in Task |-> 0] /\ active = 0 /\ server = <<>>
    /\ sharing = [t \in Task |-> [pc |-> "uncalled", session |-> 0, read |-> <<>>]]
    /\ gitNow = 0 /\ gitHash = [t \in Task |-> 0]
    /\ failures = 0

Quiet == woken = {}
Fail  == failures < MaxFailures /\ failures' = failures + 1

-----------------------------------------------------------------------------
\* SyncQueue

OfTask(q, t)    == Selected(q, {i \in Items : i.task = t})
OfBlob(q, t, b) == Selected(q, {i \in Items : i.task = t /\ i.blob = b})
Without(q, t, b, time) ==
    Selected(q, {i \in Items : ~(i.task = t /\ i.blob = b /\ i.time <= time)})
LastOr(q, none) == IF q = <<>> THEN none ELSE Last(q)

\* enqueue: a run that has taken the array of the task's items sees the push.
Enqueue(i) ==
    /\ items' = Append(items, i)
    /\ taskIndex' = [taskIndex EXCEPT ![i.task] = Append(@, i)]
    /\ blobIndex' = [blobIndex EXCEPT ![i.task][i.blob] = i]

Seen(i) == [s \in Sync |->
    IF run[s].live /\ TaskOf(s) = i.task
    THEN [run[s] EXCEPT !.names = @ \cup {i.blob}] ELSE run[s]]

\* Mutant: the blob index forgets the blob although later items are queued.
BlobIndexCleared(t, b, time) ==
    LET left == Without(items, t, b, time)
    IN /\ items' = left
       /\ taskIndex' = [taskIndex EXCEPT ![t] = OfTask(left, t)]
       /\ blobIndex' = [blobIndex EXCEPT ![t][b] = NoItem]

\* removeProcessedItems
RemoveProcessedItems(t, b, time) ==
    LET left == Without(items, t, b, time)
    IN /\ items' = left
       /\ taskIndex' = [taskIndex EXCEPT ![t] = OfTask(left, t)]
       /\ blobIndex' = [blobIndex EXCEPT ![t][b] = LastOr(OfBlob(left, t, b), NoItem)]

\* The task's array is replaced: a run that holds the old one is cut off.
CutOff(t) == [s \in Sync |->
    IF run[s].live /\ TaskOf(s) = t
    THEN [run[s] EXCEPT !.live = FALSE] ELSE run[s]]

-----------------------------------------------------------------------------
\* doSync

FreeSync == {s \in Sync : run[s].pc = "idle"}
NewSync  == CHOOSE s \in FreeSync : TRUE

\* A run of syncSession begins: with items queued it awaits the token check.
\* (With none it returns at once, and pendingSync is cleared as it was set.)
Begin(runs) ==
    /\ FreeSync # {}
    /\ pending' = NewSync
    /\ run' = [runs EXCEPT ![NewSync] = [Idle EXCEPT !.pc = "token"]]

\* A task saves one of its files.
Saves == MapThenSumSet(LAMBDA p : file[p[1]][p[2]], Task \X Blob)
SaveFile(t, b) ==
    /\ Quiet
    /\ <<t, b>> \notin unsent /\ Saves < MaxWrites
    /\ file' = [file EXCEPT ![t][b] = @ + 1]
    /\ unsent' = unsent \cup {<<t, b>>}
    /\ UNCHANGED <<now, queue, calls, run, cloud, sharing, git, failures>>

\* handleFileUpdate: the item is queued, and a full queue asks for a flush.
FileUpdated(t, b) ==
    /\ Quiet
    /\ <<t, b>> \in unsent
    /\ unsent' = unsent \ {<<t, b>>}
    /\ now' \in {now, now + 1} \ {0}
    /\ LET i == [task |-> t, blob |-> b, time |-> now', version |-> file[t][b]]
       IN /\ Enqueue(i)
          /\ IF Len(items') > FlushAt /\ pending = NoSync
             THEN Begin(Seen(i)) ELSE run' = Seen(i) /\ UNCHANGED pending
    /\ UNCHANGED <<file, caller, woken, active, cloud, sharing, git, failures>>

\* Mutant: an unforced call does not look at pendingSync.
SyncWithoutLooking ==
    /\ Quiet
    /\ items # <<>>
    /\ Begin(run)
    /\ UNCHANGED <<disk, queue, caller, woken, active, cloud, sharing, git, failures>>

\* doSync(): joins the pending run, or begins one.
RequestSync ==
    /\ Quiet
    /\ pending = NoSync /\ items # <<>>
    /\ Begin(run)
    /\ UNCHANGED <<disk, queue, caller, woken, active, cloud, sharing, git, failures>>

\* Mutant: a forced call joins the pending run, as an unforced one does.
ForceJoins(f) ==
    /\ Quiet
    /\ caller[f].pc = "uncalled"
    /\ \/ /\ pending # NoSync
          /\ caller' = [caller EXCEPT ![f] =
                          [pc |-> "running", on |-> pending, mark |-> ToSet(items)]]
          /\ UNCHANGED <<pending, run>>
       \/ /\ pending = NoSync /\ items # <<>>
          /\ Begin(run)
          /\ caller' = [caller EXCEPT ![f] =
                          [pc |-> "running", on |-> pending', mark |-> ToSet(items)]]
    /\ UNCHANGED <<disk, queue, woken, active, cloud, sharing, git, failures>>

\* Mutant: a forced call does not wait for the pending run.
ForceWithoutWaiting(f) ==
    /\ Quiet
    /\ caller[f].pc = "uncalled"
    /\ items # <<>>
    /\ Begin(run)
    /\ caller' = [caller EXCEPT ![f] =
                    [pc |-> "running", on |-> pending', mark |-> ToSet(items)]]
    /\ UNCHANGED <<disk, queue, woken, active, cloud, sharing, git, failures>>

\* doSync(true): waits for the pending run, or begins one.
ForceSync(f) ==
    /\ Quiet
    /\ caller[f].pc = "uncalled"
    /\ \/ /\ pending # NoSync
          /\ caller' = [caller EXCEPT ![f] =
                          [pc |-> "waiting", on |-> pending, mark |-> ToSet(items)]]
          /\ UNCHANGED <<pending, run>>
       \/ /\ pending = NoSync /\ items # <<>>
          /\ Begin(run)
          /\ caller' = [caller EXCEPT ![f] =
                          [pc |-> "running", on |-> pending', mark |-> ToSet(items)]]
       \/ /\ pending = NoSync /\ items = <<>>
          /\ caller' = [caller EXCEPT ![f].pc = "done"]
          /\ UNCHANGED <<pending, run>>
    /\ UNCHANGED <<disk, queue, woken, active, cloud, sharing, git, failures>>

\* The forced call after its wait: it looks at the queue, not at pendingSync.
ForcedResumes(f) ==
    /\ f \in woken
    /\ woken' = woken \ {f}
    /\ \/ /\ items = <<>>
          /\ caller' = [caller EXCEPT ![f].pc = "done"]
          /\ UNCHANGED <<pending, run>>
       \/ /\ items # <<>>
          /\ Begin(run)
          /\ caller' = [caller EXCEPT ![f].pc = "running", ![f].on = pending']
    /\ UNCHANGED <<disk, queue, active, cloud, sharing, git, failures>>

\* Mutant: pendingSync is not cleared when its run ends.
PendingKept(s) ==
    /\ run' = [run EXCEPT ![s] = Idle]
    /\ UNCHANGED pending
    /\ caller' = [f \in Forced |->
         IF caller[f].pc = "running" /\ caller[f].on = s
         THEN [caller[f] EXCEPT !.pc = "done"] ELSE caller[f]]
    /\ woken' = woken

\* The promise of a run settles: pendingSync is cleared if it still is that
\* promise, and the calls that await it go on.
Settle(s) ==
    /\ run' = [run EXCEPT ![s] = Idle]
    /\ pending' = IF pending = s THEN NoSync ELSE pending
    /\ caller' = [f \in Forced |->
         IF caller[f].pc = "running" /\ caller[f].on = s
         THEN [caller[f] EXCEPT !.pc = "done"] ELSE caller[f]]
    /\ woken' = woken \cup {f \in Forced : /\ caller[f].pc = "waiting"
                                           /\ caller[f].on = s}

-----------------------------------------------------------------------------
\* syncSession, for one task after another

\* The tasks of the queued items, in the order of their first item.
UniqueTasks(q) ==
    FoldLeft(LAMBDA ts, i : IF i.task \in ToSet(ts) THEN ts ELSE Append(ts, i.task),
             <<>>, q)

\* Go on with the tasks that are left; after the last one the active session
\* is that of the last item queued when the run began.
Proceed(s, r, todo) ==
    \/ /\ todo # <<>>
       /\ LET t == Head(todo)
          IN run' = [run EXCEPT ![s] =
               [r EXCEPT !.pc = "session", !.todo = todo,
                         !.session = sessionFor'[t],
                         !.names = {i.blob : i \in ToSet(taskIndex'[t])},
                         !.live = taskIndex'[t] # <<>>,
                         !.read = <<>>, !.sending = <<>>]]
       /\ UNCHANGED calls
    \/ /\ todo = <<>>
       /\ Settle(s)
       /\ active' = IF r.last = NoTask THEN active ELSE sessionFor'[r.last]

NextTask(s) == Proceed(s, run[s], Tail(run[s].todo))

\* The token is valid: the tasks to upload are those queued now.
TokenValid(s) ==
    /\ Quiet /\ run[s].pc = "token"
    /\ run' = [run EXCEPT ![s].pc = "git", ![s].todo = UniqueTasks(items),
                          ![s].last = IF items = <<>> THEN NoTask ELSE Last(items).task]
    /\ UNCHANGED <<disk, queue, calls, cloud, sharing, git, failures>>

\* There is no valid token: nothing is uploaded.
TokenInvalid(s) ==
    /\ Quiet /\ run[s].pc = "token" /\ Fail
    /\ Settle(s)
    /\ UNCHANGED <<disk, queue, active, cloud, sharing, git>>

GitStateRead(s) ==
    /\ Quiet /\ run[s].pc = "git"
    /\ UNCHANGED <<disk, queue, cloud, sharing, git, failures>>
    /\ Proceed(s, [run[s] EXCEPT !.git = gitNow], run[s].todo)

\* uploadBlobs takes the names of the files to upload from the array it holds.
StartReading(s, id) ==
    run' = [run EXCEPT ![s].pc = "reading", ![s].session = id, ![s].live = FALSE]

\* updateExistingSession
SessionUpdated(s) ==
    /\ Quiet /\ run[s].pc = "session" /\ run[s].session # 0
    /\ StartReading(s, run[s].session)
    /\ UNCHANGED <<disk, queue, calls, cloud, sharing, git, failures>>

\* Mutant: the session is remembered under the next id.
SessionMisnumbered(s) ==
    /\ Quiet /\ run[s].pc = "session" /\ run[s].session = 0
    /\ server' = Append(server, Session(TaskOf(s)))
    /\ sessionFor' = [sessionFor EXCEPT ![TaskOf(s)] = Len(server') + 1]
    /\ StartReading(s, Len(server'))
    /\ UNCHANGED <<disk, queue, calls, sharing, git, failures>>

\* createNewSession
SessionCreated(s) ==
    /\ Quiet /\ run[s].pc = "session" /\ run[s].session = 0
    /\ server' = Append(server, Session(TaskOf(s)))
    /\ sessionFor' = [sessionFor EXCEPT ![TaskOf(s)] = Len(server')]
    /\ StartReading(s, Len(server'))
    /\ UNCHANGED <<disk, queue, calls, sharing, git, failures>>

\* The update or the creation fails, perhaps after the server has done it: the
\* error is logged and the next task is taken.
SessionFails(s) ==
    /\ Quiet /\ run[s].pc = "session" /\ Fail
    /\ \/ UNCHANGED server
       \/ run[s].session = 0 /\ server' = Append(server, Session(TaskOf(s)))
    /\ UNCHANGED <<disk, queue, sessionFor, sharing, git>>
    /\ NextTask(s)

Known(read, b, v) == [x \in DOMAIN read \cup {b} |-> IF x = b THEN v ELSE read[x]]

\* readBlobFiles: one file is read.
FileRead(s, b) ==
    /\ Quiet /\ run[s].pc = "reading" /\ b \in run[s].names \ DOMAIN run[s].read
    /\ run' = [run EXCEPT ![s].read = Known(@, b, file[TaskOf(s)][b])]
    /\ UNCHANGED <<disk, queue, calls, cloud, sharing, git, failures>>

FileUnreadable(s, b) ==
    /\ Quiet /\ run[s].pc = "reading" /\ b \in run[s].names \ DOMAIN run[s].read
    /\ Fail
    /\ run' = [run EXCEPT ![s].read = Known(@, b, Unread)]
    /\ UNCHANGED <<disk, queue, calls, cloud, sharing, git>>

\* uploadBlobs once the files are read: what was read is sent under the time
\* of the item that is the last one now.
UploadsStart(s) ==
    LET t == TaskOf(s)
        sent == {b \in run[s].names : blobIndex[t][b] # NoItem /\ run[s].read[b] # Unread}
    IN /\ Quiet /\ run[s].pc = "reading" /\ DOMAIN run[s].read = run[s].names
       /\ run' = [run EXCEPT ![s].pc = "uploading", ![s].sending =
            [b \in sent |-> [version |-> run[s].read[b], time |-> blobIndex[t][b].time]]]
       /\ UNCHANGED <<disk, queue, calls, cloud, sharing, git, failures>>

Stored(id, b, v) == server' = [server EXCEPT ![id].blob[b] = v]
Answered(runs, s, b) ==
    run' = [runs EXCEPT ![s].sending = Restrict(@, DOMAIN @ \ {b})]

\* An upload is answered: the items it stands for leave the queue.
UploadReturns(s, b) ==
    /\ Quiet /\ run[s].pc = "uploading" /\ b \in DOMAIN run[s].sending
    /\ Stored(run[s].session, b, run[s].sending[b].version)
    /\ RemoveProcessedItems(TaskOf(s), b, run[s].sending[b].time)
    /\ Answered(CutOff(TaskOf(s)), s, b)
    /\ UNCHANGED <<disk, calls, sessionFor, sharing, git, failures>>

\* Mutant: the items leave the queue although the upload failed.
UploadFailureDropsItems(s, b) ==
    /\ Quiet /\ run[s].pc = "uploading" /\ b \in DOMAIN run[s].sending /\ Fail
    /\ RemoveProcessedItems(TaskOf(s), b, run[s].sending[b].time)
    /\ Answered(CutOff(TaskOf(s)), s, b)
    /\ UNCHANGED <<disk, calls, cloud, sharing, git>>

\* An upload fails, perhaps after the server has stored it.
UploadFails(s, b) ==
    /\ Quiet /\ run[s].pc = "uploading" /\ b \in DOMAIN run[s].sending /\ Fail
    /\ \/ UNCHANGED server
       \/ Stored(run[s].session, b, run[s].sending[b].version)
    /\ Answered(run, s, b)
    /\ UNCHANGED <<disk, queue, calls, sessionFor, sharing, git>>

\* uploadGitState: the hash is taken down before the upload is tried.
UploadsDone(s) ==
    LET t == TaskOf(s) IN
    /\ Quiet /\ run[s].pc = "uploading" /\ run[s].sending = <<>>
    /\ UNCHANGED <<disk, queue, cloud, sharing, gitNow, failures>>
    /\ \/ /\ run[s].git \in {0, gitHash[t]}
          /\ UNCHANGED gitHash
          /\ NextTask(s)
       \/ /\ run[s].git \notin {0, gitHash[t]}
          /\ gitHash' = [gitHash EXCEPT ![t] = run[s].git]
          /\ run' = [run EXCEPT ![s].pc = "git upload"]
          /\ UNCHANGED calls

GitUploaded(s) ==
    /\ Quiet /\ run[s].pc = "git upload"
    /\ server' = [server EXCEPT ![run[s].session].git = run[s].git]
    /\ UNCHANGED <<disk, queue, sessionFor, sharing, git, failures>>
    /\ NextTask(s)

GitUploadFails(s) ==
    /\ Quiet /\ run[s].pc = "git upload" /\ Fail
    /\ UNCHANGED <<disk, queue, cloud, sharing, git>>
    /\ NextTask(s)

\* The workspace gets another git state.
GitChanges ==
    /\ Quiet /\ gitNow < MaxGit
    /\ gitNow' = gitNow + 1
    /\ UNCHANGED <<disk, queue, calls, run, cloud, sharing, gitHash, failures>>

-----------------------------------------------------------------------------
\* getOrCreateSessionForTask

ShareStep(t, from, to, id, read) ==
    /\ Quiet /\ sharing[t].pc = from
    /\ sharing' = [sharing EXCEPT ![t] = [pc |-> to, session |-> id, read |-> read]]

\* The task has a session, and the server knows it.
ShareFindsSession(t) ==
    /\ sessionFor[t] # 0
    /\ ShareStep(t, "uncalled", "found", sessionFor[t], <<>>)
    /\ UNCHANGED <<disk, queue, calls, run, cloud, git, failures>>

\* It has none, or the check of the one it has fails.
ShareFindsNone(t) ==
    /\ \/ sessionFor[t] = 0 /\ UNCHANGED failures
       \/ sessionFor[t] # 0 /\ Fail
    /\ ShareStep(t, "uncalled", "loading", 0, <<>>)
    /\ UNCHANGED <<disk, queue, calls, run, cloud, git>>

\* The two files of the conversation are read; the task's metadata is not.
ShareReadsFiles(t) ==
    /\ \A b \in Conversation : file[t][b] > 0
    /\ ShareStep(t, "loading", "creating", 0, [b \in Conversation |-> file[t][b]])
    /\ UNCHANGED <<disk, queue, calls, run, cloud, git, failures>>

ShareCreatesSession(t) ==
    /\ server' = Append(server, Session(t))
    /\ ShareStep(t, "creating", "history", Len(server'), sharing[t].read)
    /\ UNCHANGED <<disk, queue, calls, run, sessionFor, git, failures>>

ShareSends(t, b) == Stored(sharing[t].session, b, sharing[t].read[b])

\* The two files are uploaded, one after the other.
ShareUploadsHistory(t) ==
    /\ sharing[t].pc = "history"
    /\ ShareSends(t, ApiHistory)
    /\ ShareStep(t, "history", "messages", sharing[t].session, sharing[t].read)
    /\ UNCHANGED <<disk, queue, calls, run, sessionFor, git, failures>>

\* Only after the second is the session that of the task.
ShareUploadsMessages(t) ==
    /\ sharing[t].pc = "messages"
    /\ ShareSends(t, UiMessages)
    /\ sessionFor' = [sessionFor EXCEPT ![t] = sharing[t].session]
    /\ ShareStep(t, "messages", "made", sharing[t].session, <<>>)
    /\ UNCHANGED <<disk, queue, calls, run, git, failures>>

\* A file of the conversation is missing, or a call fails: what the server may
\* have made of the session by then is left to itself.
ShareFails(t) ==
    /\ \/ /\ \E b \in Conversation : file[t][b] = 0
          /\ ShareStep(t, "loading", "failed", 0, <<>>)
          /\ UNCHANGED failures
       \/ /\ \E pc \in {"creating", "history", "messages"} : ShareStep(t, pc, "failed", 0, <<>>)
          /\ Fail
    /\ UNCHANGED <<disk, queue, calls, run, cloud, git>>

-----------------------------------------------------------------------------

RunStep(s) ==
    \/ TokenValid(s) \/ GitStateRead(s)
    \/ SessionUpdated(s) \/ SessionCreated(s)
    \/ \E b \in Blob : FileRead(s, b) \/ UploadReturns(s, b)
    \/ UploadsStart(s) \/ UploadsDone(s) \/ GitUploaded(s)

RunFails(s) ==
    \/ TokenInvalid(s) \/ SessionFails(s) \/ GitUploadFails(s)
    \/ \E b \in Blob : FileUnreadable(s, b) \/ UploadFails(s, b)

Share(t) ==
    \/ ShareFindsSession(t) \/ ShareFindsNone(t) \/ ShareReadsFiles(t)
    \/ ShareCreatesSession(t) \/ ShareUploadsHistory(t) \/ ShareUploadsMessages(t)
    \/ ShareFails(t)

Next ==
    \/ \E t \in Task, b \in Blob : SaveFile(t, b) \/ FileUpdated(t, b)
    \/ RequestSync
    \/ \E f \in Forced : ForceSync(f) \/ ForcedResumes(f)
    \/ \E s \in Sync : RunStep(s) \/ RunFails(s)
    \/ \E t \in Shared : Share(t)
    \/ GitChanges

Spec == Init /\ [][Next]_vars

\* Promises settle and the event loop runs what they resume; users need not act.
Fairness ==
    /\ \A s \in Sync : WF_vars(RunStep(s))
    /\ \A f \in Forced : WF_vars(ForcedResumes(f))

FairSpec == Spec /\ Fairness

-----------------------------------------------------------------------------
\* Properties

\* The three indexes of the queue agree: after any mix of pushes and removals
\* by several runs, the items found by task or by file are those in the list.
IndexesAgree ==
    \A t \in Task :
      /\ taskIndex[t] = OfTask(items, t)
      /\ \A b \in Blob : blobIndex[t][b] = LastOr(OfBlob(items, t, b), NoItem)

\* Two runs never work on the queue at once: unforced calls join the pending
\* run and a forced call waits for it (a single one: two that wait for the same run
\* both start one after it).
OneSyncAtATime ==
    \A r, s \in Sync : run[r].pc # "idle" /\ run[s].pc # "idle" => r = s

\* The task's session was made on request.
MadeOnRequest(t) ==
    sharing[t].pc = "made" /\ sessionFor[t] = sharing[t].session

\* A file that was queued never drops out of sight, whatever uploads fail and
\* whichever of several sessions becomes the task's: it is queued, or the
\* task's session has some version of it.  The task's metadata is the
\* exception: a session made on request takes the place of one that has it.
QueuedOrStored ==
    \A t \in Task, b \in Blob :
      file[t][b] > 0 /\ <<t, b>> \notin unsent =>
        \/ \E i \in ToSet(items) : i.task = t /\ i.blob = b
        \/ /\ sessionFor[t] # 0
           /\ \/ server[sessionFor[t]].blob[b] > 0
              \/ b \notin Conversation /\ MadeOnRequest(t)

\* Once the queue has no item of a file, the server has the file as it is on
\* disk: removeProcessedItems takes only items included in an upload.
NothingForgotten ==
    \A t \in Task, b \in Blob :
      file[t][b] > 0 /\ <<t, b>> \notin unsent =>
        \/ \E i \in ToSet(items) : i.task = t /\ i.blob = b
        \/ sessionFor[t] # 0 /\ server[sessionFor[t]].blob[b] = file[t][b]

\* When doSync(true) returns, everything queued before it was called is gone
\* from the queue, unless a call has failed.
ForcedSyncFlushes ==
    failures = 0 =>
      \A f \in Forced : caller[f].pc = "done" => caller[f].mark \cap ToSet(items) = {}

\* An upload never replaces a file on the server by an older one.
ServerNeverGoesBack ==
    [][\A i \in 1..Len(server), b \in Blob :
         server'[i].blob[b] >= server[i].blob[b]]_vars

\* A forced sync comes to an end, whatever runs it has to wait for.
ForcedSyncReturns ==
    \A f \in Forced :
      caller[f].pc \in {"waiting", "running"} ~> caller[f].pc = "done"
=============================================================================
