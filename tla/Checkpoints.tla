---------------------------- MODULE Checkpoints ----------------------------
(* Checkpoints of the tasks that work in one workspace, each in a window of    *)
(* its own: getCheckpointService with the initialisation its callers share,    *)
(* the saves and diffs, and the restores with the workspace's lock, the        *)
(* broadcast to the other windows and the new instance of the task.            *)
(*                                                                             *)
(* A call is one call of getCheckpointService and what its caller does with    *)
(* the service; a step ends at an await.  Every task has a shadow repository,  *)
(* here its index, its head and its commits, and a commit is what it holds.    *)
(* The workspace is one file: its content is the number of the write it is     *)
(* from, or 0 when it is missing.  A service is named by the call that made    *)
(* it.  Which messages a rewind removes is in ContextHistory.                  *)
EXTENDS Naturals, Sequences

CONSTANTS Task,
          MaxCalls,     \* calls of getCheckpointService
          MaxWrites,    \* writes to the file by the agents and the user
          MaxFaults     \* tasks the user cancels and git operations that fail

ASSUME BoundsNat  == {MaxCalls, MaxWrites, MaxFaults} \subseteq Nat /\ MaxWrites > 0
ASSUME TasksExist == Task # {}

Call     == 1 .. MaxCalls
NoCall   == 0
Content  == 0 .. MaxWrites
Instance == Task \X (1 .. 1 + MaxCalls + MaxFaults)

VARIABLES
    gen,           \* which instance of a task its window shows
    enabled,       \* of an instance: enableCheckpoints
    service,       \* of an instance: checkpointService
    initializing,  \* of an instance: checkpointServiceInitializing
    pc, job,       \* of a call: where it is, and what for
    made,          \* the services whose git is set (isInitialized)
    index, head,   \* of a task's repository
    commits,       \* of all repositories
    saved,         \* the checkpoint_saved messages of a task
    tail,          \* operationTails: the operation last in line
    prev,          \* of a call: whose end it waits for
    asked,         \* (for the properties) the calls in the order they asked
    stale,         \* of a window: a staleWorkspaceRestore that is not acknowledged
    disk, writes, faults

lockVars == <<tail, prev, asked>>
instVars == <<gen, enabled, service, initializing>>
repoVars == <<index, head, commits, saved>>
ckVars   == <<instVars, pc, job, made, repoVars, lockVars, stale, disk, writes, faults>>

Kind   == {"save", "restore"}    \* a diff goes the way of a save, and stops before the commit
Job    == [kind : Kind, of : Instance, svc : Call \cup {NoCall}, to : Nat]
NoJob  == [kind |-> "save", of |-> CHOOSE i \in Instance : TRUE, svc |-> NoCall, to |-> 0]
Inside == {"cleaning", "resetting"}
Past   == {"released", "rewinding", "done"}
Place  == Inside \cup Past \cup
          {"idle", "checking", "waiting", "got", "staged", "lined"}

TaskOf(c) == job[c].of[1]
Now(t)    == <<t, gen[t]>>

Init ==
    /\ gen = [t \in Task |-> 1]
    /\ enabled = [i \in Instance |-> TRUE]
    /\ service = [i \in Instance |-> NoCall]
    /\ initializing = [i \in Instance |-> FALSE]
    /\ pc = [c \in Call |-> "idle"] /\ job = [c \in Call |-> NoJob]
    /\ made = {}
    /\ disk = 1 /\ writes = 1
    /\ index = [t \in Task |-> 0]
    /\ \/ /\ commits = <<>>                     \* tasks that are new
          /\ head = [t \in Task |-> 0] /\ saved = [t \in Task |-> <<>>]
       \/ /\ commits = <<0>>                    \* tasks that are reopened
          /\ head = [t \in Task |-> 1] /\ saved = [t \in Task |-> <<1>>]
    /\ tail = NoCall /\ prev = [c \in Call |-> NoCall] /\ asked = <<>>
    /\ stale = [t \in Task |-> FALSE]
    /\ faults = 0

Goto(c, from, to) == pc[c] = from /\ pc' = [pc EXCEPT ![c] = to]
Fault == faults < MaxFaults /\ faults' = faults + 1

\* enableCheckpoints = false, in the catch of every caller.
Disable(i) == enabled' = [enabled EXCEPT ![i] = FALSE]

-----------------------------------------------------------------------------
\* getCheckpointService

\* The part before the first await.  A task whose checkpoints are disabled gets
\* nothing; the directory may be one that is protected.
Begin(c, t, kind, to) ==
    LET i == Now(t)
        Asks(svc) == job' = [job EXCEPT ![c] = [kind |-> kind, of |-> i, svc |-> svc, to |-> to]]
    IN  /\ enabled[i]
        /\ \/ /\ service[i] # NoCall
              /\ Asks(service[i])
              /\ pc' = [pc EXCEPT ![c] = "got"]
              /\ UNCHANGED <<enabled, initializing, faults>>
           \/ /\ service[i] = NoCall /\ initializing[i]
              /\ Asks(NoCall) /\ pc' = [pc EXCEPT ![c] = "waiting"]
              /\ UNCHANGED <<enabled, initializing, faults>>
           \/ /\ service[i] = NoCall /\ ~initializing[i]
              /\ Asks(NoCall) /\ pc' = [pc EXCEPT ![c] = "checking"]
              /\ initializing' = [initializing EXCEPT ![i] = TRUE]
              /\ UNCHANGED <<enabled, faults>>
           \/ /\ service[i] = NoCall /\ ~initializing[i] /\ Fault
              /\ Asks(NoCall) /\ pc' = [pc EXCEPT ![c] = "done"]
              /\ Disable(i) /\ UNCHANGED initializing
        /\ UNCHANGED <<gen, service, made, repoVars, lockVars, stale, disk, writes>>

\* The service is kept, whether it was initialised or not.
Assign(c) ==
    /\ Goto(c, "checking", "got")
    /\ service' = [service EXCEPT ![job[c].of] = c]
    /\ job' = [job EXCEPT ![c].svc = c]
    /\ UNCHANGED <<gen, saved, lockVars, stale, disk, writes>>

\* Git is not installed, or initShadowGit fails: then the flag stays set.
InitFails(c) ==
    /\ Assign(c) /\ Fault
    /\ Disable(job[c].of)
    /\ \/ initializing' = [initializing EXCEPT ![job[c].of] = FALSE]
       \/ UNCHANGED initializing
    /\ UNCHANGED <<made, index, head, commits>>

\* git add: when it fails the error is swallowed and the index stays.
StageAll(t) ==
    \/ index' = [index EXCEPT ![t] = disk] /\ UNCHANGED faults
    \/ Fault /\ UNCHANGED index

\* initShadowGit and its "initialize" event: a new repository starts with a
\* commit of the workspace, an existing one is taken as it is.
InitDone(c) ==
    LET t == TaskOf(c)
    IN  /\ Assign(c)
        /\ \/ head[t] # 0 /\ UNCHANGED <<index, head, commits, faults>>
           \/ /\ head[t] = 0 /\ StageAll(t)
              /\ commits' = Append(commits, index'[t])
              /\ head' = [head EXCEPT ![t] = Len(commits')]
        /\ made' = made \cup {c}
        /\ initializing' = [initializing EXCEPT ![job[c].of] = FALSE]
        /\ UNCHANGED enabled

\* The poll sees a service that is initialised.
WaitOver(c) ==
    LET svc == service[job[c].of]
    IN  /\ Goto(c, "waiting", "got")
        /\ svc \in made
        /\ job' = [job EXCEPT ![c].svc = svc]
        /\ UNCHANGED <<instVars, made, repoVars, lockVars, stale, disk, writes, faults>>

\* Mutated: the poll has no timeout.
WaitTimesOut_Never(c) == Goto(c, "waiting", "done") /\ FALSE

\* checkpointTimeout has passed before the poll saw one.
WaitTimesOut(c) ==
    /\ Goto(c, "waiting", "done")
    /\ Disable(job[c].of)
    /\ initializing' = [initializing EXCEPT ![job[c].of] = FALSE]
    /\ UNCHANGED <<gen, service, job, made, repoVars, lockVars, stale, disk,
                   writes, faults>>

-----------------------------------------------------------------------------
\* saveCheckpoint and getDiff take no lock

\* Mutated: the message names the commit before it is made, which may fail.
Stage_SaysFirst(c) ==
    LET t == TaskOf(c)
    IN  /\ Goto(c, "got", "staged")
        /\ job[c].kind = "save" /\ job[c].svc \in made
        /\ StageAll(t)
        /\ saved' = [saved EXCEPT ![t] = Append(@, Len(commits) + 1)]
        /\ UNCHANGED <<instVars, job, made, head, commits, lockVars, stale, disk, writes>>

Stage(c) ==
    /\ Goto(c, "got", "staged")
    /\ job[c].kind = "save" /\ job[c].svc \in made
    /\ StageAll(TaskOf(c))
    /\ UNCHANGED <<instVars, job, made, head, commits, saved, lockVars, stale, disk, writes>>

\* The message is said by the instance that saved, if it has not been aborted.
Commit(c) ==
    LET t == TaskOf(c)
    IN  /\ Goto(c, "staged", "done")
        /\ commits' = Append(commits, index[t])
        /\ head' = [head EXCEPT ![t] = Len(commits')]
        /\ saved' = IF job[c].of = Now(t)
                    THEN [saved EXCEPT ![t] = Append(@, Len(commits'))] ELSE saved
        /\ UNCHANGED <<instVars, job, made, index, lockVars, stale, disk, writes, faults>>

\* A diff has staged all it compares; a save that is not forced commits nothing
\* when nothing has changed.
NothingCommitted(c) ==
    /\ Goto(c, "staged", "done")
    /\ UNCHANGED <<instVars, job, made, repoVars, lockVars, stale, disk, writes, faults>>

\* An error of a save disables the checkpoints of the instance.
SaveFails(c) ==
    /\ \/ /\ Goto(c, "got", "done") /\ UNCHANGED faults
          /\ job[c].kind = "save" /\ job[c].svc \notin made
       \/ Goto(c, "staged", "done") /\ Fault
    /\ Disable(job[c].of)
    /\ UNCHANGED <<gen, service, initializing, job, made, repoVars, lockVars,
                   stale, disk, writes>>

-----------------------------------------------------------------------------
\* checkpointRestore and withWorkspaceLock

Position(s, x) == CHOOSE k \in DOMAIN s : s[k] = x
Has(s, x)      == \E k \in DOMAIN s : s[k] = x

\* Mutated: an operation that waits does not become the tail.
Ask_NotTail(c) ==
    /\ Goto(c, "got", "lined") /\ job[c].kind = "restore"
    /\ Has(saved[TaskOf(c)], job[c].to)
    /\ prev' = [prev EXCEPT ![c] = tail]
    /\ asked' = Append(asked, c)
    /\ UNCHANGED <<instVars, job, made, repoVars, tail, stale, disk, writes, faults>>

\* The operation gets in line, unless its message has gone from the chat.
Ask(c) ==
    /\ pc[c] = "got" /\ job[c].kind = "restore"
    /\ \/ /\ Has(saved[TaskOf(c)], job[c].to)
          /\ Goto(c, "got", "lined")
          /\ prev' = [prev EXCEPT ![c] = tail]
          /\ tail' = c
          /\ asked' = Append(asked, c)
       \/ /\ ~Has(saved[TaskOf(c)], job[c].to)
          /\ Goto(c, "got", "done") /\ UNCHANGED lockVars
    /\ UNCHANGED <<instVars, job, made, repoVars, stale, disk, writes, faults>>

\* Mutated: an operation that failed never lets the next one in.
Grant_AfterSuccess(c) ==
    /\ Goto(c, "lined", "cleaning")
    /\ prev[c] # NoCall => pc[prev[c]] \in Past /\ enabled[job[prev[c]].of]
    /\ UNCHANGED <<instVars, job, made, repoVars, lockVars, stale, disk, writes, faults>>

\* previousTail resolves: it does when the operation before has released its
\* own, which that one does only after it was granted.
Grant(c) ==
    /\ Goto(c, "lined", "cleaning")
    /\ prev[c] # NoCall => pc[prev[c]] \in Past
    /\ UNCHANGED <<instVars, job, made, repoVars, lockVars, stale, disk, writes, faults>>

\* The finally block.
Release(c) == tail' = (IF tail = c THEN NoCall ELSE tail) /\ UNCHANGED <<prev, asked>>

\* git clean removes what the task's index does not have.
Clean(c) ==
    /\ Goto(c, "cleaning", "resetting")
    /\ job[c].svc \in made
    /\ disk' = IF index[TaskOf(c)] = 0 THEN 0 ELSE disk
    /\ UNCHANGED <<instVars, job, made, repoVars, lockVars, stale, writes, faults>>

Reset(c) ==
    LET t == TaskOf(c)
    IN  /\ Goto(c, "resetting", "released")
        /\ head' = [head EXCEPT ![t] = job[c].to]
        /\ index' = [index EXCEPT ![t] = commits[job[c].to]]
        /\ disk' = commits[job[c].to]
        /\ Release(c)
        /\ UNCHANGED <<instVars, job, made, commits, saved, stale, writes, faults>>

RestoreFails(c) ==
    /\ \/ Goto(c, "cleaning", "done") /\ job[c].svc \notin made /\ UNCHANGED faults
       \/ Goto(c, "cleaning", "done") /\ Fault
       \/ Goto(c, "resetting", "done") /\ Fault
    /\ Release(c) /\ Disable(job[c].of)
    /\ UNCHANGED <<gen, service, initializing, job, made, repoVars, stale, disk,
                   writes>>

\* Every other window that shows a task is told.
Broadcast(c) ==
    /\ Goto(c, "released", "rewinding")
    /\ stale' = [t \in Task |-> t # TaskOf(c) \/ stale[t]]
    /\ UNCHANGED <<instVars, job, made, repoVars, lockVars, disk, writes, faults>>

\* cancelTask makes a new instance of the task, whose fields are fresh.
Renew(t) == gen' = [gen EXCEPT ![t] = @ + 1]

\* Mutated: a preview leaves the task as it is.
Finish_PreviewStays(c) ==
    LET t == TaskOf(c)
    IN  /\ Goto(c, "rewinding", "done")
        /\ UNCHANGED <<instVars, saved, job, made, index, head, commits,
                       lockVars, stale, disk, writes, faults>>

\* cancelTask reloads the task, but throws, unseen, in a window that has not
\* acknowledged another one's restore (ensureWorkspaceRestoreAcknowledged).
Reload(t) == IF stale[t] THEN UNCHANGED gen ELSE Renew(t)

\* Unless this is a preview, the chat is cut after the checkpoint's message and
\* the deletion is said by the instance.  That throws if the instance was
\* aborted: by a cancellation in between, or by the deletion of a message, which
\* aborts it first and makes a new one afterwards.
Finish(c) ==
    LET t == TaskOf(c)
        s == saved[t]
        k == job[c].to
        Cut == saved' = IF Has(s, k)
                        THEN [saved EXCEPT ![t] = SubSeq(s, 1, Position(s, k))] ELSE saved
    IN  /\ Goto(c, "rewinding", "done")
        /\ \/ Reload(t) /\ UNCHANGED <<saved, enabled>>           \* mode "preview"
           \/ Cut /\ IF job[c].of = Now(t) THEN Reload(t) /\ UNCHANGED enabled
                                             ELSE Disable(job[c].of) /\ UNCHANGED gen
           \/ Cut /\ Disable(job[c].of) /\ Renew(t)               \* a deletion
        /\ UNCHANGED <<service, initializing, job, made, index, head, commits, lockVars,
                       stale, disk, writes, faults>>

-----------------------------------------------------------------------------
\* The window

\* The user cancels the task, or asks for a restore, which cancels it first.  It
\* is counted as a fault.
CancelTask(t) ==
    /\ ~stale[t]
    /\ Fault
    /\ Renew(t)
    /\ UNCHANGED <<enabled, service, initializing, pc, job, made, repoVars, lockVars,
                   stale, disk, writes>>

Acknowledge(t) ==
    /\ stale[t] /\ stale' = [stale EXCEPT ![t] = FALSE]
    /\ UNCHANGED <<instVars, pc, job, made, repoVars, lockVars, disk, writes, faults>>

\* The calls are numbered as they begin.
NextCall(c) == pc[c] = "idle" /\ \A d \in 1 .. c - 1 : pc[d] # "idle"

BeginAny(c, t) ==
    /\ NextCall(c)
    /\ \/ Begin(c, t, "save", 0)
       \/ \E k \in DOMAIN saved[t] : Begin(c, t, "restore", saved[t][k])

\* Somebody writes the file.
Write ==
    /\ writes < MaxWrites
    /\ writes' = writes + 1 /\ disk' = writes + 1
    /\ UNCHANGED <<instVars, pc, job, made, repoVars, lockVars, stale, faults>>

-----------------------------------------------------------------------------
InitStep(c)    == InitFails(c) \/ InitDone(c)
WaitStep(c)    == WaitOver(c) \/ WaitTimesOut(c)
SaveStep(c)    == Stage(c) \/ Commit(c) \/ NothingCommitted(c) \/ SaveFails(c)
RestoreStep(c) == \/ Ask(c) \/ Grant(c) \/ Clean(c) \/ Reset(c) \/ RestoreFails(c)
                  \/ Broadcast(c) \/ Finish(c)

CkNext ==
    \/ \E c \in Call :
         \/ \E t \in Task : BeginAny(c, t)
         \/ InitStep(c) \/ WaitStep(c) \/ SaveStep(c) \/ RestoreStep(c)
    \/ \E t \in Task : CancelTask(t) \/ Acknowledge(t)
    \/ Write

CkSpec == Init /\ [][CkNext]_ckVars

\* Timers go off, and git answers a restore; the initialisation and the saves
\* may hang.
CkFairness == \A c \in Call : WF_ckVars(WaitStep(c)) /\ WF_ckVars(RestoreStep(c))

-----------------------------------------------------------------------------
\* Properties

CkTypeOK ==
    /\ gen \in [Task -> 1 .. 1 + MaxCalls + MaxFaults]
    /\ enabled \in [Instance -> BOOLEAN] /\ initializing \in [Instance -> BOOLEAN]
    /\ service \in [Instance -> Call \cup {NoCall}]
    /\ pc \in [Call -> Place]
    /\ job \in [Call -> Job]
    /\ made \subseteq Call
    /\ commits \in Seq(Content) /\ saved \in [Task -> Seq(DOMAIN commits)]
    /\ index \in [Task -> Content] /\ head \in [Task -> 0 .. Len(commits)]
    /\ tail \in Call \cup {NoCall} /\ prev \in [Call -> Call \cup {NoCall}]
    /\ asked \in Seq(Call)
    /\ stale \in [Task -> BOOLEAN]
    /\ disk \in Content /\ writes \in Content
    /\ faults \in 0 .. MaxFaults

\* The restores of a workspace take turns in the order they asked for it,
\* however they end: an operation that has the workspace has nobody before it.
RestoresTakeTurns ==
    \A j \in DOMAIN asked : \A i \in 1 .. j - 1 :
        pc[asked[j]] \in Inside => pc[asked[i]] \in Past

\* The calls that wait for an initialisation all come back, though it may fail
\* or never end.
WaitersComeBack ==
    (\E c \in Call : pc[c] = "waiting") ~> \A c \in Call : pc[c] # "waiting"

\* A restore that is in line ends with its window showing a new instance of the
\* task ("we need to re-init to get the updated messages"), unless it failed or
\* another window's restore waits to be acknowledged.
RestoreReloads ==
    \A c \in Call :
      pc[c] = "lined" ~>
        \/ pc[c] = "done" /\ gen[TaskOf(c)] > job[c].of[2]
        \/ pc[c] = "done" /\ ~enabled[job[c].of]
        \/ stale[TaskOf(c)]
=============================================================================
