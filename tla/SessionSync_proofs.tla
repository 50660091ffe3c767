------------------------- MODULE SessionSync_proofs -------------------------
(* What is proved of the session sync, for any number of tasks, files, runs, *)
(* saves and failures.  In the order of the module:                          *)
(*   - Typed, the types with the agreement of the queue's three indexes:     *)
(*     TypeCorrect and IndexesTheorem;                                       *)
(*   - IInv, that pendingSync is the run at work, so that with one forced    *)
(*     call of doSync the runs never overlap: OneRun;                        *)
(*   - NoneOlder, that what a run has read or sends is no older than what    *)
(*     its session has, and no newer than the disk: NeverGoesBack;           *)
(*   - NothingLost, that what leaves the queue is on the server, and that a  *)
(*     session made on request gets the files of the conversation before it  *)
(*     becomes a task's: NeverOutOfSight;                                    *)
(*   - FlushFit, that what a forced call has marked is gone from the queue,  *)
(*     or ahead of the run the call waits for: FlushesAll.                   *)
EXTENDS SessionSync, OperatorLemmas, TLAPS

-----------------------------------------------------------------------------
(* Types *)

Reads == UNION {[B -> Nat] : B \in SUBSET Blob}
Uploads == UNION {[B -> [version : Nat, time : Nat]] : B \in SUBSET Blob}
OnTask == {"session", "reading", "uploading", "git upload"}
RunStates == [pc : {"idle", "token", "git"} \cup OnTask,
              todo : Seq(Task), last : Task \cup {NoTask}, git : 0..MaxGit,
              session : Nat, names : SUBSET Blob, live : BOOLEAN,
              read : Reads, sending : Uploads]
RunFits(r) == /\ r.pc \in OnTask => r.todo # <<>>
              /\ DOMAIN r.read \subseteq r.names
              /\ DOMAIN r.sending \subseteq r.names
GoodRuns(runs) == runs \in [Sync -> RunStates] /\ \A s \in Sync : RunFits(runs[s])

Callers == [pc : {"uncalled", "waiting", "running", "done"},
            on : Sync \cup {NoSync}, mark : SUBSET Items]
ServerSessions == [task : Task, blob : [Blob -> Nat], git : Nat]
Sending == {"history", "messages"}
HasRead == {"creating"} \cup Sending
Versions == [Conversation -> Nat]
Shares == [pc : {"uncalled", "found", "loading", "made", "failed"} \cup HasRead,
           session : Nat, read : {<<>>} \cup Versions]

DiskOK == /\ file \in [Task -> [Blob -> Nat]]
          /\ unsent \subseteq Task \X Blob
          /\ now \in Nat
QueueOK == /\ items \in Seq(Items)
           /\ taskIndex \in [Task -> Seq(Items)]
           /\ blobIndex \in [Task -> [Blob -> Items \cup {NoItem}]]
           /\ IndexesAgree
RunsOK == GoodRuns(run)
CallsOK == /\ pending \in Sync \cup {NoSync}
           /\ caller \in [Forced -> Callers]
           /\ woken \subseteq Forced
CloudOK == /\ server \in Seq(ServerSessions)
           /\ sessionFor \in [Task -> 0..Len(server)]
           /\ active \in 0..Len(server)
           /\ sharing \in [Task -> Shares]
           /\ \A t \in Task :
                /\ sharing[t].session \in 0..Len(server)
                /\ sharing[t].pc \in HasRead => sharing[t].read \in Versions
GitOK == gitNow \in 0..MaxGit /\ gitHash \in [Task -> 0..MaxGit]

Typed == DiskOK /\ QueueOK /\ RunsOK /\ CallsOK /\ CloudOK /\ GitOK
         /\ failures \in 0..MaxFailures

-----------------------------------------------------------------------------
(* UniqueTasks *)

TaskAdder == [p \in Seq(Task) \X Items |->
                IF p[2].task \in ToSet(p[1]) THEN p[1] ELSE Append(p[1], p[2].task)]

\* The step of the fold takes a list of tasks to a list of tasks.
LEMMA TaskAdderType == TaskAdder \in [Seq(Task) \X Items -> Seq(Task)]
  <1>1. ASSUME NEW p \in Seq(Task) \X Items
        PROVE  (IF p[2].task \in ToSet(p[1]) THEN p[1] ELSE Append(p[1], p[2].task))
                 \in Seq(Task)
    BY DEF Items
  <1> QED
    BY <1>1 DEF TaskAdder

\* UniqueTasks as the end of an iteration over the queue.
LEMMA UniqueTasksIterates ==
    ASSUME NEW s \in Seq(Items)
    PROVE  \E it : /\ Iterates(it, s, <<>>, TaskAdder, Seq(Task))
                   /\ UniqueTasks(s) = it[DOMAIN s]
  <1> DEFINE Value(g, D) == IF D = {} THEN <<>>
                            ELSE IF s[Max(D)].task \in ToSet(g[D \ {Max(D)}])
                                 THEN g[D \ {Max(D)}]
                                 ELSE Append(g[D \ {Max(D)}], s[Max(D)].task)
             it == CHOOSE g : g = [D \in SUBSET DOMAIN s |-> Value(g, D)]
  <1>0. <<>> \in Seq(Task)
    OBVIOUS
  <1>1. PICK f : Folds(f, s, <<>>, TaskAdder, Seq(Task))
    BY <1>0, TaskAdderType, FoldExists, Zenon
  <1>2. \A v \in Seq(Task), x \in Items :
          TaskAdder[<<v, x>>] = IF x.task \in ToSet(v) THEN v ELSE Append(v, x.task)
    BY DEF TaskAdder
  <1>3. f = [D \in SUBSET DOMAIN s |-> Value(f, D)]
    <2> SUFFICES ASSUME NEW D \in SUBSET DOMAIN s PROVE f[D] = Value(f, D)
      BY <1>1 DEF Folds
    <2>1. CASE D = {}
      BY <1>1, <2>1 DEF Folds
    <2>2. CASE D # {}
      <3>1. Max(D) \in DOMAIN s
        BY <2>2, MaxIn
      <3>2. s[Max(D)] \in Items /\ f[D \ {Max(D)}] \in Seq(Task)
        BY <1>1, <3>1 DEF Folds
      <3>3. f[D] = TaskAdder[<<f[D \ {Max(D)}], s[Max(D)]>>]
        BY <1>1, <2>2 DEF Folds
      <3> QED
        BY <1>2, <2>2, <3>2, <3>3
    <2> QED
      BY <2>1, <2>2
  <1>4. it = [D \in SUBSET DOMAIN s |-> Value(it, D)]
    <2> HIDE DEF Value
    <2> QED
      BY <1>3
  <1>5. UniqueTasks(s) = it[DOMAIN s]
    BY DEF UniqueTasks, FoldLeft, MapThenFoldSet
  <1> HIDE DEF it
  <1>6. Iterates(it, s, <<>>, TaskAdder, Seq(Task))
    <2>1. it[{}] = <<>>
      BY <1>4
    <2>2. ASSUME NEW D \in SUBSET DOMAIN s, D # {}, it[D \ {Max(D)}] \in Seq(Task)
          PROVE  it[D] = TaskAdder[<<it[D \ {Max(D)}], s[Max(D)]>>]
      <3>1. Max(D) \in DOMAIN s
        BY <2>2, MaxIn
      <3>2. s[Max(D)] \in Items
        BY <3>1
      <3>3. it[D] = Value(it, D)
        BY <1>4
      <3> QED
        BY <1>2, <2>2, <3>2, <3>3
    <2> QED
      BY <2>1, <2>2 DEF Iterates
  <1> QED
    BY <1>5, <1>6

\* The tasks of a queue are those of its items, each a task.
LEMMA UniqueTasksOf ==
    ASSUME NEW q \in Seq(Items)
    PROVE  /\ UniqueTasks(q) \in Seq(Task)
           /\ ToSet(UniqueTasks(q)) = {i.task : i \in ToSet(q)}
  <1> DEFINE Right(s) == /\ UniqueTasks(s) \in Seq(Task)
                         /\ ToSet(UniqueTasks(s)) = {i.task : i \in ToSet(s)}
             Q == {s \in Seq(Items) : Right(s)}
  <1>0. <<>> \in Seq(Task) /\ <<>> \in Seq(Items) /\ DOMAIN <<>> = {}
    OBVIOUS
  <1>1. <<>> \in Q
    <2>1. PICK it : /\ Iterates(it, <<>>, <<>>, TaskAdder, Seq(Task))
                    /\ UniqueTasks(<<>>) = it[DOMAIN <<>>]
      BY <1>0, UniqueTasksIterates
    <2>2. UniqueTasks(<<>>) = <<>>
      BY <1>0, <2>1 DEF Iterates
    <2>3. ToSet(<<>>) = {}
      BY <1>0 DEF ToSet
    <2> QED
      BY <1>0, <2>2, <2>3
  <1>2. ASSUME NEW s \in Seq(Items), NEW x \in Items, s \in Q
        PROVE  Append(s, x) \in Q
    <2>1. Append(s, x) \in Seq(Items)
      OBVIOUS
    <2>2. PICK it : /\ Iterates(it, s, <<>>, TaskAdder, Seq(Task))
                    /\ UniqueTasks(s) = it[DOMAIN s]
      BY UniqueTasksIterates
    <2>3. PICK it2 : /\ Iterates(it2, Append(s, x), <<>>, TaskAdder, Seq(Task))
                     /\ UniqueTasks(Append(s, x)) = it2[DOMAIN Append(s, x)]
      BY <2>1, UniqueTasksIterates
    <2>4. Grows(Items, Seq(Task), <<>>, TaskAdder, s, x, it, it2)
      BY <1>0, <2>2, <2>3, TaskAdderType DEF Grows
    <2>5. UniqueTasks(Append(s, x)) = TaskAdder[<<UniqueTasks(s), x>>]
      BY <2>2, <2>3, <2>4, FoldUnique
    <2> DEFINE u == UniqueTasks(s)
    <2>6. u \in Seq(Task) /\ ToSet(u) = {i.task : i \in ToSet(s)} /\ x.task \in Task
      BY <1>2 DEF Items
    <2> HIDE DEF u, Q
    <2>7. UniqueTasks(Append(s, x)) = IF x.task \in ToSet(u) THEN u ELSE Append(u, x.task)
      BY <2>5, <2>6 DEF TaskAdder, u
    <2>8. ToSet(Append(s, x)) = ToSet(s) \cup {x}
      BY ToSetAppend
    <2>9. ToSet(Append(u, x.task)) = ToSet(u) \cup {x.task} /\ Append(u, x.task) \in Seq(Task)
      BY <2>6, ToSetAppend
    <2>10. {i.task : i \in ToSet(Append(s, x))} = ToSet(u) \cup {x.task}
      BY <2>6, <2>8
    <2>11. Right(Append(s, x))
      BY <2>6, <2>7, <2>9, <2>10
    <2> QED
      BY <2>1, <2>11 DEF Q
  <1>3. Seq(Items) \subseteq Q
    <2> HIDE DEF Q
    <2> QED
      BY <1>1, <1>2, SeqInduction
  <1> QED
    BY <1>3

-----------------------------------------------------------------------------
(* The queue and its indexes *)

OfTaskSet(t) == {i \in Items : i.task = t}
OfBlobSet(t, b) == {i \in Items : i.task = t /\ i.blob = b}
KeptSet(t, b, time) == {i \in Items : ~(i.task = t /\ i.blob = b /\ i.time <= time)}

\* What the selections by task and by file return, and hold.
LEMMA OfBlobType ==
    ASSUME NEW q \in Seq(Items), NEW t, NEW b
    PROVE  /\ OfTask(q, t) \in Seq(Items) /\ OfBlob(q, t, b) \in Seq(Items)
           /\ ToSet(OfTask(q, t)) = {i \in ToSet(q) : i.task = t}
           /\ ToSet(OfBlob(q, t, b)) = {i \in ToSet(q) : i.task = t /\ i.blob = b}
           /\ LastOr(OfBlob(q, t, b), NoItem) \in Items \cup {NoItem}
           /\ OfBlob(q, t, b) # <<>> => Last(OfBlob(q, t, b)) \in ToSet(OfBlob(q, t, b))
  <1>1. OfTask(q, t) \in Seq(Items) /\ OfBlob(q, t, b) \in Seq(Items)
    BY SelectedSeq DEF OfTask, OfBlob
  <1>2. ToSet(q) \subseteq Items
    BY DEF ToSet
  <1>3. /\ ToSet(OfTask(q, t)) = ToSet(q) \cap OfTaskSet(t)
        /\ ToSet(OfBlob(q, t, b)) = ToSet(q) \cap OfBlobSet(t, b)
    BY SelectedElements DEF OfTask, OfBlob, OfTaskSet, OfBlobSet
  <1>4. OfBlob(q, t, b) # <<>> => /\ Last(OfBlob(q, t, b)) \in ToSet(OfBlob(q, t, b))
                                  /\ Last(OfBlob(q, t, b)) \in Items
    BY <1>1, LastElement
  <1> QED
    BY <1>1, <1>2, <1>3, <1>4 DEF LastOr, OfTaskSet, OfBlobSet

\* enqueue keeps the three indexes in agreement.
LEMMA EnqueueKeepsQueue ==
    ASSUME QueueOK, NEW i \in Items, Enqueue(i)
    PROVE  QueueOK'
  <1>1. i.task \in Task /\ i.blob \in Blob
    BY DEF Items
  <1>2. items' \in Seq(Items)
    BY DEF QueueOK, Enqueue
  <1>3. taskIndex' \in [Task -> Seq(Items)]
    BY <1>1 DEF QueueOK, Enqueue
  <1>4. blobIndex' \in [Task -> [Blob -> Items \cup {NoItem}]]
    BY <1>1 DEF QueueOK, Enqueue
  <1>5. ASSUME NEW t \in Task PROVE taskIndex'[t] = OfTask(items', t)
    <2>1. OfTask(Append(items, i), t)
            = IF i \in OfTaskSet(t) THEN Append(OfTask(items, t), i) ELSE OfTask(items, t)
      BY SelectedAppend DEF QueueOK, OfTask, OfTaskSet
    <2>2. taskIndex[t] = OfTask(items, t)
      BY DEF QueueOK, IndexesAgree
    <2>3. i \in OfTaskSet(t) <=> i.task = t
      BY DEF OfTaskSet
    <2> QED
      BY <1>1, <2>1, <2>2, <2>3 DEF Enqueue, QueueOK
  <1>6. ASSUME NEW t \in Task, NEW b \in Blob
        PROVE  blobIndex'[t][b] = LastOr(OfBlob(items', t, b), NoItem)
    <2> DEFINE q == OfBlob(items, t, b)
    <2>1. OfBlob(Append(items, i), t, b)
            = IF i \in OfBlobSet(t, b) THEN Append(q, i) ELSE q
      BY SelectedAppend DEF QueueOK, OfBlob, OfBlobSet
    <2>2. blobIndex[t][b] = LastOr(q, NoItem)
      BY DEF QueueOK, IndexesAgree
    <2>3. i \in OfBlobSet(t, b) <=> i.task = t /\ i.blob = b
      BY DEF OfBlobSet
    <2>4. q \in Seq(Items)
      BY OfBlobType DEF QueueOK
    <2>5. Append(q, i) # <<>> /\ Last(Append(q, i)) = i
      <3> HIDE DEF q
      <3> QED
        BY <2>4, LastAppend
    <2>6. blobIndex'[t][b] = IF i.task = t /\ i.blob = b THEN i ELSE blobIndex[t][b]
      BY <1>1 DEF Enqueue, QueueOK
    <2> HIDE DEF q
    <2> QED
      BY <2>1, <2>2, <2>3, <2>5, <2>6 DEF Enqueue, LastOr
  <1> QED
    BY <1>2, <1>3, <1>4, <1>5, <1>6 DEF QueueOK, IndexesAgree

\* What is left of the queue has its items of other tasks and files as before.
LEMMA WithoutKeeps ==
    ASSUME NEW q \in Seq(Items), NEW t, NEW b, NEW time
    PROVE  /\ Without(q, t, b, time) \in Seq(Items)
           /\ ToSet(Without(q, t, b, time))
                = {i \in ToSet(q) : ~(i.task = t /\ i.blob = b /\ i.time <= time)}
           /\ \A u : u # t => OfTask(Without(q, t, b, time), u) = OfTask(q, u)
           /\ \A u, c : u # t \/ c # b
                => OfBlob(Without(q, t, b, time), u, c) = OfBlob(q, u, c)
  <1>1. Without(q, t, b, time) = Selected(q, KeptSet(t, b, time))
    BY DEF Without, KeptSet
  <1>2. ToSet(q) \subseteq Items
    BY DEF ToSet
  <1>3. /\ Without(q, t, b, time) \in Seq(Items)
        /\ ToSet(Without(q, t, b, time)) = ToSet(q) \cap KeptSet(t, b, time)
    BY <1>1, SelectedSeq, SelectedElements
  <1>4. ASSUME NEW u, u # t PROVE OfTask(Without(q, t, b, time), u) = OfTask(q, u)
    <2>1. KeptSet(t, b, time) \cap OfTaskSet(u) = OfTaskSet(u)
      BY <1>4 DEF KeptSet, OfTaskSet
    <2> QED
      BY <1>1, <2>1, SelectedTwice DEF OfTask, OfTaskSet
  <1>5. ASSUME NEW u, NEW c, u # t \/ c # b
        PROVE  OfBlob(Without(q, t, b, time), u, c) = OfBlob(q, u, c)
    <2>1. KeptSet(t, b, time) \cap OfBlobSet(u, c) = OfBlobSet(u, c)
      BY <1>5 DEF KeptSet, OfBlobSet
    <2> QED
      BY <1>1, <2>1, SelectedTwice DEF OfBlob, OfBlobSet
  <1>6. ToSet(Without(q, t, b, time))
          = {i \in ToSet(q) : ~(i.task = t /\ i.blob = b /\ i.time <= time)}
    BY <1>2, <1>3 DEF KeptSet
  <1> QED
    BY <1>3, <1>4, <1>5, <1>6

\* removeProcessedItems keeps the three indexes in agreement.
LEMMA RemoveKeepsQueue ==
    ASSUME QueueOK, NEW t \in Task, NEW b \in Blob, NEW time,
           RemoveProcessedItems(t, b, time)
    PROVE  QueueOK'
  <1> DEFINE left == Without(items, t, b, time)
  <1>0. items \in Seq(Items)
    BY DEF QueueOK
  <1>1. /\ items' = left
        /\ taskIndex' = [taskIndex EXCEPT ![t] = OfTask(left, t)]
        /\ blobIndex' = [blobIndex EXCEPT ![t][b] = LastOr(OfBlob(left, t, b), NoItem)]
    BY DEF RemoveProcessedItems
  <1>2. /\ left \in Seq(Items)
        /\ \A u : u # t => OfTask(left, u) = OfTask(items, u)
        /\ \A u, c : u # t \/ c # b => OfBlob(left, u, c) = OfBlob(items, u, c)
    BY <1>0, WithoutKeeps
  <1>3. OfTask(left, t) \in Seq(Items) /\ LastOr(OfBlob(left, t, b), NoItem) \in Items \cup {NoItem}
    <2> HIDE DEF left
    <2> QED
      BY <1>2, OfBlobType
  <1> HIDE DEF left
  <1>4. taskIndex' \in [Task -> Seq(Items)]
    BY <1>1, <1>3 DEF QueueOK
  <1>5. blobIndex' \in [Task -> [Blob -> Items \cup {NoItem}]]
    BY <1>1, <1>3 DEF QueueOK
  <1>6. ASSUME NEW u \in Task PROVE taskIndex'[u] = OfTask(items', u)
    BY <1>1, <1>2 DEF QueueOK, IndexesAgree
  <1>7. ASSUME NEW u \in Task, NEW c \in Blob
        PROVE  blobIndex'[u][c] = LastOr(OfBlob(items', u, c), NoItem)
    BY <1>1, <1>2 DEF QueueOK, IndexesAgree
  <1> QED
    BY <1>1, <1>2, <1>4, <1>5, <1>6, <1>7 DEF QueueOK, IndexesAgree

-----------------------------------------------------------------------------
(* The types of the parts are kept *)

\* A run that is over has the type of a run.
LEMMA IdleGood == Idle \in RunStates /\ RunFits(Idle)
  <1>1. <<>> \in [{} -> Nat] /\ <<>> \in [{} -> [version : Nat, time : Nat]]
    OBVIOUS
  <1>2. {} \in SUBSET Blob
    OBVIOUS
  <1>3. <<>> \in Reads /\ <<>> \in Uploads /\ DOMAIN <<>> = {}
    BY <1>1, <1>2 DEF Reads, Uploads
  <1> QED
    BY <1>3, ConstantsOK DEF Idle, RunStates, RunFits, OnTask

\* Good runs stay good when one of them becomes another good one.
LEMMA UpdateGood ==
    ASSUME NEW runs, GoodRuns(runs), NEW s \in Sync, NEW r \in RunStates, RunFits(r)
    PROVE  GoodRuns([runs EXCEPT ![s] = r])
  BY DEF GoodRuns

\* A run that begins is a good one, and is the pending one.
LEMMA BeginGood ==
    ASSUME NEW runs, GoodRuns(runs), Begin(runs)
    PROVE  RunsOK' /\ pending' \in Sync
  <1>1. NewSync \in Sync
    BY DEF Begin, NewSync, FreeSync
  <1> DEFINE r == [Idle EXCEPT !.pc = "token"]
  <1>2. r \in RunStates /\ RunFits(r)
    BY IdleGood DEF RunStates, RunFits, OnTask
  <1>3. run' = [runs EXCEPT ![NewSync] = r] /\ pending' = NewSync
    BY DEF Begin
  <1> HIDE DEF r
  <1> QED
    BY <1>1, <1>2, <1>3, UpdateGood DEF RunsOK

\* The end of a run leaves good runs and calls.
LEMMA SettleGood ==
    ASSUME RunsOK, CallsOK, NEW s \in Sync, Settle(s)
    PROVE  RunsOK' /\ CallsOK'
  <1>1. run' = [run EXCEPT ![s] = Idle]
    BY DEF Settle
  <1>2. RunsOK'
    BY <1>1, IdleGood, UpdateGood DEF RunsOK
  <1>3. caller' \in [Forced -> Callers]
    BY DEF Settle, CallsOK, Callers
  <1> QED
    BY <1>2, <1>3 DEF Settle, CallsOK

\* A run that goes on, or ends, is a good one.
LEMMA ProceedGood ==
    ASSUME RunsOK, CallsOK, NEW s \in Sync, NEW r \in RunStates,
           NEW todo \in Seq(Task), Proceed(s, r, todo), QueueOK',
           sessionFor' \in [Task -> 0..Len(server')], active \in 0..Len(server'),
           Len(server') \in Nat
    PROVE  RunsOK' /\ CallsOK' /\ active' \in 0..Len(server')
  <1>1. CASE todo # <<>>
    <2> DEFINE t == Head(todo)
               id == sessionFor'[t]
               n == {i.blob : i \in ToSet(taskIndex'[t])}
               l == taskIndex'[t] # <<>>
               new == [r EXCEPT !.pc = "session", !.todo = todo, !.session = id,
                         !.names = n, !.live = l, !.read = <<>>, !.sending = <<>>]
    <2>1. t \in Task
      BY <1>1
    <2>2. run' = [run EXCEPT ![s] = new] /\ UNCHANGED calls
      BY <1>1 DEF Proceed
    <2>3. id \in Nat
      BY <2>1
    <2>4. n \in SUBSET Blob /\ l \in BOOLEAN
      <3>1. taskIndex'[t] \in Seq(Items)
        BY <2>1 DEF QueueOK
      <3>2. ToSet(taskIndex'[t]) \subseteq Items
        BY <3>1 DEF ToSet
      <3> HIDE DEF t
      <3> QED
        BY <3>2 DEF Items
    <2>5. <<>> \in Reads /\ <<>> \in Uploads /\ DOMAIN <<>> = {}
      BY IdleGood DEF Idle, RunStates
    <2>6. new \in RunStates
      <3> HIDE DEF n, l, t, id
      <3> QED
        BY <1>1, <2>3, <2>4, <2>5 DEF RunStates, OnTask
    <2>7. RunFits(new)
      BY <1>1, <2>5 DEF RunStates, RunFits
    <2> HIDE DEF new
    <2>8. RunsOK'
      BY <2>2, <2>6, <2>7, UpdateGood DEF RunsOK
    <2> QED
      BY <2>2, <2>8 DEF calls, CallsOK
  <1>2. CASE todo = <<>>
    <2>1. Settle(s) /\ active' = IF r.last = NoTask THEN active ELSE sessionFor'[r.last]
      BY <1>2 DEF Proceed
    <2>2. r.last \in Task \cup {NoTask}
      BY DEF RunStates
    <2> QED
      BY <2>1, <2>2, SettleGood
  <1> QED
    BY <1>1, <1>2

\* The same, for the run that leaves the task it was on.
LEMMA NextTaskGood ==
    ASSUME RunsOK, CallsOK, NEW s \in Sync, run[s].pc \in OnTask, NextTask(s), QueueOK',
           sessionFor' \in [Task -> 0..Len(server')], active \in 0..Len(server'),
           Len(server') \in Nat
    PROVE  RunsOK' /\ CallsOK' /\ active' \in 0..Len(server')
  <1> DEFINE r == run[s]
             todo == Tail(r.todo)
  <1>1. r \in RunStates /\ RunFits(r)
    BY DEF RunsOK, GoodRuns
  <1>2. todo \in Seq(Task)
    BY <1>1 DEF RunStates, RunFits
  <1>3. Proceed(s, r, todo)
    BY DEF NextTask
  <1> HIDE DEF r, todo
  <1> QED
    BY <1>1, <1>2, <1>3, ProceedGood

\* A run at work is on a task.
LEMMA TaskOfGood ==
    ASSUME RunsOK, NEW s \in Sync, run[s].pc \in OnTask
    PROVE  TaskOf(s) \in Task /\ run[s] \in RunStates /\ RunFits(run[s])
  <1>1. run[s] \in RunStates /\ RunFits(run[s])
    BY DEF RunsOK, GoodRuns
  <1>2. run[s].todo \in Seq(Task) /\ run[s].todo # <<>>
    BY <1>1 DEF RunStates, RunFits
  <1> QED
    BY <1>1, <1>2 DEF TaskOf

\* Runs told of a new item are good runs.
LEMMA SeenGood ==
    ASSUME RunsOK, NEW i \in Items
    PROVE  GoodRuns(Seen(i))
  <1>1. ASSUME NEW s \in Sync PROVE Seen(i)[s] \in RunStates /\ RunFits(Seen(i)[s])
    <2>1. run[s] \in RunStates /\ RunFits(run[s])
      BY DEF RunsOK, GoodRuns
    <2>2. i.blob \in Blob
      BY DEF Items
    <2> DEFINE new == [run[s] EXCEPT !.names = @ \cup {i.blob}]
    <2>3. new \in RunStates /\ RunFits(new)
      BY <2>1, <2>2 DEF RunStates, RunFits
    <2> HIDE DEF new
    <2>4. Seen(i)[s] = IF run[s].live /\ TaskOf(s) = i.task THEN new ELSE run[s]
      BY DEF Seen, new
    <2> QED
      BY <2>1, <2>3, <2>4
  <1>2. Seen(i) \in [Sync -> RunStates]
    <2>1. Seen(i) = [s \in Sync |-> Seen(i)[s]]
      BY DEF Seen
    <2> QED
      BY <1>1, <2>1
  <1> QED
    BY <1>1, <1>2 DEF GoodRuns

\* Runs cut off from a task's array are good runs.
LEMMA CutOffGood ==
    ASSUME RunsOK, NEW t
    PROVE  GoodRuns(CutOff(t))
  <1>1. ASSUME NEW s \in Sync PROVE CutOff(t)[s] \in RunStates /\ RunFits(CutOff(t)[s])
    <2>1. run[s] \in RunStates /\ RunFits(run[s])
      BY DEF RunsOK, GoodRuns
    <2> DEFINE new == [run[s] EXCEPT !.live = FALSE]
    <2>3. new \in RunStates /\ RunFits(new)
      BY <2>1 DEF RunStates, RunFits
    <2> HIDE DEF new
    <2>4. CutOff(t)[s] = IF run[s].live /\ TaskOf(s) = t THEN new ELSE run[s]
      BY DEF CutOff, new
    <2> QED
      BY <2>1, <2>3, <2>4
  <1>2. CutOff(t) \in [Sync -> RunStates]
    <2>1. CutOff(t) = [s \in Sync |-> CutOff(t)[s]]
      BY DEF CutOff
    <2> QED
      BY <1>1, <2>1
  <1> QED
    BY <1>1, <1>2 DEF GoodRuns

\* A run one of whose uploads was answered is a good run.
LEMMA AnsweredGood ==
    ASSUME NEW runs, GoodRuns(runs), NEW s \in Sync, NEW b, Answered(runs, s, b)
    PROVE  RunsOK'
  <1> DEFINE r == runs[s]
             rest == Restrict(r.sending, DOMAIN r.sending \ {b})
             new == [r EXCEPT !.sending = rest]
  <1>1. r \in RunStates /\ RunFits(r)
    BY DEF GoodRuns
  <1>2. PICK B \in SUBSET Blob : r.sending \in [B -> [version : Nat, time : Nat]]
    BY <1>1 DEF RunStates, Uploads
  <1>3. rest \in [B \ {b} -> [version : Nat, time : Nat]]
    BY <1>2 DEF Restrict
  <1>4. rest \in Uploads /\ DOMAIN rest \subseteq DOMAIN r.sending
    BY <1>2, <1>3 DEF Uploads
  <1> HIDE DEF rest, r
  <1>5. new \in RunStates /\ RunFits(new)
    BY <1>1, <1>4 DEF RunStates, RunFits
  <1>6. run' = [runs EXCEPT ![s] = new]
    BY DEF Answered, rest, r
  <1> HIDE DEF new
  <1> QED
    BY <1>5, <1>6, UpdateGood DEF RunsOK

\* A version stored on the server leaves the sessions well typed.
LEMMA StoredGood ==
    ASSUME server \in Seq(ServerSessions), NEW id, NEW b, NEW v \in Nat, Stored(id, b, v)
    PROVE  server' \in Seq(ServerSessions) /\ Len(server') = Len(server)
  <1>1. CASE id \in 1 .. Len(server)
    <2> DEFINE old == server[id]
               new == [old EXCEPT !.blob[b] = v]
    <2>1. old \in ServerSessions
      BY <1>1
    <2>2. new \in ServerSessions
      BY <2>1 DEF ServerSessions
    <2>3. server' = [server EXCEPT ![id] = new]
      BY DEF Stored
    <2> HIDE DEF new
    <2> QED
      BY <1>1, <2>2, <2>3
  <1>2. CASE id \notin 1 .. Len(server)
    <2>1. server' = server
      BY <1>2 DEF Stored
    <2> QED
      BY <2>1
  <1> QED
    BY <1>1, <1>2

\* The parts of the invariant depend on their own variables alone: the disk,
LEMMA DiskStays == ASSUME DiskOK, UNCHANGED disk PROVE DiskOK'
  BY DEF DiskOK, disk

\* the queue,
LEMMA QueueStays == ASSUME QueueOK, UNCHANGED queue PROVE QueueOK'
  BY DEF QueueOK, queue, IndexesAgree

\* the calls,
LEMMA CallsStay == ASSUME CallsOK, UNCHANGED <<pending, caller, woken>> PROVE CallsOK'
  BY DEF CallsOK

\* and the sessions.
LEMMA CloudStays == ASSUME CloudOK, UNCHANGED <<cloud, active, sharing>> PROVE CloudOK'
  BY DEF CloudOK, cloud

\* The parts of the state a step leaves alone keep their types.
LEMMA RestStays ==
    ASSUME Typed
    PROVE  /\ UNCHANGED disk => DiskOK'
           /\ UNCHANGED queue => QueueOK'
           /\ UNCHANGED run => RunsOK'
           /\ UNCHANGED calls => CallsOK'
           /\ UNCHANGED <<cloud, active, sharing>> => CloudOK'
           /\ UNCHANGED git => GitOK'
           /\ UNCHANGED failures => (failures \in 0..MaxFailures)'
           /\ Fail => (failures \in 0..MaxFailures)'
  <1>1. Fail => (failures \in 0..MaxFailures)'
    BY ConstantsOK DEF Typed, Fail
  <1>2. UNCHANGED run => RunsOK'
    BY DEF Typed, RunsOK, GoodRuns
  <1>3. UNCHANGED git => GitOK'
    BY DEF Typed, GitOK, git
  <1>4. UNCHANGED failures => (failures \in 0..MaxFailures)'
    BY DEF Typed
  <1> QED
    BY <1>1, <1>2, <1>3, <1>4, DiskStays, QueueStays, CallsStay, CloudStays DEF Typed, calls

\* Typed is kept by a save,
LEMMA SaveFileTyped ==
    ASSUME Typed, NEW t \in Task, NEW b \in Blob, SaveFile(t, b)
    PROVE  Typed'
  <1>1. DiskOK'
    BY DEF Typed, DiskOK, SaveFile
  <1> QED
    BY <1>1, RestStays DEF SaveFile, Typed, calls

\* by the message after a save,
LEMMA FileUpdatedTyped ==
    ASSUME Typed, NEW t \in Task, NEW b \in Blob, FileUpdated(t, b)
    PROVE  Typed'
  <1> DEFINE i == [task |-> t, blob |-> b, time |-> now', version |-> file[t][b]]
  <1>1. DiskOK'
    BY DEF Typed, DiskOK, FileUpdated
  <1>2. i \in Items
    BY <1>1 DEF Typed, DiskOK, Items
  <1>3. /\ Enqueue(i)
        /\ \/ Begin(Seen(i))
           \/ run' = Seen(i) /\ UNCHANGED pending
        /\ UNCHANGED <<caller, woken, active, cloud, sharing, git, failures>>
    BY DEF FileUpdated
  <1> HIDE DEF i
  <1>4. QueueOK'
    BY <1>2, <1>3, EnqueueKeepsQueue DEF Typed
  <1>5. GoodRuns(Seen(i))
    BY <1>2, SeenGood DEF Typed
  <1>6. RunsOK' /\ pending' \in Sync \cup {NoSync}
    BY <1>3, <1>5, BeginGood DEF RunsOK, Typed, CallsOK
  <1>7. CallsOK'
    BY <1>3, <1>6 DEF Typed, CallsOK
  <1> QED
    BY <1>1, <1>3, <1>4, <1>6, <1>7, RestStays DEF Typed

\* by the calls of doSync,
LEMMA RequestsTyped ==
    ASSUME Typed, RequestSync \/ \E f \in Forced : ForceSync(f) \/ ForcedResumes(f)
    PROVE  Typed'
  <1>0. GoodRuns(run)
    BY DEF Typed, RunsOK
  <1>1. /\ Begin(run) \/ UNCHANGED <<pending, run>>
        /\ UNCHANGED <<disk, queue, active, cloud, sharing, git, failures>>
    BY DEF RequestSync, ForceSync, ForcedResumes
  <1>2. RunsOK' /\ pending' \in Sync \cup {NoSync}
    BY <1>0, <1>1, BeginGood, RestStays DEF Typed, CallsOK
  <1>3. woken' \subseteq Forced
    BY DEF RequestSync, ForceSync, ForcedResumes, Typed, CallsOK
  <1>4. caller' \in [Forced -> Callers]
    <2>1. ToSet(items) \subseteq Items
      BY DEF Typed, QueueOK, ToSet
    <2>2. CASE RequestSync
      BY <2>2 DEF RequestSync, Typed, CallsOK
    <2>3. ASSUME NEW f \in Forced, ForceSync(f) PROVE caller' \in [Forced -> Callers]
      <3>1. /\ [pc |-> "waiting", on |-> pending, mark |-> ToSet(items)] \in Callers
            /\ [pc |-> "running", on |-> pending', mark |-> ToSet(items)] \in Callers
            /\ [caller[f] EXCEPT !.pc = "done"] \in Callers
        BY <1>2, <2>1 DEF Callers, Typed, CallsOK
      <3>2. \E c \in Callers : caller' = [caller EXCEPT ![f] = c]
        BY <2>3, <3>1 DEF ForceSync
      <3> QED
        BY <3>2 DEF Typed, CallsOK
    <2>4. ASSUME NEW f \in Forced, ForcedResumes(f) PROVE caller' \in [Forced -> Callers]
      <3>1. /\ [caller[f] EXCEPT !.pc = "running", !.on = pending'] \in Callers
            /\ [caller[f] EXCEPT !.pc = "done"] \in Callers
        BY <1>2 DEF Callers, Typed, CallsOK
      <3>2. \/ caller' = [caller EXCEPT ![f].pc = "done"]
            \/ caller' = [caller EXCEPT ![f].pc = "running", ![f].on = pending']
        BY <2>4 DEF ForcedResumes
      <3>3. caller \in [Forced -> Callers]
        BY DEF Typed, CallsOK
      <3>4. \E c \in Callers : caller' = [caller EXCEPT ![f] = c]
        BY <3>1, <3>2, <3>3
      <3> QED
        BY <3>3, <3>4
    <2> QED
      BY <2>2, <2>3, <2>4
  <1>5. CallsOK'
    BY <1>2, <1>3, <1>4 DEF CallsOK
  <1> QED
    BY <1>1, <1>2, <1>5, RestStays DEF Typed

\* and by every step of getOrCreateSessionForTask.
LEMMA ShareTyped ==
    ASSUME Typed, NEW t \in Task, Share(t)
    PROVE  Typed'
  <1>1. UNCHANGED <<disk, queue, calls, run, git>> /\ (UNCHANGED failures \/ Fail)
    BY DEF Share, ShareFindsSession, ShareFindsNone, ShareReadsFiles, ShareCreatesSession,
           ShareUploadsHistory, ShareUploadsMessages, ShareFails
  <1>2. /\ server \in Seq(ServerSessions) /\ Len(server) \in Nat
        /\ sharing \in [Task -> Shares] /\ sharing[t] \in Shares
        /\ \A u \in Task :
             /\ sharing[u].session \in 0..Len(server)
             /\ sharing[u].pc \in HasRead => sharing[u].read \in Versions
        /\ sessionFor \in [Task -> 0..Len(server)] /\ active \in 0..Len(server)
    BY DEF Typed, CloudOK
  <1>3. /\ server' \in Seq(ServerSessions) /\ Len(server') \in Nat
        /\ Len(server) <= Len(server')
    <2>1. CASE UNCHANGED server
      BY <1>2, <2>1
    <2>2. CASE ShareCreatesSession(t)
      <3>1. Session(t) \in ServerSessions
        BY DEF Session, ServerSessions
      <3> QED
        BY <1>2, <2>2, <3>1 DEF ShareCreatesSession
    <2>3. CASE ShareUploadsHistory(t) \/ ShareUploadsMessages(t)
      <3>1. PICK b \in Conversation : sharing[t].pc \in Sending /\ ShareSends(t, b)
        BY <2>3 DEF ShareUploadsHistory, ShareUploadsMessages, Conversation, Sending
      <3>2. sharing[t].read[b] \in Nat
        BY <1>2, <3>1 DEF HasRead, Versions
      <3> QED
        BY <1>2, <3>1, <3>2, StoredGood DEF ShareSends
    <2> QED
      BY <2>1, <2>2, <2>3 DEF Share, ShareFindsSession, ShareFindsNone, ShareReadsFiles,
                              ShareFails, cloud
  <1>4. ASSUME NEW to, NEW id \in 0..Len(server'), NEW read \in {<<>>} \cup Versions,
               to \in HasRead => read \in Versions,
               to \in {"found", "loading", "made", "failed"} \cup HasRead,
               sharing' = [sharing EXCEPT ![t] = [pc |-> to, session |-> id, read |-> read]]
        PROVE  /\ sharing' \in [Task -> Shares]
               /\ \A u \in Task :
                    /\ sharing'[u].session \in 0..Len(server')
                    /\ sharing'[u].pc \in HasRead => sharing'[u].read \in Versions
    BY <1>2, <1>3, <1>4 DEF Shares
  <1>5. /\ sharing' \in [Task -> Shares]
        /\ \A u \in Task :
             /\ sharing'[u].session \in 0..Len(server')
             /\ sharing'[u].pc \in HasRead => sharing'[u].read \in Versions
    <2>0. /\ 0 \in 0..Len(server') /\ Len(server') \in 0..Len(server')
          /\ sessionFor[t] \in 0..Len(server') /\ sharing[t].session \in 0..Len(server')
      BY <1>2, <1>3
    <2>1. CASE ShareFindsSession(t)
      BY <1>4, <2>0, <2>1 DEF ShareFindsSession, ShareStep, HasRead, Sending
    <2>2. CASE ShareFindsNone(t)
      BY <1>4, <2>0, <2>2 DEF ShareFindsNone, ShareStep, HasRead, Sending
    <2>3. CASE ShareReadsFiles(t)
      <3>1. [b \in Conversation |-> file[t][b]] \in Versions
        BY ConstantsOK DEF Typed, DiskOK, Versions, Conversation
      <3> QED
        BY <1>4, <2>0, <2>3, <3>1 DEF ShareReadsFiles, ShareStep, HasRead
    <2>4. CASE ShareCreatesSession(t)
      <3>1. /\ sharing[t].pc = "creating"
            /\ sharing' = [sharing EXCEPT ![t] = [pc |-> "history",
                             session |-> Len(server'), read |-> sharing[t].read]]
        BY <2>4 DEF ShareCreatesSession, ShareStep
      <3>2. sharing[t].read \in Versions
        BY <1>2, <3>1 DEF HasRead
      <3> QED
        BY <1>4, <2>0, <3>1, <3>2 DEF HasRead, Sending
    <2>5. CASE ShareUploadsHistory(t)
      <3>1. /\ sharing[t].pc = "history"
            /\ sharing' = [sharing EXCEPT ![t] = [pc |-> "messages",
                             session |-> sharing[t].session, read |-> sharing[t].read]]
        BY <2>5 DEF ShareUploadsHistory, ShareStep
      <3>2. sharing[t].read \in Versions
        BY <1>2, <3>1 DEF HasRead, Sending
      <3> QED
        BY <1>4, <2>0, <3>1, <3>2 DEF HasRead, Sending
    <2>6. CASE ShareUploadsMessages(t)
      BY <1>4, <2>0, <2>6 DEF ShareUploadsMessages, ShareStep, HasRead, Sending
    <2>7. CASE ShareFails(t)
      BY <1>4, <2>0, <2>7 DEF ShareFails, ShareStep, HasRead, Sending
    <2> QED
      BY <2>1, <2>2, <2>3, <2>4, <2>5, <2>6, <2>7 DEF Share
  <1>6. sessionFor' \in [Task -> 0..Len(server')] /\ active' \in 0..Len(server')
    <2>1. active' = active
      BY <1>1 DEF calls
    <2>2. \/ sessionFor' = sessionFor
          \/ sessionFor' = [sessionFor EXCEPT ![t] = sharing[t].session]
      BY DEF Share, ShareFindsSession, ShareFindsNone, ShareReadsFiles, ShareCreatesSession,
             ShareUploadsHistory, ShareUploadsMessages, ShareFails, cloud
    <2> QED
      BY <1>2, <1>3, <2>1, <2>2
  <1>7. CloudOK'
    BY <1>3, <1>5, <1>6 DEF CloudOK
  <1> QED
    BY <1>1, <1>7, RestStays DEF Typed

\* More sessions, with ids that are in range, are well typed.
LEMMA CloudGrows ==
    ASSUME CloudOK, server' \in Seq(ServerSessions), Len(server) <= Len(server'),
           sessionFor' \in [Task -> 0..Len(server')], active' \in 0..Len(server'),
           UNCHANGED sharing
    PROVE  CloudOK'
  <1>1. Len(server) \in Nat /\ Len(server') \in Nat
    BY DEF CloudOK
  <1> QED
    BY <1>1 DEF CloudOK

\* A run takes its next task, or ends, after a step that may have made a session.
LEMMA MoveOnTyped ==
    ASSUME Typed, NEW s \in Sync, run[s].pc \in OnTask, NextTask(s),
           UNCHANGED <<disk, queue, sessionFor, sharing>>, GitOK',
           server' \in Seq(ServerSessions), Len(server) <= Len(server'),
           UNCHANGED failures \/ Fail
    PROVE  Typed'
  <1>1. Len(server) \in Nat /\ Len(server') \in Nat
    BY DEF Typed, CloudOK
  <1>2. sessionFor' \in [Task -> 0..Len(server')] /\ active \in 0..Len(server')
    BY <1>1 DEF Typed, CloudOK
  <1>3. QueueOK'
    BY RestStays
  <1>4. RunsOK' /\ CallsOK' /\ active' \in 0..Len(server')
    BY <1>1, <1>2, <1>3, NextTaskGood DEF Typed
  <1>5. CloudOK'
    BY <1>2, <1>4, CloudGrows DEF Typed
  <1> QED
    BY <1>3, <1>4, <1>5, RestStays DEF Typed

\* A run goes on with the same task or before its first.
LEMMA UpdateTyped ==
    ASSUME Typed, NEW s \in Sync, NEW r \in RunStates, RunFits(r),
           run' = [run EXCEPT ![s] = r],
           UNCHANGED <<disk, queue, calls, cloud, sharing, gitNow>>, GitOK',
           UNCHANGED failures \/ Fail
    PROVE  Typed'
  <1>1. RunsOK'
    BY UpdateGood DEF Typed, RunsOK
  <1>2. UNCHANGED active
    BY DEF calls
  <1> QED
    BY <1>1, <1>2, RestStays DEF Typed

\* Typed is kept by the token check and the reading of the git state,
LEMMA TokenTyped ==
    ASSUME Typed, NEW s \in Sync, TokenValid(s) \/ TokenInvalid(s) \/ GitStateRead(s)
    PROVE  Typed'
  <1>1. run[s] \in RunStates /\ RunFits(run[s])
    BY DEF Typed, RunsOK, GoodRuns
  <1>2. CASE TokenValid(s)
    <2> DEFINE todo == UniqueTasks(items)
               last == IF items = <<>> THEN NoTask ELSE Last(items).task
               new == [run[s] EXCEPT !.pc = "git", !.todo = todo, !.last = last]
    <2>1. todo \in Seq(Task)
      BY UniqueTasksOf DEF Typed, QueueOK
    <2>2. last \in Task \cup {NoTask}
      <3>1. items \in Seq(Items)
        BY DEF Typed, QueueOK
      <3>2. items # <<>> => Last(items) \in Items
        BY <3>1, LastElement
      <3> QED
        BY <3>2 DEF Items
    <2>3. run' = [run EXCEPT ![s] = new]
      BY <1>2 DEF TokenValid
    <2> HIDE DEF todo, last
    <2>4. new \in RunStates /\ RunFits(new)
      BY <1>1, <2>1, <2>2 DEF RunStates, RunFits, OnTask
    <2> HIDE DEF new
    <2>5. UNCHANGED <<disk, queue, calls, cloud, sharing, git, failures>>
      BY <1>2 DEF TokenValid
    <2>6. GitOK'
      BY <2>5, RestStays
    <2> QED
      BY <2>3, <2>4, <2>5, <2>6, UpdateTyped DEF git
  <1>3. CASE TokenInvalid(s)
    <2>1. Settle(s) /\ Fail /\ UNCHANGED <<disk, queue, active, cloud, sharing, git>>
      BY <1>3 DEF TokenInvalid
    <2>2. RunsOK' /\ CallsOK'
      BY <2>1, SettleGood DEF Typed
    <2> QED
      BY <2>1, <2>2, RestStays DEF Typed
  <1>4. CASE GitStateRead(s)
    <2> DEFINE r == [run[s] EXCEPT !.git = gitNow]
               todo == run[s].todo
    <2>1. /\ UNCHANGED <<disk, queue, cloud, sharing, git, failures>>
          /\ Proceed(s, r, todo)
      BY <1>4 DEF GitStateRead
    <2>2. gitNow \in 0..MaxGit
      BY DEF Typed, GitOK
    <2>3. r \in RunStates /\ todo \in Seq(Task)
      BY <1>1, <2>2 DEF RunStates
    <2>4. QueueOK'
      BY <2>1, RestStays
    <2>5. /\ sessionFor' \in [Task -> 0..Len(server')] /\ active \in 0..Len(server')
          /\ Len(server') \in Nat /\ server' \in Seq(ServerSessions)
          /\ Len(server) <= Len(server')
      BY <2>1 DEF Typed, CloudOK, cloud
    <2> HIDE DEF r, todo
    <2>6. RunsOK' /\ CallsOK' /\ active' \in 0..Len(server')
      BY <2>1, <2>3, <2>4, <2>5, ProceedGood DEF Typed
    <2>7. CloudOK'
      BY <2>1, <2>5, <2>6, CloudGrows DEF Typed
    <2> QED
      BY <2>1, <2>4, <2>6, <2>7, RestStays DEF Typed
  <1> QED
    BY <1>2, <1>3, <1>4

\* by the update of a session,
LEMMA SessionUpdatedTyped ==
    ASSUME Typed, NEW s \in Sync, SessionUpdated(s)
    PROVE  Typed'
  <1>1. run[s] \in RunStates /\ RunFits(run[s]) /\ run[s].pc \in OnTask
    BY DEF Typed, RunsOK, GoodRuns, SessionUpdated, OnTask
  <1> DEFINE new == [run[s] EXCEPT !.pc = "reading", !.session = run[s].session, !.live = FALSE]
  <1>2. /\ run' = [run EXCEPT ![s] = new]
        /\ UNCHANGED <<disk, queue, calls, cloud, sharing, git, failures>>
    BY DEF SessionUpdated, StartReading
  <1>3. new \in RunStates /\ RunFits(new)
    BY <1>1 DEF RunStates, RunFits, OnTask
  <1> HIDE DEF new
  <1>4. GitOK'
    BY <1>2, RestStays
  <1> QED
    BY <1>2, <1>3, <1>4, UpdateTyped DEF git

\* by its creation,
LEMMA SessionCreatedTyped ==
    ASSUME Typed, NEW s \in Sync, SessionCreated(s)
    PROVE  Typed'
  <1>0. run[s].pc \in OnTask
    BY DEF SessionCreated, OnTask
  <1>1. run[s] \in RunStates /\ RunFits(run[s]) /\ TaskOf(s) \in Task
    BY <1>0, TaskOfGood DEF Typed
  <1> DEFINE id == Len(server')
             new == [run[s] EXCEPT !.pc = "reading", !.session = id, !.live = FALSE]
  <1>2. /\ run' = [run EXCEPT ![s] = new]
        /\ UNCHANGED <<disk, queue, calls, sharing, git, failures>>
        /\ server' = Append(server, Session(TaskOf(s)))
        /\ sessionFor' = [sessionFor EXCEPT ![TaskOf(s)] = id]
    BY DEF SessionCreated, StartReading
  <1>3. Session(TaskOf(s)) \in ServerSessions
    BY <1>1 DEF Session, ServerSessions
  <1>4. /\ server' \in Seq(ServerSessions) /\ Len(server') = Len(server) + 1
        /\ Len(server) \in Nat
    BY <1>2, <1>3 DEF Typed, CloudOK
  <1>5. id \in 0..Len(server') /\ id \in Nat
    BY <1>4
  <1>6. sessionFor' \in [Task -> 0..Len(server')]
    BY <1>1, <1>2, <1>4 DEF Typed, CloudOK
  <1>7. active' \in 0..Len(server')
    BY <1>2, <1>4 DEF Typed, CloudOK, calls
  <1>8. CloudOK'
    BY <1>2, <1>4, <1>6, <1>7, CloudGrows DEF Typed
  <1> HIDE DEF id
  <1>9. new \in RunStates /\ RunFits(new)
    BY <1>0, <1>1, <1>5 DEF RunStates, RunFits, OnTask
  <1> HIDE DEF new
  <1>10. RunsOK'
    BY <1>2, <1>9, UpdateGood DEF Typed, RunsOK
  <1> QED
    BY <1>2, <1>8, <1>10, RestStays DEF Typed

\* by the failure of either,
LEMMA SessionFailsTyped ==
    ASSUME Typed, NEW s \in Sync, SessionFails(s)
    PROVE  Typed'
  <1>1. /\ run[s].pc \in OnTask /\ Fail /\ NextTask(s)
        /\ UNCHANGED <<disk, queue, sessionFor, sharing, git>>
        /\ server' = server \/ server' = Append(server, Session(TaskOf(s)))
    BY DEF SessionFails, OnTask
  <1>2. Session(TaskOf(s)) \in ServerSessions
    BY <1>1, TaskOfGood DEF Typed, Session, ServerSessions
  <1>3. server' \in Seq(ServerSessions) /\ Len(server) <= Len(server')
    <2>1. server \in Seq(ServerSessions) /\ Len(server) \in Nat
      BY DEF Typed, CloudOK
    <2>2. CASE server' = server
      BY <2>1, <2>2
    <2>3. CASE server' = Append(server, Session(TaskOf(s)))
      BY <1>2, <2>1, <2>3
    <2> QED
      BY <1>1, <2>2, <2>3
  <1>4. GitOK'
    BY <1>1, RestStays
  <1> QED
    BY <1>1, <1>3, <1>4, MoveOnTyped

\* by the reading of a file,
LEMMA ReadTyped ==
    ASSUME Typed, NEW s \in Sync, NEW b \in Blob, FileRead(s, b) \/ FileUnreadable(s, b)
    PROVE  Typed'
  <1>0. run[s].pc \in OnTask
    BY DEF FileRead, FileUnreadable, OnTask
  <1>1. run[s] \in RunStates /\ RunFits(run[s]) /\ TaskOf(s) \in Task
    BY <1>0, TaskOfGood DEF Typed
  <1>2. PICK v \in {Unread, file[TaskOf(s)][b]} :
          run' = [run EXCEPT ![s].read = Known(@, b, v)]
    BY DEF FileRead, FileUnreadable
  <1> DEFINE r == run[s]
             read == Known(r.read, b, v)
             new == [r EXCEPT !.read = read]
  <1>3. v \in Nat
    BY <1>1 DEF Typed, DiskOK, Unread
  <1>4. PICK B \in SUBSET Blob : r.read \in [B -> Nat]
    BY <1>1 DEF RunStates, Reads
  <1>5. read \in [B \cup {b} -> Nat]
    BY <1>3, <1>4 DEF Known
  <1>6. b \in r.names
    BY DEF FileRead, FileUnreadable
  <1>7. read \in Reads /\ DOMAIN read = DOMAIN r.read \cup {b}
    BY <1>4, <1>5 DEF Reads
  <1>8. run' = [run EXCEPT ![s] = new]
    BY <1>2
  <1> HIDE DEF r, read
  <1>9. new \in RunStates /\ RunFits(new)
    BY <1>1, <1>6, <1>7 DEF RunStates, RunFits, r
  <1> HIDE DEF new
  <1>10. UNCHANGED <<disk, queue, calls, cloud, sharing, git>> /\ (UNCHANGED failures \/ Fail)
    BY DEF FileRead, FileUnreadable
  <1>11. GitOK'
    BY <1>10, RestStays
  <1> QED
    BY <1>8, <1>9, <1>10, <1>11, UpdateTyped DEF git

\* by the start of the uploads,
LEMMA UploadsStartTyped ==
    ASSUME Typed, NEW s \in Sync, UploadsStart(s)
    PROVE  Typed'
  <1>0. run[s].pc \in OnTask
    BY DEF UploadsStart, OnTask
  <1>1. run[s] \in RunStates /\ RunFits(run[s]) /\ TaskOf(s) \in Task
    BY <1>0, TaskOfGood DEF Typed
  <1> DEFINE t == TaskOf(s)
             r == run[s]
             sent == {b \in r.names : blobIndex[t][b] # NoItem /\ r.read[b] # Unread}
             sending == [b \in sent |-> [version |-> r.read[b], time |-> blobIndex[t][b].time]]
             new == [r EXCEPT !.pc = "uploading", !.sending = sending]
  <1>2. /\ run' = [run EXCEPT ![s] = new] /\ DOMAIN r.read = r.names
        /\ UNCHANGED <<disk, queue, calls, cloud, sharing, git, failures>>
    BY DEF UploadsStart
  <1>3. r.names \subseteq Blob
    BY <1>1 DEF RunStates
  <1>4. ASSUME NEW b \in sent
        PROVE  [version |-> r.read[b], time |-> blobIndex[t][b].time] \in [version : Nat, time : Nat]
    <2>1. r.read[b] \in Nat
      <3>1. PICK B \in SUBSET Blob : r.read \in [B -> Nat]
        BY <1>1 DEF RunStates, Reads
      <3> QED
        BY <1>2, <3>1
    <2>2. blobIndex[t][b] \in Items
      BY <1>1, <1>3 DEF Typed, QueueOK
    <2> QED
      BY <2>1, <2>2 DEF Items
  <1>5. sending \in [sent -> [version : Nat, time : Nat]] /\ sent \in SUBSET Blob
    BY <1>3, <1>4
  <1>6. DOMAIN sending \subseteq r.names /\ sending \in Uploads
    BY <1>5 DEF Uploads
  <1> HIDE DEF sending, sent, t, r
  <1>7. new \in RunStates /\ RunFits(new)
    BY <1>0, <1>1, <1>6 DEF RunStates, RunFits, OnTask, r
  <1> HIDE DEF new
  <1>8. GitOK'
    BY <1>2, RestStays
  <1> QED
    BY <1>2, <1>7, <1>8, UpdateTyped DEF git

\* by the answer to one of them,
LEMMA UploadAnsweredTyped ==
    ASSUME Typed, NEW s \in Sync, NEW b \in Blob, UploadReturns(s, b) \/ UploadFails(s, b)
    PROVE  Typed'
  <1>0. run[s].pc \in OnTask /\ b \in DOMAIN run[s].sending
    BY DEF UploadReturns, UploadFails, OnTask
  <1>1. run[s] \in RunStates /\ RunFits(run[s]) /\ TaskOf(s) \in Task
    BY <1>0, TaskOfGood DEF Typed
  <1>2. run[s].sending[b].version \in Nat
    BY <1>0, <1>1 DEF RunStates, Uploads
  <1>3. server' \in Seq(ServerSessions) /\ Len(server') = Len(server)
    <2>1. UNCHANGED server \/ Stored(run[s].session, b, run[s].sending[b].version)
      BY DEF UploadReturns, UploadFails
    <2> QED
      BY <1>2, <2>1, StoredGood DEF Typed, CloudOK
  <1>4. UNCHANGED <<disk, calls, sessionFor, sharing, git>> /\ (UNCHANGED failures \/ Fail)
    BY DEF UploadReturns, UploadFails
  <1>5. CloudOK'
    <2>1. sessionFor' \in [Task -> 0..Len(server')] /\ active' \in 0..Len(server')
          /\ Len(server) <= Len(server')
      BY <1>3, <1>4 DEF Typed, CloudOK, calls
    <2> QED
      BY <1>3, <1>4, <2>1, CloudGrows DEF Typed
  <1>6. QueueOK'
    <2>1. UNCHANGED queue \/ RemoveProcessedItems(TaskOf(s), b, run[s].sending[b].time)
      BY DEF UploadReturns, UploadFails
    <2> QED
      BY <1>1, <2>1, RemoveKeepsQueue, QueueStays DEF Typed
  <1>7. RunsOK'
    <2>1. Answered(CutOff(TaskOf(s)), s, b) \/ Answered(run, s, b)
      BY DEF UploadReturns, UploadFails
    <2> QED
      BY <2>1, CutOffGood, AnsweredGood DEF Typed, RunsOK
  <1> QED
    BY <1>4, <1>5, <1>6, <1>7, RestStays DEF Typed

\* by what follows the last answer,
LEMMA UploadsDoneTyped ==
    ASSUME Typed, NEW s \in Sync, UploadsDone(s)
    PROVE  Typed'
  <1>0. run[s].pc \in OnTask
    BY DEF UploadsDone, OnTask
  <1>1. run[s] \in RunStates /\ RunFits(run[s]) /\ TaskOf(s) \in Task
    BY <1>0, TaskOfGood DEF Typed
  <1>2. UNCHANGED <<disk, queue, cloud, sharing, gitNow, failures>>
    BY DEF UploadsDone
  <1>3. CASE UNCHANGED gitHash /\ NextTask(s)
    <2>1. GitOK'
      BY <1>2, <1>3 DEF Typed, GitOK
    <2>2. server' \in Seq(ServerSessions) /\ Len(server) <= Len(server')
      BY <1>2 DEF Typed, CloudOK, cloud
    <2> QED
      BY <1>0, <1>2, <1>3, <2>1, <2>2, MoveOnTyped DEF cloud
  <1>4. CASE /\ gitHash' = [gitHash EXCEPT ![TaskOf(s)] = run[s].git]
             /\ run' = [run EXCEPT ![s].pc = "git upload"]
             /\ UNCHANGED calls
    <2> DEFINE r == run[s]
               new == [r EXCEPT !.pc = "git upload"]
    <2>1. run' = [run EXCEPT ![s] = new]
      BY <1>4
    <2>2. new \in RunStates /\ RunFits(new)
      BY <1>0, <1>1 DEF RunStates, RunFits, OnTask
    <2>3. GitOK'
      BY <1>1, <1>2, <1>4 DEF Typed, GitOK, RunStates
    <2> HIDE DEF new
    <2> QED
      BY <1>2, <1>4, <2>1, <2>2, <2>3, UpdateTyped
  <1> QED
    BY <1>3, <1>4 DEF UploadsDone

\* by the upload of the git state,
LEMMA GitUploadTyped ==
    ASSUME Typed, NEW s \in Sync, GitUploaded(s) \/ GitUploadFails(s)
    PROVE  Typed'
  <1>0. run[s].pc \in OnTask /\ NextTask(s)
    BY DEF GitUploaded, GitUploadFails, OnTask
  <1>1. UNCHANGED <<disk, queue, sessionFor, sharing, git>> /\ (UNCHANGED failures \/ Fail)
    BY DEF GitUploaded, GitUploadFails, cloud
  <1>2. run[s] \in RunStates
    BY DEF Typed, RunsOK, GoodRuns
  <1>3. server' \in Seq(ServerSessions) /\ Len(server') = Len(server)
    <2>0. server \in Seq(ServerSessions)
      BY DEF Typed, CloudOK
    <2>1. CASE UNCHANGED server
      BY <2>0, <2>1
    <2>2. CASE server' = [server EXCEPT ![run[s].session].git = run[s].git]
      <3> DEFINE id == run[s].session
                 old == server[id]
                 new == [old EXCEPT !.git = run[s].git]
      <3>1. server' = [server EXCEPT ![id] = new]
        BY <2>2
      <3>2. CASE id \in 1 .. Len(server)
        <4>1. old \in ServerSessions
          BY <2>0, <3>2
        <4>2. run[s].git \in Nat
          BY <1>2, ConstantsOK DEF RunStates
        <4>3. new \in ServerSessions
          BY <4>1, <4>2 DEF ServerSessions
        <4> HIDE DEF new, id
        <4> QED
          BY <2>0, <3>1, <3>2, <4>3
      <3>3. CASE id \notin 1 .. Len(server)
        <4>1. server' = server
          BY <2>0, <3>1, <3>3
        <4> QED
          BY <2>0, <4>1
      <3> QED
        BY <3>2, <3>3
    <2> QED
      BY <2>1, <2>2 DEF GitUploaded, GitUploadFails, cloud
  <1>4. GitOK' /\ Len(server) <= Len(server')
    BY <1>1, <1>3, RestStays DEF Typed, CloudOK
  <1> QED
    BY <1>0, <1>1, <1>3, <1>4, MoveOnTyped

\* and by a change of the git state.
LEMMA GitChangesTyped ==
    ASSUME Typed, GitChanges
    PROVE  Typed'
  <1>1. GitOK'
    BY ConstantsOK DEF GitChanges, Typed, GitOK
  <1>2. UNCHANGED <<disk, queue, calls, run, cloud, sharing, failures>>
    BY DEF GitChanges
  <1> QED
    BY <1>1, <1>2, RestStays DEF Typed, calls

\* Typed holds at first,
LEMMA InitTyped == Init => Typed
  <1> SUFFICES ASSUME Init PROVE Typed
    OBVIOUS
  <1>1. DiskOK /\ GitOK /\ failures \in 0..MaxFailures
    BY ConstantsOK DEF Init, DiskOK, GitOK
  <1>2. RunsOK
    BY IdleGood DEF Init, RunsOK, GoodRuns
  <1>3. CallsOK
    BY DEF Init, CallsOK, Callers
  <1>4. CloudOK
    BY DEF Init, CloudOK, Shares, HasRead, Sending
  <1>5. QueueOK
    <2>1. items = <<>> /\ items \in Seq(Items)
      BY DEF Init
    <2>2. \A t, b : OfTask(items, t) = <<>> /\ OfBlob(items, t, b) = <<>>
      BY <2>1, SelectedEmpty DEF OfTask, OfBlob
    <2> QED
      BY <2>1, <2>2 DEF Init, QueueOK, IndexesAgree, LastOr
  <1> QED
    BY <1>1, <1>2, <1>3, <1>4, <1>5 DEF Typed

\* and every step keeps it.
LEMMA NextTyped ==
    ASSUME Typed, [Next]_vars
    PROVE  Typed'
  <1>1. CASE UNCHANGED vars
    BY <1>1, RestStays DEF vars, Typed, calls
  <1>2. ASSUME NEW s \in Sync, RunStep(s) PROVE Typed'
    BY <1>2, TokenTyped, SessionUpdatedTyped, SessionCreatedTyped, ReadTyped,
       UploadAnsweredTyped, UploadsStartTyped, UploadsDoneTyped, GitUploadTyped DEF RunStep
  <1>3. ASSUME NEW s \in Sync, RunFails(s) PROVE Typed'
    BY <1>3, TokenTyped, SessionFailsTyped, ReadTyped, UploadAnsweredTyped, GitUploadTyped
       DEF RunFails
  <1>4. Shared \subseteq Task
    BY ConstantsOK
  <1> QED
    BY <1>1, <1>2, <1>3, <1>4, SaveFileTyped, FileUpdatedTyped, RequestsTyped, ShareTyped,
       GitChangesTyped DEF Next

\* The queue's three indexes agree after every mix of pushes and removals by
\* several runs: getItemsForTask and getLastItem answer as the list would.
THEOREM IndexesTheorem == Spec => []IndexesAgree
  <1>1. Typed => IndexesAgree
    BY DEF Typed, QueueOK
  <1> QED
    BY <1>1, InitTyped, NextTyped, PTL DEF Spec

\* Every variable keeps its type
THEOREM TypeCorrect == Spec => []TypeOK
  <1>1. Typed => TypeOK
    <2> SUFFICES ASSUME Typed PROVE TypeOK
      OBVIOUS
    <2>1. ASSUME NEW s \in Sync
          PROVE  /\ run[s].pc \in {"idle", "token", "git", "session", "reading",
                           "uploading", "git upload"}
                 /\ run[s].todo \in Seq(Task)
                 /\ run[s].pc \in {"session", "reading", "uploading", "git upload"}
                      => run[s].todo # <<>>
                 /\ run[s].names \subseteq Blob
                 /\ DOMAIN run[s].read \subseteq run[s].names
                 /\ DOMAIN run[s].sending \subseteq run[s].names
      <3>1. run[s] \in RunStates /\ RunFits(run[s])
        BY DEF Typed, RunsOK, GoodRuns
      <3> QED
        BY <3>1 DEF RunStates, RunFits, OnTask
    <2>2. \A f \in Forced : caller[f].pc \in {"uncalled", "waiting", "running", "done"}
      BY DEF Typed, CallsOK, Callers
    <2> QED
      BY <2>1, <2>2 DEF Typed, TypeOK, DiskOK, QueueOK, CallsOK, CloudOK, GitOK
  <1> QED
    BY <1>1, InitTyped, NextTyped, PTL DEF Spec


\* The forced calls that may be made: one.
OneForced == \A f, g \in Forced : f = g

\* Every run has its state.
RunsShaped ==
    /\ DOMAIN run = Sync
    /\ run = [s \in Sync |-> run[s]]
    /\ \A s \in Sync : /\ "pc" \in DOMAIN run[s]
                       /\ run[s] = [x \in DOMAIN run[s] |-> run[s][x]]

\* pendingSync is the run at work: no run goes on after its promise was
\* forgotten.
WorkIsPending == \A s \in Sync : run[s].pc # "idle" => pending = s

\* A call resumed by the end of a run looks at the queue before another run
\* can begin: it does not look at pendingSync again.
ResumedAlone == /\ woken \subseteq Forced
                /\ woken # {} => pending = NoSync

IInv == RunsShaped /\ WorkIsPending /\ ResumedAlone

\* No other run is at work beside s, and s keeps its place.
RunGoesOn(s) ==
    /\ DOMAIN run' = Sync /\ run' = [r \in Sync |-> run'[r]]
    /\ \A r \in Sync : /\ "pc" \in DOMAIN run'[r]
                       /\ run'[r] = [x \in DOMAIN run'[r] |-> run'[r][x]]
    /\ \A r \in Sync : run'[r].pc # "idle" => run[r].pc # "idle" \/ r = s

-----------------------------------------------------------------------------
(* The pieces of the steps *)

\* A step in which no run begins and nobody is resumed keeps the invariant.
LEMMA QuietKeeps ==
    ASSUME IInv, UNCHANGED <<pending, woken>>, NEW s \in Sync,
           run[s].pc # "idle", RunGoesOn(s)
    PROVE  IInv'
  BY DEF IInv, RunsShaped, WorkIsPending, ResumedAlone, RunGoesOn

\* A step that does not touch the runs, their promise or who is resumed.
LEMMA StillKeeps ==
    ASSUME IInv, UNCHANGED <<pending, woken, run>>
    PROVE  IInv'
  BY DEF IInv, RunsShaped, WorkIsPending, ResumedAlone

\* A run begins while none is pending, and whoever was resumed is at it.
LEMMA BeginKeeps ==
    ASSUME IInv, pending = NoSync, NEW runs, Begin(runs),
           DOMAIN runs = Sync, runs = [r \in Sync |-> runs[r]],
           \A r \in Sync : /\ "pc" \in DOMAIN runs[r]
                           /\ runs[r] = [x \in DOMAIN runs[r] |-> runs[r][x]]
                           /\ runs[r].pc = run[r].pc,
           woken' = {}
    PROVE  IInv'
<1>1. NewSync \in Sync
  BY DEF Begin, NewSync, FreeSync
<1>2. \A r \in Sync : run[r].pc = "idle"
  BY ConstantsOK DEF IInv, WorkIsPending
<1>3. DOMAIN run' = Sync /\ run' = [r \in Sync |-> run'[r]]
  BY DEF Begin
<1>4. \A r \in Sync : r # NewSync => run'[r] = runs[r]
  BY DEF Begin
<1>5. run'[NewSync] = [Idle EXCEPT !.pc = "token"]
  BY <1>1 DEF Begin
<1>6. /\ "pc" \in DOMAIN run'[NewSync]
      /\ run'[NewSync] = [x \in DOMAIN run'[NewSync] |-> run'[NewSync][x]]
  BY <1>5 DEF Idle
<1>7. RunsShaped'
  BY <1>3, <1>4, <1>6 DEF RunsShaped
<1>8. WorkIsPending'
  BY <1>2, <1>4 DEF WorkIsPending, Begin
<1> QED
  BY <1>7, <1>8 DEF IInv, ResumedAlone

\* The end of a run leaves no run at work, and resumes calls that find none.
LEMMA SettleKeeps ==
    ASSUME IInv, OneForced, NEW s \in Sync, run[s].pc # "idle", Settle(s)
    PROVE  IInv'
<1>1. pending = s /\ pending' = NoSync
  BY DEF IInv, WorkIsPending, Settle
<1>2. \A r \in Sync : run'[r].pc = "idle"
  BY <1>1 DEF IInv, WorkIsPending, RunsShaped, Settle, Idle
<1>3. DOMAIN run' = Sync /\ run' = [r \in Sync |-> run'[r]]
  BY DEF IInv, RunsShaped, Settle
<1>4. /\ run'[s] = Idle
      /\ \A r \in Sync : r # s => run'[r] = run[r]
  BY DEF IInv, RunsShaped, Settle
<1>5. "pc" \in DOMAIN Idle /\ Idle = [x \in DOMAIN Idle |-> Idle[x]]
  BY DEF Idle
<1>6. RunsShaped'
  BY <1>3, <1>4, <1>5 DEF IInv, RunsShaped
<1>7. ResumedAlone'
  BY <1>1 DEF IInv, ResumedAlone, Settle
<1> QED
  BY <1>2, <1>6, <1>7 DEF IInv, WorkIsPending

\* A run goes on with its next task, or comes to its end.
LEMMA ProceedKeeps ==
    ASSUME IInv, OneForced, NEW s \in Sync, run[s].pc # "idle", NEW r, NEW todo,
           "pc" \in DOMAIN r, Proceed(s, r, todo)
    PROVE  IInv'
<1>1. CASE todo # <<>>
  <2> DEFINE next == [r EXCEPT !.pc = "session", !.todo = todo,
                         !.session = sessionFor'[Head(todo)],
                         !.names = {i.blob : i \in ToSet(taskIndex'[Head(todo)])},
                         !.live = taskIndex'[Head(todo)] # <<>>,
                         !.read = <<>>, !.sending = <<>>]
  <2>1. run' = [run EXCEPT ![s] = next] /\ UNCHANGED calls
    BY <1>1 DEF Proceed
  <2>2. "pc" \in DOMAIN next /\ next = [x \in DOMAIN next |-> next[x]]
    OBVIOUS
  <2> HIDE DEF next
  <2>3. RunGoesOn(s)
    BY <2>1, <2>2 DEF IInv, RunsShaped, RunGoesOn
  <2> QED
    BY <2>1, <2>3, QuietKeeps DEF calls
<1>2. CASE todo = <<>>
  BY <1>2, SettleKeeps DEF Proceed
<1> QED
  BY <1>1, <1>2

\* NextTask is a Proceed: it keeps the invariant.
LEMMA NextTaskKeeps ==
    ASSUME IInv, OneForced, NEW s \in Sync, run[s].pc # "idle", NextTask(s)
    PROVE  IInv'
  BY ProceedKeeps DEF NextTask, IInv, RunsShaped

\* A run whose place changes without its coming to an end.
LEMMA UpdateKeeps ==
    ASSUME IInv, UNCHANGED <<pending, woken>>, NEW s \in Sync,
           run[s].pc # "idle", NEW new, run' = [run EXCEPT ![s] = new],
           "pc" \in DOMAIN new, new = [x \in DOMAIN new |-> new[x]]
    PROVE  IInv'
<1>1. RunGoesOn(s)
  BY DEF IInv, RunsShaped, RunGoesOn
<1> QED
  BY <1>1, QuietKeeps

-----------------------------------------------------------------------------
(* The steps of a run *)

\* The steps of one run keep it: the token check,
LEMMA TokenValidKeeps ==
    ASSUME IInv, NEW s \in Sync, TokenValid(s)
    PROVE  IInv'
<1> DEFINE new == [run[s] EXCEPT !.pc = "git", !.todo = UniqueTasks(items),
                    !.last = IF items = <<>> THEN NoTask ELSE Last(items).task]
<1>1. /\ UNCHANGED <<pending, woken>> /\ run[s].pc # "idle"
      /\ run' = [run EXCEPT ![s] = new]
  BY DEF TokenValid, calls
<1>2. "pc" \in DOMAIN new /\ new = [x \in DOMAIN new |-> new[x]]
  BY DEF IInv, RunsShaped
<1> HIDE DEF new
<1> QED
  BY <1>1, <1>2, UpdateKeeps

\* the update of a session,
LEMMA SessionUpdatedKeeps ==
    ASSUME IInv, NEW s \in Sync, SessionUpdated(s)
    PROVE  IInv'
<1> DEFINE new == [run[s] EXCEPT !.pc = "reading", !.session = run[s].session, !.live = FALSE]
<1>1. /\ UNCHANGED <<pending, woken>> /\ run[s].pc # "idle"
      /\ run' = [run EXCEPT ![s] = new]
  BY DEF SessionUpdated, calls, StartReading
<1>2. "pc" \in DOMAIN new /\ new = [x \in DOMAIN new |-> new[x]]
  BY DEF IInv, RunsShaped
<1> HIDE DEF new
<1> QED
  BY <1>1, <1>2, UpdateKeeps

\* its creation,
LEMMA SessionCreatedKeeps ==
    ASSUME IInv, NEW s \in Sync, SessionCreated(s)
    PROVE  IInv'
<1> DEFINE new == [run[s] EXCEPT !.pc = "reading", !.session = Len(server'), !.live = FALSE]
<1>1. /\ UNCHANGED <<pending, woken>> /\ run[s].pc # "idle"
      /\ run' = [run EXCEPT ![s] = new]
  BY DEF SessionCreated, calls, StartReading
<1>2. "pc" \in DOMAIN new /\ new = [x \in DOMAIN new |-> new[x]]
  BY DEF IInv, RunsShaped
<1> HIDE DEF new
<1> QED
  BY <1>1, <1>2, UpdateKeeps

\* the reading of a file,
LEMMA FileReadKeeps ==
    ASSUME IInv, NEW s \in Sync, NEW b, FileRead(s, b)
    PROVE  IInv'
<1> DEFINE new == [run[s] EXCEPT !.read = Known(@, b, file[TaskOf(s)][b])]
<1>1. /\ UNCHANGED <<pending, woken>> /\ run[s].pc # "idle"
      /\ run' = [run EXCEPT ![s] = new]
  BY DEF FileRead, calls
<1>2. "pc" \in DOMAIN new /\ new = [x \in DOMAIN new |-> new[x]]
  BY DEF IInv, RunsShaped
<1> HIDE DEF new
<1> QED
  BY <1>1, <1>2, UpdateKeeps

\* and the failure to read it,
LEMMA FileUnreadableKeeps ==
    ASSUME IInv, NEW s \in Sync, NEW b, FileUnreadable(s, b)
    PROVE  IInv'
<1> DEFINE new == [run[s] EXCEPT !.read = Known(@, b, Unread)]
<1>1. /\ UNCHANGED <<pending, woken>> /\ run[s].pc # "idle"
      /\ run' = [run EXCEPT ![s] = new]
  BY DEF FileUnreadable, calls
<1>2. "pc" \in DOMAIN new /\ new = [x \in DOMAIN new |-> new[x]]
  BY DEF IInv, RunsShaped
<1> HIDE DEF new
<1> QED
  BY <1>1, <1>2, UpdateKeeps

\* the start of the uploads,
LEMMA UploadsStartKeeps ==
    ASSUME IInv, NEW s \in Sync, UploadsStart(s)
    PROVE  IInv'
<1>1. /\ UNCHANGED <<pending, woken>> /\ run[s].pc # "idle"
      /\ \E sending : run' = [run EXCEPT ![s].pc = "uploading", ![s].sending = sending]
  BY DEF UploadsStart, calls
<1>2. PICK sending :
        run' = [run EXCEPT ![s].pc = "uploading", ![s].sending = sending]
  BY <1>1
<1> DEFINE new == [run[s] EXCEPT !.pc = "uploading", !.sending = sending]
<1>3. run' = [run EXCEPT ![s] = new]
  BY <1>2
<1>4. "pc" \in DOMAIN new /\ new = [x \in DOMAIN new |-> new[x]]
  BY DEF IInv, RunsShaped
<1> HIDE DEF new
<1> QED
  BY <1>1, <1>3, <1>4, UpdateKeeps

\* The answer of an upload changes what the run still sends, and may cut off
\* what another run of the task reads.
LEMMA AnsweredKeeps ==
    ASSUME IInv, UNCHANGED <<pending, woken>>, NEW s \in Sync, NEW b,
           run[s].pc = "uploading", NEW runs, Answered(runs, s, b),
           DOMAIN runs = Sync, runs = [r \in Sync |-> runs[r]],
           \A r \in Sync : /\ "pc" \in DOMAIN runs[r]
                           /\ runs[r] = [x \in DOMAIN runs[r] |-> runs[r][x]]
                           /\ runs[r].pc = run[r].pc
    PROVE  IInv'
<1> DEFINE new == [runs[s] EXCEPT !.sending = Restrict(@, DOMAIN @ \ {b})]
<1>1. run' = [runs EXCEPT ![s] = new]
  BY DEF Answered
<1>2. "pc" \in DOMAIN new /\ new = [x \in DOMAIN new |-> new[x]]
  OBVIOUS
<1> HIDE DEF new
<1>3. RunGoesOn(s)
  BY <1>1, <1>2 DEF RunGoesOn
<1> QED
  BY <1>3, QuietKeeps

\* (runs cut off from an array keep their shape and their places),
LEMMA CutOffShaped ==
    ASSUME IInv, NEW t
    PROVE  /\ DOMAIN CutOff(t) = Sync
           /\ CutOff(t) = [r \in Sync |-> CutOff(t)[r]]
           /\ \A r \in Sync :
                /\ "pc" \in DOMAIN CutOff(t)[r]
                /\ CutOff(t)[r] = [x \in DOMAIN CutOff(t)[r] |-> CutOff(t)[r][x]]
                /\ CutOff(t)[r].pc = run[r].pc
  BY DEF CutOff, IInv, RunsShaped

\* the answer to one upload,
LEMMA UploadAnsweredKeeps ==
    ASSUME IInv, NEW s \in Sync, NEW b, UploadReturns(s, b) \/ UploadFails(s, b)
    PROVE  IInv'
<1>1. CASE UploadReturns(s, b)
  <2>1. /\ UNCHANGED <<pending, woken>> /\ run[s].pc = "uploading"
        /\ Answered(CutOff(TaskOf(s)), s, b)
    BY <1>1 DEF UploadReturns, calls
  <2> QED
    BY <2>1, CutOffShaped, AnsweredKeeps
<1>2. CASE UploadFails(s, b)
  <2>1. /\ UNCHANGED <<pending, woken>> /\ run[s].pc = "uploading"
        /\ Answered(run, s, b)
    BY <1>2 DEF UploadFails, calls
  <2> QED
    BY <2>1, AnsweredKeeps DEF IInv, RunsShaped
<1> QED
  BY <1>1, <1>2

\* what follows the last answer,
LEMMA UploadsDoneKeeps ==
    ASSUME IInv, OneForced, NEW s \in Sync, UploadsDone(s)
    PROVE  IInv'
<1>1. run[s].pc # "idle"
  BY DEF UploadsDone
<1>2. CASE NextTask(s)
  BY <1>1, <1>2, NextTaskKeeps
<1>3. CASE run' = [run EXCEPT ![s].pc = "git upload"] /\ UNCHANGED calls
  <2> DEFINE new == [run[s] EXCEPT !.pc = "git upload"]
  <2>1. run' = [run EXCEPT ![s] = new]
    BY <1>3
  <2>2. "pc" \in DOMAIN new /\ new = [x \in DOMAIN new |-> new[x]]
    BY DEF IInv, RunsShaped
  <2> HIDE DEF new
  <2> QED
    BY <1>1, <1>3, <2>1, <2>2, UpdateKeeps DEF calls
<1> QED
  BY <1>2, <1>3 DEF UploadsDone

\* hence every step of a run
LEMMA RunStepKeeps ==
    ASSUME IInv, OneForced, NEW s \in Sync, RunStep(s)
    PROVE  IInv'
<1>1. CASE GitStateRead(s)
  <2>1. /\ run[s].pc # "idle"
        /\ Proceed(s, [run[s] EXCEPT !.git = gitNow], run[s].todo)
    BY <1>1 DEF GitStateRead
  <2>2. "pc" \in DOMAIN [run[s] EXCEPT !.git = gitNow]
    BY DEF IInv, RunsShaped
  <2> QED
    BY <2>1, <2>2, ProceedKeeps
<1>2. CASE GitUploaded(s)
  BY <1>2, NextTaskKeeps DEF GitUploaded
<1> QED
  BY <1>1, <1>2, TokenValidKeeps, SessionUpdatedKeeps, SessionCreatedKeeps,
     FileReadKeeps, UploadAnsweredKeeps, UploadsStartKeeps, UploadsDoneKeeps
     DEF RunStep

\* and every failure of one.
LEMMA RunFailsKeeps ==
    ASSUME IInv, OneForced, NEW s \in Sync, RunFails(s)
    PROVE  IInv'
<1>1. CASE TokenInvalid(s)
  BY <1>1, SettleKeeps DEF TokenInvalid
<1>2. CASE SessionFails(s)
  BY <1>2, NextTaskKeeps DEF SessionFails
<1>3. CASE GitUploadFails(s)
  BY <1>3, NextTaskKeeps DEF GitUploadFails
<1> QED
  BY <1>1, <1>2, <1>3, FileUnreadableKeeps, UploadAnsweredKeeps DEF RunFails

-----------------------------------------------------------------------------
(* The steps of everybody else *)

\* The message after a save keeps it,
LEMMA FileUpdatedKeeps ==
    ASSUME IInv, NEW t, NEW b, FileUpdated(t, b)
    PROVE  IInv'
<1>1. PICK i : \/ pending = NoSync /\ Begin(Seen(i))
               \/ run' = Seen(i) /\ UNCHANGED pending
  BY DEF FileUpdated
<1>2. woken = {} /\ woken' = {}
  BY DEF FileUpdated, Quiet
<1>3. /\ DOMAIN Seen(i) = Sync
      /\ Seen(i) = [r \in Sync |-> Seen(i)[r]]
      /\ \A r \in Sync :
           /\ "pc" \in DOMAIN Seen(i)[r]
           /\ Seen(i)[r] = [x \in DOMAIN Seen(i)[r] |-> Seen(i)[r][x]]
           /\ Seen(i)[r].pc = run[r].pc
  BY DEF Seen, IInv, RunsShaped
<1>4. CASE pending = NoSync /\ Begin(Seen(i))
  BY <1>2, <1>3, <1>4, BeginKeeps
<1>5. CASE run' = Seen(i) /\ UNCHANGED pending
  BY <1>2, <1>3, <1>5 DEF IInv, RunsShaped, WorkIsPending, ResumedAlone
<1> QED
  BY <1>1, <1>4, <1>5

\* so do the calls of doSync, forced and unforced,
LEMMA RequestsKeep ==
    ASSUME IInv, OneForced,
           RequestSync \/ \E f \in Forced : ForceSync(f) \/ ForcedResumes(f)
    PROVE  IInv'
<1>1. /\ DOMAIN run = Sync /\ run = [r \in Sync |-> run[r]]
      /\ \A r \in Sync : /\ "pc" \in DOMAIN run[r]
                         /\ run[r] = [x \in DOMAIN run[r] |-> run[r][x]]
                         /\ run[r].pc = run[r].pc
  BY DEF IInv, RunsShaped
<1>2. CASE RequestSync
  <2>1. pending = NoSync /\ Begin(run) /\ woken' = {}
    BY <1>2 DEF RequestSync, Quiet
  <2> QED
    BY <1>1, <2>1, BeginKeeps
<1>3. ASSUME NEW f \in Forced, ForceSync(f)
      PROVE  IInv'
  <2>1. woken' = {} /\ UNCHANGED woken
    BY <1>3 DEF ForceSync, Quiet
  <2>2. \/ pending = NoSync /\ Begin(run)
        \/ UNCHANGED <<pending, run>>
    BY <1>3 DEF ForceSync
  <2> QED
    BY <1>1, <2>1, <2>2, BeginKeeps, StillKeeps
<1>4. ASSUME NEW f \in Forced, ForcedResumes(f)
      PROVE  IInv'
  <2>1. woken = {f} /\ woken' = {} /\ pending = NoSync
    BY <1>4 DEF ForcedResumes, IInv, ResumedAlone, OneForced
  <2>2. CASE UNCHANGED <<pending, run>>
    BY <2>1, <2>2 DEF IInv, RunsShaped, WorkIsPending, ResumedAlone
  <2>3. CASE Begin(run)
    BY <1>1, <2>1, <2>3, BeginKeeps
  <2> QED
    BY <1>4, <2>2, <2>3 DEF ForcedResumes
<1> QED
  BY <1>2, <1>3, <1>4

\* and the steps that leave runs and calls alone.
LEMMA OthersKeep ==
    ASSUME IInv,
           \/ \E t \in Task, b \in Blob : SaveFile(t, b)
           \/ \E t \in Shared : Share(t)
           \/ GitChanges
    PROVE  IInv'
<1>1. UNCHANGED <<pending, woken, run>>
  BY DEF SaveFile, GitChanges, calls, Share, ShareFindsSession, ShareFindsNone,
         ShareReadsFiles, ShareCreatesSession, ShareUploadsHistory, ShareUploadsMessages,
         ShareFails
<1> QED
  BY <1>1, StillKeeps

-----------------------------------------------------------------------------

\* The invariant holds at first,
LEMMA InitHolds == Init => IInv
<1> SUFFICES ASSUME Init PROVE IInv
  OBVIOUS
<1>1. "pc" \in DOMAIN Idle /\ Idle.pc = "idle" /\ Idle = [x \in DOMAIN Idle |-> Idle[x]]
  BY DEF Idle
<1> QED
  BY <1>1 DEF Init, IInv, RunsShaped, WorkIsPending, ResumedAlone

\* and every step keeps it.
LEMMA NextKeeps ==
    ASSUME IInv, OneForced, [Next]_vars
    PROVE  IInv'
<1>1. CASE UNCHANGED vars
  BY <1>1, StillKeeps DEF vars, calls
<1>2. CASE Next
  BY <1>2, FileUpdatedKeeps, RequestsKeep, RunStepKeeps, RunFailsKeeps, OthersKeep
     DEF Next
<1> QED
  BY <1>1, <1>2

\* Two runs never work on the queue at once, for any number of tasks, files,
\* saves and failures, as long as one call of doSync(true) is made.
THEOREM OneRun ==
    ASSUME OneForced
    PROVE  Spec => []OneSyncAtATime
<1>1. Init => IInv
  BY InitHolds
<1>2. IInv /\ [Next]_vars => IInv'
  BY NextKeeps
<1>3. IInv => OneSyncAtATime
  BY DEF IInv, WorkIsPending, OneSyncAtATime
<1> QED
  BY <1>1, <1>2, <1>3, PTL DEF Spec

-----------------------------------------------------------------------------
(* The versions on the server *)

Uploaded(t) == sharing[t].pc \in Sending

VersionsFit == \A i \in 1 .. Len(server), b \in Blob :
                 server[i].blob[b] <= file[server[i].task][b]
SessionsFit == \A t \in Task : sessionFor[t] # 0 => server[sessionFor[t]].task = t
ShareFit(t) ==
    /\ sharing[t].pc \in HasRead =>
         \A b \in Conversation : 0 < sharing[t].read[b] /\ sharing[t].read[b] <= file[t][b]
    /\ Uploaded(t) =>
         /\ sharing[t].session # 0
         /\ server[sharing[t].session].task = t
         /\ \A b \in Conversation :
              server[sharing[t].session].blob[b] <= sharing[t].read[b]
         /\ \A u \in Task : sessionFor[u] # sharing[t].session
    /\ sharing[t].pc = "messages" => server[sharing[t].session].blob[ApiHistory] > 0
CloudFit == VersionsFit /\ SessionsFit /\ \A t \in Task : ShareFit(t)

Reading(s) ==
    \A b \in DOMAIN run[s].read :
      /\ run[s].read[b] <= file[TaskOf(s)][b]
      /\ run[s].read[b] = 0 \/ run[s].read[b] >= server[run[s].session].blob[b]
Uploading(s) ==
    \A b \in DOMAIN run[s].sending :
      /\ 0 < run[s].sending[b].version
      /\ run[s].sending[b].version <= file[TaskOf(s)][b]
      /\ run[s].sending[b].version >= server[run[s].session].blob[b]
RunFit(s) ==
    run[s].pc \in OnTask =>
      /\ run[s].session <= Len(server)
      /\ run[s].session = 0 => run[s].pc = "session"
      /\ run[s].session # 0 => server[run[s].session].task = TaskOf(s)
      /\ \A t \in Task : Uploaded(t) => run[s].session # sharing[t].session
      /\ run[s].pc = "session" => DOMAIN run[s].read = {}
      /\ run[s].pc = "reading" => Reading(s)
      /\ run[s].pc = "uploading" => Uploading(s)
NoneOlder == CloudFit /\ \A s \in Sync : RunFit(s)

FileGrows == \A t \in Task, b \in Blob : file[t][b] <= file'[t][b]
ServerGrows ==
    /\ Len(server) <= Len(server')
    /\ \A i \in 1 .. Len(server) :
         /\ server'[i].task = server[i].task
         /\ \A b \in Blob : server[i].blob[b] <= server'[i].blob[b]
SameWork(s) == /\ run'[s].pc = run[s].pc /\ run'[s].todo = run[s].todo
               /\ run'[s].session = run[s].session
               /\ run'[s].read = run[s].read /\ run'[s].sending = run[s].sending

\* What the types say of one entry.
LEMMA FileType ==
    ASSUME Typed, NEW t \in Task, NEW b \in Blob PROVE file[t][b] \in Nat
  BY DEF Typed, DiskOK

\* What the types say of one session on the server,
LEMMA ServerType ==
    ASSUME Typed
    PROVE  /\ Len(server) \in Nat /\ server \in Seq(ServerSessions)
           /\ \A i \in 1 .. Len(server) :
                /\ server[i] \in ServerSessions /\ server[i].task \in Task
                /\ \A b \in Blob : server[i].blob[b] \in Nat
           /\ \A t \in Task : sessionFor[t] \in 0..Len(server)
  <1>1. server \in Seq(ServerSessions) /\ Len(server) \in Nat
    BY DEF Typed, CloudOK
  <1>2. ASSUME NEW i \in 1 .. Len(server)
        PROVE  /\ server[i] \in ServerSessions /\ server[i].task \in Task
               /\ \A b \in Blob : server[i].blob[b] \in Nat
    <2>1. server[i] \in ServerSessions
      BY <1>1
    <2> QED
      BY <2>1 DEF ServerSessions
  <1> QED
    BY <1>1, <1>2 DEF Typed, CloudOK

\* of one call of getOrCreateSessionForTask,
LEMMA ShareType ==
    ASSUME Typed, NEW t \in Task
    PROVE  /\ sharing[t].session \in 0..Len(server)
           /\ sharing[t].pc \in HasRead => sharing[t].read \in Versions
           /\ Uploaded(t) => sharing[t].pc \in HasRead
           /\ Conversation \subseteq Blob
  BY ConstantsOK DEF Typed, CloudOK, Uploaded, HasRead, Conversation

\* and of one run at work.
LEMMA RunType ==
    ASSUME Typed, NEW s \in Sync
    PROVE  /\ run[s] \in RunStates /\ run[s].session \in Nat /\ run[s].names \subseteq Blob
           /\ \A b \in DOMAIN run[s].read : b \in Blob /\ run[s].read[b] \in Nat
           /\ \A b \in DOMAIN run[s].sending :
                /\ b \in Blob
                /\ run[s].sending[b].version \in Nat /\ run[s].sending[b].time \in Nat
  <1>1. run[s] \in RunStates /\ RunFits(run[s])
    BY DEF Typed, RunsOK, GoodRuns
  <1>2. run[s].session \in Nat /\ run[s].names \subseteq Blob
    BY <1>1 DEF RunStates
  <1>3. PICK B \in SUBSET Blob : run[s].read \in [B -> Nat]
    BY <1>1 DEF RunStates, Reads
  <1>4. PICK C \in SUBSET Blob : run[s].sending \in [C -> [version : Nat, time : Nat]]
    BY <1>1 DEF RunStates, Uploads
  <1> QED
    BY <1>1, <1>2, <1>3, <1>4

\* A run off its tasks, or with the same work and the same session on the server.
LEMMA SameWorkFits ==
    ASSUME Typed, NEW s \in Sync, RunFit(s), FileGrows, ServerGrows,
           run[s].pc \in OnTask => SameWork(s),
           run[s].pc \in OnTask /\ run[s].session # 0 =>
             \A b \in Blob : server'[run[s].session].blob[b] = server[run[s].session].blob[b],
           run[s].pc \in OnTask =>
             \A t \in Task : Uploaded(t)' => run[s].session # sharing'[t].session,
           run'[s].pc \in OnTask => run[s].pc \in OnTask, Typed'
    PROVE  RunFit(s)'
  <1> SUFFICES ASSUME run'[s].pc \in OnTask PROVE RunFit(s)'
    BY DEF RunFit
  <1>1. run[s].pc \in OnTask /\ SameWork(s)
    OBVIOUS
  <1>2. TaskOf(s) \in Task /\ TaskOf(s)' = TaskOf(s)
    BY <1>1, TaskOfGood DEF Typed, TaskOf, SameWork
  <1>3. Len(server) \in Nat /\ Len(server') \in Nat /\ Len(server) <= Len(server')
    BY DEF Typed, CloudOK, ServerGrows
  <1>4. run[s].session \in 0 .. Len(server)
    BY <1>1, <1>3, RunType DEF RunFit
  <1>5. ASSUME run[s].pc = "reading" PROVE Reading(s)'
    <2>1. run[s].session \in 1 .. Len(server) /\ Reading(s)
      BY <1>1, <1>3, <1>4, <1>5 DEF RunFit
    <2>2. ASSUME NEW b \in DOMAIN run[s].read
          PROVE  /\ run[s].read[b] <= file'[TaskOf(s)][b]
                 /\ run[s].read[b] = 0 \/ run[s].read[b] >= server'[run[s].session].blob[b]
      <3>1. b \in Blob /\ run[s].read[b] \in Nat
        BY RunType
      <3>2. file[TaskOf(s)][b] \in Nat /\ file'[TaskOf(s)][b] \in Nat
        BY <1>2, <3>1 DEF Typed, DiskOK
      <3> QED
        BY <1>1, <1>2, <2>1, <3>1, <3>2 DEF Reading, FileGrows
    <2> QED
      BY <1>1, <1>2, <2>2 DEF Reading, SameWork
  <1>6. ASSUME run[s].pc = "uploading" PROVE Uploading(s)'
    <2>1. run[s].session \in 1 .. Len(server) /\ Uploading(s)
      BY <1>1, <1>3, <1>4, <1>6 DEF RunFit
    <2>2. ASSUME NEW b \in DOMAIN run[s].sending
          PROVE  /\ 0 < run[s].sending[b].version
                 /\ run[s].sending[b].version <= file'[TaskOf(s)][b]
                 /\ run[s].sending[b].version >= server'[run[s].session].blob[b]
      <3>1. b \in Blob /\ run[s].sending[b].version \in Nat
        BY RunType
      <3>2. file[TaskOf(s)][b] \in Nat /\ file'[TaskOf(s)][b] \in Nat
        BY <1>2, <3>1 DEF Typed, DiskOK
      <3> QED
        BY <1>1, <1>2, <2>1, <3>1, <3>2 DEF Uploading, FileGrows
    <2> QED
      BY <1>1, <1>2, <2>2 DEF Uploading, SameWork
  <1>7. run[s].session # 0 => server'[run[s].session].task = TaskOf(s)
    BY <1>1, <1>3, <1>4 DEF RunFit, ServerGrows
  <1>8. run[s].session <= Len(server')
    BY <1>3, <1>4
  <1> QED
    BY <1>1, <1>2, <1>5, <1>6, <1>7, <1>8 DEF RunFit, SameWork

\* Only files grow: what the server has and what is on its way there still fits.
LEMMA CloudFitStays ==
    ASSUME Typed, Typed', CloudFit, FileGrows, UNCHANGED <<cloud, sharing>>
    PROVE  CloudFit' /\ ServerGrows
  <1>1. VersionsFit'
    <2> SUFFICES ASSUME NEW i \in 1 .. Len(server), NEW b \in Blob
                 PROVE  server[i].blob[b] <= file'[server[i].task][b]
      BY DEF VersionsFit, cloud
    <2>1. /\ server[i].blob[b] \in Nat /\ server[i].task \in Task
          /\ server[i].blob[b] <= file[server[i].task][b]
      BY ServerType DEF CloudFit, VersionsFit
    <2>2. /\ file[server[i].task][b] \in Nat /\ file'[server[i].task][b] \in Nat
          /\ file[server[i].task][b] <= file'[server[i].task][b]
      BY <2>1 DEF FileGrows, Typed, DiskOK
    <2> QED
      BY <2>1, <2>2
  <1>2. ASSUME NEW t \in Task PROVE ShareFit(t)'
    <2>1. ASSUME NEW b \in Conversation, sharing[t].pc \in HasRead
          PROVE  0 < sharing[t].read[b] /\ sharing[t].read[b] <= file'[t][b]
      <3>1. sharing[t].read[b] \in Nat /\ b \in Blob
        BY <2>1, ShareType DEF Versions
      <3>2. file[t][b] \in Nat /\ file'[t][b] \in Nat /\ file[t][b] <= file'[t][b]
        BY <3>1 DEF FileGrows, Typed, DiskOK
      <3> QED
        BY <2>1, <3>1, <3>2 DEF CloudFit, ShareFit
    <2> QED
      BY <2>1 DEF CloudFit, ShareFit, Uploaded, cloud
  <1>3. ServerGrows
    BY ServerType DEF cloud, ServerGrows
  <1> QED
    BY <1>1, <1>2, <1>3 DEF CloudFit, SessionsFit, cloud

\* A step that changes no session, and gives no run work, keeps the invariant.
LEMMA StillFits ==
    ASSUME Typed, Typed', NoneOlder, FileGrows, UNCHANGED <<cloud, sharing>>,
           \A s \in Sync : \/ RunFit(s)'
                           \/ /\ run[s].pc \in OnTask => SameWork(s)
                              /\ run'[s].pc \in OnTask => run[s].pc \in OnTask
    PROVE  NoneOlder' /\ ServerGrows
  <1>1. CloudFit' /\ ServerGrows
    BY CloudFitStays DEF NoneOlder
  <1>2. ASSUME NEW s \in Sync, run[s].pc \in OnTask => SameWork(s),
               run'[s].pc \in OnTask => run[s].pc \in OnTask
        PROVE  RunFit(s)'
    <2>1. RunFit(s) /\ server' = server /\ sharing' = sharing
      BY DEF NoneOlder, cloud
    <2>2. run[s].pc \in OnTask =>
             \A t \in Task : Uploaded(t)' => run[s].session # sharing'[t].session
      BY <2>1 DEF RunFit, Uploaded
    <2> QED
      BY <1>1, <1>2, <2>1, <2>2, SameWorkFits
  <1> QED
    BY <1>1, <1>2 DEF NoneOlder

\* A new session is empty, and those there were stay.
LEMMA AppendedServer ==
    ASSUME Typed, NEW t \in Task, server' = Append(server, Session(t))
    PROVE  /\ Len(server') = Len(server) + 1 /\ ServerGrows
           /\ \A i \in 1 .. Len(server) : server'[i] = server[i]
           /\ server'[Len(server')].task = t
           /\ \A b \in Blob : server'[Len(server')].blob[b] = 0
  <1>1. server \in Seq(ServerSessions) /\ Len(server) \in Nat
    BY ServerType
  <1>2. Session(t) \in ServerSessions /\ Session(t).task = t
        /\ \A b \in Blob : Session(t).blob[b] = 0
    BY DEF Session, ServerSessions
  <1>3. /\ Len(server') = Len(server) + 1
        /\ \A i \in 1 .. Len(server) : server'[i] = server[i]
        /\ server'[Len(server')] = Session(t)
    BY <1>1, <1>2
  <1>4. ServerGrows
    <2>1. \A i \in 1 .. Len(server), b \in Blob : server[i].blob[b] \in Nat
      BY ServerType
    <2> QED
      BY <1>1, <1>3, <2>1 DEF ServerGrows
  <1> QED
    BY <1>2, <1>3, <1>4

\* One file of one session is replaced.
LEMMA StoredServer ==
    ASSUME Typed, NEW id \in 1 .. Len(server), NEW b \in Blob, NEW v \in Nat,
           v >= server[id].blob[b], Stored(id, b, v)
    PROVE  /\ Len(server') = Len(server) /\ ServerGrows
           /\ \A i \in 1 .. Len(server), c \in Blob :
                server'[i].blob[c] = IF i = id /\ c = b THEN v ELSE server[i].blob[c]
  <1>1. server \in Seq(ServerSessions) /\ Len(server) \in Nat
    BY ServerType
  <1> DEFINE new == [server[id] EXCEPT !.blob[b] = v]
  <1>2. server' = [server EXCEPT ![id] = new]
    BY DEF Stored
  <1>3. server[id] \in ServerSessions
    BY <1>1
  <1>4. /\ new.task = server[id].task
        /\ \A c \in Blob : new.blob[c] = IF c = b THEN v ELSE server[id].blob[c]
    BY <1>3 DEF ServerSessions
  <1> HIDE DEF new
  <1>5. /\ Len(server') = Len(server)
        /\ \A i \in 1 .. Len(server) : server'[i] = IF i = id THEN new ELSE server[i]
    BY <1>1, <1>2
  <1>6. \A i \in 1 .. Len(server) : server'[i].task = server[i].task
    BY <1>4, <1>5
  <1>7. \A i \in 1 .. Len(server), c \in Blob :
          server'[i].blob[c] = IF i = id /\ c = b THEN v ELSE server[i].blob[c]
    BY <1>4, <1>5
  <1>8. \A i \in 1 .. Len(server), c \in Blob : server[i].blob[c] <= server'[i].blob[c]
    <2>1. \A i \in 1 .. Len(server), c \in Blob : server[i].blob[c] \in Nat
      BY ServerType
    <2> QED
      BY <1>7, <2>1
  <1> QED
    BY <1>1, <1>5, <1>6, <1>7, <1>8 DEF ServerGrows

\* The git state of a session is replaced: its files are not.
LEMMA GitServer ==
    ASSUME Typed, NEW id, NEW g, server' = [server EXCEPT ![id].git = g]
    PROVE  /\ Len(server') = Len(server) /\ ServerGrows
           /\ \A i \in 1 .. Len(server) : server'[i].blob = server[i].blob
  <1>1. server \in Seq(ServerSessions) /\ Len(server) \in Nat
    BY ServerType
  <1>2. CASE id \in 1 .. Len(server)
    <2> DEFINE new == [server[id] EXCEPT !.git = g]
    <2>1. server' = [server EXCEPT ![id] = new]
      OBVIOUS
    <2>2. server[id] \in ServerSessions
      BY <1>1, <1>2
    <2>3. new.task = server[id].task /\ new.blob = server[id].blob
      BY <2>2 DEF ServerSessions
    <2> HIDE DEF new
    <2>4. /\ Len(server') = Len(server)
          /\ \A i \in 1 .. Len(server) : server'[i] = IF i = id THEN new ELSE server[i]
      BY <1>1, <1>2, <2>1
    <2>5. \A i \in 1 .. Len(server) : server'[i].blob = server[i].blob
                                      /\ server'[i].task = server[i].task
      BY <2>3, <2>4
    <2>6. \A i \in 1 .. Len(server), c \in Blob : server[i].blob[c] \in Nat
      BY ServerType
    <2> QED
      BY <1>1, <2>4, <2>5, <2>6 DEF ServerGrows
  <1>3. CASE id \notin 1 .. Len(server)
    <2>1. server' = server
      BY <1>1, <1>3
    <2>2. \A i \in 1 .. Len(server), c \in Blob : server[i].blob[c] \in Nat
      BY ServerType
    <2> QED
      BY <1>1, <2>1, <2>2 DEF ServerGrows
  <1> QED
    BY <1>2, <1>3

\* Where every file of the server is as it was, or as new as one on disk, and
\* the new sessions are empty, what the server has still fits.
LEMMA VersionsFitNext ==
    ASSUME Typed, Typed', VersionsFit, ServerGrows, UNCHANGED file,
           \A i \in 1 .. Len(server), b \in Blob :
             \/ server'[i].blob[b] = server[i].blob[b]
             \/ server'[i].blob[b] <= file[server[i].task][b],
           \A i \in 1 .. Len(server'), b \in Blob :
             i > Len(server) => server'[i].blob[b] = 0
    PROVE  VersionsFit'
  <1> SUFFICES ASSUME NEW i \in 1 .. Len(server'), NEW b \in Blob
               PROVE  server'[i].blob[b] <= file[server'[i].task][b]
    BY DEF VersionsFit
  <1>1. Len(server) \in Nat /\ Len(server') \in Nat
    BY DEF Typed, CloudOK
  <1>2. CASE i \in 1 .. Len(server)
    BY <1>2 DEF VersionsFit, ServerGrows
  <1>3. CASE i \notin 1 .. Len(server)
    <2>1. server'[i].blob[b] = 0
      BY <1>1, <1>3
    <2>2. server'[i].task \in Task
      <3>1. server'[i] \in ServerSessions
        BY DEF Typed, CloudOK
      <3> QED
        BY <3>1 DEF ServerSessions
    <2>3. file[server'[i].task][b] \in Nat
      BY <2>2, FileType
    <2> QED
      BY <2>1, <2>3
  <1> QED
    BY <1>2, <1>3

\* A run changes the sessions, other than those the user's calls fill.
LEMMA CloudFitNext ==
    ASSUME Typed, Typed', CloudFit, ServerGrows, VersionsFit', UNCHANGED <<file, sharing>>,
           \A t \in Task : sessionFor'[t] # sessionFor[t] =>
             server'[sessionFor'[t]].task = t /\ sessionFor'[t] > Len(server),
           \A t \in Task : Uploaded(t) =>
             \A b \in Blob : server'[sharing[t].session].blob[b]
                               = server[sharing[t].session].blob[b]
    PROVE  CloudFit'
  <1>1. Len(server) \in Nat /\ Len(server') \in Nat /\ Len(server) <= Len(server')
    BY DEF Typed, CloudOK, ServerGrows
  <1>2. SessionsFit'
    <2> SUFFICES ASSUME NEW t \in Task, sessionFor'[t] # 0
                 PROVE  server'[sessionFor'[t]].task = t
      BY DEF SessionsFit
    <2>1. CASE sessionFor'[t] = sessionFor[t]
      <3>1. sessionFor[t] \in 1 .. Len(server)
        BY <2>1, <1>1, ServerType
      <3> QED
        BY <2>1, <3>1 DEF CloudFit, SessionsFit, ServerGrows
    <2> QED
      BY <2>1
  <1>3. ASSUME NEW t \in Task PROVE ShareFit(t)'
    <2>1. ShareFit(t) /\ sharing[t].session \in 0 .. Len(server)
      BY ShareType DEF CloudFit
    <2>2. ASSUME Uploaded(t)
          PROVE  /\ server'[sharing[t].session].task = t
                 /\ \A b \in Conversation :
                      server'[sharing[t].session].blob[b] <= sharing[t].read[b]
                 /\ \A u \in Task : sessionFor'[u] # sharing[t].session
      <3>1. sharing[t].session \in 1 .. Len(server)
        BY <1>1, <2>1, <2>2 DEF ShareFit
      <3>2. \A u \in Task : sessionFor'[u] # sharing[t].session
        <4>1. \A u \in Task : sessionFor[u] \in 0 .. Len(server)
                              /\ sessionFor'[u] \in 0 .. Len(server')
          BY DEF Typed, CloudOK
        <4> QED
          BY <1>1, <2>1, <2>2, <3>1, <4>1 DEF ShareFit
      <3>3. \A b \in Conversation :
              server'[sharing[t].session].blob[b] <= sharing[t].read[b]
        BY <2>1, <2>2, ShareType DEF ShareFit
      <3> QED
        BY <2>1, <2>2, <3>1, <3>2, <3>3 DEF ShareFit, ServerGrows
    <2>3. sharing[t].pc = "messages" => server'[sharing[t].session].blob[ApiHistory] > 0
      <3> HAVE sharing[t].pc = "messages"
      <3>1. Uploaded(t) /\ ApiHistory \in Blob
        BY ConstantsOK DEF Uploaded, Sending
      <3> QED
        BY <2>1, <3>1 DEF ShareFit
    <2> QED
      BY <2>1, <2>2, <2>3 DEF ShareFit, Uploaded
  <1> QED
    BY <1>2, <1>3 DEF CloudFit

\* The other runs are not at work, and stay so.
OnlyRun(s) == \A r \in Sync : r # s => run'[r].pc \notin OnTask

\* A step of the only run at work keeps the invariant if it keeps that run's part.
LEMMA RunChanges ==
    ASSUME NEW s \in Sync, CloudFit', RunFit(s)', OnlyRun(s)
    PROVE  NoneOlder'
  <1>1. ASSUME NEW r \in Sync PROVE RunFit(r)'
    BY DEF RunFit, OnlyRun
  <1> QED
    BY <1>1 DEF NoneOlder

-----------------------------------------------------------------------------
(* The steps and the versions on the server *)

\* While a run is at work, the others are idle, and stay so when it moves on.
LEMMA AloneAtWork ==
    ASSUME IInv, NEW s \in Sync, run[s].pc # "idle",
           \A r \in Sync : r # s => run'[r] = run[r]
    PROVE  OnlyRun(s)
  <1>1. \A r \in Sync : r # s => run[r].pc = "idle"
    BY DEF IInv, WorkIsPending
  <1> QED
    BY <1>1 DEF OnlyRun, OnTask

\* The next task, or the end, of a run: what it holds then.
LEMMA ProceedFits ==
    ASSUME Typed, Typed', NEW s \in Sync, NEW r \in RunStates, NEW todo \in Seq(Task),
           Proceed(s, r, todo), CloudFit'
    PROVE  /\ RunFit(s)' /\ \A q \in Sync : q # s => run'[q] = run[q]
  <1>0. run \in [Sync -> RunStates]
    BY DEF Typed, RunsOK, GoodRuns
  <1>1. CASE todo # <<>>
    <2> DEFINE t == Head(todo)
               new == [r EXCEPT !.pc = "session", !.todo = todo, !.session = sessionFor'[t],
                         !.names = {i.blob : i \in ToSet(taskIndex'[t])},
                         !.live = taskIndex'[t] # <<>>, !.read = <<>>, !.sending = <<>>]
    <2>1. run' = [run EXCEPT ![s] = new]
      BY <1>1 DEF Proceed
    <2>2. t \in Task /\ t = Head(todo)
      BY <1>1
    <2>3. new.pc = "session" /\ new.todo = todo /\ new.session = sessionFor'[t]
          /\ DOMAIN new.read = {}
      BY DEF RunStates
    <2> HIDE DEF new, t
    <2>4. run'[s] = new /\ \A q \in Sync : q # s => run'[q] = run[q]
      BY <1>0, <2>1
    <2>5. TaskOf(s)' = t
      BY <2>2, <2>3, <2>4 DEF TaskOf
    <2>6. sessionFor'[t] \in 0 .. Len(server') /\ Len(server') \in Nat
      BY <2>2 DEF Typed, CloudOK
    <2>7. sessionFor'[t] # 0 => server'[sessionFor'[t]].task = t
      BY <2>2 DEF CloudFit, SessionsFit
    <2>8. \A u \in Task : Uploaded(u)' => sessionFor'[t] # sharing'[u].session
      BY <2>2 DEF CloudFit, ShareFit
    <2> QED
      BY <2>3, <2>4, <2>5, <2>6, <2>7, <2>8 DEF RunFit
  <1>2. CASE todo = <<>>
    <2>1. run' = [run EXCEPT ![s] = Idle]
      BY <1>2 DEF Proceed, Settle
    <2>2. run'[s].pc = "idle" /\ \A q \in Sync : q # s => run'[q] = run[q]
      BY <1>0, <2>1 DEF Idle
    <2> QED
      BY <2>2 DEF RunFit, OnTask
  <1> QED
    BY <1>1, <1>2

\* A run that leaves its task, on the sessions there are, keeps the invariant.
LEMMA MovesOnFits ==
    ASSUME Typed, Typed', IInv, NEW s \in Sync, run[s].pc \in OnTask, NextTask(s), CloudFit'
    PROVE  NoneOlder'
  <1> DEFINE r == run[s]
             todo == Tail(r.todo)
  <1>1. r \in RunStates /\ RunFits(r)
    BY DEF Typed, RunsOK, GoodRuns
  <1>2. todo \in Seq(Task)
    BY <1>1 DEF RunStates, RunFits
  <1>3. Proceed(s, r, todo)
    BY DEF NextTask
  <1> HIDE DEF r, todo
  <1>4. RunFit(s)' /\ \A q \in Sync : q # s => run'[q] = run[q]
    BY <1>1, <1>2, <1>3, ProceedFits
  <1>5. OnlyRun(s)
    BY <1>4, AloneAtWork DEF OnTask
  <1> QED
    BY <1>4, <1>5, RunChanges

\* A save makes the file on disk newer, never the one on the server.
LEMMA SaveFileFits ==
    ASSUME Typed, Typed', NoneOlder, NEW t \in Task, NEW b \in Blob, SaveFile(t, b)
    PROVE  NoneOlder' /\ ServerGrows
  <1>1. FileGrows
    BY DEF SaveFile, FileGrows, Typed, DiskOK
  <1>2. \A s \in Sync : SameWork(s) /\ run'[s].pc = run[s].pc
    BY DEF SaveFile, SameWork
  <1> QED
    BY <1>1, <1>2, StillFits DEF SaveFile, SameWork

\* A run that begins has no task yet.
LEMMA BeginFits ==
    ASSUME NEW runs \in [Sync -> RunStates], Begin(runs), NEW r \in Sync
    PROVE  \/ r = NewSync /\ run'[r].pc = "token" /\ run[r].pc = "idle"
           \/ r # NewSync /\ run'[r] = runs[r]
  <1>1. NewSync \in Sync /\ run[NewSync].pc = "idle"
    BY DEF Begin, NewSync, FreeSync
  <1> QED
    BY <1>1 DEF Begin, Idle

\* A run that is told of a new item, and the others, keep their work.
LEMMA FileUpdatedSameWork ==
    ASSUME Typed, NEW t \in Task, NEW b \in Blob, FileUpdated(t, b), NEW s \in Sync
    PROVE  /\ run[s].pc \in OnTask => SameWork(s)
           /\ run'[s].pc \in OnTask => run[s].pc \in OnTask
  <1> DEFINE i == [task |-> t, blob |-> b, time |-> now', version |-> file[t][b]]
  <1>1. Begin(Seen(i)) \/ run' = Seen(i)
    BY DEF FileUpdated
  <1>2. i \in Items
    BY DEF Typed, DiskOK, Items, FileUpdated
  <1> HIDE DEF i
  <1>3. Seen(i) \in [Sync -> RunStates]
    BY <1>2, SeenGood DEF Typed, GoodRuns
  <1>4. run[s] \in RunStates
    BY DEF Typed, RunsOK, GoodRuns
  <1>5. /\ Seen(i)[s].pc = run[s].pc /\ Seen(i)[s].todo = run[s].todo
        /\ Seen(i)[s].session = run[s].session
        /\ Seen(i)[s].read = run[s].read /\ Seen(i)[s].sending = run[s].sending
    BY <1>4 DEF Seen, RunStates
  <1>6. \/ run[s].pc = "idle" /\ run'[s].pc = "token"
        \/ run'[s] = Seen(i)[s]
    BY <1>1, <1>3, BeginFits
  <1> QED
    BY <1>5, <1>6 DEF SameWork, OnTask

\* The message after a save changes no version.
LEMMA FileUpdatedFits ==
    ASSUME Typed, Typed', NoneOlder, NEW t \in Task, NEW b \in Blob, FileUpdated(t, b)
    PROVE  NoneOlder' /\ ServerGrows
  <1>1. UNCHANGED <<file, cloud, sharing>>
    BY DEF FileUpdated
  <1>2. FileGrows
    BY <1>1 DEF FileGrows, Typed, DiskOK
  <1> QED
    BY <1>1, <1>2, FileUpdatedSameWork, StillFits

\* A call of doSync begins a run or leaves the runs as they are.
LEMMA RequestsSameWork ==
    ASSUME Typed, RequestSync \/ \E f \in Forced : ForceSync(f) \/ ForcedResumes(f),
           NEW s \in Sync
    PROVE  /\ run[s].pc \in OnTask => SameWork(s)
           /\ run'[s].pc \in OnTask => run[s].pc \in OnTask
  <1>1. Begin(run) \/ UNCHANGED run
    BY DEF RequestSync, ForceSync, ForcedResumes
  <1>2. run \in [Sync -> RunStates]
    BY DEF Typed, RunsOK, GoodRuns
  <1>3. \/ run[s].pc = "idle" /\ run'[s].pc = "token"
        \/ run'[s] = run[s]
    BY <1>1, <1>2, BeginFits
  <1> QED
    BY <1>3 DEF SameWork, OnTask

\* So it changes no version.
LEMMA RequestsFit ==
    ASSUME Typed, Typed', NoneOlder,
           RequestSync \/ \E f \in Forced : ForceSync(f) \/ ForcedResumes(f)
    PROVE  NoneOlder' /\ ServerGrows
  <1>1. UNCHANGED <<file, cloud, sharing>>
    BY DEF RequestSync, ForceSync, ForcedResumes, disk
  <1>2. FileGrows
    BY <1>1 DEF FileGrows, Typed, DiskOK
  <1> QED
    BY <1>1, <1>2, RequestsSameWork, StillFits

\* One run changes and nothing on the server does.
LEMMA RunOnlyFits ==
    ASSUME Typed, Typed', IInv, NoneOlder, NEW s \in Sync, run[s].pc # "idle",
           UNCHANGED <<file, cloud, sharing>>,
           \A q \in Sync : q # s => run'[q] = run[q], RunFit(s)'
    PROVE  NoneOlder' /\ ServerGrows
  <1>1. FileGrows
    BY DEF FileGrows, Typed, DiskOK
  <1>2. CloudFit' /\ ServerGrows
    BY <1>1, CloudFitStays DEF NoneOlder
  <1> QED
    BY <1>2, AloneAtWork, RunChanges

\* After the token check a run reads the git state, or is over.
LEMMA TokenWork ==
    ASSUME Typed, NEW s \in Sync, TokenValid(s) \/ TokenInvalid(s)
    PROVE  /\ run'[s].pc \in {"git", "idle"}
           /\ \A q \in Sync : q # s => run'[q] = run[q]
  <1>1. run \in [Sync -> RunStates] /\ run[s] \in RunStates
    BY DEF Typed, RunsOK, GoodRuns
  <1>2. CASE TokenValid(s)
    <2> DEFINE new == [run[s] EXCEPT !.pc = "git", !.todo = UniqueTasks(items),
                         !.last = IF items = <<>> THEN NoTask ELSE Last(items).task]
    <2>1. run' = [run EXCEPT ![s] = new] /\ new.pc = "git"
      BY <1>1, <1>2 DEF TokenValid, RunStates
    <2> HIDE DEF new
    <2> QED
      BY <1>1, <2>1
  <1>3. CASE TokenInvalid(s)
    BY <1>1, <1>3 DEF TokenInvalid, Settle, Idle
  <1> QED
    BY <1>2, <1>3

\* The token check and the reading of the git state give the run its session.
LEMMA TokenFits ==
    ASSUME Typed, Typed', IInv, NoneOlder, NEW s \in Sync,
           TokenValid(s) \/ TokenInvalid(s) \/ GitStateRead(s)
    PROVE  NoneOlder' /\ ServerGrows
  <1>1. run \in [Sync -> RunStates] /\ run[s] \in RunStates
    BY DEF Typed, RunsOK, GoodRuns
  <1>2. UNCHANGED <<file, cloud, sharing>> /\ run[s].pc # "idle"
    BY DEF TokenValid, TokenInvalid, GitStateRead, disk
  <1>3. CASE TokenValid(s) \/ TokenInvalid(s)
    <2>1. /\ run'[s].pc \in {"git", "idle"}
          /\ \A q \in Sync : q # s => run'[q] = run[q]
      BY <1>3, TokenWork
    <2>2. RunFit(s)'
      BY <2>1 DEF RunFit, OnTask
    <2> QED
      BY <1>2, <2>1, <2>2, RunOnlyFits
  <1>4. CASE GitStateRead(s)
    <2> DEFINE r == [run[s] EXCEPT !.git = gitNow]
               todo == run[s].todo
    <2>1. Proceed(s, r, todo)
      BY <1>4 DEF GitStateRead
    <2>2. r \in RunStates /\ todo \in Seq(Task)
      BY <1>1 DEF RunStates, Typed, GitOK
    <2> HIDE DEF r, todo
    <2>3. CloudFit'
      BY <1>2, CloudFitStays DEF NoneOlder, FileGrows, Typed, DiskOK
    <2>4. RunFit(s)' /\ \A q \in Sync : q # s => run'[q] = run[q]
      BY <2>1, <2>2, <2>3, ProceedFits
    <2> QED
      BY <1>2, <2>4, RunOnlyFits
  <1> QED
    BY <1>3, <1>4

\* The update of a session leaves its files alone.
LEMMA SessionUpdatedFits ==
    ASSUME Typed, Typed', IInv, NoneOlder, NEW s \in Sync, SessionUpdated(s)
    PROVE  NoneOlder' /\ ServerGrows
  <1>1. run \in [Sync -> RunStates] /\ run[s] \in RunStates
    BY DEF Typed, RunsOK, GoodRuns
  <1>2. /\ UNCHANGED <<file, cloud, sharing>> /\ run[s].pc = "session" /\ run[s].session # 0
        /\ run' = [run EXCEPT ![s].pc = "reading", ![s].session = run[s].session,
                              ![s].live = FALSE]
    BY DEF SessionUpdated, StartReading, disk
  <1>3. /\ run'[s].pc = "reading" /\ run'[s].todo = run[s].todo
        /\ run'[s].session = run[s].session /\ run'[s].read = run[s].read
        /\ \A q \in Sync : q # s => run'[q] = run[q]
    BY <1>1, <1>2 DEF RunStates
  <1>4. /\ RunFit(s) /\ DOMAIN run[s].read = {} /\ server' = server /\ sharing' = sharing
        /\ TaskOf(s)' = TaskOf(s)
    BY <1>2, <1>3 DEF NoneOlder, RunFit, OnTask, cloud, TaskOf
  <1>5. Reading(s)'
    BY <1>3, <1>4 DEF Reading
  <1>6. RunFit(s)'
    BY <1>2, <1>3, <1>4, <1>5 DEF RunFit, OnTask, Uploaded
  <1> QED
    BY <1>2, <1>3, <1>6, RunOnlyFits

\* What a run knows after it has read one file, or failed to.
LEMMA ReadWork ==
    ASSUME Typed, NEW s \in Sync, NEW b \in Blob, FileRead(s, b) \/ FileUnreadable(s, b)
    PROVE  \E v \in {Unread, file[TaskOf(s)][b]} :
             /\ v = file[TaskOf(s)][b] \/ Fail
             /\ run'[s].pc = "reading" /\ run'[s].todo = run[s].todo
             /\ run'[s].session = run[s].session /\ run'[s].names = run[s].names
             /\ run'[s].sending = run[s].sending
             /\ run'[s].read = Known(run[s].read, b, v)
             /\ \A q \in Sync : q # s => run'[q] = run[q]
  <1>1. run \in [Sync -> RunStates] /\ run[s] \in RunStates /\ run[s].pc = "reading"
    BY DEF Typed, RunsOK, GoodRuns, FileRead, FileUnreadable
  <1>2. PICK v \in {Unread, file[TaskOf(s)][b]} :
          /\ v = file[TaskOf(s)][b] \/ Fail
          /\ run' = [run EXCEPT ![s].read = Known(@, b, v)]
    BY DEF FileRead, FileUnreadable
  <1> DEFINE read == Known(run[s].read, b, v)
             new == [run[s] EXCEPT !.read = read]
  <1>3. run' = [run EXCEPT ![s] = new]
    BY <1>2
  <1>4. /\ new.pc = run[s].pc /\ new.todo = run[s].todo /\ new.session = run[s].session
        /\ new.names = run[s].names /\ new.sending = run[s].sending /\ new.read = read
    <2> HIDE DEF read
    <2> QED
      BY <1>1 DEF RunStates
  <1> HIDE DEF new
  <1>5. run'[s] = new /\ \A q \in Sync : q # s => run'[q] = run[q]
    BY <1>1, <1>3
  <1> QED
    BY <1>1, <1>2, <1>4, <1>5

\* What is read from disk is no older than what the server has.
LEMMA ReadFits ==
    ASSUME Typed, Typed', IInv, NoneOlder, NEW s \in Sync, NEW b \in Blob,
           FileRead(s, b) \/ FileUnreadable(s, b)
    PROVE  NoneOlder' /\ ServerGrows
  <1>2. UNCHANGED <<file, cloud, sharing>> /\ run[s].pc = "reading"
    BY DEF FileRead, FileUnreadable, disk
  <1>4. PICK v \in {Unread, file[TaskOf(s)][b]} :
          /\ run'[s].pc = "reading" /\ run'[s].todo = run[s].todo
          /\ run'[s].session = run[s].session /\ run'[s].read = Known(run[s].read, b, v)
          /\ \A q \in Sync : q # s => run'[q] = run[q]
    BY ReadWork
  <1>5. /\ RunFit(s) /\ Reading(s) /\ server' = server /\ sharing' = sharing
        /\ TaskOf(s)' = TaskOf(s) /\ file' = file /\ TaskOf(s) \in Task
    BY <1>2, <1>4, TaskOfGood DEF NoneOlder, RunFit, OnTask, cloud, TaskOf, Typed
  <1>6. /\ v <= file[TaskOf(s)][b]
        /\ v = 0 \/ v >= server[run[s].session].blob[b]
    <2>1. file[TaskOf(s)][b] \in Nat
      BY <1>5, FileType
    <2>2. run[s].session \in 1 .. Len(server)
      BY <1>2, <1>5, RunType, ServerType DEF RunFit, OnTask
    <2>3. server[run[s].session].blob[b] <= file[TaskOf(s)][b]
      BY <1>2, <1>5, <2>2 DEF NoneOlder, CloudFit, VersionsFit, RunFit, OnTask
    <2>4. server[run[s].session].blob[b] \in Nat
      BY <2>2, ServerType
    <2> QED
      BY <2>1, <2>3, <2>4 DEF Unread
  <1>7. Reading(s)'
    <2>1. /\ DOMAIN run'[s].read = DOMAIN run[s].read \cup {b}
          /\ \A c \in DOMAIN run'[s].read :
               run'[s].read[c] = IF c = b THEN v ELSE run[s].read[c]
      BY <1>4 DEF Known
    <2> QED
      BY <1>4, <1>5, <1>6, <2>1 DEF Reading
  <1>8. RunFit(s)'
    BY <1>2, <1>4, <1>5, <1>7 DEF RunFit, OnTask, Uploaded
  <1> QED
    BY <1>2, <1>4, <1>8, RunOnlyFits

\* What is sent is what was read.
LEMMA UploadsStartFits ==
    ASSUME Typed, Typed', IInv, NoneOlder, NEW s \in Sync, UploadsStart(s)
    PROVE  NoneOlder' /\ ServerGrows
  <1>1. run \in [Sync -> RunStates] /\ run[s] \in RunStates
    BY DEF Typed, RunsOK, GoodRuns
  <1>2. UNCHANGED <<file, cloud, sharing>> /\ run[s].pc = "reading"
        /\ DOMAIN run[s].read = run[s].names
    BY DEF UploadsStart, disk
  <1> DEFINE t == TaskOf(s)
             sent == {b \in run[s].names : blobIndex[t][b] # NoItem /\ run[s].read[b] # Unread}
             sending == [b \in sent |-> [version |-> run[s].read[b], time |-> blobIndex[t][b].time]]
  <1>3. run' = [run EXCEPT ![s].pc = "uploading", ![s].sending = sending]
    BY DEF UploadsStart
  <1>4. /\ DOMAIN sending \subseteq DOMAIN run[s].read
        /\ \A b \in DOMAIN sending : /\ sending[b].version = run[s].read[b]
                                     /\ run[s].read[b] # Unread
    BY <1>2
  <1> HIDE DEF sending, sent, t
  <1>5. /\ run'[s].pc = "uploading" /\ run'[s].todo = run[s].todo
        /\ run'[s].session = run[s].session /\ run'[s].sending = sending
        /\ \A q \in Sync : q # s => run'[q] = run[q]
    BY <1>1, <1>3 DEF RunStates
  <1>6. /\ RunFit(s) /\ Reading(s) /\ server' = server /\ sharing' = sharing
        /\ TaskOf(s)' = TaskOf(s) /\ file' = file
    BY <1>2, <1>5 DEF NoneOlder, RunFit, OnTask, cloud, TaskOf
  <1>7. Uploading(s)'
    <2> SUFFICES ASSUME NEW b \in DOMAIN sending
                 PROVE  /\ 0 < sending[b].version
                        /\ sending[b].version <= file[TaskOf(s)][b]
                        /\ sending[b].version >= server[run[s].session].blob[b]
      BY <1>5, <1>6 DEF Uploading
    <2>1. run[s].read[b] \in Nat /\ b \in DOMAIN run[s].read
      BY <1>4, RunType
    <2> QED
      BY <1>4, <1>6, <2>1 DEF Reading, Unread
  <1>8. RunFit(s)'
    BY <1>2, <1>5, <1>6, <1>7 DEF RunFit, OnTask, Uploaded
  <1> QED
    BY <1>2, <1>5, <1>8, RunOnlyFits

\* The git state is no file of a task.
LEMMA GitChangesFits ==
    ASSUME Typed, Typed', NoneOlder, GitChanges \/ UNCHANGED vars
    PROVE  NoneOlder' /\ ServerGrows
  <1>1. UNCHANGED <<file, run, cloud, sharing>>
    BY DEF GitChanges, vars, disk
  <1>2. FileGrows
    BY <1>1 DEF FileGrows, Typed, DiskOK
  <1>3. \A s \in Sync : SameWork(s)
    BY <1>1 DEF SameWork
  <1> QED
    BY <1>1, <1>2, <1>3, StillFits DEF SameWork

\* A new session that is not yet that of a task.
LEMMA AppendFits ==
    ASSUME Typed, Typed', CloudFit, NEW t \in Task, server' = Append(server, Session(t)),
           UNCHANGED <<file, sharing>>,
           \/ UNCHANGED sessionFor
           \/ sessionFor' = [sessionFor EXCEPT ![t] = Len(server')]
    PROVE  CloudFit' /\ ServerGrows
  <1>1. /\ Len(server') = Len(server) + 1 /\ ServerGrows
        /\ \A i \in 1 .. Len(server) : server'[i] = server[i]
        /\ server'[Len(server')].task = t
        /\ \A b \in Blob : server'[Len(server')].blob[b] = 0
    BY AppendedServer
  <1>2. Len(server) \in Nat
    BY ServerType
  <1>3. VersionsFit'
    <2>1. \A i \in 1 .. Len(server'), b \in Blob :
             i > Len(server) => server'[i].blob[b] = 0
      <3>1. \A i \in 1 .. Len(server') : i > Len(server) => i = Len(server')
        BY <1>1, <1>2
      <3> QED
        BY <1>1, <3>1
    <2>2. VersionsFit
      BY DEF CloudFit
    <2> QED
      BY <1>1, <2>1, <2>2, VersionsFitNext
  <1>4. \A u \in Task : sessionFor'[u] # sessionFor[u] =>
             server'[sessionFor'[u]].task = u /\ sessionFor'[u] > Len(server)
    BY <1>1, <1>2 DEF Typed, CloudOK
  <1>5. ASSUME NEW u \in Task, Uploaded(u)
        PROVE  \A b \in Blob : server'[sharing[u].session].blob[b]
                                 = server[sharing[u].session].blob[b]
    <2>1. sharing[u].session \in 1 .. Len(server)
      BY <1>2, <1>5, ShareType DEF CloudFit, ShareFit
    <2> QED
      BY <1>1, <2>1
  <1> QED
    BY <1>1, <1>3, <1>4, <1>5, CloudFitNext

\* A new session has no files yet, and is nobody else's.
LEMMA SessionCreatedFits ==
    ASSUME Typed, Typed', IInv, NoneOlder, NEW s \in Sync, SessionCreated(s)
    PROVE  NoneOlder' /\ ServerGrows
  <1>1. run \in [Sync -> RunStates] /\ run[s] \in RunStates
    BY DEF Typed, RunsOK, GoodRuns
  <1>2. /\ UNCHANGED <<file, sharing>> /\ run[s].pc = "session" /\ run[s].pc \in OnTask
        /\ server' = Append(server, Session(TaskOf(s)))
        /\ sessionFor' = [sessionFor EXCEPT ![TaskOf(s)] = Len(server')]
        /\ run' = [run EXCEPT ![s].pc = "reading", ![s].session = Len(server'),
                              ![s].live = FALSE]
    BY DEF SessionCreated, StartReading, disk, OnTask
  <1>3. TaskOf(s) \in Task
    BY <1>2, TaskOfGood DEF Typed
  <1>4. CloudFit' /\ ServerGrows
    BY <1>2, <1>3, AppendFits DEF NoneOlder
  <1>5. /\ run'[s].pc = "reading" /\ run'[s].todo = run[s].todo
        /\ run'[s].session = Len(server') /\ run'[s].read = run[s].read
        /\ \A q \in Sync : q # s => run'[q] = run[q]
    BY <1>1, <1>2 DEF RunStates
  <1>6. /\ Len(server') = Len(server) + 1 /\ Len(server) \in Nat
        /\ server'[Len(server')].task = TaskOf(s)
    BY <1>2, <1>3, AppendedServer, ServerType
  <1>7. TaskOf(s)' = TaskOf(s) /\ DOMAIN run'[s].read = {}
    BY <1>2, <1>5 DEF NoneOlder, RunFit, TaskOf
  <1>8. \A t \in Task : Uploaded(t)' => Len(server') # sharing'[t].session
    <2>1. \A t \in Task : sharing[t].session \in 0 .. Len(server)
      BY ShareType
    <2> QED
      BY <1>2, <1>6, <2>1
  <1>9. RunFit(s)'
    BY <1>5, <1>6, <1>7, <1>8 DEF RunFit, Reading
  <1>10. OnlyRun(s)
    BY <1>2, <1>5, AloneAtWork
  <1> QED
    BY <1>4, <1>9, <1>10, RunChanges

\* A failed creation leaves at most a session that nobody has.
LEMMA SessionFailsFits ==
    ASSUME Typed, Typed', IInv, NoneOlder, NEW s \in Sync, SessionFails(s)
    PROVE  NoneOlder' /\ ServerGrows
  <1>1. /\ UNCHANGED <<file, sessionFor, sharing>> /\ run[s].pc \in OnTask /\ NextTask(s)
        /\ UNCHANGED server \/ server' = Append(server, Session(TaskOf(s)))
    BY DEF SessionFails, disk, OnTask
  <1>2. TaskOf(s) \in Task
    BY <1>1, TaskOfGood DEF Typed
  <1>3. CloudFit' /\ ServerGrows
    <2>1. CASE UNCHANGED server
      BY <1>1, <2>1, CloudFitStays DEF NoneOlder, FileGrows, Typed, DiskOK, cloud
    <2>2. CASE server' = Append(server, Session(TaskOf(s)))
      BY <1>1, <1>2, <2>2, AppendFits DEF NoneOlder
    <2> QED
      BY <1>1, <2>1, <2>2
  <1> QED
    BY <1>1, <1>3, MovesOnFits

\* An upload that was answered leaves what is being sent, and nothing else of
\* the work of its run changes.
LEMMA AnsweredWork ==
    ASSUME Typed, NEW s \in Sync, NEW b, NEW t, Answered(CutOff(t), s, b) \/ Answered(run, s, b)
    PROVE  /\ run'[s].pc = run[s].pc /\ run'[s].todo = run[s].todo
           /\ run'[s].session = run[s].session /\ run'[s].names = run[s].names
           /\ DOMAIN run'[s].sending = DOMAIN run[s].sending \ {b}
           /\ \A c \in DOMAIN run[s].sending \ {b} : run'[s].sending[c] = run[s].sending[c]
           /\ \A q \in Sync : run'[q].pc = run[q].pc
  <1>1. run \in [Sync -> RunStates]
    BY DEF Typed, RunsOK, GoodRuns
  <1>2. CutOff(t) \in [Sync -> RunStates]
    BY CutOffGood DEF Typed, GoodRuns
  <1>3. \A q \in Sync : /\ CutOff(t)[q].pc = run[q].pc /\ CutOff(t)[q].todo = run[q].todo
                        /\ CutOff(t)[q].session = run[q].session
                        /\ CutOff(t)[q].names = run[q].names
                        /\ CutOff(t)[q].sending = run[q].sending
    BY <1>1 DEF CutOff, RunStates
  <1>4. PICK runs \in [Sync -> RunStates] :
          /\ Answered(runs, s, b)
          /\ \A q \in Sync : /\ runs[q].pc = run[q].pc /\ runs[q].todo = run[q].todo
                             /\ runs[q].session = run[q].session
                             /\ runs[q].names = run[q].names
                             /\ runs[q].sending = run[q].sending
    BY <1>1, <1>2, <1>3
  <1> DEFINE rest == Restrict(runs[s].sending, DOMAIN runs[s].sending \ {b})
             new == [runs[s] EXCEPT !.sending = rest]
  <1>5. run' = [runs EXCEPT ![s] = new]
    BY <1>4 DEF Answered
  <1>6. /\ DOMAIN rest = DOMAIN runs[s].sending \ {b}
        /\ \A c \in DOMAIN runs[s].sending \ {b} : rest[c] = runs[s].sending[c]
    BY DEF Restrict
  <1> HIDE DEF rest
  <1>7. /\ new.pc = runs[s].pc /\ new.todo = runs[s].todo
        /\ new.session = runs[s].session /\ new.names = runs[s].names
        /\ new.sending = rest
    BY DEF RunStates
  <1> HIDE DEF new
  <1>8. run'[s] = new /\ \A q \in Sync : q # s => run'[q] = runs[q]
    BY <1>5
  <1> QED
    BY <1>4, <1>6, <1>7, <1>8

\* What an upload stores is no older than what it replaces.
LEMMA UploadAnsweredFits ==
    ASSUME Typed, Typed', IInv, NoneOlder, NEW s \in Sync, NEW b \in Blob,
           UploadReturns(s, b) \/ UploadFails(s, b)
    PROVE  NoneOlder' /\ ServerGrows
  <1> DEFINE id == run[s].session
             v == run[s].sending[b].version
  <1>1. run \in [Sync -> RunStates] /\ run[s] \in RunStates
    BY DEF Typed, RunsOK, GoodRuns
  <1>2. /\ UNCHANGED <<file, sessionFor, sharing>> /\ run[s].pc = "uploading"
        /\ run[s].pc \in OnTask /\ b \in DOMAIN run[s].sending
        /\ UNCHANGED server \/ Stored(id, b, v)
        /\ Answered(CutOff(TaskOf(s)), s, b) \/ Answered(run, s, b)
    BY DEF UploadReturns, UploadFails, disk, OnTask
  <1>3. RunFit(s) /\ Uploading(s) /\ TaskOf(s) \in Task /\ v \in Nat
    BY <1>2, TaskOfGood, RunType DEF NoneOlder, RunFit, Typed
  <1>4. id \in 1 .. Len(server) /\ server[id].task = TaskOf(s)
        /\ \A t \in Task : Uploaded(t) => id # sharing[t].session
    BY <1>2, <1>3, RunType, ServerType DEF RunFit
  <1>5. v >= server[id].blob[b] /\ v <= file[TaskOf(s)][b]
    BY <1>2, <1>3 DEF Uploading
  <1> HIDE DEF id, v
  <1>6. /\ Len(server') = Len(server) /\ ServerGrows
        /\ \A i \in 1 .. Len(server), c \in Blob :
             \/ server'[i].blob[c] = server[i].blob[c]
             \/ i = id /\ c = b /\ server'[i].blob[c] = v
    <2>1. CASE UNCHANGED server
      <3>1. \A i \in 1 .. Len(server), c \in Blob : server[i].blob[c] \in Nat
        BY ServerType
      <3> QED
        BY <2>1, <3>1, ServerType DEF ServerGrows
    <2>2. CASE Stored(id, b, v)
      BY <1>3, <1>4, <1>5, <2>2, StoredServer
    <2> QED
      BY <1>2, <2>1, <2>2
  <1>7. CloudFit'
    <2>1. VersionsFit'
      <3>1. VersionsFit /\ Len(server) \in Nat
        BY ServerType DEF NoneOlder, CloudFit
      <3> QED
        BY <1>2, <1>4, <1>5, <1>6, <3>1, VersionsFitNext
    <2>2. ASSUME NEW t \in Task, Uploaded(t)
          PROVE  \A c \in Blob : server'[sharing[t].session].blob[c]
                                   = server[sharing[t].session].blob[c]
      <3>1. sharing[t].session \in 1 .. Len(server)
        BY <2>2, ShareType, ServerType DEF NoneOlder, CloudFit, ShareFit
      <3> QED
        BY <1>4, <1>6, <2>2, <3>1
    <2> QED
      BY <1>2, <1>6, <2>1, <2>2, CloudFitNext DEF NoneOlder
  <1>8. /\ run'[s].pc = run[s].pc /\ run'[s].todo = run[s].todo
        /\ run'[s].session = run[s].session
        /\ DOMAIN run'[s].sending = DOMAIN run[s].sending \ {b}
        /\ \A c \in DOMAIN run[s].sending \ {b} : run'[s].sending[c] = run[s].sending[c]
        /\ \A q \in Sync : run'[q].pc = run[q].pc
    BY <1>2, AnsweredWork
  <1>9. Uploading(s)'
    <2> SUFFICES ASSUME NEW c \in DOMAIN run[s].sending \ {b}
                 PROVE  /\ 0 < run[s].sending[c].version
                        /\ run[s].sending[c].version <= file[TaskOf(s)][c]
                        /\ run[s].sending[c].version >= server'[id].blob[c]
      BY <1>2, <1>8 DEF Uploading, TaskOf, id
    <2>1. c \in Blob
      BY RunType
    <2>2. server'[id].blob[c] = server[id].blob[c]
      BY <1>4, <1>6, <2>1
    <2> QED
      BY <1>3, <2>2 DEF Uploading, id
  <1>10. RunFit(s)'
    <2>1. id <= Len(server') /\ id # 0 /\ server'[id].task = TaskOf(s)
      BY <1>4, <1>6, ServerType DEF ServerGrows
    <2>2. TaskOf(s)' = TaskOf(s) /\ run'[s].session = id /\ run'[s].pc = "uploading"
      BY <1>2, <1>8 DEF TaskOf, id
    <2> QED
      BY <1>2, <1>4, <1>9, <2>1, <2>2 DEF RunFit, Uploaded
  <1>11. OnlyRun(s)
    <2>1. \A q \in Sync : q # s => run[q].pc = "idle"
      BY <1>2 DEF IInv, WorkIsPending
    <2> QED
      BY <1>8, <2>1 DEF OnlyRun, OnTask
  <1> QED
    BY <1>6, <1>7, <1>10, <1>11, RunChanges

\* The last task of a run: uploads are done, and the git state may be sent.
LEMMA UploadsDoneFits ==
    ASSUME Typed, Typed', IInv, NoneOlder, NEW s \in Sync, UploadsDone(s)
    PROVE  NoneOlder' /\ ServerGrows
  <1>1. run \in [Sync -> RunStates] /\ run[s] \in RunStates
    BY DEF Typed, RunsOK, GoodRuns
  <1>2. UNCHANGED <<file, cloud, sharing>> /\ run[s].pc = "uploading" /\ run[s].pc \in OnTask
    BY DEF UploadsDone, disk, OnTask
  <1>3. CloudFit' /\ ServerGrows
    BY <1>2, CloudFitStays DEF NoneOlder, FileGrows, Typed, DiskOK
  <1>4. CASE NextTask(s)
    BY <1>2, <1>3, <1>4, MovesOnFits
  <1>5. CASE run' = [run EXCEPT ![s].pc = "git upload"]
    <2>1. /\ run'[s].pc = "git upload" /\ run'[s].todo = run[s].todo
          /\ run'[s].session = run[s].session
          /\ \A q \in Sync : q # s => run'[q] = run[q]
      BY <1>1, <1>5 DEF RunStates
    <2>2. RunFit(s) /\ TaskOf(s)' = TaskOf(s) /\ server' = server /\ sharing' = sharing
      BY <1>2, <2>1 DEF NoneOlder, TaskOf, cloud
    <2>3. RunFit(s)'
      BY <1>2, <2>1, <2>2 DEF RunFit, Uploaded
    <2> QED
      BY <1>2, <2>1, <2>3, RunOnlyFits
  <1> QED
    BY <1>4, <1>5 DEF UploadsDone

\* The upload of the git state leaves the files alone.
LEMMA GitUploadFits ==
    ASSUME Typed, Typed', IInv, NoneOlder, NEW s \in Sync, GitUploaded(s) \/ GitUploadFails(s)
    PROVE  NoneOlder' /\ ServerGrows
  <1>1. /\ UNCHANGED <<file, sessionFor, sharing>> /\ run[s].pc \in OnTask /\ NextTask(s)
        /\ \/ UNCHANGED server
           \/ server' = [server EXCEPT ![run[s].session].git = run[s].git]
    BY DEF GitUploaded, GitUploadFails, disk, cloud, OnTask
  <1>2. CloudFit' /\ ServerGrows
    <2>1. CASE UNCHANGED server
      BY <1>1, <2>1, CloudFitStays DEF NoneOlder, FileGrows, Typed, DiskOK, cloud
    <2>2. CASE server' = [server EXCEPT ![run[s].session].git = run[s].git]
      <3>1. /\ Len(server') = Len(server) /\ ServerGrows /\ Len(server) \in Nat
            /\ \A i \in 1 .. Len(server) : server'[i].blob = server[i].blob
        BY <2>2, GitServer, ServerType
      <3>2. VersionsFit'
        BY <1>1, <3>1, VersionsFitNext DEF NoneOlder, CloudFit
      <3>3. ASSUME NEW t \in Task, Uploaded(t)
            PROVE  \A b \in Blob : server'[sharing[t].session].blob[b]
                                     = server[sharing[t].session].blob[b]
        <4>1. sharing[t].session \in 1 .. Len(server)
          BY <3>1, <3>3, ShareType DEF NoneOlder, CloudFit, ShareFit
        <4> QED
          BY <3>1, <4>1
      <3> QED
        BY <1>1, <3>1, <3>2, <3>3, CloudFitNext DEF NoneOlder
    <2> QED
      BY <1>1, <2>1, <2>2
  <1> QED
    BY <1>1, <1>2, MovesOnFits

\* The runs are as they were, and none of them is on the session that changed.
LEMMA ShareLeavesRuns ==
    ASSUME Typed, Typed', NoneOlder, UNCHANGED <<file, run>>, CloudFit', ServerGrows,
           \A s \in Sync : run[s].pc \in OnTask =>
             /\ run[s].session # 0 =>
                  \A b \in Blob : server'[run[s].session].blob[b]
                                    = server[run[s].session].blob[b]
             /\ \A t \in Task : Uploaded(t)' => run[s].session # sharing'[t].session
    PROVE  NoneOlder'
  <1>1. FileGrows
    BY DEF FileGrows, Typed, DiskOK
  <1>2. ASSUME NEW s \in Sync PROVE RunFit(s)'
    BY <1>1, SameWorkFits DEF NoneOlder, SameWork
  <1> QED
    BY <1>2 DEF NoneOlder

\* The user's call looks at the task's session, or reads its files, or fails.
LEMMA ShareAloneFits ==
    ASSUME Typed, Typed', NoneOlder, NEW t \in Task,
           ShareFindsSession(t) \/ ShareFindsNone(t) \/ ShareReadsFiles(t) \/ ShareFails(t)
    PROVE  NoneOlder' /\ ServerGrows
  <1>1. UNCHANGED <<file, run, cloud>>
    BY DEF ShareFindsSession, ShareFindsNone, ShareReadsFiles, ShareFails, disk
  <1>2. sharing \in [Task -> Shares]
    BY DEF Typed, CloudOK
  <1>3. /\ sharing'[t].pc \in {"found", "loading", "failed", "creating"}
        /\ sharing'[t].pc = "creating" =>
             \A b \in Conversation : sharing'[t].read[b] = file[t][b] /\ file[t][b] > 0
        /\ \A u \in Task : u # t => sharing'[u] = sharing[u]
    <2>1. CASE ShareReadsFiles(t)
      BY <1>2, <2>1 DEF ShareReadsFiles, ShareStep
    <2>2. CASE ShareFindsSession(t) \/ ShareFindsNone(t) \/ ShareFails(t)
      BY <1>2, <2>2 DEF ShareFindsSession, ShareFindsNone, ShareFails, ShareStep
    <2> QED
      BY <2>1, <2>2
  <1>4. ServerGrows
    BY <1>1, ServerType DEF ServerGrows, cloud
  <1>5. ASSUME NEW u \in Task PROVE ShareFit(u)'
    <2>1. CASE u = t
      <3>1. \A b \in Conversation : file[t][b] \in Nat
        BY FileType, ShareType
      <3>2. /\ ~Uploaded(t)' /\ sharing'[t].pc # "messages"
            /\ sharing'[t].pc \in HasRead => sharing'[t].pc = "creating"
        BY <1>3 DEF Uploaded, HasRead, Sending
      <3> QED
        BY <1>1, <1>3, <2>1, <3>1, <3>2 DEF ShareFit
    <2>2. CASE u # t
      BY <1>1, <1>3, <2>2 DEF NoneOlder, CloudFit, ShareFit, Uploaded, cloud
    <2> QED
      BY <2>1, <2>2
  <1>6. CloudFit'
    BY <1>1, <1>5 DEF NoneOlder, CloudFit, VersionsFit, SessionsFit, cloud
  <1>7. ASSUME NEW s \in Sync, run[s].pc \in OnTask, NEW u \in Task, Uploaded(u)'
        PROVE  run[s].session # sharing'[u].session
    <2>1. u # t
      BY <1>3, <1>7 DEF Uploaded, Sending
    <2> QED
      BY <1>3, <1>7, <2>1 DEF NoneOlder, RunFit, Uploaded
  <1> QED
    BY <1>1, <1>4, <1>6, <1>7, ShareLeavesRuns DEF cloud

\* A session created on request is not the session of any run.
LEMMA ShareCreatesFits ==
    ASSUME Typed, Typed', NoneOlder, NEW t \in Task, ShareCreatesSession(t)
    PROVE  NoneOlder' /\ ServerGrows
  <1>1. UNCHANGED <<file, run, sessionFor>> /\ server' = Append(server, Session(t))
    BY DEF ShareCreatesSession, disk
  <1>2. sharing \in [Task -> Shares]
    BY DEF Typed, CloudOK
  <1>3. /\ sharing[t].pc = "creating" /\ sharing'[t].pc = "history"
        /\ sharing'[t].session = Len(server') /\ sharing'[t].read = sharing[t].read
        /\ \A u \in Task : u # t => sharing'[u] = sharing[u]
    BY <1>2 DEF ShareCreatesSession, ShareStep
  <1>4. /\ Len(server') = Len(server) + 1 /\ ServerGrows /\ Len(server) \in Nat
        /\ \A i \in 1 .. Len(server) : server'[i] = server[i]
        /\ server'[Len(server')].task = t
        /\ \A b \in Blob : server'[Len(server')].blob[b] = 0
    BY <1>1, AppendedServer, ServerType
  <1>5. VersionsFit'
    <2>1. \A i \in 1 .. Len(server'), b \in Blob :
             i > Len(server) => server'[i].blob[b] = 0
      <3>1. \A i \in 1 .. Len(server') : i > Len(server) => i = Len(server')
        BY <1>4
      <3> QED
        BY <1>4, <3>1
    <2>2. VersionsFit
      BY DEF NoneOlder, CloudFit
    <2> QED
      BY <1>1, <1>4, <2>1, <2>2, VersionsFitNext
  <1>6. \A u \in Task : sessionFor[u] \in 0 .. Len(server)
    BY ServerType
  <1>7. SessionsFit'
    BY <1>1, <1>4, <1>6 DEF NoneOlder, CloudFit, SessionsFit
  <1>8. ASSUME NEW u \in Task PROVE ShareFit(u)'
    <2>1. CASE u = t
      <3>1. \A b \in Conversation : /\ sharing[t].read[b] \in Nat /\ b \in Blob
                                     /\ 0 < sharing[t].read[b]
                                     /\ sharing[t].read[b] <= file[t][b]
        BY <1>3, ShareType DEF NoneOlder, CloudFit, ShareFit, HasRead, Versions
      <3>2. \A v \in Task : sessionFor'[v] # Len(server')
        BY <1>1, <1>4, <1>6
      <3>3. \A b \in Conversation : server'[Len(server')].blob[b] <= sharing[t].read[b]
        BY <1>4, <3>1
      <3> QED
        BY <1>1, <1>3, <1>4, <2>1, <3>1, <3>2, <3>3 DEF ShareFit, Uploaded
    <2>2. CASE u # t
      <3>1. ShareFit(u) /\ sharing[u].session \in 0 .. Len(server)
        BY ShareType DEF NoneOlder, CloudFit
      <3>2. Uploaded(u) => server'[sharing[u].session] = server[sharing[u].session]
        BY <1>4, <3>1 DEF ShareFit
      <3>3. sharing[u].pc = "messages" => Uploaded(u)
        BY DEF Uploaded, Sending
      <3> QED
        BY <1>1, <1>3, <2>2, <3>1, <3>2, <3>3 DEF ShareFit, Uploaded
    <2> QED
      BY <2>1, <2>2
  <1>9. ASSUME NEW s \in Sync, run[s].pc \in OnTask
        PROVE  /\ run[s].session # 0 =>
                    \A b \in Blob : server'[run[s].session].blob[b]
                                      = server[run[s].session].blob[b]
               /\ \A u \in Task : Uploaded(u)' => run[s].session # sharing'[u].session
    <2>1. run[s].session \in 0 .. Len(server)
      BY <1>4, <1>9, RunType DEF NoneOlder, RunFit
    <2>2. ASSUME NEW u \in Task, Uploaded(u)' PROVE run[s].session # sharing'[u].session
      <3>1. CASE u = t
        BY <1>3, <1>4, <2>1, <3>1
      <3>2. CASE u # t
        BY <1>3, <1>9, <2>2, <3>2 DEF NoneOlder, RunFit, Uploaded
      <3> QED
        BY <3>1, <3>2
    <2> QED
      BY <1>4, <2>1, <2>2
  <1> QED
    BY <1>1, <1>4, <1>5, <1>7, <1>8, <1>9, ShareLeavesRuns DEF CloudFit

\* The files uploaded to it replace nothing.
LEMMA ShareUploadsFits ==
    ASSUME Typed, Typed', NoneOlder, NEW t \in Task,
           ShareUploadsHistory(t) \/ ShareUploadsMessages(t)
    PROVE  NoneOlder' /\ ServerGrows
  <1> DEFINE id == sharing[t].session
             read == sharing[t].read
  <1>1. PICK b \in Conversation :
          /\ UNCHANGED <<file, run>> /\ Uploaded(t) /\ Stored(id, b, read[b])
          /\ \/ /\ b = ApiHistory /\ UNCHANGED sessionFor
                /\ sharing' = [sharing EXCEPT ![t] =
                                [pc |-> "messages", session |-> id, read |-> read]]
             \/ /\ sessionFor' = [sessionFor EXCEPT ![t] = id]
                /\ sharing' = [sharing EXCEPT ![t] =
                                [pc |-> "made", session |-> id, read |-> <<>>]]
    BY DEF ShareUploadsHistory, ShareUploadsMessages, ShareSends, ShareStep, disk, Uploaded,
           Sending, Conversation
  <1>2. sharing \in [Task -> Shares] /\ sessionFor \in [Task -> 0..Len(server)]
    BY DEF Typed, CloudOK
  <1>3. /\ \A u \in Task : u # t => sharing'[u] = sharing[u] /\ sessionFor'[u] = sessionFor[u]
        /\ \/ /\ b = ApiHistory /\ sessionFor'[t] = sessionFor[t]
              /\ sharing'[t] = [pc |-> "messages", session |-> id, read |-> read]
           \/ sharing'[t].pc = "made" /\ sessionFor'[t] = id
    BY <1>1, <1>2
  <1>4. /\ id \in 1 .. Len(server) /\ server[id].task = t /\ b \in Blob
        /\ \A c \in Conversation : /\ read[c] \in Nat /\ server[id].blob[c] <= read[c]
                                    /\ 0 < read[c] /\ read[c] <= file[t][c]
        /\ \A u \in Task : sessionFor[u] # id
    BY <1>1, ShareType, ServerType DEF NoneOlder, CloudFit, ShareFit, Versions
  <1>5. \A s \in Sync : run[s].pc \in OnTask => run[s].session # id
    BY <1>1 DEF NoneOlder, RunFit
  <1> HIDE DEF id, read
  <1>6. /\ Len(server') = Len(server) /\ ServerGrows /\ Len(server) \in Nat
        /\ \A i \in 1 .. Len(server), c \in Blob :
             server'[i].blob[c] = IF i = id /\ c = b THEN read[b] ELSE server[i].blob[c]
    BY <1>1, <1>4, StoredServer, ServerType
  <1>7. VersionsFit'
    <2>1. VersionsFit
      BY DEF NoneOlder, CloudFit
    <2>2. \A i \in 1 .. Len(server), c \in Blob :
             \/ server'[i].blob[c] = server[i].blob[c]
             \/ server'[i].blob[c] <= file[server[i].task][c]
      BY <1>4, <1>6
    <2> QED
      BY <1>1, <1>6, <2>1, <2>2, VersionsFitNext
  <1>8. SessionsFit'
    <2> SUFFICES ASSUME NEW u \in Task, sessionFor'[u] # 0
                 PROVE  server'[sessionFor'[u]].task = u
      BY DEF SessionsFit
    <2>1. CASE sessionFor'[u] = sessionFor[u]
      <3>1. sessionFor[u] \in 1 .. Len(server)
        BY <1>2, <1>6, <2>1
      <3> QED
        BY <1>6, <2>1, <3>1 DEF NoneOlder, CloudFit, SessionsFit, ServerGrows
    <2>2. CASE u = t /\ sessionFor'[t] = id
      BY <1>4, <1>6, <2>2 DEF ServerGrows
    <2> QED
      BY <1>3, <2>1, <2>2
  <1>9. ASSUME NEW u \in Task, Uploaded(u), u # t PROVE sharing[u].session # id
    <2>1. server[sharing[u].session].task = u
      BY <1>9 DEF NoneOlder, CloudFit, ShareFit
    <2> QED
      BY <1>4, <1>9, <2>1
  <1>10. ASSUME NEW u \in Task PROVE ShareFit(u)'
    <2>1. CASE sharing'[u].pc = "made"
      BY <2>1 DEF ShareFit, Uploaded, HasRead, Sending
    <2>2. CASE u = t /\ b = ApiHistory /\ sessionFor'[t] = sessionFor[t]
                /\ sharing'[t] = [pc |-> "messages", session |-> id, read |-> read]
      <3>1. \A c \in Conversation : server'[id].blob[c] <= read[c]
        BY <1>4, <1>6, ShareType
      <3>2. server'[id].blob[ApiHistory] > 0 /\ server'[id].task = t /\ id # 0
        BY <1>4, <1>6, <2>2 DEF ServerGrows
      <3>3. \A v \in Task : sessionFor'[v] # id
        BY <1>3, <1>4, <2>2
      <3> QED
        BY <1>1, <1>4, <2>2, <3>1, <3>2, <3>3 DEF ShareFit, Uploaded
    <2>3. CASE u # t
      <3>1. ShareFit(u) /\ sharing[u].session \in 0 .. Len(server) /\ sharing'[u] = sharing[u]
        BY <1>3, <2>3, ShareType DEF NoneOlder, CloudFit
      <3>2. ASSUME Uploaded(u)
            PROVE  /\ server'[sharing[u].session].task = u
                   /\ \A c \in Blob : server'[sharing[u].session].blob[c]
                                          = server[sharing[u].session].blob[c]
                   /\ \A v \in Task : sessionFor'[v] # sharing[u].session
        <4>1. sharing[u].session \in 1 .. Len(server) /\ sharing[u].session # id
          BY <1>6, <1>9, <2>3, <3>1, <3>2 DEF ShareFit
        <4> QED
          BY <1>3, <1>6, <3>1, <3>2, <4>1 DEF ShareFit, ServerGrows
      <3>3. /\ Conversation \subseteq Blob /\ ApiHistory \in Blob
            /\ sharing[u].pc = "messages" => Uploaded(u)
        BY ConstantsOK, ShareType DEF Uploaded, Sending
      <3> QED
        BY <1>1, <3>1, <3>2, <3>3 DEF ShareFit, Uploaded
    <2> QED
      BY <1>3, <2>1, <2>2, <2>3
  <1>11. ASSUME NEW s \in Sync, run[s].pc \in OnTask
         PROVE  /\ run[s].session # 0 =>
                     \A c \in Blob : server'[run[s].session].blob[c]
                                       = server[run[s].session].blob[c]
                /\ \A u \in Task : Uploaded(u)' => run[s].session # sharing'[u].session
    <2>1. run[s].session \in 0 .. Len(server) /\ run[s].session # id
      BY <1>5, <1>6, <1>11, RunType DEF NoneOlder, RunFit
    <2>2. ASSUME NEW u \in Task, Uploaded(u)' PROVE run[s].session # sharing'[u].session
      <3>1. CASE u = t
        BY <1>3, <2>1, <2>2, <3>1 DEF Uploaded, Sending
      <3>2. CASE u # t
        BY <1>3, <1>11, <2>2, <3>2 DEF NoneOlder, RunFit, Uploaded
      <3> QED
        BY <3>1, <3>2
    <2> QED
      BY <1>6, <2>1, <2>2
  <1> QED
    BY <1>1, <1>6, <1>7, <1>8, <1>10, <1>11, ShareLeavesRuns DEF CloudFit

\* No version is older at first,
LEMMA InitFits == Init => NoneOlder
  <1> SUFFICES ASSUME Init PROVE NoneOlder
    OBVIOUS
  <1>1. Len(server) = 0 /\ \A t \in Task : sessionFor[t] = 0 /\ sharing[t].pc = "uncalled"
    BY DEF Init
  <1>2. \A s \in Sync : run[s].pc = "idle"
    BY DEF Init, Idle
  <1>3. VersionsFit
    <2>1. 1 .. 0 = {}
      OBVIOUS
    <2> QED
      BY <1>1, <2>1 DEF VersionsFit
  <1>4. SessionsFit /\ \A t \in Task : ShareFit(t)
    BY <1>1 DEF SessionsFit, ShareFit, Uploaded, HasRead, Sending
  <1>5. \A s \in Sync : RunFit(s)
    BY <1>2 DEF RunFit, OnTask
  <1> QED
    BY <1>3, <1>4, <1>5 DEF NoneOlder, CloudFit

\* and no step makes one older.
LEMMA NextFits ==
    ASSUME Typed, Typed', IInv, NoneOlder, [Next]_vars
    PROVE  NoneOlder' /\ ServerGrows
  <1>1. ASSUME NEW s \in Sync, RunStep(s) PROVE NoneOlder' /\ ServerGrows
    BY <1>1, TokenFits, SessionUpdatedFits, SessionCreatedFits, ReadFits,
       UploadAnsweredFits, UploadsStartFits, UploadsDoneFits, GitUploadFits DEF RunStep
  <1>2. ASSUME NEW s \in Sync, RunFails(s) PROVE NoneOlder' /\ ServerGrows
    BY <1>2, TokenFits, SessionFailsFits, ReadFits, UploadAnsweredFits, GitUploadFits
       DEF RunFails
  <1>3. ASSUME NEW t \in Shared, Share(t) PROVE NoneOlder' /\ ServerGrows
    BY <1>3, ConstantsOK, ShareAloneFits, ShareCreatesFits, ShareUploadsFits DEF Share
  <1> QED
    BY <1>1, <1>2, <1>3, SaveFileFits, FileUpdatedFits, RequestsFit, GitChangesFits
       DEF Next

\* With one forced call at a time, an upload never replaces a file on the server
\* by an older one
THEOREM NeverGoesBack ==
    ASSUME OneForced
    PROVE  Spec => ServerNeverGoesBack
  <1>1. Init => Typed /\ IInv /\ NoneOlder
    BY InitTyped, InitHolds, InitFits
  <1>2. Typed /\ IInv /\ NoneOlder /\ [Next]_vars => (Typed /\ IInv /\ NoneOlder)'
    BY NextTyped, NextKeeps, NextFits
  <1>3. Typed /\ IInv /\ NoneOlder /\ [Next]_vars
          => [\A i \in 1..Len(server), b \in Blob :
                server'[i].blob[b] >= server[i].blob[b]]_vars
    <2> SUFFICES ASSUME Typed, IInv, NoneOlder, [Next]_vars,
                        NEW i \in 1..Len(server), NEW b \in Blob
                 PROVE  server'[i].blob[b] >= server[i].blob[b]
      OBVIOUS
    <2>1. Typed' /\ ServerGrows
      BY NextTyped, NextFits
    <2>2. server[i].blob[b] \in Nat
      BY ServerType
    <2>3. server'[i].blob[b] \in Nat
      <3>1. i \in 1 .. Len(server')
        BY <2>1, ServerType DEF Typed, CloudOK, ServerGrows
      <3>2. server'[i] \in ServerSessions
        BY <2>1, <3>1 DEF Typed, CloudOK
      <3> QED
        BY <3>2 DEF ServerSessions
    <2> QED
      BY <2>1, <2>2, <2>3 DEF ServerGrows
  <1> QED
    BY <1>1, <1>2, <1>3, PTL DEF Spec, ServerNeverGoesBack

-----------------------------------------------------------------------------
(* What was queued is queued or on the server *)

Sent(t, b) == file[t][b] > 0 /\ <<t, b>> \notin unsent
Queued(t, b) == \E i \in ToSet(items) : i.task = t /\ i.blob = b
InSession(t, b) == /\ sessionFor[t] # 0
                   /\ \/ server[sessionFor[t]].blob[b] > 0
                      \/ b \notin Conversation /\ MadeOnRequest(t)
AllQueued(t) == \A b \in Blob : Sent(t, b) => Queued(t, b)
Made(t) == /\ MadeOnRequest(t) /\ sessionFor[t] \in 1 .. Len(server)
           /\ \A b \in Conversation : server[sessionFor[t]].blob[b] > 0

WorkFit(s) ==
    run[s].pc \in OnTask =>
      /\ run[s].session = sessionFor[TaskOf(s)] \/ Made(TaskOf(s))
      /\ run[s].pc = "session" /\ run[s].session = 0 => AllQueued(TaskOf(s))
NothingLost == QueuedOrStored /\ \A s \in Sync : WorkFit(s)

\* A session made on request stays as it was made.
MadeStays == \A t \in Task : sharing[t].pc = "made" => sharing'[t] = sharing[t]

\* What was saved is queued when its message comes, and stays so.
Lossless ==
    \A t \in Task, b \in Blob : /\ Sent(t, b)' => Sent(t, b) \/ Queued(t, b)'
                                /\ Queued(t, b) => Queued(t, b)'

\* A step that changes neither files nor items has nothing to lose.
LEMMA QueueAloneLossless ==
    ASSUME UNCHANGED <<file, unsent, items>>
    PROVE  Lossless
  BY DEF Lossless, Sent, Queued

\* A file that is saved again was out of sight or is in sight still.
LEMMA SaveFileLossless ==
    ASSUME Typed, NEW t \in Task, NEW b \in Blob, SaveFile(t, b)
    PROVE  Lossless
  <1>1. /\ unsent' = unsent \cup {<<t, b>>} /\ items' = items
        /\ \A u \in Task, c \in Blob : <<u, c>> # <<t, b>> => file'[u][c] = file[u][c]
    BY DEF SaveFile, queue, Typed, DiskOK
  <1> QED
    BY <1>1 DEF Lossless, Sent, Queued

\* The message after a save brings its file in sight.
LEMMA FileUpdatedLossless ==
    ASSUME Typed, NEW t \in Task, NEW b \in Blob, FileUpdated(t, b)
    PROVE  Lossless
  <1> DEFINE i == [task |-> t, blob |-> b, time |-> now', version |-> file[t][b]]
  <1>1. /\ unsent' = unsent \ {<<t, b>>} /\ file' = file /\ items' = Append(items, i)
        /\ i.task = t /\ i.blob = b
    BY DEF FileUpdated, Enqueue
  <1>2. i \in Items /\ items \in Seq(Items)
    BY DEF Typed, DiskOK, QueueOK, Items, FileUpdated
  <1> HIDE DEF i
  <1>3. ToSet(items') = ToSet(items) \cup {i}
    BY <1>1, <1>2, ToSetAppend
  <1> QED
    BY <1>1, <1>3 DEF Lossless, Sent, Queued

\* What the session of a task has, it keeps.
LEMMA InSessionGrows ==
    ASSUME Typed, Typed', ServerGrows, MadeStays, NEW t \in Task, NEW b \in Blob, InSession(t, b),
           sessionFor'[t] = sessionFor[t]
    PROVE  InSession(t, b)'
  <1>1. sessionFor[t] \in 1 .. Len(server) /\ server[sessionFor[t]].blob[b] \in Nat
    BY ServerType DEF InSession
  <1>2. server'[sessionFor[t]].blob[b] \in Nat
    <2>1. sessionFor[t] \in 1 .. Len(server')
      BY <1>1 DEF ServerGrows, Typed, CloudOK
    <2>2. server'[sessionFor[t]] \in ServerSessions
      BY <2>1 DEF Typed, CloudOK
    <2> QED
      BY <2>2 DEF ServerSessions
  <1> QED
    BY <1>1, <1>2 DEF InSession, ServerGrows, MadeOnRequest, MadeStays

\* A session made on request keeps the files of the conversation.
LEMMA MadeGrows ==
    ASSUME Typed, Typed', ServerGrows, MadeStays, NEW t \in Task, Made(t),
           sessionFor'[t] = sessionFor[t]
    PROVE  Made(t)'
  <1> DEFINE i == sessionFor[t]
  <1>1. i \in 1 .. Len(server) /\ i \in 1 .. Len(server')
    BY DEF Made, ServerGrows, Typed, CloudOK
  <1>2. server'[i] \in ServerSessions
    BY <1>1 DEF Typed, CloudOK
  <1>3. \A b \in Blob : server[i].blob[b] \in Nat /\ server'[i].blob[b] \in Nat
    BY <1>1, <1>2, ServerType DEF ServerSessions
  <1>4. \A b \in Conversation : server'[i].blob[b] > 0
    BY <1>1, <1>3, ShareType DEF Made, ServerGrows
  <1> QED
    BY <1>1, <1>4 DEF Made, MadeOnRequest, MadeStays

\* Nothing leaves the queue, and a task gets another session only when that one
\* was made on request, or when its files are all queued.
LEMMA LosslessKeeps ==
    ASSUME Typed, Typed', ServerGrows, MadeStays, Lossless, QueuedOrStored,
           \A t \in Task : \/ sessionFor'[t] = sessionFor[t]
                           \/ Made(t)'
                           \/ AllQueued(t)
    PROVE  QueuedOrStored'
  <1> SUFFICES ASSUME NEW t \in Task, NEW b \in Blob, Sent(t, b)'
               PROVE  Queued(t, b)' \/ InSession(t, b)'
    BY DEF QueuedOrStored, Sent, Queued, InSession
  <1>1. CASE Queued(t, b)'
    BY <1>1
  <1>2. CASE Sent(t, b) /\ ~Queued(t, b)'
    <2>1. InSession(t, b) /\ ~Queued(t, b)
      BY <1>2 DEF QueuedOrStored, Sent, Queued, InSession, Lossless
    <2>2. CASE sessionFor'[t] = sessionFor[t]
      BY <2>1, <2>2, InSessionGrows
    <2>3. CASE Made(t)'
      BY <2>3 DEF Made, InSession
    <2>4. CASE AllQueued(t)
      BY <1>2, <2>1, <2>4 DEF AllQueued
    <2> QED
      BY <2>2, <2>3, <2>4
  <1> QED
    BY <1>1, <1>2 DEF Lossless

\* A run that keeps its work has what it needs for it, still.
LEMMA SameWorkKeeps ==
    ASSUME Typed, Typed', ServerGrows, MadeStays, Lossless, NEW s \in Sync, WorkFit(s),
           run[s].pc \in OnTask => SameWork(s),
           run'[s].pc \in OnTask => run[s].pc \in OnTask,
           \A t \in Task : sessionFor'[t] = sessionFor[t] \/ Made(t)'
    PROVE  WorkFit(s)'
  <1> SUFFICES ASSUME run'[s].pc \in OnTask PROVE WorkFit(s)'
    BY DEF WorkFit
  <1>1. run[s].pc \in OnTask /\ SameWork(s) /\ TaskOf(s) \in Task /\ TaskOf(s)' = TaskOf(s)
    BY TaskOfGood DEF Typed, SameWork, TaskOf
  <1>2. PICK t \in Task : t = TaskOf(s) /\ t = TaskOf(s)'
    BY <1>1
  <1>3. run[s].session = sessionFor[t] \/ Made(t)
    BY <1>1, <1>2 DEF WorkFit
  <1>4. run[s].session = sessionFor'[t] \/ Made(t)'
    BY <1>3, MadeGrows
  <1>5. ASSUME AllQueued(t) PROVE AllQueued(t)'
    BY <1>5 DEF AllQueued, Lossless
  <1>6. run[s].pc = "session" /\ run[s].session = 0 => AllQueued(t)'
    BY <1>1, <1>2, <1>5 DEF WorkFit, AllQueued
  <1> QED
    BY <1>1, <1>2, <1>4, <1>6 DEF WorkFit, SameWork, AllQueued, Made

\* A run that goes on with a session that is there.
LEMMA GoesOnKeeps ==
    ASSUME Typed, Typed', ServerGrows, MadeStays, NEW s \in Sync, WorkFit(s), run[s].pc \in OnTask,
           run'[s].todo = run[s].todo, run'[s].session = run[s].session,
           run'[s].pc # "session", UNCHANGED sessionFor
    PROVE  WorkFit(s)'
  <1>1. TaskOf(s) \in Task /\ TaskOf(s)' = TaskOf(s)
    BY TaskOfGood DEF Typed, TaskOf
  <1>2. PICK t \in Task : t = TaskOf(s) /\ t = TaskOf(s)'
    BY <1>1
  <1>3. run[s].session = sessionFor[t] \/ Made(t)
    BY <1>2 DEF WorkFit
  <1>4. run[s].session = sessionFor[t] \/ Made(t)'
    BY <1>3, MadeGrows
  <1> QED
    BY <1>2, <1>4 DEF WorkFit, Made

\* A run that takes a task whose session is not known finds its files queued.
LEMMA ProceedStores ==
    ASSUME Typed, Typed', NEW s \in Sync, NEW r \in RunStates, NEW todo \in Seq(Task),
           Proceed(s, r, todo), QueuedOrStored'
    PROVE  WorkFit(s)' /\ \A q \in Sync : q # s => run'[q] = run[q]
  <1>0. run \in [Sync -> RunStates]
    BY DEF Typed, RunsOK, GoodRuns
  <1>1. CASE todo # <<>>
    <2> DEFINE t == Head(todo)
               new == [r EXCEPT !.pc = "session", !.todo = todo, !.session = sessionFor'[t],
                         !.names = {i.blob : i \in ToSet(taskIndex'[t])},
                         !.live = taskIndex'[t] # <<>>, !.read = <<>>, !.sending = <<>>]
    <2>1. run' = [run EXCEPT ![s] = new]
      BY <1>1 DEF Proceed
    <2>2. t \in Task /\ t = Head(todo)
      BY <1>1
    <2>3. new.pc = "session" /\ new.todo = todo /\ new.session = sessionFor'[t]
      BY DEF RunStates
    <2> HIDE DEF new, t
    <2>4. run'[s] = new /\ \A q \in Sync : q # s => run'[q] = run[q]
      BY <1>0, <2>1
    <2>5. TaskOf(s)' = t
      BY <2>2, <2>3, <2>4 DEF TaskOf
    <2>6. sessionFor'[t] = 0 => AllQueued(t)'
      BY <2>2 DEF QueuedOrStored, AllQueued, Sent, Queued
    <2> QED
      BY <2>3, <2>4, <2>5, <2>6 DEF WorkFit, AllQueued
  <1>2. CASE todo = <<>>
    <2>1. run' = [run EXCEPT ![s] = Idle]
      BY <1>2 DEF Proceed, Settle
    <2>2. run'[s].pc = "idle" /\ \A q \in Sync : q # s => run'[q] = run[q]
      BY <1>0, <2>1 DEF Idle
    <2> QED
      BY <2>2 DEF WorkFit, OnTask
  <1> QED
    BY <1>1, <1>2

\* A step that neither the runs nor the tasks' sessions take part in.
LEMMA StillStored ==
    ASSUME Typed, Typed', ServerGrows, MadeStays, Lossless, NothingLost,
           \A s \in Sync : /\ run[s].pc \in OnTask => SameWork(s)
                           /\ run'[s].pc \in OnTask => run[s].pc \in OnTask,
           \A t \in Task : sessionFor'[t] = sessionFor[t] \/ Made(t)'
    PROVE  NothingLost'
  <1>1. QueuedOrStored'
    BY LosslessKeeps DEF NothingLost
  <1>2. ASSUME NEW s \in Sync PROVE WorkFit(s)'
    BY SameWorkKeeps DEF NothingLost
  <1> QED
    BY <1>1, <1>2 DEF NothingLost

\* The steps of the disk lose nothing,
LEMMA DiskStored ==
    ASSUME Typed, Typed', ServerGrows, MadeStays, NothingLost, NEW t \in Task, NEW b \in Blob,
           SaveFile(t, b) \/ FileUpdated(t, b)
    PROVE  NothingLost'
  <1>1. Lossless
    BY SaveFileLossless, FileUpdatedLossless
  <1>2. UNCHANGED sessionFor
    BY DEF SaveFile, FileUpdated, cloud
  <1>3. \A s \in Sync : /\ run[s].pc \in OnTask => SameWork(s)
                        /\ run'[s].pc \in OnTask => run[s].pc \in OnTask
    <2>1. CASE SaveFile(t, b)
      BY <2>1 DEF SaveFile, SameWork
    <2>2. CASE FileUpdated(t, b)
      BY <2>2, FileUpdatedSameWork
    <2> QED
      BY <2>1, <2>2
  <1> QED
    BY <1>1, <1>2, <1>3, StillStored

\* nor do the calls of doSync,
LEMMA RequestsStored ==
    ASSUME Typed, Typed', ServerGrows, MadeStays, NothingLost,
           RequestSync \/ \E f \in Forced : ForceSync(f) \/ ForcedResumes(f)
    PROVE  NothingLost'
  <1>1. UNCHANGED <<file, unsent, items, sessionFor>>
    BY DEF RequestSync, ForceSync, ForcedResumes, disk, queue, cloud
  <1>2. Lossless
    BY <1>1, QueueAloneLossless
  <1> QED
    BY <1>1, <1>2, RequestsSameWork, StillStored

\* nor the steps that leave queue and runs alone,
LEMMA OthersStored ==
    ASSUME Typed, Typed', ServerGrows, MadeStays, NothingLost, GitChanges \/ UNCHANGED vars
    PROVE  NothingLost'
  <1>1. UNCHANGED <<file, unsent, items, sessionFor, run>>
    BY DEF GitChanges, vars, disk, queue, cloud
  <1>2. Lossless
    BY <1>1, QueueAloneLossless
  <1>3. \A s \in Sync : SameWork(s)
    BY <1>1 DEF SameWork
  <1> QED
    BY <1>1, <1>2, <1>3, StillStored DEF SameWork

\* A step of the user's call ends with the second upload, or leaves alone the
\* sessions of the tasks; what it has made stays.
LEMMA ShareMakes ==
    ASSUME Typed, NEW t \in Task, Share(t)
    PROVE  /\ MadeStays
           /\ ShareUploadsMessages(t) \/ UNCHANGED sessionFor
  <1>1. sharing \in [Task -> Shares]
    BY DEF Typed, CloudOK
  <1>2. PICK from, to, id, read : ShareStep(t, from, to, id, read) /\ from # "made"
    BY DEF Share, ShareFindsSession, ShareFindsNone, ShareReadsFiles, ShareCreatesSession,
           ShareUploadsHistory, ShareUploadsMessages, ShareFails
  <1>3. MadeStays
    BY <1>1, <1>2 DEF ShareStep, MadeStays
  <1> QED
    BY <1>3 DEF Share, ShareFindsSession, ShareFindsNone, ShareReadsFiles,
           ShareCreatesSession, ShareUploadsHistory, ShareFails, cloud

\* The session a user's call makes becomes the task's when it has both files of
\* the conversation.
LEMMA ShareStored ==
    ASSUME Typed, Typed', ServerGrows, NoneOlder, NothingLost, NEW t \in Task, Share(t)
    PROVE  NothingLost'
  <1>1. UNCHANGED <<file, unsent, items, run>>
    BY DEF Share, ShareFindsSession, ShareFindsNone, ShareReadsFiles, ShareCreatesSession,
           ShareUploadsHistory, ShareUploadsMessages, ShareFails, disk, queue
  <1>2. Lossless /\ MadeStays
    BY <1>1, QueueAloneLossless, ShareMakes
  <1>3. \A s \in Sync : SameWork(s)
    BY <1>1 DEF SameWork
  <1>4. ASSUME NEW u \in Task PROVE sessionFor'[u] = sessionFor[u] \/ Made(u)'
    <2>1. CASE ShareUploadsMessages(t)
      <3> DEFINE id == sharing[t].session
                 v == sharing[t].read[UiMessages]
      <3>1. /\ sharing[t].pc = "messages" /\ Uploaded(t) /\ Stored(id, UiMessages, v)
            /\ sessionFor' = [sessionFor EXCEPT ![t] = id]
            /\ sharing' = [sharing EXCEPT ![t] =
                             [pc |-> "made", session |-> id, read |-> <<>>]]
        BY <2>1 DEF ShareUploadsMessages, ShareSends, ShareStep, Uploaded, Sending
      <3>2. UiMessages \in Conversation /\ ApiHistory \in Blob /\ UiMessages \in Blob
        BY ConstantsOK DEF Conversation
      <3>3. /\ id \in 1 .. Len(server) /\ v \in Nat /\ v > 0
            /\ v >= server[id].blob[UiMessages] /\ server[id].blob[ApiHistory] > 0
        BY <3>1, <3>2, ShareType, ServerType DEF NoneOlder, CloudFit, ShareFit, Versions
      <3>4. sessionFor'[t] = id /\ sharing'[t].pc = "made" /\ sharing'[t].session = id
            /\ \A w \in Task : w # t => sessionFor'[w] = sessionFor[w]
        BY <3>1 DEF Typed, CloudOK
      <3> HIDE DEF id, v
      <3>5. /\ Len(server') = Len(server)
            /\ \A c \in Blob : server'[id].blob[c] =
                  IF c = UiMessages THEN v ELSE server[id].blob[c]
        BY <3>1, <3>2, <3>3, StoredServer
      <3>6. \A c \in Conversation : server'[id].blob[c] > 0
        BY <3>2, <3>3, <3>5 DEF Conversation
      <3> QED
        BY <3>3, <3>4, <3>5, <3>6 DEF Made, MadeOnRequest
    <2> QED
      BY <2>1, ShareMakes
  <1> QED
    BY <1>1, <1>2, <1>3, <1>4, StillStored DEF SameWork

\* The other runs are off their tasks.
LEMMA RunStores ==
    ASSUME NEW s \in Sync, QueuedOrStored', WorkFit(s)', OnlyRun(s)
    PROVE  NothingLost'
  <1>1. ASSUME NEW r \in Sync PROVE WorkFit(r)'
    BY DEF WorkFit, OnlyRun
  <1> QED
    BY <1>1 DEF NothingLost

\* A run changes and neither the queue nor the sessions of the tasks do.
LEMMA RunAloneStored ==
    ASSUME Typed, Typed', ServerGrows, MadeStays, IInv, NothingLost, NEW s \in Sync,
           run[s].pc # "idle", UNCHANGED <<file, unsent, items, sessionFor>>,
           \A q \in Sync : q # s => run'[q].pc = run[q].pc,
           \/ WorkFit(s)'
           \/ /\ run[s].pc \in OnTask /\ run'[s].pc # "session"
              /\ run'[s].todo = run[s].todo /\ run'[s].session = run[s].session
    PROVE  NothingLost'
  <1>1. QueuedOrStored'
    BY QueueAloneLossless, LosslessKeeps DEF NothingLost
  <1>2. WorkFit(s)'
    BY GoesOnKeeps DEF NothingLost
  <1>3. OnlyRun(s)
    BY DEF IInv, WorkIsPending, OnlyRun, OnTask
  <1> QED
    BY <1>1, <1>2, <1>3, RunStores

\* nor a run that leaves its task,
LEMMA MovesOnStored ==
    ASSUME Typed, Typed', ServerGrows, MadeStays, IInv, NothingLost, NEW s \in Sync,
           run[s].pc \in OnTask, UNCHANGED <<file, unsent, items, sessionFor>>, NextTask(s)
    PROVE  NothingLost'
  <1> DEFINE r == run[s]
             todo == Tail(r.todo)
  <1>1. r \in RunStates /\ RunFits(r)
    BY DEF Typed, RunsOK, GoodRuns
  <1>2. todo \in Seq(Task) /\ run[s].pc # "idle"
    <2>1. run[s].pc # "idle"
      BY DEF OnTask
    <2> QED
      BY <1>1, <2>1 DEF RunStates, RunFits
  <1>3. Proceed(s, r, todo)
    BY DEF NextTask
  <1>4. QueuedOrStored'
    BY QueueAloneLossless, LosslessKeeps DEF NothingLost
  <1> HIDE DEF r, todo
  <1>5. WorkFit(s)' /\ \A q \in Sync : q # s => run'[q] = run[q]
    BY <1>1, <1>2, <1>3, <1>4, ProceedStores
  <1> QED
    BY <1>2, <1>5, RunAloneStored

\* nor the token check,
LEMMA TokenStored ==
    ASSUME Typed, Typed', ServerGrows, MadeStays, IInv, NothingLost, NEW s \in Sync,
           TokenValid(s) \/ TokenInvalid(s) \/ GitStateRead(s)
    PROVE  NothingLost'
  <1>1. run \in [Sync -> RunStates] /\ run[s] \in RunStates
    BY DEF Typed, RunsOK, GoodRuns
  <1>2. UNCHANGED <<file, unsent, items, sessionFor>> /\ run[s].pc # "idle"
    BY DEF TokenValid, TokenInvalid, GitStateRead, disk, queue, cloud
  <1>3. CASE TokenValid(s) \/ TokenInvalid(s)
    <2>1. /\ run'[s].pc \in {"git", "idle"}
          /\ \A q \in Sync : q # s => run'[q] = run[q]
      BY <1>1, <1>3, TokenWork
    <2>2. WorkFit(s)'
      BY <2>1 DEF WorkFit, OnTask
    <2> QED
      BY <1>2, <2>1, <2>2, RunAloneStored
  <1>4. CASE GitStateRead(s)
    <2> DEFINE r == [run[s] EXCEPT !.git = gitNow]
               todo == run[s].todo
    <2>1. Proceed(s, r, todo)
      BY <1>4 DEF GitStateRead
    <2>2. r \in RunStates /\ todo \in Seq(Task)
      BY <1>1 DEF RunStates, Typed, GitOK
    <2> HIDE DEF r, todo
    <2>3. QueuedOrStored'
      BY <1>2, QueueAloneLossless, LosslessKeeps DEF NothingLost
    <2>4. WorkFit(s)' /\ \A q \in Sync : q # s => run'[q] = run[q]
      BY <2>1, <2>2, <2>3, ProceedStores
    <2> QED
      BY <1>2, <2>4, RunAloneStored
  <1> QED
    BY <1>3, <1>4

\* nor the update or creation of a session,
LEMMA SessionStored ==
    ASSUME Typed, Typed', ServerGrows, MadeStays, IInv, NothingLost, NEW s \in Sync,
           SessionUpdated(s) \/ SessionCreated(s) \/ SessionFails(s)
    PROVE  NothingLost'
  <1>1. run \in [Sync -> RunStates] /\ run[s] \in RunStates
    BY DEF Typed, RunsOK, GoodRuns
  <1>2. UNCHANGED <<file, unsent, items>> /\ run[s].pc = "session" /\ run[s].pc \in OnTask
    BY DEF SessionUpdated, SessionCreated, SessionFails, disk, queue, OnTask
  <1>3. CASE SessionUpdated(s)
    <2>1. /\ run' = [run EXCEPT ![s].pc = "reading", ![s].session = run[s].session,
                                ![s].live = FALSE]
          /\ UNCHANGED sessionFor
      BY <1>3 DEF SessionUpdated, StartReading, cloud
    <2>2. /\ run'[s].pc = "reading" /\ run'[s].todo = run[s].todo
          /\ run'[s].session = run[s].session
          /\ \A q \in Sync : q # s => run'[q] = run[q]
      BY <1>1, <2>1 DEF RunStates
    <2> QED
      BY <1>2, <2>1, <2>2, RunAloneStored
  <1>4. CASE SessionCreated(s)
    <2>1. PICK t \in Task : t = TaskOf(s)
      BY <1>2, TaskOfGood DEF Typed
    <2>2. /\ run[s].session = 0 /\ sessionFor' = [sessionFor EXCEPT ![t] = Len(server')]
          /\ run' = [run EXCEPT ![s].pc = "reading", ![s].session = Len(server'),
                                ![s].live = FALSE]
      BY <1>4, <2>1 DEF SessionCreated, StartReading
    <2>3. /\ sessionFor'[t] = Len(server')
          /\ \A u \in Task : u # t => sessionFor'[u] = sessionFor[u]
      BY <2>2 DEF Typed, CloudOK
    <2>4. /\ run'[s].pc = "reading" /\ run'[s].todo = run[s].todo
          /\ run'[s].session = Len(server')
          /\ \A q \in Sync : q # s => run'[q] = run[q]
      BY <1>1, <2>2 DEF RunStates
    <2>5. AllQueued(t)
      BY <1>2, <2>1, <2>2 DEF NothingLost, WorkFit
    <2>6. QueuedOrStored'
      BY <1>2, <2>3, <2>5, QueueAloneLossless, LosslessKeeps DEF NothingLost
    <2>7. TaskOf(s)' = t
      BY <2>1, <2>4 DEF TaskOf
    <2>8. WorkFit(s)'
      BY <2>3, <2>4, <2>7 DEF WorkFit
    <2>9. OnlyRun(s)
      BY <1>2, <2>4, AloneAtWork
    <2> QED
      BY <2>6, <2>8, <2>9, RunStores
  <1>5. CASE SessionFails(s)
    BY <1>2, <1>5, MovesOnStored DEF SessionFails
  <1> QED
    BY <1>3, <1>4, <1>5

\* nor the reading of a file,
LEMMA ReadStored ==
    ASSUME Typed, Typed', ServerGrows, MadeStays, IInv, NothingLost, NEW s \in Sync,
           UploadsStart(s) \/ \E b \in Blob : FileRead(s, b) \/ FileUnreadable(s, b)
    PROVE  NothingLost'
  <1>1. run \in [Sync -> RunStates] /\ run[s] \in RunStates
    BY DEF Typed, RunsOK, GoodRuns
  <1>2. UNCHANGED <<file, unsent, items, sessionFor>> /\ run[s].pc = "reading"
    BY DEF UploadsStart, FileRead, FileUnreadable, disk, queue, cloud
  <1>3. /\ run'[s].pc # "session" /\ run'[s].todo = run[s].todo
        /\ run'[s].session = run[s].session
        /\ \A q \in Sync : q # s => run'[q] = run[q]
    <2>1. CASE UploadsStart(s)
      BY <1>1, <2>1 DEF UploadsStart, RunStates
    <2>2. ASSUME NEW b \in Blob, FileRead(s, b) \/ FileUnreadable(s, b)
          PROVE  /\ run'[s].pc # "session" /\ run'[s].todo = run[s].todo
                 /\ run'[s].session = run[s].session
                 /\ \A q \in Sync : q # s => run'[q] = run[q]
      BY <2>2, ReadWork
    <2> QED
      BY <2>1, <2>2
  <1> QED
    BY <1>2, <1>3, RunAloneStored DEF OnTask

\* What an answered upload takes from the queue are items of its file.
LEMMA RemovedQueued ==
    ASSUME Typed, NEW t, NEW b, NEW time, RemoveProcessedItems(t, b, time)
    PROVE  /\ ToSet(items') = {i \in ToSet(items) :
                                 ~(i.task = t /\ i.blob = b /\ i.time <= time)}
           /\ \A u, c : Queued(u, c) /\ (u # t \/ c # b) => Queued(u, c)'
  <1>1. items \in Seq(Items)
    BY DEF Typed, QueueOK
  <1>2. ToSet(items') = {i \in ToSet(items) :
                           ~(i.task = t /\ i.blob = b /\ i.time <= time)}
    BY <1>1, WithoutKeeps DEF RemoveProcessedItems
  <1> QED
    BY <1>2 DEF Queued

\* nor the answer to an upload: what leaves the queue is on the server,
LEMMA UploadAnsweredStored ==
    ASSUME Typed, Typed', ServerGrows, MadeStays, IInv, NoneOlder, NothingLost,
           NEW s \in Sync, NEW b \in Blob, UploadReturns(s, b) \/ UploadFails(s, b)
    PROVE  NothingLost'
  <1>1. /\ UNCHANGED <<file, unsent, sessionFor>> /\ run[s].pc = "uploading"
        /\ run[s].pc \in OnTask /\ b \in DOMAIN run[s].sending
        /\ Answered(CutOff(TaskOf(s)), s, b) \/ Answered(run, s, b)
    BY DEF UploadReturns, UploadFails, disk, OnTask
  <1>2. /\ run'[s].pc = "uploading" /\ run'[s].todo = run[s].todo
        /\ run'[s].session = run[s].session
        /\ \A q \in Sync : run'[q].pc = run[q].pc
    BY <1>1, AnsweredWork
  <1>3. WorkFit(s)'
    BY <1>1, <1>2, GoesOnKeeps DEF NothingLost
  <1>4. OnlyRun(s)
    BY <1>1, <1>2 DEF IInv, WorkIsPending, OnlyRun, OnTask
  <1>5. CASE UploadFails(s, b)
    <2>1. UNCHANGED items
      BY <1>5 DEF UploadFails, queue
    <2>2. QueuedOrStored'
      BY <1>1, <2>1, QueueAloneLossless, LosslessKeeps DEF NothingLost
    <2> QED
      BY <1>3, <1>4, <2>2, RunStores
  <1>6. CASE UploadReturns(s, b)
    <2>1. PICK t \in Task : t = TaskOf(s)
      BY <1>1, TaskOfGood DEF Typed
    <2> DEFINE id == run[s].session
               v == run[s].sending[b].version
    <2>2. Stored(id, b, v) /\ RemoveProcessedItems(t, b, run[s].sending[b].time)
      BY <1>6, <2>1 DEF UploadReturns
    <2>3. /\ id \in 1 .. Len(server) /\ v \in Nat /\ v > 0 /\ v >= server[id].blob[b]
      <3>1. RunFit(s) /\ Uploading(s) /\ v \in Nat
        BY <1>1, RunType DEF NoneOlder, RunFit
      <3> QED
        BY <1>1, <3>1, RunType, ServerType DEF RunFit, Uploading
    <2>4. id = sessionFor[t] \/ Made(t)
      BY <1>1, <2>1 DEF NothingLost, WorkFit
    <2> HIDE DEF id, v
    <2>5. InSession(t, b)'
      <3>1. Len(server') = Len(server) /\ server'[id].blob[b] = v
        BY <2>2, <2>3, StoredServer
      <3>2. CASE id = sessionFor[t]
        BY <1>1, <2>3, <3>1, <3>2 DEF InSession
      <3>3. CASE Made(t)
        <4>1. InSession(t, b)
          BY <3>3 DEF Made, InSession
        <4> QED
          BY <1>1, <4>1, InSessionGrows
      <3> QED
        BY <2>4, <3>2, <3>3
    <2>6. QueuedOrStored'
      <3> SUFFICES ASSUME NEW u \in Task, NEW c \in Blob, Sent(u, c)'
                   PROVE  Queued(u, c)' \/ InSession(u, c)'
        BY DEF QueuedOrStored, Sent, Queued, InSession
      <3>1. CASE u = t /\ c = b
        BY <2>5, <3>1
      <3>2. CASE u # t \/ c # b
        <4>1. Queued(u, c) \/ InSession(u, c)
          BY <1>1 DEF NothingLost, QueuedOrStored, Sent, Queued, InSession
        <4>2. Queued(u, c) => Queued(u, c)'
          BY <2>2, <3>2, RemovedQueued
        <4>3. InSession(u, c) => InSession(u, c)'
          BY <1>1, InSessionGrows
        <4> QED
          BY <4>1, <4>2, <4>3
      <3> QED
        BY <3>1, <3>2
    <2> QED
      BY <1>3, <1>4, <2>6, RunStores
  <1> QED
    BY <1>5, <1>6

\* nor what follows the last answer.
LEMMA UploadsDoneStored ==
    ASSUME Typed, Typed', ServerGrows, MadeStays, IInv, NothingLost, NEW s \in Sync,
           UploadsDone(s) \/ GitUploaded(s) \/ GitUploadFails(s)
    PROVE  NothingLost'
  <1>1. run \in [Sync -> RunStates] /\ run[s] \in RunStates
    BY DEF Typed, RunsOK, GoodRuns
  <1>2. UNCHANGED <<file, unsent, items, sessionFor>> /\ run[s].pc \in OnTask
    BY DEF UploadsDone, GitUploaded, GitUploadFails, disk, queue, cloud, OnTask
  <1>3. CASE NextTask(s)
    BY <1>2, <1>3, MovesOnStored
  <1>4. CASE run' = [run EXCEPT ![s].pc = "git upload"]
    <2>1. /\ run'[s].pc = "git upload" /\ run'[s].todo = run[s].todo
          /\ run'[s].session = run[s].session
          /\ \A q \in Sync : q # s => run'[q] = run[q]
      BY <1>1, <1>4 DEF RunStates
    <2> QED
      BY <1>2, <2>1, RunAloneStored DEF OnTask
  <1> QED
    BY <1>3, <1>4 DEF UploadsDone, GitUploaded, GitUploadFails

\* Nothing is lost at first,
LEMMA InitStored == Init => NothingLost
  <1> SUFFICES ASSUME Init PROVE NothingLost
    OBVIOUS
  <1>1. \A t \in Task, b \in Blob : file[t][b] = 0
    BY DEF Init
  <1>2. \A s \in Sync : run[s].pc = "idle"
    BY DEF Init, Idle
  <1>3. QueuedOrStored
    BY <1>1 DEF QueuedOrStored
  <1>4. \A s \in Sync : WorkFit(s)
    BY <1>2 DEF WorkFit, OnTask
  <1> QED
    BY <1>3, <1>4 DEF NothingLost

\* The runs leave alone what the user's calls are at.
LEMMA RunLeavesSharing ==
    ASSUME NEW s, RunStep(s) \/ RunFails(s)
    PROVE  UNCHANGED sharing
  BY DEF RunStep, RunFails, TokenValid, TokenInvalid, GitStateRead, SessionUpdated,
         SessionCreated, SessionFails, FileRead, FileUnreadable, UploadsStart, UploadReturns,
         UploadFails, UploadsDone, GitUploaded, GitUploadFails

\* and no step loses anything.
LEMMA NextStored ==
    ASSUME Typed, Typed', ServerGrows, IInv, NoneOlder, NothingLost, [Next]_vars
    PROVE  NothingLost'
  <1>0. UNCHANGED sharing => MadeStays
    BY DEF MadeStays
  <1>1. ASSUME NEW s \in Sync, RunStep(s) PROVE NothingLost'
    BY <1>0, <1>1, RunLeavesSharing, TokenStored, SessionStored, ReadStored, UploadAnsweredStored,
       UploadsDoneStored DEF RunStep
  <1>2. ASSUME NEW s \in Sync, RunFails(s) PROVE NothingLost'
    BY <1>0, <1>2, RunLeavesSharing, TokenStored, SessionStored, ReadStored, UploadAnsweredStored,
       UploadsDoneStored DEF RunFails
  <1>3. ASSUME NEW t \in Shared, Share(t) PROVE NothingLost'
    BY <1>3, ConstantsOK, ShareStored
  <1>4. ASSUME NEW t \in Task, NEW b \in Blob, SaveFile(t, b) \/ FileUpdated(t, b)
        PROVE  NothingLost'
    BY <1>0, <1>4, DiskStored DEF SaveFile, FileUpdated
  <1>5. CASE RequestSync \/ \E f \in Forced : ForceSync(f) \/ ForcedResumes(f)
    BY <1>0, <1>5, RequestsStored DEF RequestSync, ForceSync, ForcedResumes
  <1>6. CASE GitChanges \/ UNCHANGED vars
    BY <1>0, <1>6, OthersStored DEF GitChanges, vars
  <1> QED
    BY <1>1, <1>2, <1>3, <1>4, <1>5, <1>6 DEF Next

\* With one forced call at a time, a file that was queued is queued still, or
\* the session its task has now holds some version of it, or it is no file of
\* the conversation and that session was made on request.
THEOREM NeverOutOfSight ==
    ASSUME OneForced
    PROVE  Spec => []QueuedOrStored
  <1> DEFINE I == Typed /\ IInv /\ NoneOlder /\ NothingLost
  <1>1. Init => I
    BY InitTyped, InitHolds, InitFits, InitStored
  <1>2. I /\ [Next]_vars => I'
    BY NextTyped, NextKeeps, NextFits, NextStored
  <1>3. I => QueuedOrStored
    BY DEF NothingLost
  <1> HIDE DEF I
  <1> QED
    BY <1>1, <1>2, <1>3, PTL DEF Spec

-----------------------------------------------------------------------------
(* What is queued, and since when *)

\* The items are of files as they are or were, and none stands for a file whose
\* message is still to come.
Old(S) == \A i \in S :
            /\ 0 < i.version /\ i.version <= file[i.task][i.blob]
            /\ <<i.task, i.blob>> \in unsent => i.version < file[i.task][i.blob]
Newest == \A i \in ToSet(items) :
            i.time <= now /\ i.time <= blobIndex[i.task][i.blob].time
SavedFiles == \A t \in Task, b \in Blob : <<t, b>> \in unsent => 0 < file[t][b]
QueueFit == /\ SavedFiles /\ Newest /\ Old(ToSet(items))
            /\ \A f \in Forced : Old(caller[f].mark)

\* What the types say of the items queued and marked.
LEMMA ItemTypes ==
    ASSUME Typed
    PROVE  /\ items \in Seq(Items) /\ ToSet(items) \subseteq Items
           /\ \A f \in Forced : caller[f] \in Callers /\ caller[f].mark \subseteq Items
           /\ \A i \in Items : /\ i.task \in Task /\ i.blob \in Blob
                               /\ i.time \in Nat /\ i.version \in Nat
           /\ now \in Nat
  <1>1. items \in Seq(Items) /\ now \in Nat
    BY DEF Typed, QueueOK, DiskOK
  <1>2. ToSet(items) \subseteq Items
    BY <1>1 DEF ToSet
  <1>3. \A f \in Forced : caller[f] \in Callers /\ caller[f].mark \subseteq Items
    BY DEF Typed, CallsOK, Callers
  <1> QED
    BY <1>1, <1>2, <1>3 DEF Items

\* The last item queued for a file is found under it.
LEMMA IndexedItem ==
    ASSUME Typed, NEW i \in ToSet(items)
    PROVE  blobIndex[i.task][i.blob] \in Items
  <1> DEFINE t == i.task
             b == i.blob
  <1>1. t \in Task /\ b \in Blob /\ items \in Seq(Items)
    BY ItemTypes
  <1>2. blobIndex[t][b] = LastOr(OfBlob(items, t, b), NoItem)
    BY <1>1 DEF Typed, QueueOK, IndexesAgree
  <1> HIDE DEF t, b
  <1>3. ToSet(OfBlob(items, t, b)) = {j \in ToSet(items) : j.task = t /\ j.blob = b}
        /\ OfBlob(items, t, b) \in Seq(Items)
    BY <1>1, OfBlobType
  <1>4. i \in ToSet(OfBlob(items, t, b))
    BY <1>3 DEF t, b
  <1>5. OfBlob(items, t, b) # <<>>
    BY <1>4 DEF ToSet
  <1>6. LastOr(OfBlob(items, t, b), NoItem) \in Items
    BY <1>3, <1>5, LastElement DEF LastOr
  <1> QED
    BY <1>2, <1>6 DEF t, b

\* A save makes what is queued older.
LEMMA SaveFileQueues ==
    ASSUME Typed, Typed', QueueFit, NEW t \in Task, NEW b \in Blob, SaveFile(t, b)
    PROVE  QueueFit'
  <1>1. /\ UNCHANGED <<now, items, blobIndex, caller>>
        /\ unsent' = unsent \cup {<<t, b>>} /\ <<t, b>> \notin unsent
        /\ file' = [file EXCEPT ![t][b] = @ + 1]
    BY DEF SaveFile, queue, calls
  <1>2. /\ \A u \in Task, c \in Blob : file[u][c] \in Nat
        /\ file'[t][b] = file[t][b] + 1
        /\ \A u \in Task, c \in Blob : <<u, c>> # <<t, b>> => file'[u][c] = file[u][c]
    BY <1>1 DEF Typed, DiskOK
  <1>3. ASSUME NEW S \in SUBSET Items, Old(S)
        PROVE  \A i \in S :
                  /\ 0 < i.version /\ i.version <= file'[i.task][i.blob]
                  /\ <<i.task, i.blob>> \in unsent' => i.version < file'[i.task][i.blob]
    <2> SUFFICES ASSUME NEW i \in S
                 PROVE  /\ 0 < i.version /\ i.version <= file'[i.task][i.blob]
                        /\ <<i.task, i.blob>> \in unsent' => i.version < file'[i.task][i.blob]
      OBVIOUS
    <2>1. i.task \in Task /\ i.blob \in Blob /\ i.version \in Nat
      BY ItemTypes
    <2>2. /\ 0 < i.version /\ i.version <= file[i.task][i.blob]
          /\ <<i.task, i.blob>> \in unsent => i.version < file[i.task][i.blob]
      BY <1>3 DEF Old
    <2>3. CASE <<i.task, i.blob>> = <<t, b>>
      BY <1>1, <1>2, <2>1, <2>2, <2>3
    <2>4. CASE <<i.task, i.blob>> # <<t, b>>
      BY <1>1, <1>2, <2>1, <2>2, <2>4
    <2> QED
      BY <2>3, <2>4
  <1>4. Old(ToSet(items))' /\ \A f \in Forced : Old(caller[f].mark)'
    BY <1>1, <1>3, ItemTypes DEF QueueFit, Old
  <1>5. SavedFiles'
    BY <1>1, <1>2 DEF QueueFit, SavedFiles
  <1> QED
    BY <1>1, <1>4, <1>5 DEF QueueFit, Newest

\* The item queued by a message is the newest of its file.
LEMMA FileUpdatedQueues ==
    ASSUME Typed, Typed', QueueFit, NEW t \in Task, NEW b \in Blob, FileUpdated(t, b)
    PROVE  /\ QueueFit' /\ \A f \in Forced : caller[f].mark \cap ToSet(items')
                                                = caller[f].mark \cap ToSet(items)
           /\ 0 < file[t][b]
  <1> DEFINE i == [task |-> t, blob |-> b, time |-> now', version |-> file[t][b]]
  <1>1. /\ UNCHANGED <<file, caller>> /\ unsent' = unsent \ {<<t, b>>} /\ <<t, b>> \in unsent
        /\ items' = Append(items, i)
        /\ blobIndex' = [blobIndex EXCEPT ![t][b] = i]
        /\ now' \in {now, now + 1}
    BY DEF FileUpdated, Enqueue
  <1>2. i \in Items /\ i.task = t /\ i.blob = b /\ i.time = now' /\ i.version = file[t][b]
    BY DEF Typed, DiskOK, Items
  <1> HIDE DEF i
  <1>3. ToSet(items') = ToSet(items) \cup {i}
    BY <1>1, <1>2, ItemTypes, ToSetAppend
  <1>4. 0 < file[t][b] /\ file[t][b] \in Nat
    BY <1>1, FileType DEF QueueFit, SavedFiles
  <1>5. Old(ToSet(items))'
    <2> SUFFICES ASSUME NEW j \in ToSet(items')
                 PROVE  /\ 0 < j.version /\ j.version <= file[j.task][j.blob]
                        /\ <<j.task, j.blob>> \in unsent' => j.version < file[j.task][j.blob]
      BY <1>1 DEF Old
    <2>1. CASE j = i
      BY <1>1, <1>2, <1>4, <2>1
    <2>2. CASE j # i
      BY <1>1, <1>3, <2>2 DEF QueueFit, Old
    <2> QED
      BY <2>1, <2>2
  <1>6. \A f \in Forced : Old(caller[f].mark)'
    BY <1>1 DEF QueueFit, Old
  <1>7. Newest'
    <2> SUFFICES ASSUME NEW j \in ToSet(items')
                 PROVE  j.time <= now' /\ j.time <= blobIndex'[j.task][j.blob].time
      BY DEF Newest
    <2>1. now \in Nat /\ now' \in Nat /\ now <= now'
      BY <1>1, ItemTypes
    <2>2. CASE j = i
      BY <1>1, <1>2, <2>1, <2>2 DEF Typed, QueueOK
    <2>3. CASE j # i
      <3>1. j \in ToSet(items) /\ j.task \in Task /\ j.blob \in Blob /\ j.time \in Nat
        BY <1>3, <2>3, ItemTypes
      <3>2. j.time <= now /\ j.time <= blobIndex[j.task][j.blob].time
        BY <3>1 DEF QueueFit, Newest
      <3>3. blobIndex'[j.task][j.blob]
              = IF j.task = t /\ j.blob = b THEN i ELSE blobIndex[j.task][j.blob]
        BY <1>1, <3>1 DEF Typed, QueueOK
      <3> QED
        BY <1>2, <2>1, <3>1, <3>2, <3>3
    <2> QED
      BY <2>2, <2>3
  <1>8. \A f \in Forced : i \notin caller[f].mark
    <2> SUFFICES ASSUME NEW f \in Forced, i \in caller[f].mark PROVE FALSE
      OBVIOUS
    <2>1. i.version < file[t][b]
      BY <1>1, <1>2 DEF QueueFit, Old
    <2> QED
      BY <1>2, <1>4, <2>1
  <1> QED
    BY <1>1, <1>3, <1>4, <1>5, <1>6, <1>7, <1>8 DEF QueueFit, SavedFiles

\* What an upload leaves in the queue is newer than what it took.
LEMMA UploadReturnsQueues ==
    ASSUME Typed, Typed', QueueFit, NEW t \in Task, NEW b \in Blob, NEW time \in Nat,
           RemoveProcessedItems(t, b, time), UNCHANGED <<file, unsent, now, caller>>
    PROVE  QueueFit'
  <1> DEFINE left == Without(items, t, b, time)
  <1>1. /\ items' = left
        /\ blobIndex' = [blobIndex EXCEPT ![t][b] = LastOr(OfBlob(left, t, b), NoItem)]
    BY DEF RemoveProcessedItems
  <1>2. /\ left \in Seq(Items)
        /\ ToSet(left) = {i \in ToSet(items) : ~(i.task = t /\ i.blob = b /\ i.time <= time)}
    BY ItemTypes, WithoutKeeps
  <1>3. ASSUME NEW i \in ToSet(left), i.task = t, i.blob = b
        PROVE  LastOr(OfBlob(left, t, b), NoItem) = blobIndex[t][b]
    <2> DEFINE K == OfBlobSet(t, b)
               L == KeptSet(t, b, time)
    <2>1. i \in ToSet(items) /\ i \in Items /\ i.time \in Nat /\ ~(i.time <= time)
      BY <1>2, <1>3, ItemTypes
    <2>2. Selected(items, K) = OfBlob(items, t, b)
      BY DEF OfBlob, OfBlobSet
    <2>3. OfBlob(left, t, b) = Selected(items, L \cap K)
      BY ItemTypes, SelectedTwice DEF OfBlob, OfBlobSet, Without, KeptSet
    <2>4. Selected(items, K) # <<>>
      <3>1. i \in ToSet(OfBlob(items, t, b))
        BY <1>3, <2>1, ItemTypes, OfBlobType
      <3> QED
        BY <2>2, <3>1 DEF ToSet
    <2>5. Last(Selected(items, K)) = blobIndex[t][b]
      BY <2>2, <2>4 DEF Typed, QueueOK, IndexesAgree, LastOr
    <2>6. blobIndex[t][b] \in Items /\ i.time <= blobIndex[t][b].time
      BY <1>3, <2>1, IndexedItem DEF QueueFit, Newest
    <2>7. blobIndex[t][b] \in L
      BY <2>1, <2>6, ItemTypes DEF KeptSet
    <2>8. L \cap K = K \cap L
      OBVIOUS
    <2> HIDE DEF K, L
    <2>9. Selected(items, K \cap L) # <<>> /\ Last(Selected(items, K \cap L)) = blobIndex[t][b]
      BY <2>4, <2>5, <2>7, ItemTypes, SelectedLast
    <2> QED
      BY <2>3, <2>8, <2>9 DEF LastOr
  <1> HIDE DEF left
  <1>4. Newest'
    <2> SUFFICES ASSUME NEW i \in ToSet(left)
                 PROVE  i.time <= now /\ i.time <= blobIndex'[i.task][i.blob].time
      BY <1>1 DEF Newest
    <2>1. i \in ToSet(items) /\ i.task \in Task /\ i.blob \in Blob
      BY <1>2, ItemTypes
    <2>2. i.time <= now /\ i.time <= blobIndex[i.task][i.blob].time
      BY <2>1 DEF QueueFit, Newest
    <2>3. blobIndex'[i.task][i.blob] = blobIndex[i.task][i.blob]
      BY <1>1, <1>3, <2>1 DEF Typed, QueueOK
    <2> QED
      BY <2>2, <2>3
  <1>5. Old(ToSet(items))'
    BY <1>1, <1>2 DEF QueueFit, Old
  <1> QED
    BY <1>4, <1>5 DEF QueueFit, SavedFiles, Old

\* A step that leaves files and queue alone, and marks at most what is queued.
LEMMA MarksQueue ==
    ASSUME QueueFit, UNCHANGED <<file, unsent, now, queue>>,
           \A f \in Forced : caller'[f].mark \in {caller[f].mark, ToSet(items)}
    PROVE  QueueFit'
  <1>1. UNCHANGED <<items, blobIndex>>
    BY DEF queue
  <1>2. SavedFiles' /\ Newest' /\ Old(ToSet(items))'
    BY <1>1 DEF QueueFit, SavedFiles, Newest, Old
  <1>3. ASSUME NEW f \in Forced PROVE Old(caller[f].mark)'
    BY DEF QueueFit, Old
  <1> QED
    BY <1>2, <1>3 DEF QueueFit

-----------------------------------------------------------------------------
(* What a forced call waits for *)

\* The work of run s that is still to come takes the item from the queue.
Ahead(s, i) ==
    \/ run[s].pc = "token"
    \/ run[s].pc = "git" /\ i.task \in ToSet(run[s].todo)
    \/ run[s].pc \in OnTask /\ i.task \in ToSet(Tail(run[s].todo))
    \/ /\ run[s].pc \in {"session", "reading"}
       /\ i.task = TaskOf(s) /\ i.blob \in run[s].names
    \/ /\ run[s].pc = "uploading"
       /\ i.task = TaskOf(s) /\ i.blob \in DOMAIN run[s].sending
       /\ i.time <= run[s].sending[i.blob].time

Flushed(f) ==
    /\ caller[f].pc = "done" => caller[f].mark \cap ToSet(items) = {}
    /\ caller[f].pc = "running" =>
         /\ caller[f].on \in Sync
         /\ \A i \in caller[f].mark \cap ToSet(items) : Ahead(caller[f].on, i)

\* A run reads files that were saved, and without a failure it reads each.
WorkSaved(s) ==
    /\ run[s].pc \in {"session", "reading"} =>
         \A b \in run[s].names : 0 < file[TaskOf(s)][b]
    /\ run[s].pc = "session" => DOMAIN run[s].read = {}
    /\ run[s].pc = "reading" /\ failures = 0 =>
         \A b \in DOMAIN run[s].read : run[s].read[b] # 0

FlushFit == /\ QueueFit /\ \A s \in Sync : WorkSaved(s)
            /\ failures = 0 => \A f \in Forced : Flushed(f)

SameFlush(s) == /\ run'[s].pc = run[s].pc /\ run'[s].todo = run[s].todo
                /\ run'[s].read = run[s].read /\ run'[s].sending = run[s].sending
                /\ run'[s].names = run[s].names
AheadKept(s) == \A i \in ToSet(items) \cap ToSet(items') : Ahead(s, i) => Ahead(s, i)'
NothingMarked == \A f \in Forced : caller[f].mark \cap ToSet(items') \subseteq ToSet(items)
StillSound == failures' = 0 => failures = 0

\* A run that keeps its work keeps what is ahead of it.
LEMMA SameFlushKeeps ==
    ASSUME Typed, Typed', FileGrows, StillSound, NEW s \in Sync, SameFlush(s), WorkSaved(s)
    PROVE  AheadKept(s) /\ WorkSaved(s)'
  <1>1. TaskOf(s)' = TaskOf(s)
    BY DEF SameFlush, TaskOf
  <1>2. AheadKept(s)
    BY <1>1 DEF SameFlush, AheadKept, Ahead
  <1>3. ASSUME run[s].pc \in {"session", "reading"}, NEW b \in run[s].names
        PROVE  0 < file'[TaskOf(s)][b]
    <2>1. TaskOf(s) \in Task /\ b \in Blob
      BY <1>3, TaskOfGood, RunType DEF Typed, OnTask
    <2>2. file[TaskOf(s)][b] \in Nat /\ file'[TaskOf(s)][b] \in Nat
      BY <2>1 DEF Typed, DiskOK
    <2>3. 0 < file[TaskOf(s)][b] /\ file[TaskOf(s)][b] <= file'[TaskOf(s)][b]
      BY <1>3, <2>1 DEF WorkSaved, FileGrows
    <2> QED
      BY <2>2, <2>3
  <1>4. WorkSaved(s)'
    BY <1>1, <1>3 DEF SameFlush, WorkSaved, StillSound
  <1> QED
    BY <1>2, <1>4

\* A run off its work has nothing ahead, and keeps nothing.
LEMMA IdleKeeps ==
    ASSUME NEW s \in Sync, run'[s].pc \in {"idle", "token", "git"}
    PROVE  WorkSaved(s)' /\ (run[s].pc = "idle" => AheadKept(s))
  BY DEF WorkSaved, AheadKept, Ahead, OnTask

\* What was ahead of a forced call is gone, or ahead still.
LEMMA FlushedStays ==
    ASSUME Typed, NEW f \in Forced, Flushed(f), caller'[f] = caller[f], NothingMarked,
           \A s \in Sync : AheadKept(s)
    PROVE  Flushed(f)'
  <1> DEFINE m == caller[f].mark
  <1>1. m \cap ToSet(items') \subseteq m \cap ToSet(items)
    BY DEF NothingMarked
  <1>2. caller'[f].mark = m /\ caller'[f].pc = caller[f].pc /\ caller'[f].on = caller[f].on
    OBVIOUS
  <1> HIDE DEF m
  <1>3. caller[f].pc = "done" => m \cap ToSet(items') = {}
    BY <1>1 DEF Flushed, m
  <1>4. ASSUME caller[f].pc = "running"
        PROVE  /\ caller[f].on \in Sync
               /\ \A i \in m \cap ToSet(items') : Ahead(caller[f].on, i)'
    <2>1. PICK s \in Sync : s = caller[f].on /\ s = caller'[f].on
      BY <1>2, <1>4 DEF Flushed
    <2>2. \A i \in m \cap ToSet(items) : Ahead(s, i)
      BY <1>4, <2>1 DEF Flushed, m
    <2>3. \A i \in m \cap ToSet(items') : Ahead(s, i)'
      BY <1>1, <2>2 DEF AheadKept
    <2> QED
      BY <2>1, <2>3 DEF Ahead, TaskOf
  <1> QED
    BY <1>2, <1>3, <1>4 DEF Flushed, Ahead, TaskOf

\* A run that comes to its end has nothing ahead: those who wait for it are done.
LEMMA SettleFlushes ==
    ASSUME Typed, NEW s \in Sync, Settle(s), UNCHANGED items, NEW f \in Forced, Flushed(f),
           \A i \in ToSet(items) : ~Ahead(s, i)
    PROVE  Flushed(f)' /\ caller'[f].mark = caller[f].mark
  <1>1. run \in [Sync -> RunStates] /\ caller \in [Forced -> Callers]
    BY DEF Typed, RunsOK, GoodRuns, CallsOK
  <1>2. run'[s] = Idle /\ \A q \in Sync : q # s => run'[q] = run[q]
    BY <1>1 DEF Settle
  <1>3. caller'[f] = IF caller[f].pc = "running" /\ caller[f].on = s
                     THEN [caller[f] EXCEPT !.pc = "done"] ELSE caller[f]
    BY DEF Settle
  <1>4. CASE caller[f].pc = "running" /\ caller[f].on = s
    <2>1. caller'[f].pc = "done" /\ caller'[f].mark = caller[f].mark
      BY <1>1, <1>3, <1>4 DEF Callers
    <2>2. caller[f].mark \cap ToSet(items) = {}
      BY <1>4 DEF Flushed
    <2> QED
      BY <2>1, <2>2 DEF Flushed
  <1>5. CASE ~(caller[f].pc = "running" /\ caller[f].on = s)
    <2>1. caller'[f] = caller[f]
      BY <1>3, <1>5
    <2>2. NothingMarked
      BY DEF NothingMarked
    <2>3. ASSUME NEW q \in Sync PROVE AheadKept(q)
      <3>1. CASE q = s
        BY <3>1 DEF AheadKept
      <3>2. CASE q # s
        BY <1>2, <3>2 DEF AheadKept, Ahead, TaskOf
      <3> QED
        BY <3>1, <3>2
    <2> QED
      BY <2>1, <2>2, <2>3, FlushedStays
  <1> QED
    BY <1>4, <1>5

\* The end of a run leaves the marks alone.
LEMMA SettleMarks ==
    ASSUME Typed, NEW s \in Sync, Settle(s), NEW f \in Forced
    PROVE  caller'[f].mark = caller[f].mark
  <1>1. caller \in [Forced -> Callers]
    BY DEF Typed, CallsOK
  <1> QED
    BY <1>1 DEF Settle, Callers

\* A run takes its next task, or ends: the items of the tasks left are ahead.
LEMMA ProceedFlushes ==
    ASSUME Typed, Typed', FlushFit, NEW s \in Sync, NEW r \in RunStates,
           NEW todo \in Seq(Task), Proceed(s, r, todo),
           UNCHANGED <<file, unsent, now, queue>>,
           failures' = 0 =>
             failures = 0 /\ \A i \in ToSet(items) : Ahead(s, i) => i.task \in ToSet(todo)
    PROVE  FlushFit'
  <1>0. /\ run \in [Sync -> RunStates] /\ UNCHANGED <<items, taskIndex>>
        /\ FileGrows /\ StillSound
    BY DEF Typed, RunsOK, GoodRuns, queue, FileGrows, DiskOK, StillSound
  <1>1. CASE todo = <<>>
    <2>1. Settle(s)
      BY <1>1 DEF Proceed
    <2>2. run'[s].pc = "idle" /\ \A q \in Sync : q # s => run'[q] = run[q]
      BY <1>0, <2>1 DEF Settle, Idle
    <2>3. \A f \in Forced : caller'[f].mark = caller[f].mark
      BY <2>1, SettleMarks
    <2>4. QueueFit'
      BY <2>3, MarksQueue DEF FlushFit
    <2>5. ASSUME NEW q \in Sync PROVE WorkSaved(q)'
      <3>1. q # s => SameFlush(q)
        BY <2>2 DEF SameFlush
      <3> QED
        BY <1>0, <2>2, <3>1, SameFlushKeeps, IdleKeeps DEF FlushFit
    <2>6. ASSUME failures' = 0 PROVE \A f \in Forced : Flushed(f)'
      <3>1. \A i \in ToSet(items) : ~Ahead(s, i)
        BY <1>1, <2>6 DEF ToSet
      <3> QED
        BY <1>0, <2>1, <2>6, <3>1, SettleFlushes DEF FlushFit
    <2> QED
      BY <2>4, <2>5, <2>6 DEF FlushFit
  <1>2. CASE todo # <<>>
    <2>1. PICK t \in Task : t = Head(todo)
      BY <1>2
    <2> DEFINE n == {i.blob : i \in ToSet(taskIndex'[t])}
               new == [r EXCEPT !.pc = "session", !.todo = todo, !.session = sessionFor'[t],
                         !.names = n, !.live = taskIndex'[t] # <<>>,
                         !.read = <<>>, !.sending = <<>>]
    <2>2. run' = [run EXCEPT ![s] = new] /\ UNCHANGED calls
      BY <1>2, <2>1 DEF Proceed
    <2>3. new.pc = "session" /\ new.todo = todo /\ new.names = n /\ DOMAIN new.read = {}
      <3> HIDE DEF n
      <3> QED
        BY DEF RunStates
    <2>4. n = {i.blob : i \in {j \in ToSet(items) : j.task = t}}
      BY <1>0, ItemTypes, OfBlobType DEF Typed, QueueOK, IndexesAgree
    <2> HIDE DEF n, new
    <2>5. run'[s] = new /\ \A q \in Sync : q # s => run'[q] = run[q]
      BY <1>0, <2>2
    <2>6. TaskOf(s)' = t
      BY <2>1, <2>3, <2>5 DEF TaskOf
    <2>7. QueueFit'
      BY <2>2, MarksQueue DEF FlushFit, calls
    <2>8. ASSUME NEW b \in n PROVE 0 < file[t][b]
      <3>1. PICK i \in ToSet(items) : i.task = t /\ i.blob = b
        BY <2>4, <2>8
      <3>2. 0 < i.version /\ i.version <= file[t][b] /\ i.version \in Nat /\ b \in Blob
        BY <3>1, ItemTypes DEF FlushFit, QueueFit, Old
      <3> QED
        BY <3>2, FileType
    <2>9. WorkSaved(s)'
      BY <2>3, <2>5, <2>6, <2>8 DEF WorkSaved
    <2>10. ASSUME NEW q \in Sync PROVE WorkSaved(q)' /\ (q # s => AheadKept(q))
      <3>1. q # s => SameFlush(q)
        BY <2>5 DEF SameFlush
      <3> QED
        BY <1>0, <2>9, <3>1, SameFlushKeeps DEF FlushFit
    <2>11. ASSUME failures' = 0 PROVE \A f \in Forced : Flushed(f)'
      <3>1. AheadKept(s)
        <4> SUFFICES ASSUME NEW i \in ToSet(items), i.task \in ToSet(todo)
                     PROVE  Ahead(s, i)'
          BY <2>11 DEF AheadKept
        <4>1. i.task = t \/ i.task \in ToSet(Tail(todo))
          BY <1>2, <2>1, HeadOrTail
        <4>2. i.task = t => i.blob \in n
          BY <2>4
        <4> QED
          BY <2>3, <2>5, <2>6, <4>1, <4>2 DEF Ahead, OnTask
      <3>2. NothingMarked
        BY <1>0 DEF NothingMarked
      <3>3. caller' = caller
        BY <2>2 DEF calls
      <3> QED
        BY <2>10, <2>11, <3>1, <3>2, <3>3, FlushedStays DEF FlushFit
    <2> QED
      BY <2>7, <2>10, <2>11 DEF FlushFit
  <1> QED
    BY <1>1, <1>2

\* A step of the runs that leaves the queue and the calls alone.
LEMMA RunsFlush ==
    ASSUME Typed, Typed', FlushFit, UNCHANGED <<file, unsent, now, queue, caller>>, StillSound,
           \A q \in Sync : SameFlush(q) \/ (WorkSaved(q)' /\ (failures' = 0 => AheadKept(q)))
    PROVE  FlushFit'
  <1>1. UNCHANGED items /\ FileGrows
    BY DEF queue, FileGrows, Typed, DiskOK
  <1>2. QueueFit'
    BY MarksQueue DEF FlushFit
  <1>3. \A q \in Sync : WorkSaved(q)' /\ (failures' = 0 => AheadKept(q))
    BY <1>1, SameFlushKeeps DEF FlushFit
  <1>4. NothingMarked
    BY <1>1 DEF NothingMarked
  <1>5. ASSUME failures' = 0, NEW f \in Forced PROVE Flushed(f)'
    BY <1>3, <1>4, <1>5, FlushedStays DEF FlushFit, StillSound
  <1> QED
    BY <1>2, <1>3, <1>5 DEF FlushFit

\* A run is told of a new item, or begins: what was ahead is ahead still.
LEMMA FileUpdatedRuns ==
    ASSUME Typed, NEW t \in Task, NEW b \in Blob, FileUpdated(t, b), NEW s \in Sync
    PROVE  \/ run[s].pc = "idle" /\ run'[s].pc = "token"
           \/ /\ run'[s].pc = run[s].pc /\ run'[s].todo = run[s].todo
              /\ run'[s].read = run[s].read /\ run'[s].sending = run[s].sending
              /\ \/ run'[s].names = run[s].names
                 \/ TaskOf(s) = t /\ run'[s].names = run[s].names \cup {b}
  <1> DEFINE i == [task |-> t, blob |-> b, time |-> now', version |-> file[t][b]]
  <1>1. Begin(Seen(i)) \/ run' = Seen(i)
    BY DEF FileUpdated
  <1>2. i \in Items /\ i.task = t /\ i.blob = b
    BY DEF Typed, DiskOK, Items, FileUpdated
  <1> HIDE DEF i
  <1>3. Seen(i) \in [Sync -> RunStates]
    BY <1>2, SeenGood DEF Typed, GoodRuns
  <1>4. run[s] \in RunStates
    BY DEF Typed, RunsOK, GoodRuns
  <1>5. /\ Seen(i)[s].pc = run[s].pc /\ Seen(i)[s].todo = run[s].todo
        /\ Seen(i)[s].read = run[s].read /\ Seen(i)[s].sending = run[s].sending
        /\ \/ Seen(i)[s].names = run[s].names
           \/ TaskOf(s) = t /\ Seen(i)[s].names = run[s].names \cup {b}
    BY <1>2, <1>4 DEF Seen, RunStates
  <1>6. \/ run[s].pc = "idle" /\ run'[s].pc = "token"
        \/ run'[s] = Seen(i)[s]
    BY <1>1, <1>3, BeginFits
  <1> QED
    BY <1>5, <1>6

\* A new item is not marked: it hinders no forced call.
LEMMA FileUpdatedFlushes ==
    ASSUME Typed, Typed', FlushFit, NEW t \in Task, NEW b \in Blob, FileUpdated(t, b)
    PROVE  FlushFit'
  <1>1. UNCHANGED <<file, caller, failures>>
    BY DEF FileUpdated
  <1>2. /\ QueueFit' /\ 0 < file[t][b]
        /\ \A f \in Forced : caller[f].mark \cap ToSet(items') = caller[f].mark \cap ToSet(items)
    BY FileUpdatedQueues DEF FlushFit
  <1>3. ASSUME NEW s \in Sync PROVE WorkSaved(s)' /\ AheadKept(s)
    <2>1. CASE run[s].pc = "idle" /\ run'[s].pc = "token"
      BY <2>1, IdleKeeps
    <2>2. CASE /\ run'[s].pc = run[s].pc /\ run'[s].todo = run[s].todo
               /\ run'[s].read = run[s].read /\ run'[s].sending = run[s].sending
               /\ \/ run'[s].names = run[s].names
                  \/ TaskOf(s) = t /\ run'[s].names = run[s].names \cup {b}
      <3>1. TaskOf(s)' = TaskOf(s)
        BY <2>2 DEF TaskOf
      <3>2. WorkSaved(s)'
        BY <1>1, <1>2, <2>2, <3>1 DEF FlushFit, WorkSaved
      <3>3. AheadKept(s)
        BY <2>2, <3>1 DEF AheadKept, Ahead
      <3> QED
        BY <3>2, <3>3
    <2> QED
      BY <2>1, <2>2, FileUpdatedRuns
  <1>4. NothingMarked
    BY <1>2 DEF NothingMarked
  <1>5. ASSUME failures' = 0, NEW f \in Forced PROVE Flushed(f)'
    BY <1>1, <1>3, <1>4, <1>5, FlushedStays DEF FlushFit
  <1> QED
    BY <1>2, <1>3, <1>5 DEF FlushFit

\* A call marks what is queued, and the run it begins has all of it ahead.
LEMMA RequestsFlush ==
    ASSUME Typed, Typed', FlushFit,
           RequestSync \/ \E f \in Forced : ForceSync(f) \/ ForcedResumes(f)
    PROVE  FlushFit'
  <1>1. UNCHANGED <<file, unsent, now, queue, failures>> /\ UNCHANGED items
    BY DEF RequestSync, ForceSync, ForcedResumes, disk, queue
  <1>2. Begin(run) \/ UNCHANGED run
    BY DEF RequestSync, ForceSync, ForcedResumes
  <1>3. run \in [Sync -> RunStates] /\ FileGrows /\ StillSound
    BY <1>1 DEF Typed, RunsOK, GoodRuns, FileGrows, DiskOK, StillSound
  <1>4. ASSUME NEW s \in Sync PROVE WorkSaved(s)' /\ AheadKept(s)
    <2>1. CASE run[s].pc = "idle" /\ run'[s].pc = "token"
      BY <2>1, IdleKeeps
    <2>2. CASE run'[s] = run[s]
      BY <1>3, <2>2, SameFlushKeeps DEF FlushFit, SameFlush
    <2> QED
      BY <1>2, <1>3, <2>1, <2>2, BeginFits
  <1>5. NothingMarked
    BY <1>1 DEF NothingMarked
  <1>6. ASSUME NEW f \in Forced
        PROVE  /\ caller'[f].mark \in {caller[f].mark, ToSet(items)}
               /\ \/ caller'[f] = caller[f]
                  \/ caller'[f].pc = "waiting"
                  \/ caller'[f].pc = "done" /\ items = <<>>
                  \/ /\ caller'[f].pc = "running" /\ caller'[f].on \in Sync
                     /\ run'[caller'[f].on].pc = "token"
    <2>1. caller \in [Forced -> Callers]
      BY DEF Typed, CallsOK
    <2>2. Begin(run) => /\ pending' \in Sync /\ run'[pending'].pc = "token"
      <3> SUFFICES ASSUME Begin(run) PROVE pending' \in Sync /\ run'[pending'].pc = "token"
        OBVIOUS
      <3>1. pending' = NewSync /\ NewSync \in Sync
        BY DEF Begin, NewSync, FreeSync
      <3> QED
        BY <1>3, <3>1, BeginFits
    <2>3. CASE RequestSync
      BY <2>3 DEF RequestSync
    <2>4. ASSUME NEW g \in Forced, ForceSync(g) \/ ForcedResumes(g)
          PROVE  /\ caller'[f].mark \in {caller[f].mark, ToSet(items)}
                 /\ \/ caller'[f] = caller[f]
                    \/ caller'[f].pc = "waiting"
                    \/ caller'[f].pc = "done" /\ items = <<>>
                    \/ caller'[f].pc = "running" /\ caller'[f].on = pending' /\ Begin(run)
      <3>1. CASE g # f
        <4>1. caller'[f] = caller[f]
          BY <2>1, <2>4, <3>1 DEF ForceSync, ForcedResumes
        <4> QED
          BY <4>1
      <3>2. CASE g = f /\ ForceSync(f)
        BY <2>1, <3>2 DEF ForceSync, Callers
      <3>3. CASE g = f /\ ForcedResumes(f)
        BY <2>1, <3>3 DEF ForcedResumes, Callers
      <3> QED
        BY <2>4, <3>1, <3>2, <3>3
    <2> QED
      BY <2>2, <2>3, <2>4
  <1>7. QueueFit'
    BY <1>1, <1>6, MarksQueue DEF FlushFit
  <1>8. ASSUME failures' = 0, NEW f \in Forced PROVE Flushed(f)'
    <2>1. CASE caller'[f] = caller[f]
      BY <1>1, <1>4, <1>5, <1>8, <2>1, FlushedStays DEF FlushFit
    <2>2. CASE caller'[f].pc = "waiting"
      BY <2>2 DEF Flushed
    <2>3. CASE caller'[f].pc = "done" /\ items = <<>>
      BY <1>1, <2>3 DEF Flushed, ToSet
    <2>4. CASE /\ caller'[f].pc = "running" /\ caller'[f].on \in Sync
               /\ run'[caller'[f].on].pc = "token"
      BY <2>4 DEF Flushed, Ahead
    <2> QED
      BY <1>6, <2>1, <2>2, <2>3, <2>4
  <1> QED
    BY <1>4, <1>7, <1>8 DEF FlushFit

\* The tasks of a run that has its token are those of what is queued then.
LEMMA TokenValidFlushes ==
    ASSUME Typed, Typed', FlushFit, NEW s \in Sync, TokenValid(s)
    PROVE  FlushFit'
  <1>1. run \in [Sync -> RunStates] /\ run[s] \in RunStates
    BY DEF Typed, RunsOK, GoodRuns
  <1>2. /\ UNCHANGED <<file, unsent, now, queue, caller, failures>> /\ UNCHANGED items
        /\ run[s].pc = "token"
        /\ run' = [run EXCEPT ![s].pc = "git", ![s].todo = UniqueTasks(items),
                     ![s].last = IF items = <<>> THEN NoTask ELSE Last(items).task]
    BY DEF TokenValid, disk, calls, queue
  <1>3. /\ run'[s].pc = "git" /\ run'[s].todo = UniqueTasks(items)
        /\ \A q \in Sync : q # s => run'[q] = run[q]
    BY <1>1, <1>2 DEF RunStates
  <1>4. ToSet(UniqueTasks(items)) = {i.task : i \in ToSet(items)}
    BY ItemTypes, UniqueTasksOf
  <1>5. AheadKept(s)
    BY <1>2, <1>3, <1>4 DEF AheadKept, Ahead
  <1>6. WorkSaved(s)'
    BY <1>3, IdleKeeps
  <1> QED
    BY <1>2, <1>3, <1>5, <1>6, RunsFlush DEF StillSound, SameFlush

\* Without a token the run fails, and nothing is promised any more.
LEMMA TokenInvalidFlushes ==
    ASSUME Typed, Typed', FlushFit, NEW s \in Sync, TokenInvalid(s)
    PROVE  FlushFit'
  <1>1. /\ UNCHANGED <<file, unsent, now, queue>> /\ Settle(s) /\ failures' # 0
        /\ FileGrows /\ StillSound
    BY DEF TokenInvalid, disk, Fail, Typed, FileGrows, DiskOK, StillSound
  <1>2. run'[s].pc = "idle" /\ \A q \in Sync : q # s => run'[q] = run[q]
    BY <1>1 DEF Settle, Idle, Typed, RunsOK, GoodRuns
  <1>3. QueueFit'
    BY <1>1, SettleMarks, MarksQueue DEF FlushFit
  <1>4. ASSUME NEW q \in Sync PROVE WorkSaved(q)'
    BY <1>1, <1>2, IdleKeeps, SameFlushKeeps DEF FlushFit, SameFlush
  <1> QED
    BY <1>1, <1>3, <1>4 DEF FlushFit

\* A run that has read the git state takes its first task.
LEMMA GitStateFlushes ==
    ASSUME Typed, Typed', FlushFit, NEW s \in Sync, GitStateRead(s)
    PROVE  FlushFit'
  <1>1. run[s] \in RunStates /\ run[s].pc = "git"
        /\ UNCHANGED <<file, unsent, now, queue, failures>>
    BY DEF Typed, RunsOK, GoodRuns, GitStateRead, disk
  <1> DEFINE r == [run[s] EXCEPT !.git = gitNow]
             todo == run[s].todo
  <1>2. r \in RunStates /\ todo \in Seq(Task)
    BY <1>1 DEF RunStates, Typed, GitOK
  <1>3. Proceed(s, r, todo)
    BY DEF GitStateRead
  <1>4. \A i \in ToSet(items) : Ahead(s, i) => i.task \in ToSet(todo)
    BY <1>1 DEF Ahead, OnTask
  <1> HIDE DEF r, todo
  <1> QED
    BY <1>1, <1>2, <1>3, <1>4, ProceedFlushes

\* A run is done with its task: a call failed, or nothing of it is left to send.
TaskOver(s) ==
    \/ Fail
    \/ /\ UNCHANGED failures
       /\ \/ run[s].pc = "git upload"
          \/ run[s].pc = "uploading" /\ DOMAIN run[s].sending = {}

\* A run is done with a task when nothing of it is ahead.
LEMMA NextTaskFlushes ==
    ASSUME Typed, Typed', FlushFit, NEW s \in Sync, run[s].pc \in OnTask, NextTask(s),
           UNCHANGED <<file, unsent, now, queue>>, TaskOver(s)
    PROVE  FlushFit'
  <1>1. run[s] \in RunStates /\ RunFits(run[s]) /\ TaskOf(s) \in Task
    BY TaskOfGood DEF Typed
  <1> DEFINE todo == Tail(run[s].todo)
  <1>2. todo \in Seq(Task)
    <2>1. run[s].todo \in Seq(Task) /\ run[s].todo # <<>>
      BY <1>1 DEF RunStates, RunFits
    <2> QED
      BY <2>1
  <1>3. Proceed(s, run[s], todo)
    BY DEF NextTask
  <1>4. CASE Fail
    <2>1. failures' # 0
      <3>1. failures \in 0 .. MaxFailures /\ failures' = failures + 1
        BY <1>4 DEF Fail, Typed
      <3> QED
        BY <3>1
    <2> HIDE DEF todo
    <2> QED
      BY <1>1, <1>2, <1>3, <2>1, ProceedFlushes
  <1>5. CASE /\ UNCHANGED failures
             /\ \/ run[s].pc = "git upload"
                \/ run[s].pc = "uploading" /\ DOMAIN run[s].sending = {}
    <2>1. \A i \in ToSet(items) : Ahead(s, i) => i.task \in ToSet(todo)
      BY <1>5 DEF Ahead
    <2> HIDE DEF todo
    <2> QED
      BY <1>1, <1>2, <1>3, <1>5, <2>1, ProceedFlushes
  <1> QED
    BY <1>4, <1>5 DEF TaskOver

\* The session is there: the files of the task are to be read.
LEMMA SessionFlushes ==
    ASSUME Typed, Typed', FlushFit, NEW s \in Sync, SessionUpdated(s) \/ SessionCreated(s)
    PROVE  FlushFit'
  <1>1. run \in [Sync -> RunStates] /\ run[s] \in RunStates
    BY DEF Typed, RunsOK, GoodRuns
  <1>2. /\ UNCHANGED <<file, unsent, now, queue, caller, failures>> /\ UNCHANGED items
        /\ run[s].pc = "session"
    BY DEF SessionUpdated, SessionCreated, disk, calls, queue
  <1>3. PICK id : run' = [run EXCEPT ![s].pc = "reading", ![s].session = id, ![s].live = FALSE]
    BY DEF SessionUpdated, SessionCreated, StartReading
  <1>4. /\ run'[s].pc = "reading" /\ run'[s].todo = run[s].todo
        /\ run'[s].names = run[s].names /\ run'[s].read = run[s].read
        /\ \A q \in Sync : q # s => run'[q] = run[q]
    BY <1>1, <1>3 DEF RunStates
  <1>5. TaskOf(s)' = TaskOf(s)
    BY <1>4 DEF TaskOf
  <1>6. AheadKept(s)
    BY <1>2, <1>4, <1>5 DEF AheadKept, Ahead, OnTask
  <1>7. WorkSaved(s)'
    BY <1>2, <1>4, <1>5 DEF FlushFit, WorkSaved
  <1> QED
    BY <1>2, <1>4, <1>6, <1>7, RunsFlush DEF StillSound, SameFlush

\* What is read of a saved file is a version, unless the read fails.
LEMMA ReadFlushes ==
    ASSUME Typed, Typed', FlushFit, NEW s \in Sync, NEW b \in Blob,
           FileRead(s, b) \/ FileUnreadable(s, b)
    PROVE  FlushFit'
  <1>1. /\ UNCHANGED <<file, unsent, now, queue, caller>> /\ UNCHANGED items
        /\ run[s].pc = "reading" /\ b \in run[s].names
        /\ UNCHANGED failures \/ failures' = failures + 1
    BY DEF FileRead, FileUnreadable, disk, calls, queue, Fail
  <1>2. PICK v \in {Unread, file[TaskOf(s)][b]} :
             /\ v = file[TaskOf(s)][b] \/ Fail
             /\ run'[s].pc = "reading" /\ run'[s].todo = run[s].todo
             /\ run'[s].names = run[s].names
             /\ run'[s].sending = run[s].sending
             /\ run'[s].read = Known(run[s].read, b, v)
             /\ \A q \in Sync : q # s => run'[q] = run[q]
    BY ReadWork
  <1>3. TaskOf(s)' = TaskOf(s) /\ StillSound
    BY <1>1, <1>2 DEF TaskOf, StillSound, Typed
  <1>4. AheadKept(s)
    BY <1>1, <1>2, <1>3 DEF AheadKept, Ahead, OnTask
  <1>5. 0 < file[TaskOf(s)][b] /\ TaskOf(s) \in Task
    BY <1>1, TaskOfGood DEF FlushFit, WorkSaved, Typed, OnTask
  <1>6. ASSUME failures' = 0, NEW c \in DOMAIN run'[s].read PROVE run'[s].read[c] # 0
    <2>1. failures = 0 /\ ~Fail
      BY <1>3, <1>6 DEF StillSound, Fail
    <2>2. v # 0
      BY <1>2, <1>5, <2>1, FileType
    <2>3. \A d \in DOMAIN run[s].read : run[s].read[d] # 0
      BY <1>1, <2>1 DEF FlushFit, WorkSaved
    <2> QED
      BY <1>2, <2>2, <2>3 DEF Known
  <1>7. WorkSaved(s)'
    BY <1>1, <1>2, <1>3, <1>6 DEF FlushFit, WorkSaved
  <1> QED
    BY <1>1, <1>2, <1>3, <1>4, <1>7, RunsFlush DEF SameFlush

\* Every file with an item is sent, under a time that covers the item.
LEMMA UploadsStartFlushes ==
    ASSUME Typed, Typed', FlushFit, NEW s \in Sync, UploadsStart(s)
    PROVE  FlushFit'
  <1>0. run[s].pc \in OnTask
    BY DEF UploadsStart, OnTask
  <1>1. run \in [Sync -> RunStates] /\ run[s] \in RunStates /\ TaskOf(s) \in Task
    BY <1>0, TaskOfGood DEF Typed, RunsOK, GoodRuns
  <1>2. /\ UNCHANGED <<file, unsent, now, queue, caller, failures>> /\ UNCHANGED items
        /\ run[s].pc = "reading" /\ DOMAIN run[s].read = run[s].names
    BY DEF UploadsStart, disk, calls, queue
  <1> DEFINE t == TaskOf(s)
             sent == {b \in run[s].names : blobIndex[t][b] # NoItem /\ run[s].read[b] # Unread}
             sending == [b \in sent |-> [version |-> run[s].read[b], time |-> blobIndex[t][b].time]]
             new == [run[s] EXCEPT !.pc = "uploading", !.sending = sending]
  <1>3. run' = [run EXCEPT ![s] = new]
    BY DEF UploadsStart
  <1>4. /\ DOMAIN sending = sent
        /\ \A b \in sent : sending[b].time = blobIndex[t][b].time
    OBVIOUS
  <1>5. ASSUME failures = 0, NEW i \in ToSet(items), i.task = t, i.blob \in run[s].names
        PROVE  i.blob \in sent /\ i.time <= sending[i.blob].time
    <2>1. blobIndex[t][i.blob] \in Items /\ i.time <= blobIndex[t][i.blob].time
      BY <1>5, IndexedItem DEF FlushFit, QueueFit, Newest
    <2>2. blobIndex[t][i.blob] # NoItem
      BY <2>1, ConstantsOK
    <2>3. run[s].read[i.blob] # Unread
      BY <1>2, <1>5 DEF FlushFit, WorkSaved, Unread
    <2> QED
      BY <1>4, <1>5, <2>1, <2>2, <2>3
  <1> HIDE DEF sending, sent
  <1>6. new.pc = "uploading" /\ new.todo = run[s].todo /\ new.sending = sending
    BY <1>1 DEF RunStates
  <1> HIDE DEF new
  <1>7. run'[s] = new /\ \A q \in Sync : q # s => run'[q] = run[q]
    BY <1>1, <1>3
  <1>8. TaskOf(s)' = t
    BY <1>6, <1>7 DEF TaskOf
  <1>9. failures' = 0 => AheadKept(s)
    <2> SUFFICES ASSUME failures = 0, NEW i \in ToSet(items), Ahead(s, i)
                 PROVE  Ahead(s, i)'
      BY <1>2 DEF AheadKept
    <2>1. \/ i.task \in ToSet(Tail(run[s].todo))
          \/ i.task = t /\ i.blob \in run[s].names
      BY <1>2 DEF Ahead
    <2> QED
      BY <1>4, <1>5, <1>6, <1>7, <1>8, <2>1 DEF Ahead, OnTask
  <1>10. WorkSaved(s)'
    BY <1>6, <1>7 DEF WorkSaved
  <1> QED
    BY <1>2, <1>7, <1>9, <1>10, RunsFlush DEF StillSound, SameFlush

\* The answer to one upload: the run waits for the others, and the other runs
\* are cut off from the array at most.
LEMMA AnsweredFlush ==
    ASSUME Typed, NEW s \in Sync, NEW b, NEW t, Answered(CutOff(t), s, b) \/ Answered(run, s, b)
    PROVE  /\ run'[s].pc = run[s].pc /\ run'[s].todo = run[s].todo
           /\ DOMAIN run'[s].sending = DOMAIN run[s].sending \ {b}
           /\ \A c \in DOMAIN run[s].sending \ {b} : run'[s].sending[c] = run[s].sending[c]
           /\ \A q \in Sync : q # s => SameFlush(q)
  <1>1. run \in [Sync -> RunStates]
    BY DEF Typed, RunsOK, GoodRuns
  <1>2. CutOff(t) \in [Sync -> RunStates]
    BY CutOffGood DEF Typed, GoodRuns
  <1>3. \A q \in Sync : /\ CutOff(t)[q].pc = run[q].pc /\ CutOff(t)[q].todo = run[q].todo
                        /\ CutOff(t)[q].read = run[q].read
                        /\ CutOff(t)[q].names = run[q].names
                        /\ CutOff(t)[q].sending = run[q].sending
    BY <1>1 DEF CutOff, RunStates
  <1>4. PICK runs \in [Sync -> RunStates] :
          /\ Answered(runs, s, b)
          /\ \A q \in Sync : /\ runs[q].pc = run[q].pc /\ runs[q].todo = run[q].todo
                             /\ runs[q].read = run[q].read
                             /\ runs[q].names = run[q].names
                             /\ runs[q].sending = run[q].sending
    BY <1>1, <1>2, <1>3
  <1>5. \A q \in Sync : q # s => run'[q] = runs[q]
    BY <1>4 DEF Answered
  <1>6. \A q \in Sync : q # s => SameFlush(q)
    BY <1>4, <1>5 DEF SameFlush
  <1>7. /\ run'[s].pc = run[s].pc /\ run'[s].todo = run[s].todo
        /\ DOMAIN run'[s].sending = DOMAIN run[s].sending \ {b}
        /\ \A c \in DOMAIN run[s].sending \ {b} : run'[s].sending[c] = run[s].sending[c]
    BY AnsweredWork
  <1> QED
    BY <1>6, <1>7

\* The items an upload stands for are gone, and the others still ahead.
LEMMA UploadReturnsFlushes ==
    ASSUME Typed, Typed', FlushFit, NEW s \in Sync, NEW b \in Blob, UploadReturns(s, b)
    PROVE  FlushFit'
  <1>0. run[s].pc \in OnTask
    BY DEF UploadReturns, OnTask
  <1>1. run[s] \in RunStates /\ RunFits(run[s]) /\ TaskOf(s) \in Task
    BY <1>0, TaskOfGood DEF Typed
  <1>2. PICK t \in Task : t = TaskOf(s)
    BY <1>1
  <1>3. PICK time \in Nat : time = run[s].sending[b].time
    BY <1>1 DEF UploadReturns, RunStates, Uploads
  <1>4. /\ RemoveProcessedItems(t, b, time) /\ Answered(CutOff(t), s, b)
        /\ UNCHANGED <<file, unsent, now, caller, failures>> /\ run[s].pc = "uploading"
    BY <1>2, <1>3 DEF UploadReturns, disk, calls
  <1>5. QueueFit'
    BY <1>4, UploadReturnsQueues DEF FlushFit
  <1>6. ToSet(items') = {i \in ToSet(items) : ~(i.task = t /\ i.blob = b /\ i.time <= time)}
    BY <1>4, RemovedQueued
  <1>7. /\ run'[s].pc = run[s].pc /\ run'[s].todo = run[s].todo
        /\ DOMAIN run'[s].sending = DOMAIN run[s].sending \ {b}
        /\ \A c \in DOMAIN run[s].sending \ {b} : run'[s].sending[c] = run[s].sending[c]
        /\ \A q \in Sync : q # s => SameFlush(q)
    BY <1>4, AnsweredFlush
  <1>8. TaskOf(s)' = t
    BY <1>2, <1>7 DEF TaskOf
  <1>9. AheadKept(s)
    <2> SUFFICES ASSUME NEW i \in ToSet(items) \cap ToSet(items'), Ahead(s, i)
                 PROVE  Ahead(s, i)'
      BY DEF AheadKept
    <2>1. CASE i.task \in ToSet(Tail(run[s].todo))
      BY <1>0, <1>7, <2>1 DEF Ahead
    <2>2. CASE /\ i.task = t /\ i.blob \in DOMAIN run[s].sending
               /\ i.time <= run[s].sending[i.blob].time
      <3>1. i.blob # b
        BY <1>3, <1>6, <2>2
      <3> QED
        BY <1>4, <1>7, <1>8, <2>2, <3>1 DEF Ahead
    <2> QED
      BY <1>2, <1>4, <2>1, <2>2 DEF Ahead
  <1>10. WorkSaved(s)'
    BY <1>4, <1>7 DEF WorkSaved
  <1>11. FileGrows /\ StillSound /\ NothingMarked
    BY <1>4, <1>6 DEF FileGrows, StillSound, NothingMarked, Typed, DiskOK
  <1>12. ASSUME NEW q \in Sync PROVE WorkSaved(q)' /\ AheadKept(q)
    BY <1>7, <1>9, <1>10, <1>11, SameFlushKeeps DEF FlushFit
  <1>13. ASSUME failures' = 0, NEW f \in Forced PROVE Flushed(f)'
    BY <1>4, <1>11, <1>12, <1>13, FlushedStays DEF FlushFit
  <1> QED
    BY <1>5, <1>12, <1>13 DEF FlushFit

\* A failed upload keeps its items, and nothing is promised any more.
LEMMA UploadFailsFlushes ==
    ASSUME Typed, Typed', FlushFit, NEW s \in Sync, NEW b \in Blob, UploadFails(s, b)
    PROVE  FlushFit'
  <1>1. /\ UNCHANGED <<file, unsent, now, queue, caller>> /\ Answered(run, s, b)
        /\ run[s].pc = "uploading" /\ Fail
    BY DEF UploadFails, disk, calls
  <1>2. failures' # 0
    <2>1. failures \in 0 .. MaxFailures /\ failures' = failures + 1
      BY <1>1 DEF Fail, Typed
    <2> QED
      BY <2>1
  <1>3. run'[s].pc = run[s].pc /\ \A q \in Sync : q # s => SameFlush(q)
    BY <1>1, AnsweredFlush
  <1>4. WorkSaved(s)'
    BY <1>1, <1>3 DEF WorkSaved
  <1> QED
    BY <1>1, <1>2, <1>3, <1>4, RunsFlush DEF StillSound

\* With every upload answered the task has nothing ahead.
LEMMA UploadsDoneFlushes ==
    ASSUME Typed, Typed', FlushFit, NEW s \in Sync, UploadsDone(s)
    PROVE  FlushFit'
  <1>0. UNCHANGED <<file, unsent, now, queue, failures>> /\ UNCHANGED items
    BY DEF UploadsDone, disk, queue
  <1>1. /\ UNCHANGED <<file, unsent, now, queue, failures>> /\ UNCHANGED items
        /\ run[s].pc = "uploading" /\ DOMAIN run[s].sending = {}
    <2>1. run[s].pc = "uploading" /\ run[s].sending = <<>>
      BY DEF UploadsDone
    <2> QED
      BY <1>0, <2>1
  <1>2. CASE NextTask(s)
    <2>1. run[s].pc \in OnTask /\ TaskOver(s)
      BY <1>1 DEF OnTask, TaskOver
    <2> QED
      BY <1>1, <1>2, <2>1, NextTaskFlushes
  <1>3. CASE run' = [run EXCEPT ![s].pc = "git upload"] /\ UNCHANGED calls
    <2>1. run \in [Sync -> RunStates] /\ run[s] \in RunStates /\ UNCHANGED caller
      BY <1>3 DEF Typed, RunsOK, GoodRuns, calls
    <2>2. /\ run'[s].pc = "git upload" /\ run'[s].todo = run[s].todo
          /\ \A q \in Sync : q # s => run'[q] = run[q]
      BY <1>3, <2>1 DEF RunStates
    <2>3. AheadKept(s) /\ WorkSaved(s)'
      BY <1>1, <2>2 DEF AheadKept, Ahead, OnTask, WorkSaved
    <2> QED
      BY <1>1, <2>1, <2>2, <2>3, RunsFlush DEF StillSound, SameFlush
  <1> QED
    BY <1>2, <1>3 DEF UploadsDone

\* The same for a task that ends with its git state, or with a failure.
LEMMA TaskEndsFlush ==
    ASSUME Typed, Typed', FlushFit, NEW s \in Sync,
           SessionFails(s) \/ GitUploaded(s) \/ GitUploadFails(s)
    PROVE  FlushFit'
  <1>1. /\ UNCHANGED <<file, unsent, now, queue>> /\ NextTask(s)
        /\ run[s].pc \in OnTask
    BY DEF SessionFails, GitUploaded, GitUploadFails, disk, OnTask
  <1>2. TaskOver(s)
    BY DEF SessionFails, GitUploaded, GitUploadFails, TaskOver
  <1> QED
    BY <1>1, <1>2, NextTaskFlushes

\* A save queues nothing yet.
LEMMA SaveFileFlushes ==
    ASSUME Typed, Typed', FlushFit, NEW t \in Task, NEW b \in Blob, SaveFile(t, b)
    PROVE  FlushFit'
  <1>1. /\ UNCHANGED <<run, items, caller, failures>>
        /\ file' = [file EXCEPT ![t][b] = @ + 1]
    BY DEF SaveFile, queue, calls
  <1>2. FileGrows /\ StillSound /\ NothingMarked
    BY <1>1 DEF FileGrows, StillSound, NothingMarked, Typed, DiskOK
  <1>3. ASSUME NEW s \in Sync PROVE WorkSaved(s)' /\ AheadKept(s)
    BY <1>1, <1>2, SameFlushKeeps DEF FlushFit, SameFlush
  <1>4. ASSUME failures' = 0, NEW f \in Forced PROVE Flushed(f)'
    BY <1>1, <1>2, <1>3, <1>4, FlushedStays DEF FlushFit
  <1> QED
    BY <1>3, <1>4, SaveFileQueues DEF FlushFit

\* The steps that no run takes leave what is ahead alone.
LEMMA OthersFlush ==
    ASSUME Typed, Typed', FlushFit, NEW t,
           Share(t) \/ GitChanges \/ UNCHANGED vars
    PROVE  FlushFit'
  <1>1. UNCHANGED <<file, unsent, now, queue, caller, run>> /\ StillSound
    <2>1. CASE Share(t)
      <3>1. UNCHANGED failures \/ Fail
        BY <2>1 DEF Share, ShareFindsSession, ShareFindsNone, ShareReadsFiles,
                    ShareCreatesSession, ShareUploadsHistory,
                    ShareUploadsMessages, ShareFails
      <3>2. failures \in 0 .. MaxFailures
        BY DEF Typed
      <3>3. StillSound
        BY <3>1, <3>2 DEF StillSound, Fail
      <3>4. UNCHANGED <<disk, queue, calls, run>>
        BY <2>1 DEF Share, ShareFindsSession, ShareFindsNone, ShareReadsFiles,
                    ShareCreatesSession, ShareUploadsHistory, ShareUploadsMessages, ShareFails
      <3> QED
        BY <3>3, <3>4 DEF disk, calls
    <2>2. CASE GitChanges \/ UNCHANGED vars
      BY <2>2 DEF GitChanges, vars, disk, calls, StillSound
    <2> QED
      BY <2>1, <2>2
  <1> QED
    BY <1>1, RunsFlush DEF SameFlush

\* Nothing is marked at first,
LEMMA InitFlushes == Init => FlushFit
  <1> SUFFICES ASSUME Init PROVE FlushFit
    OBVIOUS
  <1>1. ToSet(items) = {} /\ unsent = {}
    BY DEF Init, ToSet
  <1>2. \A f \in Forced : caller[f].pc = "uncalled" /\ caller[f].mark = {}
    BY DEF Init
  <1>3. \A s \in Sync : run[s].pc = "idle"
    BY DEF Init, Idle
  <1> QED
    BY <1>1, <1>2, <1>3
       DEF FlushFit, QueueFit, SavedFiles, Newest, Old, WorkSaved, Flushed

\* and what is marked is gone, or ahead of the run it waits for.
LEMMA NextFlushes ==
    ASSUME Typed, Typed', FlushFit, [Next]_vars
    PROVE  FlushFit'
  <1>1. ASSUME NEW s \in Sync, RunStep(s) PROVE FlushFit'
    BY <1>1, TokenValidFlushes, GitStateFlushes, SessionFlushes, ReadFlushes,
       UploadReturnsFlushes, UploadsStartFlushes, UploadsDoneFlushes, TaskEndsFlush DEF RunStep
  <1>2. ASSUME NEW s \in Sync, RunFails(s) PROVE FlushFit'
    BY <1>2, TokenInvalidFlushes, TaskEndsFlush, ReadFlushes, UploadFailsFlushes DEF RunFails
  <1>3. CASE Next
    BY <1>1, <1>2, <1>3, SaveFileFlushes, FileUpdatedFlushes, RequestsFlush, OthersFlush
       DEF Next
  <1>4. CASE UNCHANGED vars
    BY <1>4, OthersFlush
  <1> QED
    BY <1>3, <1>4

\* When doSync(true) returns, everything queued before the call is gone from
\* the queue, unless a call has failed: whatever other runs and saves come in
\* between, for every number of files, tasks, runs and forced calls.
THEOREM FlushesAll == Spec => []ForcedSyncFlushes
  <1>1. Init => Typed /\ FlushFit
    BY InitTyped, InitFlushes
  <1>2. Typed /\ FlushFit /\ [Next]_vars => Typed' /\ FlushFit'
    BY NextTyped, NextFlushes
  <1>3. Typed /\ FlushFit => ForcedSyncFlushes
    BY DEF FlushFit, Flushed, ForcedSyncFlushes
  <1> QED
    BY <1>1, <1>2, <1>3, PTL DEF Spec
=============================================================================
