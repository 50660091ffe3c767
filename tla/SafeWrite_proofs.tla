-------------------------- MODULE SafeWrite_proofs --------------------------
(* Proofs about SafeWrite, for any number of calls and any number of failures. *)
(*                                                                             *)
(* LatestSurvives is not inductive: it does not say which backup holds the     *)
(* latest text, nor that its call is not about to delete it.  IInv adds that a *)
(* call inside holds the lock, so nobody else changes the file, and that a     *)
(* backup that stands for the file belongs to a call that has still to commit  *)
(* or to roll back, or that has crashed.                                       *)
EXTENDS SafeWrite, TLAPS

\* A call at work on the file holds the lock.
LockHeld == \A w \in Writer : pc[w] \in Inside => holder = w

\* Before a call has moved the file aside it has no backup.
NoBackupYet ==
    \A w \in Writer :
      pc[w] \in {"idle", "locking", "writing", "moving"} =>
        bak[w] = None /\ ~kept[w]

\* Between the move and the commit or the rollback the backup is the latest.
BackupIsLatest ==
    \A w \in Writer :
      pc[w] \in {"committing", "failed"} /\ bak[w] # None =>
        bak[w] = latest /\ target = None

FailureCounted == \A w \in Writer : pc[w] = "failed" => failures >= 1

\* When the file is not the latest it is missing, and a call that can still
\* roll back, or that crashed, has the latest as its backup.
Recoverable ==
    /\ target \in {latest, None}
    /\ failures <= 1 /\ target # latest =>
         \E w \in Writer : /\ bak[w] = latest
                           /\ pc[w] \in {"committing", "failed", "crashed"}

IInv == /\ TypeOK
        /\ LockHeld
        /\ NoBackupYet
        /\ BackupIsLatest
        /\ FailureCounted
        /\ Recoverable

-----------------------------------------------------------------------------

LEMMA InitInv == Init => IInv
BY ValuesDiffer, FailuresNat
DEF Init, IInv, TypeOK, LockHeld, NoBackupYet, BackupIsLatest, FailureCounted,
    Recoverable, Text, Inside, Over

\* What Fail does to the count.
LEMMA FailCounts ==
    ASSUME failures \in 0..MaxFailures, Fail
    PROVE  failures' \in 0..MaxFailures /\ failures' = failures + 1
BY FailuresNat DEF Fail

Place == {"idle", "locking"} \cup Inside \cup Over

\* Where a call goes is a place, and the other calls stay where they are.
LEMMA GotoMoves ==
    ASSUME pc \in [Writer -> Place], NEW w \in Writer, NEW from, NEW to \in Place,
           Goto(w, from, to)
    PROVE  /\ pc' \in [Writer -> Place]
           /\ pc[w] = from /\ pc'[w] = to
           /\ \A v \in Writer : v # w => pc'[v] = pc[v]
BY DEF Goto

LEMMA TypeStep ==
    ASSUME TypeOK, NEW w \in Writer, Call(w) \/ Step(w) \/ Crash(w)
    PROVE  TypeOK'
<1>0. \A p \in {"idle", "locking", "writing", "moving", "committing", "dropping",
                "failed", "cleaning new", "cleaning bak", "unlocking ok",
                "unlocking error", "resolved", "rejected", "crashed"} : p \in Place
  BY DEF Place, Inside, Over
<1>t. pc \in [Writer -> Place] BY DEF TypeOK, Place
<1>1. pc' \in [Writer -> Place]
  <2>1. CASE Call(w)
    BY <1>0, <1>t, <2>1, GotoMoves DEF Call
  <2>2. CASE Crash(w)
    BY <1>0, <1>t, <2>2 DEF Crash
  <2>3. CASE Step(w)
    BY <1>0, <1>t, <2>3, GotoMoves 
    DEF Step, Acquire, GiveUp, Release, WriteNew, MoveAside, MoveAsideFails, Commit,
        CommitFails, DropBackup, RollBack, CleanNew, CleanBackup
  <2> QED BY <2>1, <2>2, <2>3
<1>2. failures' \in 0..MaxFailures
  BY FailCounts
  DEF TypeOK, Call, Crash, Step, Acquire, GiveUp, Release, WriteNew, MoveAside, MoveAsideFails, Commit,
        CommitFails, DropBackup, RollBack, CleanNew, CleanBackup
<1>3. holder' \in Writer \cup {None}
  BY 
  DEF TypeOK, Call, Crash, Step, Acquire, GiveUp, Release, WriteNew, MoveAside, MoveAsideFails, Commit,
        CommitFails, DropBackup, RollBack, CleanNew, CleanBackup
<1>4. target' \in Text \cup {None} /\ latest' \in Text \cup {None}
  <2>1. target' \in Text \cup {None}
    BY DEF TypeOK, Text, Call, Crash, Step, Acquire, GiveUp, Release, WriteNew, MoveAside,
           MoveAsideFails, Commit, CommitFails, DropBackup, RollBack, CleanNew, CleanBackup
  <2>2. latest' \in Text \cup {None}
    BY DEF TypeOK, Text, Call, Crash, Step, Acquire, GiveUp, Release, WriteNew, MoveAside,
           MoveAsideFails, Commit, CommitFails, DropBackup, RollBack, CleanNew, CleanBackup
  <2> QED BY <2>1, <2>2
<1>5. new' \in [Writer -> {"none", "partial", "whole"}]
  BY 
  DEF TypeOK, Call, Crash, Step, Acquire, GiveUp, Release, WriteNew, MoveAside, MoveAsideFails, Commit,
        CommitFails, DropBackup, RollBack, CleanNew, CleanBackup
<1>6. bak' \in [Writer -> Text \cup {None}] /\ kept' \in [Writer -> BOOLEAN]
  BY 
  DEF TypeOK, Call, Crash, Step, Acquire, GiveUp, Release, WriteNew, MoveAside, MoveAsideFails, Commit,
        CommitFails, DropBackup, RollBack, CleanNew, CleanBackup
<1>7. \A v \in Writer : bak'[v] # None => kept'[v]
  BY 
  DEF TypeOK, Call, Crash, Step, Acquire, GiveUp, Release, WriteNew, MoveAside, MoveAsideFails, Commit,
        CommitFails, DropBackup, RollBack, CleanNew, CleanBackup
<1> QED
  BY <1>1, <1>2, <1>3, <1>4, <1>5, <1>6, <1>7 DEF TypeOK, Place

\* Only a call that takes the lock comes inside, and only when nobody is.
LEMMA LockStep ==
    ASSUME TypeOK, LockHeld, NEW w \in Writer, Call(w) \/ Step(w) \/ Crash(w)
    PROVE  LockHeld'
<1> SUFFICES ASSUME NEW v \in Writer, pc'[v] \in Inside PROVE holder' = v
  BY DEF LockHeld
<1>1. CASE Acquire(w)
  BY <1>1, ValuesDiffer DEF Acquire, Goto, TypeOK, LockHeld
<1>2. CASE Release(w)
  BY <1>2 DEF Release, Goto, TypeOK, LockHeld, Inside
<1>3. CASE ~Acquire(w) /\ ~Release(w)
  <2>1. holder' = holder
    BY <1>3 DEF Call, Crash, Step, GiveUp, WriteNew, MoveAside,
       MoveAsideFails, Commit, CommitFails, DropBackup, RollBack, CleanNew, CleanBackup
  <2>2. pc[v] \in Inside
    BY <1>3 DEF TypeOK, Inside, Goto, Call, Crash, Step, GiveUp, WriteNew, MoveAside,
       MoveAsideFails, Commit, CommitFails, DropBackup, RollBack, CleanNew, CleanBackup
  <2> QED BY <2>1, <2>2 DEF LockHeld
<1> QED BY <1>1, <1>2, <1>3

LEMMA NoBackupStep ==
    ASSUME TypeOK, NoBackupYet, NEW w \in Writer, Call(w) \/ Step(w) \/ Crash(w)
    PROVE  NoBackupYet'
<1> DEFINE Early == {"idle", "locking", "writing", "moving"}
<1> SUFFICES ASSUME NEW v \in Writer, pc'[v] \in Early
             PROVE  bak'[v] = None /\ ~kept'[v]
  BY DEF NoBackupYet
<1>1. pc[v] \in Early
  BY DEF TypeOK, Goto, Call, Crash, Step, Acquire, GiveUp, Release, WriteNew,
     MoveAside, MoveAsideFails, Commit, CommitFails, DropBackup, RollBack, CleanNew,
     CleanBackup
<1>2. bak'[v] = bak[v] /\ kept'[v] = kept[v]
  BY <1>1 DEF TypeOK, Goto, Call, Crash, Step, Acquire, GiveUp, Release, WriteNew,
     MoveAside, MoveAsideFails, Commit, CommitFails, DropBackup, RollBack, CleanNew,
     CleanBackup
<1> QED BY <1>1, <1>2 DEF NoBackupYet

\* While a call is between the move and the end of its error path, nobody else
\* touches the file.
LEMMA LatestStep ==
    ASSUME TypeOK, LockHeld, NoBackupYet, BackupIsLatest,
           target \in {latest, None},
           NEW w \in Writer, Call(w) \/ Step(w) \/ Crash(w)
    PROVE  BackupIsLatest'
<1> DEFINE Held == {"committing", "failed"}
<1> SUFFICES ASSUME NEW v \in Writer, pc'[v] \in Held, bak'[v] # None
             PROVE  bak'[v] = latest' /\ target' = None
  BY DEF BackupIsLatest
<1>1. CASE v # w
  <2>1. pc[v] \in Held /\ bak'[v] = bak[v] 
    BY <1>1 DEF TypeOK, Goto, Call, Crash, Step, Acquire, GiveUp, Release, WriteNew,
       MoveAside, MoveAsideFails, Commit, CommitFails, DropBackup, RollBack, CleanNew,
       CleanBackup
  <2>2. pc[w] \notin {"moving", "committing", "failed"}
    BY <1>1, <2>1 DEF LockHeld, Inside
  <2>3. target' = target /\ latest' = latest
    BY <2>2 DEF Goto, Call, Crash, Step, Acquire, GiveUp, Release, WriteNew,
       MoveAside, MoveAsideFails, Commit, CommitFails, DropBackup, RollBack, CleanNew,
       CleanBackup
  <2> QED BY <2>1, <2>3 DEF BackupIsLatest
<1>2. CASE v = w
  <2>1. WriteNew(w) \/ MoveAside(w) \/ MoveAsideFails(w) \/ CommitFails(w)
    BY <1>2 DEF TypeOK, Goto, Call, Crash, Step, Acquire, GiveUp, Release, 
       Commit, DropBackup, RollBack, CleanNew, CleanBackup
  <2>2. CASE WriteNew(w)
    BY <1>2, <2>2 DEF WriteNew, Goto, NoBackupYet
  <2>3. CASE MoveAside(w)
    BY <1>2, <2>3 DEF MoveAside, Goto, NoBackupYet, TypeOK
  <2>4. CASE MoveAsideFails(w)
    BY <1>2, <2>4 DEF MoveAsideFails, Goto, NoBackupYet
  <2>5. CASE CommitFails(w)
    BY <1>2, <2>5 DEF CommitFails, Goto, BackupIsLatest
  <2> QED BY <2>1, <2>2, <2>3, <2>4, <2>5
<1> QED BY <1>1, <1>2

LEMMA FailureStep ==
    ASSUME TypeOK, FailureCounted, NEW w \in Writer, Call(w) \/ Step(w) \/ Crash(w)
    PROVE  FailureCounted' /\ failures <= failures'
<1>1. failures \in Nat
  BY FailuresNat DEF TypeOK
<1>2. failures' = failures \/ Fail
  BY DEF Call, Crash, Step, Acquire, GiveUp, Release, WriteNew, MoveAside,
     MoveAsideFails, Commit, CommitFails, DropBackup, RollBack, CleanNew, CleanBackup
<1>3. ASSUME NEW v \in Writer, pc'[v] = "failed" PROVE pc[v] = "failed" \/ Fail
  BY <1>3 DEF TypeOK, Goto, Call, Crash, Step, Acquire, GiveUp, Release, WriteNew,
     MoveAside, MoveAsideFails, Commit, CommitFails, DropBackup, RollBack, CleanNew,
     CleanBackup
<1>4. Fail => failures' = failures + 1
  BY DEF Fail
<1> QED BY <1>1, <1>2, <1>3, <1>4 DEF FailureCounted

\* The file goes missing only together with a backup of it, and the backup goes
\* only after it is the file again, or after a second failure.
LEMMA RecoverStep ==
    ASSUME IInv, NEW w \in Writer, Call(w) \/ Step(w) \/ Crash(w)
    PROVE  Recoverable'
<1> DEFINE Witness(v) == bak[v] = latest /\ pc[v] \in {"committing", "failed", "crashed"}
<1> USE DEF IInv
<1>1. failures \in Nat /\ failures' \in Nat /\ failures <= failures'
  BY TypeStep, FailureStep, FailuresNat DEF TypeOK
<1>2. CASE Commit(w)
  BY <1>2 DEF Commit, Recoverable
<1>3. CASE MoveAside(w)
  <2>1. target' \in {latest', None} /\ latest' = latest /\ failures' = failures
    BY <1>3 DEF MoveAside, Recoverable
  <2>2. CASE target = None
    <3>1. ASSUME failures <= 1, target # latest
          PROVE  \E v \in Writer : Witness(v) /\ v # w
      BY <3>1, <1>3 DEF Recoverable, MoveAside, Goto
    <3>2. ASSUME NEW v \in Writer, Witness(v), v # w PROVE Witness(v)'
      BY <3>2, <1>3, <2>2 DEF MoveAside, Goto, TypeOK
    <3>3. target' = target
      BY <1>3, <2>2 DEF MoveAside
    <3> QED BY <2>1, <3>1, <3>2, <3>3 DEF Recoverable
  <2>3. CASE target # None
    <3>1. target = latest
      BY <2>3 DEF Recoverable
    <3>2. Witness(w)'
      BY <1>3, <2>1, <2>3, <3>1 DEF MoveAside, Goto, TypeOK
    <3> QED BY <2>1, <3>2 DEF Recoverable
  <2> QED BY <2>2, <2>3
<1>4. CASE RollBack(w)
  <2>1. latest' = latest
    BY <1>4 DEF RollBack
  <2>2. pc[w] = "failed"
    BY <1>4 DEF RollBack, Goto
  <2>3. CASE Fail /\ target' = target
    <3>1. failures' = failures + 1 /\ failures >= 1
      BY <2>2, <2>3 DEF Fail, FailureCounted
    <3>2. ~(failures' <= 1)
      BY <1>1, <3>1
    <3> QED BY <2>1, <2>3, <3>2 DEF Recoverable
  <2>4. CASE bak[w] # None /\ target' = bak[w]
    BY <1>4, <2>1, <2>4 DEF RollBack, Goto, BackupIsLatest, Recoverable
  <2>5. CASE bak[w] = None
    <3>1. target' = target /\ bak' = bak /\ failures' = failures
      BY <1>4, <2>5 DEF RollBack
    <3>2. target \in {latest, None} /\ target' \in {latest', None}
      BY <2>1, <3>1 DEF Recoverable
    <3>3. ASSUME failures <= 1, target # latest
          PROVE  \E v \in Writer : Witness(v) /\ v # w
      BY <2>5, <3>2, <3>3 DEF Recoverable
    <3>4. ASSUME NEW v \in Writer, Witness(v), v # w PROVE Witness(v)'
      BY <3>4, <3>1, <2>1, <1>4 DEF RollBack, Goto, TypeOK
    <3> QED BY <2>1, <3>1, <3>2, <3>3, <3>4 DEF Recoverable
  <2>6. kept[w] \/ bak[w] = None
    BY DEF TypeOK
  <2> QED BY <1>4, <2>3, <2>4, <2>5, <2>6 DEF RollBack
<1>5. CASE ~Commit(w) /\ ~MoveAside(w) /\ ~RollBack(w)
  <2>1. target' = target /\ latest' = latest
    BY <1>5 DEF Call, Crash, Step, Acquire, GiveUp, Release, WriteNew,
       MoveAsideFails, CommitFails, DropBackup, CleanNew, CleanBackup
  <2>2. ASSUME NEW v \in Writer, Witness(v)
        PROVE  pc'[v] \in {"committing", "failed", "crashed"}
    BY <1>5, <2>2 DEF TypeOK, Goto, Call, Crash, Step, Acquire, GiveUp, Release, Over,
       WriteNew, MoveAsideFails, CommitFails, DropBackup, CleanNew, CleanBackup
  <2>3. ASSUME NEW v \in Writer, Witness(v) PROVE bak'[v] = bak[v]
    BY <1>5, <2>3 DEF TypeOK, Goto, Call, Crash, Step, Acquire, GiveUp, Release,
       WriteNew, MoveAsideFails, CommitFails, DropBackup, CleanNew, CleanBackup
  <2> QED BY <1>1, <2>1, <2>2, <2>3 DEF Recoverable
<1> QED BY <1>2, <1>3, <1>4, <1>5

-----------------------------------------------------------------------------

LEMMA InvStep == IInv /\ [Next]_vars => IInv'
<1> SUFFICES ASSUME IInv, [Next]_vars PROVE IInv'
  OBVIOUS
<1>1. CASE UNCHANGED vars
  BY <1>1 DEF vars, IInv, TypeOK, LockHeld, NoBackupYet, BackupIsLatest,
     FailureCounted, Recoverable
<1>2. ASSUME NEW w \in Writer, Call(w) \/ Step(w) \/ Crash(w) PROVE IInv'
  <2>1. TypeOK'         BY <1>2, TypeStep DEF IInv
  <2>2. LockHeld'       BY <1>2, LockStep DEF IInv
  <2>3. NoBackupYet'    BY <1>2, NoBackupStep DEF IInv
  <2>4. BackupIsLatest' BY <1>2, LatestStep DEF IInv, Recoverable
  <2>5. FailureCounted' BY <1>2, FailureStep DEF IInv
  <2>6. Recoverable'    BY <1>2, RecoverStep
  <2> QED BY <2>1, <2>2, <2>3, <2>4, <2>5, <2>6 DEF IInv
<1> QED BY <1>1, <1>2 DEF Next

THEOREM Inductive == Spec => []IInv
BY InitInv, InvStep, PTL DEF Spec

\* The variables keep their types, and a backup that exists is remembered.
THEOREM TypeCorrect == Spec => []TypeOK
BY Inductive, PTL DEF IInv

\* Two calls are never at work on the file at once: both would hold the lock.
THEOREM OneWriter == Spec => []OneWriterInside
<1>1. IInv => OneWriterInside
  BY DEF IInv, LockHeld, OneWriterInside
<1> QED BY <1>1, Inductive, PTL

\* With at most one failed operation, and with any number of crashes, the text
\* last put in place is the file or a backup.
THEOREM NothingLost == Spec => []LatestSurvives
<1>1. IInv => LatestSurvives
  BY DEF IInv, Recoverable, LatestSurvives
<1> QED BY <1>1, Inductive, PTL

\* With at most one failed operation and no call inside or crashed, the file is
\* the text last put in place.
THEOREM RestsWithLatest == Spec => []RestingFileIsLatest
<1>1. IInv => RestingFileIsLatest
  BY DEF IInv, TypeOK, Recoverable, RestingFileIsLatest, Inside
<1> QED BY <1>1, Inductive, PTL

-----------------------------------------------------------------------------
\* The refinement.  A step of a call moves its own stage only.

LEMMA StagesMove ==
    ASSUME pc \in [Writer -> Place], NEW w \in Writer,
           \A v \in Writer : v # w => pc'[v] = pc[v]
    PROVE  /\ Stages' = [Stages EXCEPT ![w] = Stage(w)']
           /\ Stages[w] = Stage(w)
           /\ Stage(w)' = Stage(w) => Stages' = Stages
<1>1. \A v \in Writer : v # w => Stage(v)' = Stage(v)
  BY DEF Stage
<1>2. /\ Stages = [v \in Writer |-> Stage(v)]
      /\ Stages' = [v \in Writer |-> Stage(v)']
  BY DEF Stages
<1> HIDE DEF Stage
<1> QED BY <1>1, <1>2

\* What the file holds, for a call inside: its backup, or the file itself.
LEMMA StandingInside ==
    ASSUME TypeOK, LockHeld, NEW w \in Writer, pc[w] \in Inside
    PROVE  Standing = IF pc[w] \in {"committing", "failed"} /\ bak[w] # None
                      THEN bak[w] ELSE target
BY ValuesDiffer DEF LockHeld, Standing

\* A call outside that goes outside or dies there does not change the file.
LEMMA StandingOutside ==
    ASSUME TypeOK, NEW w \in Writer, pc[w] \notin Inside, pc'[w] \notin Inside,
           \A v \in Writer : v # w => pc'[v] = pc[v],
           UNCHANGED <<holder, bak, target>>
    PROVE  Standing' = Standing
BY DEF TypeOK, Standing, Inside

LEMMA InitMaps == Init => File!FileInit
BY DEF Init, File!FileInit, Standing, Stages, Stage

\* Before and after the work on the file.
LEMMA OutsideMaps ==
    ASSUME IInv, IInv', NEW w \in Writer,
           Call(w) \/ Acquire(w) \/ GiveUp(w) \/ Release(w)
    PROVE  [File!FileNext]_(File!fileVars)
<1> USE DEF IInv
<1>0. pc \in [Writer -> Place] BY DEF TypeOK, Place
<1>1. \A v \in Writer : v # w => pc'[v] = pc[v]
  BY <1>0 DEF Call, Acquire, GiveUp, Release, Goto
<1>2. /\ Stages' = [Stages EXCEPT ![w] = Stage(w)']
      /\ Stages[w] = Stage(w)
      /\ Stage(w)' = Stage(w) => Stages' = Stages
  BY <1>0, <1>1, StagesMove
<1>3. failures' \in {failures, failures + 1}
  BY DEF Call, Acquire, GiveUp, Release, Fail
<1>4. CASE Call(w)
  <2>1. Standing' = Standing
    BY <1>4, <1>0, <1>1, StandingOutside DEF Call, Goto, Inside
  <2>2. CASE Goto(w, "idle", "locking") /\ UNCHANGED failures
    <3>1. Stage(w) = "idle" /\ Stage(w)' = "pending"
      BY <2>2, <1>0 DEF Goto, Stage
    <3> QED BY <2>1, <2>2, <3>1, <1>2 DEF File!FileNext, File!Begin, File!Turn
  <2>3. CASE Goto(w, "idle", "rejected")
    <3>1. Stage(w) = "idle" /\ Stage(w)' = "rejected"
      BY <2>3, <1>0 DEF Goto, Stage
    <3> QED BY <2>1, <3>1, <1>2, <1>3 DEF File!FileNext, File!Reject, File!Turn, File!MayErr
  <2> QED BY <1>4, <2>2, <2>3 DEF Call
<1>5. CASE Acquire(w)
  <2>1. Standing' = target' /\ Standing = target
    BY <1>5, <1>0 DEF Acquire, Goto, Standing, Inside
  <2>2. Stage(w)' = Stage(w)
    BY <1>5, <1>0 DEF Acquire, Goto, Stage
  <2> QED BY <1>2, <1>5, <2>1, <2>2 DEF File!fileVars, Acquire
<1>6. CASE GiveUp(w)
  <2>1. Standing' = Standing
    BY <1>6, <1>0, <1>1, StandingOutside DEF GiveUp, Goto, Inside
  <2>2. Stage(w) = "pending" /\ Stage(w)' = "rejected"
    BY <1>6, <1>0 DEF GiveUp, Goto, Stage
  <2> QED BY <1>2, <1>3, <2>1, <2>2 DEF File!FileNext, File!Reject, File!Turn, File!MayErr
<1>7. CASE Release(w)
  <2>1. Standing = target
    BY <1>7, <1>0, StandingInside DEF Release, Goto, Inside
  <2>2. Standing' = target'
    BY <1>7, <1>0, ValuesDiffer DEF Release, Goto, Standing, LockHeld, Inside
  <2>3. UNCHANGED target BY <1>7 DEF Release
  <2>4. \/ Stage(w) = "placed" /\ Stage(w)' = "resolved"
        \/ Stage(w) = "failing" /\ Stage(w)' = "rejected"
    BY <1>7, <1>0 DEF Release, Goto, Stage
  <2> QED
    BY <1>2, <1>3, <2>1, <2>2, <2>3, <2>4
    DEF File!FileNext, File!Resolve, File!Reject, File!Turn, File!MayErr
<1> QED BY <1>4, <1>5, <1>6, <1>7

\* An operation on the file, and an error of it, up to the commit.
LEMMA ForwardMaps ==
    ASSUME IInv, IInv', NEW w \in Writer,
           \/ WriteNew(w) \/ MoveAside(w) \/ MoveAsideFails(w)
           \/ Commit(w) \/ CommitFails(w) \/ DropBackup(w)
    PROVE  [File!FileNext]_(File!fileVars)
<1> USE DEF IInv
<1>0. pc \in [Writer -> Place] BY DEF TypeOK, Place
<1>1. /\ \A v \in Writer : v # w => pc'[v] = pc[v]
      /\ pc[w] \in Inside /\ pc'[w] \in Inside
  BY <1>0 DEF WriteNew, MoveAside, MoveAsideFails, Commit, CommitFails, DropBackup,
     Goto, Inside
<1>2. /\ Stages' = [Stages EXCEPT ![w] = Stage(w)']
      /\ Stages[w] = Stage(w)
      /\ Stage(w)' = Stage(w) => Stages' = Stages
  BY <1>0, <1>1, StagesMove
<1>3. failures' = failures \/ failures' = failures + 1
  BY DEF WriteNew, MoveAside, MoveAsideFails, Commit, CommitFails, DropBackup, Fail
<1>4. Standing = IF pc[w] \in {"committing", "failed"} /\ bak[w] # None
                 THEN bak[w] ELSE target
  BY <1>1, StandingInside
<1>5. Standing' = IF pc'[w] \in {"committing", "failed"} /\ bak'[w] # None
                  THEN bak'[w] ELSE target'
  BY <1>1, ValuesDiffer DEF LockHeld, Standing
<1>6. CASE Commit(w)
  <2>1. Stage(w) = "pending" /\ Stage(w)' = "placed"
    BY <1>6, <1>0 DEF Commit, Goto, Stage
  <2>2. Standing' = w /\ UNCHANGED failures
    BY <1>5, <1>6, <1>0 DEF Commit, Goto
  <2> QED BY <1>2, <2>1, <2>2 DEF File!FileNext, File!Put, File!Turn
<1>7. CASE ~Commit(w)
  <2>1. Stage(w)' = Stage(w)
    BY <1>7, <1>0
    DEF WriteNew, MoveAside, MoveAsideFails, CommitFails, DropBackup, Goto, Stage
  <2>2. Standing' = Standing
    BY <1>4, <1>5, <1>7, <1>0
    DEF WriteNew, MoveAside, MoveAsideFails, CommitFails, DropBackup, Goto,
        NoBackupYet, TypeOK
  <2> QED BY <1>2, <1>3, <2>1, <2>2 DEF File!FileNext, File!Err, File!fileVars
<1> QED BY <1>6, <1>7

\* The error path: only a rollback that fails too leaves the file missing.
LEMMA ErrorMaps ==
    ASSUME IInv, IInv', NEW w \in Writer,
           RollBack(w) \/ CleanNew(w) \/ CleanBackup(w)
    PROVE  [File!FileNext]_(File!fileVars)
<1> USE DEF IInv
<1>0. pc \in [Writer -> Place] BY DEF TypeOK, Place
<1>1. /\ \A v \in Writer : v # w => pc'[v] = pc[v]
      /\ pc[w] \in Inside /\ pc'[w] \in Inside \ {"committing", "failed"}
  BY <1>0 DEF RollBack, CleanNew, CleanBackup, Goto, Inside
<1>2. /\ Stages' = [Stages EXCEPT ![w] = Stage(w)']
      /\ Stages[w] = Stage(w)
      /\ Stage(w)' = Stage(w) => Stages' = Stages
  BY <1>0, <1>1, StagesMove
<1>3. failures' = failures \/ failures' = failures + 1
  BY DEF RollBack, CleanNew, CleanBackup, Fail
<1>4. Standing = IF pc[w] \in {"committing", "failed"} /\ bak[w] # None
                 THEN bak[w] ELSE target
  BY <1>1, StandingInside
<1>5. Standing' = target'
  BY <1>1, ValuesDiffer DEF LockHeld, Standing
<1>6. CASE RollBack(w)
  <2>1. Stage(w) = "pending" /\ Stage(w)' = "failing"
    BY <1>6, <1>0 DEF RollBack, Goto, Stage
  <2>2. pc[w] = "failed" BY <1>6 DEF RollBack, Goto
  <2>3. CASE Fail /\ target' = target /\ bak[w] # None
    <3>1. failures >= 1 /\ failures' = failures + 1
      BY <2>2, <2>3 DEF Fail, FailureCounted
    <3>2. target' = None
      BY <2>2, <2>3 DEF BackupIsLatest
    <3> QED
      BY <1>2, <1>5, <2>1, <3>1, <3>2 DEF File!FileNext, File!Abort, File!Turn
  <2>4. CASE Standing' = Standing /\ UNCHANGED failures
    BY <1>2, <2>1, <2>4 DEF File!FileNext, File!Abort, File!Turn
  <2>5. kept[w] \/ bak[w] = None
    BY DEF TypeOK
  <2> QED BY <1>4, <1>5, <1>6, <2>2, <2>3, <2>4, <2>5 DEF RollBack
<1>7. CASE ~RollBack(w)
  <2>1. Stage(w)' = Stage(w)
    BY <1>7, <1>0 DEF CleanNew, CleanBackup, Goto, Stage
  <2>2. Standing' = Standing
    BY <1>4, <1>5, <1>7 DEF CleanNew, CleanBackup, Goto
  <2> QED BY <1>2, <1>3, <2>1, <2>2 DEF File!FileNext, File!Err, File!fileVars
<1> QED BY <1>6, <1>7

\* A crash leaves the file, or only the backup of it.
LEMMA CrashMaps ==
    ASSUME IInv, IInv', NEW w \in Writer, Crash(w)
    PROVE  [File!FileNext]_(File!fileVars)
<1> USE DEF IInv
<1>0. pc \in [Writer -> Place] BY DEF TypeOK, Place
<1>1. /\ \A v \in Writer : v # w => pc'[v] = pc[v]
      /\ pc'[w] = "crashed" /\ UNCHANGED <<holder, bak, target, failures>>
  BY <1>0 DEF Crash
<1>2. Stages' = [Stages EXCEPT ![w] = "gone"] /\ Stages[w] = Stage(w)
  <2>1. Stage(w)' = "gone" BY <1>1 DEF Stage
  <2> QED BY <1>0, <1>1, <2>1, StagesMove
<1>3. CASE pc[w] \in {"committing", "failed"}
  <2>1. Stage(w) = "pending" BY <1>3 DEF Stage
  <2>2. pc[w] \in Inside BY <1>3 DEF Inside
  <2>3. Standing' = target
    BY <1>1, <2>2, ValuesDiffer DEF LockHeld, Standing
  <2>4. Standing' \in {Standing, None}
    BY <1>3, <2>2, <2>3, StandingInside DEF BackupIsLatest
  <2> QED BY <1>1, <1>2, <2>1, <2>4 DEF File!FileNext, File!Die, File!Turn
<1>4. CASE pc[w] \notin {"committing", "failed"}
  <2>1. Stage(w) \in {"pending", "placed", "failing"}
    BY <1>4, <1>0 DEF Crash, Stage, Place, Inside, Over
  <2>2. Standing' = Standing
    <3>1. CASE holder = w
      BY <1>1, <1>4, <3>1 DEF Standing
    <3>2. CASE holder # w
      BY <1>1, <3>2 DEF Standing, TypeOK
    <3> QED BY <3>1, <3>2
  <2> QED BY <1>1, <1>2, <2>1, <2>2 DEF File!FileNext, File!Die, File!Turn
<1> QED BY <1>3, <1>4

LEMMA StepMaps == IInv /\ IInv' /\ [Next]_vars => [File!FileNext]_(File!fileVars)
<1> SUFFICES ASSUME IInv, IInv', [Next]_vars PROVE [File!FileNext]_(File!fileVars)
  OBVIOUS
<1>1. CASE UNCHANGED vars
  BY <1>1 DEF vars, File!fileVars, Standing, Stages, Stage
<1>2. ASSUME NEW w \in Writer, Call(w) \/ Step(w) \/ Crash(w)
      PROVE  [File!FileNext]_(File!fileVars)
  <2>1. CASE Call(w) \/ Acquire(w) \/ GiveUp(w) \/ Release(w)
    BY <2>1, OutsideMaps
  <2>2. CASE \/ WriteNew(w) \/ MoveAside(w) \/ MoveAsideFails(w)
             \/ Commit(w) \/ CommitFails(w) \/ DropBackup(w)
    BY <2>2, ForwardMaps
  <2>3. CASE RollBack(w) \/ CleanNew(w) \/ CleanBackup(w)
    BY <2>3, ErrorMaps
  <2>4. CASE Crash(w)
    BY <2>4, CrashMaps
  <2> QED BY <1>2, <2>1, <2>2, <2>3, <2>4 DEF Step
<1> QED BY <1>1, <1>2 DEF Next

\* The calls implement an atomic replacement of the file, for any number of
\* calls, failures and crashes.
THEOREM Refines == Spec => ReplacesAtomically
BY InitMaps, StepMaps, Inductive, PTL DEF Spec, ReplacesAtomically, File!FileSpec
=============================================================================
