----------------------------- MODULE SafeWrite -----------------------------
(* safeWriteJson: calls, in one process or in several, that replace one file.  *)
(* The new text goes to a temporary file, the file is moved aside as a backup, *)
(* the temporary file is renamed to it, and the backup is deleted; an error    *)
(* rolls back.  A lock file keeps the calls apart.                             *)
(*                                                                             *)
(* One action for each file operation that is awaited, and one for each of     *)
(* its failures; the check that the file exists goes with the rename after it, *)
(* for under the lock nobody else changes the file.  A failed operation has    *)
(* changed nothing.  A lock is stale when the call that holds it is over or    *)
(* its process is gone; that a suspended process may lose a lock it holds is   *)
(* left out.  A writer's data is the writer.                                   *)
EXTENDS Naturals

CONSTANTS Writer,      \* the calls of safeWriteJson for the file
          Old,         \* what the file may hold at first
          None,        \* no file, no holder
          MaxFailures  \* file operations that fail

ASSUME ValuesDiffer == Old \notin Writer /\ None \notin Writer /\ None # Old
ASSUME FailuresNat  == MaxFailures \in Nat

VARIABLES pc,       \* where each call is
          target,   \* the file
          new,      \* the temporary file of each call: "none", "partial", "whole"
          bak,      \* the backup of each call
          kept,     \* actualTempBackupFilePath is set
          holder,   \* the lock
          failures,
          latest    \* (for the properties) what was last put in place

vars == <<pc, target, new, bak, kept, holder, failures, latest>>

Text   == Writer \cup {Old}
Inside == {"writing", "moving", "committing", "dropping", "failed",
           "cleaning new", "cleaning bak", "unlocking ok", "unlocking error"}
Over   == {"resolved", "rejected", "crashed"}

TypeOK ==
    /\ pc \in [Writer -> {"idle", "locking"} \cup Inside \cup Over]
    /\ target \in Text \cup {None}
    /\ new \in [Writer -> {"none", "partial", "whole"}]
    /\ bak \in [Writer -> Text \cup {None}]
    /\ kept \in [Writer -> BOOLEAN]
    /\ \A w \in Writer : bak[w] # None => kept[w]
    /\ holder \in Writer \cup {None}
    /\ failures \in 0..MaxFailures
    /\ latest \in Text \cup {None}

Init ==
    /\ pc = [w \in Writer |-> "idle"]
    /\ target \in {Old, None} /\ latest = target
    /\ new = [w \in Writer |-> "none"]
    /\ bak = [w \in Writer |-> None]
    /\ kept = [w \in Writer |-> FALSE]
    /\ holder = None
    /\ failures = 0

Goto(w, from, to) == pc[w] = from /\ pc' = [pc EXCEPT ![w] = to]
Fail == failures < MaxFailures /\ failures' = failures + 1

-----------------------------------------------------------------------------
\* The lock

\* Mutant: a lock that is held is taken all the same.
AcquireHeld(w) ==
    /\ Goto(w, "locking", "writing")
    /\ holder' = w
    /\ UNCHANGED <<target, new, bak, kept, failures, latest>>

\* lockfile.lock: nobody holds the lock, or whoever did left it behind.
Acquire(w) ==
    /\ holder # None => pc[holder] \notin Inside
    /\ Goto(w, "locking", "writing")
    /\ holder' = w
    /\ UNCHANGED <<target, new, bak, kept, failures, latest>>

\* The retries run out, or the lock cannot be had: the call rejects.
GiveUp(w) ==
    /\ Goto(w, "locking", "rejected")
    /\ \/ holder # None /\ UNCHANGED failures
       \/ Fail
    /\ UNCHANGED <<target, new, bak, kept, holder, latest>>

\* The directory is there (or cannot be made), and the lock is next.
Call(w) ==
    /\ \/ Goto(w, "idle", "locking") /\ UNCHANGED failures
       \/ Goto(w, "idle", "rejected") /\ Fail
    /\ UNCHANGED <<target, new, bak, kept, holder, latest>>

\* The finally block: an unlock that fails is only logged.
Release(w) ==
    /\ Goto(w, "unlocking ok", "resolved") \/ Goto(w, "unlocking error", "rejected")
    /\ \/ holder' = (IF holder = w THEN None ELSE holder) /\ UNCHANGED failures
       \/ Fail /\ UNCHANGED holder
    /\ UNCHANGED <<target, new, bak, kept, latest>>

-----------------------------------------------------------------------------
\* The write

WriteNew(w) ==
    \/ /\ Goto(w, "writing", "moving")
       /\ new' = [new EXCEPT ![w] = "whole"]
       /\ UNCHANGED <<target, bak, kept, holder, failures, latest>>
    \/ /\ Goto(w, "writing", "failed") /\ Fail
       /\ \E left \in {"none", "partial"} : new' = [new EXCEPT ![w] = left]
       /\ UNCHANGED <<target, bak, kept, holder, latest>>

\* Mutant: the path of the backup is not remembered.
MoveAsideUnset(w) ==
    /\ Goto(w, "moving", "committing")
    /\ bak' = [bak EXCEPT ![w] = target]
    /\ target' = None
    /\ UNCHANGED <<new, kept, holder, failures, latest>>

\* The file, if there is one, is moved to the backup.
MoveAside(w) ==
    /\ Goto(w, "moving", "committing")
    /\ \/ target = None /\ UNCHANGED <<target, bak, kept>>
       \/ /\ target # None
          /\ bak' = [bak EXCEPT ![w] = target]
          /\ kept' = [kept EXCEPT ![w] = TRUE]
          /\ target' = None
    /\ UNCHANGED <<new, holder, failures, latest>>

\* The check fails, or the rename does: then the backup's path is already set.
MoveAsideFails(w) ==
    /\ Goto(w, "moving", "failed") /\ Fail
    /\ \/ UNCHANGED kept
       \/ target # None /\ kept' = [kept EXCEPT ![w] = TRUE]
    /\ UNCHANGED <<target, new, bak, holder, latest>>

\* The commit: the new text is in place.
Commit(w) ==
    /\ Goto(w, "committing", IF kept[w] THEN "dropping" ELSE "unlocking ok")
    /\ target' = w /\ latest' = w
    /\ new' = [new EXCEPT ![w] = "none"]
    /\ UNCHANGED <<bak, kept, holder, failures>>

CommitFails(w) ==
    /\ Goto(w, "committing", "failed") /\ Fail
    /\ UNCHANGED <<target, new, bak, kept, holder, latest>>

\* The backup is deleted; that this fails is only logged.
DropBackup(w) ==
    /\ Goto(w, "dropping", "unlocking ok")
    /\ \/ /\ bak' = [bak EXCEPT ![w] = None]
          /\ kept' = [kept EXCEPT ![w] = FALSE]
          /\ UNCHANGED failures
       \/ Fail /\ UNCHANGED <<bak, kept>>
    /\ UNCHANGED <<target, new, holder, latest>>

-----------------------------------------------------------------------------
\* The error path

\* Mutant: an error cleans up and does not roll back.
NoRollBack(w) ==
    /\ Goto(w, "failed", "cleaning new")
    /\ UNCHANGED <<target, new, bak, kept, holder, failures, latest>>

\* Mutant: the backup is waited for, though the rename that makes it failed.
RollBackNeedsBackup(w) ==
    /\ Goto(w, "failed", "cleaning new")
    /\ \/ ~kept[w] /\ UNCHANGED <<target, bak, kept>>
       \/ /\ kept[w] /\ bak[w] # None
          /\ target' = bak[w]
          /\ bak' = [bak EXCEPT ![w] = None]
          /\ kept' = [kept EXCEPT ![w] = FALSE]
    /\ UNCHANGED <<new, holder, failures, latest>>

\* A backup is renamed to the file again.
RollBack(w) ==
    /\ Goto(w, "failed", "cleaning new")
    /\ \/ ~kept[w] /\ UNCHANGED <<target, bak, kept, failures>>
       \/ /\ kept[w] /\ bak[w] # None
          /\ target' = bak[w]
          /\ bak' = [bak EXCEPT ![w] = None]
          /\ kept' = [kept EXCEPT ![w] = FALSE]
          /\ UNCHANGED failures
       \/ kept[w] /\ bak[w] = None /\ UNCHANGED <<target, bak, kept, failures>>
       \/ kept[w] /\ bak[w] # None /\ Fail /\ UNCHANGED <<target, bak, kept>>
    /\ UNCHANGED <<new, holder, latest>>

CleanNew(w) ==
    /\ Goto(w, "cleaning new", "cleaning bak")
    /\ \/ new' = [new EXCEPT ![w] = "none"] /\ UNCHANGED failures
       \/ Fail /\ UNCHANGED new
    /\ UNCHANGED <<target, bak, kept, holder, latest>>

\* A backup that was not restored is deleted.
CleanBackup(w) ==
    /\ Goto(w, "cleaning bak", "unlocking error")
    /\ \/ ~kept[w] /\ UNCHANGED <<bak, failures>>
       \/ kept[w] /\ bak' = [bak EXCEPT ![w] = None] /\ UNCHANGED failures
       \/ kept[w] /\ Fail /\ UNCHANGED bak
    /\ UNCHANGED <<target, new, kept, holder, latest>>

\* The process of a call goes: what it was writing stays half written.
Crash(w) ==
    /\ pc[w] \notin Over \cup {"idle"}
    /\ pc' = [pc EXCEPT ![w] = "crashed"]
    /\ new' = [new EXCEPT ![w] = IF pc[w] = "writing" THEN "partial" ELSE @]
    /\ UNCHANGED <<target, bak, kept, holder, failures, latest>>

-----------------------------------------------------------------------------

Step(w) ==
    \/ Acquire(w) \/ GiveUp(w) \/ Release(w)
    \/ WriteNew(w) \/ MoveAside(w) \/ MoveAsideFails(w)
    \/ Commit(w) \/ CommitFails(w) \/ DropBackup(w)
    \/ RollBack(w) \/ CleanNew(w) \/ CleanBackup(w)

Next == \E w \in Writer : Call(w) \/ Step(w) \/ Crash(w)

Spec == Init /\ [][Next]_vars

\* The file system answers every operation; nobody has to call or to crash.
FairSpec == Spec /\ \A w \in Writer : WF_vars(Step(w))

-----------------------------------------------------------------------------
\* Properties

\* Two calls never work on the file at once, whether calls fail, crash or
\* leave the lock behind.
OneWriterInside ==
    \A v, w \in Writer : pc[v] \in Inside /\ pc[w] \in Inside => v = w

\* What was last put in place is never destroyed: it is the file or a backup,
\* at every moment and so after every crash, as long as at most one operation
\* fails (a failed commit whose rollback fails too deletes the backup).
LatestSurvives ==
    failures <= 1 /\ latest # None =>
        \/ target = latest
        \/ \E w \in Writer : bak[w] = latest

\* Between calls the file is what was last put in place: a call that rejects
\* has undone what it did.
RestingFileIsLatest ==
    failures <= 1 /\ (\A w \in Writer : pc[w] \notin Inside \cup {"crashed"}) =>
        target = latest

\* The refinement mapping: while a call has the file moved aside and has still
\* to commit or to roll back, its backup is what the file holds.
Standing ==
    IF holder # None /\ pc[holder] \in {"committing", "failed"} /\ bak[holder] # None
    THEN bak[holder] ELSE target

Stage(w) ==
    CASE pc[w] \in {"idle", "resolved", "rejected"} -> pc[w]
      [] pc[w] = "crashed" -> "gone"
      [] pc[w] \in {"dropping", "unlocking ok"} -> "placed"
      [] pc[w] \in {"cleaning new", "cleaning bak", "unlocking error"} -> "failing"
      [] OTHER -> "pending"

Stages == [w \in Writer |-> Stage(w)]

File == INSTANCE AtomicFile WITH text <- Standing, state <- Stages, errors <- failures

\* The calls implement an atomic replacement of the text that stands, in the
\* file or, after a crash between the two renames, in its backup: nobody but a
\* call that will resolve changes it, whatever fails, crashes or is taken over.
ReplacesAtomically == File!FileSpec

\* Every call settles or its process is gone, whatever the others do.
CallsSettle == \A w \in Writer : pc[w] = "locking" ~> pc[w] \in Over
=============================================================================
