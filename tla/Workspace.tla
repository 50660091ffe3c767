----------------------------- MODULE Workspace -----------------------------
(* Tasks in one workspace: their checkpoints and the trackers of their files.  *)
(* A restore, a tool and the user all change the file, and the tracker of      *)
(* every task reports what it sees; a task that is cancelled, as a restore     *)
(* does, starts with a new tracker.                                            *)
(*                                                                             *)
(* Watchers listen to changes only: a file that appears or goes is not         *)
(* reported.                                                                   *)
EXTENDS Checkpoints, FileContext

vars == <<ckVars, fcVars>>

WorkspaceInit == Init /\ FcInit

TypeOK == CkTypeOK /\ FcTypeOK

\* What the trackers see of a step of the checkpoints.
Seen(writer) ==
    /\ IF disk # 0 /\ disk' # 0 /\ disk' # disk THEN Changed(writer) ELSE UNCHANGED reports
    /\ UNCHANGED <<watching, marked, modified, tool, stray, due>>

UserWrites == Write /\ Seen("nobody")

AgentWrites(t) ==
    /\ Write /\ ToolWrote(t, disk # 0)
    /\ IF disk # 0 THEN Changed(t) ELSE UNCHANGED reports

RestoreChanges(c) == (Clean(c) \/ Reset(c)) /\ Seen("nobody")

InstanceRenewed(t) ==
    IF gen'[t] # gen[t] THEN Renewed(t) ELSE UNCHANGED fcVars

Restore(c) ==
    \/ RestoreChanges(c)
    \/ Finish(c) /\ InstanceRenewed(TaskOf(c))
    \/ (Ask(c) \/ Grant(c) \/ RestoreFails(c) \/ Broadcast(c)) /\ UNCHANGED fcVars

Next ==
    \/ \E c \in Call :
         \/ (\E t \in Task : BeginAny(c, t)) /\ UNCHANGED fcVars
         \/ (InitStep(c) \/ WaitStep(c) \/ SaveStep(c)) /\ UNCHANGED fcVars
         \/ Restore(c)
    \/ \E t \in Task : \/ CancelTask(t) /\ Renewed(t)
                       \/ Acknowledge(t) /\ UNCHANGED fcVars
    \/ UserWrites
    \/ \E t \in Tracked : AgentWrites(t) \/ (TrackerStep(t) /\ UNCHANGED ckVars)

Spec == WorkspaceInit /\ [][Next]_vars

\* Timers go off and git answers a restore; an initialisation and a save may
\* hang, and nobody else has to act.
Fairness ==
    \A c \in Call : WF_vars((WaitStep(c) /\ UNCHANGED fcVars) \/ Restore(c))

FairSpec == Spec /\ Fairness
=============================================================================
