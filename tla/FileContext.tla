---------------------------- MODULE FileContext ----------------------------
(* FileContextTracker: what tells a task that somebody else has changed a file *)
(* it has read or written.  The editor reports changes of a watched file, own  *)
(* ones and others', without saying whose they are; a mark set after an own    *)
(* edit is meant to take the next report out.                                  *)
(*                                                                             *)
(* One file; a tracker per task, renewed with the task's instance.  Reports    *)
(* arrive in the order of the changes, each on its own, at any time (reports   *)
(* the editor merges, and the records in the task's metadata, with the second  *)
(* mention of a user's edit once it is recorded, are left out).  Who writes    *)
(* the file, and when, is said by the module that composes.                    *)
EXTENDS Naturals, Sequences

CONSTANTS Tracked    \* the tasks whose trackers are followed

VARIABLES
    watching,   \* a watcher for the file is in fileWatchers
    reports,    \* (the editor) changes not reported yet: "own" or "other"
    marked,     \* the file is in recentlyEditedByRoo
    modified,   \* the file is in recentlyModifiedFiles
    tool,       \* the agent's own trackFileContext: "idle", "wrote", "tracking"
    stray,      \* (for the properties) a mark is not for a report still to come
    due         \* (for the properties) another's change was reported, the agent not told

fcVars == <<watching, reports, marked, modified, tool, stray, due>>

FcTypeOK ==
    /\ {watching, marked, modified, stray, due} \subseteq [Tracked -> BOOLEAN]
    /\ reports \in [Tracked -> Seq({"own", "other"})]
    /\ tool \in [Tracked -> {"idle", "wrote", "tracking"}]

FcInit ==
    /\ watching = [t \in Tracked |-> FALSE] /\ marked = watching /\ modified = watching
    /\ stray = watching /\ due = watching
    /\ reports = [t \in Tracked |-> <<>>]
    /\ tool = [t \in Tracked |-> "idle"]
Set(f, t, v) == [f EXCEPT ![t] = v]
OwnToCome(t) == \E k \in DOMAIN reports[t] : reports[t][k] = "own"

\* The file's content is replaced by `writer` (a task or anybody): every watcher
\* will report it.
Changed(writer) ==
    reports' = [t \in Tracked |->
                  IF watching[t] THEN Append(reports[t], IF t = writer THEN "own" ELSE "other")
                                 ELSE reports[t]]

\* A new instance of the task has a tracker that knows nothing.
Renewed(t) ==
    IF t \in Tracked
    THEN /\ watching' = Set(watching, t, FALSE) /\ reports' = Set(reports, t, <<>>)
         /\ marked' = Set(marked, t, FALSE) /\ modified' = Set(modified, t, FALSE)
         /\ tool' = Set(tool, t, "idle")
         /\ stray' = Set(stray, t, FALSE) /\ due' = Set(due, t, FALSE)
    ELSE UNCHANGED fcVars

-----------------------------------------------------------------------------
\* The agent has read the file (read_tool, file_mentioned).
ReadFile(t) ==
    /\ tool[t] = "idle" /\ tool' = Set(tool, t, "tracking")
    /\ UNCHANGED <<watching, reports, marked, modified, stray, due>>

\* A tool has written the file, and tracks that next (roo_edited).  The mark is
\* set whether the editor reports the write or not.
ToolWrote(t, reported) ==
    /\ tool[t] = "idle" /\ tool' = Set(tool, t, "wrote")
    /\ stray' = Set(stray, t, stray[t] \/ ~(reported /\ watching[t]))
    /\ UNCHANGED <<watching, marked, modified, due>>

\* The metadata has been read: markFileAsEditedByRoo.
Mark(t) ==
    /\ tool[t] = "wrote" /\ tool' = Set(tool, t, "tracking")
    /\ marked' = Set(marked, t, TRUE)
    /\ stray' = Set(stray, t, stray[t] \/ ~OwnToCome(t))
    /\ UNCHANGED <<watching, reports, modified, due>>

\* The metadata is saved, and the file watched from now on: setupFileWatcher.
Watch(t) ==
    /\ tool[t] = "tracking" /\ tool' = Set(tool, t, "idle")
    /\ watching' = Set(watching, t, TRUE)
    /\ UNCHANGED <<reports, marked, modified, stray, due>>

\* Mutated: the mark outlives the report it was set for.
DidChange_KeepsMark(t) ==
    /\ reports[t] # <<>>
    /\ reports' = Set(reports, t, Tail(reports[t]))
    /\ IF marked[t] THEN UNCHANGED modified ELSE modified' = Set(modified, t, TRUE)
    /\ due' = Set(due, t, due[t] \/ Head(reports[t]) = "other")
    /\ UNCHANGED <<watching, marked, tool, stray>>

\* onDidChange: a mark is taken for the report, whosever change it is of.
DidChange(t) ==
    /\ reports[t] # <<>>
    /\ reports' = Set(reports, t, Tail(reports[t]))
    /\ marked' = Set(marked, t, FALSE)
    /\ IF marked[t] THEN UNCHANGED modified ELSE modified' = Set(modified, t, TRUE)
    /\ due' = Set(due, t, due[t] \/ Head(reports[t]) = "other")
    /\ UNCHANGED <<watching, tool, stray>>

\* getEnvironmentDetails: the next request tells the agent.
TellAgent(t) ==
    /\ tool[t] = "idle" /\ modified[t]
    /\ modified' = Set(modified, t, FALSE) /\ due' = Set(due, t, FALSE)
    /\ UNCHANGED <<watching, reports, marked, tool, stray>>

TrackerStep(t) == ReadFile(t) \/ Mark(t) \/ Watch(t) \/ DidChange(t) \/ TellAgent(t)

\* A reported change of somebody else is not lost on the agent: once no report
\* of its own is to come it has been told, or the next request tells it, even
\* if its mark was taken for the other's change.  That needs every mark to be
\* set while the report it is for is still to come.
OthersChangesTold ==
    \A t \in Tracked :
      due[t] /\ ~stray[t] /\ ~OwnToCome(t) => modified[t]
=============================================================================
