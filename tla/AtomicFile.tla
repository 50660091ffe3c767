----------------------------- MODULE AtomicFile -----------------------------
(* What a caller of safeWriteJson relies on: a call replaces the whole file at *)
(* once or leaves it as it was, and its promise tells which.  The comment on   *)
(* the function promises a file that is "backed up before being replaced" and  *)
(* an attempt "to roll back and clean up in case of errors".                   *)
(*                                                                             *)
(* Only two things take the file away: the end of the process in the middle of *)
(* a call, and a second error of the file system.  A writer's data is the      *)
(* writer.                                                                     *)
EXTENDS Naturals

CONSTANTS Writer, Old, None

VARIABLES text,    \* what the file holds when no call is about to change it
          state,   \* of each call
          errors   \* errors of the file system so far

fileVars == <<text, state, errors>>

FileInit ==
    /\ text \in {Old, None}
    /\ state = [w \in Writer |-> "idle"]
    /\ errors = 0

Turn(w, from, to) == state[w] \in from /\ state' = [state EXCEPT ![w] = to]
MayErr == errors' \in {errors, errors + 1}

Begin(w) == Turn(w, {"idle"}, "pending") /\ UNCHANGED <<text, errors>>

\* The call takes effect, once: from here on it can only resolve.
Put(w) == Turn(w, {"pending"}, "placed") /\ text' = w /\ UNCHANGED errors

\* The call will not take effect.  The file stays, unless this error came on
\* top of another.
Abort(w) ==
    /\ Turn(w, {"pending"}, "failing")
    /\ \/ UNCHANGED <<text, errors>>
       \/ errors >= 1 /\ errors' = errors + 1 /\ text' = None

Resolve(w) == Turn(w, {"placed"}, "resolved") /\ MayErr /\ UNCHANGED text
Reject(w)  == Turn(w, {"idle", "pending", "failing"}, "rejected") /\ MayErr /\ UNCHANGED text

\* The process of the call ends: a call under way may leave only its backup.
Die(w) ==
    /\ \/ Turn(w, {"placed", "failing"}, "gone") /\ UNCHANGED text
       \/ Turn(w, {"pending"}, "gone") /\ text' \in {text, None}
    /\ UNCHANGED errors

\* An error that changes nothing a caller sees.
Err == errors' = errors + 1 /\ UNCHANGED <<text, state>>

FileNext ==
    \/ Err
    \/ \E w \in Writer : Begin(w) \/ Put(w) \/ Abort(w) \/ Resolve(w) \/ Reject(w) \/ Die(w)

FileSpec == FileInit /\ [][FileNext]_fileVars
=============================================================================
