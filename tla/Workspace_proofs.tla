-------------------------- MODULE Workspace_proofs --------------------------
(* Proofs about the restores of a workspace, for any number of tasks, calls,   *)
(* writes and faults.                                                          *)
EXTENDS Workspace, FiniteSetTheorems, TLAPS

Early == {"idle", "checking", "waiting", "got", "staged"}

LockTypeOK ==
    /\ pc \in [Call -> Place]
    /\ tail \in Call \cup {NoCall}
    /\ prev \in [Call -> Call \cup {NoCall}]
    /\ asked \in Seq(Call)

\* Every call before the j-th that asked is past its operation.
BeforePast(j) == \A i \in 1 .. j - 1 : pc[asked[i]] \in Past

\* Who has asked is in line, has the workspace, or is past it.
AskedIsLate == \A j \in DOMAIN asked : pc[asked[j]] \notin Early

\* Whoever has had the workspace was alone with it.
TurnTaken == \A j \in DOMAIN asked : pc[asked[j]] \in Inside \cup Past => BeforePast(j)

\* Who is in line waits for the one who asked just before, or for nobody when
\* all who asked before are past.
InLine ==
    \A j \in DOMAIN asked :
      pc[asked[j]] = "lined" =>
        \/ prev[asked[j]] = NoCall /\ BeforePast(j)
        \/ j > 1 /\ prev[asked[j]] = asked[j - 1]

\* The tail is the last who asked; without a tail everybody is past.
TailIsLast ==
    \/ tail = NoCall /\ BeforePast(Len(asked) + 1)
    \/ asked # <<>> /\ tail = asked[Len(asked)]

LockInv == LockTypeOK /\ AskedIsLate /\ TurnTaken /\ InLine /\ TailIsLast

LEMMA InvImpliesTurns == LockInv => RestoresTakeTurns
  BY DEF LockInv, TurnTaken, BeforePast, RestoresTakeTurns

LEMMA InitLock == Init => LockInv
  <1> SUFFICES ASSUME Init PROVE LockInv
    OBVIOUS
  <1>1. LockTypeOK
    BY DEF Init, LockTypeOK, Place, Inside, Past
  <1> QED
    BY <1>1 DEF Init, LockInv, AskedIsLate, TurnTaken, InLine, TailIsLast, BeforePast

-----------------------------------------------------------------------------
(* A step of the checkpoints does one of these to the lock.                    *)

Moves(c, from, to) == pc[c] \in from /\ \E x \in to : pc' = [pc EXCEPT ![c] = x]

\* A call that has not asked goes on.
ElsewhereStep(c) == Moves(c, Early, Early \cup {"done"}) /\ UNCHANGED lockVars

\* A call that has the workspace, or is past it, stays so.
SameSideStep(c) ==
    /\ Moves(c, Inside, Inside) \/ Moves(c, Past, Past)
    /\ UNCHANGED lockVars

ReleaseStep(c) == Moves(c, Inside, Past) /\ Release(c)

AskStep(c) ==
    /\ Moves(c, {"got"}, {"lined"})
    /\ prev' = [prev EXCEPT ![c] = tail] /\ tail' = c /\ asked' = Append(asked, c)

LockStep ==
    \/ \E c \in Call : \/ ElsewhereStep(c) \/ SameSideStep(c) \/ ReleaseStep(c)
                       \/ AskStep(c) \/ Grant(c)
    \/ UNCHANGED <<pc, lockVars>>

\* Where a move leads, and what it leaves alone.
LEMMA MovesOne ==
    ASSUME LockTypeOK, NEW c \in Call, NEW from, NEW to \in SUBSET Place, Moves(c, from, to)
    PROVE  /\ pc' \in [Call -> Place]
           /\ pc[c] \in from /\ pc'[c] \in to
           /\ \A d \in Call : d # c => pc'[d] = pc[d]
  BY DEF Moves, LockTypeOK

LEMMA PlacesApart ==
    /\ Early \cup {"done"} \subseteq Place /\ Inside \subseteq Place /\ Past \subseteq Place
    /\ "lined" \in Place
    /\ Early \cap Inside = {} /\ Early \cap Past = {} /\ Inside \cap Past = {}
    /\ "lined" \notin Early \cup Inside \cup Past
    /\ \A p \in Place : p \in Early \cup Inside \cup Past \cup {"lined"}
  BY DEF Early, Place, Inside, Past

LEMMA NoCallIsNone == NoCall \notin Call
  BY BoundsNat DEF NoCall, Call

\* When the calls that have asked keep their line, and whoever is past stays so,
\* what is not about a change of the line stays true.
LEMMA ElsewhereKeeps ==
    ASSUME LockInv, NEW c \in Call, ElsewhereStep(c)
    PROVE  LockInv'
  <1> USE PlacesApart DEF LockInv, ElsewhereStep, lockVars
  <1>1. Moves(c, Early, Early \cup {"done"})
    OBVIOUS
  <1>2. pc' \in [Call -> Place] /\ \A d \in Call : d # c => pc'[d] = pc[d]
    BY <1>1, MovesOne
  <1>3. \A j \in DOMAIN asked : asked[j] \in Call /\ pc'[asked[j]] = pc[asked[j]]
    <2> TAKE j \in DOMAIN asked
    <2>1. asked[j] \in Call
      BY DEF LockTypeOK
    <2>2. asked[j] # c
      BY <1>1 DEF Moves, AskedIsLate
    <2> QED
      BY <2>1, <2>2, <1>2
  <1>4. \A j \in 1 .. Len(asked) + 1 : BeforePast(j) <=> BeforePast(j)'
    BY <1>3 DEF BeforePast, LockTypeOK
  <1>5. LockTypeOK'
    BY <1>2 DEF LockTypeOK
  <1>6. AskedIsLate' /\ TurnTaken' /\ InLine'
    BY <1>3, <1>4 DEF AskedIsLate, TurnTaken, InLine, LockTypeOK
  <1>7. TailIsLast'
    BY <1>4 DEF TailIsLast, LockTypeOK
  <1> QED
    BY <1>5, <1>6, <1>7

\* A call that moves without leaving the side it is on.
LEMMA SameSideKeeps ==
    ASSUME LockInv, NEW c \in Call, SameSideStep(c)
    PROVE  LockInv'
  <1> USE PlacesApart DEF LockInv, SameSideStep, lockVars
  <1>1. /\ pc' \in [Call -> Place] /\ \A d \in Call : d # c => pc'[d] = pc[d]
        /\ \/ pc[c] \in Inside /\ pc'[c] \in Inside
           \/ pc[c] \in Past /\ pc'[c] \in Past
    <2>1. CASE Moves(c, Inside, Inside)
      BY <2>1, MovesOne
    <2>2. CASE Moves(c, Past, Past)
      BY <2>2, MovesOne
    <2> QED
      BY <2>1, <2>2
  <1>2. \A d \in Call : /\ pc[d] \in Inside <=> pc'[d] \in Inside
                        /\ pc[d] \in Past <=> pc'[d] \in Past
                        /\ pc[d] \in Early <=> pc'[d] \in Early
                        /\ pc[d] = "lined" <=> pc'[d] = "lined"
    BY <1>1
  <1>3. \A j \in DOMAIN asked : asked[j] \in Call
    BY DEF LockTypeOK
  <1>4. \A j \in 1 .. Len(asked) + 1 : BeforePast(j) <=> BeforePast(j)'
    BY <1>2, <1>3 DEF BeforePast, LockTypeOK
  <1>5. LockTypeOK'
    BY <1>1 DEF LockTypeOK
  <1>6. AskedIsLate' /\ TurnTaken' /\ InLine'
    BY <1>2, <1>3, <1>4 DEF AskedIsLate, TurnTaken, InLine, LockTypeOK
  <1>7. TailIsLast'
    BY <1>4 DEF TailIsLast, LockTypeOK
  <1> QED
    BY <1>5, <1>6, <1>7

\* Whoever leaves was alone: if it is the tail, everybody is past then.
LEMMA ReleaseKeeps ==
    ASSUME LockInv, NEW c \in Call, ReleaseStep(c)
    PROVE  LockInv'
  <1> USE PlacesApart DEF LockInv, ReleaseStep, Release
  <1>1. /\ pc' \in [Call -> Place] /\ \A d \in Call : d # c => pc'[d] = pc[d]
        /\ pc[c] \in Inside /\ pc'[c] \in Past
    BY MovesOne
  <1>2. \A j \in DOMAIN asked : asked[j] \in Call
    BY DEF LockTypeOK
  <1>3. \A d \in Call : /\ pc[d] \in Past => pc'[d] \in Past
                        /\ pc'[d] \in Inside \cup Past <=> pc[d] \in Inside \cup Past
                        /\ pc[d] \in Early <=> pc'[d] \in Early
                        /\ pc[d] = "lined" <=> pc'[d] = "lined"
    BY <1>1
  <1>4. \A j \in 1 .. Len(asked) + 1 : BeforePast(j) => BeforePast(j)'
    BY <1>2, <1>3 DEF BeforePast, LockTypeOK
  <1>5. LockTypeOK'
    BY <1>1 DEF LockTypeOK
  <1>6. AskedIsLate' /\ TurnTaken' /\ InLine'
    BY <1>2, <1>3, <1>4 DEF AskedIsLate, TurnTaken, InLine, LockTypeOK
  <1>7. TailIsLast'
    <2>1. CASE tail = c
      <3>1. asked # <<>> /\ c = asked[Len(asked)] /\ Len(asked) \in DOMAIN asked
        BY <2>1, NoCallIsNone DEF TailIsLast, LockTypeOK
      <3>2. BeforePast(Len(asked))
        BY <3>1, <1>1 DEF TurnTaken
      <3>3. BeforePast(Len(asked) + 1)'
        BY <3>1, <3>2, <1>1, <1>2, <1>3 DEF BeforePast, LockTypeOK
      <3> QED
        BY <2>1, <3>3 DEF TailIsLast
    <2>2. CASE tail # c
      BY <2>2, <1>4 DEF TailIsLast, LockTypeOK
    <2> QED
      BY <2>1, <2>2
  <1> QED
    BY <1>5, <1>6, <1>7

\* Whoever asks is new in the line, behind the tail.
LEMMA AskKeeps ==
    ASSUME LockInv, NEW c \in Call, AskStep(c)
    PROVE  LockInv'
  <1> USE PlacesApart DEF LockInv, AskStep
  <1>1. /\ pc' \in [Call -> Place] /\ \A d \in Call : d # c => pc'[d] = pc[d]
        /\ pc[c] = "got" /\ pc'[c] = "lined"
    <2>1. {"got"} \subseteq Place /\ {"lined"} \subseteq Place
      BY DEF Place
    <2> QED
      BY <2>1, MovesOne
  <1>t. asked \in Seq(Call) /\ "got" \in Early
    BY DEF LockTypeOK, Early
  <1>2. /\ asked' \in Seq(Call) /\ Len(asked') = Len(asked) + 1
        /\ DOMAIN asked' = 1 .. Len(asked) + 1
        /\ asked'[Len(asked) + 1] = c
        /\ \A j \in DOMAIN asked : asked'[j] = asked[j]
    BY <1>t
  <1>3. \A j \in DOMAIN asked : /\ asked[j] \in Call /\ asked[j] # c
                                /\ pc'[asked[j]] = pc[asked[j]]
                                /\ prev'[asked[j]] = prev[asked[j]]
    <2> TAKE j \in DOMAIN asked
    <2>1. asked[j] \in Call
      BY <1>t
    <2>2. asked[j] # c
      BY <1>1, <1>t DEF AskedIsLate
    <2> QED
      BY <2>1, <2>2, <1>1 DEF LockTypeOK
  <1>4. \A j \in 1 .. Len(asked) + 1 : BeforePast(j) <=> BeforePast(j)'
    BY <1>t, <1>2, <1>3 DEF BeforePast
  <1>5. LockTypeOK'
    BY <1>1, <1>2 DEF LockTypeOK
  <1>6. AskedIsLate'
    BY <1>1, <1>2, <1>3, <1>t DEF AskedIsLate
  <1>7. TurnTaken'
    BY <1>1, <1>2, <1>3, <1>4, <1>t DEF TurnTaken
  <1>8. InLine'
    <2> SUFFICES ASSUME NEW j \in DOMAIN asked', pc'[asked'[j]] = "lined"
                 PROVE  \/ prev'[asked'[j]] = NoCall /\ BeforePast(j)'
                        \/ j > 1 /\ prev'[asked'[j]] = asked'[j - 1]
      BY DEF InLine
    <2>1. CASE j \in DOMAIN asked
      <3>1. j \in 1 .. Len(asked) /\ asked'[j] = asked[j] /\ pc[asked[j]] = "lined"
        BY <2>1, <1>t, <1>2, <1>3
      <3>2. j > 1 => asked'[j - 1] = asked[j - 1]
        BY <3>1, <1>t, <1>2
      <3> QED
        BY <2>1, <3>1, <3>2, <1>3, <1>4 DEF InLine
    <2>2. CASE j = Len(asked) + 1
      <3>1. asked'[j] = c /\ prev'[c] = tail
        BY <2>2, <1>2 DEF LockTypeOK
      <3>2. CASE tail = NoCall /\ BeforePast(Len(asked) + 1)
        BY <2>2, <3>1, <3>2, <1>4, <1>t
      <3>3. CASE asked # <<>> /\ tail = asked[Len(asked)]
        BY <2>2, <3>1, <3>3, <1>2, <1>t
      <3> QED
        BY <3>2, <3>3 DEF TailIsLast
    <2> QED
      BY <2>1, <2>2, <1>2, <1>t
  <1>9. TailIsLast'
    BY <1>2 DEF TailIsLast
  <1> QED
    BY <1>5, <1>6, <1>7, <1>8, <1>9

\* Whoever is granted the workspace waited for the one before, who was alone.
LEMMA GrantKeeps ==
    ASSUME LockInv, NEW c \in Call, Grant(c)
    PROVE  LockInv'
  <1> USE PlacesApart DEF LockInv
  <1>1. UNCHANGED lockVars /\ pc[c] = "lined" /\ pc' = [pc EXCEPT ![c] = "cleaning"]
    BY DEF Grant, Goto
  <1> USE DEF lockVars
  <1>2. /\ pc' \in [Call -> Place] /\ \A d \in Call : d # c => pc'[d] = pc[d]
        /\ pc'[c] = "cleaning" /\ "cleaning" \in Inside
    BY <1>1 DEF LockTypeOK, Inside
  <1>t. asked \in Seq(Call) /\ \A j \in DOMAIN asked : asked[j] \in Call
    BY DEF LockTypeOK
  <1>3. \A d \in Call : /\ pc[d] \in Past <=> pc'[d] \in Past
                        /\ pc[d] \in Early <=> pc'[d] \in Early
                        /\ pc'[d] = "lined" => pc[d] = "lined"
    BY <1>1, <1>2
  <1>4. \A j \in 1 .. Len(asked) + 1 : BeforePast(j) <=> BeforePast(j)'
    BY <1>1, <1>3, <1>t DEF BeforePast
  <1>5. LockTypeOK'
    BY <1>1, <1>2 DEF LockTypeOK
  <1>6. AskedIsLate' /\ InLine' /\ TailIsLast'
    BY <1>1, <1>3, <1>4, <1>t DEF AskedIsLate, InLine, TailIsLast
  <1>7. TurnTaken'
    <2> SUFFICES ASSUME NEW j \in DOMAIN asked, pc'[asked[j]] \in Inside \cup Past
                 PROVE  BeforePast(j)'
      BY <1>1 DEF TurnTaken
    <2>1. CASE asked[j] # c
      BY <2>1, <1>2, <1>4, <1>t DEF TurnTaken
    <2>2. CASE asked[j] = c
      <3>1. CASE prev[c] = NoCall /\ BeforePast(j)
        BY <3>1, <1>4, <1>t
      <3>2. CASE j > 1 /\ prev[c] = asked[j - 1]
        <4>1. j - 1 \in DOMAIN asked /\ pc[asked[j - 1]] \in Past
          BY <3>2, <1>t, NoCallIsNone DEF Grant
        <4>2. BeforePast(j - 1)
          BY <4>1 DEF TurnTaken
        <4>3. BeforePast(j)
          BY <4>1, <4>2, <1>t DEF BeforePast
        <4> QED
          BY <4>3, <1>4, <1>t
      <3> QED
        BY <2>2, <3>1, <3>2, <1>1 DEF InLine
    <2> QED
      BY <2>1, <2>2
  <1> QED
    BY <1>5, <1>6, <1>7

LEMMA StutterKeeps ==
    ASSUME LockInv, UNCHANGED <<pc, lockVars>>
    PROVE  LockInv'
  BY DEF lockVars, LockInv, LockTypeOK, AskedIsLate, TurnTaken, InLine, TailIsLast, BeforePast

LEMMA LockStepKeeps == LockInv /\ LockStep => LockInv'
  BY ElsewhereKeeps, SameSideKeeps, ReleaseKeeps, AskKeeps, GrantKeeps, StutterKeeps
  DEF LockStep

-----------------------------------------------------------------------------
(* Every step of the composition is a step of the checkpoints or a stutter.    *)

LEMMA StepOfCheckpoints == [Next]_vars => [CkNext]_ckVars
  <1> SUFFICES ASSUME [Next]_vars PROVE [CkNext]_ckVars
    OBVIOUS
  <1>1. CASE UNCHANGED vars
    BY <1>1 DEF vars
  <1>2. ASSUME NEW c \in Call,
               \/ \E t \in Task : BeginAny(c, t)
               \/ InitStep(c) \/ WaitStep(c) \/ SaveStep(c)
               \/ Restore(c)
        PROVE  CkNext
    BY <1>2 DEF CkNext, Restore, RestoreChanges, RestoreStep
  <1>3. ASSUME NEW t \in Task, CancelTask(t) \/ Acknowledge(t)
        PROVE  CkNext
    BY <1>3 DEF CkNext
  <1>4. CASE UserWrites \/ \E t \in Tracked : AgentWrites(t)
    BY <1>4 DEF UserWrites, AgentWrites, CkNext
  <1>5. CASE \E t \in Tracked : TrackerStep(t) /\ UNCHANGED ckVars
    BY <1>5
  <1> QED
    BY <1>1, <1>2, <1>3, <1>4, <1>5 DEF Next

LEMMA BeginMoves ==
    ASSUME NEW c \in Call, NEW t \in Task, BeginAny(c, t)
    PROVE  ElsewhereStep(c)
  <1>1. \A kind, to : pc[c] = "idle" /\ Begin(c, t, kind, to) => ElsewhereStep(c)
    BY DEF Begin, ElsewhereStep, Moves, Early, lockVars
  <1> QED
    BY <1>1 DEF BeginAny, NextCall

LEMMA EarlyMoves ==
    ASSUME NEW c \in Call, InitStep(c) \/ WaitStep(c) \/ SaveStep(c)
    PROVE  ElsewhereStep(c)
  <1> USE DEF ElsewhereStep, Moves, Early, lockVars, Goto
  <1>1. CASE InitStep(c)
    BY <1>1 DEF InitStep, InitFails, InitDone, Assign
  <1>2. CASE WaitStep(c)
    BY <1>2 DEF WaitStep, WaitOver, WaitTimesOut
  <1>3. CASE SaveStep(c)
    BY <1>3 DEF SaveStep, Stage, Commit, NothingCommitted, SaveFails
  <1> QED
    BY <1>1, <1>2, <1>3

LEMMA RestoreMoves ==
    ASSUME NEW c \in Call, RestoreStep(c)
    PROVE  ElsewhereStep(c) \/ SameSideStep(c) \/ ReleaseStep(c) \/ AskStep(c) \/ Grant(c)
  <1> USE DEF Moves, lockVars, Goto, Inside, Past
  <1>1. CASE Ask(c)
    BY <1>1 DEF Ask, AskStep, ElsewhereStep, Early
  <1>2. CASE Clean(c)
    BY <1>2 DEF Clean, SameSideStep
  <1>3. CASE Reset(c) \/ RestoreFails(c)
    BY <1>3 DEF Reset, RestoreFails, ReleaseStep
  <1>4. CASE Broadcast(c) \/ Finish(c)
    BY <1>4 DEF Broadcast, Finish, SameSideStep
  <1> QED
    BY <1>1, <1>2, <1>3, <1>4 DEF RestoreStep

LEMMA StepOfLock == [CkNext]_ckVars => LockStep
  <1> SUFFICES ASSUME [CkNext]_ckVars PROVE LockStep
    OBVIOUS
  <1>1. ASSUME NEW c \in Call,
               \/ \E t \in Task : BeginAny(c, t)
               \/ InitStep(c) \/ WaitStep(c) \/ SaveStep(c)
               \/ RestoreStep(c)
        PROVE  LockStep
    BY <1>1, BeginMoves, EarlyMoves, RestoreMoves DEF LockStep
  <1>2. ASSUME NEW t \in Task, CancelTask(t) \/ Acknowledge(t)
        PROVE  UNCHANGED <<pc, lockVars>>
    BY <1>2 DEF CancelTask, Acknowledge
  <1>3. CASE Write \/ UNCHANGED ckVars
    BY <1>3 DEF Write, ckVars, LockStep
  <1> QED
    BY <1>1, <1>2, <1>3 DEF CkNext, LockStep

\* The restores of a workspace take turns in the order they asked, however many
\* there are and whatever fails (withWorkspaceLock).
THEOREM CkTurns == CkSpec => []RestoresTakeTurns
  <1>1. Init => LockInv
    BY InitLock
  <1>2. LockInv /\ [CkNext]_ckVars => LockInv'
    BY StepOfLock, LockStepKeeps
  <1>3. LockInv => RestoresTakeTurns
    BY InvImpliesTurns
  <1> QED
    BY <1>1, <1>2, <1>3, PTL DEF CkSpec

\* The composition with the trackers runs the checkpoints as they are alone, so
\* that its restores take turns too.
THEOREM Turns == Spec => []RestoresTakeTurns
  <1>1. WorkspaceInit => Init
    BY DEF WorkspaceInit
  <1>2. [Next]_vars => [CkNext]_ckVars
    BY StepOfCheckpoints
  <1>3. Spec => CkSpec
    BY <1>1, <1>2, PTL DEF Spec, CkSpec
  <1> QED
    BY <1>3, CkTurns, PTL

-----------------------------------------------------------------------------
(* The trackers.  A mark that is no stray is for an own report still to come;  *)
(* a change of somebody else that was taken for the agent's own leaves the own *)
(* report behind, which will count as another's.  So own reports are counted.  *)

Report == {"own", "other"}

One(s)   == \E i \in DOMAIN s : s[i] = "own"
Two(s)   == \E i, j \in DOMAIN s : i < j /\ s[i] = "own" /\ s[j] = "own"
Three(s) == \E i, j, k \in DOMAIN s :
              i < j /\ j < k /\ s[i] = "own" /\ s[j] = "own" /\ s[k] = "own"

LEMMA OneMore ==
    ASSUME NEW s \in Seq(Report), NEW x \in Report
    PROVE  /\ One(s) => One(Append(s, x))
           /\ Two(s) => Two(Append(s, x))
           /\ Three(s) => Three(Append(s, x))
           /\ x = "own" => /\ One(Append(s, x))
                           /\ One(s) => Two(Append(s, x))
                           /\ Two(s) => Three(Append(s, x))
  <1> DEFINE a == Append(s, x)
  <1>1. /\ DOMAIN a = 1 .. Len(s) + 1 /\ DOMAIN s = 1 .. Len(s) /\ Len(s) \in Nat
        /\ a[Len(s) + 1] = x /\ \A i \in DOMAIN s : i \in DOMAIN a /\ a[i] = s[i]
    OBVIOUS
  <1> HIDE DEF a
  <1>2. /\ One(s) => One(a)
        /\ Two(s) => Two(a)
        /\ Three(s) => Three(a)
    BY <1>1 DEF One, Two, Three
  <1>3. ASSUME x = "own" PROVE One(a)
    BY <1>1, <1>3 DEF One
  <1>4. ASSUME x = "own", One(s) PROVE Two(a)
    <2>1. PICK i \in DOMAIN s : s[i] = "own"
      BY <1>4 DEF One
    <2> QED
      BY <1>1, <1>4, <2>1 DEF Two
  <1>5. ASSUME x = "own", Two(s) PROVE Three(a)
    <2>1. PICK i, j \in DOMAIN s : i < j /\ s[i] = "own" /\ s[j] = "own"
      BY <1>5 DEF Two
    <2>2. j < Len(s) + 1 /\ Len(s) + 1 \in DOMAIN a
      BY <1>1
    <2> QED
      BY <1>1, <1>5, <2>1, <2>2 DEF Three
  <1> QED
    BY <1>2, <1>3, <1>4, <1>5 DEF a

LEMMA OneLess ==
    ASSUME NEW s \in Seq(Report), s # <<>>
    PROVE  /\ Tail(s) \in Seq(Report)
           /\ Two(s) => One(Tail(s))
           /\ Three(s) => Two(Tail(s))
           /\ Head(s) # "own" => /\ One(s) => One(Tail(s))
                                 /\ Two(s) => Two(Tail(s))
                                 /\ Three(s) => Three(Tail(s))
  <1> DEFINE r == Tail(s)
  <1>1. /\ r \in Seq(Report) /\ DOMAIN s = 1 .. Len(s) /\ Len(s) \in Nat
        /\ \A i \in DOMAIN s : i > 1 => i - 1 \in DOMAIN r /\ r[i - 1] = s[i]
        /\ Head(s) = s[1]
    OBVIOUS
  <1> HIDE DEF r
  <1>2. ASSUME Two(s) PROVE One(r)
    <2>1. PICK i, j \in DOMAIN s : i < j /\ s[i] = "own" /\ s[j] = "own"
      BY <1>2 DEF Two
    <2> QED
      BY <1>1, <2>1 DEF One
  <1>3. ASSUME Three(s) PROVE Two(r)
    <2>1. PICK i, j, k \in DOMAIN s :
            i < j /\ j < k /\ s[i] = "own" /\ s[j] = "own" /\ s[k] = "own"
      BY <1>3 DEF Three
    <2>2. j - 1 \in DOMAIN r /\ k - 1 \in DOMAIN r /\ j - 1 < k - 1
      BY <1>1, <2>1
    <2> QED
      BY <1>1, <2>1, <2>2 DEF Two
  <1>4. ASSUME Head(s) # "own", One(s) PROVE One(r)
    BY <1>1, <1>4 DEF One
  <1>5. ASSUME Head(s) # "own", Two(s) PROVE Two(r)
    <2>1. PICK i, j \in DOMAIN s : i < j /\ s[i] = "own" /\ s[j] = "own"
      BY <1>5 DEF Two
    <2>2. i - 1 \in DOMAIN r /\ j - 1 \in DOMAIN r /\ i - 1 < j - 1
      BY <1>1, <1>5, <2>1
    <2> QED
      BY <1>1, <1>5, <2>1, <2>2 DEF Two
  <1>6. ASSUME Head(s) # "own", Three(s) PROVE Three(r)
    <2>1. PICK i, j, k \in DOMAIN s :
            i < j /\ j < k /\ s[i] = "own" /\ s[j] = "own" /\ s[k] = "own"
      BY <1>6 DEF Three
    <2>2. /\ i - 1 \in DOMAIN r /\ j - 1 \in DOMAIN r /\ k - 1 \in DOMAIN r
          /\ i - 1 < j - 1 /\ j - 1 < k - 1
      BY <1>1, <1>6, <2>1
    <2>3. r[i - 1] = "own" /\ r[j - 1] = "own" /\ r[k - 1] = "own"
      BY <1>1, <1>6, <2>1
    <2> QED
      BY <2>2, <2>3 DEF Three
  <1> QED
    BY <1>1, <1>2, <1>3, <1>4, <1>5, <1>6 DEF r

Wrote(t) == tool[t] = "wrote"

\* The agent is owed the news of a change it has not been told.
Owed(t) == due[t] /\ ~modified[t]

\* While no mark was stray: every mark, and every write about to be marked, has
\* an own report to come, and one more is left over when the agent is owed.
OwnReportsSuffice(t) ==
    ~stray[t] =>
      /\ marked[t] => One(reports[t])
      /\ Owed(t) => One(reports[t])
      /\ marked[t] /\ Wrote(t) => Two(reports[t])
      /\ Owed(t) /\ (marked[t] \/ Wrote(t)) => Two(reports[t])
      /\ Owed(t) /\ marked[t] /\ Wrote(t) => Three(reports[t])

TrackerInv == FcTypeOK /\ \A t \in Tracked : OwnReportsSuffice(t)

LEMMA TrackerTold == TrackerInv => OthersChangesTold
  BY DEF TrackerInv, OwnReportsSuffice, OthersChangesTold, OwnToCome, Owed, One, FcTypeOK

LEMMA TrackerInit == FcInit => TrackerInv
  BY DEF FcInit, TrackerInv, FcTypeOK, OwnReportsSuffice, Owed, Wrote

\* The state of one tracker, for what a step leaves alone.
Same(t) ==
    /\ reports'[t] = reports[t] /\ marked'[t] = marked[t] /\ modified'[t] = modified[t]
    /\ tool'[t] = tool[t] /\ stray'[t] = stray[t] /\ due'[t] = due[t]

LEMMA SameSuffices ==
    ASSUME NEW t \in Tracked, OwnReportsSuffice(t), Same(t)
    PROVE  OwnReportsSuffice(t)'
  BY DEF OwnReportsSuffice, Same, Owed, Wrote, One, Two, Three

\* A step of one tracker: the others are as before.
LEMMA OneTracker ==
    ASSUME TrackerInv, FcTypeOK', NEW t \in Tracked, OwnReportsSuffice(t)',
           \A u \in Tracked : u # t => Same(u)
    PROVE  TrackerInv'
  BY SameSuffices DEF TrackerInv

LEMMA FcTypes ==
    ASSUME FcTypeOK
    PROVE  /\ watching \in [Tracked -> BOOLEAN] /\ marked \in [Tracked -> BOOLEAN]
           /\ modified \in [Tracked -> BOOLEAN] /\ stray \in [Tracked -> BOOLEAN]
           /\ due \in [Tracked -> BOOLEAN]
           /\ reports \in [Tracked -> Seq(Report)]
           /\ tool \in [Tracked -> {"idle", "wrote", "tracking"}]
  BY DEF FcTypeOK, Report

LEMMA ReadOrWatchKeeps ==
    ASSUME TrackerInv, NEW t \in Tracked, ReadFile(t) \/ Watch(t)
    PROVE  TrackerInv'
  <1>1. FcTypeOK
    BY DEF TrackerInv
  <1>2. /\ FcTypeOK' /\ tool[t] # "wrote" /\ tool'[t] # "wrote"
        /\ \A u \in Tracked : u # t => Same(u)
        /\ UNCHANGED <<reports, marked, modified, stray, due>>
    <2>1. CASE ReadFile(t)
      BY <1>1, <2>1, FcTypes DEF ReadFile, FcTypeOK, Same, Set
    <2>2. CASE Watch(t)
      <3>1. /\ tool' \in [Tracked -> {"idle", "wrote", "tracking"}] /\ tool'[t] = "idle"
            /\ \A u \in Tracked : u # t => tool'[u] = tool[u]
        BY <1>1, <2>2, FcTypes DEF Watch, Set
      <3>2. watching' \in [Tracked -> BOOLEAN]
        BY <1>1, <2>2, FcTypes DEF Watch, Set
      <3>3. tool[t] = "tracking" /\ UNCHANGED <<reports, marked, modified, stray, due>>
        BY <2>2 DEF Watch
      <3>4. FcTypeOK'
        BY <1>1, <3>1, <3>2, <3>3 DEF FcTypeOK
      <3> QED
        BY <3>1, <3>3, <3>4 DEF Same
    <2> QED
      BY <2>1, <2>2
  <1>3. OwnReportsSuffice(t)'
    BY <1>2 DEF TrackerInv, OwnReportsSuffice, Owed, Wrote
  <1> QED
    BY <1>2, <1>3, OneTracker

LEMMA MarkKeeps ==
    ASSUME TrackerInv, NEW t \in Tracked, Mark(t)
    PROVE  TrackerInv'
  <1>1. FcTypeOK
    BY DEF TrackerInv
  <1>2. /\ FcTypeOK' /\ tool[t] = "wrote" /\ tool'[t] = "tracking"
        /\ stray'[t] = (stray[t] \/ ~OwnToCome(t))
        /\ \A u \in Tracked : u # t => Same(u)
        /\ UNCHANGED <<reports, modified, due>>
    <2>1. /\ tool' \in [Tracked -> {"idle", "wrote", "tracking"}] /\ tool'[t] = "tracking"
          /\ \A u \in Tracked : u # t => tool'[u] = tool[u]
      BY <1>1, FcTypes DEF Mark, Set
    <2>2. /\ marked' \in [Tracked -> BOOLEAN]
          /\ \A u \in Tracked : u # t => marked'[u] = marked[u]
      BY <1>1, FcTypes DEF Mark, Set
    <2>3. /\ stray' \in [Tracked -> BOOLEAN] /\ stray'[t] = (stray[t] \/ ~OwnToCome(t))
          /\ \A u \in Tracked : u # t => stray'[u] = stray[u]
      <3>1. (stray[t] \/ ~OwnToCome(t)) \in BOOLEAN
        BY <1>1, FcTypes DEF OwnToCome
      <3> QED
        BY <1>1, <3>1, FcTypes DEF Mark, Set
    <2>4. tool[t] = "wrote" /\ UNCHANGED <<watching, reports, modified, due>>
      BY DEF Mark
    <2>5. FcTypeOK'
      BY <1>1, <2>1, <2>2, <2>3, <2>4 DEF FcTypeOK
    <2> QED
      BY <2>1, <2>2, <2>3, <2>4, <2>5 DEF Same
  <1>3. ~stray'[t] => One(reports[t])
    BY <1>2 DEF OwnToCome, One
  <1>4. OwnReportsSuffice(t)'
    BY <1>2, <1>3 DEF TrackerInv, OwnReportsSuffice, Owed, Wrote
  <1> QED
    BY <1>2, <1>4, OneTracker

LEMMA TellKeeps ==
    ASSUME TrackerInv, NEW t \in Tracked, TellAgent(t)
    PROVE  TrackerInv'
  <1>1. FcTypeOK
    BY DEF TrackerInv
  <1>2. /\ FcTypeOK' /\ ~due'[t] /\ \A u \in Tracked : u # t => Same(u)
        /\ UNCHANGED <<reports, marked, tool, stray>>
    <2>1. /\ due' \in [Tracked -> BOOLEAN] /\ ~due'[t]
          /\ \A u \in Tracked : u # t => due'[u] = due[u]
      BY <1>1, FcTypes DEF TellAgent, Set
    <2>2. /\ modified' \in [Tracked -> BOOLEAN]
          /\ \A u \in Tracked : u # t => modified'[u] = modified[u]
      BY <1>1, FcTypes DEF TellAgent, Set
    <2>3. UNCHANGED <<watching, reports, marked, tool, stray>>
      BY DEF TellAgent
    <2> QED
      BY <1>1, <2>1, <2>2, <2>3 DEF FcTypeOK, Same
  <1>3. OwnReportsSuffice(t)'
    BY <1>2 DEF TrackerInv, OwnReportsSuffice, Owed, Wrote
  <1> QED
    BY <1>2, <1>3, OneTracker

\* A report takes the mark or tells; one that is the agent's own is one fewer.
LEMMA DidChangeKeeps ==
    ASSUME TrackerInv, NEW t \in Tracked, DidChange(t)
    PROVE  TrackerInv'
  <1> DEFINE s == reports[t]
  <1>1. FcTypeOK /\ OwnReportsSuffice(t)
    BY DEF TrackerInv
  <1>2. s \in Seq(Report) /\ s # <<>> /\ Tail(s) \in Seq(Report) /\ Head(s) \in Report
    BY <1>1, FcTypes, OneLess DEF DidChange
  <1>3. /\ FcTypeOK' /\ reports'[t] = Tail(s) /\ ~marked'[t]
        /\ modified'[t] = (modified[t] \/ ~marked[t])
        /\ due'[t] = (due[t] \/ Head(s) = "other")
        /\ \A u \in Tracked : u # t => Same(u)
        /\ UNCHANGED <<tool, stray>>
    <2>0. marked[t] \in BOOLEAN /\ modified[t] \in BOOLEAN /\ due[t] \in BOOLEAN
      BY <1>1, FcTypes
    <2>1. /\ reports' \in [Tracked -> Seq(Report)] /\ reports'[t] = Tail(s)
          /\ \A u \in Tracked : u # t => reports'[u] = reports[u]
      BY <1>1, <1>2, FcTypes DEF DidChange, Set
    <2>2. /\ marked' \in [Tracked -> BOOLEAN] /\ ~marked'[t]
          /\ \A u \in Tracked : u # t => marked'[u] = marked[u]
      BY <1>1, FcTypes DEF DidChange, Set
    <2>3. /\ modified' \in [Tracked -> BOOLEAN]
          /\ modified'[t] = (modified[t] \/ ~marked[t])
          /\ \A u \in Tracked : u # t => modified'[u] = modified[u]
      <3>1. CASE marked[t]
        BY <1>1, <2>0, <3>1, FcTypes DEF DidChange
      <3>2. CASE ~marked[t]
        BY <1>1, <2>0, <3>2, FcTypes DEF DidChange, Set
      <3> QED
        BY <3>1, <3>2
    <2>4. /\ due' \in [Tracked -> BOOLEAN]
          /\ due'[t] = (due[t] \/ Head(s) = "other")
          /\ \A u \in Tracked : u # t => due'[u] = due[u]
      BY <1>1, <2>0, FcTypes DEF DidChange, Set
    <2>5. UNCHANGED <<watching, tool, stray>>
      BY DEF DidChange
    <2>6. FcTypeOK'
      BY <1>1, <2>1, <2>2, <2>3, <2>4, <2>5, FcTypes DEF FcTypeOK, Report
    <2> QED
      BY <2>1, <2>2, <2>3, <2>4, <2>5, <2>6 DEF Same
  <1>4. OwnReportsSuffice(t)'
    <2> SUFFICES ASSUME ~stray[t], Owed(t)'
                 PROVE  One(Tail(s)) /\ (Wrote(t) => Two(Tail(s)))
      BY <1>3 DEF OwnReportsSuffice, Wrote
    <2>1. marked[t] /\ ~modified[t] /\ (due[t] \/ Head(s) # "own")
      BY <1>3 DEF Owed, Report
    <2>2. CASE Head(s) # "own"
      BY <1>1, <1>2, <2>1, <2>2, OneLess DEF OwnReportsSuffice
    <2>3. CASE due[t]
      BY <1>1, <1>2, <2>1, <2>3, OneLess DEF OwnReportsSuffice, Owed
    <2> QED
      BY <2>1, <2>2, <2>3
  <1> QED
    BY <1>3, <1>4, OneTracker

\* What a change adds to the reports of one tracker.
LEMMA ChangedAdds ==
    ASSUME FcTypeOK, NEW writer, Changed(writer), NEW t \in Tracked
    PROVE  LET x == IF t = writer THEN "own" ELSE "other"
           IN  /\ reports' \in [Tracked -> Seq(Report)]
               /\ reports'[t] = IF watching[t] THEN Append(reports[t], x) ELSE reports[t]
  <1>1. \A u \in Tracked : reports[u] \in Seq(Report)
    BY FcTypes
  <1>2. \A u \in Tracked : /\ Append(reports[u], "own") \in Seq(Report)
                           /\ Append(reports[u], "other") \in Seq(Report)
    BY <1>1 DEF Report
  <1> QED
    BY <1>1, <1>2 DEF Changed

\* A tracker whose task has not written may have one report more.
LEMMA MoreReports ==
    ASSUME NEW t \in Tracked, OwnReportsSuffice(t), reports[t] \in Seq(Report),
           \/ reports'[t] = reports[t]
           \/ \E x \in Report : reports'[t] = Append(reports[t], x),
           marked'[t] = marked[t], modified'[t] = modified[t],
           tool'[t] = tool[t], stray'[t] = stray[t], due'[t] = due[t]
    PROVE  OwnReportsSuffice(t)'
  <1>1. CASE reports'[t] = reports[t]
    BY <1>1, SameSuffices DEF Same
  <1>2. ASSUME NEW x \in Report, reports'[t] = Append(reports[t], x)
        PROVE  OwnReportsSuffice(t)'
    BY <1>2, OneMore DEF OwnReportsSuffice, Owed, Wrote
  <1> QED
    BY <1>1, <1>2

\* A change by nobody who is tracked.
LEMMA SeenKeeps ==
    ASSUME TrackerInv, Seen("nobody")
    PROVE  TrackerInv'
  <1>1. FcTypeOK /\ UNCHANGED <<watching, marked, modified, tool, stray, due>>
    BY DEF TrackerInv, Seen
  <1>2. CASE UNCHANGED reports
    BY <1>1, <1>2 DEF TrackerInv, FcTypeOK, OwnReportsSuffice, Owed, Wrote, One, Two, Three
  <1>3. CASE Changed("nobody")
    <2>1. \A t \in Tracked :
            /\ reports[t] \in Seq(Report)
            /\ \/ reports'[t] = reports[t]
               \/ \E x \in Report : reports'[t] = Append(reports[t], x)
      BY <1>1, <1>3, ChangedAdds, FcTypes DEF Report
    <2>2. \A t \in Tracked : OwnReportsSuffice(t)'
      BY <1>1, <2>1, MoreReports DEF TrackerInv
    <2>3. FcTypeOK'
      <3>1. reports' \in [Tracked -> Seq(Report)]
        BY <1>1, <1>3, ChangedAdds DEF Changed
      <3> QED
        BY <1>1, <3>1 DEF FcTypeOK, Report
    <2> QED
      BY <2>2, <2>3 DEF TrackerInv
  <1> QED
    BY <1>2, <1>3 DEF Seen

\* A write of the agent's own, about to be marked: one own report more, or a stray.
LEMMA AgentWritesKeeps ==
    ASSUME TrackerInv, NEW t \in Tracked, AgentWrites(t)
    PROVE  TrackerInv'
  <1>1. FcTypeOK /\ UNCHANGED <<watching, marked, modified, due>>
    BY DEF TrackerInv, AgentWrites, ToolWrote
  <1>2. /\ tool' \in [Tracked -> {"idle", "wrote", "tracking"}]
        /\ tool[t] = "idle" /\ tool'[t] = "wrote"
        /\ \A u \in Tracked : u # t => tool'[u] = tool[u]
    BY <1>1, FcTypes DEF AgentWrites, ToolWrote, Set
  <1>3. /\ stray' \in [Tracked -> BOOLEAN]
        /\ stray'[t] = (stray[t] \/ ~(disk # 0 /\ watching[t]))
        /\ \A u \in Tracked : u # t => stray'[u] = stray[u]
    <2>1. (stray[t] \/ ~(disk # 0 /\ watching[t])) \in BOOLEAN
      BY <1>1, FcTypes
    <2> QED
      BY <1>1, <2>1, FcTypes DEF AgentWrites, ToolWrote, Set
  <1>4. /\ reports' \in [Tracked -> Seq(Report)]
        /\ \A u \in Tracked : \/ reports'[u] = reports[u]
                              \/ \E x \in Report : reports'[u] = Append(reports[u], x)
    <2>1. CASE disk # 0
      <3>1. Changed(t)
        BY <2>1 DEF AgentWrites
      <3> QED
        BY <1>1, <3>1, ChangedAdds DEF Report
    <2>2. CASE disk = 0
      BY <1>1, <2>2, FcTypes DEF AgentWrites
    <2> QED
      BY <2>1, <2>2
  <1>5. FcTypeOK'
    BY <1>1, <1>2, <1>3, <1>4 DEF FcTypeOK, Report
  <1>6. ASSUME NEW u \in Tracked, u # t PROVE OwnReportsSuffice(u)'
    <2>1. OwnReportsSuffice(u) /\ reports[u] \in Seq(Report)
      BY <1>1, FcTypes DEF TrackerInv
    <2>2. marked'[u] = marked[u] /\ modified'[u] = modified[u] /\ due'[u] = due[u]
      BY <1>1
    <2> QED
      BY <1>2, <1>3, <1>4, <1>6, <2>1, <2>2, MoreReports
  <1>7. OwnReportsSuffice(t)'
    <2> SUFFICES ASSUME ~stray'[t] PROVE OwnReportsSuffice(t)'
      BY DEF OwnReportsSuffice
    <2>1. disk # 0 /\ watching[t] /\ ~stray[t]
      BY <1>3
    <2>2. Changed(t)
      BY <2>1 DEF AgentWrites
    <2>3. reports'[t] = Append(reports[t], "own") /\ reports[t] \in Seq(Report)
      BY <1>1, <2>1, <2>2, ChangedAdds, FcTypes
    <2>4. /\ One(reports'[t])
          /\ One(reports[t]) => Two(reports'[t])
          /\ Two(reports[t]) => Three(reports'[t])
      BY <2>3, OneMore DEF Report
    <2>5. OwnReportsSuffice(t) /\ (Owed(t)' <=> Owed(t)) /\ (marked'[t] <=> marked[t])
      BY <1>1 DEF TrackerInv, Owed
    <2> QED
      BY <2>1, <2>4, <2>5 DEF OwnReportsSuffice
  <1> QED
    BY <1>5, <1>6, <1>7 DEF TrackerInv

\* A new tracker owes nothing.
LEMMA RenewedKeeps ==
    ASSUME TrackerInv, NEW t, Renewed(t)
    PROVE  TrackerInv'
  <1>1. FcTypeOK
    BY DEF TrackerInv
  <1>2. CASE t \notin Tracked
    <2>1. UNCHANGED fcVars
      BY <1>2 DEF Renewed
    <2> QED
      BY <2>1 DEF fcVars, TrackerInv, FcTypeOK, OwnReportsSuffice, Owed, Wrote, One, Two, Three
  <1>3. CASE t \in Tracked
    <2>1. /\ watching' \in [Tracked -> BOOLEAN]
          /\ modified' \in [Tracked -> BOOLEAN]
          /\ stray' \in [Tracked -> BOOLEAN]
          /\ \A u \in Tracked : u # t => modified'[u] = modified[u] /\ stray'[u] = stray[u]
      BY <1>1, <1>3, FcTypes DEF Renewed, Set
    <2>2. /\ marked' \in [Tracked -> BOOLEAN] /\ due' \in [Tracked -> BOOLEAN]
          /\ ~marked'[t] /\ ~due'[t]
          /\ \A u \in Tracked : u # t => marked'[u] = marked[u] /\ due'[u] = due[u]
      BY <1>1, <1>3, FcTypes DEF Renewed, Set
    <2>3. /\ tool' \in [Tracked -> {"idle", "wrote", "tracking"}]
          /\ \A u \in Tracked : u # t => tool'[u] = tool[u]
      BY <1>1, <1>3, FcTypes DEF Renewed, Set
    <2>4. /\ reports' \in [Tracked -> Seq(Report)]
          /\ \A u \in Tracked : u # t => reports'[u] = reports[u]
      <3>1. <<>> \in Seq(Report)
        OBVIOUS
      <3>2. reports' = [reports EXCEPT ![t] = <<>>] /\ reports \in [Tracked -> Seq(Report)]
        BY <1>1, <1>3, FcTypes DEF Renewed, Set
      <3> QED
        BY <3>1, <3>2
    <2>5. FcTypeOK'
      BY <2>1, <2>2, <2>3, <2>4 DEF FcTypeOK, Report
    <2>6. OwnReportsSuffice(t)'
      BY <2>2 DEF OwnReportsSuffice, Owed
    <2> QED
      BY <1>3, <2>1, <2>2, <2>3, <2>4, <2>5, <2>6, OneTracker DEF Same
  <1> QED
    BY <1>2, <1>3

LEMMA TrackerStutters == TrackerInv /\ UNCHANGED fcVars => TrackerInv'
  BY DEF fcVars, TrackerInv, FcTypeOK, OwnReportsSuffice, Owed, Wrote, One, Two, Three

LEMMA TrackerNext == TrackerInv /\ [Next]_vars => TrackerInv'
  <1> SUFFICES ASSUME TrackerInv, [Next]_vars PROVE TrackerInv'
    OBVIOUS
  <1>1. ASSUME NEW c \in Call, Restore(c) PROVE TrackerInv'
    <2>1. CASE RestoreChanges(c)
      BY <2>1, SeenKeeps DEF RestoreChanges
    <2>2. CASE Finish(c) /\ InstanceRenewed(TaskOf(c))
      BY <2>2, RenewedKeeps, TrackerStutters DEF InstanceRenewed
    <2>3. CASE UNCHANGED fcVars
      BY <2>3, TrackerStutters
    <2> QED
      BY <1>1, <2>1, <2>2, <2>3 DEF Restore
  <1>2. ASSUME NEW t \in Tracked, AgentWrites(t) \/ TrackerStep(t) PROVE TrackerInv'
    BY <1>2, AgentWritesKeeps, ReadOrWatchKeeps, MarkKeeps, DidChangeKeeps, TellKeeps
    DEF TrackerStep
  <1>3. CASE UserWrites
    BY <1>3, SeenKeeps DEF UserWrites
  <1>4. CASE UNCHANGED vars
    BY <1>4, TrackerStutters DEF vars
  <1>5. ASSUME NEW t \in Task, \/ CancelTask(t) /\ Renewed(t)
                               \/ Acknowledge(t) /\ UNCHANGED fcVars
        PROVE  TrackerInv'
    BY <1>5, RenewedKeeps, TrackerStutters
  <1> QED
    BY <1>1, <1>2, <1>3, <1>4, <1>5, TrackerStutters DEF Next

\* What somebody else did to a file the agent knows is told to the agent, though
\* the mark of an own edit was taken for it (setupFileWatcher, onDidChange).
THEOREM ChangesTold == Spec => []OthersChangesTold
  <1>1. WorkspaceInit => TrackerInv
    BY TrackerInit DEF WorkspaceInit
  <1>2. TrackerInv /\ [Next]_vars => TrackerInv'
    BY TrackerNext
  <1>3. TrackerInv => OthersChangesTold
    BY TrackerTold
  <1> QED
    BY <1>1, <1>2, <1>3, PTL DEF Spec

-----------------------------------------------------------------------------
(* The types of the composition.  Two of them are more than that: a task has   *)
(* no more instances than calls that ended and faults account for, so that     *)
(* Instance has them all, and a restore goes to a commit that exists.          *)

Over == {c \in Call : pc[c] = "done"}

\* Every new instance of a task comes from a call that ended, or from a fault.
Counts ==
    /\ gen \in [Task -> Nat \ {0}] /\ faults \in 0 .. MaxFaults
    /\ \A t \in Task : gen[t] <= 1 + faults + Cardinality(Over)

Flags ==
    /\ enabled \in [Instance -> BOOLEAN] /\ initializing \in [Instance -> BOOLEAN]
    /\ service \in [Instance -> Call \cup {NoCall}]
    /\ made \subseteq Call /\ stale \in [Task -> BOOLEAN]

\* A restore is asked for with a commit, and only a restore gets in line.
Jobs ==
    /\ job \in [Call -> Job]
    /\ \A c \in Call : job[c].kind = "restore" => job[c].to \in DOMAIN commits
    /\ \A c \in Call : pc[c] \in {"lined"} \cup Inside => job[c].kind = "restore"

Repos ==
    /\ commits \in Seq(Content) /\ saved \in [Task -> Seq(DOMAIN commits)]
    /\ index \in [Task -> Content] /\ head \in [Task -> 0 .. Len(commits)]
    /\ disk \in Content /\ writes \in Content

Typed == LockTypeOK /\ Counts /\ Flags /\ Jobs /\ Repos

-----------------------------------------------------------------------------
(* Counting                                                                    *)

LEMMA OverBounded ==
    /\ IsFiniteSet(Over) /\ Cardinality(Over) \in Nat /\ Cardinality(Over) <= MaxCalls
  <1>1. IsFiniteSet(Call) /\ Cardinality(Call) = MaxCalls
    BY BoundsNat, FS_Interval DEF Call
  <1>2. Over \in SUBSET Call
    BY DEF Over
  <1> QED
    BY <1>1, <1>2, FS_Subset, FS_CardinalityType

\* Nobody who is done begins again.
OverStays == \A c \in Call : pc[c] = "done" => pc'[c] = "done"

LEMMA OverGrows ==
    ASSUME OverStays
    PROVE  /\ Cardinality(Over') \in Nat /\ Cardinality(Over) <= Cardinality(Over')
  <1>1. IsFiniteSet(Call)
    BY BoundsNat, FS_Interval DEF Call
  <1>2. Over' \in SUBSET Call /\ Over \in SUBSET Over'
    BY DEF Over, OverStays
  <1>3. IsFiniteSet(Over')
    BY <1>1, <1>2, FS_Subset
  <1> QED
    BY <1>2, <1>3, FS_Subset, FS_CardinalityType

LEMMA OneMoreOver ==
    ASSUME NEW c \in Call, pc[c] # "done", pc' = [pc EXCEPT ![c] = "done"],
           pc \in [Call -> Place]
    PROVE  Cardinality(Over') = Cardinality(Over) + 1
  <1>1. Over' = Over \cup {c} /\ c \notin Over
    BY DEF Over
  <1> QED
    BY <1>1, OverBounded, FS_AddElement

LEMMA CountsKept ==
    ASSUME Counts, OverStays, UNCHANGED gen, faults' \in faults .. MaxFaults
    PROVE  Counts'
  <1>1. \A t \in Task : gen'[t] <= 1 + faults' + Cardinality(Over')
    BY OverGrows, OverBounded DEF Counts
  <1> QED
    BY <1>1 DEF Counts

LEMMA CountsRenewed ==
    ASSUME Counts, OverStays, NEW t \in Task, Renew(t), faults' \in faults .. MaxFaults,
           faults' > faults \/ Cardinality(Over') = Cardinality(Over) + 1
    PROVE  Counts'
  <1>1. \A u \in Task : gen'[u] <= gen[u] + 1 /\ gen'[u] \in Nat \ {0}
    BY DEF Counts, Renew
  <1>2. \A u \in Task : gen'[u] <= 1 + faults' + Cardinality(Over')
    BY <1>1, OverGrows, OverBounded DEF Counts
  <1> QED
    BY <1>2 DEF Counts, Renew

LEMMA InstancesNamed ==
    ASSUME Counts, NEW t \in Task
    PROVE  gen[t] \in 1 .. 1 + MaxCalls + MaxFaults /\ Now(t) \in Instance
  BY OverBounded, BoundsNat DEF Counts, Now, Instance

LEMMA JobTask ==
    ASSUME Jobs, NEW c \in Call
    PROVE  TaskOf(c) \in Task /\ job[c].to \in Nat /\ job[c].of \in Instance
  BY DEF Jobs, Job, TaskOf, Instance

-----------------------------------------------------------------------------
(* The instances and the faults                                                *)

LEMMA FaultCounted == Counts /\ Fault => faults' \in faults .. MaxFaults
  BY BoundsNat DEF Fault, Counts

LEMMA BeginCounts ==
    ASSUME Typed, NEW c \in Call, NEW t \in Task, BeginAny(c, t)
    PROVE  Counts'
  <1>1. PICK kind, to : Begin(c, t, kind, to) /\ pc[c] = "idle"
    BY DEF BeginAny, NextCall
  <1>2. OverStays /\ UNCHANGED gen
    BY <1>1 DEF Begin, OverStays, Typed, LockTypeOK
  <1>3. faults' \in faults .. MaxFaults
    BY <1>1, FaultCounted DEF Begin, Typed, Counts
  <1> QED
    BY <1>2, <1>3, CountsKept DEF Typed

LEMMA EarlyCounts ==
    ASSUME Typed, NEW c \in Call, InitStep(c) \/ WaitStep(c) \/ SaveStep(c)
    PROVE  Counts'
  <1>1. /\ OverStays /\ UNCHANGED gen
        /\ UNCHANGED faults \/ Fault
    <2> USE DEF OverStays, Typed, LockTypeOK, Goto, instVars
    <2>1. CASE InitStep(c)
      BY <2>1 DEF InitStep, InitFails, InitDone, Assign, StageAll
    <2>2. CASE WaitStep(c)
      BY <2>2 DEF WaitStep, WaitOver, WaitTimesOut
    <2>3. CASE Stage(c)
      BY <2>3 DEF Stage, StageAll
    <2>4. CASE Commit(c) \/ NothingCommitted(c) \/ SaveFails(c)
      BY <2>4 DEF Commit, NothingCommitted, SaveFails
    <2> QED
      BY <2>1, <2>2, <2>3, <2>4 DEF SaveStep
  <1> QED
    BY <1>1, FaultCounted, CountsKept DEF Typed, Counts

LEMMA RestoreCounts ==
    ASSUME Typed, NEW c \in Call, RestoreStep(c)
    PROVE  Counts'
  <1>1. CASE Ask(c) \/ Grant(c) \/ Clean(c) \/ Reset(c) \/ RestoreFails(c) \/ Broadcast(c)
    <2>1. /\ OverStays /\ UNCHANGED gen
          /\ UNCHANGED faults \/ Fault
      BY <1>1 DEF OverStays, Typed, LockTypeOK, Goto, instVars, Ask, Grant, Clean, Reset,
                  RestoreFails, Broadcast
    <2> QED
      BY <2>1, FaultCounted, CountsKept DEF Typed, Counts
  <1>2. CASE Finish(c)
    <2>1. /\ pc[c] # "done" /\ pc' = [pc EXCEPT ![c] = "done"] /\ UNCHANGED faults
          /\ UNCHANGED gen \/ Renew(TaskOf(c))
      BY <1>2 DEF Finish, Goto, Reload
    <2>2. OverStays
      BY <2>1 DEF OverStays, Typed, LockTypeOK
    <2>3. Cardinality(Over') = Cardinality(Over) + 1
      BY <2>1, OneMoreOver DEF Typed, LockTypeOK
    <2>4. faults' \in faults .. MaxFaults
      BY <2>1, BoundsNat DEF Typed, Counts
    <2> QED
      BY <2>1, <2>2, <2>3, <2>4, JobTask, CountsKept, CountsRenewed DEF Typed
  <1> QED
    BY <1>1, <1>2 DEF RestoreStep

LEMMA WindowCounts ==
    ASSUME Typed, Write \/ \E t \in Task : CancelTask(t) \/ Acknowledge(t)
    PROVE  Counts'
  <1>1. CASE Write \/ \E t \in Task : Acknowledge(t)
    <2>1. OverStays /\ UNCHANGED <<gen, faults>>
      BY <1>1 DEF Write, Acknowledge, OverStays, instVars
    <2> QED
      BY <2>1, BoundsNat, CountsKept DEF Typed, Counts
  <1>2. ASSUME NEW t \in Task, CancelTask(t) PROVE Counts'
    <2>1. OverStays /\ Renew(t) /\ Fault /\ faults' > faults
      BY <1>2 DEF CancelTask, OverStays, Fault, Typed, Counts
    <2> QED
      BY <2>1, FaultCounted, CountsRenewed DEF Typed
  <1> QED
    BY <1>1, <1>2

-----------------------------------------------------------------------------
(* The fields of the instances and the windows                                 *)

LEMMA FlagsKept ==
    ASSUME Typed, [CkNext]_ckVars
    PROVE  Flags'
  <1> USE DEF Typed, Flags, Disable, instVars
  <1>1. ASSUME NEW c \in Call, NEW t \in Task, BeginAny(c, t) PROVE Flags'
    <2>1. PICK kind, to : Begin(c, t, kind, to)
      BY <1>1 DEF BeginAny
    <2> QED
      BY <2>1 DEF Begin
  <1>2. ASSUME NEW c \in Call, InitStep(c) PROVE Flags'
    <2>1. Assign(c) /\ service' \in [Instance -> Call \cup {NoCall}] /\ UNCHANGED stale
      BY <1>2 DEF InitStep, InitFails, InitDone, Assign
    <2>2. CASE InitFails(c)
      BY <2>1, <2>2 DEF InitFails
    <2>3. CASE InitDone(c)
      BY <2>1, <2>3 DEF InitDone
    <2> QED
      BY <1>2, <2>2, <2>3 DEF InitStep
  <1>3. ASSUME NEW c \in Call, WaitStep(c) \/ SaveStep(c) PROVE Flags'
    BY <1>3 DEF WaitStep, WaitOver, WaitTimesOut, SaveStep, Stage, Commit,
                NothingCommitted, SaveFails
  <1>4. ASSUME NEW c \in Call, RestoreStep(c) PROVE Flags'
    <2>1. CASE Finish(c)
      BY <2>1 DEF Finish
    <2>2. CASE Broadcast(c)
      <3>1. stale' = [t \in Task |-> t # TaskOf(c) \/ stale[t]]
        BY <2>2 DEF Broadcast
      <3>2. stale' \in [Task -> BOOLEAN]
        BY <3>1, Zenon
      <3> QED
        BY <2>2, <3>2 DEF Broadcast
    <2>3. CASE Ask(c) \/ Grant(c) \/ Clean(c) \/ Reset(c) \/ RestoreFails(c)
      BY <2>3 DEF Ask, Grant, Clean, Reset, RestoreFails
    <2> QED
      BY <1>4, <2>1, <2>2, <2>3 DEF RestoreStep
  <1>5. ASSUME NEW t \in Task, CancelTask(t) \/ Acknowledge(t) PROVE Flags'
    BY <1>5 DEF CancelTask, Acknowledge
  <1>6. CASE Write \/ UNCHANGED ckVars
    BY <1>6 DEF Write, ckVars
  <1> QED
    BY <1>1, <1>2, <1>3, <1>4, <1>5, <1>6 DEF CkNext

-----------------------------------------------------------------------------
(* The repositories and the jobs                                               *)

\* What the steps do to the commits: nothing, or one is added.
Added == UNCHANGED commits \/ \E x \in Content : commits' = Append(commits, x)

LEMMA AddedGrows ==
    ASSUME Repos, Added
    PROVE  /\ commits' \in Seq(Content) /\ DOMAIN commits \subseteq DOMAIN commits'
           /\ Len(commits) \in Nat /\ Len(commits') \in Nat
           /\ Len(commits) <= Len(commits')
           /\ DOMAIN commits' = 1 .. Len(commits')
  <1>1. CASE UNCHANGED commits
    BY <1>1 DEF Repos
  <1>2. ASSUME NEW x \in Content, commits' = Append(commits, x)
        PROVE  /\ commits' \in Seq(Content) /\ DOMAIN commits \subseteq DOMAIN commits'
               /\ Len(commits) \in Nat /\ Len(commits') \in Nat
               /\ Len(commits) <= Len(commits')
               /\ DOMAIN commits' = 1 .. Len(commits')
    BY <1>2 DEF Repos
  <1> QED
    BY <1>1, <1>2 DEF Added

\* What was a sequence of commits still is, when commits are added.
LEMMA SavedWider ==
    ASSUME Repos, Added, NEW f \in [Task -> Seq(DOMAIN commits)]
    PROVE  f \in [Task -> Seq(DOMAIN commits')]
  <1>1. DOMAIN commits \subseteq DOMAIN commits'
    BY AddedGrows
  <1>2. \A s \in Seq(DOMAIN commits) : s \in Seq(DOMAIN commits')
    BY <1>1
  <1> QED
    BY <1>2

LEMMA HeadWider ==
    ASSUME Repos, Added, NEW f \in [Task -> 0 .. Len(commits)]
    PROVE  f \in [Task -> 0 .. Len(commits')]
  BY AddedGrows

\* The repositories stay what they are when a step leaves them alone.
LEMMA ReposAlone ==
    ASSUME Repos, UNCHANGED <<repoVars, disk, writes>>
    PROVE  Repos' /\ Added
  BY DEF Repos, repoVars, Added

LEMMA StageTypes ==
    ASSUME Typed, NEW c \in Call, StageAll(TaskOf(c))
    PROVE  /\ index' \in [Task -> Content] /\ index'[TaskOf(c)] \in Content
           /\ TaskOf(c) \in Task
  BY JobTask DEF StageAll, Typed, Repos

\* A commit is added to a repository.
LEMMA CommitTypes ==
    ASSUME Repos, NEW t \in Task, NEW x \in Content, commits' = Append(commits, x),
           head' = [head EXCEPT ![t] = Len(commits')]
    PROVE  /\ Added /\ head' \in [Task -> 0 .. Len(commits')]
           /\ Len(commits') \in DOMAIN commits'
  <1>1. Added
    BY DEF Added
  <1>2. Len(commits') = Len(commits) + 1 /\ Len(commits) \in Nat
    BY DEF Repos
  <1> QED
    BY <1>1, <1>2, AddedGrows DEF Repos

LEMMA InitStepRepos ==
    ASSUME Typed, NEW c \in Call, InitStep(c)
    PROVE  Repos' /\ Added
  <1>1. Repos /\ UNCHANGED <<saved, disk, writes>>
    BY DEF Typed, InitStep, InitFails, InitDone, Assign
  <1>2. CASE UNCHANGED <<index, head, commits>>
    BY <1>1, <1>2, ReposAlone DEF repoVars
  <1>3. CASE ~UNCHANGED <<index, head, commits>>
    <2>1. /\ StageAll(TaskOf(c))
          /\ commits' = Append(commits, index'[TaskOf(c)])
          /\ head' = [head EXCEPT ![TaskOf(c)] = Len(commits')]
      BY <1>3 DEF InitStep, InitFails, InitDone
    <2>2. index' \in [Task -> Content] /\ index'[TaskOf(c)] \in Content /\ TaskOf(c) \in Task
      BY <2>1, StageTypes
    <2>3. Added /\ head' \in [Task -> 0 .. Len(commits')]
      BY <1>1, <2>1, <2>2, CommitTypes
    <2>4. saved' \in [Task -> Seq(DOMAIN commits')] /\ commits' \in Seq(Content)
      BY <1>1, <2>3, SavedWider, AddedGrows DEF Repos
    <2> QED
      BY <1>1, <2>2, <2>3, <2>4 DEF Repos
  <1> QED
    BY <1>2, <1>3

LEMMA SaveStepRepos ==
    ASSUME Typed, NEW c \in Call, SaveStep(c)
    PROVE  Repos' /\ Added
  <1>1. Repos /\ TaskOf(c) \in Task
    BY JobTask DEF Typed
  <1>2. CASE Stage(c)
    <2>1. UNCHANGED <<head, commits, saved, disk, writes>> /\ index' \in [Task -> Content]
      BY <1>2, StageTypes DEF Stage
    <2> QED
      BY <1>1, <2>1 DEF Repos, Added
  <1>3. CASE Commit(c)
    <2> DEFINE t == TaskOf(c)
    <2>1. /\ commits' = Append(commits, index[t]) /\ index[t] \in Content
          /\ head' = [head EXCEPT ![t] = Len(commits')]
          /\ UNCHANGED <<index, disk, writes>>
          /\ saved' = saved \/ saved' = [saved EXCEPT ![t] = Append(@, Len(commits'))]
      BY <1>1, <1>3 DEF Commit, Repos
    <2>2. /\ Added /\ head' \in [Task -> 0 .. Len(commits')]
          /\ Len(commits') \in DOMAIN commits'
      BY <1>1, <2>1, CommitTypes
    <2>3. saved \in [Task -> Seq(DOMAIN commits')] /\ commits' \in Seq(Content)
      BY <1>1, <2>2, SavedWider, AddedGrows DEF Repos
    <2>4. Append(saved[t], Len(commits')) \in Seq(DOMAIN commits')
      BY <1>1, <2>2, <2>3
    <2>5. saved' \in [Task -> Seq(DOMAIN commits')]
      BY <2>1, <2>3, <2>4
    <2> QED
      BY <1>1, <2>1, <2>2, <2>3, <2>5 DEF Repos
  <1>4. CASE NothingCommitted(c) \/ SaveFails(c)
    BY <1>1, <1>4, ReposAlone DEF NothingCommitted, SaveFails
  <1> QED
    BY <1>2, <1>3, <1>4 DEF SaveStep

LEMMA FirstOfMany ==
    ASSUME NEW S, NEW s \in Seq(S), NEW x, Has(s, x)
    PROVE  SubSeq(s, 1, Position(s, x)) \in Seq(S)
  <1>1. Position(s, x) \in DOMAIN s
    BY DEF Has, Position
  <1>2. Position(s, x) \in Nat /\ Position(s, x) <= Len(s)
    BY <1>1
  <1>3. \A k \in 1 .. Position(s, x) : s[k] \in S
    BY <1>2
  <1> QED
    BY <1>2, <1>3

LEMMA RestoreStepRepos ==
    ASSUME Typed, NEW c \in Call, RestoreStep(c)
    PROVE  Repos' /\ Added
  <1> DEFINE t == TaskOf(c)
             k == job[c].to
  <1>1. Repos /\ t \in Task
    BY JobTask DEF Typed
  <1>2. CASE Ask(c) \/ Grant(c) \/ RestoreFails(c) \/ Broadcast(c)
    BY <1>1, <1>2, ReposAlone DEF Ask, Grant, RestoreFails, Broadcast
  <1>3. CASE Clean(c)
    BY <1>1, <1>3 DEF Clean, Repos, repoVars, Added, Content
  <1>4. CASE Reset(c)
    <2>1. k \in DOMAIN commits
      BY <1>4 DEF Typed, Jobs, Reset, Goto, Inside
    <2>2. commits[k] \in Content /\ k \in 0 .. Len(commits)
      BY <1>1, <2>1 DEF Repos
    <2> QED
      BY <1>1, <1>4, <2>2 DEF Reset, Repos, Added
  <1>5. CASE Finish(c)
    <2>1. /\ UNCHANGED <<commits, index, head, disk, writes>>
          /\ \/ saved' = saved
             \/ Has(saved[t], k)
                /\ saved' = [saved EXCEPT ![t] = SubSeq(saved[t], 1, Position(saved[t], k))]
      BY <1>5 DEF Finish
    <2>2. Has(saved[t], k) =>
            SubSeq(saved[t], 1, Position(saved[t], k)) \in Seq(DOMAIN commits)
      <3>1. saved[t] \in Seq(DOMAIN commits)
        BY <1>1 DEF Repos
      <3> QED
        BY <3>1, FirstOfMany
    <2>3. saved' \in [Task -> Seq(DOMAIN commits)]
      BY <1>1, <2>1, <2>2 DEF Repos
    <2> QED
      BY <1>1, <2>1, <2>3 DEF Repos, Added
  <1> QED
    BY <1>2, <1>3, <1>4, <1>5 DEF RestoreStep

LEMMA ReposKept ==
    ASSUME Typed, [CkNext]_ckVars
    PROVE  Repos' /\ Added
  <1>1. ASSUME NEW c \in Call, NEW t \in Task, BeginAny(c, t) PROVE Repos' /\ Added
    BY <1>1, ReposAlone DEF BeginAny, Begin, Typed
  <1>2. ASSUME NEW c \in Call, WaitStep(c) PROVE Repos' /\ Added
    BY <1>2, ReposAlone DEF WaitStep, WaitOver, WaitTimesOut, Typed
  <1>3. CASE \/ \E t \in Task : CancelTask(t) \/ Acknowledge(t)
             \/ UNCHANGED ckVars
    BY <1>3, ReposAlone DEF CancelTask, Acknowledge, ckVars, Typed
  <1>4. CASE Write
    BY <1>4, BoundsNat DEF Write, Typed, Repos, repoVars, Added, Content
  <1> QED
    BY <1>1, <1>2, <1>3, <1>4, InitStepRepos, SaveStepRepos, RestoreStepRepos DEF CkNext

LEMMA BeginJobs ==
    ASSUME Typed, NEW c \in Call, NEW t \in Task, BeginAny(c, t)
    PROVE  Jobs'
  <1>1. PICK kind \in Kind, to \in Nat :
            Begin(c, t, kind, to) /\ (kind = "restore" => to \in DOMAIN commits)
    <2>1. CASE Begin(c, t, "save", 0)
      BY <2>1 DEF Kind
    <2>2. ASSUME NEW k \in DOMAIN saved[t], Begin(c, t, "restore", saved[t][k])
          PROVE  saved[t][k] \in DOMAIN commits /\ saved[t][k] \in Nat /\ "restore" \in Kind
      <3>1. saved[t] \in Seq(DOMAIN commits) /\ DOMAIN commits \subseteq Nat
        BY DEF Typed, Repos
      <3> QED
        BY <3>1 DEF Kind
    <2> QED
      BY <2>1, <2>2 DEF BeginAny
  <1>2. PICK svc \in Call \cup {NoCall} :
            job' = [job EXCEPT ![c] = [kind |-> kind, of |-> Now(t), svc |-> svc, to |-> to]]
    BY <1>1, InstancesNamed DEF Begin, Typed, Flags
  <1>3. job' \in [Call -> Job]
    <2>1. [kind |-> kind, of |-> Now(t), svc |-> svc, to |-> to] \in Job
      BY <1>1, InstancesNamed DEF Job, Typed
    <2> QED
      BY <1>2, <2>1 DEF Typed, Jobs
  <1>4. UNCHANGED commits
    BY <1>1 DEF Begin, repoVars
  <1>5. \A d \in Call : pc'[d] \in {"lined"} \cup Inside => d # c /\ pc'[d] = pc[d]
    BY <1>1 DEF Begin, Typed, LockTypeOK, Inside
  <1> QED
    BY <1>1, <1>2, <1>3, <1>4, <1>5 DEF Jobs, Typed

\* A call's job is as it was, or gets its service.
LEMMA JobsAlone ==
    ASSUME Typed, Added, NEW c \in Call, NEW svc \in Call \cup {NoCall},
           job' = job \/ job' = [job EXCEPT ![c].svc = svc],
           \A d \in Call : pc'[d] \in {"lined"} \cup Inside => job[d].kind = "restore"
    PROVE  Jobs'
  <1>1. \A d \in Call : job'[d].kind = job[d].kind /\ job'[d].to = job[d].to
    BY DEF Typed, Jobs, Job
  <1>2. job' \in [Call -> Job]
    BY DEF Typed, Jobs, Job
  <1>3. DOMAIN commits \subseteq DOMAIN commits'
    BY AddedGrows DEF Typed
  <1> QED
    BY <1>1, <1>2, <1>3 DEF Typed, Jobs

LEMMA JobsKept ==
    ASSUME Typed, [CkNext]_ckVars
    PROVE  Jobs'
  <1>1. Added
    BY ReposKept
  <1>2. ASSUME NEW c \in Call, InitStep(c) \/ WaitStep(c) \/ SaveStep(c) \/ RestoreStep(c)
        PROVE  Jobs'
    <2>1. \E svc \in Call \cup {NoCall} : job' = job \/ job' = [job EXCEPT ![c].svc = svc]
      <3>1. CASE InitStep(c)
        BY <3>1 DEF InitStep, InitFails, InitDone, Assign
      <3>2. CASE WaitOver(c)
        BY <3>2, JobTask DEF WaitOver, Typed, Flags
      <3>3. CASE WaitTimesOut(c) \/ SaveStep(c)
        BY <3>3 DEF WaitTimesOut, SaveStep, Stage, Commit, NothingCommitted, SaveFails, NoCall
      <3>4. CASE RestoreStep(c)
        BY <3>4 DEF RestoreStep, Ask, Grant, Clean, Reset, RestoreFails, Broadcast, Finish
      <3> QED
        BY <1>2, <3>1, <3>2, <3>3, <3>4 DEF WaitStep
    <2>2. \A d \in Call : pc'[d] \in {"lined"} \cup Inside => job[d].kind = "restore"
      <3> USE DEF Typed, LockTypeOK, Jobs, Goto, Inside
      <3>1. CASE InitStep(c)
        BY <3>1 DEF InitStep, InitFails, InitDone, Assign
      <3>2. CASE WaitStep(c) \/ SaveStep(c)
        BY <3>2 DEF WaitStep, WaitOver, WaitTimesOut, SaveStep, Stage, Commit,
                    NothingCommitted, SaveFails
      <3>3. CASE RestoreStep(c)
        BY <3>3 DEF RestoreStep, Ask, Grant, Clean, Reset, RestoreFails, Broadcast, Finish
      <3> QED
        BY <1>2, <3>1, <3>2, <3>3
    <2> QED
      BY <1>1, <2>1, <2>2, JobsAlone
  <1>3. CASE \/ Write \/ \E t \in Task : CancelTask(t) \/ Acknowledge(t)
             \/ UNCHANGED ckVars
    <2>1. UNCHANGED <<job, pc>>
      BY <1>3 DEF Write, CancelTask, Acknowledge, ckVars
    <2>2. DOMAIN commits \subseteq DOMAIN commits'
      BY <1>1, AddedGrows DEF Typed
    <2> QED
      BY <2>1, <2>2 DEF Typed, Jobs
  <1> QED
    BY <1>2, <1>3, BeginJobs DEF CkNext

-----------------------------------------------------------------------------
(* The theorem                                                                 *)

LEMMA TypedStays ==
    ASSUME LockInv, Typed, [CkNext]_ckVars
    PROVE  Typed'
  <1>1. LockTypeOK'
    BY StepOfLock, LockStepKeeps DEF LockInv
  <1>2. Counts'
    <2>1. CASE UNCHANGED ckVars
      <3>1. OverStays /\ UNCHANGED <<gen, faults>>
        BY <2>1 DEF ckVars, instVars, OverStays
      <3> QED
        BY <3>1, BoundsNat, CountsKept DEF Typed, Counts
    <2>2. CASE CkNext
      BY <2>2, BeginCounts, EarlyCounts, RestoreCounts, WindowCounts DEF CkNext
    <2> QED
      BY <2>1, <2>2
  <1> QED
    BY <1>1, <1>2, FlagsKept, JobsKept, ReposKept DEF Typed

LEMMA InitTyped == Init => Typed
  <1> SUFFICES ASSUME Init PROVE Typed
    OBVIOUS
  <1>1. LockTypeOK
    BY InitLock DEF LockInv
  <1>2. Counts
    <2>1. gen \in [Task -> Nat \ {0}] /\ faults \in 0 .. MaxFaults
      BY BoundsNat DEF Init
    <2> QED
      BY <2>1, OverBounded DEF Init, Counts
  <1>3. Flags
    BY DEF Init, Flags
  <1>4. Jobs
    <2>1. PICK t : t \in Task
      BY TasksExist
    <2>2. <<t, 1>> \in Instance
      BY <2>1, BoundsNat DEF Instance
    <2>3. NoJob \in Job
      BY <2>2 DEF NoJob, Job, Kind
    <2> QED
      BY <2>3 DEF Init, Jobs, NoJob, Inside
  <1>5. Repos
    <2>1. 0 \in Content /\ 1 \in Content
      BY BoundsNat DEF Content
    <2>2. /\ index \in [Task -> Content] /\ disk \in Content /\ writes \in Content
      BY <2>1 DEF Init
    <2>3. CASE commits = <<>> /\ head = [t \in Task |-> 0] /\ saved = [t \in Task |-> <<>>]
      <3>1. commits \in Seq(Content) /\ Len(commits) = 0
        BY <2>3
      <3>2. <<>> \in Seq(DOMAIN commits)
        OBVIOUS
      <3> QED
        BY <2>2, <2>3, <3>1, <3>2 DEF Repos
    <2>4. CASE commits = <<0>> /\ head = [t \in Task |-> 1] /\ saved = [t \in Task |-> <<1>>]
      <3>1. commits \in Seq(Content) /\ Len(commits) = 1 /\ 1 \in DOMAIN commits
        BY <2>1, <2>4
      <3>2. <<1>> \in Seq(DOMAIN commits)
        BY <3>1
      <3> QED
        BY <2>2, <2>4, <3>1, <3>2 DEF Repos
    <2> QED
      BY <2>3, <2>4 DEF Init
  <1> QED
    BY <1>1, <1>2, <1>3, <1>4, <1>5 DEF Typed

LEMMA TypedIsTypeOK == Typed => CkTypeOK
  <1> SUFFICES ASSUME Typed PROVE CkTypeOK
    OBVIOUS
  <1>1. gen \in [Task -> 1 .. 1 + MaxCalls + MaxFaults]
    <2>1. Counts /\ gen \in [Task -> Nat \ {0}]
      BY DEF Typed, Counts
    <2>2. \A t \in Task : gen[t] \in 1 .. 1 + MaxCalls + MaxFaults
      BY <2>1, InstancesNamed
    <2> QED
      BY <2>1, <2>2
  <1> QED
    BY <1>1 DEF Typed, LockTypeOK, Counts, Flags, Jobs, Repos, CkTypeOK

\* Every variable of the composition keeps its type: an instance a window shows
\* is always one Instance has, since each is owed to a call that ended or to a
\* fault (cancelTask), and the checkpoints a chat or a restore names exist
\* (checkpointSave, checkpointRestore).
THEOREM TypeCorrect == Spec => []TypeOK
  <1> DEFINE Inv == LockInv /\ Typed /\ TrackerInv
  <1>1. WorkspaceInit => Inv
    BY InitLock, InitTyped, TrackerInit DEF WorkspaceInit
  <1>2. Inv /\ [Next]_vars => Inv'
    BY StepOfCheckpoints, StepOfLock, LockStepKeeps, TypedStays, TrackerNext
  <1>3. Inv => TypeOK
    BY TypedIsTypeOK DEF TypeOK, TrackerInv
  <1> QED
    BY <1>1, <1>2, <1>3, PTL DEF Spec
=============================================================================
