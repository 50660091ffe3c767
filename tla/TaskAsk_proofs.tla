--------------------------- MODULE TaskAsk_proofs ---------------------------
(* Theorems about the ask protocol, for every set of question kinds and every *)
(* bound.  The inductive invariant is IInv; TypeOK is a part of it.           *)
EXTENDS TaskAsk, SequenceTheorems, TLAPS

USE DEF Ts, Sends

LEMMA LastTsType ==
    ASSUME clineMessages \in Seq(Message)
    PROVE  /\ LastTs \in Ts \cup {None}
           /\ clineMessages # <<>> => /\ Len(clineMessages) \in Nat \ {0}
                                      /\ LastMessage \in Message
                                      /\ LastTs \in Ts
<1>1. CASE clineMessages = <<>>
  BY <1>1 DEF LastTs
<1>2. CASE clineMessages # <<>>
  <2>1. Len(clineMessages) \in Nat \ {0}
    BY <1>2, EmptySeq
  <2>2. clineMessages[Len(clineMessages)] \in Message
    BY <2>1, ElementOfSeq
  <2> QED BY <1>2, <2>1, <2>2 DEF LastTs, LastMessage, Message
<1> QED BY <1>1, <1>2

\* Marking a follow-up as answered keeps the messages in place: only isAnswered changes.
LEMMA MarkAnsweredProperties ==
    ASSUME clineMessages \in Seq(Message), NEW reply
    PROVE  /\ MarkAnswered(reply) \in Seq(Message)
           /\ Len(MarkAnswered(reply)) = Len(clineMessages)
           /\ \A i \in 1..Len(clineMessages) :
                 /\ MarkAnswered(reply)[i].ts = clineMessages[i].ts
                 /\ MarkAnswered(reply)[i].kind = clineMessages[i].kind
                 /\ MarkAnswered(reply)[i].partial = clineMessages[i].partial
<1> DEFINE n == Len(clineMessages)
           marked == [i \in DOMAIN clineMessages |->
                        IF IsLastOpenFollowup(i)
                          THEN [clineMessages[i] EXCEPT !.isAnswered = TRUE]
                          ELSE clineMessages[i]]
<1>1. /\ n \in Nat /\ DOMAIN clineMessages = 1..n
      /\ \A i \in 1..n : clineMessages[i] \in Message
  BY LenProperties, ElementOfSeq
<1>2. \A i \in 1..n : marked[i] \in Message
  BY <1>1 DEF Message
<1>3. marked \in [1..n -> Message]
  BY <1>1, <1>2
<1>4. marked \in Seq(Message) /\ Len(marked) = n
  BY <1>1, <1>3, SeqDef
<1>5. \A i \in 1..n : /\ marked[i].ts = clineMessages[i].ts
                      /\ marked[i].kind = clineMessages[i].kind
                      /\ marked[i].partial = clineMessages[i].partial
  BY <1>1 DEF Message
<1> QED BY <1>4, <1>5, <1>1 DEF MarkAnswered

\* The three ways a step changes clineMessages, and the last message after each.
LEMMA AfterPost ==
    ASSUME clineMessages \in Seq(Message), clock \in Ts,
           NEW kind \in ClineAsk \cup {Say}, NEW partial \in BOOLEAN,
           Post(kind, partial)
    PROVE  /\ clineMessages' \in Seq(Message)
           /\ LastTs' = clock
           /\ LastMessage'.partial = partial
           /\ Len(clineMessages') = Len(clineMessages) + 1
           /\ \A i \in 1..Len(clineMessages) : clineMessages'[i] = clineMessages[i]
           /\ clineMessages'[Len(clineMessages')].ts = clock
<1> DEFINE posted == [ts |-> clock, kind |-> kind, partial |-> partial, isAnswered |-> FALSE]
<1>1. posted \in Message
  BY DEF Message
<1>2. clineMessages' = Append(clineMessages, posted)
  BY DEF Post
<1>3. /\ Len(clineMessages) \in Nat
      /\ clineMessages' \in Seq(Message)
      /\ Len(clineMessages') = Len(clineMessages) + 1
      /\ clineMessages'[Len(clineMessages')] = posted
      /\ \A i \in 1..Len(clineMessages) : clineMessages'[i] = clineMessages[i]
  BY <1>1, <1>2
<1>4. clineMessages' # <<>>
  BY <1>3, EmptySeq
<1> QED BY <1>3, <1>4 DEF LastTs, LastMessage

LEMMA AfterMark ==
    ASSUME clineMessages \in Seq(Message), NEW reply, clineMessages' = MarkAnswered(reply)
    PROVE  /\ clineMessages' \in Seq(Message)
           /\ Len(clineMessages') = Len(clineMessages)
           /\ LastTs' = LastTs
           /\ clineMessages # <<>> => LastMessage'.partial = LastMessage.partial
           /\ \A i \in 1..Len(clineMessages) : /\ clineMessages'[i].ts = clineMessages[i].ts
                                               /\ clineMessages'[i].kind = clineMessages[i].kind
<1>1. /\ clineMessages' \in Seq(Message)
      /\ Len(clineMessages') = Len(clineMessages)
      /\ \A i \in 1..Len(clineMessages) : /\ clineMessages'[i].ts = clineMessages[i].ts
                                          /\ clineMessages'[i].kind = clineMessages[i].kind
                                          /\ clineMessages'[i].partial = clineMessages[i].partial
  BY MarkAnsweredProperties
<1>2. Len(clineMessages) \in Nat /\ (clineMessages = <<>> <=> Len(clineMessages) = 0)
  BY EmptySeq, LenProperties
<1>3. clineMessages' = <<>> <=> Len(clineMessages') = 0
  BY <1>1, EmptySeq, LenProperties
<1> QED BY <1>1, <1>2, <1>3 DEF LastTs, LastMessage

LEMMA AfterComplete ==
    ASSUME clineMessages \in Seq(Message), clineMessages # <<>>,
           clineMessages' = [clineMessages EXCEPT ![Len(clineMessages)].partial = FALSE]
    PROVE  /\ clineMessages' \in Seq(Message)
           /\ Len(clineMessages') = Len(clineMessages)
           /\ LastTs' = LastTs
           /\ LastMessage'.partial = FALSE
           /\ \A i \in 1..Len(clineMessages) : /\ clineMessages'[i].ts = clineMessages[i].ts
                                               /\ clineMessages'[i].kind = clineMessages[i].kind
<1> DEFINE n == Len(clineMessages)
           done == [clineMessages[n] EXCEPT !.partial = FALSE]
<1>1. n \in Nat \ {0} /\ clineMessages[n] \in Message
  BY LastTsType DEF LastMessage
<1>2. done \in Message /\ done.ts = clineMessages[n].ts /\ done.kind = clineMessages[n].kind
      /\ done.partial = FALSE
  BY <1>1 DEF Message
<1>3. clineMessages' = [clineMessages EXCEPT ![n] = done]
  BY <1>1
<1>4. /\ clineMessages' \in Seq(Message)
      /\ Len(clineMessages') = n
      /\ \A i \in 1..n : clineMessages'[i] = IF i = n THEN done ELSE clineMessages[i]
  BY <1>1, <1>2, <1>3, ExceptSeq
<1>5. clineMessages' # <<>>
  BY <1>1, <1>4, EmptySeq
<1> QED BY <1>1, <1>2, <1>4, <1>5 DEF LastTs, LastMessage

-----------------------------------------------------------------------------
(* Types                                                                   *)

\* A call that asks has a timestamp: what TypeOK needs to be inductive.
AskingHasTs == \A c \in Calls : Asking(c) => call[c].ts \in Ts

Typed == TypeOK /\ AskingHasTs

LEMMA QueueProperties ==
    ASSUME queue \in Seq(Sends), queue # <<>>
    PROVE  Head(queue) \in Sends /\ Tail(queue) \in Seq(Sends)
  BY HeadTailProperties

LEMMA AnswerTypes ==
    ASSUME TypeOK, NEW ts \in Ts, NEW type, NEW decision
    PROVE  /\ AutoAnswer(decision, ts) \in Answer \cup {NoAnswer}
           /\ queue # <<>> => QueuedAnswer(type, ts) \in Answer
  BY QueueProperties DEF TypeOK, AutoAnswer, QueuedAnswer, Answer, Replies, Sources

LEMMA StatusKindType == ASSUME NEW type PROVE StatusKind(type) \in StatusKinds
  BY DEF StatusKind, StatusKinds

\* The part of the state the end of the wait changes.
WaitTyped ==
    /\ askResponse \in Answer \cup {NoAnswer}
    /\ call \in [Calls -> CallState]
    /\ autoTimers \subseteq Ts
    /\ autoApprovalTimeoutRef \in Ts \cup {None}
    /\ statusTimers \subseteq Ts
    /\ statusAsk \in [StatusKinds -> Ts \cup {None}]
    /\ command \in [pc: CommandPcs, asked: BOOLEAN]
    /\ returned \subseteq ReturnedAsk
    /\ AskingHasTs

LEMMA IdleType == ASSUME TypeOK, NEW c \in Calls PROVE Idle(c) \in CallState
  BY DEF TypeOK, Idle, CallState, CallPcs

LEMMA EndOfWaitTyped ==
    ASSUME Typed, NEW c \in Calls, Asking(c),
           NEW answer \in Answer \cup {NoAnswer}, NEW auto \in SUBSET Ts,
           NEW ref \in Ts \cup {None}, NEW decision,
           \/ Ignored(c, answer, auto, ref)
           \/ Answered(c, answer, auto, ref)
           \/ Blocks(c, answer, decision, auto, ref)
    PROVE  WaitTyped'
<1> USE DEF Typed, TypeOK
<1>1. Idle(c) \in CallState /\ Idle(c).pc = "idle" /\ call[c].ts \in Ts
  BY IdleType DEF Idle, AskingHasTs
<1>2. CASE Ignored(c, answer, auto, ref)
  BY <1>1, <1>2 DEF Ignored, WaitTyped, AskingHasTs, Asking
<1>3. CASE Blocks(c, answer, decision, auto, ref)
  <2>1. call' \in [Calls -> CallState]
    <3>1. call[c] \in CallState /\ call' = [call EXCEPT ![c] = [call[c] EXCEPT !.pc = "wait"]]
      BY <1>3 DEF Blocks
    <3>2. [call[c] EXCEPT !.pc = "wait"] \in CallState
      BY <3>1 DEF CallState, CallPcs
    <3> QED BY <3>1, <3>2
  <2>2. AskingHasTs'
    BY <1>1, <1>3 DEF Blocks, AskingHasTs, Asking
  <2> QED BY <1>1, <1>3, <2>1, <2>2 DEF Blocks, WaitTyped
<1>4. CASE Answered(c, answer, auto, ref)
  <2>1. answer \in Answer
    BY <1>4 DEF Answered
  <2>2. returned' \subseteq ReturnedAsk
    BY <1>1, <1>4, <2>1 DEF Answered, ReturnedAsk, CallState
  <2>3. /\ call' \in [Calls -> CallState]
        /\ command' \in [pc: CommandPcs, asked: BOOLEAN]
        /\ AskingHasTs'
    <3>1. ActOnAnswer(c, answer)
      BY <1>4 DEF Answered
    <3>2. \A d \in Calls : Idle(d) \in CallState /\ Idle(d).pc = "idle"
      BY IdleType DEF Idle
    <3>3. \A pc \in {"approved", "idle"} : [Idle(c) EXCEPT !.pc = pc] \in CallState
      BY <3>2 DEF CallState, CallPcs
    <3>4. \A d \in Calls : \/ call'[d].pc \in {"approved", "idle"} /\ call'[d] \in CallState
                           \/ call'[d] = call[d]
      BY <3>1, <3>2, <3>3 DEF ActOnAnswer, CallState
    <3>5. command' \in [pc: CommandPcs, asked: BOOLEAN]
      BY <3>1 DEF ActOnAnswer, CommandPcs
    <3>6. call' \in [Calls -> CallState]
      BY <3>1, <3>4 DEF ActOnAnswer
    <3> QED BY <3>4, <3>5, <3>6 DEF AskingHasTs, Asking
  <2> QED BY <1>4, <2>2, <2>3 DEF Answered, WaitTyped, StatusKinds
<1> QED BY <1>2, <1>3, <1>4

LEMMA CancelType ==
    ASSUME NEW pending \in SUBSET Ts, NEW ref PROVE CancelReachable(pending, ref) \in SUBSET Ts
  BY DEF CancelReachable

LEMMA InitTyped == Init => Typed
<1> SUFFICES ASSUME Init PROVE Typed
  OBVIOUS
<1>1. clock \in Ts /\ sends \in 0..MaxSends
  BY BoundsAssumption DEF Init
<1>2. /\ call \in [Calls -> CallState]
      /\ AskingHasTs
  BY DEF Init, CallState, CallPcs, ClineAsk, NonBlockingAsks, AskingHasTs, Asking
<1>3. clineMessages \in Seq(Message) /\ queue \in Seq(Sends)
  BY EmptySeq DEF Init
<1>4. statusAsk \in [StatusKinds -> Ts \cup {None}] /\ command \in [pc: CommandPcs, asked: BOOLEAN]
  BY DEF Init, CommandPcs
<1> QED BY <1>1, <1>2, <1>3, <1>4 DEF Init, Typed, TypeOK

LEMMA DecideTyped ==
    ASSUME Typed, NEW c \in Calls, NEW decision, Decide(c, decision)
    PROVE  Typed'
<1> DEFINE ts       == call[c].ts
           queued   == queue # <<>>
           answer   == IF queued THEN QueuedAnswer(call[c].type, ts) ELSE AutoAnswer(decision, ts)
           handled  == queued \/ decision \in {"approve", "deny"}
           started  == IF decision = "timeout" THEN autoTimers \cup {ts} ELSE autoTimers
           ref      == IF decision = "timeout" THEN ts ELSE autoApprovalTimeoutRef
           pending  == IF handled THEN CancelReachable(started, ref) ELSE started
           refAfter == IF handled THEN None ELSE ref
<1> USE DEF Typed
<1>1. /\ Asking(c) /\ ts \in Ts
      /\ denied' = IF decision = "deny" THEN denied \cup {ts} ELSE denied
      /\ queue' = IF queued THEN Tail(queue) ELSE queue
      /\ clineMessages' = IF handled THEN MarkAnswered(answer.reply) ELSE clineMessages
      /\ \/ Ignored(c, answer, pending, refAfter)
         \/ Answered(c, answer, pending, refAfter)
         \/ Blocks(c, answer, decision, pending, refAfter)
      /\ UNCHANGED <<clock, abort, lastMessageTs, wire, sends>>
  BY DEF Decide, Asking, AskingHasTs
<1>2. answer \in Answer \cup {NoAnswer}
  BY <1>1, AnswerTypes
<1>3. pending \in SUBSET Ts /\ refAfter \in Ts \cup {None}
  BY <1>1, CancelType DEF TypeOK
<1>4. WaitTyped'
  BY <1>1, <1>2, <1>3, EndOfWaitTyped
<1>5. clineMessages' \in Seq(Message)
  BY <1>1, MarkAnsweredProperties DEF TypeOK
<1>6. queue' \in Seq(Sends) /\ denied' \subseteq Ts
  BY <1>1, QueueProperties DEF TypeOK
<1> HIDE DEF answer, pending, refAfter, queued, handled
<1> QED BY <1>1, <1>4, <1>5, <1>6 DEF TypeOK, WaitTyped

LEMMA AskStepTyped ==
    ASSUME Typed, NEW c \in Calls, AskStep(c) PROVE Typed'
<1> USE DEF Typed
<1>1. CASE Stamp(c)
  <2>1. call[c].type \in ClineAsk \cup {Say} /\ call[c].partial \in BOOLEAN /\ Post(call[c].type, call[c].partial)
    BY <1>1 DEF Stamp, TypeOK, CallState
  <2>2. clineMessages' \in Seq(Message)
    BY <2>1, AfterPost DEF TypeOK
  <2>3. /\ Idle(c) \in CallState /\ Idle(c).pc = "idle"
        /\ [call[c] EXCEPT !.pc = "decide", !.ts = clock] \in CallState
    BY IdleType DEF Idle, TypeOK, CallState, CallPcs
  <2>4. call' = [call EXCEPT ![c] = IF call[c].partial THEN Idle(c)
                                     ELSE [call[c] EXCEPT !.pc = "decide", !.ts = clock]]
    BY <1>1 DEF Stamp
  <2>5. call' \in [Calls -> CallState] /\ AskingHasTs'
    BY <2>3, <2>4 DEF TypeOK, AskingHasTs, Asking, CallState
  <2> QED BY <1>1, <2>2, <2>5 DEF Stamp, TypeOK, timers, webview, history
<1>2. CASE \E d \in {"ask", "approve", "deny", "timeout"} : Decide(c, d)
  BY <1>2, DecideTyped
<1>3. CASE DecideYolo(c)
  <2>1. clineMessages' \in Seq(Message)
    BY <1>3, MarkAnsweredProperties DEF DecideYolo, TypeOK
  <2>2. call[c].ts \in Ts
    BY <1>3 DEF DecideYolo, AskingHasTs, Asking
  <2>3. returned' \subseteq ReturnedAsk
    BY <1>3, <2>2 DEF DecideYolo, TypeOK, ReturnedAsk, Answer, Replies, Sources, CallState
  <2>4. call' \in [Calls -> CallState] /\ AskingHasTs'
    BY <1>3, IdleType DEF DecideYolo, TypeOK, AskingHasTs, Asking, Idle
  <2>5. autoTimers' \subseteq Ts
    BY <1>3, CancelType DEF DecideYolo, TypeOK
  <2> QED BY <1>3, <2>1, <2>3, <2>4, <2>5 DEF DecideYolo, TypeOK, webview
<1>4. CASE Poll(c)
  <2>1. WaitTyped'
    BY <1>4, EndOfWaitTyped DEF Poll, TypeOK, Asking
  <2> QED BY <1>4, <2>1 DEF Poll, TypeOK, WaitTyped, webview
<1>5. CASE ConsumeQueued(c)
  <2>1. clineMessages' \in Seq(Message)
    BY <1>5, MarkAnsweredProperties DEF ConsumeQueued, TypeOK
  <2>2. askResponse' \in Answer
    BY <1>5, AnswerTypes DEF ConsumeQueued, AskingHasTs, Asking
  <2>3. queue' \in Seq(Sends) /\ autoTimers' \subseteq Ts
    BY <1>5, QueueProperties, CancelType DEF ConsumeQueued, TypeOK
  <2> QED BY <1>5, <2>1, <2>2, <2>3 DEF ConsumeQueued, TypeOK, AskingHasTs, Asking, history
<1> QED BY <1>1, <1>2, <1>3, <1>4, <1>5 DEF AskStep

LEMMA TimerStepTyped == ASSUME Typed, TimerStep PROVE Typed'
<1> USE DEF Typed
<1>1. CASE Tick
  <2>1. clock' \in Ts
    BY <1>1, BoundsAssumption DEF Tick, TypeOK
  <2> QED BY <1>1, <2>1 DEF Tick, TypeOK, AskingHasTs, Asking, timers, webview, history
<1>2. ASSUME NEW ts \in Ts, FireAuto(ts) PROVE Typed'
  <2>1. clineMessages' \in Seq(Message)
    BY <1>2, MarkAnsweredProperties DEF FireAuto, TypeOK
  <2>2. askResponse' \in Answer
    BY <1>2 DEF FireAuto, Answer, Replies, Sources
  <2>3. autoTimers' \subseteq Ts
    BY <1>2, CancelType DEF FireAuto, TypeOK
  <2> QED BY <1>2, <2>1, <2>2, <2>3 DEF FireAuto, TypeOK, AskingHasTs, Asking, webview, history
<1>3. ASSUME NEW ts \in Ts, FireStatus(ts) PROVE Typed'
  <2>1. statusAsk' \in [StatusKinds -> Ts \cup {None}] /\ statusTimers' \subseteq Ts
    BY <1>3, StatusKindType DEF FireStatus, TypeOK
  <2> QED BY <1>3, <2>1 DEF FireStatus, TypeOK, AskingHasTs, Asking, webview, history
<1> QED BY <1>1, <1>2, <1>3 DEF TimerStep

LEMMA UserStepTyped == ASSUME Typed, UserStep PROVE Typed'
<1> USE DEF Typed
<1>1. ASSUME NEW kind \in {"askResponse", "queueMessage"}, NEW reply \in Replies, Send(kind, reply)
      PROVE  Typed'
  <2>1. LastTs \in Ts \cup {None} /\ sends + 1 \in Sends /\ sends' \in 0..MaxSends
    BY <1>1, LastTsType, BoundsAssumption DEF Send, TypeOK
  <2>2. wire' \subseteq WebviewMessage
    BY <1>1, <2>1 DEF Send, TypeOK, WebviewMessage
  <2> QED BY <1>1, <2>1, <2>2 DEF Send, TypeOK, AskingHasTs, Asking, timers, history
<1>2. ASSUME NEW w \in wire, HandleAskResponse(w) PROVE Typed'
  <2>1. askResponse' \in Answer
    BY <1>2 DEF HandleAskResponse, TypeOK, WebviewMessage, Answer, Sources
  <2>2. clineMessages' \in Seq(Message)
    BY <1>2, MarkAnsweredProperties DEF HandleAskResponse, TypeOK
  <2>3. autoTimers' \subseteq Ts /\ wire' \subseteq WebviewMessage
    BY <1>2, CancelType DEF HandleAskResponse, TypeOK
  <2> QED BY <1>2, <2>1, <2>2, <2>3 DEF HandleAskResponse, TypeOK, AskingHasTs, Asking, history
<1>3. ASSUME NEW w \in wire, HandleQueueMessage(w) PROVE Typed'
  <2>1. queue' \in Seq(Sends) /\ wire' \subseteq WebviewMessage
    BY <1>3 DEF HandleQueueMessage, TypeOK, WebviewMessage
  <2> QED BY <1>3, <2>1 DEF HandleQueueMessage, TypeOK, AskingHasTs, Asking, timers, history
<1>4. ASSUME NEW i \in DOMAIN queue, RemoveQueued(i) PROVE Typed'
  <2>1. /\ i \in 1..Len(queue) /\ Len(queue) \in Nat
        /\ \A j \in 1..Len(queue) : queue[j] \in Sends
    BY LenProperties, ElementOfSeq DEF TypeOK
  <2>2. SubSeq(queue, 1, i - 1) \in Seq(Sends) /\ SubSeq(queue, i + 1, Len(queue)) \in Seq(Sends)
    BY <2>1, SubSeqProperties
  <2>3. queue' \in Seq(Sends)
    BY <1>4, <2>2, ConcatProperties DEF RemoveQueued
  <2> QED BY <1>4, <2>3 DEF RemoveQueued, TypeOK, AskingHasTs, Asking, timers, history
<1>5. CASE CancelAutoApprovalTimeout
  BY <1>5, CancelType DEF CancelAutoApprovalTimeout, TypeOK, AskingHasTs, Asking, webview, history
<1>6. CASE AbortTask
  BY <1>6, EmptySeq DEF AbortTask, TypeOK, AskingHasTs, Asking, timers, history
<1> QED BY <1>1, <1>2, <1>3, <1>4, <1>5, <1>6 DEF UserStep

LEMMA AgentStepTyped == ASSUME Typed, AgentStep PROVE Typed'
<1> USE DEF Typed
<1>1. ASSUME NEW type \in AskTypes, NEW partial \in BOOLEAN, BeginAsk("agent", type, partial)
      PROVE  Typed'
  <2>1. [pc |-> "stamp", type |-> type, partial |-> partial, ts |-> None] \in CallState
    BY AskTypesAssumption DEF CallState, CallPcs
  <2>2. call' \in [Calls -> CallState] /\ AskingHasTs'
    BY <1>1, <2>1 DEF BeginAsk, TypeOK, AskingHasTs, Asking, Calls
  <2> QED BY <1>1, <2>2 DEF BeginAsk, TypeOK, timers, webview, history
<1>2. ASSUME NEW type \in AskTypes, CompletePartial("agent", type) PROVE Typed'
  <2>1. LastTs \in Ts
    BY <1>2, LastTsType DEF CompletePartial, UpdatesPreviousPartial, TypeOK
  <2>2. [pc |-> "decide", type |-> type, partial |-> FALSE, ts |-> LastTs] \in CallState
    BY <2>1, AskTypesAssumption DEF CallState, CallPcs
  <2>3. call' \in [Calls -> CallState] /\ AskingHasTs'
    BY <1>2, <2>1, <2>2 DEF CompletePartial, TypeOK, AskingHasTs, Asking, Calls
  <2>4. clineMessages' \in Seq(Message)
    BY <1>2, AfterComplete DEF CompletePartial, UpdatesPreviousPartial, TypeOK
  <2> QED BY <1>2, <2>1, <2>3, <2>4 DEF CompletePartial, TypeOK, timers, webview, history
<1>3. CASE SayInteractive
  BY <1>3, AfterPost DEF SayInteractive, TypeOK, AskingHasTs, Asking, timers, webview, history
<1>4. CASE SayNonInteractive
  BY <1>4, AfterPost DEF SayNonInteractive, TypeOK, AskingHasTs, Asking, timers, webview, history
<1>5. CASE ProcessQueuedMessages
  <2>1. LastTs \in Ts \cup {None} /\ Head(queue) \in Sends /\ queue' \in Seq(Sends)
    BY <1>5, LastTsType, QueueProperties DEF ProcessQueuedMessages, TypeOK
  <2>2. wire' \subseteq WebviewMessage
    BY <1>5, <2>1 DEF ProcessQueuedMessages, TypeOK, WebviewMessage, Replies
  <2> QED BY <1>5, <2>1, <2>2 DEF ProcessQueuedMessages, TypeOK, AskingHasTs, Asking, timers, history
<1>6. CASE RunCommand
  <2>1. [call["agent"] EXCEPT !.pc = "running"] \in CallState
    BY DEF TypeOK, CallState, CallPcs, Calls
  <2>2. call' = [call EXCEPT !["agent"] = [call["agent"] EXCEPT !.pc = "running"]]
    BY <1>6 DEF RunCommand
  <2>3. call' \in [Calls -> CallState] /\ AskingHasTs'
    BY <2>1, <2>2 DEF TypeOK, AskingHasTs, Asking, Calls, CallState
  <2> QED BY <1>6, <2>3 DEF RunCommand, TypeOK, CommandPcs, timers, webview, history
<1>7. CASE SkipCommand
  BY <1>7, IdleType DEF SkipCommand, TypeOK, AskingHasTs, Asking, Calls, Idle, timers, webview, history
<1> QED BY <1>1, <1>2, <1>3, <1>4, <1>5, <1>6, <1>7 DEF AgentStep

LEMMA CommandStepTyped == ASSUME Typed, CommandStep PROVE Typed'
<1> USE DEF Typed
<1>0. \A c \in Calls : Idle(c) \in CallState /\ Idle(c).pc = "idle"
  BY IdleType DEF Idle
<1>1. CASE CommandOutput
  <2>1. [pc |-> "stamp", type |-> "command_output", partial |-> FALSE, ts |-> None] \in CallState
    BY DEF CallState, CallPcs, ClineAsk, NonBlockingAsks
  <2>2. call' \in [Calls -> CallState] /\ AskingHasTs'
    BY <1>1, <2>1 DEF CommandOutput, TypeOK, AskingHasTs, Asking, Calls
  <2> QED BY <1>1, <2>2 DEF CommandOutput, TypeOK, timers, webview, history
<1>2. CASE ContinueInBackground
  <2>1. call' \in [Calls -> CallState] /\ AskingHasTs'
    BY <1>0, <1>2 DEF ContinueInBackground, TypeOK, AskingHasTs, Asking, Calls
  <2> QED BY <1>2, <2>1 DEF ContinueInBackground, TypeOK, CommandPcs, timers, webview, history
<1>3. CASE CommandCompletes
  <2>1. call' \in [Calls -> CallState] /\ AskingHasTs'
    BY <1>0, <1>3 DEF CommandCompletes, TypeOK, AskingHasTs, Asking, Calls
  <2>2. clineMessages' \in Seq(Message) /\ lastMessageTs' \in Ts \cup {None}
    BY <1>3, AfterPost DEF CommandCompletes, TypeOK
  <2> QED BY <1>3, <2>1, <2>2 DEF CommandCompletes, TypeOK, CommandPcs, timers, webview, history
<1>4. CASE CommandFallsBack
  BY <1>4, AfterPost DEF CommandFallsBack, TypeOK, AskingHasTs, Asking, CommandPcs, timers, webview, history
<1> QED BY <1>1, <1>2, <1>3, <1>4 DEF CommandStep

LEMMA StutterTyped == ASSUME Typed, UNCHANGED vars PROVE Typed'
  BY DEF Typed, TypeOK, AskingHasTs, Asking, vars

LEMMA StepTyped == Typed /\ [Next]_vars => Typed'
  BY AskStepTyped, AgentStepTyped, CommandStepTyped, TimerStepTyped, UserStepTyped, StutterTyped DEF Next

\* Every state of every behaviour is well typed.
THEOREM TypeCorrect == Spec => []TypeOK
<1>1. Typed /\ [Next]_vars => Typed'
  BY StepTyped
<1>2. Typed => TypeOK
  BY DEF Typed
<1> QED BY InitTyped, <1>1, <1>2, PTL DEF Spec

-----------------------------------------------------------------------------
(* Safety                                                                  *)

\* Messages are stamped in order, and every ask among them was registered as
\* the current one at its time.
MessagesInOrder ==
    /\ LastTs <= clock
    /\ \A i \in 1..Len(clineMessages) :
          /\ clineMessages[i].ts <= LastTs
          /\ clineMessages[i].kind # Say => clineMessages[i].ts <= lastMessageTs

\* A complete question has a message; a partial one is not being asked yet.
AsksArePosted ==
    \A c \in Calls : Asking(c) =>
        /\ call[c].ts <= LastTs
        /\ call[c].ts = LastTs => ~LastMessage.partial

\* What the user has clicked on was the current ask, or an older one.
ClicksArePast ==
    /\ \A w \in wire : w.for <= LastTs /\ w.for <= lastMessageTs
    /\ askResponse.src = "user" => askResponse.for <= LastTs /\ askResponse.for <= lastMessageTs

\* The current ask is not ahead of the clock.
LastMessageBelowClock == lastMessageTs <= clock

IInv == /\ Typed
        /\ LastMessageBelowClock
        /\ MessagesInOrder
        /\ AsksArePosted
        /\ ClicksArePast
        /\ OneAskTakesTheAnswer
        /\ ClickNeverAnswersOlderAsk

\* A step that posts nothing and moves no message.
MessagesKept ==
    /\ Len(clineMessages') = Len(clineMessages)
    /\ LastTs' = LastTs
    /\ clineMessages # <<>> => LastMessage'.partial = LastMessage.partial
    /\ \A i \in 1..Len(clineMessages) : /\ clineMessages'[i].ts = clineMessages[i].ts
                                        /\ clineMessages'[i].kind = clineMessages[i].kind

\* A step after which no call asks a question it did not ask before.
NoNewAsk ==
    \A c \in Calls : Asking(c)' => Asking(c) /\ call'[c].ts = call[c].ts

LEMMA MarkKeeps ==
    ASSUME Typed, NEW reply, clineMessages' = MarkAnswered(reply) PROVE MessagesKept
  BY AfterMark DEF Typed, TypeOK, MessagesKept

LEMMA UnchangedKeeps ==
    ASSUME UNCHANGED clineMessages PROVE MessagesKept
  BY DEF MessagesKept, LastTs, LastMessage

LEMMA OrderKept ==
    ASSUME Typed, MessagesInOrder, MessagesKept, clock' \in Ts, clock <= clock', UNCHANGED lastMessageTs
    PROVE  MessagesInOrder'
<1>1. LastTs \in Ts \cup {None} /\ clock \in Ts
  BY LastTsType DEF Typed, TypeOK
<1> QED BY <1>1, BoundsAssumption DEF MessagesInOrder, MessagesKept, None

LEMMA OrderAfterPost ==
    ASSUME Typed, MessagesInOrder, TimestampFree, UNCHANGED clock,
           NEW kind \in ClineAsk \cup {Say}, NEW partial \in BOOLEAN, Post(kind, partial),
           lastMessageTs' = clock \/ (kind = Say /\ UNCHANGED lastMessageTs)
    PROVE  /\ MessagesInOrder'
           /\ LastTs' = clock /\ LastTs < LastTs'
           /\ LastMessage'.partial = partial
<1>1. /\ LastTs \in Ts \cup {None} /\ clock \in Ts /\ clineMessages \in Seq(Message)
      /\ Len(clineMessages) \in Nat
      /\ \A i \in 1..Len(clineMessages) : clineMessages[i].ts \in Ts
  <2>1. clineMessages \in Seq(Message) /\ clock \in Ts
    BY DEF Typed, TypeOK
  <2>2. \A i \in 1..Len(clineMessages) : clineMessages[i] \in Message
    BY <2>1, ElementOfSeq
  <2> QED BY <2>1, <2>2, LastTsType, LenProperties DEF Message
<1>2. /\ LastTs' = clock /\ LastMessage'.partial = partial
      /\ Len(clineMessages') = Len(clineMessages) + 1
      /\ \A i \in 1..Len(clineMessages) : clineMessages'[i] = clineMessages[i]
      /\ clineMessages'[Len(clineMessages')].ts = clock
  BY <1>1, AfterPost
<1>3. clineMessages'[Len(clineMessages')].kind = kind
  BY <1>1 DEF Post
<1>4. LastTs < clock
  BY <1>1 DEF TimestampFree, None
<1>5. lastMessageTs \in Ts \cup {None}
  BY DEF Typed, TypeOK
<1>6. ASSUME NEW i \in 1..Len(clineMessages')
      PROVE  /\ clineMessages'[i].ts <= clock
             /\ clineMessages'[i].kind # Say => clineMessages'[i].ts <= lastMessageTs'
  <2>1. CASE i = Len(clineMessages')
    BY <1>1, <1>2, <1>3, <2>1
  <2>2. CASE i \in 1..Len(clineMessages)
    BY <1>1, <1>2, <1>4, <2>2 DEF MessagesInOrder, None
  <2> QED BY <1>1, <1>2, <2>1, <2>2
<1> QED BY <1>1, <1>2, <1>4, <1>6 DEF MessagesInOrder

LEMMA AsksKept ==
    ASSUME Typed, AsksArePosted, OneAskTakesTheAnswer, MessagesKept, NoNewAsk
    PROVE  AsksArePosted' /\ OneAskTakesTheAnswer'
<1>1. \A c \in Calls : Asking(c) /\ call[c].ts = LastTs => clineMessages # <<>>
  BY BoundsAssumption DEF Typed, AskingHasTs, LastTs, None
<1> QED BY <1>1 DEF AsksArePosted, OneAskTakesTheAnswer, MessagesKept, NoNewAsk

LEMMA AsksAfterPost ==
    ASSUME Typed, AsksArePosted, OneAskTakesTheAnswer, NoNewAsk, LastTs' \in Ts, LastTs < LastTs'
    PROVE  AsksArePosted' /\ OneAskTakesTheAnswer'
<1>1. LastTs \in Ts \cup {None} /\ \A c \in Calls : Asking(c) => call[c].ts \in Ts
  BY LastTsType DEF Typed, TypeOK, AskingHasTs
<1> QED BY <1>1 DEF AsksArePosted, OneAskTakesTheAnswer, NoNewAsk, None

\* The user's clicks stay behind the messages as long as neither goes back.
LEMMA ClicksKept ==
    ASSUME Typed, Typed', ClicksArePast,
           LastTs' \in Nat, LastTs <= LastTs', lastMessageTs <= lastMessageTs',
           wire' \subseteq wire,
           askResponse'.src = "user" => \/ askResponse' = askResponse
                                        \/ \E w \in wire : askResponse'.for = w.for
    PROVE  ClicksArePast'
<1>1. LastTs \in Nat
  BY LastTsType DEF Typed, TypeOK, None
<1>2. lastMessageTs \in Nat /\ lastMessageTs' \in Nat
  BY DEF Typed, TypeOK, None
<1>3. \A w \in wire : w.for \in Nat
  BY DEF Typed, TypeOK, WebviewMessage, None
<1>4. askResponse.for \in Nat
  BY DEF Typed, TypeOK, Answer, NoAnswer, None
<1> QED BY <1>1, <1>2, <1>3, <1>4 DEF ClicksArePast

\* Every ask that returns now returns no click made on a newer one.
ReturnsNoNewerClick ==
    \A r \in returned' : r \in returned \/ (r.answer.src = "user" => r.answer.for <= r.ts)

AnswerFromUserIsOld ==
    askResponse'.src = "user" => \/ askResponse' = askResponse
                                 \/ \E w \in wire : askResponse'.for = w.for

\* Most steps neither post a message nor register a question.
LEMMA QuietStep ==
    ASSUME IInv, Typed', MessagesKept, NoNewAsk, clock <= clock', UNCHANGED lastMessageTs,
           wire' \subseteq wire, AnswerFromUserIsOld, ReturnsNoNewerClick
    PROVE  IInv'
<1> USE DEF IInv
<1>1. LastTs \in Nat /\ lastMessageTs \in Nat /\ clock' \in Ts
  BY LastTsType DEF Typed, TypeOK, None
<1>2. MessagesInOrder'
  BY <1>1, OrderKept
<1>3. AsksArePosted' /\ OneAskTakesTheAnswer'
  BY AsksKept
<1>4. ClicksArePast'
  <2>1. LastTs' \in Nat /\ LastTs <= LastTs' /\ lastMessageTs <= lastMessageTs'
    BY <1>1 DEF MessagesKept
  <2> QED BY <2>1, ClicksKept DEF AnswerFromUserIsOld
<1>5. ClickNeverAnswersOlderAsk'
  BY DEF ClickNeverAnswersOlderAsk, ReturnsNoNewerClick
<1>6. LastMessageBelowClock'
  <2>1. clock \in Nat /\ clock' \in Nat
    BY <1>1 DEF Typed, TypeOK
  <2> QED BY <1>1, <2>1 DEF LastMessageBelowClock
<1> QED BY <1>2, <1>3, <1>4, <1>5, <1>6

\* The steps of say() and of the command post a message but ask nothing.
LEMMA PostStep ==
    ASSUME IInv, Typed', TimestampFree, UNCHANGED clock,
           NEW kind \in ClineAsk \cup {Say}, NEW partial \in BOOLEAN, Post(kind, partial),
           lastMessageTs' = clock \/ (kind = Say /\ UNCHANGED lastMessageTs),
           NoNewAsk, UNCHANGED <<wire, returned, askResponse>>
    PROVE  IInv'
<1> USE DEF IInv
<1>1. MessagesInOrder' /\ LastTs' = clock /\ LastTs < LastTs'
  BY OrderAfterPost
<1>2. LastTs' \in Ts /\ lastMessageTs \in Nat /\ lastMessageTs <= clock /\ LastTs \in Nat
  <2>1. clock \in Ts /\ LastTs \in Ts \cup {None} /\ lastMessageTs \in Ts \cup {None}
    BY LastTsType DEF Typed, TypeOK
  <2> QED BY <1>1, <2>1 DEF LastMessageBelowClock, None
<1>3. AsksArePosted' /\ OneAskTakesTheAnswer'
  BY <1>1, <1>2, AsksAfterPost
<1>4. ClicksArePast'
  BY <1>1, <1>2, ClicksKept
<1>5. ClickNeverAnswersOlderAsk'
  BY DEF ClickNeverAnswersOlderAsk
<1>6. LastMessageBelowClock'
  BY <1>1, <1>2 DEF LastMessageBelowClock
<1> QED BY <1>1, <1>3, <1>4, <1>5, <1>6

LEMMA InitIInv == Init => IInv
<1> SUFFICES ASSUME Init PROVE IInv
  OBVIOUS
<1>1. Typed
  BY InitTyped
<1>2. Len(clineMessages) = 0
  BY EmptySeq DEF Init
<1> QED
  BY <1>1, <1>2, BoundsAssumption
  DEF Init, IInv, LastMessageBelowClock, MessagesInOrder, AsksArePosted, ClicksArePast,
      OneAskTakesTheAnswer, ClickNeverAnswersOlderAsk, Asking, LastTs, NoAnswer, None

\* What the end of a wait means for the asks and for what is returned.
LEMMA EndOfWaitQuiet ==
    ASSUME IInv, NEW c \in Calls, Asking(c), NEW answer, NEW auto, NEW ref, NEW decision,
           answer.src = "user" => answer = askResponse,
           \/ Ignored(c, answer, auto, ref)
           \/ Answered(c, answer, auto, ref)
           \/ Blocks(c, answer, decision, auto, ref)
    PROVE  /\ NoNewAsk
           /\ AnswerFromUserIsOld
           /\ ReturnsNoNewerClick
<1> USE DEF IInv, Typed
<1>0. call \in [Calls -> CallState] /\ \A d \in Calls : Idle(d).pc = "idle"
  BY DEF TypeOK, Idle
<1>1. CASE Ignored(c, answer, auto, ref)
  BY <1>0, <1>1 DEF Ignored, NoNewAsk, Asking, AnswerFromUserIsOld, ReturnsNoNewerClick
<1>2. CASE Blocks(c, answer, decision, auto, ref)
  <2>1. NoNewAsk
    BY <1>0, <1>2 DEF Blocks, NoNewAsk, Asking, CallState
  <2> QED BY <1>2, <2>1 DEF Blocks, AnswerFromUserIsOld, ReturnsNoNewerClick
<1>3. CASE Answered(c, answer, auto, ref)
  <2>1. NoNewAsk
    <3>1. \A pc \in {"approved", "idle"} : [Idle(c) EXCEPT !.pc = pc].pc = pc
      BY DEF Idle
    <3>2. \A d \in Calls : call'[d].pc \in {"approved", "idle"} \/ call'[d] = call[d]
      BY <1>0, <1>3, <3>1 DEF Answered, ActOnAnswer
    <3> QED BY <3>2 DEF NoNewAsk, Asking
  <2>2. askResponse'.src # "user"
    BY <1>3 DEF Answered, NoAnswer
  <2>3. answer.src = "user" => answer.for <= call[c].ts
    BY <1>3 DEF Answered, Superseded, ClicksArePast
  <2>4. ReturnsNoNewerClick
    BY <1>3, <2>3 DEF Answered, ReturnsNoNewerClick
  <2> QED BY <2>1, <2>2, <2>4 DEF AnswerFromUserIsOld
<1> QED BY <1>1, <1>2, <1>3

LEMMA AskStepSafe ==
    ASSUME IInv, Typed', NEW c \in Calls, AskStep(c) PROVE IInv'
<1> USE DEF IInv
<1>0. clock \in Nat /\ clock <= clock
  BY DEF Typed, TypeOK
<1>1. CASE Stamp(c)
  <2>1. call[c].type \in ClineAsk \cup {Say} /\ call[c].partial \in BOOLEAN /\ Post(call[c].type, call[c].partial)
    BY <1>1 DEF Stamp, Typed, TypeOK, CallState
  <2>2. TimestampFree /\ lastMessageTs' = clock /\ clock' = clock /\ wire' = wire
        /\ returned' = returned /\ askResponse' = askResponse
    BY <1>1 DEF Stamp, webview, history
  <2>3. MessagesInOrder' /\ LastTs' = clock /\ LastTs < LastTs' /\ LastMessage'.partial = call[c].partial
    BY <2>1, <2>2, OrderAfterPost
  <2>4. call' = [call EXCEPT ![c] = IF call[c].partial THEN Idle(c)
                                     ELSE [call[c] EXCEPT !.pc = "decide", !.ts = clock]]
    BY <1>1 DEF Stamp
  <2>5. \A d \in Calls : Asking(d)' =>
           \/ d # c /\ Asking(d) /\ call'[d].ts = call[d].ts
           \/ d = c /\ call'[d].ts = clock /\ ~call[c].partial
    BY <2>4 DEF Asking, Idle, Typed, TypeOK, CallState
  <2>6. \A d \in Calls : Asking(d) => call[d].ts \in Nat /\ call[d].ts <= LastTs
    BY DEF AsksArePosted, Typed, AskingHasTs
  <2>7. LastTs \in Nat /\ clock \in Nat /\ lastMessageTs \in Nat /\ lastMessageTs <= clock
    BY LastTsType DEF Typed, TypeOK, None, LastMessageBelowClock
  <2>8. AsksArePosted' /\ OneAskTakesTheAnswer'
    BY <2>3, <2>5, <2>6, <2>7 DEF AsksArePosted, OneAskTakesTheAnswer
  <2>9. ClicksArePast'
    BY <2>2, <2>3, <2>7, ClicksKept
  <2> QED BY <2>2, <2>3, <2>7, <2>8, <2>9 DEF ClickNeverAnswersOlderAsk, LastMessageBelowClock
<1>2. ASSUME NEW decision, Decide(c, decision) PROVE IInv'
  <2> DEFINE ts       == call[c].ts
             queued   == queue # <<>>
             answer   == IF queued THEN QueuedAnswer(call[c].type, ts) ELSE AutoAnswer(decision, ts)
             handled  == queued \/ decision \in {"approve", "deny"}
             started  == IF decision = "timeout" THEN autoTimers \cup {ts} ELSE autoTimers
             ref      == IF decision = "timeout" THEN ts ELSE autoApprovalTimeoutRef
             pending  == IF handled THEN CancelReachable(started, ref) ELSE started
             refAfter == IF handled THEN None ELSE ref
  <2>1. /\ Asking(c)
        /\ clineMessages' = IF handled THEN MarkAnswered(answer.reply) ELSE clineMessages
        /\ \/ Ignored(c, answer, pending, refAfter)
           \/ Answered(c, answer, pending, refAfter)
           \/ Blocks(c, answer, decision, pending, refAfter)
        /\ UNCHANGED <<clock, lastMessageTs, wire>>
    BY <1>2 DEF Decide, Asking
  <2>2. MessagesKept
    BY <2>1, MarkKeeps, UnchangedKeeps
  <2>3. answer.src = "user" => answer = askResponse
    BY DEF QueuedAnswer, AutoAnswer
  <2> HIDE DEF answer, pending, refAfter
  <2>4. NoNewAsk /\ AnswerFromUserIsOld /\ ReturnsNoNewerClick
    BY <2>1, <2>3, EndOfWaitQuiet
  <2> QED BY <1>0, <2>1, <2>2, <2>4, QuietStep
<1>3. CASE DecideYolo(c)
  <2>1. MessagesKept
    BY <1>3, MarkKeeps DEF DecideYolo
  <2>2. NoNewAsk /\ AnswerFromUserIsOld /\ ReturnsNoNewerClick
    BY <1>3 DEF DecideYolo, NoNewAsk, Asking, Idle, AnswerFromUserIsOld, ReturnsNoNewerClick, NoAnswer,
       Typed, TypeOK
  <2> QED BY <1>0, <1>3, <2>1, <2>2, QuietStep DEF DecideYolo, webview
<1>4. CASE Poll(c)
  <2>1. NoNewAsk /\ AnswerFromUserIsOld /\ ReturnsNoNewerClick
    BY <1>4, EndOfWaitQuiet DEF Poll, Asking
  <2> QED BY <1>0, <1>4, <2>1, UnchangedKeeps, QuietStep DEF Poll, webview
<1>5. CASE ConsumeQueued(c)
  <2>1. MessagesKept
    BY <1>5, MarkKeeps DEF ConsumeQueued
  <2>2. NoNewAsk /\ AnswerFromUserIsOld /\ ReturnsNoNewerClick
    BY <1>5 DEF ConsumeQueued, NoNewAsk, Asking, AnswerFromUserIsOld, ReturnsNoNewerClick, QueuedAnswer, history
  <2> QED BY <1>0, <1>5, <2>1, <2>2, QuietStep DEF ConsumeQueued
<1> QED BY <1>1, <1>2, <1>3, <1>4, <1>5 DEF AskStep

LEMMA UserStepSafe ==
    ASSUME IInv, Typed', UserStep PROVE IInv'
<1> USE DEF IInv
<1>0. clock \in Nat /\ clock <= clock
  BY DEF Typed, TypeOK
<1>1. ASSUME NEW kind \in {"askResponse", "queueMessage"}, NEW reply \in Replies, Send(kind, reply)
      PROVE  IInv'
  <2>1. /\ LastTs \in Nat /\ lastMessageTs \in Nat
        /\ kind = "askResponse" => LastTs <= lastMessageTs
    <3>1. LastTs \in Nat /\ lastMessageTs \in Nat
      BY LastTsType DEF Typed, TypeOK, None
    <3>2. CASE kind = "askResponse"
      <4>1. clineMessages # <<>> /\ LastMessage.kind # Say
        BY <1>1, <3>2 DEF Send
      <4>2. Len(clineMessages) \in Nat \ {0}
        BY <4>1, LastTsType DEF Typed, TypeOK
      <4> QED BY <3>1, <4>1, <4>2 DEF MessagesInOrder, LastTs, LastMessage
    <3> QED BY <3>1, <3>2
  <2>2. \A w \in wire' : w.for <= LastTs /\ w.for <= lastMessageTs
    BY <1>1, <2>1 DEF Send, ClicksArePast, None
  <2>3. ClicksArePast'
    BY <1>1, <2>2 DEF Send, ClicksArePast, LastTs, LastMessage
  <2> QED BY <1>1, <2>3 DEF Send, MessagesInOrder, AsksArePosted, OneAskTakesTheAnswer, history,
             ClickNeverAnswersOlderAsk, LastMessageBelowClock, Asking, LastTs, LastMessage
<1>2. ASSUME NEW w \in wire, HandleAskResponse(w) PROVE IInv'
  <2>1. MessagesKept
    BY <1>2, MarkKeeps DEF HandleAskResponse
  <2>2. NoNewAsk /\ AnswerFromUserIsOld /\ ReturnsNoNewerClick /\ wire' \subseteq wire
    BY <1>2 DEF HandleAskResponse, NoNewAsk, Asking, AnswerFromUserIsOld, ReturnsNoNewerClick, history
  <2> QED BY <1>0, <1>2, <2>1, <2>2, QuietStep DEF HandleAskResponse
<1>3. ASSUME NEW w \in wire, HandleQueueMessage(w) PROVE IInv'
  <2>1. NoNewAsk /\ AnswerFromUserIsOld /\ ReturnsNoNewerClick /\ wire' \subseteq wire
    BY <1>3 DEF HandleQueueMessage, NoNewAsk, Asking, AnswerFromUserIsOld, ReturnsNoNewerClick, history
  <2> QED BY <1>0, <1>3, <2>1, UnchangedKeeps, QuietStep DEF HandleQueueMessage
<1>4. ASSUME NEW i \in DOMAIN queue, RemoveQueued(i) PROVE IInv'
  <2>1. NoNewAsk /\ AnswerFromUserIsOld /\ ReturnsNoNewerClick
    BY <1>4 DEF RemoveQueued, NoNewAsk, Asking, AnswerFromUserIsOld, ReturnsNoNewerClick, history
  <2> QED BY <1>0, <1>4, <2>1, UnchangedKeeps, QuietStep DEF RemoveQueued
<1>5. CASE CancelAutoApprovalTimeout
  <2>1. NoNewAsk /\ AnswerFromUserIsOld /\ ReturnsNoNewerClick
    BY <1>5 DEF CancelAutoApprovalTimeout, NoNewAsk, Asking, AnswerFromUserIsOld, ReturnsNoNewerClick, history
  <2> QED BY <1>0, <1>5, <2>1, UnchangedKeeps, QuietStep DEF CancelAutoApprovalTimeout, webview
<1>6. CASE AbortTask
  <2>1. NoNewAsk /\ AnswerFromUserIsOld /\ ReturnsNoNewerClick
    BY <1>6 DEF AbortTask, NoNewAsk, Asking, AnswerFromUserIsOld, ReturnsNoNewerClick, history
  <2> QED BY <1>0, <1>6, <2>1, UnchangedKeeps, QuietStep DEF AbortTask
<1> QED BY <1>1, <1>2, <1>3, <1>4, <1>5, <1>6 DEF UserStep

LEMMA TimerStepSafe ==
    ASSUME IInv, Typed', TimerStep PROVE IInv'
<1> USE DEF IInv
<1>0. clock \in Nat /\ clock <= clock
  BY DEF Typed, TypeOK
<1>1. CASE Tick
  <2>1. NoNewAsk /\ AnswerFromUserIsOld /\ ReturnsNoNewerClick /\ clock <= clock'
    BY <1>0, <1>1 DEF Tick, NoNewAsk, Asking, AnswerFromUserIsOld, ReturnsNoNewerClick, history
  <2> QED BY <1>1, <2>1, UnchangedKeeps, QuietStep DEF Tick, webview
<1>2. ASSUME NEW ts \in Ts, FireAuto(ts) PROVE IInv'
  <2>1. MessagesKept
    BY <1>2, MarkKeeps DEF FireAuto
  <2>2. NoNewAsk /\ AnswerFromUserIsOld /\ ReturnsNoNewerClick
    BY <1>2 DEF FireAuto, NoNewAsk, Asking, AnswerFromUserIsOld, ReturnsNoNewerClick, history
  <2> QED BY <1>0, <1>2, <2>1, <2>2, QuietStep DEF FireAuto, webview
<1>3. ASSUME NEW ts \in Ts, FireStatus(ts) PROVE IInv'
  <2>1. NoNewAsk /\ AnswerFromUserIsOld /\ ReturnsNoNewerClick
    BY <1>3 DEF FireStatus, NoNewAsk, Asking, AnswerFromUserIsOld, ReturnsNoNewerClick, history
  <2> QED BY <1>0, <1>3, <2>1, UnchangedKeeps, QuietStep DEF FireStatus, webview
<1> QED BY <1>1, <1>2, <1>3 DEF TimerStep

LEMMA AgentStepSafe ==
    ASSUME IInv, Typed', AgentStep PROVE IInv'
<1> USE DEF IInv
<1>0. clock \in Nat /\ clock <= clock /\ call \in [Calls -> CallState]
  BY DEF Typed, TypeOK
<1>1. ASSUME NEW type \in AskTypes, NEW partial \in BOOLEAN, BeginAsk("agent", type, partial)
      PROVE  IInv'
  <2>1. NoNewAsk /\ AnswerFromUserIsOld /\ ReturnsNoNewerClick
    BY <1>0, <1>1 DEF BeginAsk, NoNewAsk, Asking, AnswerFromUserIsOld, ReturnsNoNewerClick, history, NoAnswer
  <2> QED BY <1>0, <1>1, <2>1, UnchangedKeeps, QuietStep DEF BeginAsk, webview
<1>2. ASSUME NEW type \in AskTypes, CompletePartial("agent", type) PROVE IInv'
  <2>1. clineMessages # <<>> /\ LastMessage.partial /\ clineMessages \in Seq(Message)
        /\ Len(clineMessages) \in Nat
    BY <1>2, LenProperties DEF CompletePartial, UpdatesPreviousPartial, Typed, TypeOK
  <2>2. /\ Len(clineMessages') = Len(clineMessages) /\ LastTs' = LastTs /\ LastMessage'.partial = FALSE
        /\ \A i \in 1..Len(clineMessages) : /\ clineMessages'[i].ts = clineMessages[i].ts
                                            /\ clineMessages'[i].kind = clineMessages[i].kind
    BY <1>2, <2>1, AfterComplete DEF CompletePartial
  <2>3. lastMessageTs' = LastTs /\ clock' = clock
    BY <1>2 DEF CompletePartial
  <2>4. MessagesInOrder' /\ LastMessageBelowClock'
    BY <2>2, <2>3 DEF MessagesInOrder, LastMessageBelowClock
  <2>5. \A c \in Calls : Asking(c)' =>
           \/ c # "agent" /\ Asking(c) /\ call'[c].ts = call[c].ts
           \/ c = "agent" /\ call'[c].ts = LastTs
    BY <1>0, <1>2 DEF CompletePartial, Asking
  <2>6. \A c \in Calls : Asking(c) => call[c].ts <= LastTs /\ call[c].ts # LastTs
    BY <2>1 DEF AsksArePosted
  <2>7. LastTs \in Nat
    BY LastTsType DEF Typed, TypeOK, None
  <2>8. AsksArePosted' /\ OneAskTakesTheAnswer'
    BY <2>2, <2>5, <2>6, <2>7 DEF AsksArePosted, OneAskTakesTheAnswer
  <2>9. ClicksArePast'
    BY <1>2, <2>2, <2>3 DEF CompletePartial, ClicksArePast, NoAnswer, webview
  <2> QED BY <1>2, <2>4, <2>8, <2>9 DEF CompletePartial, ClickNeverAnswersOlderAsk, history
<1>3. CASE SayInteractive
  <2>1. NoNewAsk
    BY <1>3 DEF SayInteractive, NoNewAsk, Asking
  <2> QED BY <1>3, <2>1, PostStep DEF SayInteractive, webview, history
<1>4. CASE SayNonInteractive
  <2>1. NoNewAsk
    BY <1>4 DEF SayNonInteractive, NoNewAsk, Asking
  <2> QED BY <1>4, <2>1, PostStep DEF SayNonInteractive, webview, history
<1>5. CASE ProcessQueuedMessages
  <2>1. LastTs \in Nat /\ lastMessageTs \in Nat
    BY LastTsType DEF Typed, TypeOK, None
  <2>2. PICK kind \in {"askResponse", "queueMessage"} :
          /\ kind = "askResponse" => clineMessages # <<>> /\ LastMessage.kind # Say
          /\ wire' = wire \cup {[kind |-> kind, reply |-> "messageResponse", id |-> Head(queue),
                                 for |-> IF kind = "askResponse" THEN LastTs ELSE None]}
    BY <1>5 DEF ProcessQueuedMessages
  <2>3. kind = "askResponse" => LastTs <= lastMessageTs
    <3> SUFFICES ASSUME kind = "askResponse" PROVE LastTs <= lastMessageTs
      OBVIOUS
    <3>1. Len(clineMessages) \in Nat \ {0}
      BY <2>2, LastTsType DEF Typed, TypeOK
    <3> QED BY <2>1, <2>2, <3>1 DEF MessagesInOrder, LastTs, LastMessage
  <2>4. \A w \in wire' : w.for <= LastTs /\ w.for <= lastMessageTs
    BY <2>1, <2>2, <2>3 DEF ClicksArePast, None
  <2>5. ClicksArePast'
    BY <1>5, <2>4 DEF ProcessQueuedMessages, ClicksArePast, LastTs, LastMessage
  <2> QED BY <1>5, <2>5 DEF ProcessQueuedMessages, MessagesInOrder, AsksArePosted, history,
             OneAskTakesTheAnswer, ClickNeverAnswersOlderAsk, LastMessageBelowClock, Asking,
             LastTs, LastMessage
<1>6. CASE RunCommand
  <2>1. NoNewAsk /\ AnswerFromUserIsOld /\ ReturnsNoNewerClick
    BY <1>0, <1>6 DEF RunCommand, NoNewAsk, Asking, AnswerFromUserIsOld, ReturnsNoNewerClick, history, CallState
  <2> QED BY <1>0, <1>6, <2>1, UnchangedKeeps, QuietStep DEF RunCommand, webview
<1>7. CASE SkipCommand
  <2>1. NoNewAsk /\ AnswerFromUserIsOld /\ ReturnsNoNewerClick
    BY <1>0, <1>7 DEF SkipCommand, NoNewAsk, Asking, Idle, AnswerFromUserIsOld, ReturnsNoNewerClick, history
  <2> QED BY <1>0, <1>7, <2>1, UnchangedKeeps, QuietStep DEF SkipCommand, webview
<1> QED BY <1>1, <1>2, <1>3, <1>4, <1>5, <1>6, <1>7 DEF AgentStep

LEMMA CommandStepSafe ==
    ASSUME IInv, Typed', CommandStep PROVE IInv'
<1> USE DEF IInv
<1>0. clock \in Nat /\ clock <= clock /\ call \in [Calls -> CallState]
  BY DEF Typed, TypeOK
<1>1. CASE CommandOutput
  <2>1. NoNewAsk /\ AnswerFromUserIsOld /\ ReturnsNoNewerClick
    BY <1>0, <1>1 DEF CommandOutput, NoNewAsk, Asking, AnswerFromUserIsOld, ReturnsNoNewerClick, history, NoAnswer
  <2> QED BY <1>0, <1>1, <2>1, UnchangedKeeps, QuietStep DEF CommandOutput, webview
<1>2. CASE ContinueInBackground
  <2>1. NoNewAsk /\ AnswerFromUserIsOld /\ ReturnsNoNewerClick
    BY <1>0, <1>2 DEF ContinueInBackground, NoNewAsk, Asking, Idle, AnswerFromUserIsOld, ReturnsNoNewerClick, history
  <2> QED BY <1>0, <1>2, <2>1, UnchangedKeeps, QuietStep DEF ContinueInBackground, webview
<1>3. CASE CommandCompletes
  <2>1. NoNewAsk
    BY <1>0, <1>3 DEF CommandCompletes, NoNewAsk, Asking, Idle
  <2>2. CASE abort
    <3>1. AnswerFromUserIsOld /\ ReturnsNoNewerClick
      BY <1>3 DEF CommandCompletes, AnswerFromUserIsOld, ReturnsNoNewerClick, history
    <3> QED BY <1>0, <1>3, <2>1, <2>2, <3>1, UnchangedKeeps, QuietStep DEF CommandCompletes, webview
  <2>3. CASE ~abort
    BY <1>3, <2>1, <2>3, PostStep DEF CommandCompletes, webview, history
  <2> QED BY <2>2, <2>3
<1>4. CASE CommandFallsBack
  <2>1. NoNewAsk
    BY <1>4 DEF CommandFallsBack, NoNewAsk, Asking
  <2> QED BY <1>4, <2>1, PostStep DEF CommandFallsBack, webview, history
<1> QED BY <1>1, <1>2, <1>3, <1>4 DEF CommandStep

LEMMA StutterSafe == ASSUME IInv, UNCHANGED vars PROVE IInv'
  BY DEF IInv, Typed, TypeOK, AskingHasTs, LastMessageBelowClock, MessagesInOrder, AsksArePosted,
     ClicksArePast, OneAskTakesTheAnswer, ClickNeverAnswersOlderAsk, Asking, LastTs, LastMessage, vars

LEMMA IInvStep == IInv /\ [Next]_vars => IInv'
<1> SUFFICES ASSUME IInv, [Next]_vars PROVE IInv'
  OBVIOUS
<1>1. Typed'
  BY StepTyped DEF IInv
<1> QED
  BY <1>1, AskStepSafe, AgentStepSafe, CommandStepSafe, TimerStepSafe, UserStepSafe, StutterSafe DEF Next

\* Two calls of ask() never compete for one answer, however many questions and
\* messages there are: the timestamps of the questions being asked differ.
THEOREM OneAskSafe == Spec => []OneAskTakesTheAnswer
<1>1. IInv => OneAskTakesTheAnswer
  BY DEF IInv
<1> QED BY InitIInv, IInvStep, <1>1, PTL DEF Spec

\* A click on a newer question never answers an older one.
THEOREM ClickSafe == Spec => []ClickNeverAnswersOlderAsk
<1>1. IInv => ClickNeverAnswersOlderAsk
  BY DEF IInv
<1> QED BY InitIInv, IInvStep, <1>1, PTL DEF Spec

-----------------------------------------------------------------------------
(* A message of the user is at one place at a time: on its way from the       *)
(* webview, in the queue, in the answer slot, or the answer of one question.  *)
HIDE DEF Ts, Sends

IsReturned(id) == \E r \in returned : r.answer.id = id

\* Nothing on its way is twice on its way, or anywhere else.
OnTheWay ==
    /\ \A m, n \in wire : m.id = n.id => m = n
    /\ \A m \in wire :
         /\ m.id <= sends /\ m.id # askResponse.id /\ ~IsReturned(m.id)
         /\ \A i \in DOMAIN queue : queue[i] # m.id

\* Nothing in the queue is there twice, in the slot, or an answer already.
InTheQueue ==
    /\ \A i, j \in DOMAIN queue : queue[i] = queue[j] => i = j
    /\ \A i \in DOMAIN queue : /\ queue[i] <= sends /\ queue[i] # askResponse.id
                               /\ ~IsReturned(queue[i])

InTheSlot == askResponse.id # None => askResponse.id <= sends /\ ~IsReturned(askResponse.id)

AnsweredPast == (\A r \in returned : r.answer.id <= sends) /\ MessageAnswersOneAsk

AtOnePlace == OnTheWay /\ InTheQueue /\ InTheSlot /\ AnsweredPast

-----------------------------------------------------------------------------
(* The queue gets shorter                                                      *)

\* What is left of the queue was in it, each message where it was or later.
Shrinks(q) ==
    \E f \in [DOMAIN q -> DOMAIN queue] :
       /\ \A i \in DOMAIN q : q[i] = queue[f[i]]
       /\ \A i, j \in DOMAIN q : f[i] = f[j] => i = j

LEMMA TailShrinks ==
  ASSUME queue \in Seq(Sends), queue # <<>>
  PROVE  /\ Head(queue) = queue[1] /\ 1 \in DOMAIN queue /\ Shrinks(Tail(queue))
         /\ Head(queue) \in Sends
         /\ InTheQueue => \A i \in DOMAIN Tail(queue) : Tail(queue)[i] # Head(queue)
  <1> DEFINE q == Tail(queue)
             f == [i \in DOMAIN q |-> i + 1]
  <1>1. /\ Len(queue) \in Nat \ {0} /\ DOMAIN queue = 1 .. Len(queue) /\ Head(queue) = queue[1]
        /\ DOMAIN q = 1 .. Len(queue) - 1 /\ \A i \in DOMAIN q : q[i] = queue[i + 1]
        /\ queue[1] \in Sends
    OBVIOUS
  <1>2. f \in [DOMAIN q -> DOMAIN queue] /\ \A i \in DOMAIN q : f[i] = i + 1
    BY <1>1
  <1>3. (\A i \in DOMAIN q : q[i] = queue[f[i]]) /\ \A i, j \in DOMAIN q : f[i] = f[j] => i = j
    BY <1>1, <1>2
  <1> HIDE DEF f
  <1>4. Shrinks(q)
    BY <1>2, <1>3 DEF Shrinks
  <1>5. InTheQueue => \A i \in DOMAIN q : q[i] # queue[1]
    BY <1>1 DEF InTheQueue
  <1> QED
    BY <1>1, <1>4, <1>5

LEMMA RemoveShrinks ==
  ASSUME queue \in Seq(Sends), NEW k \in DOMAIN queue
  PROVE  Shrinks(SubSeq(queue, 1, k - 1) \o SubSeq(queue, k + 1, Len(queue)))
  <1> DEFINE a == SubSeq(queue, 1, k - 1)
             b == SubSeq(queue, k + 1, Len(queue))
             q == a \o b
             f == [i \in DOMAIN q |-> IF i < k THEN i ELSE i + 1]
  <1>1. Len(queue) \in Nat /\ DOMAIN queue = 1 .. Len(queue) /\ k \in 1 .. Len(queue)
    OBVIOUS
  <1>2. /\ a \in Seq(Sends) /\ Len(a) = k - 1 /\ \A i \in 1 .. k - 1 : a[i] = queue[i]
        /\ b \in Seq(Sends) /\ Len(b) = Len(queue) - k /\ \A i \in 1 .. Len(queue) - k : b[i] = queue[k + i]
    <2>1. a \in Seq(Sends) /\ Len(a) = k - 1 /\ \A i \in 1 .. k - 1 : a[i] = queue[i]
      BY <1>1
    <2>2. k + 1 \in 1 .. Len(queue) + 1 /\ Len(queue) - (k + 1) + 1 = Len(queue) - k
      BY <1>1
    <2>3. b \in Seq(Sends) /\ Len(b) = Len(queue) - k
      BY <1>1, <2>2
    <2>4. \A i \in 1 .. Len(queue) - k : b[i] = queue[k + i]
      BY <1>1, <2>2
    <2> QED
      BY <2>1, <2>3, <2>4
  <1> HIDE DEF a, b
  <1>3. /\ q \in Seq(Sends) /\ Len(q) = Len(a) + Len(b)
        /\ \A i \in 1 .. Len(a) + Len(b) : q[i] = IF i <= Len(a) THEN a[i] ELSE b[i - Len(a)]
    <2>1. a \in Seq(Sends) /\ b \in Seq(Sends)
      BY <1>2
    <2>2. q \in Seq(Sends) /\ Len(q) = Len(a) + Len(b)
      BY <2>1
    <2>3. \A i \in 1 .. Len(a) + Len(b) : q[i] = IF i <= Len(a) THEN a[i] ELSE b[i - Len(a)]
      BY <2>1
    <2> QED
      BY <2>2, <2>3
  <1> HIDE DEF q
  <1>4. k \in Int /\ Len(a) + Len(b) = Len(queue) - 1
    BY <1>1, <1>2
  <1>5. /\ DOMAIN q = 1 .. Len(queue) - 1
        /\ \A i \in DOMAIN q : q[i] = IF i < k THEN queue[i] ELSE queue[i + 1]
    <2>1. DOMAIN q = 1 .. Len(queue) - 1
      BY <1>3, <1>4
    <2>2. ASSUME NEW i \in DOMAIN q, i < k PROVE q[i] = queue[i]
      BY <1>1, <1>2, <1>3, <1>4, <2>1, <2>2
    <2>3. ASSUME NEW i \in DOMAIN q, ~(i < k) PROVE q[i] = queue[i + 1]
      <3>1. q[i] = b[i - (k - 1)] /\ i - (k - 1) \in 1 .. Len(queue) - k
        BY <1>1, <1>2, <1>3, <1>4, <2>1, <2>3
      <3>2. k + (i - (k - 1)) = i + 1
        BY <1>1, <1>4, <2>1, <2>3
      <3>3. \A j \in 1 .. Len(queue) - k : b[j] = queue[k + j]
        BY <1>2
      <3>4. b[i - (k - 1)] = queue[k + (i - (k - 1))]
        BY <3>1, <3>3
      <3> QED
        BY <3>1, <3>2, <3>4
    <2> QED
      BY <2>1, <2>2, <2>3
  <1>6. /\ f \in [DOMAIN q -> DOMAIN queue]
        /\ \A i \in DOMAIN q : f[i] = IF i < k THEN i ELSE i + 1
    BY <1>1, <1>5
  <1> HIDE DEF f
  <1>7. (\A i \in DOMAIN q : q[i] = queue[f[i]]) /\ \A i, j \in DOMAIN q : f[i] = f[j] => i = j
    BY <1>1, <1>5, <1>6
  <1>8. Shrinks(q)
    BY <1>6, <1>7 DEF Shrinks
  <1> QED
    BY <1>8 DEF q, a, b

LEMMA SameShrinks == ASSUME queue \in Seq(Sends) PROVE Shrinks(queue)
  <1> DEFINE f == [i \in DOMAIN queue |-> i]
  <1>1. f \in [DOMAIN queue -> DOMAIN queue] /\ \A i \in DOMAIN queue : f[i] = i
    OBVIOUS
  <1> HIDE DEF f
  <1> QED
    BY <1>1 DEF Shrinks

-----------------------------------------------------------------------------
(* What a step may do                                                          *)

\* Messages are lost, or one is taken to another place, or a new one is sent.
\* taken is None or the message that leaves the wire or the queue.
Leaves(taken) ==
    /\ Shrinks(queue') /\ \A i \in DOMAIN queue' : queue'[i] # taken
    /\ wire' \subseteq wire /\ \A m \in wire' : m.id # taken
    /\ sends' = sends

WasOut(taken) ==
    \/ \E m \in wire : m.id = taken
    \/ \E i \in DOMAIN queue : queue[i] = taken

\* The slot keeps its message or loses it.
LEMMA SlotKept ==
  ASSUME Typed, AtOnePlace, Leaves(None), UNCHANGED returned,
         askResponse'.id \in {None, askResponse.id}
  PROVE  AtOnePlace'
  <1>1. \A id : IsReturned(id)' = IsReturned(id)
    BY DEF IsReturned
  <1>2. \A m \in wire : m.id \in Sends
    BY DEF Typed, TypeOK, WebviewMessage
  <1>3. PICK f \in [DOMAIN queue' -> DOMAIN queue] :
          /\ \A i \in DOMAIN queue' : queue'[i] = queue[f[i]]
          /\ \A i, j \in DOMAIN queue' : f[i] = f[j] => i = j
    BY DEF Leaves, Shrinks
  <1>4. OnTheWay'
    BY <1>1, <1>2, <1>3 DEF AtOnePlace, OnTheWay, Leaves, None
  <1>5. InTheQueue'
    BY <1>1, <1>3 DEF AtOnePlace, InTheQueue, Leaves
  <1>6. InTheSlot'
    BY <1>1 DEF AtOnePlace, InTheSlot, Leaves
  <1>7. AnsweredPast'
    BY DEF AtOnePlace, AnsweredPast, MessageAnswersOneAsk, Leaves
  <1> QED
    BY <1>4, <1>5, <1>6, <1>7 DEF AtOnePlace

\* A message that was on its way or in the queue is now in the slot.
LEMMA SlotTaken ==
  ASSUME Typed, AtOnePlace, NEW taken \in Sends, WasOut(taken), Leaves(taken), UNCHANGED returned,
         askResponse'.id = taken
  PROVE  AtOnePlace'
  <1>1. \A id : IsReturned(id)' = IsReturned(id)
    BY DEF IsReturned
  <1>2. taken <= sends /\ ~IsReturned(taken)
    BY DEF WasOut, AtOnePlace, OnTheWay, InTheQueue
  <1>3. PICK f \in [DOMAIN queue' -> DOMAIN queue] :
          /\ \A i \in DOMAIN queue' : queue'[i] = queue[f[i]]
          /\ \A i, j \in DOMAIN queue' : f[i] = f[j] => i = j
    BY DEF Leaves, Shrinks
  <1>4. OnTheWay'
    BY <1>1, <1>3 DEF AtOnePlace, OnTheWay, Leaves
  <1>5. InTheQueue'
    BY <1>1, <1>3 DEF AtOnePlace, InTheQueue, Leaves
  <1>6. InTheSlot'
    BY <1>1, <1>2 DEF InTheSlot, Leaves
  <1>7. AnsweredPast'
    BY DEF AtOnePlace, AnsweredPast, MessageAnswersOneAsk, Leaves
  <1> QED
    BY <1>4, <1>5, <1>6, <1>7 DEF AtOnePlace

\* A question returns with what was in the slot, with a message from the queue,
\* or without a message.
LEMMA Returns ==
  ASSUME Typed, AtOnePlace, NEW r, returned' = returned \cup {r}, NEW taken \in Sends \cup {None},
         Leaves(taken), r.answer.id = taken,
         taken # None => taken = askResponse.id \/ WasOut(taken), askResponse'.id = None
  PROVE  AtOnePlace'
  <1>1. \A id : IsReturned(id)' <=> IsReturned(id) \/ id = taken
    BY DEF IsReturned
  <1>2. taken # None => taken <= sends /\ ~IsReturned(taken)
    BY DEF WasOut, AtOnePlace, OnTheWay, InTheQueue, InTheSlot
  <1>3. sends \in Nat
    BY BoundsAssumption DEF Typed, TypeOK
  <1>4. PICK f \in [DOMAIN queue' -> DOMAIN queue] :
          /\ \A i \in DOMAIN queue' : queue'[i] = queue[f[i]]
          /\ \A i, j \in DOMAIN queue' : f[i] = f[j] => i = j
    BY DEF Leaves, Shrinks
  <1>5. (\A m \in wire : m.id \in Sends) /\ \A i \in DOMAIN queue : queue[i] \in Sends
    BY DEF Typed, TypeOK, WebviewMessage
  <1>6. OnTheWay'
    <2>1. \A m \in wire' : m.id # None /\ m.id # taken /\ m \in wire
      BY <1>5, BoundsAssumption DEF Leaves, None, Sends
    <2> QED
      BY <1>1, <1>4, <2>1 DEF AtOnePlace, OnTheWay, Leaves
  <1>7. InTheQueue'
    <2>1. \A i \in DOMAIN queue' : queue'[i] # None /\ queue'[i] # taken
      BY <1>4, <1>5, BoundsAssumption DEF Leaves, None, Sends
    <2> QED
      BY <1>1, <1>4, <2>1 DEF AtOnePlace, InTheQueue, Leaves
  <1>8. InTheSlot'
    BY DEF InTheSlot
  <1>9. AnsweredPast'
    BY <1>2, <1>3 DEF AtOnePlace, AnsweredPast, MessageAnswersOneAsk, IsReturned, Leaves, None
  <1> QED
    BY <1>6, <1>7, <1>8, <1>9 DEF AtOnePlace

LEMMA IdsAreNumbers ==
  ASSUME Typed
  PROVE  /\ sends \in Nat /\ queue \in Seq(Sends)
         /\ \A m \in wire : m.id \in Sends /\ m.id # None
         /\ \A i \in DOMAIN queue : queue[i] \in Sends /\ queue[i] # None
         /\ askResponse.id \in Sends \cup {None}
         /\ None \notin Sends
  <1>1. queue \in Seq(Sends) /\ wire \subseteq WebviewMessage /\ askResponse \in Answer \cup {NoAnswer}
    BY DEF Typed, TypeOK
  <1>2. None \notin Sends /\ sends \in Nat
    BY BoundsAssumption DEF None, Sends, Typed, TypeOK
  <1>3. \A m \in wire : m.id \in Sends
    BY <1>1 DEF WebviewMessage
  <1>4. \A i \in DOMAIN queue : queue[i] \in Sends
    BY <1>1
  <1>5. askResponse.id \in Sends \cup {None}
    BY <1>1 DEF Answer, NoAnswer
  <1> QED
    BY <1>1, <1>2, <1>3, <1>4, <1>5

\* Nothing is taken; the queue may lose messages.
LEMMA NothingTaken ==
  ASSUME Typed, AtOnePlace, Shrinks(queue'), UNCHANGED <<wire, sends, returned>>,
         askResponse'.id \in {None, askResponse.id}
  PROVE  AtOnePlace'
  <1>1. \A i \in DOMAIN queue' : queue'[i] # None
    BY IdsAreNumbers DEF Shrinks
  <1>2. Leaves(None)
    BY <1>1, IdsAreNumbers DEF Leaves
  <1> QED
    BY <1>2, SlotKept

LEMMA Untouched ==
  ASSUME Typed, AtOnePlace, UNCHANGED <<queue, wire, sends, returned>>,
         askResponse'.id \in {None, askResponse.id}
  PROVE  AtOnePlace'
  <1>1. Shrinks(queue')
    BY IdsAreNumbers, SameShrinks
  <1> QED
    BY <1>1, NothingTaken

\* The first message of the queue goes to the slot or to the question.
LEMMA HeadLeaves ==
  ASSUME Typed, AtOnePlace, queue # <<>>, queue' = Tail(queue), UNCHANGED <<wire, sends>>
  PROVE  Head(queue) \in Sends /\ WasOut(Head(queue)) /\ Leaves(Head(queue))
  <1>1. /\ Head(queue) = queue[1] /\ 1 \in DOMAIN queue /\ Shrinks(Tail(queue)) /\ Head(queue) \in Sends
        /\ InTheQueue => \A i \in DOMAIN Tail(queue) : Tail(queue)[i] # Head(queue)
    BY IdsAreNumbers, TailShrinks
  <1>2. WasOut(Head(queue))
    BY <1>1 DEF WasOut
  <1>3. Leaves(Head(queue))
    BY <1>1 DEF Leaves, AtOnePlace, OnTheWay
  <1> QED
    BY <1>1, <1>2, <1>3

\* The slot's own message goes to the question, or there is none.
LEMMA SlotLeaves ==
  ASSUME Typed, AtOnePlace, UNCHANGED <<queue, wire, sends>>, NEW id \in {None, askResponse.id}
  PROVE  Leaves(id)
  <1>1. Shrinks(queue')
    BY IdsAreNumbers, SameShrinks
  <1> QED
    BY <1>1, IdsAreNumbers DEF Leaves, AtOnePlace, OnTheWay, InTheQueue

\* The end of a look at the slot: it is kept, or the question returns.
Looks(c, answer) ==
    \/ UNCHANGED returned /\ askResponse' = answer
    \/ /\ returned' = returned \cup {[call |-> c, ts |-> call[c].ts, type |-> call[c].type, answer |-> answer]}
       /\ askResponse' = NoAnswer

\* With the slot's own message or none.
LEMMA SlotAnswers ==
  ASSUME Typed, AtOnePlace, NEW c, NEW answer, UNCHANGED <<queue, wire, sends>>,
         answer.id \in {None, askResponse.id}, Looks(c, answer)
  PROVE  AtOnePlace'
  <1>1. CASE UNCHANGED returned /\ askResponse' = answer
    BY <1>1, Untouched
  <1>2. CASE ~(UNCHANGED returned /\ askResponse' = answer)
    <2> DEFINE r == [call |-> c, ts |-> call[c].ts, type |-> call[c].type, answer |-> answer]
    <2>1. returned' = returned \cup {r} /\ askResponse'.id = None /\ r.answer.id = answer.id
      BY <1>2 DEF Looks, NoAnswer
    <2>2. Leaves(answer.id) /\ answer.id \in Sends \cup {None}
      BY SlotLeaves, IdsAreNumbers
    <2> HIDE DEF r
    <2> QED
      BY <2>1, <2>2, Returns
  <1> QED
    BY <1>1, <1>2

\* With the first message of the queue.
LEMMA QueueAnswers ==
  ASSUME Typed, AtOnePlace, NEW c, NEW answer, queue # <<>>, queue' = Tail(queue),
         UNCHANGED <<wire, sends>>, answer.id = Head(queue), Looks(c, answer)
  PROVE  AtOnePlace'
  <1>1. CASE UNCHANGED returned /\ askResponse' = answer
    BY <1>1, HeadLeaves, SlotTaken
  <1>2. CASE ~(UNCHANGED returned /\ askResponse' = answer)
    <2> DEFINE r == [call |-> c, ts |-> call[c].ts, type |-> call[c].type, answer |-> answer]
    <2>1. returned' = returned \cup {r} /\ askResponse'.id = None /\ r.answer.id = Head(queue)
      BY <1>2 DEF Looks, NoAnswer
    <2> HIDE DEF r
    <2> QED
      BY <2>1, HeadLeaves, Returns
  <1> QED
    BY <1>1, <1>2

LEMMA AskStepApart ==
  ASSUME Typed, AtOnePlace, NEW c \in Calls, AskStep(c)
  PROVE  AtOnePlace'
  <1>1. CASE Stamp(c)
    BY <1>1, Untouched DEF Stamp, webview, history
  <1>2. ASSUME NEW d \in {"ask", "approve", "deny", "timeout"}, Decide(c, d) PROVE AtOnePlace'
    <2>1. CASE queue # <<>>
      <3> DEFINE answer == QueuedAnswer(call[c].type, call[c].ts)
      <3>1. answer.id = Head(queue)
        BY DEF QueuedAnswer
      <3>2. queue' = Tail(queue) /\ UNCHANGED <<wire, sends>>
        BY <1>2, <2>1 DEF Decide
      <3>3. Looks(c, answer)
        BY <1>2, <2>1 DEF Decide, Ignored, Answered, Blocks, Looks
      <3> HIDE DEF answer
      <3> QED
        BY <2>1, <3>1, <3>2, <3>3, QueueAnswers
    <2>2. CASE queue = <<>>
      <3> DEFINE answer == AutoAnswer(d, call[c].ts)
      <3>1. answer.id \in {None, askResponse.id}
        BY DEF AutoAnswer
      <3>2. UNCHANGED <<queue, wire, sends>>
        BY <1>2, <2>2 DEF Decide
      <3>3. Looks(c, answer)
        BY <1>2, <2>2 DEF Decide, Ignored, Answered, Blocks, Looks
      <3> HIDE DEF answer
      <3> QED
        BY <3>1, <3>2, <3>3, SlotAnswers
    <2> QED
      BY <2>1, <2>2
  <1>3. CASE DecideYolo(c)
    <2> DEFINE yolo == [reply |-> "messageResponse", src |-> "yolo", for |-> call[c].ts, id |-> None]
               r == [call |-> c, ts |-> call[c].ts, type |-> call[c].type, answer |-> yolo]
    <2>1. returned' = returned \cup {r} /\ askResponse'.id = None /\ r.answer.id = None
          /\ UNCHANGED <<queue, wire, sends>>
      BY <1>3 DEF DecideYolo, NoAnswer, webview
    <2>2. Leaves(None)
      BY <2>1, SlotLeaves
    <2> HIDE DEF r
    <2> QED
      BY <2>1, <2>2, Returns
  <1>4. CASE Poll(c)
    <2>1. UNCHANGED <<queue, wire, sends>> /\ Looks(c, askResponse)
      BY <1>4 DEF Poll, webview, Ignored, Answered, Looks
    <2> QED
      BY <2>1, SlotAnswers
  <1>5. CASE ConsumeQueued(c)
    <2>1. /\ queue # <<>> /\ queue' = Tail(queue) /\ UNCHANGED <<wire, sends, returned>>
          /\ askResponse'.id = Head(queue)
      BY <1>5 DEF ConsumeQueued, QueuedAnswer, history
    <2> QED
      BY <2>1, HeadLeaves, SlotTaken
  <1> QED
    BY <1>1, <1>2, <1>3, <1>4, <1>5 DEF AskStep

LEMMA AgentStepApart == ASSUME Typed, AtOnePlace, AgentStep PROVE AtOnePlace'
  <1>1. ASSUME NEW type \in AskTypes, NEW partial \in BOOLEAN, BeginAsk("agent", type, partial)
        PROVE  AtOnePlace'
    BY <1>1, Untouched DEF BeginAsk, NoAnswer, webview, history
  <1>2. ASSUME NEW type \in AskTypes, CompletePartial("agent", type) PROVE AtOnePlace'
    BY <1>2, Untouched DEF CompletePartial, NoAnswer, webview, history
  <1>3. CASE SayInteractive \/ SayNonInteractive \/ RunCommand \/ SkipCommand
    BY <1>3, Untouched DEF SayInteractive, SayNonInteractive, RunCommand, SkipCommand, webview, history
  <1>4. CASE ProcessQueuedMessages
    <2>1. PICK new : /\ new.id = Head(queue) /\ wire' = wire \cup {new}
                     /\ queue # <<>> /\ queue' = Tail(queue)
                     /\ UNCHANGED <<sends, returned, askResponse>>
      BY <1>4 DEF ProcessQueuedMessages, history
    <2>2. /\ Head(queue) = queue[1] /\ 1 \in DOMAIN queue /\ Shrinks(queue')
          /\ \A i \in DOMAIN queue' : queue'[i] # Head(queue)
      BY <2>1, IdsAreNumbers, TailShrinks DEF AtOnePlace
    <2>3. PICK f \in [DOMAIN queue' -> DOMAIN queue] :
            /\ \A i \in DOMAIN queue' : queue'[i] = queue[f[i]]
            /\ \A i, j \in DOMAIN queue' : f[i] = f[j] => i = j
      BY <2>2 DEF Shrinks
    <2>4. \A id : IsReturned(id)' = IsReturned(id)
      BY <2>1 DEF IsReturned
    <2>5. OnTheWay'
      BY <2>1, <2>2, <2>3, <2>4 DEF AtOnePlace, OnTheWay, InTheQueue
    <2>6. InTheQueue'
      BY <2>1, <2>3, <2>4 DEF AtOnePlace, InTheQueue
    <2>7. InTheSlot' /\ AnsweredPast'
      BY <2>1, <2>4 DEF AtOnePlace, InTheSlot, AnsweredPast, MessageAnswersOneAsk
    <2> QED
      BY <2>5, <2>6, <2>7 DEF AtOnePlace
  <1> QED
    BY <1>1, <1>2, <1>3, <1>4 DEF AgentStep

LEMMA CommandOrTimerApart == ASSUME Typed, AtOnePlace, CommandStep \/ TimerStep PROVE AtOnePlace'
  <1>1. CASE CommandOutput
    BY <1>1, Untouched DEF CommandOutput, NoAnswer, webview, history
  <1>2. CASE ContinueInBackground \/ CommandCompletes \/ CommandFallsBack
    <2>1. UNCHANGED <<queue, wire, sends, returned, askResponse>>
      BY <1>2 DEF ContinueInBackground, CommandCompletes, CommandFallsBack, webview, history
    <2> QED
      BY <2>1, Untouched
  <1>3. CASE Tick
    BY <1>3, Untouched DEF Tick, webview, history
  <1>4. ASSUME NEW ts \in Ts, FireAuto(ts) PROVE AtOnePlace'
    BY <1>4, Untouched DEF FireAuto, webview, history
  <1>5. ASSUME NEW ts \in Ts, FireStatus(ts) PROVE AtOnePlace'
    BY <1>5, Untouched DEF FireStatus, webview, history
  <1> QED
    BY <1>1, <1>2, <1>3, <1>4, <1>5 DEF CommandStep, TimerStep

LEMMA UserStepApart == ASSUME Typed, AtOnePlace, UserStep PROVE AtOnePlace'
  <1>1. ASSUME NEW kind, NEW reply, Send(kind, reply) PROVE AtOnePlace'
    <2> DEFINE new == [kind |-> kind, reply |-> reply, id |-> sends + 1,
                       for |-> IF kind = "askResponse" THEN LastTs ELSE None]
    <2>1. new.id = sends + 1 /\ wire' = wire \cup {new}
      BY <1>1 DEF Send
    <2> HIDE DEF new
    <2>2. sends' = sends + 1 /\ UNCHANGED <<queue, returned, askResponse>> /\ sends \in Nat
      BY <1>1, IdsAreNumbers DEF Send, history
    <2>3. \A id : IsReturned(id)' = IsReturned(id)
      BY <2>2 DEF IsReturned
    <2>4. \A r \in returned : r.answer.id \in Nat /\ r.answer.id <= sends
      BY BoundsAssumption DEF Typed, TypeOK, ReturnedAsk, Answer, AtOnePlace, AnsweredPast, Sends, None
    <2>5. askResponse.id \in Nat /\ askResponse.id <= sends
      BY <2>2, IdsAreNumbers, BoundsAssumption DEF AtOnePlace, InTheSlot, Sends, None
    <2>6. (\A m \in wire : m.id \in Nat) /\ \A i \in DOMAIN queue : queue[i] \in Nat
      BY IdsAreNumbers, BoundsAssumption DEF Sends
    <2>7. OnTheWay'
      BY <2>1, <2>2, <2>3, <2>4, <2>5, <2>6 DEF AtOnePlace, OnTheWay, InTheQueue, IsReturned
    <2>8. InTheQueue' /\ InTheSlot' /\ AnsweredPast'
      BY <2>2, <2>3, <2>4, <2>5, <2>6
      DEF AtOnePlace, InTheQueue, InTheSlot, AnsweredPast, MessageAnswersOneAsk
    <2> QED
      BY <2>7, <2>8 DEF AtOnePlace
  <1>2. ASSUME NEW m \in wire, HandleAskResponse(m) PROVE AtOnePlace'
    <2>1. /\ wire' = wire \ {m} /\ askResponse'.id = m.id /\ UNCHANGED <<queue, sends, returned>>
      BY <1>2 DEF HandleAskResponse, history
    <2>2. Shrinks(queue') /\ m.id \in Sends
      BY <2>1, IdsAreNumbers, SameShrinks
    <2>3. Leaves(m.id) /\ WasOut(m.id)
      BY <2>1, <2>2 DEF Leaves, WasOut, AtOnePlace, OnTheWay
    <2> QED
      BY <2>1, <2>2, <2>3, SlotTaken
  <1>3. ASSUME NEW m \in wire, HandleQueueMessage(m) PROVE AtOnePlace'
    <2>1. /\ wire' = wire \ {m} /\ queue' = Append(queue, m.id) /\ UNCHANGED <<sends, returned, askResponse>>
      BY <1>3 DEF HandleQueueMessage, history
    <2>2. /\ queue \in Seq(Sends) /\ m.id \in Sends /\ Len(queue) \in Nat
      BY IdsAreNumbers
    <2>3. /\ DOMAIN queue' = 1 .. Len(queue) + 1 /\ queue'[Len(queue) + 1] = m.id
          /\ DOMAIN queue = 1 .. Len(queue) /\ \A i \in 1 .. Len(queue) : queue'[i] = queue[i]
      BY <2>1, <2>2
    <2>4. \A i \in DOMAIN queue' : i \in DOMAIN queue \/ i = Len(queue) + 1
      BY <2>2, <2>3
    <2>5. \A id : IsReturned(id)' = IsReturned(id)
      BY <2>1 DEF IsReturned
    <2>6. OnTheWay'
      BY <2>1, <2>3, <2>4, <2>5 DEF AtOnePlace, OnTheWay
    <2>7. InTheQueue'
      BY <2>1, <2>3, <2>4, <2>5 DEF AtOnePlace, OnTheWay, InTheQueue
    <2>8. InTheSlot' /\ AnsweredPast'
      BY <2>1, <2>5 DEF AtOnePlace, InTheSlot, AnsweredPast, MessageAnswersOneAsk
    <2> QED
      BY <2>6, <2>7, <2>8 DEF AtOnePlace
  <1>4. ASSUME NEW i \in DOMAIN queue, RemoveQueued(i) PROVE AtOnePlace'
    BY <1>4, IdsAreNumbers, RemoveShrinks, NothingTaken DEF RemoveQueued, history
  <1>5. CASE CancelAutoApprovalTimeout
    BY <1>5, Untouched DEF CancelAutoApprovalTimeout, webview, history
  <1>6. CASE AbortTask
    <2>1. Shrinks(<<>>)
      <3> DEFINE f == [i \in {} |-> i]
      <3>1. DOMAIN <<>> = {}
        OBVIOUS
      <3>2. f \in [{} -> DOMAIN queue]
        OBVIOUS
      <3> QED
        BY <3>1, <3>2 DEF Shrinks
    <2> QED
      BY <1>6, <2>1, NothingTaken DEF AbortTask, history
  <1> QED
    BY <1>1, <1>2, <1>3, <1>4, <1>5, <1>6 DEF UserStep

LEMMA InitApart == Init => AtOnePlace
  BY DEF Init, AtOnePlace, OnTheWay, InTheQueue, InTheSlot, AnsweredPast, MessageAnswersOneAsk, NoAnswer, None

LEMMA StepApart == Typed /\ AtOnePlace /\ [Next]_vars => AtOnePlace'
  <1> SUFFICES ASSUME Typed, AtOnePlace, [Next]_vars PROVE AtOnePlace'
    OBVIOUS
  <1>1. CASE UNCHANGED vars
    BY <1>1, Untouched DEF vars
  <1> QED
    BY <1>1, AskStepApart, AgentStepApart, CommandOrTimerApart, UserStepApart DEF Next

\* A message of the user never answers two questions, whether it goes to the
\* slot directly, waits in the queue, is edited there and sent again, or is
\* taken when the settings have already decided.
THEOREM MessageSafe == Spec => []MessageAnswersOneAsk
  <1>1. Typed /\ [Next]_vars => Typed'
    BY StepTyped
  <1>2. AtOnePlace => MessageAnswersOneAsk
    BY DEF AtOnePlace, AnsweredPast
  <1> QED
    BY InitTyped, InitApart, <1>1, StepApart, <1>2, PTL DEF Spec

-----------------------------------------------------------------------------
(* That nothing automatic replaces the answer of the user, as long as no       *)
(* terminal command has run.  Until then the agent is the only one who asks,   *)
(* its question is not superseded before it has an answer, and a pending       *)
(* auto-approval timer is that question's own and within the task's reach.     *)

NoCommandYet == command.pc = "none"

\* Nobody asks beside the agent.
AgentAlone == call["output"].pc = "idle"

\* The question of the agent is the current one until its call ends.
AgentIsCurrent == Asking("agent") => call["agent"].ts = lastMessageTs

\* A pending timer is that of the question the agent waits for, and the one the
\* task can cancel.
TimerIsOwn ==
    autoTimers # {} => /\ call["agent"].pc = "wait"
                       /\ autoTimers = {call["agent"].ts}
                       /\ autoApprovalTimeoutRef = call["agent"].ts

\* The answer of the user has stopped it.
AnswerStopsTimer ==
    askResponse.src = "user" /\ call["agent"].pc = "wait" => autoTimers = {}

TimersInv ==
    NoCommandYet => AgentAlone /\ AgentIsCurrent /\ TimerIsOwn /\ AnswerStopsTimer

\* A command that has run has run.
CommandStays == command'.pc = "none" => command.pc = "none"

USE DEF NoCommandYet

LEMMA InitTimers == Init => TimersInv
  BY DEF Init, TimersInv, AgentAlone, AgentIsCurrent, TimerIsOwn, AnswerStopsTimer, Asking, Calls

LEMMA CallTyped ==
    ASSUME TypeOK
    PROVE  /\ call \in [Calls -> CallState] /\ "agent" \in Calls /\ "output" \in Calls
           /\ \A c \in Calls : c = "agent" \/ c = "output"
  BY DEF TypeOK, Calls

LEMMA NoAnswerIsNobodys == NoAnswer.src # "user"
  BY DEF NoAnswer

\* Nothing of what the invariant is about changes.
LEMMA SameTimers ==
    ASSUME TimersInv, CommandStays,
           UNCHANGED <<call, lastMessageTs, autoTimers, autoApprovalTimeoutRef, askResponse>>
    PROVE  TimersInv'
  BY DEF TimersInv, CommandStays, AgentAlone, AgentIsCurrent, TimerIsOwn, AnswerStopsTimer, Asking

\* The agent has no question: no timer is pending, and none is started.
LEMMA FreeAgent ==
    ASSUME TimersInv, CommandStays,
           NoCommandYet =>
             /\ call'["output"] = call["output"]
             /\ call["agent"].pc # "wait" /\ call'["agent"].pc # "wait"
             /\ Asking("agent")' => call'["agent"].ts = lastMessageTs'
             /\ autoTimers' \subseteq autoTimers
    PROVE  TimersInv'
  BY DEF TimersInv, CommandStays, AgentAlone, AgentIsCurrent, TimerIsOwn, AnswerStopsTimer

\* The pending timer is cancelled, whoever asks.
LEMMA Cancelled ==
    ASSUME TimersInv, UNCHANGED <<call, lastMessageTs, command>>,
           NoCommandYet => autoTimers' = {}
    PROVE  TimersInv'
  BY DEF TimersInv, AgentAlone, AgentIsCurrent, TimerIsOwn, AnswerStopsTimer, Asking

LEMMA CancelReaches ==
    ASSUME TimersInv, NoCommandYet
    PROVE  CancelReachable(autoTimers, autoApprovalTimeoutRef) = {}
  BY DEF TimersInv, TimerIsOwn, CancelReachable

\* Without a command only the agent is in ask(), and its question stands.
LEMMA OnlyAgentAsks ==
    ASSUME TypeOK, TimersInv, NoCommandYet, NEW c \in Calls, call[c].pc # "idle"
    PROVE  c = "agent" /\ (Asking(c) => ~Superseded(c))
  BY CallTyped DEF TimersInv, AgentAlone, AgentIsCurrent, Superseded

-----------------------------------------------------------------------------
(* The steps                                                                   *)

LEMMA DecideTimers ==
    ASSUME TypeOK, TimersInv, NEW c \in Calls,
           NEW d \in {"ask", "approve", "deny", "timeout"}, Decide(c, d), CommandStays
    PROVE  TimersInv'
<1> SUFFICES ASSUME command'.pc = "none" PROVE TimersInv'
  BY DEF TimersInv
<1>0. NoCommandYet
  BY DEF CommandStays
<1>1. c = "agent" /\ ~Superseded(c) /\ call["agent"].pc = "decide"
  BY <1>0, OnlyAgentAsks DEF Decide, Asking
<1>2. autoTimers = {} /\ call["output"].pc = "idle"
  BY <1>0, <1>1 DEF TimersInv, TimerIsOwn, AgentAlone
<1> DEFINE ts == call["agent"].ts
<1>3. PICK answer, pending, ref :
        /\ \/ Answered("agent", answer, pending, ref)
           \/ Blocks("agent", answer, d, pending, ref)
        /\ pending \subseteq {ts} /\ (pending # {} => ref = ts)
        /\ UNCHANGED lastMessageTs
  BY <1>1, <1>2 DEF Decide, Ignored, CancelReachable
<1>4. CASE Answered("agent", answer, pending, ref)
  <2>1. /\ autoTimers' = {} /\ call'["agent"].pc \in {"idle", "approved"}
        /\ call'["output"] = call["output"]
    BY <1>3, <1>4, CallTyped DEF Answered, ActOnAnswer, Idle
  <2> QED
    BY <1>2, <2>1 DEF TimersInv, AgentAlone, AgentIsCurrent, TimerIsOwn, AnswerStopsTimer, Asking
<1>5. CASE Blocks("agent", answer, d, pending, ref)
  <2>1. /\ call'["agent"].pc = "wait" /\ call'["agent"].ts = ts
        /\ call'["output"] = call["output"]
        /\ autoTimers' = pending /\ autoApprovalTimeoutRef' = ref
        /\ askResponse' = NoAnswer
    BY <1>5, CallTyped DEF Blocks, CallState
  <2>2. call'["agent"].ts = lastMessageTs'
    BY <1>1, <1>3, <2>1 DEF Superseded
  <2> QED
    BY <1>2, <1>3, <2>1, <2>2, NoAnswerIsNobodys
       DEF TimersInv, AgentAlone, AgentIsCurrent, TimerIsOwn, AnswerStopsTimer
<1> QED
  BY <1>3, <1>4, <1>5

LEMMA AskStepTimers ==
    ASSUME TypeOK, TimersInv, NEW c \in Calls, AskStep(c), CommandStays
    PROVE  TimersInv'
<1> SUFFICES ASSUME command'.pc = "none" PROVE TimersInv'
  BY DEF TimersInv
<1>0. NoCommandYet
  BY DEF CommandStays
<1>1. c = "agent"
  BY <1>0, OnlyAgentAsks DEF AskStep, Stamp, Decide, DecideYolo, Poll, ConsumeQueued
<1>2. CASE Stamp(c)
  <2>1. /\ call["agent"].pc = "stamp" /\ call'["output"] = call["output"]
        /\ call'["agent"].pc \in {"idle", "decide"}
        /\ call'["agent"].pc = "decide" => call'["agent"].ts = lastMessageTs'
        /\ autoTimers' = autoTimers
    BY <1>1, <1>2, CallTyped DEF Stamp, Idle, CallState, timers
  <2> QED
    BY <2>1, FreeAgent DEF Asking
<1>3. CASE \E d \in {"ask", "approve", "deny", "timeout"} : Decide(c, d)
  BY <1>3, DecideTimers
<1>4. CASE DecideYolo(c)
  <2>1. /\ call["agent"].pc = "decide" /\ call'["output"] = call["output"]
        /\ call'["agent"].pc = "idle" /\ autoTimers' \subseteq autoTimers
    BY <1>1, <1>4, CallTyped DEF DecideYolo, Idle, CancelReachable
  <2> QED
    BY <2>1, FreeAgent DEF Asking
<1>5. CASE Poll(c)
  <2>1. call["agent"].pc = "wait" /\ ~Superseded("agent")
    BY <1>0, <1>1, <1>5, OnlyAgentAsks DEF Poll, Asking
  <2>2. Answered("agent", askResponse, autoTimers, autoApprovalTimeoutRef)
    BY <1>1, <1>5, <2>1 DEF Poll, Ignored
  <2>3. /\ autoTimers' = {} /\ call'["agent"].pc \in {"idle", "approved"}
        /\ call'["output"] = call["output"]
    BY <1>0, <2>2, CallTyped DEF Answered, ActOnAnswer, Idle, TimersInv, TimerIsOwn
  <2> QED
    BY <1>0, <2>3 DEF TimersInv, AgentAlone, AgentIsCurrent, TimerIsOwn, AnswerStopsTimer, Asking
<1>6. CASE ConsumeQueued(c)
  BY <1>0, <1>6, CancelReaches, Cancelled DEF ConsumeQueued
<1> QED
  BY <1>2, <1>3, <1>4, <1>5, <1>6 DEF AskStep

LEMMA AgentStepTimers ==
    ASSUME TypeOK, TimersInv, AgentStep, CommandStays
    PROVE  TimersInv'
<1>1. CASE \E type \in AskTypes, partial \in BOOLEAN : BeginAsk("agent", type, partial)
  <2>1. /\ call["agent"].pc = "idle" /\ call'["agent"].pc = "stamp"
        /\ call'["output"] = call["output"] /\ autoTimers' = autoTimers
    BY <1>1, CallTyped DEF BeginAsk, timers
  <2> QED
    BY <2>1, FreeAgent DEF Asking
<1>2. CASE \E type \in AskTypes : CompletePartial("agent", type)
  <2>1. /\ call["agent"].pc = "idle" /\ call'["agent"].pc = "decide"
        /\ call'["agent"].ts = lastMessageTs'
        /\ call'["output"] = call["output"] /\ autoTimers' = autoTimers
    BY <1>2, CallTyped DEF CompletePartial, timers
  <2> QED
    BY <2>1, FreeAgent
<1>3. CASE SayInteractive
  BY <1>3, FreeAgent DEF SayInteractive, Asking, timers
<1>4. CASE SayNonInteractive \/ ProcessQueuedMessages
  BY <1>4, SameTimers DEF SayNonInteractive, ProcessQueuedMessages, timers
<1>5. CASE RunCommand
  BY <1>5 DEF RunCommand, TimersInv
<1>6. CASE SkipCommand
  <2>1. /\ call["agent"].pc = "approved" /\ call'["agent"].pc = "idle"
        /\ call'["output"] = call["output"] /\ autoTimers' = autoTimers
    BY <1>6, CallTyped DEF SkipCommand, Idle, timers
  <2> QED
    BY <2>1, FreeAgent DEF Asking
<1> QED
  BY <1>1, <1>2, <1>3, <1>4, <1>5, <1>6 DEF AgentStep

LEMMA OtherStepsTimers ==
    ASSUME TypeOK, TimersInv, CommandStep \/ TimerStep \/ UserStep, CommandStays
    PROVE  TimersInv'
<1>1. CASE CommandStep
  BY <1>1 DEF CommandStep, CommandOutput, ContinueInBackground, CommandCompletes,
              CommandFallsBack, TypeOK, CommandStays, TimersInv
<1>2. CASE Tick \/ \E ts \in Ts : FireStatus(ts)
  BY <1>2, SameTimers DEF Tick, FireStatus, timers
<1>3. ASSUME NEW ts \in Ts, FireAuto(ts) PROVE TimersInv'
  <2>1. NoCommandYet => autoTimers' = {}
    BY <1>3 DEF FireAuto, CancelReachable, TimersInv, TimerIsOwn
  <2> QED
    BY <1>3, <2>1, Cancelled DEF FireAuto
<1>4. ASSUME NEW m, HandleAskResponse(m) PROVE TimersInv'
  BY <1>4, CancelReaches, Cancelled DEF HandleAskResponse
<1>5. CASE CancelAutoApprovalTimeout
  BY <1>5, CancelReaches, Cancelled DEF CancelAutoApprovalTimeout
<1>6. ASSUME NEW kind, NEW reply, Send(kind, reply) PROVE TimersInv'
  BY <1>6, SameTimers DEF Send, timers
<1>7. ASSUME NEW m, HandleQueueMessage(m) PROVE TimersInv'
  BY <1>7, SameTimers DEF HandleQueueMessage, timers
<1>8. ASSUME NEW i, RemoveQueued(i) PROVE TimersInv'
  BY <1>8, SameTimers DEF RemoveQueued, timers
<1>9. CASE AbortTask
  BY <1>9, SameTimers DEF AbortTask, timers
<1>10. CASE TimerStep
  BY <1>2, <1>3, <1>10 DEF TimerStep
<1>11. CASE UserStep
  BY <1>4, <1>5, <1>6, <1>7, <1>8, <1>9, <1>11 DEF UserStep
<1> QED
  BY <1>1, <1>10, <1>11

\* A command that was started is never forgotten.
LEMMA CommandStarted == TypeOK /\ [Next]_vars => CommandStays
<1> SUFFICES ASSUME TypeOK, [Next]_vars PROVE CommandStays
  OBVIOUS
<1>1. command = [pc |-> command.pc, asked |-> command.asked]
  BY DEF TypeOK
<1>2. ASSUME NEW c \in Calls, AskStep(c) PROVE CommandStays
  <2>1. ASSUME NEW answer, NEW auto, NEW ref, Answered(c, answer, auto, ref)
        PROVE  CommandStays
    BY <1>1, <2>1 DEF CommandStays, Answered, ActOnAnswer
  <2>2. CASE \E d \in {"ask", "approve", "deny", "timeout"} : Decide(c, d)
    BY <2>1, <2>2 DEF Decide, Ignored, Blocks, CommandStays
  <2>3. CASE Poll(c)
    BY <2>1, <2>3 DEF Poll, Ignored, CommandStays
  <2>4. CASE Stamp(c) \/ DecideYolo(c) \/ ConsumeQueued(c)
    BY <2>4 DEF Stamp, DecideYolo, ConsumeQueued, CommandStays
  <2> QED
    BY <1>2, <2>2, <2>3, <2>4 DEF AskStep
<1>3. CASE AgentStep
  <2>1. CASE RunCommand
    BY <2>1 DEF CommandStays, RunCommand
  <2>2. CASE \E type \in AskTypes : \/ \E partial \in BOOLEAN : BeginAsk("agent", type, partial)
                                   \/ CompletePartial("agent", type)
    BY <2>2 DEF CommandStays, BeginAsk, CompletePartial
  <2>3. CASE SayInteractive \/ SayNonInteractive \/ ProcessQueuedMessages \/ SkipCommand
    BY <2>3 DEF CommandStays, SayInteractive, SayNonInteractive, ProcessQueuedMessages,
         SkipCommand
  <2> QED
    BY <1>3, <2>1, <2>2, <2>3 DEF AgentStep
<1>4. CASE CommandStep
  BY <1>1, <1>4 DEF CommandStays, CommandStep, CommandOutput, ContinueInBackground,
       CommandCompletes, CommandFallsBack
<1>5. CASE TimerStep
  BY <1>5 DEF CommandStays, TimerStep, Tick, FireAuto, FireStatus
<1>6. CASE UserStep
  BY <1>6 DEF CommandStays, UserStep, Send, HandleAskResponse, HandleQueueMessage,
       RemoveQueued, CancelAutoApprovalTimeout, AbortTask
<1>7. CASE UNCHANGED vars
  BY <1>7 DEF CommandStays, vars
<1> QED
  BY <1>2, <1>3, <1>4, <1>5, <1>6, <1>7 DEF Next

LEMMA TimersKept == TypeOK /\ TimersInv /\ [Next]_vars => TimersInv'
<1> SUFFICES ASSUME TypeOK, TimersInv, [Next]_vars PROVE TimersInv'
  OBVIOUS
<1>1. CommandStays
  BY CommandStarted
<1>2. CASE UNCHANGED vars
  BY <1>1, <1>2, SameTimers DEF vars
<1> QED
  BY <1>1, <1>2, AskStepTimers, AgentStepTimers, OtherStepsTimers DEF Next

-----------------------------------------------------------------------------
(* The property                                                                *)

\* What UserAnswerStands says of one step.
StandsInStep ==
    \A c \in Calls :
       /\ command.pc = "none"
       /\ call[c].pc = "wait" /\ ~Superseded(c)
       /\ askResponse.src = "user" /\ call'[c] = call[c]
       => askResponse'.src = "user"

LEMMA AnswerStands == TypeOK /\ TimersInv /\ [Next]_vars => StandsInStep
<1> SUFFICES ASSUME TypeOK, TimersInv, [Next]_vars, NEW c \in Calls, NoCommandYet,
                    call[c].pc = "wait", askResponse.src = "user", call'[c] = call[c]
             PROVE  askResponse'.src = "user"
  BY DEF StandsInStep
<1>1. /\ c = "agent" /\ autoTimers = {} /\ askResponse # NoAnswer
      /\ call["agent"].pc = "wait" /\ call["output"].pc = "idle" /\ ~Superseded("agent")
  BY OnlyAgentAsks, NoAnswerIsNobodys DEF TimersInv, AnswerStopsTimer, AgentAlone, Asking
<1>2. ASSUME NEW d \in Calls, AskStep(d) PROVE FALSE
  <2>1. d = "agent" /\ Poll("agent")
    BY <1>1, <1>2, OnlyAgentAsks
       DEF AskStep, Stamp, Decide, DecideYolo, Poll, ConsumeQueued
  <2>2. Answered("agent", askResponse, autoTimers, autoApprovalTimeoutRef)
    BY <1>1, <2>1 DEF Poll, Ignored
  <2>3. call'["agent"].pc \in {"idle", "approved"}
    BY <2>2, CallTyped DEF Answered, ActOnAnswer, Idle
  <2> QED
    BY <1>1, <2>3
<1>3. CASE AgentStep
  BY <1>1, <1>3 DEF AgentStep, BeginAsk, CompletePartial, SayInteractive,
       SayNonInteractive, ProcessQueuedMessages, RunCommand, SkipCommand
<1>4. CASE CommandStep
  BY <1>4 DEF CommandStep, CommandOutput, ContinueInBackground, CommandCompletes,
       CommandFallsBack
<1>5. CASE TimerStep
  BY <1>1, <1>5 DEF TimerStep, Tick, FireAuto, FireStatus
<1>6. CASE UserStep
  BY <1>6 DEF UserStep, Send, HandleAskResponse, HandleQueueMessage, RemoveQueued,
       CancelAutoApprovalTimeout, AbortTask
<1>7. CASE UNCHANGED vars
  BY <1>7 DEF vars
<1> QED
  BY <1>2, <1>3, <1>4, <1>5, <1>6, <1>7 DEF Next

\* Once the user has answered the question that waits, nothing automatic
\* replaces the answer, as long as no command has run: for any kinds of
\* question, any number of questions and any number of messages.
THEOREM AnswerSafe == Spec => UserAnswerStands
<1>1. Spec => []TypeOK
  BY TypeCorrect
<1>2. TypeOK /\ TimersInv /\ [Next]_vars => TimersInv' /\ StandsInStep
  BY TimersKept, AnswerStands
<1>3. Spec => [][StandsInStep]_vars
  BY <1>1, <1>2, InitTimers, PTL DEF Spec
<1> QED
  BY <1>3 DEF UserAnswerStands, StandsInStep
=============================================================================
