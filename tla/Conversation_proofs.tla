------------------------- MODULE Conversation_proofs -------------------------
(* What is proved of the conversation of a task, for any number of tokens,   *)
(* messages, calls, failures, empty responses and closes.  In the order of   *)
(* the module:                                                               *)
(*   - WellFormed, the types with the form of a conversation: what a user    *)
(*     message answers, which calls the response has and where the request   *)
(*     loop may stand: TypeCorrect;                                          *)
(*   - InTurn, that in a task which delegates nothing roles alternate and    *)
(*     the item is what comes next: RolesInTurn and AnsweredInTurn;          *)
(*   - Complete, that what the task was told is in the history, or in the    *)
(*     item that goes there next: NothingIsLost.                             *)
(* FlushedInFull, about the results saved before a delegation, is from       *)
(* WellFormed alone.                                                         *)
(* What AddUserMessage does to a content is proved in OperatorLemmas; the    *)
(* last part states it of MCToolResults, where the content is any sequence   *)
(* of blocks: ExactlyAnswered and AnswersKept.                               *)
EXTENDS Conversation, MCToolResults, OperatorLemmas, FiniteSetTheorems

-----------------------------------------------------------------------------
(* The inductive invariant *)

\* The tool_use blocks of the assistant message that the response becomes.
CallBlocks == IF native THEN [i \in DOMAIN called |-> Block(called[i], NoNews)] ELSE <<>>

\* The calls of a response are different ones; results answer those that have
\* ended, once each.
CallsOK ==
    /\ \A i, j \in DOMAIN called : called[i] = called[j] => i = j
    /\ \A i \in DOMAIN called : called[i] < clock
    /\ CallsIn(results) \subseteq IF native THEN {called[i] : i \in 1 .. answered} ELSE {}
    /\ OnePerCall(results)
    /\ flushed => answered < Len(called) /\ called[answered + 1] \in spawns

CallsOnly(content) == \A i \in DOMAIN content : content[i].call # NoCall

\* m may follow h: an assistant message has calls with ids of their own, none
\* under the XML protocol; a user message has been checked.
MessageFits(byId, h, m) ==
    IF m.role = "assistant"
    THEN CallsOnly(m.content) /\ OnePerCall(m.content) /\ (~byId => m.content = <<>>)
    ELSE LastCalls(h) # <<>> => /\ CallsIn(m.content) = CallsIn(LastCalls(h))
                                /\ OnePerCall(m.content)

\* The whole of h is well formed; byId when the protocol is the native one.
HistoryOK(byId, h) == \A i \in DOMAIN h : MessageFits(byId, SubSeq(h, 1, i - 1), h[i])

\* What goes with each place of the request loop.
PlaceOK ==
    /\ mistaken => mistakeLimit /\ pc = "start"
    /\ flushed => pc \in {"stream", "tools"}
    /\ pc = "tools" /\ ~flushed => history # <<>> /\ Last(history) = Assistant(CallBlocks)
    /\ pc = "decide" => empties > 0 /\ ~autoApproval
    /\ reporting # NoCall => pc = "closed" /\ reporting \in AllTokens(disk)

WellFormed ==
    /\ TypeOK /\ CallsOK /\ PlaceOK
    /\ HistoryOK(native, history) /\ HistoryOK(native, disk)

\* The task has delegated nothing, and empty responses were retried at once.
Plain == spawns = {} /\ (empties > 0 => autoApproval /\ native)

Alternates(h) == \A i \in 1 .. Len(h) - 1 : h[i].role # h[i + 1].role
AnswersFollow(h) ==
    \A i \in 1 .. Len(h) - 1 :
       h[i].role = "assistant" => CallsIn(h[i + 1].content) \subseteq CallsIn(h[i].content)

\* The item answers nothing that the last message of h has not called.
Follows(h) == LastRole(h) = "assistant" => CallsIn(item.content) \subseteq CallsIn(Last(h).content)

\* In a plain task roles alternate, and the item is what comes next, or has come.
InTurn ==
    Plain =>
       /\ Alternates(history) /\ Alternates(disk)
       /\ AnswersFollow(history) /\ AnswersFollow(disk)
       /\ pc = "start" => item.attempt # "resumed"
       /\ pc = "start" /\ AddsUserMessage => LastRole(history) # "user" /\ Follows(history)
       /\ pc = "stream" \/ (pc = "start" /\ ~AddsUserMessage)
            => LastRole(history) = "user" /\ Follows(Front(history))

\* Under what NothingLost promises it.
Kept ==
    /\ empties > 0 => autoApproval /\ spawns = {}
    /\ mistakeLimit => failures = 0
    /\ ~flushed

\* With the item, h has everything that the task was told, and the item enters
\* h as it is.
Completes(h) ==
    /\ told \subseteq AllTokens(h) \cup TokensOf(item.content)
    /\ LastCalls(h) # <<>> => /\ CallsIn(item.content) \subseteq CallsIn(LastCalls(h))
                              /\ OnePerCall(item.content)

\* Everything is in the history, or in the item while that is not.
Complete ==
    Kept =>
       /\ pc = "start" /\ AddsUserMessage => Completes(history)
       /\ pc = "start" /\ ~AddsUserMessage => told \subseteq AllTokens(history) /\ ~mistaken
       /\ pc \in {"stream", "tools"} => told \subseteq AllTokens(history)
       /\ pc = "stream" \/ (pc = "start" /\ ~AddsUserMessage)
            => (spawns = {} /\ native => Completes(Front(history)))

-----------------------------------------------------------------------------
(* Conversations *)

\* A sequence that is not empty is its last element after the others.
LEMMA FrontLast ==
    ASSUME NEW S, NEW h \in Seq(S), h # <<>>
    PROVE  /\ Front(h) \in Seq(S) /\ Last(h) \in S
           /\ h = Append(Front(h), Last(h))
           /\ Len(Front(h)) = Len(h) - 1
  <1>1. Len(h) \in Nat /\ Len(h) >= 1
    OBVIOUS
  <1>2. Front(h) = SubSeq(h, 1, Len(h) - 1) /\ Last(h) = h[Len(h)]
    BY DEF Front, Last
  <1>3. h = Append(SubSeq(h, 1, Len(h) - 1), h[Len(h)])
    BY <1>1
  <1>4. SubSeq(h, 1, Len(h) - 1) \in Seq(S) /\ Len(SubSeq(h, 1, Len(h) - 1)) = Len(h) - 1
    <2> DEFINE n == Len(h) - 1
    <2>1. n \in Nat /\ Len(h) = n + 1
      BY <1>1
    <2> HIDE DEF n
    <2>2. SubSeq(h, 1, n) \in Seq(S) /\ Len(SubSeq(h, 1, n)) = n
      BY <2>1
    <2> QED
      BY <2>2 DEF n
  <1>5. h[Len(h)] \in S
    BY <1>1
  <1> QED
    BY <1>2, <1>3, <1>4, <1>5

\* The others of a sequence that an element was appended to,
LEMMA FrontAppend ==
    ASSUME NEW S, NEW h \in Seq(S), NEW m \in S
    PROVE  /\ Front(Append(h, m)) = h /\ Last(Append(h, m)) = m
           /\ Append(h, m) \in Seq(S) /\ Append(h, m) # <<>>
           /\ LastRole(Append(h, m)) = m.role
  <1>1. Len(Append(h, m)) = Len(h) + 1 /\ Len(h) \in Nat
    OBVIOUS
  <1>2. Append(h, m)[Len(h) + 1] = m /\ SubSeq(Append(h, m), 1, Len(h)) = h
    OBVIOUS
  <1>3. Len(h) + 1 - 1 = Len(h)
    BY <1>1
  <1>4. Append(h, m) # <<>>
    OBVIOUS
  <1> QED
    BY <1>1, <1>2, <1>3, <1>4 DEF Front, Last, LastRole

\* its indexes, and what is before each.
LEMMA AppendIndexes ==
    ASSUME NEW S, NEW h \in Seq(S), NEW m \in S
    PROVE  /\ Len(h) \in Nat /\ DOMAIN h = 1 .. Len(h)
           /\ DOMAIN Append(h, m) = 1 .. Len(h) + 1 /\ Len(Append(h, m)) = Len(h) + 1
           /\ \A i \in 1 .. Len(h) : /\ Append(h, m)[i] = h[i]
                                     /\ SubSeq(Append(h, m), 1, i - 1) = SubSeq(h, 1, i - 1)
           /\ Append(h, m)[Len(h) + 1] = m
           /\ SubSeq(Append(h, m), 1, Len(h)) = h
           /\ \A i \in 1 .. Len(h) + 1 : i \in 1 .. Len(h) \/ i = Len(h) + 1
           /\ \A i \in 1 .. Len(h) : i \in 1 .. Len(h) + 1
  <1>1. /\ Len(h) \in Nat /\ DOMAIN h = 1 .. Len(h)
        /\ DOMAIN Append(h, m) = 1 .. Len(h) + 1 /\ Len(Append(h, m)) = Len(h) + 1
    OBVIOUS
  <1>2. /\ Append(h, m)[Len(h) + 1] = m
        /\ \A i \in 1 .. Len(h) : Append(h, m)[i] = h[i]
    OBVIOUS
  <1>3. SubSeq(Append(h, m), 1, Len(h)) = h
    OBVIOUS
  <1>4. \A i \in 1 .. Len(h) : SubSeq(Append(h, m), 1, i - 1) = SubSeq(h, 1, i - 1)
    <2> SUFFICES ASSUME NEW i \in 1 .. Len(h)
                 PROVE  SubSeq(Append(h, m), 1, i - 1) = SubSeq(h, 1, i - 1)
      OBVIOUS
    <2>1. i - 1 \in Nat /\ i - 1 <= Len(h)
      BY <1>1
    <2> QED
      BY <2>1
  <1>5. \A i \in 1 .. Len(h) + 1 : i \in 1 .. Len(h) \/ i = Len(h) + 1
    BY <1>1
  <1>6. \A i \in 1 .. Len(h) : i \in 1 .. Len(h) + 1
    BY <1>1
  <1> QED
    BY <1>1, <1>2, <1>3, <1>4, <1>5, <1>6

\* The calls that a message is checked against: none in the empty conversation,
\* those of an assistant message after it, and the same after a user message.
LEMMA LastCallsEmpty ==
    LastCalls(<<>>) = <<>>
  BY DEF LastCalls

\* Those of a conversation with one more message.
LEMMA LastCallsAppend ==
    ASSUME NEW h \in Seq(Messages), NEW m \in Messages
    PROVE  LastCalls(Append(h, m)) = IF m.role = "assistant" THEN m.content ELSE LastCalls(h)
  <1> DEFINE r == Append(h, m)
             n == Len(h)
             As == {i \in DOMAIN h : h[i].role = "assistant"}
             Bs == {i \in DOMAIN r : r[i].role = "assistant"}
  <1>1. /\ n \in Nat /\ DOMAIN h = 1 .. n /\ DOMAIN r = 1 .. n + 1
        /\ \A i \in 1 .. n : r[i] = h[i]
        /\ r[n + 1] = m
        /\ \A i \in 1 .. n + 1 : i \in 1 .. n \/ i = n + 1
        /\ \A i \in 1 .. n : i \in 1 .. n + 1
    BY AppendIndexes
  <1>2. LastCalls(r) = IF Bs = {} THEN <<>> ELSE r[Max(Bs)].content
    BY DEF LastCalls
  <1>3. LastCalls(h) = IF As = {} THEN <<>> ELSE h[Max(As)].content
    BY DEF LastCalls
  <1> HIDE DEF r, n
  <1>4. CASE m.role = "assistant"
    <2>1. Bs \subseteq 1 .. n + 1 /\ n + 1 \in Bs
      BY <1>1, <1>4
    <2> HIDE DEF Bs
    <2>2. Max(Bs) = n + 1
      BY <1>1, <2>1, MaxTop
    <2> QED
      BY <1>1, <1>2, <1>4, <2>1, <2>2 DEF r
  <1>5. CASE m.role # "assistant"
    <2>1. As = Bs
      BY <1>1, <1>5
    <2>2. As \subseteq 1 .. n
      BY <1>1
    <2> HIDE DEF As, Bs
    <2>3. As # {} => Max(As) \in As
      BY <1>1, <2>2, MaxIn
    <2> QED
      BY <1>1, <1>2, <1>3, <1>5, <2>1, <2>2, <2>3 DEF r
  <1> QED
    BY <1>4, <1>5

\* The tokens of a conversation with one more message.
LEMMA AllTokensAppend ==
    ASSUME NEW h \in Seq(Messages), NEW m \in Messages
    PROVE  AllTokens(Append(h, m))
             = AllTokens(h) \cup (IF m.role = "user" THEN TokensOf(m.content) ELSE {})
  <1> DEFINE r == Append(h, m)
             n == Len(h)
  <1>1. /\ n \in Nat /\ DOMAIN h = 1 .. n /\ DOMAIN r = 1 .. n + 1
        /\ \A i \in 1 .. n : r[i] = h[i]
        /\ r[n + 1] = m
        /\ \A i \in 1 .. n + 1 : i \in 1 .. n \/ i = n + 1
        /\ \A i \in 1 .. n : i \in 1 .. n + 1
        /\ n + 1 \in 1 .. n + 1
    BY AppendIndexes
  <1> HIDE DEF r, n
  <1>2. AllTokens(r) \subseteq AllTokens(h) \cup (IF m.role = "user" THEN TokensOf(m.content) ELSE {})
    <2> SUFFICES ASSUME NEW t \in AllTokens(r)
                 PROVE  t \in AllTokens(h) \cup (IF m.role = "user" THEN TokensOf(m.content) ELSE {})
      OBVIOUS
    <2>1. PICK i \in 1 .. n + 1 : r[i].role = "user" /\ t \in TokensOf(r[i].content)
      BY <1>1 DEF AllTokens
    <2>2. CASE i \in 1 .. n
      BY <1>1, <2>1, <2>2 DEF AllTokens
    <2>3. CASE i = n + 1
      BY <1>1, <2>1, <2>3
    <2> QED
      BY <1>1, <2>2, <2>3
  <1>3. AllTokens(h) \subseteq AllTokens(r)
    BY <1>1 DEF AllTokens
  <1>4. m.role = "user" => TokensOf(m.content) \subseteq AllTokens(r)
    BY <1>1 DEF AllTokens
  <1> QED
    BY <1>2, <1>3, <1>4 DEF r

\* A conversation stays well formed with one more message that fits,
LEMMA HistoryAppend ==
    ASSUME NEW byId, NEW h \in Seq(Messages), NEW m \in Messages, HistoryOK(byId, h), MessageFits(byId, h, m)
    PROVE  HistoryOK(byId, Append(h, m))
  <1> DEFINE r == Append(h, m)
             n == Len(h)
  <1>1. /\ n \in Nat /\ DOMAIN h = 1 .. n /\ DOMAIN r = 1 .. n + 1
        /\ \A i \in 1 .. n : r[i] = h[i] /\ SubSeq(r, 1, i - 1) = SubSeq(h, 1, i - 1)
        /\ r[n + 1] = m /\ SubSeq(r, 1, n) = h
        /\ \A i \in 1 .. n + 1 : i \in 1 .. n \/ i = n + 1
    BY AppendIndexes
  <1> HIDE DEF r, n
  <1>2. \A i \in 1 .. n : MessageFits(byId, SubSeq(r, 1, i - 1), r[i])
    BY <1>1 DEF HistoryOK
  <1> DEFINE F(i) == MessageFits(byId, SubSeq(r, 1, i - 1), r[i])
             k == n + 1
  <1>3. k - 1 = n /\ r[k] = m
    BY <1>1
  <1>4. \A i \in 1 .. k : i \in 1 .. n \/ i = k
    BY <1>1
  <1>5. DOMAIN r = 1 .. k
    BY <1>1
  <1> HIDE DEF k
  <1>6. F(k)
    BY <1>1, <1>3
  <1>7. \A i \in DOMAIN r : F(i)
    BY <1>2, <1>4, <1>5, <1>6
  <1> QED
    BY <1>7 DEF HistoryOK, r

\* and without its last message, which fits.
LEMMA HistoryFront ==
    ASSUME NEW byId, NEW h \in Seq(Messages), NEW m \in Messages, HistoryOK(byId, Append(h, m))
    PROVE  HistoryOK(byId, h) /\ MessageFits(byId, h, m)
  <1> DEFINE r == Append(h, m)
             n == Len(h)
  <1>1. /\ n \in Nat /\ DOMAIN h = 1 .. n /\ DOMAIN r = 1 .. n + 1
        /\ \A i \in 1 .. n : r[i] = h[i] /\ SubSeq(r, 1, i - 1) = SubSeq(h, 1, i - 1)
        /\ r[n + 1] = m /\ SubSeq(r, 1, n) = h
        /\ \A i \in 1 .. n : i \in 1 .. n + 1
    BY AppendIndexes
  <1>2. n + 1 \in 1 .. n + 1
    BY <1>1
  <1> DEFINE F(i) == MessageFits(byId, SubSeq(r, 1, i - 1), r[i])
  <1>3. \A i \in DOMAIN r : F(i)
    BY DEF HistoryOK
  <1> HIDE DEF r, n
  <1>4. HistoryOK(byId, h)
    BY <1>1, <1>3 DEF HistoryOK
  <1> DEFINE k == n + 1
  <1>5. k - 1 = n /\ r[k] = m /\ k \in DOMAIN r
    BY <1>1, <1>2
  <1> HIDE DEF k
  <1>6. F(k)
    BY <1>3, <1>5
  <1>7. MessageFits(byId, h, m)
    BY <1>1, <1>5, <1>6
  <1> QED
    BY <1>4, <1>7

\* The empty conversation is well formed.
LEMMA HistoryEmpty ==
    ASSUME NEW byId
    PROVE  HistoryOK(byId, <<>>)
  BY DEF HistoryOK

\* The calls a message is checked against are blocks with ids of their own.
LEMMA LastCallsOK ==
    ASSUME NEW byId, NEW h \in Seq(Messages), HistoryOK(byId, h)
    PROVE  /\ LastCalls(h) \in Seq(Blocks) /\ OnePerCall(LastCalls(h)) /\ CallsOnly(LastCalls(h))
           /\ ~byId => LastCalls(h) = <<>>
  <1> DEFINE Right(q) == HistoryOK(byId, q)
                           => /\ LastCalls(q) \in Seq(Blocks)
                              /\ OnePerCall(LastCalls(q)) /\ CallsOnly(LastCalls(q))
                              /\ ~byId => LastCalls(q) = <<>>
             Q == {q \in Seq(Messages) : Right(q)}
  <1>1. <<>> \in Q
    <2>1. <<>> \in Seq(Messages) /\ <<>> \in Seq(Blocks)
      OBVIOUS
    <2>2. OnePerCall(<<>>) /\ CallsOnly(<<>>) /\ LastCalls(<<>>) = <<>>
      BY LastCallsEmpty, EmptyContent DEF CallsOnly
    <2>3. Right(<<>>)
      BY <2>1, <2>2
    <2> QED
      BY <2>1, <2>3
  <1>2. ASSUME NEW q \in Seq(Messages), NEW m \in Messages, q \in Q
        PROVE  Append(q, m) \in Q
    <2>1. Append(q, m) \in Seq(Messages)
      OBVIOUS
    <2>2. ASSUME HistoryOK(byId, Append(q, m))
          PROVE  /\ LastCalls(Append(q, m)) \in Seq(Blocks)
                 /\ OnePerCall(LastCalls(Append(q, m))) /\ CallsOnly(LastCalls(Append(q, m)))
                 /\ ~byId => LastCalls(Append(q, m)) = <<>>
      <3>1. HistoryOK(byId, q) /\ MessageFits(byId, q, m)
        BY <2>2, HistoryFront
      <3>2. LastCalls(Append(q, m)) = IF m.role = "assistant" THEN m.content ELSE LastCalls(q)
        BY LastCallsAppend
      <3>3. m.content \in Seq(Blocks)
        BY DEF Messages
      <3>4. Right(q)
        BY <1>2
      <3> QED
        BY <3>1, <3>2, <3>3, <3>4 DEF MessageFits
    <2> QED
      BY <2>1, <2>2
  <1>3. Seq(Messages) \subseteq Q
    <2> HIDE DEF Q
    <2> QED
      BY <1>1, <1>2, SeqInduction
  <1> QED
    BY <1>3

\* The blocks of the conversation.
LEMMA BlockTypes ==
    /\ Blocks = BlocksOf(0 .. MaxTokens, 0 .. MaxTokens)
    /\ NoNews \in 0 .. MaxTokens /\ NoCall \in 0 .. MaxTokens
    /\ MaxTokens \in Nat
  BY ConversationAssumption DEF Blocks, BlocksOf, NoNews, NoCall

\* What the blocks of a content and the messages of a conversation say.
LEMMA ContentType ==
    ASSUME NEW c \in Seq(Blocks)
    PROVE  CallsIn(c) \subseteq 1 .. MaxTokens /\ TokensOf(c) \subseteq 1 .. MaxTokens
  <1>1. \A i \in DOMAIN c : c[i].call \in 0 .. MaxTokens /\ c[i].token \in 0 .. MaxTokens
    <2>1. \A i \in DOMAIN c : c[i] \in Blocks
      OBVIOUS
    <2> QED
      BY <2>1 DEF Blocks
  <1>2. \A n \in 0 .. MaxTokens : n # 0 => n \in 1 .. MaxTokens
    BY BlockTypes
  <1> QED
    BY <1>1, <1>2 DEF CallsIn, TokensOf, NoCall, NoNews

\* Tokens of a conversation.
LEMMA AllTokensType ==
    ASSUME NEW h \in Seq(Messages)
    PROVE  AllTokens(h) \subseteq 1 .. MaxTokens
  <1>1. \A i \in DOMAIN h : h[i].content \in Seq(Blocks)
    <2>1. \A i \in DOMAIN h : h[i] \in Messages
      OBVIOUS
    <2> QED
      BY <2>1 DEF Messages
  <1>2. \A i \in DOMAIN h : TokensOf(h[i].content) \subseteq 1 .. MaxTokens
    BY <1>1, ContentType
  <1> QED
    BY <1>2 DEF AllTokens

\* A text is a block that answers nothing, the reminder says nothing either.
LEMMA TextBlock ==
    ASSUME NEW n \in 0 .. MaxTokens
    PROVE  /\ Text(n) \in Blocks /\ Text(n).call = NoCall /\ Text(n).token = n
  BY BlockTypes DEF Text, Block, BlocksOf

\* The reminder answers nothing and says nothing.
LEMMA ReminderContent ==
    /\ Reminder \in Seq(Blocks) /\ CallsIn(Reminder) = {} /\ TokensOf(Reminder) = {}
    /\ OnePerCall(Reminder)
  <1>1. Text(NoNews) \in Blocks /\ Text(NoNews).call = NoCall /\ Text(NoNews).token = NoNews
    BY BlockTypes, TextBlock
  <1>2. Reminder = <<Text(NoNews)>> /\ DOMAIN Reminder = {1} /\ Reminder[1] = Text(NoNews)
    BY DEF Reminder
  <1> QED
    BY <1>1, <1>2 DEF CallsIn, TokensOf, OnePerCall

\* A content with one more text.
LEMMA ContentWithText ==
    ASSUME NEW c \in Seq(Blocks), NEW n \in 1 .. MaxTokens
    PROVE  /\ Append(c, Text(n)) \in Seq(Blocks)
           /\ CallsIn(Append(c, Text(n))) = CallsIn(c)
           /\ TokensOf(Append(c, Text(n))) = TokensOf(c) \cup {n}
           /\ OnePerCall(c) => OnePerCall(Append(c, Text(n)))
  <1>1. Text(n) \in Blocks /\ Text(n).call = NoCall /\ Text(n).token = n /\ n # NoNews
    BY TextBlock, BlockTypes DEF NoNews
  <1>2. /\ CallsIn(Append(c, Text(n))) = CallsIn(c) \cup ({Text(n).call} \ {NoCall})
        /\ TokensOf(Append(c, Text(n))) = TokensOf(c) \cup ({Text(n).token} \ {NoNews})
    BY <1>1, ContentAppend
  <1>3. OnePerCall(c) => OnePerCall(Append(c, Text(n)))
    BY <1>1, OnePerCallAppend DEF CallsIn
  <1>4. CallsIn(Append(c, Text(n))) = CallsIn(c)
    BY <1>1, <1>2
  <1>5. TokensOf(Append(c, Text(n))) = TokensOf(c) \cup {n}
    BY <1>1, <1>2
  <1>6. Append(c, Text(n)) \in Seq(Blocks)
    BY <1>1
  <1> QED
    BY <1>3, <1>4, <1>5, <1>6

\* Messages of users and assistants.
LEMMA MessageTypes ==
    ASSUME NEW c \in Seq(Blocks)
    PROVE  /\ User(c) \in Messages /\ User(c).role = "user" /\ User(c).content = c
           /\ Assistant(c) \in Messages /\ Assistant(c).role = "assistant"
           /\ Assistant(c).content = c
  BY DEF User, Assistant, Message, Messages

-----------------------------------------------------------------------------
(* Contents that are added *)

\* A single result is never dropped, even if it answers none of the calls.
LEMMA OneResultKept ==
    ASSUME NEW h, LastCalls(h) \in Seq(Blocks), CallsOnly(LastCalls(h)),
           NEW b \in Blocks, b.token # NoNews
    PROVE  b.token \in TokensOf(ValidResults(<<b>>, h))
  <1> DEFINE calls == LastCalls(h)
             T == 0 .. MaxTokens
             unique == WithoutRepeats(<<b>>)
             fixed == Relabelled(unique, calls)
             more == Unanswered(fixed, calls)
  <1>1. /\ <<b>> = Append(<<>>, b) /\ <<b>> \in Seq(Blocks) /\ <<>> \in Seq(Blocks)
        /\ DOMAIN <<b>> = {1} /\ <<b>>[1] = b
    OBVIOUS
  <1>2. OnePerCall(<<b>>) /\ b.token \in TokensOf(<<b>>)
    BY <1>1 DEF OnePerCall, TokensOf
  <1>3. unique = <<b>>
    BY <1>1, <1>2, WithoutRepeatsOnce
  <1>4. ValidResults(<<b>>, h) = CASE calls = <<>> -> <<b>>
                                   [] calls # <<>> /\ CallsIn(unique) = CallsIn(calls) -> unique
                                   [] OTHER -> more \o fixed
    BY DEF ValidResults
  <1>5. calls \in Seq(BlocksOf(T, T)) /\ <<b>> \in Seq(BlocksOf(T, T)) /\ NoNews \in T
    BY <1>1, BlockTypes
  <1>6. fixed \in Seq(BlocksOf(T, T)) /\ more \in Seq(BlocksOf(T, T))
    <2>1. fixed \in Seq(BlocksOf(T, T))
      BY <1>3, <1>5, RelabelledOnce
    <2> QED
      BY <1>5, <2>1, UnansweredAnswers
  <1>7. ASSUME calls # <<>> PROVE b.token \in TokensOf(fixed)
    <2> DEFINE ids == CallsIn(calls)
               byPosition == IF 1 <= Len(calls) THEN calls[1].call ELSE NoCall
               id == IF b.call \in ids \ {} THEN b.call ELSE byPosition
               r == Relabel(NoAcc, b, calls)
    <2>1. Relabelling(<<>>, calls) = NoAcc
      BY <1>5, RelabellingEmpty
    <2>2. Relabelling(<<b>>, calls) = r
      <3>1. b \in BlocksOf(T, T) /\ <<>> \in Seq(BlocksOf(T, T))
        BY BlockTypes
      <3>2. Relabelling(Append(<<>>, b), calls) = Relabel(Relabelling(<<>>, calls), b, calls)
        <4> DEFINE none == <<>>
        <4>1. calls \in Seq(BlocksOf(T, T)) /\ none \in Seq(BlocksOf(T, T)) /\ b \in BlocksOf(T, T)
          BY <1>5, <3>1
        <4> HIDE DEF calls, T, none
        <4>2. Relabelling(Append(none, b), calls) = Relabel(Relabelling(none, calls), b, calls)
          BY <4>1, RelabellingAppend
        <4> QED
          BY <4>2 DEF none
      <3> QED
        BY <1>1, <2>1, <3>2
    <2>3. fixed = r.out
      BY <1>3, <2>2 DEF Relabelled, Relabelling, NoAcc
    <2>4. 1 <= Len(calls) /\ 1 \in DOMAIN calls
      BY <1>5, <1>7
    <2>5. byPosition \in ids
      BY <2>4 DEF CallsOnly, CallsIn
    <2>6. id \in ids /\ id # NoCall
      BY <2>5 DEF CallsIn
    <2>7. NoAcc.out = <<>> /\ NoAcc.used = {} /\ NoAcc.seen + 1 = 1 /\ NoAcc.seen = 0
      BY DEF NoAcc
    <2>8. r = CASE b.call = NoCall -> [NoAcc EXCEPT !.out = Append(@, b)]
                [] b.call # NoCall /\ id \in {} \union {NoCall} -> [NoAcc EXCEPT !.seen = 1]
                [] OTHER -> [out |-> Append(<<>>, [b EXCEPT !.call = id]),
                             used |-> {} \union {id}, seen |-> 1]
      BY <2>7 DEF Relabel
    <2> HIDE DEF id, r
    <2>9. CASE b.call = NoCall
      <3>1. r.out = <<b>>
        BY <1>1, <2>8, <2>9 DEF NoAcc
      <3> QED
        BY <1>2, <2>3, <3>1
    <2>10. CASE b.call # NoCall
      <3> DEFINE y == [b EXCEPT !.call = id]
      <3>1. r.out = Append(<<>>, y)
        BY <2>6, <2>8, <2>10
      <3>2. y.token = b.token
        BY DEF Blocks
      <3> HIDE DEF y
      <3>3. r.out = <<y>> /\ DOMAIN <<y>> = {1} /\ <<y>>[1] = y
        BY <3>1
      <3> QED
        BY <2>3, <3>2, <3>3 DEF TokensOf
    <2> QED
      BY <2>9, <2>10
  <1> HIDE DEF more, fixed, calls
  <1>8. CASE calls = <<>>
    BY <1>2, <1>4, <1>8
  <1>9. CASE calls # <<>> /\ CallsIn(unique) = CallsIn(calls)
    BY <1>2, <1>3, <1>4, <1>9
  <1>10. CASE calls # <<>> /\ CallsIn(unique) # CallsIn(calls)
    <2>1. TokensOf(more \o fixed) = TokensOf(more) \cup TokensOf(fixed)
      BY <1>6, ContentConcat
    <2>2. ValidResults(<<b>>, h) = more \o fixed
      BY <1>4, <1>10
    <2> QED
      BY <1>7, <1>10, <2>1, <2>2
  <1> QED
    BY <1>8, <1>9, <1>10

\* The content is one that the check leaves as it is, but for placeholders.
Answers(h, c) ==
    LastCalls(h) # <<>> => CallsIn(c) \subseteq CallsIn(LastCalls(h)) /\ OnePerCall(c)

\* A checked user message fits, and has the tokens of a content that answers
\* nothing else.
LEMMA AddedMessage ==
    ASSUME NEW byId, NEW h \in Seq(Messages), HistoryOK(byId, h), NEW c \in Seq(Blocks)
    PROVE  LET m == User(ValidResults(c, h))
           IN  /\ m \in Messages /\ m.role = "user" /\ AddUserMessage(h, c) = Append(h, m)
               /\ MessageFits(byId, h, m)
               /\ Answers(h, c) => TokensOf(m.content) = TokensOf(c)
               /\ LastCalls(h) = <<>> => m.content = c
  <1> DEFINE v == ValidResults(c, h)
             calls == LastCalls(h)
             T == 0 .. MaxTokens
  <1>1. calls \in Seq(Blocks) /\ OnePerCall(calls)
    BY LastCallsOK
  <1>2. calls \in Seq(BlocksOf(T, T)) /\ c \in Seq(BlocksOf(T, T)) /\ NoNews \in T
    BY <1>1, BlockTypes
  <1>3. /\ v \in Seq(BlocksOf(T, T))
        /\ calls # <<>> => CallsIn(v) = CallsIn(calls) /\ OnePerCall(v)
    BY <1>1, <1>2, ValidResultsAnswer
  <1>4. v \in Seq(Blocks)
    BY <1>3, BlockTypes
  <1>5. calls = <<>> => v = c
    BY DEF ValidResults
  <1>6. Answers(h, c) => TokensOf(v) = TokensOf(c)
    <2>1. CASE calls = <<>>
      BY <1>5, <2>1
    <2>2. CASE calls # <<>>
      <3> SUFFICES ASSUME Answers(h, c) PROVE TokensOf(v) = TokensOf(c)
        OBVIOUS
      <3>1. CallsIn(c) \subseteq CallsIn(LastCalls(h)) /\ OnePerCall(c)
        BY <2>2 DEF Answers
      <3>2. LastCalls(h) \in Seq(BlocksOf(T, T))
        BY <1>2
      <3> HIDE DEF calls, T
      <3> QED
        BY <1>2, <3>1, <3>2, ValidResultsKeep
    <2> QED
      BY <2>1, <2>2
  <1> HIDE DEF v
  <1>7. User(v) \in Messages /\ User(v).role = "user" /\ User(v).content = v
    BY <1>4, MessageTypes
  <1>8. MessageFits(byId, h, User(v))
    BY <1>3, <1>7 DEF MessageFits
  <1>9. AddUserMessage(h, c) = Append(h, User(v))
    BY DEF AddUserMessage, v
  <1> QED
    BY <1>5, <1>6, <1>7, <1>8, <1>9 DEF v

\* What the conversation is after it was added.
LEMMA AddUserMessageOK ==
    ASSUME NEW byId, NEW h \in Seq(Messages), HistoryOK(byId, h), NEW c \in Seq(Blocks)
    PROVE  LET r == AddUserMessage(h, c)
           IN  /\ r \in Seq(Messages) /\ HistoryOK(byId, r)
               /\ LastRole(r) = "user" /\ Front(r) = h
               /\ AllTokens(h) \subseteq AllTokens(r)
               /\ Answers(h, c) => AllTokens(r) = AllTokens(h) \cup TokensOf(c)
  <1> DEFINE m == User(ValidResults(c, h))
             r == AddUserMessage(h, c)
  <1>1. /\ m \in Messages /\ m.role = "user" /\ r = Append(h, m)
        /\ MessageFits(byId, h, m)
        /\ Answers(h, c) => TokensOf(m.content) = TokensOf(c)
    BY AddedMessage
  <1> HIDE DEF m, r
  <1>2. Front(r) = h /\ LastRole(r) = "user" /\ r \in Seq(Messages)
    BY <1>1, FrontAppend
  <1>3. HistoryOK(byId, r)
    BY <1>1, HistoryAppend
  <1>4. AllTokens(r) = AllTokens(h) \cup TokensOf(m.content)
    BY <1>1, AllTokensAppend
  <1> QED
    BY <1>1, <1>2, <1>3, <1>4 DEF r

-----------------------------------------------------------------------------
(* The result of a subtask *)

\* The least of a set of naturals that is not empty.
LEMMA MinIn ==
    ASSUME NEW D \in SUBSET Nat, D # {}
    PROVE  Min(D) \in D
  <1>1. PICK n \in D : \A m \in D : n <= m
    BY LeastNat
  <1> QED
    BY <1>1 DEF Min

\* The call a conversation is searched for is a call, or none.
LEMMA LastSpawnType ==
    ASSUME NEW h \in Seq(Messages), spawns \subseteq 1 .. MaxTokens
    PROVE  LastSpawn(h) \in 0 .. MaxTokens
  <1> DEFINE spawning == {i \in DOMAIN h : h[i].role = "assistant"
                                           /\ CallsIn(h[i].content) \intersect spawns # {}}
             found == CallsIn(h[Max(spawning)].content) \intersect spawns
  <1>1. LastSpawn(h) = IF spawning = {} THEN NoCall ELSE Min(found)
    BY DEF LastSpawn
  <1>2. CASE spawning = {}
    BY <1>1, <1>2, BlockTypes
  <1>3. CASE spawning # {}
    <2>1. Max(spawning) \in spawning
      <3>1. spawning \subseteq 1 .. Len(h) /\ Len(h) \in Nat
        OBVIOUS
      <3> HIDE DEF spawning
      <3> QED
        BY <1>3, <3>1, MaxIn
    <2>2. found # {}
      BY <2>1
    <2>3. found \in SUBSET Nat
      <3>1. 1 .. MaxTokens \subseteq Nat
        BY BlockTypes
      <3>2. found \subseteq spawns
        OBVIOUS
      <3> HIDE DEF found
      <3> QED
        BY <3>1, <3>2
    <2>4. Min(found) \in found
      <3> HIDE DEF found
      <3> QED
        BY <2>2, <2>3, MinIn
    <2>5. Min(found) \in 1 .. MaxTokens
      BY <2>4
    <2>6. \A n \in 1 .. MaxTokens : n \in 0 .. MaxTokens
      BY BlockTypes
    <2> QED
      BY <1>1, <1>3, <2>5, <2>6
  <1> QED
    BY <1>2, <1>3

\* A result that is put into the last message stands in the conversation,
LEMMA FilledResult ==
    ASSUME NEW byId, NEW h \in Seq(Messages), HistoryOK(byId, h),
           NEW call \in 0 .. MaxTokens, NEW child \in 1 .. MaxTokens,
           call # NoCall, h # <<>>, Last(h).role = "user", call \in CallsIn(Last(h).content)
    PROVE  LET content == Last(h).content
               filled == [i \in DOMAIN content |->
                            IF content[i].call = call THEN Block(call, child) ELSE content[i]]
               r == Append(Front(h), User(ValidResults(filled, Front(h))))
           IN  r \in Seq(Messages) /\ HistoryOK(byId, r) /\ child \in AllTokens(r)
  <1> DEFINE f == Front(h)
             m == Last(h)
             content == m.content
             filled == [i \in DOMAIN content |->
                          IF content[i].call = call THEN Block(call, child) ELSE content[i]]
             r == Append(f, User(ValidResults(filled, f)))
  <1>1. f \in Seq(Messages) /\ m \in Messages /\ h = Append(f, m)
    BY FrontLast
  <1>2. HistoryOK(byId, f) /\ MessageFits(byId, f, m)
    <2> HIDE DEF f, m
    <2> QED
      BY <1>1, HistoryFront
  <1>3. content \in Seq(Blocks) /\ m.role # "assistant"
    BY <1>1 DEF Messages
  <1>4. Block(call, child) \in Blocks /\ Block(call, child).call = call
        /\ Block(call, child).token = child
    <2>1. child \in 0 .. MaxTokens
      BY BlockTypes
    <2> QED
      BY <2>1 DEF Block, Blocks
  <1>5. LastCalls(f) # <<>> => CallsIn(content) = CallsIn(LastCalls(f)) /\ OnePerCall(content)
    BY <1>2, <1>3 DEF MessageFits
  <1>6. call \in CallsIn(content)
    OBVIOUS
  <1> HIDE DEF f, m, content
  <1>7. filled \in Seq(Blocks)
    <2>1. DOMAIN content = 1 .. Len(content) /\ Len(content) \in Nat
          /\ \A i \in DOMAIN content : content[i] \in Blocks
      BY <1>3
    <2>2. filled \in [1 .. Len(content) -> Blocks]
      BY <1>4, <2>1
    <2> QED
      BY <2>1, <2>2
  <1>8. DOMAIN filled = DOMAIN content /\ \A i \in DOMAIN content : filled[i].call = content[i].call
    BY <1>4
  <1>9. \E i \in DOMAIN content : filled[i].token = child
    BY <1>4, <1>6 DEF CallsIn
  <1> HIDE DEF filled
  <1>10. CallsIn(filled) = CallsIn(content) /\ (OnePerCall(content) => OnePerCall(filled))
    BY <1>8 DEF CallsIn, OnePerCall
  <1>11. child \in TokensOf(filled)
    BY <1>8, <1>9 DEF TokensOf, NoNews
  <1>12. Answers(f, filled)
    BY <1>5, <1>10 DEF Answers
  <1>13. r = AddUserMessage(f, filled)
    BY DEF AddUserMessage
  <1> HIDE DEF r
  <1>14. r \in Seq(Messages) /\ HistoryOK(byId, r) /\ AllTokens(r) = AllTokens(f) \cup TokensOf(filled)
    BY <1>1, <1>2, <1>7, <1>12, <1>13, AddUserMessageOK
  <1> QED
    BY <1>11, <1>14 DEF r, filled, content, m, f

\* as does one in a message of its own.
LEMMA AddedResult ==
    ASSUME NEW byId, NEW h \in Seq(Messages), HistoryOK(byId, h),
           NEW call \in 0 .. MaxTokens, NEW child \in 1 .. MaxTokens
    PROVE  LET r == AddUserMessage(h, <<Block(call, child)>>)
           IN  r \in Seq(Messages) /\ HistoryOK(byId, r) /\ child \in AllTokens(r)
  <1> DEFINE b == Block(call, child)
             m == User(ValidResults(<<b>>, h))
             r == AddUserMessage(h, <<b>>)
  <1>1. b \in Blocks /\ b.token = child /\ b.token # NoNews
    <2>1. child \in 0 .. MaxTokens /\ child # 0
      BY BlockTypes
    <2> QED
      BY <2>1 DEF Block, Blocks, NoNews
  <1> HIDE DEF b
  <1>2. <<b>> \in Seq(Blocks)
    BY <1>1
  <1>3. m \in Messages /\ m.role = "user" /\ r = Append(h, m) /\ MessageFits(byId, h, m)
    BY <1>2, AddedMessage
  <1>4. r \in Seq(Messages) /\ HistoryOK(byId, r)
    BY <1>2, AddUserMessageOK
  <1>5. b.token \in TokensOf(ValidResults(<<b>>, h))
    <2>1. LastCalls(h) \in Seq(Blocks) /\ CallsOnly(LastCalls(h))
      BY LastCallsOK
    <2> QED
      BY <1>1, <2>1, OneResultKept
  <1>6. m.content = ValidResults(<<b>>, h)
    BY DEF User, Message
  <1> HIDE DEF m, r
  <1>7. AllTokens(r) = AllTokens(h) \cup TokensOf(m.content)
    BY <1>3, AllTokensAppend
  <1>8. child \in AllTokens(r)
    BY <1>1, <1>5, <1>6, <1>7
  <1> QED
    BY <1>4, <1>8 DEF b, r

\* The saved conversation with a subtask's result has that result.
LEMMA WithResultOK ==
    ASSUME NEW byId, NEW h \in Seq(Messages), HistoryOK(byId, h),
           spawns \subseteq 1 .. MaxTokens, NEW child \in 1 .. MaxTokens
    PROVE  LET r == WithResult(h, child)
           IN  r \in Seq(Messages) /\ HistoryOK(byId, r) /\ child \in AllTokens(r)
  <1> DEFINE call == LastSpawn(h)
             content == IF h = <<>> THEN <<>> ELSE Last(h).content
             filled == [i \in DOMAIN content |->
                          IF content[i].call = call THEN Block(call, child) ELSE content[i]]
  <1>1. call \in 0 .. MaxTokens
    BY LastSpawnType
  <1>2. WithResult(h, child)
          = IF call # NoCall /\ LastRole(h) = "user" /\ call \in CallsIn(content)
            THEN Append(Front(h), User(ValidResults(filled, Front(h))))
            ELSE AddUserMessage(h, <<Block(call, child)>>)
    BY DEF WithResult
  <1>3. CASE call # NoCall /\ LastRole(h) = "user" /\ call \in CallsIn(content)
    <2>1. h # <<>> /\ Last(h).role = "user" /\ content = Last(h).content
      BY <1>3 DEF LastRole
    <2>2. WithResult(h, child) = Append(Front(h), User(ValidResults(filled, Front(h))))
      BY <1>2, <1>3
    <2> HIDE DEF call
    <2>3. call \in CallsIn(Last(h).content)
      BY <1>3, <2>1
    <2>4. filled = [i \in DOMAIN Last(h).content |->
                      IF Last(h).content[i].call = call THEN Block(call, child)
                                                        ELSE Last(h).content[i]]
      BY <2>1
    <2> HIDE DEF filled, content
    <2> QED
      <3> DEFINE r == Append(Front(h), User(ValidResults(filled, Front(h))))
      <3>1. call # NoCall
        BY <1>3
      <3>2. r \in Seq(Messages) /\ HistoryOK(byId, r) /\ child \in AllTokens(r)
        BY <1>1, <2>1, <2>3, <2>4, <3>1, FilledResult
      <3> QED
        BY <2>2, <3>2
  <1>4. CASE ~(call # NoCall /\ LastRole(h) = "user" /\ call \in CallsIn(content))
    <2>1. WithResult(h, child) = AddUserMessage(h, <<Block(call, child)>>)
      BY <1>2, <1>4
    <2> HIDE DEF call
    <2> QED
      BY <1>1, <2>1, AddedResult
  <1> QED
    BY <1>3, <1>4

\* A conversation without its last message, when it has one.
LEMMA FrontOK ==
    ASSUME NEW byId, NEW h \in Seq(Messages), HistoryOK(byId, h), h # <<>>
    PROVE  /\ Front(h) \in Seq(Messages) /\ HistoryOK(byId, Front(h))
           /\ Last(h) \in Messages /\ Last(h).content \in Seq(Blocks)
           /\ MessageFits(byId, Front(h), Last(h))
           /\ LastRole(h) = Last(h).role
           /\ Last(h).role \in {"user", "assistant"}
           /\ LastCalls(h) = IF Last(h).role = "assistant" THEN Last(h).content
                                                          ELSE LastCalls(Front(h))
           /\ AllTokens(h) = AllTokens(Front(h)) \cup
                               (IF Last(h).role = "user" THEN TokensOf(Last(h).content) ELSE {})
  <1> DEFINE f == Front(h)
             m == Last(h)
  <1>1. f \in Seq(Messages) /\ m \in Messages /\ h = Append(f, m)
    BY FrontLast
  <1>2. m.content \in Seq(Blocks) /\ m.role \in {"user", "assistant"}
    BY <1>1 DEF Messages
  <1>3. LastRole(h) = m.role
    BY DEF LastRole
  <1> HIDE DEF f, m
  <1>4. HistoryOK(byId, f) /\ MessageFits(byId, f, m)
    BY <1>1, HistoryFront
  <1>5. LastCalls(h) = IF m.role = "assistant" THEN m.content ELSE LastCalls(f)
    BY <1>1, LastCallsAppend
  <1>6. AllTokens(h) = AllTokens(f) \cup (IF m.role = "user" THEN TokensOf(m.content) ELSE {})
    BY <1>1, AllTokensAppend
  <1> QED
    BY <1>1, <1>2, <1>3, <1>4, <1>5, <1>6 DEF f, m

\* A sequence is a function on the numbers up to its length.
LEMMA SequenceIndexes ==
    ASSUME NEW S, NEW s \in Seq(S)
    PROVE  DOMAIN s = 1 .. Len(s) /\ Len(s) \in Nat /\ \A i \in DOMAIN s : s[i] \in S
  OBVIOUS

\* The blocks of the response have the ids of its calls.
LEMMA CallBlocksOK ==
    ASSUME TypeOK, CallsOK
    PROVE  /\ CallBlocks \in Seq(Blocks) /\ CallsOnly(CallBlocks) /\ OnePerCall(CallBlocks)
           /\ (~native => CallBlocks = <<>>)
           /\ CallsIn(results) \subseteq CallsIn(CallBlocks)
  <1>1. /\ called \in Seq(1 .. MaxTokens) /\ answered \in 0 .. Len(called) /\ native \in BOOLEAN
        /\ \A i, j \in DOMAIN called : called[i] = called[j] => i = j
        /\ CallsIn(results) \subseteq IF native THEN {called[i] : i \in 1 .. answered} ELSE {}
    BY DEF TypeOK, CallsOK
  <1>2. CASE ~native
    <2>1. CallBlocks = <<>> /\ CallsIn(results) = {}
      BY <1>1, <1>2 DEF CallBlocks
    <2> QED
      BY <2>1, EmptyContent DEF CallsOnly
  <1>3. CASE native
    <2>1. CallBlocks = [i \in DOMAIN called |-> Block(called[i], NoNews)]
      BY <1>3 DEF CallBlocks
    <2>2. /\ DOMAIN called = 1 .. Len(called) /\ Len(called) \in Nat
          /\ \A i \in DOMAIN called : called[i] \in 1 .. MaxTokens
      BY <1>1, SequenceIndexes
    <2>3. \A n \in 1 .. MaxTokens : /\ Block(n, NoNews) \in Blocks /\ Block(n, NoNews).call = n
                                    /\ n # NoCall
      BY BlockTypes DEF Block, Blocks, NoNews, NoCall
    <2>4. /\ DOMAIN CallBlocks = DOMAIN called
          /\ \A i \in DOMAIN called : CallBlocks[i].call = called[i] /\ called[i] # NoCall
      BY <2>1, <2>2, <2>3
    <2>5. CallBlocks \in Seq(Blocks)
      <3>1. CallBlocks \in [1 .. Len(called) -> Blocks]
        BY <2>1, <2>2, <2>3
      <3> QED
        BY <2>2, <3>1
    <2>6. CallsOnly(CallBlocks) /\ OnePerCall(CallBlocks)
      BY <1>1, <2>4 DEF CallsOnly, OnePerCall
    <2>7. {called[i] : i \in 1 .. answered} \subseteq CallsIn(CallBlocks)
      <3>1. \A i \in 1 .. answered : i \in DOMAIN called
        BY <1>1, <2>2
      <3> QED
        BY <2>4, <3>1 DEF CallsIn
    <2> QED
      BY <1>1, <1>3, <2>5, <2>6, <2>7
  <1> QED
    BY <1>1, <1>2, <1>3

-----------------------------------------------------------------------------
(* Turns *)

\* Roles alternate with one more message of the other role,
LEMMA AlternatesAppend ==
    ASSUME NEW h \in Seq(Messages), NEW m \in Messages
    PROVE  Alternates(Append(h, m)) <=> Alternates(h) /\ LastRole(h) # m.role
  <1> DEFINE r == Append(h, m)
             n == Len(h)
  <1>1. /\ n \in Nat /\ Len(r) = n + 1
        /\ \A i \in 1 .. n : r[i] = h[i]
        /\ r[n + 1] = m
    BY AppendIndexes
  <1>2. LastRole(h) = IF n = 0 THEN "none" ELSE h[n].role
    BY <1>1 DEF LastRole, Last
  <1>3. m.role # "none"
    BY DEF Messages
  <1> HIDE DEF n, r
  <1>4. Alternates(r) <=> \A i \in 1 .. n : r[i].role # r[i + 1].role
    BY <1>1 DEF Alternates
  <1>5. Alternates(h) <=> \A i \in 1 .. n - 1 : r[i].role # r[i + 1].role
    <2>1. \A i \in 1 .. n - 1 : i \in 1 .. n /\ i + 1 \in 1 .. n
      BY <1>1
    <2> QED
      BY <1>1, <2>1 DEF Alternates, n
  <1>6. \A i \in 1 .. n : i \in 1 .. n - 1 \/ i = n
    BY <1>1
  <1>7. \A i \in 1 .. n - 1 : i \in 1 .. n
    BY <1>1
  <1>8. CASE n = 0
    BY <1>2, <1>3, <1>4, <1>5, <1>8 DEF r
  <1>9. CASE n # 0
    <2>1. n \in 1 .. n
      BY <1>1, <1>9
    <2>2. (\A i \in 1 .. n : r[i].role # r[i + 1].role)
            <=> (\A i \in 1 .. n - 1 : r[i].role # r[i + 1].role) /\ r[n].role # r[n + 1].role
      BY <1>6, <1>7, <2>1
    <2>3. LastRole(h) # m.role <=> r[n].role # r[n + 1].role
      BY <1>1, <1>2, <1>9, <2>1
    <2> QED
      BY <1>4, <1>5, <2>2, <2>3 DEF r
  <1> QED
    BY <1>8, <1>9

\* and answers follow their calls with one more message that does.
LEMMA AnswersFollowAppend ==
    ASSUME NEW h \in Seq(Messages), NEW m \in Messages
    PROVE  AnswersFollow(Append(h, m))
             <=> /\ AnswersFollow(h)
                 /\ LastRole(h) = "assistant" => CallsIn(m.content) \subseteq CallsIn(Last(h).content)
  <1> DEFINE r == Append(h, m)
             n == Len(h)
             A(i) == r[i].role = "assistant" => CallsIn(r[i + 1].content) \subseteq CallsIn(r[i].content)
  <1>1. /\ n \in Nat /\ Len(r) = n + 1
        /\ \A i \in 1 .. n : r[i] = h[i]
        /\ r[n + 1] = m
    BY AppendIndexes
  <1>2. LastRole(h) = (IF n = 0 THEN "none" ELSE h[n].role) /\ (n # 0 => Last(h) = h[n])
    BY <1>1 DEF LastRole, Last
  <1> HIDE DEF n, r
  <1>4. AnswersFollow(r) <=> \A i \in 1 .. n : A(i)
    BY <1>1 DEF AnswersFollow
  <1>5. AnswersFollow(h) <=> \A i \in 1 .. n - 1 : A(i)
    <2>1. \A i \in 1 .. n - 1 : i \in 1 .. n /\ i + 1 \in 1 .. n
      BY <1>1
    <2> QED
      BY <1>1, <2>1 DEF AnswersFollow, n
  <1>6. \A i \in 1 .. n : i \in 1 .. n - 1 \/ i = n
    BY <1>1
  <1>7. \A i \in 1 .. n - 1 : i \in 1 .. n
    BY <1>1
  <1>8. CASE n = 0
    BY <1>2, <1>4, <1>5, <1>8 DEF r
  <1>9. CASE n # 0
    <2>1. n \in 1 .. n
      BY <1>1, <1>9
    <2>3. (LastRole(h) = "assistant" => CallsIn(m.content) \subseteq CallsIn(Last(h).content)) <=> A(n)
      BY <1>1, <1>2, <1>9, <2>1
    <2> HIDE DEF A
    <2>2. (\A i \in 1 .. n : A(i)) <=> (\A i \in 1 .. n - 1 : A(i)) /\ A(n)
      BY <1>6, <1>7, <2>1
    <2> QED
      BY <1>4, <1>5, <2>2, <2>3 DEF r
  <1> QED
    BY <1>8, <1>9

\* Both hold of the empty conversation.
LEMMA TurnsEmpty ==
    Alternates(<<>>) /\ AnswersFollow(<<>>) /\ LastRole(<<>>) = "none"
  BY DEF Alternates, AnswersFollow, LastRole

\* A conversation without its last message.
LEMMA TurnsFront ==
    ASSUME NEW h \in Seq(Messages), h # <<>>
    PROVE  /\ Alternates(h) <=> Alternates(Front(h)) /\ LastRole(Front(h)) # LastRole(h)
           /\ AnswersFollow(h) <=>
                /\ AnswersFollow(Front(h))
                /\ LastRole(Front(h)) = "assistant"
                     => CallsIn(Last(h).content) \subseteq CallsIn(Last(Front(h)).content)
  <1> DEFINE f == Front(h)
             m == Last(h)
  <1>1. f \in Seq(Messages) /\ m \in Messages /\ h = Append(f, m)
    BY FrontLast
  <1>2. LastRole(h) = m.role
    BY DEF LastRole
  <1> HIDE DEF f, m
  <1> QED
    BY <1>1, <1>2, AlternatesAppend, AnswersFollowAppend DEF f, m

-----------------------------------------------------------------------------
(* Resuming *)

\* What resumeTaskFromHistory keeps of a saved conversation, and the content it
\* makes of the rest.
KeptPart(h) == IF LastRole(h) = "user" THEN Front(h) ELSE h
OldContent(h) == IF LastRole(h) = "user" THEN Last(h).content ELSE <<>>
OpenCalls(h) == IF LastRole(h) = "assistant" THEN Last(h).content ELSE <<>>
ResumedContent(h) == OldContent(h) \o Unanswered(OldContent(h), OpenCalls(KeptPart(h)))

\* What is kept is well formed, and the content goes where it goes next: it
\* answers the calls of the last assistant message that is kept, each once.
LEMMA ResumedContentOK ==
    ASSUME NEW byId, NEW h \in Seq(Messages), HistoryOK(byId, h)
    PROVE  /\ KeptPart(h) \in Seq(Messages) /\ HistoryOK(byId, KeptPart(h))
           /\ ResumedContent(h) \in Seq(Blocks)
           /\ Answers(KeptPart(h), ResumedContent(h))
           /\ Alternates(h) => Alternates(KeptPart(h)) /\ LastRole(KeptPart(h)) # "user"
           /\ AnswersFollow(h) =>
                /\ AnswersFollow(KeptPart(h))
                /\ LastRole(KeptPart(h)) = "assistant"
                     => CallsIn(ResumedContent(h)) \subseteq CallsIn(Last(KeptPart(h)).content)
  <1> DEFINE kept == KeptPart(h)
             old == OldContent(h)
             calls == OpenCalls(kept)
             more == Unanswered(old, calls)
             T == 0 .. MaxTokens
  <1>1. /\ kept \in Seq(Messages) /\ HistoryOK(byId, kept) /\ old \in Seq(Blocks)
        /\ LastCalls(kept) # <<>> => CallsIn(old) \subseteq CallsIn(LastCalls(kept)) /\ OnePerCall(old)
        /\ Alternates(h) => Alternates(kept) /\ LastRole(kept) # "user"
        /\ AnswersFollow(h) =>
              /\ AnswersFollow(kept)
              /\ LastRole(kept) = "assistant" => CallsIn(old) \subseteq CallsIn(Last(kept).content)
    <2>1. CASE LastRole(h) = "user"
      <3>1. h # <<>> /\ kept = Front(h) /\ old = Last(h).content
        BY <2>1 DEF LastRole, KeptPart, OldContent
      <3>2. /\ kept \in Seq(Messages) /\ HistoryOK(byId, kept) /\ old \in Seq(Blocks)
            /\ MessageFits(byId, kept, Last(h)) /\ Last(h).role = "user"
        BY <2>1, <3>1, FrontOK
      <3>3. LastCalls(kept) # <<>> => CallsIn(old) \subseteq CallsIn(LastCalls(kept)) /\ OnePerCall(old)
        <4> HIDE DEF kept, old
        <4> QED
          BY <3>1, <3>2 DEF MessageFits
      <3>4. Alternates(h) => Alternates(kept) /\ LastRole(kept) # "user"
        BY <2>1, <3>1, TurnsFront
      <3>5. AnswersFollow(h) =>
              /\ AnswersFollow(kept)
              /\ LastRole(kept) = "assistant" => CallsIn(old) \subseteq CallsIn(Last(kept).content)
        BY <3>1, TurnsFront
      <3> QED
        BY <3>2, <3>3, <3>4, <3>5
    <2>2. CASE LastRole(h) # "user"
      <3>1. kept = h /\ old = <<>>
        BY <2>2 DEF KeptPart, OldContent
      <3>2. <<>> \in Seq(Blocks) /\ CallsIn(<<>>) = {} /\ OnePerCall(<<>>)
        BY EmptyContent
      <3> HIDE DEF kept, old
      <3> QED
        BY <2>2, <3>1, <3>2
    <2> QED
      BY <2>1, <2>2
  <1> HIDE DEF kept, old
  <1>2. /\ calls \in Seq(Blocks) /\ OnePerCall(calls)
        /\ CallsIn(calls) \subseteq CallsIn(LastCalls(kept))
        /\ LastRole(kept) = "assistant" => calls = Last(kept).content
    <2>1. CASE LastRole(kept) = "assistant"
      <3>1. kept # <<>> /\ calls = Last(kept).content
        BY <2>1 DEF LastRole, OpenCalls
      <3>2. calls \in Seq(Blocks) /\ calls = LastCalls(kept)
        BY <1>1, <2>1, <3>1, FrontOK
      <3> HIDE DEF calls
      <3> QED
        BY <1>1, <3>1, <3>2, LastCallsOK
    <2>2. CASE LastRole(kept) # "assistant"
      <3>1. calls = <<>> /\ <<>> \in Seq(Blocks)
        BY <2>2 DEF OpenCalls
      <3> HIDE DEF calls
      <3> QED
        BY <2>2, <3>1, EmptyContent
    <2> QED
      BY <2>1, <2>2
  <1> HIDE DEF calls
  <1>3. /\ more \in Seq(Blocks) /\ CallsIn(more) = CallsIn(calls) \ CallsIn(old)
        /\ OnePerCall(more)
    <2>1. calls \in Seq(BlocksOf(T, T)) /\ NoNews \in T
      BY <1>2, BlockTypes
    <2> HIDE DEF T
    <2>2. /\ more \in Seq(BlocksOf(T, T)) /\ CallsIn(more) = CallsIn(calls) \ CallsIn(old)
          /\ OnePerCall(more)
      BY <1>2, <2>1, UnansweredAnswers
    <2> QED
      BY <2>2, BlockTypes DEF T
  <1> HIDE DEF more
  <1> DEFINE content == old \o more
  <1>4. ResumedContent(h) = content
    BY DEF ResumedContent, more, calls, old, kept
  <1>5. content \in Seq(Blocks) /\ CallsIn(content) = CallsIn(old) \cup CallsIn(more)
    BY <1>1, <1>3, ContentConcat
  <1>6. OnePerCall(old) => OnePerCall(content)
    BY <1>1, <1>3, OnePerCallConcat
  <1> HIDE DEF content
  <1>7. Answers(kept, content)
    BY <1>1, <1>2, <1>3, <1>5, <1>6 DEF Answers
  <1> QED
    BY <1>1, <1>2, <1>3, <1>4, <1>5, <1>7 DEF kept

\* A new token.
LEMMA FreshOK ==
    ASSUME TypeOK, Fresh
    PROVE  clock \in 1 .. MaxTokens /\ clock' = clock + 1 /\ clock' \in 1 .. MaxTokens
  BY BlockTypes DEF TypeOK, Fresh

\* What Resume does, in those terms.
LEMMA ResumeDoes ==
    ASSUME WellFormed, Resume
    PROVE  /\ pc = "closed" /\ pc' = "start" /\ reporting = NoCall
           /\ history' = KeptPart(disk) /\ disk' = KeptPart(disk)
           /\ \/ Fresh /\ item' = Item(Append(ResumedContent(disk), Text(clock)), "first")
              \/ /\ item' = Item(IF ResumedContent(disk) = <<>> THEN Reminder
                                 ELSE ResumedContent(disk), "first")
                 /\ clock' = clock
           /\ told' = AllTokens(KeptPart(disk)) \union TokensOf(item'.content)
           /\ UNCHANGED <<settings, mistaken, response, children, bounds>>
  BY DEF Resume, Save, ResumedContent, KeptPart, OldContent, OpenCalls

\* The item of a resumed task: the same calls as the content.
LEMMA ResumedItem ==
    ASSUME WellFormed, Resume
    PROVE  /\ item'.content \in Seq(Blocks) /\ item'.attempt = "first"
           /\ item' \in [content : Seq(Blocks), attempt : {"first", "again", "readd", "resumed"}]
           /\ CallsIn(item'.content) = CallsIn(ResumedContent(disk))
           /\ OnePerCall(ResumedContent(disk)) => OnePerCall(item'.content)
           /\ clock' \in 1 .. MaxTokens /\ clock' \in {clock, clock + 1}
  <1> DEFINE content == ResumedContent(disk)
  <1>1. TypeOK /\ disk \in Seq(Messages) /\ HistoryOK(native, disk) /\ clock \in 1 .. MaxTokens
    BY DEF WellFormed, TypeOK
  <1>2. content \in Seq(Blocks)
    BY <1>1, ResumedContentOK
  <1>3. \/ Fresh /\ item' = Item(Append(content, Text(clock)), "first")
        \/ item' = Item(IF content = <<>> THEN Reminder ELSE content, "first") /\ clock' = clock
    BY ResumeDoes
  <1> HIDE DEF content
  <1>4. CASE Fresh /\ item' = Item(Append(content, Text(clock)), "first")
    <2>1. clock' = clock + 1 /\ clock' \in 1 .. MaxTokens
      BY <1>1, <1>4, FreshOK
    <2>2. /\ Append(content, Text(clock)) \in Seq(Blocks)
          /\ CallsIn(Append(content, Text(clock))) = CallsIn(content)
          /\ OnePerCall(content) => OnePerCall(Append(content, Text(clock)))
      BY <1>1, <1>2, ContentWithText
    <2>3. item'.content = Append(content, Text(clock)) /\ item'.attempt = "first"
          /\ item' = [content |-> Append(content, Text(clock)), attempt |-> "first"]
      BY <1>4 DEF Item
    <2> QED
      BY <2>1, <2>2, <2>3 DEF content
  <1>5. CASE item' = Item(IF content = <<>> THEN Reminder ELSE content, "first") /\ clock' = clock
    <2> DEFINE c == IF content = <<>> THEN Reminder ELSE content
    <2>1. /\ c \in Seq(Blocks) /\ CallsIn(c) = CallsIn(content)
          /\ OnePerCall(content) => OnePerCall(c)
      BY <1>2, ReminderContent, EmptyContent
    <2> HIDE DEF c
    <2>2. item' = [content |-> c, attempt |-> "first"]
      BY <1>5 DEF Item, c
    <2> QED
      BY <1>1, <1>5, <2>1, <2>2 DEF content
  <1> QED
    BY <1>3, <1>4, <1>5

-----------------------------------------------------------------------------
(* WellFormed is inductive: each action keeps it. *)

\* What the actions leave alone keeps its form.
LEMMA CallsKept ==
    ASSUME TypeOK, CallsOK, native' = native, UNCHANGED <<called, answered, results, flushed>>,
           \/ clock' = clock
           \/ clock' = clock + 1,
           spawns \subseteq spawns'
    PROVE  CallsOK'
  <1>1. \A i \in DOMAIN called : called[i] < clock'
    <2>1. /\ \A i \in DOMAIN called : called[i] \in 1 .. MaxTokens /\ called[i] < clock
          /\ clock \in 1 .. MaxTokens
      BY SequenceIndexes DEF TypeOK, CallsOK
    <2> QED
      BY <2>1, BlockTypes
  <1> QED
    BY <1>1 DEF CallsOK

\* A count below its bound.
LEMMA CountOK ==
    ASSUME NEW bound \in Nat, NEW n \in 0 .. bound
    PROVE  n \in Nat /\ n + 1 > 0 /\ (n < bound => n + 1 \in 0 .. bound)
  OBVIOUS

\* The bounds that are counted to.
LEMMA Counts ==
    ASSUME TypeOK
    PROVE  /\ MaxFailures \in Nat /\ failures \in 0 .. MaxFailures
           /\ MaxEmpty \in Nat /\ empties \in 0 .. MaxEmpty
           /\ MaxCloses \in Nat /\ closes \in 0 .. MaxCloses
  <1>1. MaxFailures \in Nat /\ MaxEmpty \in Nat /\ MaxCloses \in Nat
    BY ConversationAssumption
  <1> QED
    BY <1>1 DEF TypeOK

\* No response: no calls and no results.
LEMMA CallsReset ==
    ASSUME NoResponse
    PROVE  /\ CallsOK' /\ called' \in Seq(1 .. MaxTokens) /\ answered' \in 0 .. Len(called')
           /\ results' \in Seq(Blocks) /\ used' \in BOOLEAN /\ flushed' \in BOOLEAN
  <1>1. called' = <<>> /\ answered' = 0 /\ results' = <<>> /\ used' = FALSE /\ flushed' = FALSE
    BY DEF NoResponse
  <1>2. CallsIn(<<>>) = {} /\ OnePerCall(<<>>)
    BY EmptyContent
  <1>3. CallsOK'
    BY <1>1, <1>2 DEF CallsOK
  <1>4. <<>> \in Seq(1 .. MaxTokens) /\ <<>> \in Seq(Blocks) /\ 0 \in 0 .. Len(<<>>)
    OBVIOUS
  <1> QED
    BY <1>1, <1>3, <1>4

\* Guidance adds a text to the item.
LEMMA GuidanceWF == ASSUME WellFormed, Guidance PROVE WellFormed'
  <1>1. TypeOK /\ CallsOK /\ PlaceOK
    BY DEF WellFormed
  <1>2. item' \in [content : Seq(Blocks), attempt : {"first", "again", "readd", "resumed"}]
        /\ told' \subseteq 1 .. MaxTokens /\ clock' \in 1 .. MaxTokens
        /\ clock' \in {clock, clock + 1}
    <2>1. CASE Fresh /\ item' = [item EXCEPT !.content = Append(@, Text(clock))]
               /\ told' = told \union {clock}
      <3>1. item.content \in Seq(Blocks) /\ clock \in 1 .. MaxTokens /\ told \subseteq 1 .. MaxTokens
        BY <1>1 DEF TypeOK
      <3>2. Append(item.content, Text(clock)) \in Seq(Blocks)
        BY <3>1, ContentWithText
      <3> QED
        BY <1>1, <2>1, <3>1, <3>2, FreshOK DEF TypeOK
    <2>2. CASE UNCHANGED <<item, told, clock>>
      BY <1>1, <2>2 DEF TypeOK
    <2> QED
      BY <2>1, <2>2 DEF Guidance
  <1>3. TypeOK'
    BY <1>1, <1>2 DEF TypeOK, Guidance, settings, response, children, bounds
  <1>4. CallsOK'
    BY <1>1, <1>2, CallsKept DEF Guidance, settings, response, children
  <1>5. PlaceOK'
    BY <1>1 DEF PlaceOK, Guidance, settings, response, children, bounds, CallBlocks
  <1> QED
    BY <1>3, <1>4, <1>5 DEF WellFormed, Guidance, settings

\* The message that is added has been checked.
LEMMA SendRequestWF == ASSUME WellFormed, SendRequest PROVE WellFormed'
  <1>1. TypeOK /\ CallsOK /\ PlaceOK
        /\ HistoryOK(native, history) /\ HistoryOK(native, disk)
    BY DEF WellFormed
  <1>2. history \in Seq(Messages) /\ disk \in Seq(Messages) /\ item.content \in Seq(Blocks)
    BY <1>1 DEF TypeOK
  <1>3. /\ history' \in Seq(Messages) /\ disk' \in Seq(Messages)
        /\ HistoryOK(native, history') /\ HistoryOK(native, disk')
    BY <1>1, <1>2, AddUserMessageOK DEF SendRequest, Save
  <1>4. /\ CallsOK' /\ called' \in Seq(1 .. MaxTokens) /\ answered' \in 0 .. Len(called')
        /\ results' \in Seq(Blocks) /\ used' \in BOOLEAN /\ flushed' \in BOOLEAN
    BY CallsReset DEF SendRequest
  <1>5. TypeOK'
    BY <1>1, <1>3, <1>4 DEF TypeOK, SendRequest, settings, children, bounds
  <1>6. PlaceOK'
    BY <1>1 DEF PlaceOK, SendRequest, settings, NoResponse, children, bounds, TypeOK
  <1> QED
    BY <1>3, <1>4, <1>5, <1>6 DEF WellFormed, SendRequest, settings

\* The next call has an id that no call has had.
LEMMA StreamToolCallWF == ASSUME WellFormed, StreamToolCall PROVE WellFormed'
  <1>1. TypeOK /\ CallsOK /\ PlaceOK
    BY DEF WellFormed
  <1>2. clock \in 1 .. MaxTokens /\ clock' = clock + 1 /\ clock' \in 1 .. MaxTokens
    BY <1>1, FreshOK DEF StreamToolCall
  <1>3. called \in Seq(1 .. MaxTokens) /\ called' = Append(called, clock)
        /\ answered \in 0 .. Len(called) /\ spawns \subseteq 1 .. MaxTokens
    BY <1>1 DEF TypeOK, StreamToolCall
  <1> DEFINE n == Len(called)
  <1>4. /\ n \in Nat /\ DOMAIN called = 1 .. n /\ DOMAIN called' = 1 .. n + 1 /\ Len(called') = n + 1
        /\ \A i \in 1 .. n : called'[i] = called[i]
        /\ called'[n + 1] = clock
        /\ \A i \in 1 .. n + 1 : i \in 1 .. n \/ i = n + 1
    BY <1>2, <1>3, AppendIndexes
  <1>5. called' \in Seq(1 .. MaxTokens)
    BY <1>2, <1>3
  <1>6. answered' \in 0 .. Len(called') /\ answered' = answered
    BY <1>3, <1>4 DEF StreamToolCall
  <1>7. spawns' \subseteq 1 .. MaxTokens /\ spawns \subseteq spawns'
    BY <1>2, <1>3 DEF StreamToolCall
  <1>8. TypeOK'
    BY <1>1, <1>2, <1>5, <1>6, <1>7 DEF TypeOK, StreamToolCall, settings, bounds
  <1>9. \A i \in 1 .. n : called[i] \in Nat /\ called[i] < clock
    <2>1. \A i \in DOMAIN called : called[i] \in 1 .. MaxTokens
      BY <1>3, SequenceIndexes
    <2> QED
      BY <1>1, <1>4, <2>1 DEF CallsOK
  <1>10. CallsOK'
    <2> HIDE DEF n
    <2>1. \A i \in DOMAIN called' : called'[i] < clock'
      BY <1>2, <1>4, <1>9
    <2>2. \A i, j \in DOMAIN called' : called'[i] = called'[j] => i = j
      BY <1>1, <1>2, <1>4, <1>9 DEF CallsOK
    <2>3. \A i \in 1 .. answered : called'[i] = called[i]
      BY <1>3, <1>4 DEF n
    <2>4. {called'[i] : i \in 1 .. answered} = {called[i] : i \in 1 .. answered}
      BY <2>3
    <2>5. flushed' => answered' < Len(called') /\ called'[answered' + 1] \in spawns'
      <3> SUFFICES ASSUME flushed' PROVE answered < n + 1 /\ called'[answered + 1] \in spawns'
        BY <1>4, <1>6
      <3>1. answered < Len(called) /\ called[answered + 1] \in spawns
        BY <1>1 DEF CallsOK, StreamToolCall
      <3>2. answered \in Nat /\ answered + 1 \in 1 .. n
        BY <1>3, <3>1 DEF n
      <3>3. answered < n + 1
        BY <1>4, <3>1, <3>2 DEF n
      <3>4. called'[answered + 1] = called[answered + 1]
        BY <1>4, <3>2
      <3> QED
        BY <1>7, <3>1, <3>3, <3>4
    <2>6. UNCHANGED <<native, results, answered>>
      BY DEF StreamToolCall, settings
    <2>7. CallsIn(results') \subseteq IF native' THEN {called'[i] : i \in 1 .. answered'} ELSE {}
      BY <1>1, <2>4, <2>6 DEF CallsOK
    <2>8. OnePerCall(results')
      BY <1>1, <2>6 DEF CallsOK
    <2> QED
      BY <2>1, <2>2, <2>5, <2>7, <2>8 DEF CallsOK
  <1>11. PlaceOK'
    BY <1>1 DEF PlaceOK, StreamToolCall, settings, bounds
  <1> QED
    BY <1>8, <1>10, <1>11 DEF WellFormed, StreamToolCall, settings

\* The result of the call that ends is the first for it.
LEMMA ToolEndsWF == ASSUME WellFormed, ToolEnds PROVE WellFormed'
  <1>1. TypeOK /\ CallsOK /\ PlaceOK
    BY DEF WellFormed
  <1> DEFINE call == called[answered + 1]
             b == Block(IF native THEN call ELSE NoCall, call)
  <1>2. /\ called \in Seq(1 .. MaxTokens) /\ answered \in 0 .. Len(called) /\ answered < Len(called)
        /\ results \in Seq(Blocks) /\ ~flushed /\ native \in BOOLEAN
        /\ answered' = answered + 1 /\ results' \in {results, Append(results, b)}
        /\ UNCHANGED <<native, called, flushed, spawns, clock>>
    BY <1>1 DEF TypeOK, ToolEnds, settings, children
  <1>3. /\ answered \in Nat /\ answered + 1 \in 1 .. Len(called) /\ answered + 1 \in 0 .. Len(called)
        /\ \A i \in 1 .. answered + 1 : i \in 1 .. answered \/ i = answered + 1
        /\ \A i \in 1 .. answered : i \in 1 .. answered + 1 /\ i # answered + 1
        /\ \A i \in 1 .. answered : i \in 1 .. Len(called)
        /\ answered + 1 \in 1 .. answered + 1
    <2> DEFINE n == Len(called)
    <2>1. n \in Nat
      BY <1>2, SequenceIndexes
    <2>2. answered \in 0 .. n /\ answered < n
      BY <1>2
    <2> HIDE DEF n
    <2>3. /\ answered \in Nat /\ answered + 1 \in 1 .. n /\ answered + 1 \in 0 .. n
          /\ \A i \in 1 .. answered + 1 : i \in 1 .. answered \/ i = answered + 1
          /\ \A i \in 1 .. answered : i \in 1 .. answered + 1 /\ i # answered + 1
          /\ \A i \in 1 .. answered : i \in 1 .. n
          /\ answered + 1 \in 1 .. answered + 1
      BY <2>1, <2>2
    <2> QED
      BY <2>3 DEF n
  <1>4. call \in 1 .. MaxTokens /\ call # NoCall /\ DOMAIN called = 1 .. Len(called)
    <2>1. DOMAIN called = 1 .. Len(called) /\ \A i \in DOMAIN called : called[i] \in 1 .. MaxTokens
      BY <1>2, SequenceIndexes
    <2>2. \A n \in 1 .. MaxTokens : n # NoCall
      BY DEF NoCall
    <2> QED
      BY <1>3, <2>1, <2>2
  <1>5. b \in Blocks /\ b.call = IF native THEN call ELSE NoCall
    <2>1. \A n \in 1 .. MaxTokens : n \in 0 .. MaxTokens
      BY BlockTypes
    <2> HIDE DEF call
    <2> QED
      BY <1>2, <1>4, <2>1, BlockTypes DEF Block, Blocks
  <1>6. results' \in Seq(Blocks)
    <2> HIDE DEF b
    <2> QED
      BY <1>2, <1>5
  <1>7. TypeOK'
    <2>1. answered' \in 0 .. Len(called')
      BY <1>2, <1>3
    <2>2. used' \in BOOLEAN
      BY <1>1 DEF TypeOK, ToolEnds
    <2> QED
      BY <1>1, <1>6, <2>1, <2>2 DEF TypeOK, ToolEnds, settings, children, bounds
  <1>8. CallsOK'
    <2> DEFINE old == IF native THEN {called[i] : i \in 1 .. answered} ELSE {}
               new == IF native THEN {called[i] : i \in 1 .. answered + 1} ELSE {}
    <2>1. /\ \A i, j \in DOMAIN called : called[i] = called[j] => i = j
          /\ CallsIn(results) \subseteq old /\ OnePerCall(results)
      BY <1>1 DEF CallsOK
    <2>2. old \subseteq new /\ (native => call \in new /\ call \notin old)
      BY <1>3, <1>4, <2>1
    <2>3. b.call # NoCall => b.call \in new /\ b.call \notin CallsIn(results)
      <3> HIDE DEF old, new, call
      <3> QED
        BY <1>5, <2>1, <2>2
    <2> HIDE DEF old, new, b
    <2>4. /\ CallsIn(Append(results, b)) = CallsIn(results) \cup ({b.call} \ {NoCall})
          /\ OnePerCall(Append(results, b))
      <3>1. b.call \notin CallsIn(results)
        BY <2>3 DEF CallsIn
      <3>2. results \in Seq(Blocks) /\ b \in Blocks
        BY <1>2, <1>5
      <3>3. CallsIn(Append(results, b)) = CallsIn(results) \cup ({b.call} \ {NoCall})
        BY <3>2, ContentAppend
      <3>4. OnePerCall(Append(results, b))
        BY <2>1, <3>1, <3>2, OnePerCallAppend
      <3> QED
        BY <3>3, <3>4
    <2>5. CallsIn(results') \subseteq new /\ OnePerCall(results')
      BY <1>2, <2>1, <2>2, <2>3, <2>4
    <2>6. CallsIn(results') \subseteq IF native' THEN {called'[i] : i \in 1 .. answered'} ELSE {}
      BY <1>2, <2>5 DEF new
    <2>7. /\ \A i, j \in DOMAIN called' : called'[i] = called'[j] => i = j
          /\ \A i \in DOMAIN called' : called'[i] < clock'
      BY <1>1, <1>2 DEF CallsOK
    <2> QED
      BY <1>2, <2>5, <2>6, <2>7 DEF CallsOK
  <1>9. PlaceOK'
    BY <1>1 DEF PlaceOK, ToolEnds, settings, children, bounds, CallBlocks
  <1> QED
    BY <1>1, <1>7, <1>8, <1>9 DEF WellFormed, ToolEnds, settings

\* The assistant message has the calls of the response.
LEMMA StreamEndsWF == ASSUME WellFormed, StreamEnds PROVE WellFormed'
  <1>1. TypeOK /\ CallsOK /\ PlaceOK /\ HistoryOK(native, history)
    BY DEF WellFormed
  <1> DEFINE m == Assistant(CallBlocks)
  <1>2. CallBlocks \in Seq(Blocks) /\ CallsOnly(CallBlocks) /\ OnePerCall(CallBlocks)
        /\ (~native => CallBlocks = <<>>)
    BY <1>1, CallBlocksOK
  <1>3. history' = Append(history, m) /\ disk' = Append(history, m)
    BY DEF StreamEnds, Save, CallBlocks
  <1>4. m \in Messages /\ m.role = "assistant" /\ m.content = CallBlocks
    BY <1>2, MessageTypes
  <1>5. MessageFits(native, history, m)
    BY <1>2, <1>4 DEF MessageFits
  <1>6. history \in Seq(Messages)
    BY <1>1 DEF TypeOK
  <1>7. UNCHANGED <<native, called, answered, results, used, flushed, clock, spawns>>
    BY DEF StreamEnds, settings, response, children
  <1>8. CallBlocks' = CallBlocks
    BY <1>7 DEF CallBlocks
  <1> HIDE DEF m
  <1>9. /\ history' \in Seq(Messages) /\ HistoryOK(native, history')
        /\ Last(history') = m /\ history' # <<>>
    BY <1>3, <1>4, <1>5, <1>6, <1>1, HistoryAppend, FrontAppend
  <1>10. TypeOK'
    BY <1>1, <1>3, <1>9 DEF TypeOK, StreamEnds, settings, response, children, bounds
  <1>11. CallsOK'
    BY <1>1, <1>7, CallsKept
  <1>12. PlaceOK'
    BY <1>1, <1>8, <1>9 DEF PlaceOK, StreamEnds, settings, response, children, bounds, m
  <1> QED
    BY <1>3, <1>7, <1>9, <1>10, <1>11, <1>12 DEF WellFormed

\* A broken stream leaves the conversation as it was.
LEMMA StreamFailsWF == ASSUME WellFormed, StreamFails PROVE WellFormed'
  <1>1. TypeOK /\ CallsOK /\ PlaceOK
    BY DEF WellFormed
  <1>2. /\ CallsOK' /\ called' \in Seq(1 .. MaxTokens) /\ answered' \in 0 .. Len(called')
        /\ results' \in Seq(Blocks) /\ used' \in BOOLEAN /\ flushed' \in BOOLEAN
    BY CallsReset DEF StreamFails
  <1>3. failures' \in 0 .. MaxFailures
    BY <1>1, Counts, CountOK DEF StreamFails
  <1>4. mistaken' \in BOOLEAN /\ (mistaken' => mistakeLimit)
    BY <1>1 DEF StreamFails, TypeOK
  <1>5. item' \in [content : Seq(Blocks), attempt : {"first", "again", "readd", "resumed"}]
    BY <1>1 DEF StreamFails, TypeOK
  <1>6. TypeOK'
    BY <1>1, <1>2, <1>3, <1>4, <1>5 DEF TypeOK, StreamFails, settings, children
  <1>7. PlaceOK'
    BY <1>1, <1>4 DEF PlaceOK, StreamFails, settings, NoResponse, children
  <1> QED
    BY <1>2, <1>6, <1>7 DEF WellFormed, StreamFails, settings

\* An empty response takes away at most the last message.
LEMMA EmptyResponseWF == ASSUME WellFormed, EmptyResponse PROVE WellFormed'
  <1>1. TypeOK /\ CallsOK /\ PlaceOK /\ HistoryOK(native, history)
    BY DEF WellFormed
  <1>2. history \in Seq(Messages) /\ (LastRole(history) = "user" => history # <<>>)
    BY <1>1 DEF TypeOK, LastRole
  <1>3. history' \in Seq(Messages) /\ HistoryOK(native, history')
    BY <1>1, <1>2, FrontOK DEF EmptyResponse
  <1>4. empties' \in 0 .. MaxEmpty /\ empties' > 0
    BY <1>1, Counts, CountOK DEF EmptyResponse
  <1>5. item' \in [content : Seq(Blocks), attempt : {"first", "again", "readd", "resumed"}]
        /\ pc' \in {"start", "decide"}
    BY <1>1 DEF EmptyResponse, TypeOK
  <1>6. TypeOK'
    BY <1>1, <1>3, <1>4, <1>5 DEF TypeOK, EmptyResponse, settings, response, children
  <1>7. CallsOK' /\ ~flushed
    <2>1. ~flushed
      <3>1. called = <<>> /\ answered \in 0 .. Len(called)
        BY <1>1 DEF EmptyResponse, TypeOK
      <3>2. ~(answered < Len(called))
        BY <3>1
      <3> QED
        BY <1>1, <3>2 DEF CallsOK
    <2> QED
      BY <1>1, <2>1, CallsKept DEF EmptyResponse, settings, response, children
  <1>8. PlaceOK'
    BY <1>1, <1>4, <1>7 DEF PlaceOK, EmptyResponse, settings, response, children
  <1> QED
    BY <1>3, <1>6, <1>7, <1>8 DEF WellFormed, EmptyResponse, settings

\* A retry by hand changes only the item.
LEMMA RetryByHandWF == ASSUME WellFormed, RetryByHand PROVE WellFormed'
  <1>1. TypeOK /\ CallsOK /\ PlaceOK
    BY DEF WellFormed
  <1>2. TypeOK'
    BY <1>1 DEF TypeOK, RetryByHand, settings, response, children, bounds
  <1>3. CallsOK'
    BY <1>1, CallsKept DEF RetryByHand, settings, response, children
  <1>4. PlaceOK'
    BY <1>1 DEF PlaceOK, RetryByHand, settings, response, children, bounds
  <1> QED
    BY <1>2, <1>3, <1>4 DEF WellFormed, RetryByHand, settings

\* The empty message of an assistant fits everywhere.
LEMMA EmptyAnswerFits ==
    ASSUME NEW byId, NEW h \in Seq(Messages)
    PROVE  Assistant(<<>>) \in Messages /\ MessageFits(byId, h, Assistant(<<>>))
  <1>1. <<>> \in Seq(Blocks) /\ CallsOnly(<<>>) /\ OnePerCall(<<>>)
    BY EmptyContent DEF CallsOnly
  <1>2. /\ Assistant(<<>>) \in Messages /\ Assistant(<<>>).role = "assistant"
        /\ Assistant(<<>>).content = <<>>
    BY <1>1, MessageTypes
  <1> QED
    BY <1>1, <1>2 DEF MessageFits

\* Giving up adds the user message and an empty answer.
LEMMA GiveUpWF == ASSUME WellFormed, GiveUp PROVE WellFormed'
  <1>1. TypeOK /\ CallsOK /\ PlaceOK /\ HistoryOK(native, history)
    BY DEF WellFormed
  <1> DEFINE asked == IF native THEN AddUserMessage(history, item.content) ELSE history
             m == Assistant(<<>>)
  <1>2. history \in Seq(Messages) /\ item.content \in Seq(Blocks)
    BY <1>1 DEF TypeOK
  <1>3. asked \in Seq(Messages) /\ HistoryOK(native, asked)
    BY <1>1, <1>2, AddUserMessageOK
  <1>4. history' = Append(asked, m) /\ disk' = Append(asked, m)
    BY DEF GiveUp, Save
  <1> HIDE DEF asked, m
  <1>5. m \in Messages /\ MessageFits(native, asked, m)
    BY <1>3, EmptyAnswerFits DEF m
  <1>6. history' \in Seq(Messages) /\ HistoryOK(native, history')
    BY <1>3, <1>4, <1>5, HistoryAppend
  <1>7. item' \in [content : Seq(Blocks), attempt : {"first", "again", "readd", "resumed"}]
    BY ReminderContent DEF GiveUp, Item
  <1>8. TypeOK'
    BY <1>1, <1>4, <1>6, <1>7 DEF TypeOK, GiveUp, settings, response, children, bounds
  <1>9. CallsOK'
    BY <1>1, CallsKept DEF GiveUp, settings, response, children
  <1>10. PlaceOK'
    BY <1>1 DEF PlaceOK, GiveUp, settings, response, children, bounds
  <1> QED
    BY <1>4, <1>6, <1>8, <1>9, <1>10 DEF WellFormed, GiveUp, settings

\* The results become the item.
LEMMA NextItemWF == ASSUME WellFormed, NextItem PROVE WellFormed'
  <1>1. TypeOK /\ CallsOK /\ PlaceOK
    BY DEF WellFormed
  <1>2. results \in Seq(Blocks) /\ told \subseteq 1 .. MaxTokens
    BY <1>1 DEF TypeOK
  <1>3. item' \in [content : Seq(Blocks), attempt : {"first", "again", "readd", "resumed"}]
    BY <1>2, ReminderContent DEF NextItem, Item
  <1>4. told' \subseteq 1 .. MaxTokens
    BY <1>2, ContentType DEF NextItem
  <1>5. mistaken' \in BOOLEAN /\ (mistaken' => mistakeLimit)
    <2>1. mistakeLimit \in BOOLEAN
      BY <1>1 DEF TypeOK
    <2>2. CASE mistaken' = FALSE
      BY <2>2
    <2>3. CASE mistaken' = mistakeLimit
      BY <2>1, <2>3
    <2>4. mistaken' \in {FALSE, mistakeLimit}
      BY DEF NextItem
    <2> QED
      BY <2>2, <2>3, <2>4
  <1>6. TypeOK'
    BY <1>1, <1>3, <1>4, <1>5 DEF TypeOK, NextItem, settings, response, children, bounds
  <1>7. CallsOK'
    BY <1>1, CallsKept DEF NextItem, settings, response, children
  <1>8. ~flushed
    <2>1. answered \in Nat /\ answered = Len(called)
      BY <1>1, SequenceIndexes DEF TypeOK, NextItem
    <2>2. ~(answered < Len(called))
      BY <2>1
    <2> QED
      BY <1>1, <2>2 DEF CallsOK
  <1>9. PlaceOK'
    BY <1>1, <1>5, <1>8 DEF PlaceOK, NextItem, settings, response, children, bounds
  <1> QED
    BY <1>1, <1>6, <1>7, <1>9 DEF WellFormed, NextItem, settings

\* A task that was closed has nothing in memory.
LEMMA Forgotten ==
    ASSUME Forget
    PROVE  /\ pc' = "closed" /\ history' = <<>> /\ history' \in Seq(Messages) /\ mistaken' = FALSE
           /\ item' \in [content : Seq(Blocks), attempt : {"first", "again", "readd", "resumed"}]
           /\ told' = {} /\ HistoryOK(native', history') /\ flushed' = FALSE
           /\ CallsOK' /\ called' \in Seq(1 .. MaxTokens) /\ answered' \in 0 .. Len(called')
           /\ results' \in Seq(Blocks) /\ used' \in BOOLEAN
  <1>1. <<>> \in Seq(Messages) /\ <<>> \in Seq(Blocks)
    OBVIOUS
  <1>2. HistoryOK(native', <<>>)
    BY HistoryEmpty
  <1>3. /\ CallsOK' /\ called' \in Seq(1 .. MaxTokens) /\ answered' \in 0 .. Len(called')
        /\ results' \in Seq(Blocks) /\ used' \in BOOLEAN /\ flushed' = FALSE
    BY CallsReset DEF Forget, NoResponse
  <1> QED
    BY <1>1, <1>2, <1>3 DEF Forget, NoItem, Item

\* A closed task has only what is on disk.
LEMMA CloseWF == ASSUME WellFormed, Close PROVE WellFormed'
  <1>1. TypeOK /\ CallsOK /\ PlaceOK /\ HistoryOK(native, disk)
    BY DEF WellFormed
  <1>2. Forget /\ UNCHANGED <<settings, disk, children, clock, failures, empties>>
    BY DEF Close
  <1>3. closes' \in 0 .. MaxCloses
    BY <1>1, Counts, CountOK DEF Close
  <1>4. TypeOK'
    BY <1>1, <1>2, <1>3, Forgotten DEF TypeOK, settings, children
  <1>5. PlaceOK'
    BY <1>1, <1>2, Forgotten DEF PlaceOK, Close, settings, children
  <1> QED
    BY <1>1, <1>2, <1>4, <1>5, Forgotten DEF WellFormed, settings

\* A resumed task has what is kept of that.
LEMMA ResumeWF == ASSUME WellFormed, Resume PROVE WellFormed'
  <1>1. TypeOK /\ CallsOK /\ PlaceOK /\ HistoryOK(native, disk) /\ disk \in Seq(Messages)
    BY DEF WellFormed, TypeOK
  <1>2. KeptPart(disk) \in Seq(Messages) /\ HistoryOK(native, KeptPart(disk))
    BY <1>1, ResumedContentOK
  <1>3. /\ history' = KeptPart(disk) /\ disk' = KeptPart(disk)
        /\ pc' = "start" /\ reporting = NoCall /\ pc = "closed"
        /\ told' = AllTokens(KeptPart(disk)) \union TokensOf(item'.content)
        /\ UNCHANGED <<settings, mistaken, response, children, bounds>>
    BY ResumeDoes
  <1>4. /\ item' \in [content : Seq(Blocks), attempt : {"first", "again", "readd", "resumed"}]
        /\ item'.content \in Seq(Blocks)
        /\ clock' \in 1 .. MaxTokens /\ clock' \in {clock, clock + 1}
    BY ResumedItem
  <1>5. told' \subseteq 1 .. MaxTokens
    <2>1. TokensOf(item'.content) \subseteq 1 .. MaxTokens
      BY <1>4, ContentType
    <2>2. AllTokens(KeptPart(disk)) \subseteq 1 .. MaxTokens
      BY <1>2, AllTokensType
    <2> QED
      BY <1>3, <2>1, <2>2
  <1>6. TypeOK'
    BY <1>1, <1>2, <1>3, <1>4, <1>5 DEF TypeOK, settings, response, children, bounds
  <1>7. CallsOK'
    BY <1>1, <1>3, <1>4, CallsKept DEF settings, response, children
  <1>8. PlaceOK'
    BY <1>1, <1>3 DEF PlaceOK, settings, response, children, bounds
  <1> QED
    BY <1>2, <1>3, <1>6, <1>7, <1>8 DEF WellFormed, settings

\* The results are checked as any content.
LEMMA FlushResultsWF == ASSUME WellFormed, FlushResults PROVE WellFormed'
  <1>1. TypeOK /\ CallsOK /\ PlaceOK /\ HistoryOK(native, history) /\ HistoryOK(native, disk)
    BY DEF WellFormed
  <1>2. history \in Seq(Messages) /\ disk \in Seq(Messages) /\ results \in Seq(Blocks)
        /\ told \subseteq 1 .. MaxTokens
    BY <1>1 DEF TypeOK
  <1>3. /\ history' \in Seq(Messages) /\ disk' \in Seq(Messages)
        /\ HistoryOK(native, history') /\ HistoryOK(native, disk')
    BY <1>1, <1>2, AddUserMessageOK DEF FlushResults, Save
  <1>4. told' \subseteq 1 .. MaxTokens
    BY <1>2, ContentType DEF FlushResults
  <1>5. results' = <<>> /\ <<>> \in Seq(Blocks) /\ CallsIn(<<>>) = {} /\ OnePerCall(<<>>)
    BY EmptyContent DEF FlushResults
  <1>6. TypeOK'
    BY <1>1, <1>3, <1>4, <1>5 DEF TypeOK, FlushResults, settings, children, bounds
  <1>7. CallsOK'
    BY <1>1, <1>5 DEF CallsOK, FlushResults, settings, children
  <1>8. PlaceOK'
    BY <1>1 DEF PlaceOK, FlushResults, settings, children, bounds
  <1> QED
    BY <1>3, <1>6, <1>7, <1>8 DEF WellFormed, FlushResults, settings

\* The subtask is a call of the response whose tool is new_task.
LEMMA OpenChildWF == ASSUME WellFormed, OpenChild PROVE WellFormed'
  <1>1. TypeOK /\ CallsOK /\ PlaceOK /\ HistoryOK(native, disk)
    BY DEF WellFormed
  <1>2. Forget /\ UNCHANGED <<settings, disk, spawns, reporting, clock, bounds>>
    BY DEF OpenChild
  <1>3. called[answered + 1] \in spawns
    BY <1>1 DEF CallsOK, OpenChild
  <1>4. active' \subseteq spawns' /\ active \subseteq active'
    BY <1>1, <1>2, <1>3 DEF TypeOK, OpenChild
  <1>5. TypeOK'
    BY <1>1, <1>2, <1>4, Forgotten DEF TypeOK, settings, bounds
  <1>6. PlaceOK'
    BY <1>1, <1>2, Forgotten DEF PlaceOK, OpenChild, settings, bounds
  <1> QED
    BY <1>1, <1>2, <1>5, <1>6, Forgotten DEF WellFormed, settings

\* The saved conversation has the result of the subtask that reports.
LEMMA ChildReportsWF ==
    ASSUME WellFormed, NEW child \in active, ChildReports(child)
    PROVE  WellFormed'
  <1>1. TypeOK /\ CallsOK /\ PlaceOK /\ HistoryOK(native, disk) /\ HistoryOK(native, history)
    BY DEF WellFormed
  <1>2. disk \in Seq(Messages) /\ spawns \subseteq 1 .. MaxTokens /\ child \in 1 .. MaxTokens
    BY <1>1 DEF TypeOK
  <1>3. disk' = WithResult(disk, child)
    BY DEF ChildReports
  <1>4. disk' \in Seq(Messages) /\ HistoryOK(native, disk') /\ child \in AllTokens(disk')
    BY <1>1, <1>2, <1>3, WithResultOK
  <1>5. TypeOK'
    BY <1>1, <1>4 DEF TypeOK, ChildReports, settings, response, bounds
  <1>6. CallsOK'
    BY <1>1, CallsKept DEF ChildReports, settings, response
  <1>7. PlaceOK'
    BY <1>1, <1>4 DEF PlaceOK, ChildReports, settings, response, bounds, CallBlocks
  <1> QED
    BY <1>1, <1>4, <1>5, <1>6, <1>7 DEF WellFormed, ChildReports, settings

\* The reopened task has the saved conversation.
LEMMA ReopenParentWF == ASSUME WellFormed, ReopenParent PROVE WellFormed'
  <1>1. TypeOK /\ CallsOK /\ PlaceOK /\ HistoryOK(native, disk)
    BY DEF WellFormed
  <1>2. disk \in Seq(Messages) /\ reporting \in 1 .. MaxTokens
    BY <1>1 DEF TypeOK, ReopenParent
  <1>3. told' \subseteq 1 .. MaxTokens
    BY <1>2, AllTokensType DEF ReopenParent
  <1>4. <<>> \in Seq(Blocks)
    OBVIOUS
  <1>5. TypeOK'
    BY <1>1, <1>2, <1>3, <1>4 DEF TypeOK, ReopenParent, settings, response, bounds, Item
  <1>6. CallsOK'
    BY <1>1, CallsKept DEF ReopenParent, settings, response
  <1>7. PlaceOK'
    BY <1>1 DEF PlaceOK, ReopenParent, settings, response, bounds
  <1> QED
    BY <1>1, <1>5, <1>6, <1>7 DEF WellFormed, ReopenParent, settings

\* A lost window leaves the saved conversation as it was.
LEMMA ReopenLostWF == ASSUME WellFormed, ReopenLost PROVE WellFormed'
  <1>1. TypeOK /\ CallsOK /\ PlaceOK
    BY DEF WellFormed
  <1>2. closes' \in 0 .. MaxCloses
    BY <1>1, Counts, CountOK DEF ReopenLost
  <1>3. TypeOK'
    BY <1>1, <1>2 DEF TypeOK, ReopenLost, settings, response
  <1>4. CallsOK'
    BY <1>1, CallsKept DEF ReopenLost, settings, response
  <1>5. PlaceOK'
    BY <1>1 DEF PlaceOK, ReopenLost, settings, response, CallBlocks
  <1> QED
    BY <1>1, <1>3, <1>4, <1>5 DEF WellFormed, ReopenLost, settings

\* A new task, or one saved after its first exchange, is well formed.
LEMMA InitWF == ASSUME Init PROVE WellFormed
  <1>1. MaxTokens \in Nat /\ MaxTokens >= 2 /\ 1 \in 1 .. MaxTokens /\ 2 \in 1 .. MaxTokens
    BY ConversationAssumption, BlockTypes
  <1>2. Text(1) \in Blocks
    BY <1>1, BlockTypes, TextBlock
  <1>3. <<Text(1)>> \in Seq(Blocks) /\ <<>> \in Seq(Blocks) /\ <<>> \in Seq(Messages)
    BY <1>2
  <1>4. ASSUME NEW byId
        PROVE  /\ HistoryOK(byId, <<User(<<Text(1)>>), Assistant(<<>>)>>)
               /\ <<User(<<Text(1)>>), Assistant(<<>>)>> \in Seq(Messages)
    <2> DEFINE m == User(<<Text(1)>>)
               a == Assistant(<<>>)
    <2>1. m \in Messages /\ m.role = "user"
      BY <1>3, MessageTypes
    <2>2. a \in Messages
      BY <1>3, MessageTypes
    <2>3. MessageFits(byId, <<>>, m)
      BY <2>1, LastCallsEmpty DEF MessageFits
    <2> HIDE DEF m, a
    <2>4. <<m>> = Append(<<>>, m) /\ <<m, a>> = Append(<<m>>, a) /\ <<m>> \in Seq(Messages)
      BY <2>1, <2>2
    <2>5. HistoryOK(byId, <<m>>)
      BY <1>3, <2>1, <2>3, <2>4, HistoryEmpty, HistoryAppend
    <2>6. MessageFits(byId, <<m>>, a)
      BY <2>4, EmptyAnswerFits DEF a
    <2>7. HistoryOK(byId, Append(<<m>>, a)) /\ Append(<<m>>, a) \in Seq(Messages)
      <3> DEFINE h == <<m>>
      <3> HIDE DEF h
      <3>1. h \in Seq(Messages) /\ HistoryOK(byId, h) /\ MessageFits(byId, h, a)
        BY <2>4, <2>5, <2>6 DEF h
      <3>2. HistoryOK(byId, Append(h, a)) /\ Append(h, a) \in Seq(Messages)
        BY <2>2, <3>1, HistoryAppend
      <3> QED
        BY <3>2 DEF h
    <2> QED
      BY <2>4, <2>7 DEF m, a
  <1>5. history \in Seq(Messages) /\ HistoryOK(native, history) /\ disk = history
    BY <1>3, <1>4, HistoryEmpty DEF Init
  <1>6. item \in [content : Seq(Blocks), attempt : {"first", "again", "readd", "resumed"}]
    BY <1>3 DEF Init, Item
  <1>7. called \in Seq(1 .. MaxTokens) /\ answered \in 0 .. Len(called) /\ results \in Seq(Blocks)
    <2>1. <<>> \in Seq(1 .. MaxTokens) /\ 0 \in 0 .. Len(<<>>)
      OBVIOUS
    <2> QED
      BY <1>3, <2>1 DEF Init
  <1>8. failures \in 0 .. MaxFailures /\ empties \in 0 .. MaxEmpty /\ closes \in 0 .. MaxCloses
    BY ConversationAssumption DEF Init
  <1>9. TypeOK
    BY <1>1, <1>5, <1>6, <1>7, <1>8 DEF TypeOK, Init
  <1>10. CallsOK
    BY EmptyContent DEF Init, CallsOK
  <1>11. PlaceOK
    BY DEF Init, PlaceOK
  <1> QED
    BY <1>5, <1>9, <1>10, <1>11 DEF WellFormed

\* Every step keeps the form.
LEMMA StepWF == ASSUME WellFormed, [Next]_vars PROVE WellFormed'
  <1>1. CASE UNCHANGED vars
    BY <1>1 DEF vars, WellFormed, TypeOK, CallsOK, PlaceOK, CallBlocks
  <1>2. CASE Next
    BY <1>2, GuidanceWF, SendRequestWF, StreamToolCallWF, ToolEndsWF, StreamEndsWF,
       StreamFailsWF, EmptyResponseWF, RetryByHandWF, GiveUpWF, NextItemWF, CloseWF,
       ResumeWF, FlushResultsWF, OpenChildWF, ChildReportsWF, ReopenParentWF, ReopenLostWF
       DEF Next
  <1> QED
    BY <1>1, <1>2

\* The conversation of a task is well formed at every moment, on disk and in
\* memory: each user message has been checked against the calls before it
\* (Task.ts, addToApiConversationHistory and validateAndFixToolResultIds).
THEOREM AlwaysWellFormed == Spec => []WellFormed
  BY InitWF, StepWF, PTL DEF Spec

\* Every variable has its type.
THEOREM TypeCorrect == Spec => []TypeOK
  <1>1. WellFormed => TypeOK
    BY DEF WellFormed
  <1> QED
    BY <1>1, AlwaysWellFormed, PTL

-----------------------------------------------------------------------------
(* In a plain task the roles alternate and calls are answered in turn. *)

\* A plain task was plain before.
LEMMA PlainTask ==
    ASSUME WellFormed, [Next]_vars, Plain'
    PROVE  Plain
  <1>1. empties \in Nat /\ empties' \in Nat
    <2>1. WellFormed'
      BY StepWF
    <2> QED
      BY <2>1, ConversationAssumption DEF WellFormed, TypeOK
  <1>2. spawns \subseteq spawns' /\ UNCHANGED <<native, autoApproval, mistakeLimit>>
        /\ (empties > 0 => empties' > 0)
    <2>1. CASE EmptyResponse
      BY <1>1, <2>1 DEF EmptyResponse, children, settings
    <2>2. CASE StreamToolCall
      BY <2>2 DEF StreamToolCall, bounds, settings
    <2>3. CASE Guidance \/ SendRequest \/ StreamEnds \/ RetryByHand \/ GiveUp \/ NextItem \/ Resume
      BY <2>3 DEF Guidance, SendRequest, StreamEnds, RetryByHand, GiveUp, NextItem, Resume,
         children, bounds, settings
    <2>4. CASE ToolEnds \/ FlushResults
      BY <2>4 DEF ToolEnds, FlushResults, children, bounds, settings
    <2>5. CASE OpenChild \/ ReopenParent \/ ReopenLost \/ (\E child \in active : ChildReports(child))
      BY <2>5 DEF OpenChild, ReopenParent, ReopenLost, ChildReports, bounds, settings
    <2>6. CASE StreamFails \/ Close
      BY <2>6 DEF StreamFails, Close, children, settings
    <2>7. CASE UNCHANGED vars
      BY <2>7 DEF vars
    <2> QED
      BY <2>1, <2>2, <2>3, <2>4, <2>5, <2>6, <2>7 DEF Next
  <1> QED
    BY <1>2 DEF Plain

\* A plain task has no subtask and asks for no retry by hand.
LEMMA PlainState ==
    ASSUME WellFormed, Plain
    PROVE  /\ ~flushed /\ active = {} /\ reporting = NoCall /\ pc # "decide"
           /\ \A i : called[i] \notin spawns
  BY DEF WellFormed, TypeOK, CallsOK, PlaceOK, Plain

\* Every step keeps the turns.
LEMMA InTurnStep == ASSUME WellFormed, InTurn, [Next]_vars PROVE InTurn'
  <1> SUFFICES ASSUME Plain'
               PROVE  /\ (Alternates(history) /\ Alternates(disk))'
                      /\ (AnswersFollow(history) /\ AnswersFollow(disk))'
                      /\ (pc = "start" => item.attempt # "resumed")'
                      /\ (pc = "start" /\ AddsUserMessage => LastRole(history) # "user" /\ Follows(history))'
                      /\ (pc = "stream" \/ (pc = "start" /\ ~AddsUserMessage)
                            => LastRole(history) = "user" /\ Follows(Front(history)))'
    BY DEF InTurn
  <1>1. Plain
    BY PlainTask
  <1>2. /\ Alternates(history) /\ Alternates(disk)
        /\ AnswersFollow(history) /\ AnswersFollow(disk)
        /\ pc = "start" => item.attempt # "resumed"
        /\ pc = "start" /\ AddsUserMessage => LastRole(history) # "user" /\ Follows(history)
        /\ pc = "stream" \/ (pc = "start" /\ ~AddsUserMessage)
             => LastRole(history) = "user" /\ Follows(Front(history))
    BY <1>1 DEF InTurn
  <1>3. /\ TypeOK /\ CallsOK /\ PlaceOK /\ HistoryOK(native, history) /\ HistoryOK(native, disk)
        /\ history \in Seq(Messages) /\ disk \in Seq(Messages) /\ item.content \in Seq(Blocks)
    BY DEF WellFormed, TypeOK
  <1>4. ~flushed /\ active = {} /\ reporting = NoCall /\ pc # "decide"
        /\ \A i : called[i] \notin spawns
    BY <1>1, PlainState
  <1>5. CASE UNCHANGED vars
    BY <1>2, <1>5 DEF vars, AddsUserMessage, Follows
  <1>6. CASE Guidance
    <2>1. CallsIn(item'.content) = CallsIn(item.content) /\ item'.attempt = item.attempt
      <3>1. CASE Fresh /\ item' = [item EXCEPT !.content = Append(@, Text(clock))]
        <4>1. clock \in 1 .. MaxTokens /\ item'.content = Append(item.content, Text(clock))
              /\ item'.attempt = item.attempt
          BY <1>3, <3>1, FreshOK DEF TypeOK
        <4> QED
          BY <1>3, <4>1, ContentWithText
      <3>2. CASE UNCHANGED item
        BY <3>2
      <3> QED
        BY <1>6, <3>1, <3>2 DEF Guidance
    <2> QED
      BY <1>2, <1>6, <2>1 DEF Guidance, AddsUserMessage, Follows
  <1>7. CASE SendRequest
    <2>1. pc = "start" /\ pc' = "stream" /\ UNCHANGED item
      BY <1>7 DEF SendRequest
    <2>2. CASE AddsUserMessage
      <3> DEFINE m == User(ValidResults(item.content, history))
      <3>1. LastRole(history) # "user" /\ Follows(history)
        BY <1>2, <2>1, <2>2
      <3>2. history' = Append(history, m) /\ disk' = history'
        BY <1>3, <1>7, <2>2, AddedMessage DEF SendRequest, Save
      <3>3. /\ m \in Messages /\ m.role = "user" /\ MessageFits(native, history, m)
            /\ LastCalls(history) = <<>> => m.content = item.content
        BY <1>3, AddedMessage
      <3> HIDE DEF m
      <3>4. LastRole(history) = "assistant" => CallsIn(m.content) \subseteq CallsIn(Last(history).content)
        <4> SUFFICES ASSUME LastRole(history) = "assistant"
                     PROVE  CallsIn(m.content) \subseteq CallsIn(Last(history).content)
          OBVIOUS
        <4>1. history # <<>>
          BY DEF LastRole
        <4>2. LastCalls(history) = Last(history).content
          BY <1>3, <4>1, FrontOK
        <4> QED
          BY <3>1, <3>3, <4>2 DEF MessageFits, Follows
      <3>5. Alternates(history') /\ AnswersFollow(history')
        BY <1>2, <1>3, <3>1, <3>2, <3>3, <3>4, AlternatesAppend, AnswersFollowAppend
      <3>6. LastRole(history') = "user" /\ Front(history') = history
        BY <1>3, <3>2, <3>3, FrontAppend
      <3> QED
        BY <2>1, <3>1, <3>2, <3>5, <3>6 DEF Follows
    <2>3. CASE ~AddsUserMessage
      BY <1>2, <1>7, <2>1, <2>3 DEF SendRequest, Follows
    <2> QED
      BY <2>2, <2>3
  <1>8. CASE StreamToolCall \/ ToolEnds
    BY <1>2, <1>8 DEF StreamToolCall, ToolEnds, AddsUserMessage, Follows
  <1>9. CASE StreamEnds
    <2> DEFINE m == Assistant(CallBlocks)
    <2>1. m \in Messages /\ m.role = "assistant"
      BY <1>3, CallBlocksOK, MessageTypes
    <2>2. history' = Append(history, m) /\ disk' = history' /\ pc = "stream" /\ pc' = "tools"
      BY <1>9 DEF StreamEnds, Save, CallBlocks
    <2> HIDE DEF m
    <2>3. Alternates(history') /\ AnswersFollow(history')
      BY <1>2, <1>3, <2>1, <2>2, AlternatesAppend, AnswersFollowAppend
    <2> QED
      BY <2>2, <2>3
  <1>10. CASE StreamFails
    <2>1. /\ pc = "stream" /\ pc' = "start" /\ item' = [item EXCEPT !.attempt = "again"]
          /\ UNCHANGED <<history, disk>>
      BY <1>10 DEF StreamFails
    <2>2. item'.attempt = "again" /\ item'.content = item.content
      BY <1>3, <2>1 DEF TypeOK
    <2> QED
      BY <1>2, <2>1, <2>2 DEF AddsUserMessage, Follows
  <1>11. CASE EmptyResponse
    <2>1. autoApproval /\ native
      <3>1. empties' > 0 /\ UNCHANGED <<autoApproval, native>>
        BY <1>3, <1>11, Counts, CountOK DEF EmptyResponse, settings
      <3> QED
        BY <3>1 DEF Plain
    <2>2. LastRole(history) = "user" /\ Follows(Front(history)) /\ history # <<>>
      BY <1>2, <1>11 DEF EmptyResponse, LastRole
    <2>3. /\ history' = Front(history) /\ pc' = "start" /\ item' = [item EXCEPT !.attempt = "readd"]
          /\ disk' = disk
      BY <1>11, <2>1, <2>2 DEF EmptyResponse
    <2>4. item'.attempt = "readd" /\ item'.content = item.content
      BY <1>3, <2>3 DEF TypeOK
    <2>5. Alternates(Front(history)) /\ AnswersFollow(Front(history)) /\ LastRole(Front(history)) # "user"
      BY <1>2, <1>3, <2>2, TurnsFront
    <2>6. AddsUserMessage'
      BY <2>4 DEF AddsUserMessage
    <2> QED
      BY <1>2, <2>2, <2>3, <2>4, <2>5, <2>6 DEF Follows
  <1>12. CASE NextItem
    <2>1. pc = "tools" /\ pc' = "start" /\ UNCHANGED <<history, disk>>
          /\ item' = Item(IF results = <<>> THEN Reminder ELSE results, "first")
      BY <1>12 DEF NextItem
    <2>2. history # <<>> /\ Last(history) = Assistant(CallBlocks)
      BY <1>3, <1>4, <2>1 DEF PlaceOK
    <2>3. CallBlocks \in Seq(Blocks) /\ CallsIn(results) \subseteq CallsIn(CallBlocks)
      BY <1>3, CallBlocksOK
    <2>4. Last(history).role = "assistant" /\ Last(history).content = CallBlocks
      BY <2>2, <2>3, MessageTypes
    <2>5. LastRole(history) = "assistant"
      BY <2>2, <2>4 DEF LastRole
    <2>6. CallsIn(item'.content) \subseteq CallsIn(CallBlocks) /\ item'.attempt = "first"
      BY <2>1, <2>3, ReminderContent DEF Item
    <2>7. Follows(history)' /\ AddsUserMessage'
      BY <2>1, <2>4, <2>6 DEF Follows, AddsUserMessage
    <2> QED
      BY <1>2, <2>1, <2>5, <2>6, <2>7
  <1>13. CASE Close
    BY <1>2, <1>13, TurnsEmpty DEF Close, Forget
  <1>14. CASE Resume
    <2>1. pc' = "start" /\ history' = KeptPart(disk) /\ disk' = KeptPart(disk)
      BY <1>14, ResumeDoes
    <2>2. item'.attempt = "first" /\ CallsIn(item'.content) = CallsIn(ResumedContent(disk))
      BY <1>14, ResumedItem
    <2>3. /\ Alternates(KeptPart(disk)) /\ LastRole(KeptPart(disk)) # "user"
          /\ AnswersFollow(KeptPart(disk))
          /\ LastRole(KeptPart(disk)) = "assistant"
               => CallsIn(ResumedContent(disk)) \subseteq CallsIn(Last(KeptPart(disk)).content)
      BY <1>2, <1>3, ResumedContentOK
    <2>4. Follows(history)' /\ AddsUserMessage'
      BY <2>1, <2>2, <2>3 DEF Follows, AddsUserMessage
    <2> QED
      BY <2>1, <2>2, <2>3, <2>4
  <1>15. CASE RetryByHand \/ GiveUp \/ FlushResults \/ OpenChild \/ ReopenParent \/ ReopenLost
              \/ (\E child \in active : ChildReports(child))
    BY <1>4, <1>15 DEF RetryByHand, GiveUp, FlushResults, OpenChild, ReopenParent, ReopenLost
  <1> QED
    BY <1>5, <1>6, <1>7, <1>8, <1>9, <1>10, <1>11, <1>12, <1>13, <1>14, <1>15 DEF Next

\* The first exchange is in turn.
LEMMA InTurnInit == ASSUME Init PROVE InTurn
  <1>1. WellFormed
    BY InitWF
  <1>2. CASE native
    <2>1. history = <<>> /\ disk = <<>> /\ pc = "start" /\ item.attempt = "first"
      BY <1>2 DEF Init, Item
    <2> QED
      BY <2>1, TurnsEmpty DEF InTurn, Follows, AddsUserMessage
  <1>3. CASE ~native
    <2> DEFINE m == User(<<Text(1)>>)
               a == Assistant(<<>>)
    <2>1. /\ m \in Messages /\ m.role = "user" /\ a \in Messages /\ a.role = "assistant"
      <3>1. Text(1) \in Blocks
        BY ConversationAssumption, BlockTypes, TextBlock
      <3>2. <<Text(1)>> \in Seq(Blocks) /\ <<>> \in Seq(Blocks)
        BY <3>1
      <3> QED
        BY <3>2, MessageTypes
    <2>2. history = <<m, a>> /\ disk = <<m, a>> /\ pc = "closed"
      BY <1>3 DEF Init
    <2> HIDE DEF m, a
    <2>3. /\ <<m>> = Append(<<>>, m) /\ <<m, a>> = Append(<<m>>, a)
          /\ <<m>> \in Seq(Messages) /\ <<>> \in Seq(Messages)
      BY <2>1
    <2>4. Alternates(<<m>>) /\ AnswersFollow(<<m>>) /\ LastRole(<<m>>) = "user"
      <3> DEFINE none == <<>>
      <3>1. /\ none \in Seq(Messages) /\ Alternates(none) /\ AnswersFollow(none)
            /\ LastRole(none) = "none" /\ <<m>> = Append(none, m)
        BY <2>3, TurnsEmpty
      <3> HIDE DEF none
      <3>2. Alternates(Append(none, m)) /\ AnswersFollow(Append(none, m))
        BY <2>1, <3>1, AlternatesAppend, AnswersFollowAppend
      <3>3. LastRole(Append(none, m)) = "user"
        BY <2>1, <3>1, FrontAppend
      <3> QED
        BY <3>1, <3>2, <3>3
    <2>5. Alternates(<<m, a>>) /\ AnswersFollow(<<m, a>>)
      <3> DEFINE h == <<m>>
      <3>1. /\ h \in Seq(Messages) /\ Alternates(h) /\ AnswersFollow(h)
            /\ LastRole(h) = "user" /\ <<m, a>> = Append(h, a)
        BY <2>3, <2>4
      <3> HIDE DEF h
      <3>2. Alternates(Append(h, a)) /\ AnswersFollow(Append(h, a))
        BY <2>1, <3>1, AlternatesAppend, AnswersFollowAppend
      <3> QED
        BY <3>1, <3>2
    <2> QED
      BY <2>2, <2>5 DEF InTurn
  <1> QED
    BY <1>2, <1>3

\* Plain tasks are in turn at every moment.
LEMMA AlwaysInTurn == Spec => [](WellFormed /\ InTurn)
  <1>1. Init => WellFormed /\ InTurn
    BY InitWF, InTurnInit
  <1>2. WellFormed /\ InTurn /\ [Next]_vars => (WellFormed /\ InTurn)'
    BY StepWF, InTurnStep
  <1> QED
    BY <1>1, <1>2, PTL DEF Spec

\* Every request of a task without subtasks alternates between user and
\* assistant and ends with the user (recursivelyMakeClineRequests adds the user
\* message at attempt 0 or when it was removed, and then only).
THEOREM RolesInTurn == Spec => []RolesAlternate
  <1>1. WellFormed /\ InTurn => RolesAlternate
    BY DEF InTurn, Plain, RolesAlternate, Alternates
  <1> QED
    BY <1>1, AlwaysInTurn, PTL

\* A message that follows an assistant message answers its calls, once each.
LEMMA NextAnswers ==
    ASSUME NEW byId, NEW h \in Seq(Messages), HistoryOK(byId, h), Alternates(h), AnswersFollow(h),
           NEW i \in 1 .. Len(h) - 1, h[i].role = "assistant"
    PROVE  /\ CallsIn(h[i + 1].content) = CallsIn(h[i].content)
           /\ OnePerCall(h[i + 1].content)
  <1> DEFINE n == i + 1
             p == SubSeq(h, 1, i)
             q == SubSeq(h, 1, i - 1)
  <1>1. /\ Len(h) \in Nat /\ DOMAIN h = 1 .. Len(h) /\ \A k \in DOMAIN h : h[k] \in Messages
    BY SequenceIndexes
  <1>2. i \in Nat /\ i >= 1 /\ i <= Len(h) /\ i \in 1 .. Len(h) /\ n \in 1 .. Len(h) /\ n - 1 = i
        /\ i - 1 \in Nat /\ i - 1 <= Len(h)
    BY <1>1
  <1>3. h[i] \in Messages /\ h[n] \in Messages /\ h[n].role \in {"user", "assistant"}
    BY <1>1, <1>2 DEF Messages
  <1>4. h[n].role = "user"
    BY <1>3 DEF Alternates
  <1>5. q \in Seq(Messages)
    <2> DEFINE k == i - 1
    <2>1. k \in Nat /\ k <= Len(h)
      BY <1>2
    <2> HIDE DEF k
    <2>2. SubSeq(h, 1, k) \in Seq(Messages)
      BY <2>1
    <2> QED
      BY <2>2 DEF k
  <1>6. p = Append(q, h[i])
    BY <1>1, <1>2
  <1>7. LastCalls(p) = h[i].content
    <2> HIDE DEF p, q
    <2> QED
      BY <1>3, <1>5, <1>6, LastCallsAppend
  <1>8. MessageFits(byId, p, h[n])
    <2> HIDE DEF n
    <2>1. MessageFits(byId, SubSeq(h, 1, n - 1), h[n])
      BY <1>1, <1>2 DEF HistoryOK
    <2> QED
      BY <1>2, <2>1
  <1>9. CallsIn(h[n].content) \subseteq CallsIn(h[i].content)
    BY DEF AnswersFollow
  <1> HIDE DEF n, p
  <1>10. CASE h[i].content # <<>>
    BY <1>4, <1>7, <1>8, <1>10 DEF MessageFits, n
  <1>11. CASE h[i].content = <<>>
    <2>1. CallsIn(h[i].content) = {} /\ CallsIn(h[n].content) = {}
      BY <1>9, <1>11, EmptyContent
    <2>2. OnePerCall(h[n].content)
      BY <2>1 DEF OnePerCall, CallsIn
    <2> QED
      BY <2>1, <2>2 DEF n
  <1> QED
    BY <1>10, <1>11

\* In every request of such a task each tool call is answered once, by the
\* message after it (addToApiConversationHistory, resumeTaskFromHistory).
THEOREM AnsweredInTurn == Spec => []CallsAnswered
  <1>1. WellFormed /\ InTurn => CallsAnswered
    <2> SUFFICES ASSUME WellFormed, InTurn, pc = "stream", native, spawns = {},
                        empties > 0 => autoApproval,
                        NEW i \in 1 .. Len(history) - 1, history[i].role = "assistant"
                 PROVE  /\ CallsIn(history[i + 1].content) = CallsIn(history[i].content)
                        /\ \A j, k \in DOMAIN history[i + 1].content :
                             /\ history[i + 1].content[j].call = history[i + 1].content[k].call
                             /\ history[i + 1].content[j].call # NoCall
                             => j = k
      BY DEF CallsAnswered
    <2>1. /\ HistoryOK(native, history) /\ history \in Seq(Messages)
          /\ Alternates(history) /\ AnswersFollow(history)
      BY DEF WellFormed, TypeOK, InTurn, Plain
    <2>2. /\ CallsIn(history[i + 1].content) = CallsIn(history[i].content)
          /\ OnePerCall(history[i + 1].content)
      BY <2>1, NextAnswers
    <2> QED
      BY <2>2 DEF OnePerCall
  <1> QED
    BY <1>1, AlwaysInTurn, PTL

-----------------------------------------------------------------------------
(* Nothing is lost. *)

\* What NothingLost asks for has been so from the start, while the task is open.
LEMMA KeptBefore ==
    ASSUME WellFormed, [Next]_vars, Kept', pc' # "closed"
    PROVE  Kept
  <1>1. /\ empties \in Nat /\ empties' \in Nat /\ failures \in Nat /\ failures' \in Nat
    <2>1. WellFormed'
      BY StepWF
    <2> QED
      BY <2>1, ConversationAssumption DEF WellFormed, TypeOK
  <1>2. /\ spawns \subseteq spawns' /\ UNCHANGED <<native, autoApproval, mistakeLimit>>
        /\ (empties > 0 => empties' > 0) /\ (failures' = 0 => failures = 0)
        /\ (flushed => flushed')
    <2>1. CASE EmptyResponse
      BY <1>1, <2>1 DEF EmptyResponse, children, settings, response
    <2>2. CASE StreamToolCall
      BY <2>2 DEF StreamToolCall, bounds, settings
    <2>3. CASE Guidance \/ StreamEnds \/ RetryByHand \/ GiveUp \/ NextItem \/ Resume
      <3>1. UNCHANGED <<settings, children, bounds, response>>
        BY <2>3 DEF Guidance, StreamEnds, RetryByHand, GiveUp, NextItem, Resume
      <3> QED
        BY <3>1 DEF children, bounds, settings, response
    <2>4. CASE ToolEnds \/ FlushResults
      BY <2>4 DEF ToolEnds, FlushResults, children, bounds, settings
    <2>5. CASE ReopenParent \/ ReopenLost \/ (\E child \in active : ChildReports(child))
      BY <2>5 DEF ReopenParent, ReopenLost, ChildReports, bounds, settings, response
    <2>6. CASE StreamFails
      BY <1>1, <2>6 DEF StreamFails, children, settings
    <2>7. CASE UNCHANGED vars
      BY <2>7 DEF vars
    <2>8. CASE SendRequest
      BY <2>8 DEF SendRequest, children, bounds, settings, WellFormed, PlaceOK
    <2>9. ~Close /\ ~OpenChild
      BY DEF Close, OpenChild, Forget
    <2> QED
      BY <2>1, <2>2, <2>3, <2>4, <2>5, <2>6, <2>7, <2>8, <2>9 DEF Next
  <1> QED
    BY <1>1, <1>2 DEF Kept

\* Every step keeps what the task was told.
LEMMA CompleteStep == ASSUME WellFormed, InTurn, Complete, [Next]_vars PROVE Complete'
  <1> DEFINE Sent == pc = "stream" \/ (pc = "start" /\ ~AddsUserMessage)
  <1> SUFFICES ASSUME Kept', pc' # "closed"
               PROVE  /\ (pc = "start" /\ AddsUserMessage => Completes(history))'
                      /\ (pc = "start" /\ ~AddsUserMessage => told \subseteq AllTokens(history) /\ ~mistaken)'
                      /\ (pc \in {"stream", "tools"} => told \subseteq AllTokens(history))'
                      /\ (Sent => (spawns = {} /\ native => Completes(Front(history))))'
    BY DEF Complete
  <1>1. Kept
    BY KeptBefore
  <1>2. /\ pc = "start" /\ AddsUserMessage => Completes(history)
        /\ pc = "start" /\ ~AddsUserMessage => told \subseteq AllTokens(history) /\ ~mistaken
        /\ pc \in {"stream", "tools"} => told \subseteq AllTokens(history)
        /\ Sent => (spawns = {} /\ native => Completes(Front(history)))
    BY <1>1 DEF Complete
  <1>3. /\ TypeOK /\ CallsOK /\ PlaceOK /\ HistoryOK(native, history) /\ HistoryOK(native, disk)
        /\ history \in Seq(Messages) /\ disk \in Seq(Messages) /\ item.content \in Seq(Blocks)
        /\ ~flushed
    BY <1>1 DEF WellFormed, TypeOK, Kept
  <1>4. \A h : Completes(h) <=> /\ told \subseteq AllTokens(h) \cup TokensOf(item.content)
                                /\ Answers(h, item.content)
    BY DEF Completes, Answers
  <1>5. CASE UNCHANGED vars
    BY <1>2, <1>5 DEF vars, AddsUserMessage, Completes
  <1>6. CASE Guidance
    <2>1. AddsUserMessage /\ Completes(history) /\ pc' = "start" /\ UNCHANGED history
      BY <1>2, <1>6 DEF Guidance
    <2>2. /\ item'.attempt = item.attempt
          /\ CallsIn(item'.content) = CallsIn(item.content)
          /\ OnePerCall(item.content) => OnePerCall(item'.content)
          /\ told' \subseteq AllTokens(history) \cup TokensOf(item'.content)
      <3>1. CASE /\ Fresh /\ item' = [item EXCEPT !.content = Append(@, Text(clock))]
                 /\ told' = told \union {clock}
        <4>1. clock \in 1 .. MaxTokens /\ item'.content = Append(item.content, Text(clock))
              /\ item'.attempt = item.attempt
          BY <1>3, <3>1, FreshOK DEF TypeOK
        <4>2. TokensOf(item'.content) = TokensOf(item.content) \cup {clock}
          BY <1>3, <4>1, ContentWithText
        <4> QED
          BY <1>3, <1>4, <2>1, <3>1, <4>1, <4>2, ContentWithText
      <3>2. CASE UNCHANGED <<item, told, clock>>
        BY <1>4, <2>1, <3>2
      <3> QED
        BY <1>6, <3>1, <3>2 DEF Guidance
    <2> QED
      BY <2>1, <2>2 DEF Completes, AddsUserMessage
  <1>7. CASE SendRequest
    <2>1. pc = "start" /\ pc' = "stream" /\ UNCHANGED <<item, told, spawns, native>>
      BY <1>7 DEF SendRequest, children, settings
    <2>2. CASE AddsUserMessage
      <3>1. Completes(history) /\ history' = AddUserMessage(history, item.content)
        BY <1>2, <1>7, <2>1, <2>2 DEF SendRequest, Save
      <3>2. Front(history') = history
            /\ AllTokens(history') = AllTokens(history) \cup TokensOf(item.content)
        BY <1>3, <1>4, <3>1, AddUserMessageOK
      <3>3. told' \subseteq AllTokens(history')
        BY <1>4, <2>1, <3>1, <3>2
      <3>4. Completes(Front(history))'
        BY <2>1, <3>1, <3>2 DEF Completes
      <3> QED
        BY <2>1, <3>3, <3>4
    <2>3. CASE ~AddsUserMessage
      <3>1. UNCHANGED history
        BY <1>7, <2>3 DEF SendRequest
      <3> QED
        BY <1>2, <2>1, <2>3, <3>1 DEF Completes
    <2> QED
      BY <2>2, <2>3
  <1>8. CASE StreamToolCall \/ ToolEnds
    <2>1. /\ UNCHANGED <<history, pc, item, told, native>> /\ spawns \subseteq spawns'
          /\ pc \in {"stream", "tools"}
      BY <1>8 DEF StreamToolCall, ToolEnds, settings, children
    <2> QED
      BY <1>2, <2>1 DEF Completes
  <1>9. CASE StreamEnds
    <2> DEFINE m == Assistant(CallBlocks)
    <2>1. m \in Messages /\ m.role = "assistant"
      BY <1>3, CallBlocksOK, MessageTypes
    <2>2. history' = Append(history, m) /\ pc = "stream" /\ pc' = "tools" /\ UNCHANGED told
      BY <1>9 DEF StreamEnds, Save, CallBlocks
    <2> HIDE DEF m
    <2>3. AllTokens(history') = AllTokens(history)
      BY <1>3, <2>1, <2>2, AllTokensAppend
    <2> QED
      BY <1>2, <2>2, <2>3
  <1>10. CASE StreamFails
    <2>1. /\ pc = "stream" /\ pc' = "start" /\ item' = [item EXCEPT !.attempt = "again"]
          /\ failures' = failures + 1 /\ mistaken' \in {FALSE, mistakeLimit /\ answered > 0}
          /\ UNCHANGED <<history, told, spawns, native, mistakeLimit>>
      BY <1>10 DEF StreamFails, settings, children
    <2>2. item'.attempt = "again" /\ item'.content = item.content
      BY <1>3, <2>1 DEF TypeOK
    <2>3. ~mistakeLimit
      <3>1. failures \in Nat
        BY <1>3, ConversationAssumption DEF TypeOK
      <3> QED
        BY <2>1, <3>1 DEF Kept
    <2>4. ~mistaken'
      BY <2>1, <2>3
    <2>5. ~AddsUserMessage' /\ told' \subseteq AllTokens(history')
      BY <1>2, <2>1, <2>2 DEF AddsUserMessage
    <2>6. spawns = {} /\ native => Completes(Front(history))'
      BY <1>2, <2>1, <2>2 DEF Completes
    <2> QED
      BY <2>1, <2>4, <2>5, <2>6
  <1>11. CASE EmptyResponse
    <2>1. autoApproval /\ spawns = {} /\ pc = "stream" /\ UNCHANGED <<told, native>>
      <3>1. empties' > 0 /\ UNCHANGED <<autoApproval, spawns, native, told>> /\ pc = "stream"
        BY <1>3, <1>11, Counts, CountOK DEF EmptyResponse, settings, children
      <3> QED
        BY <3>1 DEF Kept
    <2>2. /\ history' = IF native /\ LastRole(history) = "user" THEN Front(history) ELSE history
          /\ pc' = "start" /\ item' = [item EXCEPT !.attempt = "readd"]
      BY <1>11, <2>1 DEF EmptyResponse
    <2>3. item'.attempt = "readd" /\ item'.content = item.content
      BY <1>3, <2>2 DEF TypeOK
    <2>4. CASE native
      <3>1. LastRole(history) = "user"
        BY <2>1, <2>4 DEF InTurn, Plain
      <3>2. Completes(Front(history)) /\ history' = Front(history)
        BY <1>2, <2>1, <2>2, <2>4, <3>1
      <3> QED
        BY <2>1, <2>2, <2>3, <3>2 DEF AddsUserMessage, Completes
    <2>5. CASE ~native
      <3>1. history' = history /\ told \subseteq AllTokens(history) /\ LastCalls(history) = <<>>
        BY <1>2, <1>3, <2>1, <2>2, <2>5, LastCallsOK
      <3> QED
        BY <2>1, <2>2, <2>3, <3>1 DEF AddsUserMessage, Completes
    <2> QED
      BY <2>4, <2>5
  <1>12. CASE NextItem
    <2>1. /\ pc = "tools" /\ pc' = "start" /\ UNCHANGED history
          /\ item' = Item(IF results = <<>> THEN Reminder ELSE results, "first")
          /\ told' = told \union TokensOf(results)
      BY <1>12 DEF NextItem
    <2>2. history # <<>> /\ Last(history) = Assistant(CallBlocks)
      BY <1>3, <2>1 DEF PlaceOK
    <2>3. CallBlocks \in Seq(Blocks) /\ CallsIn(results) \subseteq CallsIn(CallBlocks)
          /\ OnePerCall(results)
      BY <1>3, CallBlocksOK DEF CallsOK
    <2>4. Last(history).role = "assistant" /\ Last(history).content = CallBlocks
      BY <2>2, <2>3, MessageTypes
    <2>5. LastCalls(history) = CallBlocks
      BY <1>3, <2>2, <2>4, FrontOK
    <2>6. /\ CallsIn(item'.content) \subseteq CallsIn(CallBlocks) /\ item'.attempt = "first"
          /\ OnePerCall(item'.content) /\ TokensOf(results) \subseteq TokensOf(item'.content)
      BY <2>1, <2>3, ReminderContent, EmptyContent DEF Item
    <2> QED
      BY <1>2, <2>1, <2>5, <2>6 DEF AddsUserMessage, Completes
  <1>13. CASE Resume
    <2>1. /\ pc' = "start" /\ history' = KeptPart(disk)
          /\ told' = AllTokens(KeptPart(disk)) \union TokensOf(item'.content)
      BY <1>13, ResumeDoes
    <2>2. /\ item'.attempt = "first" /\ CallsIn(item'.content) = CallsIn(ResumedContent(disk))
          /\ OnePerCall(ResumedContent(disk)) => OnePerCall(item'.content)
      BY <1>13, ResumedItem
    <2>3. Answers(KeptPart(disk), ResumedContent(disk))
      BY <1>3, ResumedContentOK
    <2> QED
      BY <2>1, <2>2, <2>3 DEF Answers, AddsUserMessage, Completes
  <1>14. CASE ReopenParent
    <2>1. /\ pc' = "start" /\ history' = disk /\ item' = Item(<<>>, "resumed")
          /\ told' = AllTokens(disk) \union {reporting} /\ reporting # NoCall
          /\ UNCHANGED <<spawns, mistaken>>
      BY <1>14 DEF ReopenParent
    <2>2. item'.attempt = "resumed"
      BY <2>1 DEF Item
    <2>3. reporting \in AllTokens(disk) /\ ~mistaken /\ spawns # {}
      BY <1>3, <2>1 DEF PlaceOK, TypeOK
    <2> QED
      BY <2>1, <2>2, <2>3 DEF AddsUserMessage
  <1>15. CASE RetryByHand \/ GiveUp
    BY <1>1, <1>3, <1>15 DEF RetryByHand, GiveUp, PlaceOK, Kept
  <1>16. CASE FlushResults \/ OpenChild \/ Close \/ ReopenLost
              \/ (\E child \in active : ChildReports(child))
    BY <1>3, <1>16 DEF FlushResults, OpenChild, Close, Forget, ReopenLost, ChildReports, PlaceOK, Kept
  <1> QED
    BY <1>5, <1>6, <1>7, <1>8, <1>9, <1>10, <1>11, <1>12, <1>13, <1>14, <1>15, <1>16 DEF Next

\* A new task was told its first text, which is its first item.
LEMMA CompleteInit == ASSUME Init PROVE Complete
  <1>1. CASE native
    <2>1. /\ history = <<>> /\ pc = "start" /\ item = Item(<<Text(1)>>, "first") /\ told = {1}
      BY <1>1 DEF Init
    <2>2. Text(1).token = 1
      BY DEF Text, Block
    <2>3. 1 \in TokensOf(item.content) /\ item.attempt = "first"
      BY <2>1, <2>2 DEF TokensOf, Item, NoNews
    <2> QED
      BY <2>1, <2>3, LastCallsEmpty DEF Complete, Completes, AddsUserMessage
  <1>2. CASE ~native
    BY <1>2 DEF Init, Complete
  <1> QED
    BY <1>1, <1>2

\* Every request has all that the open task was told: the texts, the guidance
\* and the results of tools and subtasks, whatever was retried, resumed or
\* reopened before (recursivelyMakeClineRequests, resumeTaskFromHistory,
\* reopenParentFromDelegation).
THEOREM NothingIsLost == Spec => []NothingLost
  <1>1. Init => WellFormed /\ InTurn /\ Complete
    BY InitWF, InTurnInit, CompleteInit
  <1>2. WellFormed /\ InTurn /\ Complete /\ [Next]_vars => (WellFormed /\ InTurn /\ Complete)'
    BY StepWF, InTurnStep, CompleteStep
  <1>3. WellFormed /\ InTurn /\ Complete => NothingLost
    BY DEF Complete, Kept, NothingLost, RequestHasEverything
  <1> QED
    BY <1>1, <1>2, <1>3, PTL DEF Spec

\* A delegation that waits for the end of the response loses none of its
\* results, whatever was called before it (flushPendingToolResultsToHistory).
THEOREM FlushedInFull == Spec => FlushKeepsResults
  <1>1. ASSUME WellFormed, [Next]_vars, ~flushed, flushed', pc = "tools"
        PROVE  TokensOf(results) \subseteq AllTokens(history')
    <2>1. FlushResults
      <3>1. ~(UNCHANGED flushed)
        BY <1>1
      <3>2. CASE Guidance \/ StreamToolCall \/ ToolEnds \/ StreamEnds \/ EmptyResponse \/ RetryByHand
        BY <3>1, <3>2 DEF Guidance, StreamToolCall, ToolEnds, StreamEnds, EmptyResponse,
           RetryByHand, response
      <3>3. CASE GiveUp \/ NextItem \/ Resume \/ ReopenParent \/ ReopenLost
                 \/ (\E child \in active : ChildReports(child))
        BY <3>1, <3>3 DEF GiveUp, NextItem, Resume, ReopenParent, ReopenLost, ChildReports, response
      <3>4. CASE SendRequest \/ StreamFails \/ Close \/ OpenChild
        BY <1>1, <3>4 DEF SendRequest, StreamFails, Close, OpenChild, Forget, NoResponse
      <3> QED
        BY <1>1, <3>1, <3>2, <3>3, <3>4 DEF Next, vars
    <2>2. /\ TypeOK /\ CallsOK /\ HistoryOK(native, history) /\ history \in Seq(Messages)
          /\ results \in Seq(Blocks) /\ history # <<>> /\ Last(history) = Assistant(CallBlocks)
      BY <1>1 DEF WellFormed, TypeOK, PlaceOK
    <2>3. /\ CallBlocks \in Seq(Blocks) /\ CallsIn(results) \subseteq CallsIn(CallBlocks)
          /\ OnePerCall(results)
      BY <2>2, CallBlocksOK DEF CallsOK
    <2>4. Last(history).role = "assistant" /\ Last(history).content = CallBlocks
      BY <2>2, <2>3, MessageTypes
    <2>5. LastCalls(history) = CallBlocks
      BY <2>2, <2>4, FrontOK
    <2>6. Answers(history, results)
      BY <2>3, <2>5 DEF Answers
    <2>7. CASE results = <<>>
      BY <2>7, EmptyContent
    <2>8. CASE results # <<>>
      <3>1. history' = AddUserMessage(history, results)
        BY <2>1, <2>8 DEF FlushResults, Save
      <3>2. AllTokens(history') = AllTokens(history) \cup TokensOf(results)
        BY <2>2, <2>6, <3>1, AddUserMessageOK
      <3> QED
        BY <3>2
    <2> QED
      BY <2>7, <2>8
  <1>2. WellFormed /\ [Next]_vars
          => [~flushed /\ flushed' /\ pc = "tools" => TokensOf(results) \subseteq AllTokens(history')]_vars
    BY <1>1
  <1> QED
    BY <1>2, AlwaysWellFormed, PTL DEF Spec, FlushKeepsResults
-----------------------------------------------------------------------------
(* What the repair does to any content (the two variables of MCToolResults,   *)
(* of which the conversation knows nothing)                                   *)

\* The calls have ids of their own; the content consists of blocks.
MessageOK ==
    /\ \E n \in 0 .. MaxUses : toolUseBlocks = [i \in 1 .. n |-> Block(i, NoNews)]
    /\ userContent \in Seq(BlocksOf(Nat, Nat))

\* The blocks of both messages stay what they are.
LEMMA MessageInv ==
    RepairSpec => []MessageOK
  <1>1. RepairInit => MessageOK
    BY DEF RepairInit, MessageOK
  <1>2. MessageOK /\ [AppendBlock]_<<toolUseBlocks, userContent>> => MessageOK'
    <2> SUFFICES ASSUME MessageOK, [AppendBlock]_<<toolUseBlocks, userContent>> PROVE MessageOK'
      OBVIOUS
    <2>1. ASSUME AppendBlock PROVE MessageOK'
      <3>1. PICK call \in CallIds \union {NoCall} :
              userContent' = Append(userContent, Block(call, Len(userContent) + 1))
        BY <2>1 DEF AppendBlock
      <3>2. call \in Nat /\ Len(userContent) + 1 \in Nat
        BY BoundsAssumption DEF CallIds, NoCall, MessageOK
      <3>3. Block(call, Len(userContent) + 1) \in BlocksOf(Nat, Nat)
        BY <3>2 DEF Block, BlocksOf
      <3>4. userContent' \in Seq(BlocksOf(Nat, Nat))
        BY <3>1, <3>3 DEF MessageOK
      <3> QED
        BY <2>1, <3>4 DEF AppendBlock, MessageOK
    <2>2. ASSUME UNCHANGED <<toolUseBlocks, userContent>> PROVE MessageOK'
      BY <2>2 DEF MessageOK
    <2> QED
      BY <2>1, <2>2
  <1> QED
    BY <1>1, <1>2, PTL DEF RepairSpec

\* The calls of the message are those validateAndFixToolResultIds works with,
\* and no two have an id in common.
LEMMA CallsOfMessage ==
    ASSUME MessageOK
    PROVE  /\ LastCalls(<<Message("assistant", toolUseBlocks)>>) = toolUseBlocks
           /\ toolUseBlocks \in Seq(BlocksOf(Nat, Nat)) /\ OnePerCall(toolUseBlocks)
  <1>1. PICK n \in 0 .. MaxUses : toolUseBlocks = [i \in 1 .. n |-> Block(i, NoNews)]
    BY DEF MessageOK
  <1>2. n \in Nat
    BY BoundsAssumption
  <1>3. \A i \in 1 .. n : Block(i, NoNews) \in BlocksOf(Nat, Nat) /\ Block(i, NoNews).call = i
    BY <1>2 DEF Block, BlocksOf, NoNews
  <1>4. toolUseBlocks \in [1 .. n -> BlocksOf(Nat, Nat)] /\ OnePerCall(toolUseBlocks)
    BY <1>1, <1>3 DEF OnePerCall
  <1> DEFINE messages == <<Message("assistant", toolUseBlocks)>>
             assistants == {i \in DOMAIN messages : messages[i].role = "assistant"}
  <1>5. DOMAIN messages = 1 .. 1 /\ messages[1].role = "assistant" /\ messages[1].content = toolUseBlocks
    BY DEF Message
  <1>6. assistants = {1}
    BY <1>5
  <1>7. Max(assistants) = 1
    BY <1>6 DEF Max
  <1>8. LastCalls(messages) = toolUseBlocks
    BY <1>5, <1>6, <1>7 DEF LastCalls
  <1> QED
    BY <1>2, <1>4, <1>8

\* Whatever blocks arrive in validateAndFixToolResultIds, every call leaves with
\* exactly one answer and nothing else is answered, for any number of calls and
\* of blocks.
THEOREM ExactlyAnswered == RepairSpec => []AnsweredExactly
  <1>1. MessageOK => AnsweredExactly
    <2> SUFFICES ASSUME MessageOK, toolUseBlocks # <<>>
                 PROVE  CallsIn(Checked) = CallsIn(toolUseBlocks) /\ OnePerCall(Checked)
      BY DEF AnsweredExactly, OnePerCall
    <2>1. /\ LastCalls(<<Message("assistant", toolUseBlocks)>>) = toolUseBlocks
          /\ toolUseBlocks \in Seq(BlocksOf(Nat, Nat)) /\ OnePerCall(toolUseBlocks)
      BY CallsOfMessage
    <2>2. userContent \in Seq(BlocksOf(Nat, Nat)) /\ NoNews \in Nat
      BY DEF MessageOK, NoNews
    <2> QED
      BY <2>1, <2>2, ValidResultsAnswer DEF Checked
  <1> QED
    BY <1>1, MessageInv, PTL

\* Taken by position: the ids of the first n calls.
TakenUpTo(calls, n) == {calls[k].call : k \in {k \in DOMAIN calls : k <= n}}

\* What the walk over the content without its repeats has so far, when the right
\* ids are in place: the results answer the calls at their positions.
Walked(C, T, calls, q) ==
    LET acc == Relabelling(WithoutRepeats(q), calls)
    IN  /\ acc \in Accs(C, T)
        /\ IsFiniteSet(CallsIn(q)) /\ acc.seen = Cardinality(CallsIn(q))
        /\ acc.used = TakenUpTo(calls, acc.seen)
        /\ \A i \in DOMAIN q :
             FirstResult(q, i) /\ Position(q, i) \in DOMAIN calls =>
               Block(calls[Position(q, i)].call, q[i].token) \in ToSet(acc.out)

\* A block put last changes nothing of those before it.
LEMMA PositionsStay ==
    ASSUME NEW S, NEW q \in Seq(S), NEW x \in S
    PROVE  LET r == Append(q, x)
               n == Len(q)
           IN  /\ n \in Nat /\ DOMAIN q = 1 .. n /\ DOMAIN r = 1 .. n + 1 /\ r[n + 1] = x
               /\ \A i \in 1 .. n : /\ r[i] = q[i] /\ Position(r, i) = Position(q, i)
                                    /\ FirstResult(r, i) <=> FirstResult(q, i)
               /\ FirstResult(r, n + 1) <=> x.call # NoCall /\ x.call \notin CallsIn(q)
               /\ Position(r, n + 1) = Cardinality(CallsIn(r))
  <1> DEFINE r == Append(q, x)
             n == Len(q)
  <1>1. /\ n \in Nat /\ DOMAIN q = 1 .. n /\ DOMAIN r = 1 .. n + 1 /\ r \in Seq(S)
        /\ r[n + 1] = x /\ \A i \in 1 .. n : r[i] = q[i]
    OBVIOUS
  <1>2. ASSUME NEW i \in 0 .. n PROVE SubSeq(r, 1, i) = SubSeq(q, 1, i)
    <2>1. i \in Nat /\ i <= n
      BY <1>1
    <2> QED
      BY <2>1
  <1>3. SubSeq(r, 1, n + 1 - 1) = q /\ SubSeq(r, 1, n + 1) = r
    <2>1. n + 1 - 1 = n
      BY <1>1
    <2>2. SubSeq(r, 1, n) = q /\ SubSeq(r, 1, n + 1) = r
      OBVIOUS
    <2> QED
      BY <2>1, <2>2
  <1> HIDE DEF r, n
  <1>4. ASSUME NEW i \in 1 .. n
        PROVE  /\ r[i] = q[i] /\ Position(r, i) = Position(q, i)
               /\ FirstResult(r, i) <=> FirstResult(q, i)
    <2>1. i \in 0 .. n /\ i - 1 \in 0 .. n
      BY <1>1
    <2>2. SubSeq(r, 1, i) = SubSeq(q, 1, i) /\ SubSeq(r, 1, i - 1) = SubSeq(q, 1, i - 1)
      BY <1>2, <2>1
    <2> QED
      BY <1>1, <2>2 DEF Position, FirstResult
  <1>5. FirstResult(r, n + 1) <=> x.call # NoCall /\ x.call \notin CallsIn(q)
    <2> DEFINE k == n + 1
    <2>1. r[k] = x /\ SubSeq(r, 1, k - 1) = q
      BY <1>1, <1>3
    <2> HIDE DEF k
    <2>2. FirstResult(r, k) <=> x.call # NoCall /\ x.call \notin CallsIn(q)
      BY <2>1 DEF FirstResult
    <2> QED
      BY <2>2 DEF k
  <1>6. Position(r, n + 1) = Cardinality(CallsIn(r))
    BY <1>3 DEF Position
  <1> QED
    BY <1>1, <1>4, <1>5, <1>6 DEF r, n

\* What was in place stays there.
LEMMA InPlaceBefore ==
    ASSUME NEW S, NEW q \in Seq(S), NEW x \in S, NEW calls, InPlace(Append(q, x), calls)
    PROVE  InPlace(q, calls)
  <1> DEFINE r == Append(q, x)
             n == Len(q)
  <1>1. /\ n \in Nat /\ DOMAIN q = 1 .. n /\ DOMAIN r = 1 .. n + 1
        /\ \A i \in 1 .. n : /\ r[i] = q[i] /\ Position(r, i) = Position(q, i)
                             /\ FirstResult(r, i) <=> FirstResult(q, i)
    BY PositionsStay
  <1>2. InPlace(r, calls)
    OBVIOUS
  <1> HIDE DEF r, n
  <1>3. \A i \in 1 .. n : i \in 1 .. n + 1
    BY <1>1
  <1> QED
    BY <1>1, <1>2, <1>3 DEF InPlace

\* What the walk makes of a result that has no answer so far, at position m.
LEMMA NextInPlace ==
    ASSUME NEW C, NEW T, NEW calls \in Seq(BlocksOf(C, T)), OnePerCall(calls), CallsOnly(calls),
           NEW acc \in Accs(C, T), NEW x \in BlocksOf(C, T), x.call # NoCall,
           acc.used = TakenUpTo(calls, acc.seen),
           x.call \in CallsIn(calls) =>
             acc.seen + 1 \in DOMAIN calls /\ x.call = calls[acc.seen + 1].call
    PROVE  LET m == acc.seen + 1
               next == Relabel(acc, x, calls)
           IN  /\ next.seen = m /\ next.used = TakenUpTo(calls, m)
               /\ m \in DOMAIN calls => next.out = Append(acc.out, Block(calls[m].call, x.token))
               /\ m \notin DOMAIN calls => next.out = acc.out
  <1> DEFINE ids == CallsIn(calls)
             m == acc.seen + 1
             byPosition == IF m <= Len(calls) THEN calls[m].call ELSE NoCall
             id == IF x.call \in ids \ acc.used THEN x.call ELSE byPosition
             next == Relabel(acc, x, calls)
  <1>1. /\ acc.seen \in Nat /\ m \in Nat /\ m > 0 /\ DOMAIN calls = 1 .. Len(calls) /\ Len(calls) \in Nat
        /\ acc = [out |-> acc.out, used |-> acc.used, seen |-> acc.seen]
        /\ x = [call |-> x.call, token |-> x.token]
    BY DEF Accs, BlocksOf
  <1>2. m <= Len(calls) <=> m \in DOMAIN calls
    BY <1>1
  <1>3. next = CASE x.call = NoCall -> [acc EXCEPT !.out = Append(@, x)]
                 [] x.call # NoCall /\ id \in acc.used \union {NoCall} -> [acc EXCEPT !.seen = m]
                 [] OTHER -> [out |-> Append(acc.out, [x EXCEPT !.call = id]),
                              used |-> acc.used \union {id}, seen |-> m]
    BY DEF Relabel
  <1>4. \A k \in DOMAIN calls : k <= m <=> k <= acc.seen \/ k = m
    BY <1>1
  <1>5. x.call \in ids => m \in DOMAIN calls /\ x.call = calls[m].call
    OBVIOUS
  <1> HIDE DEF ids, m, next
  <1>6. CASE m \in DOMAIN calls
    <2>1. id = calls[m].call
      BY <1>2, <1>5, <1>6
    <2> HIDE DEF id, byPosition
    <2>2. id # NoCall
      BY <1>6, <2>1 DEF CallsOnly
    <2>3. id \notin acc.used
      <3> SUFFICES ASSUME NEW k \in DOMAIN calls, k <= acc.seen, id = calls[k].call PROVE FALSE
        BY DEF TakenUpTo
      <3>1. k = m
        BY <1>6, <2>1, <2>2 DEF OnePerCall
      <3> QED
        BY <1>1, <3>1 DEF m
    <2>4. next = [out |-> Append(acc.out, [x EXCEPT !.call = id]),
                  used |-> acc.used \union {id}, seen |-> m]
      BY <1>3, <2>2, <2>3
    <2>5. [x EXCEPT !.call = id] = Block(calls[m].call, x.token)
      BY <1>1, <2>1 DEF Block
    <2>6. acc.used \union {id} = TakenUpTo(calls, m)
      BY <1>4, <1>6, <2>1 DEF TakenUpTo
    <2> QED
      BY <1>6, <2>4, <2>5, <2>6 DEF m, next
  <1>7. CASE m \notin DOMAIN calls
    <2>1. id = NoCall
      BY <1>2, <1>5, <1>7
    <2> HIDE DEF id, byPosition
    <2>2. next = [out |-> acc.out, used |-> acc.used, seen |-> m]
      BY <1>1, <1>3, <2>1
    <2>3. TakenUpTo(calls, m) = acc.used
      BY <1>4, <1>7 DEF TakenUpTo
    <2> QED
      BY <1>7, <2>2, <2>3 DEF m, next
  <1> QED
    BY <1>6, <1>7

\* The walk keeps what it has with one more block.
LEMMA WalkGoesOn ==
    ASSUME NEW C, NEW T, NEW calls \in Seq(BlocksOf(C, T)), OnePerCall(calls), CallsOnly(calls),
           NEW q \in Seq(BlocksOf(C, T)), NEW x \in BlocksOf(C, T),
           InPlace(Append(q, x), calls), Walked(C, T, calls, q)
    PROVE  Walked(C, T, calls, Append(q, x))
  <1> DEFINE B == BlocksOf(C, T)
             r == Append(q, x)
             n == Len(q)
             w == WithoutRepeats(q)
             acc == Relabelling(w, calls)
             next == Relabelling(WithoutRepeats(r), calls)
  <1>1. /\ n \in Nat /\ DOMAIN q = 1 .. n /\ DOMAIN r = 1 .. n + 1 /\ r[n + 1] = x
        /\ \A i \in 1 .. n : /\ r[i] = q[i] /\ Position(r, i) = Position(q, i)
                             /\ FirstResult(r, i) <=> FirstResult(q, i)
        /\ FirstResult(r, n + 1) <=> x.call # NoCall /\ x.call \notin CallsIn(q)
        /\ Position(r, n + 1) = Cardinality(CallsIn(r))
    BY PositionsStay
  <1>2. /\ acc \in Accs(C, T)
        /\ IsFiniteSet(CallsIn(q)) /\ acc.seen = Cardinality(CallsIn(q))
        /\ acc.used = TakenUpTo(calls, acc.seen)
        /\ \A i \in DOMAIN q :
             FirstResult(q, i) /\ Position(q, i) \in DOMAIN calls =>
               Block(calls[Position(q, i)].call, q[i].token) \in ToSet(acc.out)
    BY DEF Walked
  <1>3. w \in Seq(B) /\ WithoutRepeats(r) = AddFirst(w, x) /\ CallsIn(w) = CallsIn(q)
    BY WithoutRepeatsAppend, WithoutRepeatsOnce
  <1>4. CallsIn(r) = CallsIn(q) \cup ({x.call} \ {NoCall})
    BY ContentAppend
  <1>5. r \in Seq(B) /\ WithoutRepeats(r) \in Seq(B) /\ x \in B
    <2>1. r \in Seq(B)
      OBVIOUS
    <2> HIDE DEF r
    <2> QED
      BY <2>1, WithoutRepeatsOnce
  <1>6. next \in Accs(C, T) /\ (WithoutRepeats(r) = Append(w, x) => next = Relabel(acc, x, calls))
    <2>1. next \in Accs(C, T)
      BY <1>5, RelabellingRight DEF RelabelledRight
    <2>2. Relabelling(Append(w, x), calls) = Relabel(acc, x, calls)
      BY <1>3, RelabellingAppend
    <2> QED
      BY <2>1, <2>2
  <1>7. InPlace(r, calls)
    OBVIOUS
  <1>8. \A i \in 1 .. n + 1 : i \in 1 .. n \/ i = n + 1
    BY <1>1
  <1>9. acc.out \in Seq(B)
    BY <1>2 DEF Accs
  <1>10. ASSUME IsFiniteSet(CallsIn(r)), next.seen = Cardinality(CallsIn(r)),
                next.used = TakenUpTo(calls, next.seen),
                ToSet(acc.out) \subseteq ToSet(next.out),
                FirstResult(r, n + 1) /\ Position(r, n + 1) \in DOMAIN calls =>
                  Block(calls[Position(r, n + 1)].call, x.token) \in ToSet(next.out)
         PROVE  Walked(C, T, calls, r)
    <2> HIDE DEF r, n, acc
    <2>1. ASSUME NEW i \in DOMAIN r, FirstResult(r, i), Position(r, i) \in DOMAIN calls
          PROVE  Block(calls[Position(r, i)].call, r[i].token) \in ToSet(next.out)
      <3>1. CASE i \in 1 .. n
        BY <1>1, <1>2, <1>10, <2>1, <3>1
      <3>2. CASE i = n + 1
        BY <1>1, <1>10, <2>1, <3>2
      <3> QED
        BY <1>1, <1>8, <2>1, <3>1, <3>2
    <2> QED
      BY <1>6, <1>10, <2>1 DEF Walked
  <1> HIDE DEF r, n, w, acc, next, B
  <1>11. CASE x.call = NoCall
    <2>1. WithoutRepeats(r) = Append(w, x) /\ CallsIn(r) = CallsIn(q) /\ ~FirstResult(r, n + 1)
      BY <1>1, <1>3, <1>4, <1>11 DEF AddFirst
    <2>2. next = [acc EXCEPT !.out = Append(@, x)]
      BY <1>6, <1>11, <2>1 DEF Relabel
    <2>3. next.out = Append(acc.out, x) /\ next.seen = acc.seen /\ next.used = acc.used
      BY <1>2, <2>2 DEF Accs
    <2>4. ToSet(acc.out) \subseteq ToSet(next.out)
      BY <1>5, <1>9, <2>3, ToSetAppend
    <2> QED
      BY <1>2, <1>10, <2>1, <2>3, <2>4 DEF r
  <1>12. CASE x.call # NoCall /\ x.call \in CallsIn(q)
    <2>1. WithoutRepeats(r) = w /\ CallsIn(r) = CallsIn(q) /\ ~FirstResult(r, n + 1)
      BY <1>1, <1>3, <1>4, <1>12 DEF AddFirst
    <2>2. next = acc
      BY <2>1 DEF next, acc
    <2> QED
      BY <1>2, <1>10, <2>1, <2>2 DEF r
  <1>13. CASE x.call # NoCall /\ x.call \notin CallsIn(q)
    <2>1. WithoutRepeats(r) = Append(w, x) /\ CallsIn(r) = CallsIn(q) \cup {x.call}
      BY <1>3, <1>4, <1>13 DEF AddFirst
    <2>2. IsFiniteSet(CallsIn(r)) /\ Cardinality(CallsIn(r)) = acc.seen + 1
      <3> DEFINE ids == CallsIn(q)
      <3>1. IsFiniteSet(ids) /\ acc.seen = Cardinality(ids) /\ x.call \notin ids
        BY <1>2, <1>13
      <3>2. CallsIn(r) = ids \cup {x.call}
        BY <2>1
      <3> HIDE DEF ids
      <3>3. IsFiniteSet(ids \cup {x.call}) /\ Cardinality(ids \cup {x.call}) = Cardinality(ids) + 1
        BY <3>1, FS_AddElement
      <3> QED
        BY <3>1, <3>2, <3>3
    <2>3. x.call \in CallsIn(calls) =>
            acc.seen + 1 \in DOMAIN calls /\ x.call = calls[acc.seen + 1].call
      <3>1. n + 1 \in DOMAIN r
        BY <1>1
      <3> QED
        BY <1>1, <1>7, <1>13, <2>2, <3>1 DEF InPlace
    <2>4. LET m == acc.seen + 1
          IN  /\ next.seen = m /\ next.used = TakenUpTo(calls, m)
              /\ m \in DOMAIN calls => next.out = Append(acc.out, Block(calls[m].call, x.token))
              /\ m \notin DOMAIN calls => next.out = acc.out
      BY <1>2, <1>6, <1>13, <2>1, <2>3, NextInPlace
    <2>5. CASE acc.seen + 1 \in DOMAIN calls
      <3> DEFINE y == Block(calls[acc.seen + 1].call, x.token)
      <3>1. y \in B
        <4>1. calls[acc.seen + 1] \in BlocksOf(C, T)
          BY <2>5
        <4> QED
          BY <4>1 DEF B, BlocksOf, Block
      <3>2. next.out = Append(acc.out, y)
        BY <2>4, <2>5
      <3>3. next.seen = acc.seen + 1 /\ next.used = TakenUpTo(calls, acc.seen + 1)
        BY <2>4
      <3>4. Position(r, n + 1) = acc.seen + 1
        BY <1>1, <2>2
      <3>5. y = Block(calls[Position(r, n + 1)].call, x.token)
        BY <3>4
      <3> HIDE DEF y
      <3>6. ToSet(next.out) = ToSet(acc.out) \cup {y}
        BY <1>9, <3>1, <3>2, ToSetAppend
      <3>7. ToSet(acc.out) \subseteq ToSet(next.out) /\ y \in ToSet(next.out)
        BY <3>6
      <3> QED
        BY <1>10, <2>2, <3>3, <3>5, <3>7 DEF r
    <2>6. CASE acc.seen + 1 \notin DOMAIN calls
      BY <1>1, <1>10, <2>2, <2>4, <2>6 DEF r
    <2> QED
      BY <2>5, <2>6
  <1> QED
    BY <1>11, <1>12, <1>13

\* It has it for every content whose right ids are in place.
LEMMA WalkedEver ==
    ASSUME NEW C, NEW T, NEW calls \in Seq(BlocksOf(C, T)), OnePerCall(calls), CallsOnly(calls),
           NEW content \in Seq(BlocksOf(C, T)), InPlace(content, calls)
    PROVE  Walked(C, T, calls, content)
  <1> DEFINE B == BlocksOf(C, T)
             Q == {q \in Seq(B) : InPlace(q, calls) => Walked(C, T, calls, q)}
  <1>1. <<>> \in Q
    <2>1. WithoutRepeats(<<>>) = <<>> /\ Relabelling(<<>>, calls) = NoAcc /\ CallsIn(<<>>) = {}
      BY WithoutRepeatsEmpty, RelabellingEmpty, EmptyContent
    <2>2. NoAcc \in Accs(C, T) /\ NoAcc.seen = 0 /\ NoAcc.used = {}
      BY DEF NoAcc, Accs
    <2>3. TakenUpTo(calls, 0) = {}
      BY DEF TakenUpTo
    <2>4. IsFiniteSet({}) /\ Cardinality({}) = 0
      BY FS_EmptySet
    <2>5. DOMAIN <<>> = {} /\ <<>> \in Seq(B)
      OBVIOUS
    <2>6. Walked(C, T, calls, <<>>)
      BY <2>1, <2>2, <2>3, <2>4, <2>5 DEF Walked
    <2> QED
      BY <2>5, <2>6
  <1>2. ASSUME NEW q \in Seq(B), NEW x \in B, q \in Q
        PROVE  Append(q, x) \in Q
    <2>1. InPlace(Append(q, x), calls) => Walked(C, T, calls, Append(q, x))
      BY <1>2, InPlaceBefore, WalkGoesOn
    <2> QED
      BY <2>1
  <1>3. Seq(B) \subseteq Q
    <2> HIDE DEF Q, B
    <2> QED
      BY <1>1, <1>2, SeqInduction
  <1> QED
    BY <1>3

\* So the content that enters the conversation has, where the right ids are in
\* place, each result as the answer to the call at its position.
LEMMA AnsweredByPosition ==
    ASSUME NEW C, NEW T, NoNews \in T, NEW content \in Seq(BlocksOf(C, T)), NEW before,
           LastCalls(before) \in Seq(BlocksOf(C, T)), LastCalls(before) # <<>>,
           OnePerCall(LastCalls(before)), CallsOnly(LastCalls(before)),
           InPlace(content, LastCalls(before)),
           NEW i \in DOMAIN content, FirstResult(content, i),
           Position(content, i) \in DOMAIN LastCalls(before)
    PROVE  Block(LastCalls(before)[Position(content, i)].call, content[i].token)
             \in ToSet(ValidResults(content, before))
  <1> DEFINE calls == LastCalls(before)
             B == BlocksOf(C, T)
             unique == WithoutRepeats(content)
             fixed == Relabelled(unique, calls)
             more == Unanswered(fixed, calls)
             checked == ValidResults(content, before)
             y == Block(calls[Position(content, i)].call, content[i].token)
  <1>1. checked = CASE calls = <<>> -> content
                    [] calls # <<>> /\ CallsIn(unique) = CallsIn(calls) -> unique
                    [] OTHER -> more \o fixed
    BY DEF ValidResults
  <1>2. unique \in Seq(B) /\ CallsIn(unique) = CallsIn(content)
    BY WithoutRepeatsOnce
  <1>3. calls \in Seq(B) /\ calls # <<>> /\ OnePerCall(calls) /\ CallsOnly(calls) /\ InPlace(content, calls)
    OBVIOUS
  <1>4. fixed = Relabelling(unique, calls).out
    BY DEF Relabelled, Relabelling, NoAcc
  <1>5. y \in ToSet(fixed) /\ fixed \in Seq(B)
    <2>1. Walked(C, T, calls, content)
      BY WalkedEver
    <2> HIDE DEF fixed, calls
    <2> QED
      BY <1>4, <2>1 DEF Walked, Accs, calls
  <1>6. more \in Seq(B)
    <2> HIDE DEF calls, fixed
    <2> QED
      BY <1>3, UnansweredAnswers
  <1>7. content[i] \in ToSet(unique) /\ content[i].call \in CallsIn(content)
    <2>1. content[i] \in ToSet(unique)
      BY FirstResultStays DEF FirstResult
    <2> QED
      BY <2>1 DEF FirstResult, CallsIn
  <1>8. content[i].call \in CallsIn(calls) => y = content[i]
    <2>1. content[i] \in BlocksOf(C, T)
      OBVIOUS
    <2>2. content[i].call \in CallsIn(calls) => content[i].call = calls[Position(content, i)].call
      BY <1>3 DEF InPlace
    <2> QED
      BY <2>1, <2>2 DEF Block, BlocksOf
  <1> HIDE DEF calls, unique, fixed, more, checked, y
  <1>9. y \in ToSet(checked)
    <2>1. CASE CallsIn(unique) = CallsIn(calls)
      BY <1>1, <1>2, <1>3, <1>7, <1>8, <2>1
    <2>2. CASE CallsIn(unique) # CallsIn(calls)
      <3>1. checked = more \o fixed
        BY <1>1, <1>3, <2>2
      <3>2. ToSet(checked) = ToSet(more) \cup ToSet(fixed)
        BY <1>5, <1>6, <3>1, ToSetConcat
      <3> QED
        BY <1>5, <3>2
    <2> QED
      BY <2>1, <2>2
  <1> QED
    BY <1>9 DEF y, checked, calls

\* validateAndFixToolResultIds hands no outcome to another call, for any number of
\* calls and of blocks: where all ids are valid, the first result of each call
\* stays its answer, and where the valid ones are in place, the others answer
\* the calls at their positions.
THEOREM AnswersKept == RepairSpec => []RightAnswersKept
  <1>1. MessageOK => RightAnswersKept
    <2> SUFFICES ASSUME MessageOK, toolUseBlocks # <<>>,
                        NEW i \in DOMAIN userContent, FirstResult(userContent, i)
                 PROVE  /\ CallsIn(userContent) \subseteq CallsIn(toolUseBlocks) =>
                             userContent[i] \in ToSet(Checked)
                        /\ LET n == Position(userContent, i)
                           IN  InPlace(userContent, toolUseBlocks) /\ n \in DOMAIN toolUseBlocks =>
                                 Block(toolUseBlocks[n].call, userContent[i].token) \in ToSet(Checked)
      BY DEF RightAnswersKept
    <2> DEFINE messages == <<Message("assistant", toolUseBlocks)>>
    <2>1. /\ LastCalls(messages) = toolUseBlocks
          /\ toolUseBlocks \in Seq(BlocksOf(Nat, Nat)) /\ OnePerCall(toolUseBlocks)
      BY CallsOfMessage
    <2>2. userContent \in Seq(BlocksOf(Nat, Nat)) /\ NoNews \in Nat
      BY DEF MessageOK, NoNews
    <2>3. CallsOnly(toolUseBlocks)
      BY BoundsAssumption DEF MessageOK, CallsOnly, Block, NoCall
    <2>4. Checked = ValidResults(userContent, messages)
      BY DEF Checked
    <2> HIDE DEF messages
    <2>5. ASSUME CallsIn(userContent) \subseteq CallsIn(toolUseBlocks)
          PROVE  userContent[i] \in ToSet(Checked)
      <3>1. ToSet(WithoutRepeats(userContent)) \subseteq ToSet(Checked)
        BY <2>1, <2>2, <2>4, <2>5, ValidResultsKeep
      <3>2. userContent[i] \in ToSet(WithoutRepeats(userContent))
        BY <2>2, FirstResultStays DEF FirstResult
      <3> QED
        BY <3>1, <3>2
    <2>6. ASSUME InPlace(userContent, toolUseBlocks), Position(userContent, i) \in DOMAIN toolUseBlocks
          PROVE  Block(toolUseBlocks[Position(userContent, i)].call, userContent[i].token)
                   \in ToSet(Checked)
      BY <2>1, <2>2, <2>3, <2>4, <2>6, AnsweredByPosition
    <2> QED
      BY <2>5, <2>6
  <1> QED
    BY <1>1, MessageInv, PTL
=============================================================================
