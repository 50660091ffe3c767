---------------------------- MODULE MCToolResults ----------------------------
(* ToolResults over every small message: the last assistant message has up to *)
(* MaxUses tool calls, and a user message is put together block by block      *)
(* with right, wrong, repeated and missing ids.                               *)
EXTENDS ToolResults

CONSTANTS MaxUses, MaxBlocks  \* bounds

ASSUME BoundsAssumption == MaxUses \in Nat /\ MaxBlocks \in Nat

VARIABLES toolUseBlocks,  \* of the last assistant message
          userContent     \* the content on its way into the conversation

CallIds == 1 .. MaxUses + 1

RepairInit ==
    /\ \E n \in 0 .. MaxUses : toolUseBlocks = [i \in 1 .. n |-> Block(i, NoNews)]
    /\ userContent = <<>>

AppendBlock ==
    /\ Len(userContent) < MaxBlocks
    /\ \E call \in CallIds \union {NoCall} :
          userContent' = Append(userContent, Block(call, Len(userContent) + 1))
    /\ UNCHANGED toolUseBlocks

RepairSpec == RepairInit /\ [][AppendBlock]_<<toolUseBlocks, userContent>>

Checked == ValidResults(userContent, <<Message("assistant", toolUseBlocks)>>)

\* Whatever ids arrive, every tool call leaves with exactly one answer and
\* nothing else is answered: the provider's rule for tool_use and tool_result.
AnsweredExactly ==
    toolUseBlocks # <<>> =>
        /\ CallsIn(Checked) = CallsIn(toolUseBlocks)
        /\ \A i, j \in DOMAIN Checked :
               Checked[i].call = Checked[j].call /\ Checked[i].call # NoCall => i = j

\* Block i of a content is the first result for its id; as many ids as its
\* position have a result up to it.
FirstResult(content, i) ==
    /\ content[i].call # NoCall
    /\ content[i].call \notin CallsIn(SubSeq(content, 1, i - 1))
Position(content, i) == Cardinality(CallsIn(SubSeq(content, 1, i)))

\* The results with an id of calls are at the positions of their calls.
InPlace(content, calls) ==
    \A i \in DOMAIN content :
      FirstResult(content, i) /\ content[i].call \in CallsIn(calls) =>
        /\ Position(content, i) \in DOMAIN calls
        /\ content[i].call = calls[Position(content, i)].call

\* The repair hands no outcome to another call.  When all ids are valid, the
\* first result of each call is still that call's result; when some are wrong and
\* the valid ones are in place, each result answers the call at its position.
RightAnswersKept ==
    toolUseBlocks # <<>> =>
        /\ CallsIn(userContent) \subseteq CallsIn(toolUseBlocks) =>
             \A i \in DOMAIN userContent :
               FirstResult(userContent, i) => userContent[i] \in ToSet(Checked)
        /\ InPlace(userContent, toolUseBlocks) =>
             \A i \in DOMAIN userContent :
               LET n == Position(userContent, i)
               IN  FirstResult(userContent, i) /\ n \in DOMAIN toolUseBlocks =>
                     Block(toolUseBlocks[n].call, userContent[i].token) \in ToSet(Checked)
=============================================================================
