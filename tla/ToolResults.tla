----------------------------- MODULE ToolResults -----------------------------
(***************************************************************************)
(* validateAndFixToolResultIds (core/task/validateToolResultIds.ts): every *)
(* user message passes through it on its way into the API conversation.    *)
(* The provider rejects a conversation in which a tool_use block is not    *)
(* answered by exactly one tool_result of the next message.                *)
(*                                                                         *)
(* A block is a record [call, token].  In an assistant message it is a     *)
(* tool_use and call is its id; in a user message call is the id the       *)
(* tool_result answers, or NoCall for a text block.  token is the piece of *)
(* information the block carries, NoNews when it carries none (a           *)
(* placeholder, a reminder).                                               *)
(***************************************************************************)
EXTENDS Naturals, FiniteSetsExt, Selection

NoCall == 0
NoNews == 0

Block(call, token) == [call |-> call, token |-> token]
Message(role, content) == [role |-> role, content |-> content]

CallsIn(content) == {content[i].call : i \in DOMAIN content} \ {NoCall}
TokensOf(content) == {content[i].token : i \in DOMAIN content} \ {NoNews}

\* The tool_use blocks of the last assistant message: none when there is no
\* such message, which ends the function just as a message without calls does.
LastCalls(history) ==
    LET assistants == {i \in DOMAIN history : history[i].role = "assistant"}
    IN  IF assistants = {} THEN <<>> ELSE history[Max(assistants)].content

\* Mutant: repeated results stay.
WithoutRepeats_Keeps(content) == content

\* A block joins the content, unless it repeats the result of a call.
AddFirst(kept, b) ==
    IF b.call # NoCall /\ b.call \in CallsIn(kept) THEN kept ELSE Append(kept, b)

\* The first tool_result for an id is kept, later ones are dropped.
WithoutRepeats(content) == FoldLeft(AddFirst, <<>>, content)

\* Mutant: the position of a result is counted among all blocks.
Relabel_AmongAll(acc, b, calls) ==
    LET ids == CallsIn(calls)
        n == acc.seen + 1
        byPosition == IF n <= Len(calls) THEN calls[n].call ELSE NoCall
        id == IF b.call \in ids \ acc.used THEN b.call ELSE byPosition
    IN  CASE b.call = NoCall -> [acc EXCEPT !.out = Append(@, b), !.seen = n]
          [] b.call # NoCall /\ id \in acc.used \union {NoCall} -> [acc EXCEPT !.seen = n]
          [] OTHER -> [out |-> Append(acc.out, [b EXCEPT !.call = id]),
                       used |-> acc.used \union {id}, seen |-> n]

\* The next block of the content: a valid unused id stays; any other result
\* takes the id of the call at its own position if that is unused, or is dropped.
Relabel(acc, b, calls) ==
    LET ids == CallsIn(calls)
        n == acc.seen + 1
        byPosition == IF n <= Len(calls) THEN calls[n].call ELSE NoCall
        id == IF b.call \in ids \ acc.used THEN b.call ELSE byPosition
    IN  CASE b.call = NoCall -> [acc EXCEPT !.out = Append(@, b)]
          [] b.call # NoCall /\ id \in acc.used \union {NoCall} -> [acc EXCEPT !.seen = n]
          [] OTHER -> [out |-> Append(acc.out, [b EXCEPT !.call = id]),
                       used |-> acc.used \union {id}, seen |-> n]

\* Results are walked in order.
Relabelled(content, calls) ==
    FoldLeft(LAMBDA acc, b : Relabel(acc, b, calls),
             [out |-> <<>>, used |-> {}, seen |-> 0], content).out

\* Placeholders for the calls content does not answer, in call order.
Unanswered(content, calls) ==
    LET open == Selected(calls, {b \in ToSet(calls) : b.call \notin CallsIn(content)})
    IN  [i \in DOMAIN open |-> Block(open[i].call, NoNews)]

\* validateAndFixToolResultIds: the content that enters the conversation.
ValidResults(content, history) ==
    LET calls == LastCalls(history)
        unique == WithoutRepeats(content)
        fixed == Relabelled(unique, calls)
    IN  CASE calls = <<>> -> content
          [] calls # <<>> /\ CallsIn(unique) = CallsIn(calls) -> unique
          [] OTHER -> Unanswered(fixed, calls) \o fixed
=============================================================================
