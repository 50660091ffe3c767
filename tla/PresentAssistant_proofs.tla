----------------------- MODULE PresentAssistant_proofs -----------------------
(* Proofs about the presentation of a response, for any number of calls,       *)
(* blocks, requests and presenters.                                            *)
EXTENDS PresentAssistant, FiniteSetTheorems, TLAPS

Undisturbed == failures = 0

\* Whoever presents a block has the lock, and a copy of the block at the index.
BusyHolds ==
    \A s \in Busy :
      /\ locked /\ index < Len(content)
      /\ calls[s].at = index /\ calls[s].turn = turn
      /\ calls[s].block.kind = content[index + 1].kind
      /\ calls[s].block.id = content[index + 1].id

\* The flag the reader waits for is set behind the last block only.
ReadyAtEnd ==
    /\ index <= Len(content)
    /\ ready => index = Len(content)
    /\ reader = "idle" => ready
    /\ reader = "failed" => content = <<>>

\* A tool that is executed is the only one.
UsedOnce ==
    /\ rejected => used
    /\ \A i \in DOMAIN results : results[i].executed => used
    /\ \A i, j \in DOMAIN results : results[i].executed /\ results[j].executed => i = j
    /\ \A s \in Slots : calls[s].pc = "executing" => ~used

\* Blocks that were executed are behind the index, or at it and still busy.
RanBehind ==
    \A n \in ran :
      \/ n < index
      \/ /\ n = index
         /\ \E s \in Slots : calls[s].pc \in {"executing", "finishing"} /\ ~calls[s].block.partial

Settled(id) == id \in unanswered \/ Answers(id) # {}

\* Calls behind the index are settled, and so is one that is finished with.
SettledBehind ==
    /\ \A i \in 1 .. Len(content) : i <= index /\ content[i].kind = "tool" => Settled(content[i].id)
    /\ \A s \in Slots : calls[s].pc = "finishing" => Settled(calls[s].block.id)

AnsweredOnce == \A i, j \in DOMAIN results : results[i].id = results[j].id => i = j

\* Text is shown without these states.
OnlyTools == \A s \in Slots : calls[s].pc \in {"executing", "finishing"} => calls[s].block.kind = "tool"

Orderly == OneBlockAtATime /\ (Undisturbed => BusyHolds /\ ReadyAtEnd)

IInv ==
    /\ TypeOK /\ Orderly /\ OnlyTools /\ AnsweredOnce
    /\ Undisturbed => UsedOnce /\ RanBehind /\ SettledBehind

-----------------------------------------------------------------------------
(* Slots                                                                       *)

Yielded == [Free EXCEPT !.pc = "yielded"]

LEMMA RestingTypes == Free \in Call /\ Yielded \in Call
  <1>1. NoBlock \in Block /\ 1 \in Turns /\ 0 \in 0 .. MaxBlocks
    BY BoundsAssumption DEF NoBlock, Block, Turns
  <1>2. Yielded = [pc |-> "yielded", block |-> NoBlock, turn |-> 1, at |-> 0]
    BY DEF Yielded, Free
  <1> QED
    BY <1>1, <1>2 DEF Free, Call, CallPcs

LEMMA FreeSlotIsFree == FreeSlots # {} => FreeSlot \in FreeSlots
  BY DEF FreeSlot

-----------------------------------------------------------------------------
(* A call of presentAssistantMessage up to its first await.  The content it    *)
(* finds may be longer than what was there, but not different.                 *)

Grows(c) ==
    /\ c \in Seq(Block) /\ Len(content) <= Len(c) /\ Len(c) <= MaxBlocks
    /\ \A i \in 1 .. Len(content) : c[i].kind = content[i].kind /\ c[i].id = content[i].id

\* What the caller leaves alone, and what it may have done.
Around(s, c, r, done) ==
    /\ s \in Slots /\ calls[s].pc \in {"free", "yielded"}
    /\ Grows(c) /\ content' = c
    /\ r \in BOOLEAN /\ done \in BOOLEAN
    /\ r => ready /\ Len(c) = Len(content)
    /\ Undisturbed /\ reader' = "idle" => reader = "idle" /\ r = ready
    /\ Undisturbed /\ reader' = "failed" => c = <<>>
    /\ UNCHANGED <<flags, results, turn, failures, history>>

Quiet(s) == calls' = [calls EXCEPT ![s] = Free] \/ calls' = [calls EXCEPT ![s] = Yielded]

FindsLock(s, r) == locked /\ (ready' <=> r) /\ Quiet(s) /\ index' = index /\ locked' /\ pending' \in BOOLEAN

FindsNothing(s, c, r, done) ==
    /\ ~locked /\ index >= Len(c)
    /\ (ready' <=> r \/ done) /\ Quiet(s) /\ index' = index /\ ~locked' /\ pending' \in BOOLEAN

Starts(s, c, r) ==
    /\ ~locked /\ index < Len(c)
    /\ (ready' <=> r) /\ calls' = [calls EXCEPT ![s] = Presenting(c)]
    /\ index' = index /\ locked' /\ pending' \in BOOLEAN

Passes(s, c, r, done) ==
    /\ ~locked /\ index < Len(c) /\ c[index + 1].kind = "text"
    /\ ready' => r \/ index + 1 = Len(c) \/ (index + 1 >= Len(c) /\ done)
    /\ Quiet(s) /\ index' = index + 1 /\ ~locked' /\ pending' \in BOOLEAN
    /\ r => ready'

LEMMA PresentCases ==
  ASSUME TypeOK, NEW s, NEW c, NEW r, NEW done, Around(s, c, r, done), Present(s, c, r, done)
  PROVE  /\ locked' \in BOOLEAN /\ pending' \in BOOLEAN /\ ready' \in BOOLEAN
         /\ \/ FindsLock(s, r) \/ FindsNothing(s, c, r, done)
            \/ Starts(s, c, r) \/ Passes(s, c, r, done)
  <1>1. locked \in BOOLEAN /\ pending \in BOOLEAN /\ ready \in BOOLEAN
    BY DEF TypeOK
  <1>2. r \in BOOLEAN /\ done \in BOOLEAN
    BY DEF Around
  <1> USE <1>1, <1>2
  <1>3. CASE /\ locked
             /\ pending' = TRUE /\ ready' = r
             /\ calls' = [calls EXCEPT ![s] = Free]
             /\ UNCHANGED <<index, locked>>
    BY <1>3 DEF FindsLock, Quiet
  <1>4. CASE /\ ~locked /\ index >= Len(c)
             /\ pending' = FALSE
             /\ ready' = (r \/ done)
             /\ calls' = [calls EXCEPT ![s] = Free]
             /\ UNCHANGED <<index, locked>>
    BY <1>4 DEF FindsNothing, Quiet
  <1>5. CASE /\ ~locked /\ index < Len(c)
             /\ locked' = TRUE /\ pending' = FALSE /\ ready' = r
             /\ calls' = [calls EXCEPT ![s] = Presenting(c)]
             /\ UNCHANGED index
    BY <1>5 DEF Starts
  <1>6. CASE /\ ~locked /\ index < Len(c)
             /\ c[index + 1].kind = "text"
             /\ Epilogue(s, c[index + 1], c, r, FALSE, done, TRUE)
    <2>1. /\ locked' = FALSE /\ pending' = FALSE /\ index' = index + 1
          /\ ready' = (r \/ (index + 1 = Len(c) \/ (index + 1 >= Len(c) /\ done)))
      BY <1>6 DEF Epilogue
    <2>2. Quiet(s)
      BY <1>6 DEF Epilogue, Quiet, Yielded
    <2> QED
      BY <1>6, <2>1, <2>2 DEF Passes
  <1> QED
    BY <1>3, <1>4, <1>5, <1>6 DEF Present

LEMMA PresentTypes ==
  ASSUME TypeOK, NEW s, NEW c, NEW r, NEW done, Around(s, c, r, done), Present(s, c, r, done)
  PROVE  /\ index' \in Nat /\ locked' \in BOOLEAN /\ pending' \in BOOLEAN /\ ready' \in BOOLEAN
         /\ calls' \in [Slots -> Call]
  <1>1. index \in Nat /\ calls \in [Slots -> Call] /\ s \in Slots /\ turn \in Turns
    BY DEF TypeOK, Around
  <1>2. Quiet(s) => calls' \in [Slots -> Call]
    BY <1>1, RestingTypes DEF Quiet
  <1>3. ASSUME Starts(s, c, r) PROVE calls' \in [Slots -> Call]
    <2>1. Len(c) \in Nat /\ c[index + 1] \in Block /\ index \in 0 .. MaxBlocks
      BY <1>1, <1>3, BoundsAssumption DEF Around, Grows, Starts
    <2>2. Presenting(c) \in Call
      BY <1>1, <2>1 DEF Presenting, Call, CallPcs
    <2> QED
      BY <1>1, <1>3, <2>2 DEF Starts
  <1>4. index' \in Nat
    BY <1>1, PresentCases DEF FindsLock, FindsNothing, Starts, Passes
  <1> QED
    BY <1>2, <1>3, <1>4, PresentCases DEF FindsLock, FindsNothing, Passes

LEMMA QuietSlots ==
  ASSUME calls \in [Slots -> Call], NEW s \in Slots, Quiet(s)
  PROVE  /\ calls'[s].pc \in {"free", "yielded"}
         /\ \A t \in Slots : t # s => calls'[t] = calls[t]
         /\ Busy' = Busy \ {s}
  <1>1. /\ calls'[s].pc \in {"free", "yielded"}
        /\ \A t \in Slots : t # s => calls'[t] = calls[t]
    BY DEF Quiet, Yielded, Free
  <1> QED
    BY <1>1 DEF Busy

LEMMA StartSlots ==
  ASSUME calls \in [Slots -> Call], NEW s \in Slots, NEW c, NEW r, Starts(s, c, r)
  PROVE  /\ calls'[s] = Presenting(c) /\ calls'[s].pc = "presenting"
         /\ \A t \in Slots : t # s => calls'[t] = calls[t]
         /\ Busy' = Busy \cup {s}
  <1>1. calls'[s] = Presenting(c) /\ \A t \in Slots : t # s => calls'[t] = calls[t]
    BY DEF Starts
  <1> QED
    BY <1>1 DEF Busy, Presenting

LEMMA PresentOrderly ==
  ASSUME TypeOK, Orderly, NEW s, NEW c, NEW r, NEW done,
         Around(s, c, r, done), Present(s, c, r, done)
  PROVE  Orderly'
  <1> SUFFICES ASSUME Undisturbed PROVE OneBlockAtATime' /\ BusyHolds' /\ ReadyAtEnd'
    BY DEF Orderly, Undisturbed, OneBlockAtATime, Around
  <1>1. /\ calls \in [Slots -> Call] /\ s \in Slots /\ s \notin Busy /\ index \in Nat
        /\ content \in Seq(Block) /\ ready \in BOOLEAN /\ r \in BOOLEAN
    BY DEF TypeOK, Around, Busy
  <1>2. /\ \A t, u \in Busy : t = u
        /\ BusyHolds /\ ReadyAtEnd
    BY DEF Orderly, OneBlockAtATime, Undisturbed
  <1>3. /\ Grows(c) /\ content' = c /\ turn' = turn
        /\ Len(c) \in Nat /\ Len(content) \in Nat /\ Len(content) <= Len(c)
    BY <1>1 DEF Around, Grows
  <1>4. /\ r => ready /\ Len(c) = Len(content)
        /\ reader' = "idle" => reader = "idle" /\ r = ready
        /\ reader' = "failed" => c = <<>>
    BY DEF Around
  <1>5. ASSUME Quiet(s), index' = index, locked' <=> locked PROVE OneBlockAtATime' /\ BusyHolds'
    <2>1. Busy' = Busy /\ \A t \in Busy : calls'[t] = calls[t]
      BY <1>1, <1>5, QuietSlots DEF Busy
    <2>2. \A t \in Busy : c[index + 1].kind = content[index + 1].kind /\ c[index + 1].id = content[index + 1].id
      BY <1>1, <1>2, <1>3 DEF BusyHolds, Grows
    <2> QED
      BY <1>1, <1>2, <1>3, <1>5, <2>1, <2>2 DEF OneBlockAtATime, BusyHolds
  <1>6. CASE FindsLock(s, r)
    <2>1. ReadyAtEnd'
      BY <1>1, <1>2, <1>3, <1>4, <1>6 DEF FindsLock, ReadyAtEnd
    <2> QED
      BY <1>5, <1>6, <2>1 DEF FindsLock
  <1>7. CASE FindsNothing(s, c, r, done)
    <2>1. ReadyAtEnd'
      BY <1>1, <1>2, <1>3, <1>4, <1>7 DEF FindsNothing, ReadyAtEnd
    <2> QED
      BY <1>5, <1>7, <2>1 DEF FindsNothing
  <1>8. CASE Starts(s, c, r)
    <2>1. Busy = {}
      BY <1>2, <1>8 DEF Starts, BusyHolds
    <2>2. Busy' = {s} /\ calls'[s] = Presenting(c)
      BY <1>1, <1>8, <2>1, StartSlots
    <2>3. ~r
      BY <1>1, <1>2, <1>3, <1>4, <1>8 DEF Starts, ReadyAtEnd
    <2>4. OneBlockAtATime' /\ BusyHolds'
      BY <1>1, <1>3, <1>8, <2>2 DEF OneBlockAtATime, BusyHolds, Starts, Presenting
    <2>5. ReadyAtEnd'
      BY <1>1, <1>2, <1>3, <1>4, <1>8, <2>3 DEF Starts, ReadyAtEnd
    <2> QED
      BY <2>4, <2>5
  <1>9. CASE Passes(s, c, r, done)
    <2>1. Busy = {}
      BY <1>2, <1>9 DEF Passes, BusyHolds
    <2>2. Busy' = {}
      BY <1>1, <1>9, <2>1, QuietSlots DEF Passes
    <2>3. ~r
      BY <1>1, <1>2, <1>3, <1>4, <1>9 DEF Passes, ReadyAtEnd
    <2>4. ReadyAtEnd'
      BY <1>1, <1>2, <1>3, <1>4, <1>9, <2>3 DEF Passes, ReadyAtEnd
    <2> QED
      BY <2>2, <2>4 DEF OneBlockAtATime, BusyHolds
  <1> QED
    BY <1>6, <1>7, <1>8, <1>9, PresentCases

LEMMA PresentHistory ==
  ASSUME TypeOK, Orderly, Undisturbed, UsedOnce, RanBehind, SettledBehind,
         NEW s, NEW c, NEW r, NEW done, Around(s, c, r, done), Present(s, c, r, done)
  PROVE  UsedOnce' /\ RanBehind' /\ SettledBehind'
  <1>1. /\ calls \in [Slots -> Call] /\ s \in Slots /\ s \notin Busy
        /\ calls[s].pc \notin {"executing", "finishing"}
        /\ index \in Nat /\ content \in Seq(Block)
    BY DEF TypeOK, Around, Busy
  <1>2. /\ Grows(c) /\ content' = c /\ Len(c) \in Nat /\ Len(content) \in Nat
        /\ UNCHANGED <<flags, results, turn, failures, history>>
    BY <1>1 DEF Around, Grows
  <1>3. BusyHolds /\ ReadyAtEnd
    BY DEF Orderly
  <1>4. \/ index' = index
        \/ index' = index + 1 /\ Busy = {} /\ index < Len(c) /\ c[index + 1].kind = "text"
    BY <1>3, PresentCases DEF FindsLock, FindsNothing, Starts, Passes, BusyHolds
  <1>5. \A t \in Slots :
          /\ calls'[t].pc \in {"executing", "finishing"} => t # s
          /\ t # s => calls'[t] = calls[t]
    BY <1>1, PresentCases, QuietSlots, StartSlots
    DEF FindsLock, FindsNothing, Passes
  <1>6. UsedOnce'
    BY <1>2, <1>5 DEF UsedOnce, flags
  <1>7. RanBehind'
    <2> SUFFICES ASSUME NEW n \in ran
                 PROVE  \/ n < index'
                        \/ /\ n = index'
                           /\ \E t \in Slots : /\ calls'[t].pc \in {"executing", "finishing"}
                                               /\ ~calls'[t].block.partial
      BY <1>2 DEF RanBehind, history
    <2>1. n \in Nat
      BY DEF TypeOK
    <2>2. CASE n < index
      BY <1>1, <1>4, <2>1, <2>2
    <2>3. CASE n = index /\ \E t \in Slots : calls[t].pc \in {"executing", "finishing"} /\ ~calls[t].block.partial
      <3>1. PICK t \in Slots : calls[t].pc \in {"executing", "finishing"} /\ ~calls[t].block.partial
        BY <2>3
      <3>2. t # s /\ t \in Busy
        BY <1>1, <3>1 DEF Busy
      <3> QED
        BY <1>4, <1>5, <2>3, <3>1, <3>2
    <2> QED
      BY <2>2, <2>3 DEF RanBehind
  <1>8. SettledBehind'
    <2>1. \A id : Settled(id)' = Settled(id)
      BY <1>2 DEF Settled, Answers, history
    <2>2. ASSUME NEW i \in 1 .. Len(c), i <= index', c[i].kind = "tool" PROVE Settled(c[i].id)
      <3>1. i <= index
        BY <1>1, <1>2, <1>4, <2>2
      <3>2. i \in 1 .. Len(content)
        BY <1>1, <1>2, <1>3, <3>1 DEF ReadyAtEnd
      <3> QED
        BY <1>2, <2>2, <3>1, <3>2 DEF Grows, SettledBehind
    <2>3. ASSUME NEW t \in Slots, calls'[t].pc = "finishing" PROVE Settled(calls'[t].block.id)
      BY <1>5, <2>3 DEF SettledBehind
    <2> QED
      BY <1>2, <2>1, <2>2, <2>3 DEF SettledBehind
  <1> QED
    BY <1>6, <1>7, <1>8

-----------------------------------------------------------------------------
(* A result is added.                                                          *)

LEMMA PushedFacts ==
  ASSUME results \in Seq(Result), NEW id \in Ids, NEW e \in BOOLEAN, NEW of \in Turns,
         results' = Pushed(id, e, of), AnsweredOnce
  PROVE  /\ results' \in Seq(Result) /\ AnsweredOnce'
         /\ \E i \in DOMAIN results' : results'[i].id = id
         /\ \A i \in DOMAIN results : i \in DOMAIN results' /\ results'[i] = results[i]
         /\ \A i \in DOMAIN results' :
               \/ i \in DOMAIN results
               \/ i = Len(results) + 1 /\ results'[i].executed = e
  <1>1. CASE \E i \in DOMAIN results : results[i].id = id
    BY <1>1 DEF Pushed, AnsweredOnce
  <1>2. CASE ~ \E i \in DOMAIN results : results[i].id = id
    <2> DEFINE new == [id |-> id, executed |-> e, turn |-> of]
    <2>1. results' = Append(results, new) /\ new \in Result
      BY <1>2 DEF Pushed, Result
    <2>2. /\ results' \in Seq(Result) /\ Len(results') = Len(results) + 1
          /\ \A i \in 1 .. Len(results) : results'[i] = results[i]
          /\ results'[Len(results) + 1] = new /\ Len(results) \in Nat
      BY <2>1
    <2>3. DOMAIN results = 1 .. Len(results) /\ DOMAIN results' = 1 .. Len(results) + 1
      BY <2>2
    <2>4. AnsweredOnce'
      BY <1>2, <2>2, <2>3 DEF AnsweredOnce
    <2> QED
      BY <2>2, <2>3, <2>4
  <1> QED
    BY <1>1, <1>2

LEMMA PushedSettles ==
  ASSUME results \in Seq(Result), NEW id \in Ids, NEW e \in BOOLEAN, NEW of \in Turns,
         results' = Pushed(id, e, of), AnsweredOnce, unanswered' = unanswered
  PROVE  Settled(id)' /\ \A other : Settled(other) => Settled(other)'
  BY PushedFacts DEF Settled, Answers

-----------------------------------------------------------------------------
(* The last lines of a call that has presented its block.                      *)

Left(s, u) == ~BlockOf(s).partial \/ u

EndsBlock(s, u) ==
    /\ Quiet(s) /\ ~locked' /\ pending' = pending
    /\ index' = IF Left(s, u) THEN index + 1 ELSE index
    /\ ready' => ready \/ (Left(s, u) /\ index + 1 >= Len(content))
    /\ ready => ready'
    /\ locked' \in BOOLEAN /\ ready' \in BOOLEAN

LEMMA EndsCases ==
  ASSUME TypeOK, NEW s \in Busy, NEW u \in BOOLEAN, Ends(s, u)
  PROVE  EndsBlock(s, u)
  <1>1. /\ ready \in BOOLEAN /\ complete \in BOOLEAN /\ index \in Nat
        /\ Len(content) \in Nat /\ BlockOf(s).partial \in BOOLEAN
    BY DEF TypeOK, Busy, BlockOf, Call, Block
  <1>2. Quiet(s)
    BY DEF Ends, Epilogue, Quiet, Yielded
  <1>3. locked' = FALSE /\ pending' = pending /\ index' = IF Left(s, u) THEN index + 1 ELSE index
    BY DEF Ends, Epilogue, Left
  <1>4. ready' = (ready \/ (Left(s, u) /\ (index' = Len(content) \/ (index' >= Len(content) /\ complete))))
    BY DEF Ends, Epilogue, Left
  <1>5. Left(s, u) => index' = index + 1
    BY <1>3
  <1>6. ready' => ready \/ (Left(s, u) /\ index + 1 >= Len(content))
    BY <1>1, <1>4, <1>5
  <1> QED
    BY <1>1, <1>2, <1>3, <1>4, <1>6 DEF EndsBlock

LEMMA EndsTypes ==
  ASSUME TypeOK, NEW s \in Busy, NEW u \in BOOLEAN, Ends(s, u)
  PROVE  /\ index' \in Nat /\ locked' \in BOOLEAN /\ pending' \in BOOLEAN /\ ready' \in BOOLEAN
         /\ calls' \in [Slots -> Call]
  BY EndsCases, RestingTypes DEF EndsBlock, Quiet, TypeOK

LEMMA EndsOrderly ==
  ASSUME TypeOK, Orderly, NEW s \in Busy, NEW u \in BOOLEAN, Ends(s, u),
         UNCHANGED <<content, reader, turn>>, Undisturbed' => Undisturbed
  PROVE  Orderly'
  <1> SUFFICES ASSUME Undisturbed PROVE OneBlockAtATime' /\ BusyHolds' /\ ReadyAtEnd'
    BY DEF Orderly, Undisturbed, OneBlockAtATime
  <1>1. /\ calls \in [Slots -> Call] /\ s \in Slots /\ index \in Nat /\ Len(content) \in Nat
        /\ ready \in BOOLEAN
    BY DEF TypeOK, Busy
  <1>2. (\A t, v \in Busy : t = v) /\ BusyHolds /\ ReadyAtEnd
    BY DEF Orderly, OneBlockAtATime, Undisturbed
  <1>3. EndsBlock(s, u)
    BY EndsCases
  <1>4. Busy' = {}
    BY <1>1, <1>2, <1>3, QuietSlots DEF EndsBlock
  <1>5. index < Len(content) /\ ~ready
    BY <1>1, <1>2 DEF BusyHolds, ReadyAtEnd
  <1>6. ReadyAtEnd'
    BY <1>1, <1>2, <1>3, <1>5 DEF EndsBlock, ReadyAtEnd
  <1> QED
    BY <1>4, <1>6 DEF OneBlockAtATime, BusyHolds

\* What a call may have done before its last lines when nothing has failed.
LEMMA EndsHistory ==
  ASSUME TypeOK, Orderly, Undisturbed, UsedOnce, RanBehind, SettledBehind,
         NEW s \in Busy, NEW u \in BOOLEAN, Ends(s, u),
         UNCHANGED <<content, flags, history>>,
         \A id : Settled(id) => Settled(id)',
         \A id : Left(s, u) /\ BlockOf(s).kind = "tool" /\ BlockOf(s).id = id => Settled(id)',
         \A i \in DOMAIN results' : results'[i].executed => i \in DOMAIN results /\ results'[i] = results[i]
  PROVE  UsedOnce' /\ RanBehind' /\ SettledBehind'
  <1>1. /\ calls \in [Slots -> Call] /\ s \in Slots /\ index \in Nat /\ Len(content) \in Nat
    BY DEF TypeOK, Busy
  <1>2. (\A t, v \in Busy : t = v) /\ BusyHolds /\ ReadyAtEnd
    BY DEF Orderly, OneBlockAtATime, Undisturbed
  <1>3. EndsBlock(s, u)
    BY EndsCases
  <1>4. Busy' = {}
    BY <1>1, <1>2, <1>3, QuietSlots DEF EndsBlock
  <1>5. UsedOnce'
    BY <1>4 DEF UsedOnce, Busy, flags
  <1>6. RanBehind'
    <2> SUFFICES ASSUME NEW n \in ran PROVE n < index'
      BY DEF RanBehind, history
    <2>1. n \in Nat
      BY DEF TypeOK
    <2>2. CASE n < index
      BY <1>1, <1>3, <2>1, <2>2 DEF EndsBlock
    <2>3. CASE n = index /\ \E t \in Slots : calls[t].pc \in {"executing", "finishing"} /\ ~calls[t].block.partial
      <3>1. PICK t \in Slots : calls[t].pc \in {"executing", "finishing"} /\ ~calls[t].block.partial
        BY <2>3
      <3>2. t = s
        BY <1>2, <3>1 DEF Busy
      <3>3. Left(s, u)
        BY <3>1, <3>2 DEF Left, BlockOf
      <3> QED
        BY <1>1, <1>3, <2>3, <3>3 DEF EndsBlock
    <2> QED
      BY <2>2, <2>3 DEF RanBehind
  <1>7. SettledBehind'
    <2>1. ASSUME NEW i \in 1 .. Len(content), i <= index', content[i].kind = "tool",
                 NEW id, id = content[i].id
          PROVE  Settled(id)'
      <3>1. CASE i <= index
        BY <2>1, <3>1 DEF SettledBehind
      <3>2. CASE i = index + 1 /\ Left(s, u)
        BY <1>2, <2>1, <3>2 DEF BusyHolds, BlockOf
      <3> QED
        BY <1>1, <1>3, <2>1, <3>1, <3>2 DEF EndsBlock
    <2>2. \A t \in Slots : calls'[t].pc # "finishing"
      BY <1>4 DEF Busy
    <2> QED
      BY <2>1, <2>2 DEF SettledBehind
  <1> QED
    BY <1>5, <1>6, <1>7

-----------------------------------------------------------------------------
(* The steps of the reader                                                     *)

ReaderTypes ==
    /\ provider' = provider /\ complete' \in BOOLEAN
    /\ open' \in [Ids -> 0..MaxBlocks] /\ reader' \in ReaderPcs

LEMMA AroundKeeps ==
  ASSUME IInv, NEW s, NEW c, NEW r, NEW done,
         Around(s, c, r, done), Present(s, c, r, done), ReaderTypes
  PROVE  IInv'
  <1>1. Orderly'
    BY PresentOrderly DEF IInv
  <1>2. AnsweredOnce'
    BY DEF IInv, AnsweredOnce, Around
  <1>3. Undisturbed' => UsedOnce' /\ RanBehind' /\ SettledBehind'
    BY PresentHistory DEF IInv, Undisturbed, Around
  <1>4. content' \in Seq(Block) /\ Len(content') <= MaxBlocks
    BY DEF Around, Grows
  <1>5. failures' = 0 => index' <= Len(content')
    BY <1>1 DEF Orderly, ReadyAtEnd, Undisturbed
  <1>6. UNCHANGED <<rejected, used, results, turn, failures, ran, unanswered>>
    BY DEF Around, flags, history
  <1>7. TypeOK'
    BY <1>4, <1>5, <1>6, PresentTypes DEF IInv, TypeOK, ReaderTypes
  <1>8. OnlyTools'
    <2>1. calls \in [Slots -> Call] /\ s \in Slots /\ TypeOK /\ OnlyTools
      BY DEF IInv, TypeOK, Around
    <2>2. \A t \in Slots : calls'[t].pc \in {"executing", "finishing"} => calls'[t] = calls[t]
      BY <2>1, PresentCases, QuietSlots, StartSlots DEF FindsLock, FindsNothing, Passes
    <2> QED
      BY <2>1, <2>2 DEF OnlyTools
  <1> QED
    BY <1>1, <1>2, <1>3, <1>7, <1>8 DEF IInv

\* The content stays, up to what is partial, and nothing is presented.
LEMMA QuietKeeps ==
  ASSUME IInv, ReaderTypes, Grows(content'), Len(content') = Len(content),
         UNCHANGED <<index, locked, pending, ready, calls, flags, results, turn, history>>,
         failures' \in 0 .. MaxFailures, Undisturbed' => Undisturbed,
         reader' = "idle" => ready, Undisturbed' /\ reader' = "failed" => content' = <<>>
  PROVE  IInv'
  <1>1. content' \in Seq(Block) /\ Len(content') <= MaxBlocks
    BY DEF Grows
  <1>2. TypeOK'
    BY <1>1 DEF IInv, TypeOK, ReaderTypes, flags, history, Undisturbed
  <1>3. AnsweredOnce'
    BY DEF IInv, AnsweredOnce
  <1>4. ASSUME Undisturbed'
        PROVE  Orderly' /\ UsedOnce' /\ RanBehind' /\ SettledBehind'
    <2>1. Orderly /\ UsedOnce /\ RanBehind /\ SettledBehind /\ BusyHolds /\ ReadyAtEnd
      BY <1>4 DEF IInv, Orderly
    <2>2. Busy' = Busy /\ index \in Nat /\ Len(content) \in Nat
      BY DEF Busy, IInv, TypeOK
    <2>3. UsedOnce' /\ RanBehind'
      BY <2>1 DEF UsedOnce, RanBehind, flags, history
    <2>4. OneBlockAtATime'
      BY <1>4, <2>1, <2>2 DEF Orderly, OneBlockAtATime, Undisturbed
    <2>5. BusyHolds'
      BY <2>1, <2>2 DEF BusyHolds, Grows
    <2>6. ReadyAtEnd'
      BY <1>4, <2>1, <2>2 DEF ReadyAtEnd
    <2>7. SettledBehind'
      <3>1. \A id : Settled(id)' = Settled(id)
        BY DEF Settled, Answers, history
      <3> QED
        BY <2>1, <2>2, <3>1 DEF SettledBehind, Grows
    <2> QED
      BY <2>3, <2>4, <2>5, <2>6, <2>7 DEF Orderly
  <1>5. ~Undisturbed' => Orderly'
    BY DEF Orderly, OneBlockAtATime, Undisturbed
  <1>6. OnlyTools'
    BY DEF IInv, OnlyTools
  <1> QED
    BY <1>2, <1>3, <1>4, <1>5, <1>6 DEF IInv

LEMMA GrowsSame == TypeOK => Grows(content)
  BY DEF TypeOK, Grows

LEMMA ChunkKeeps ==
  ASSUME IInv, reader = "reading", NEW c, NEW r \in BOOLEAN, Chunk(c, r), Grows(c),
         r => ready /\ Len(c) = Len(content), open' \in [Ids -> 0..MaxBlocks]
  PROVE  IInv'
  <1>1. ReaderTypes
    BY DEF Chunk, AfterChunk, ReaderTypes, ReaderPcs, IInv, TypeOK
  <1>2. FreeSlot \in Slots /\ calls[FreeSlot].pc = "free"
    BY FreeSlotIsFree DEF Chunk, FreeSlots
  <1>3. Around(FreeSlot, c, r, FALSE)
    BY <1>2 DEF Around, Chunk, AfterChunk
  <1> QED
    BY <1>1, <1>3, AroundKeeps DEF Chunk

\* A block is appended to content that is the same, up to what is partial.
LEMMA AppendGrows ==
  ASSUME TypeOK, NEW c, Grows(c), Len(c) = Len(content), Len(content) < MaxBlocks, NEW b \in Block
  PROVE  Grows(Append(c, b))
  <1>1. c \in Seq(Block) /\ Len(content) \in Nat /\ Len(c) \in Nat /\ MaxBlocks \in Nat
    BY BoundsAssumption DEF TypeOK, Grows
  <1>2. Append(c, b) \in Seq(Block) /\ Len(Append(c, b)) = Len(c) + 1
    BY <1>1
  <1>3. \A i \in 1 .. Len(content) : Append(c, b)[i] = c[i]
    BY <1>1
  <1> QED
    BY <1>1, <1>2, <1>3 DEF Grows

\* Blocks that are marked as complete are the same otherwise.
LEMMA CompleteGrows ==
  ASSUME TypeOK, NEW k \in 1 .. Len(content)
  PROVE  /\ Grows([content EXCEPT ![k].partial = FALSE])
         /\ Len([content EXCEPT ![k].partial = FALSE]) = Len(content)
  <1> DEFINE c == [content EXCEPT ![k].partial = FALSE]
  <1>1. content \in Seq(Block) /\ Len(content) <= MaxBlocks /\ content[k] \in Block
    BY DEF TypeOK
  <1>2. [content[k] EXCEPT !.partial = FALSE] \in Block
    BY <1>1 DEF Block
  <1>3. c = [content EXCEPT ![k] = [content[k] EXCEPT !.partial = FALSE]]
    OBVIOUS
  <1>4. c \in Seq(Block) /\ Len(c) = Len(content)
    BY <1>1, <1>2, <1>3
  <1>5. \A i \in 1 .. Len(content) : c[i].kind = content[i].kind /\ c[i].id = content[i].id
    BY <1>1, <1>3 DEF Block
  <1> QED
    BY <1>1, <1>4, <1>5 DEF Grows

LEMMA ReadTextKeeps == ASSUME IInv, ReadText PROVE IInv'
  <1>1. reader = "reading" /\ open' \in [Ids -> 0..MaxBlocks] /\ ready \in BOOLEAN /\ Grows(content)
    BY GrowsSame DEF ReadText, IInv, TypeOK
  <1>2. CASE Chunk(content, ready)
    BY <1>1, <1>2, ChunkKeeps
  <1>3. CASE Len(content) < MaxBlocks /\ Chunk(Append(content, [kind |-> "text", id |-> None, partial |-> TRUE]), FALSE)
    <2>1. [kind |-> "text", id |-> None, partial |-> TRUE] \in Block
      BY DEF Block
    <2> QED
      BY <1>1, <1>3, <2>1, AppendGrows, ChunkKeeps DEF IInv
  <1> QED
    BY <1>2, <1>3 DEF ReadText

LEMMA ReadToolStartKeeps == ASSUME IInv, NEW id \in Ids, ReadToolStart(id) PROVE IInv'
  <1> DEFINE before == IF InPartialText THEN [content EXCEPT ![Len(content)].partial = FALSE] ELSE content
             block  == [kind |-> "tool", id |-> id, partial |-> TRUE]
  <1>1. /\ reader = "reading" /\ Len(content) < MaxBlocks /\ TypeOK
        /\ open' = [open EXCEPT ![id] = Len(content) + 1]
        /\ Chunk(Append(before, block), FALSE)
    BY DEF ReadToolStart, IInv
  <1>2. Grows(before) /\ Len(before) = Len(content)
    <2>1. InPartialText => Len(content) \in 1 .. Len(content)
      BY <1>1 DEF InPartialText, TypeOK
    <2> QED
      BY <1>1, <2>1, CompleteGrows, GrowsSame
  <1>3. block \in Block
    BY DEF Block
  <1>4. Grows(Append(before, block))
    BY <1>1, <1>2, <1>3, AppendGrows
  <1>5. open' \in [Ids -> 0..MaxBlocks]
    BY <1>1, BoundsAssumption DEF TypeOK
  <1> QED
    BY <1>1, <1>4, <1>5, ChunkKeeps

LEMMA ReadToolDeltaKeeps == ASSUME IInv, NEW id \in Ids, ReadToolDelta(id) PROVE IInv'
  <1>1. /\ reader = "reading" /\ open' \in [Ids -> 0..MaxBlocks] /\ ready \in BOOLEAN
        /\ Grows(content) /\ Chunk(content, ready)
    BY GrowsSame DEF ReadToolDelta, IInv, TypeOK
  <1> QED
    BY <1>1, ChunkKeeps

LEMMA ReadToolCallKeeps == ASSUME IInv, NEW id \in Ids, ReadToolCall(id) PROVE IInv'
  <1> DEFINE block == [kind |-> "tool", id |-> id, partial |-> FALSE]
  <1>1. /\ reader = "reading" /\ open' \in [Ids -> 0..MaxBlocks] /\ Len(content) < MaxBlocks
        /\ Grows(content) /\ Chunk(Append(content, block), FALSE) /\ block \in Block
    BY GrowsSame DEF ReadToolCall, IInv, TypeOK, Block
  <1>2. Grows(Append(content, block))
    BY <1>1, AppendGrows DEF IInv
  <1> QED
    BY <1>1, <1>2, ChunkKeeps

LEMMA FinalizeCallKeeps == ASSUME IInv, NEW id \in Ids, FinalizeCall(id) PROVE IInv'
  <1> DEFINE c == [content EXCEPT ![open[id]].partial = FALSE]
  <1>1. /\ reader = "finalizing" /\ FreeSlots # {} /\ TypeOK /\ content' = c
        /\ Present(FreeSlot, c, FALSE, FALSE)
        /\ UNCHANGED <<provider, complete, reader, flags, results, turn, failures, history>>
        /\ open' = [open EXCEPT ![id] = 0]
    BY DEF FinalizeCall, IInv
  <1>2. Grows(c)
    <2>1. CASE open[id] \in 1 .. Len(content)
      BY <1>1, <2>1, CompleteGrows
    <2>2. CASE open[id] \notin 1 .. Len(content)
      <3>1. c = content
        BY <1>1, <2>2 DEF TypeOK
      <3> QED
        BY <1>1, <3>1, GrowsSame
    <2> QED
      BY <2>1, <2>2
  <1>3. Around(FreeSlot, c, FALSE, FALSE)
    BY <1>1, <1>2, FreeSlotIsFree DEF FreeSlots, Around
  <1>4. ReaderTypes
    BY <1>1, BoundsAssumption DEF ReaderTypes, TypeOK
  <1> QED
    BY <1>1, <1>3, <1>4, AroundKeeps

LEMMA CompleteStreamKeeps == ASSUME IInv, CompleteStream PROVE IInv'
  <1> DEFINE c == [i \in DOMAIN content |-> [content[i] EXCEPT !.partial = FALSE]]
  <1>1. /\ reader = "finalizing" /\ FreeSlots # {} /\ TypeOK /\ content' = c /\ complete' = TRUE
        /\ UNCHANGED <<provider, flags, results, open, turn, failures, history>>
        /\ reader' = IF content = <<>> THEN "failed" ELSE "waiting"
        /\ \/ Present(FreeSlot, c, ready, TRUE)
           \/ UNCHANGED <<index, locked, pending, ready, calls>>
    BY DEF CompleteStream, IInv
  <1>2. Grows(c) /\ Len(c) = Len(content)
    <2>1. content \in Seq(Block) /\ Len(content) <= MaxBlocks /\ Len(content) \in Nat
          /\ DOMAIN content = 1 .. Len(content)
      BY <1>1 DEF TypeOK
    <2>2. \A i \in 1 .. Len(content) :
            /\ content[i] \in Block /\ c[i] \in Block
            /\ c[i].kind = content[i].kind /\ c[i].id = content[i].id
      <3>1. \A b \in Block : LET d == [b EXCEPT !.partial = FALSE]
                             IN d \in Block /\ d.kind = b.kind /\ d.id = b.id
        BY DEF Block
      <3>2. \A i \in 1 .. Len(content) : content[i] \in Block
        BY <2>1
      <3> QED
        BY <2>1, <3>1, <3>2
    <2>3. c \in Seq(Block) /\ Len(c) = Len(content)
      BY <2>1, <2>2
    <2> QED
      BY <2>1, <2>2, <2>3 DEF Grows
  <1>3. content = <<>> => c = <<>>
    BY <1>1, <1>2 DEF Grows, TypeOK
  <1>4. ReaderTypes
    BY <1>1 DEF ReaderTypes, TypeOK, ReaderPcs
  <1>5. CASE Present(FreeSlot, c, ready, TRUE)
    <2>1. ready \in BOOLEAN
      BY <1>1 DEF TypeOK
    <2>2. Around(FreeSlot, c, ready, TRUE)
      BY <1>1, <1>2, <1>3, <2>1, FreeSlotIsFree DEF FreeSlots, Around
    <2> QED
      BY <1>4, <1>5, <2>2, AroundKeeps
  <1>6. CASE UNCHANGED <<index, locked, pending, ready, calls>>
    <2>1. failures' \in 0 .. MaxFailures /\ (Undisturbed' => Undisturbed)
      BY <1>1 DEF TypeOK, Undisturbed
    <2>2. UNCHANGED <<flags, results, turn, history>>
      BY <1>1
    <2> QED
      BY <1>1, <1>2, <1>3, <1>4, <1>6, <2>1, <2>2, QuietKeeps
  <1> QED
    BY <1>1, <1>5, <1>6

LEMMA ReaderRestsKeeps ==
  ASSUME IInv, EndOfStream \/ StreamFails \/ LeaveWait
  PROVE  IInv'
  <1>1. /\ UNCHANGED <<provider, content, complete, open, index, locked, pending, ready, calls,
                       flags, results, turn, history>>
        /\ reader' \in ReaderPcs /\ TypeOK
        /\ reader' = "idle" => ready
    BY DEF EndOfStream, StreamFails, LeaveWait, ReaderPcs, IInv
  <1>2. /\ failures' \in 0 .. MaxFailures /\ (Undisturbed' => Undisturbed)
        /\ Undisturbed' => reader' # "failed"
    BY <1>1, BoundsAssumption DEF EndOfStream, StreamFails, LeaveWait, TypeOK, Undisturbed
  <1>3. Grows(content') /\ Len(content') = Len(content)
    BY <1>1, GrowsSame
  <1>4. ReaderTypes
    BY <1>1 DEF ReaderTypes, TypeOK
  <1> QED
    BY <1>1, <1>2, <1>3, <1>4, QuietKeeps

\* The next request begins when no block is presented, unless something failed.
LEMMA NextRequestKeeps == ASSUME IInv, NextRequest PROVE IInv'
  <1>1. TypeOK'
    <2>1. /\ content' = <<>> /\ results' = <<>> /\ index' = 0 /\ ran' = {} /\ unanswered' = {}
          /\ ~locked' /\ ~pending' /\ ~ready' /\ ~complete' /\ ~rejected' /\ ~used'
          /\ open' = [id \in Ids |-> 0] /\ reader' = "reading"
      BY DEF NextRequest
    <2>2. {locked', pending', ready', complete', rejected', used'} \subseteq BOOLEAN
      BY DEF NextRequest
    <2>3. /\ content' \in Seq(Block) /\ Len(content') <= MaxBlocks
          /\ index' \in Nat /\ index' <= Len(content') /\ results' \in Seq(Result)
          /\ open' \in [Ids -> 0..MaxBlocks]
      BY <2>1, BoundsAssumption
    <2>4. turn' \in Turns
      BY BoundsAssumption DEF NextRequest, IInv, TypeOK, Turns
    <2>5. UNCHANGED <<provider, calls, failures>> /\ TypeOK
      BY DEF NextRequest, IInv
    <2> QED
      BY <2>1, <2>2, <2>3, <2>4, <2>5 DEF TypeOK, ReaderPcs
  <1>2. AnsweredOnce'
    BY DEF NextRequest, AnsweredOnce
  <1>3. ASSUME Undisturbed'
        PROVE  Orderly' /\ UsedOnce' /\ RanBehind' /\ SettledBehind'
    <2>1. BusyHolds /\ ReadyAtEnd
      BY <1>3 DEF IInv, Orderly, NextRequest, Undisturbed
    <2>2. Busy = {} /\ Busy' = {}
      BY <2>1 DEF NextRequest, BusyHolds, ReadyAtEnd, Busy, IInv, TypeOK
    <2>3. OneBlockAtATime' /\ BusyHolds' /\ ReadyAtEnd'
      BY <2>2 DEF OneBlockAtATime, BusyHolds, ReadyAtEnd, NextRequest
    <2>4. UsedOnce' /\ RanBehind' /\ SettledBehind'
      BY <2>2 DEF UsedOnce, RanBehind, SettledBehind, Busy, NextRequest
    <2> QED
      BY <2>3, <2>4 DEF Orderly
  <1>4. ~Undisturbed' => Orderly'
    BY DEF Orderly, OneBlockAtATime, Undisturbed
  <1>5. OnlyTools'
    BY DEF IInv, OnlyTools, NextRequest
  <1> QED
    BY <1>1, <1>2, <1>3, <1>4, <1>5 DEF IInv

-----------------------------------------------------------------------------
(* The steps of a call that presents a block                                   *)

BlockTypes(s) ==
    /\ s \in Busy /\ BlockOf(s) \in Block /\ calls[s].turn \in Turns
    /\ calls \in [Slots -> Call]
    /\ BlockOf(s).kind = "tool" => BlockOf(s).id \in Ids

LEMMA BusyTypes ==
  ASSUME TypeOK, NEW s \in Slots, NEW p \in {"presenting", "executing", "finishing"}, Runs(s, p)
  PROVE  BlockTypes(s)
  <1>1. s \in Busy /\ calls \in [Slots -> Call]
    BY DEF Runs, Busy, TypeOK
  <1>2. BlockOf(s) \in Block /\ calls[s].turn \in Turns
    BY <1>1 DEF Call, BlockOf
  <1> QED
    BY <1>1, <1>2 DEF BlockTypes, Block

\* What a call that ends may have done to the results.
Adds(s) ==
    \/ results' = results
    \/ BlockOf(s).kind = "tool" /\ \E e \in BOOLEAN : results' = Pushed(BlockOf(s).id, e, calls[s].turn)

LEMMA AddsTypes ==
  ASSUME IInv, NEW s, BlockTypes(s), Adds(s)
  PROVE  results' \in Seq(Result) /\ AnsweredOnce'
  <1>1. results \in Seq(Result) /\ AnsweredOnce
    BY DEF IInv, TypeOK
  <1>2. CASE results' = results
    BY <1>1, <1>2 DEF AnsweredOnce
  <1>3. CASE BlockOf(s).kind = "tool" /\ \E e \in BOOLEAN : results' = Pushed(BlockOf(s).id, e, calls[s].turn)
    BY <1>1, <1>3, PushedFacts DEF BlockTypes
  <1> QED
    BY <1>2, <1>3 DEF Adds

\* The call ends; the history is proved apart.
LEMMA EndKeeps ==
  ASSUME IInv, NEW s, BlockTypes(s), NEW u \in BOOLEAN, Ends(s, u), Adds(s),
         UNCHANGED <<provider, content, open, complete, reader, turn, rejected, history>>,
         used' \in BOOLEAN, failures' \in 0 .. MaxFailures, Undisturbed' => Undisturbed,
         Undisturbed' => UsedOnce' /\ RanBehind' /\ SettledBehind'
  PROVE  IInv'
  <1>1. TypeOK /\ Orderly /\ s \in Busy
    BY DEF IInv, BlockTypes
  <1>2. results' \in Seq(Result) /\ AnsweredOnce'
    BY AddsTypes
  <1>3. Orderly'
    BY <1>1, EndsOrderly
  <1>4. /\ index' \in Nat /\ locked' \in BOOLEAN /\ pending' \in BOOLEAN /\ ready' \in BOOLEAN
        /\ calls' \in [Slots -> Call]
    BY <1>1, EndsTypes
  <1>5. failures' = 0 => index' <= Len(content')
    BY <1>3 DEF Orderly, ReadyAtEnd, Undisturbed
  <1>6. TypeOK'
    BY <1>1, <1>2, <1>4, <1>5 DEF TypeOK, history
  <1>7. OnlyTools'
    <2>1. EndsBlock(s, u) /\ s \in Slots /\ calls \in [Slots -> Call]
      BY <1>1, EndsCases DEF Busy, TypeOK
    <2> QED
      BY <2>1, QuietSlots DEF EndsBlock, IInv, OnlyTools
  <1> QED
    BY <1>2, <1>3, <1>6, <1>7 DEF IInv

LEMMA ShowTextKeeps == ASSUME IInv, NEW s \in Slots, ShowText(s) PROVE IInv'
  <1> DEFINE u == rejected \/ used
  <1>1. /\ BlockTypes(s) /\ s \in Busy /\ BlockOf(s).kind = "text" /\ Ends(s, u) /\ u \in BOOLEAN
        /\ UNCHANGED <<stream, flags, results, history>> /\ TypeOK
    BY BusyTypes DEF ShowText, IInv, TypeOK, BlockTypes
  <1>2. ASSUME Undisturbed' PROVE UsedOnce' /\ RanBehind' /\ SettledBehind'
    <2>1. Undisturbed /\ Orderly /\ UsedOnce /\ RanBehind /\ SettledBehind
      BY <1>1, <1>2 DEF IInv, Undisturbed, stream
    <2>2. \A id : Settled(id) => Settled(id)'
      BY <1>1 DEF Settled, Answers, history
    <2> QED
      BY <1>1, <2>1, <2>2, EndsHistory DEF stream
  <1> QED
    BY <1>1, <1>2, EndKeeps DEF stream, flags, Adds, TypeOK, Undisturbed

\* A call that is answered without being executed.
LEMMA AnsweredKeeps ==
  ASSUME IInv, NEW s \in Slots, NEW u \in BOOLEAN, Runs(s, "presenting"), BlockOf(s).kind = "tool",
         results' = Pushed(BlockOf(s).id, FALSE, calls[s].turn), Ends(s, u),
         UNCHANGED <<stream, flags, history>>
  PROVE  IInv'
  <1>1. BlockTypes(s) /\ s \in Busy /\ TypeOK /\ AnsweredOnce
    BY BusyTypes DEF IInv, BlockTypes
  <1>2. ASSUME Undisturbed' PROVE UsedOnce' /\ RanBehind' /\ SettledBehind'
    <2>1. Undisturbed /\ Orderly /\ UsedOnce /\ RanBehind /\ SettledBehind
      BY <1>2 DEF IInv, Undisturbed, stream
    <2>2. results \in Seq(Result) /\ BlockOf(s).id \in Ids /\ calls[s].turn \in Turns
      BY <1>1 DEF TypeOK, BlockTypes
    <2>3. \A id : (Settled(id) => Settled(id)') /\ (BlockOf(s).id = id => Settled(id)')
      <3>1. unanswered' = unanswered
        BY DEF history
      <3>2. \A i \in DOMAIN results : i \in DOMAIN results' /\ results'[i] = results[i]
        BY <1>1, <2>2, PushedFacts
      <3>3. \E i \in DOMAIN results' : results'[i].id = BlockOf(s).id
        BY <1>1, <2>2, PushedFacts
      <3> QED
        BY <3>1, <3>2, <3>3 DEF Settled, Answers
    <2>4. \A i \in DOMAIN results' : results'[i].executed => i \in DOMAIN results /\ results'[i] = results[i]
      BY <1>1, <2>2, PushedFacts
    <2> QED
      BY <1>1, <2>1, <2>3, <2>4, EndsHistory DEF stream
  <1>3. Adds(s)
    BY DEF Adds
  <1> QED
    BY <1>1, <1>2, <1>3, EndKeeps DEF stream, flags, TypeOK, Undisturbed

LEMMA SkipToolKeeps == ASSUME IInv, NEW s \in Slots, SkipTool(s) PROVE IInv'
  BY AnsweredKeeps DEF SkipTool

LEMMA RefuseToolKeeps == ASSUME IInv, NEW s \in Slots, RefuseTool(s) PROVE IInv'
  BY AnsweredKeeps DEF RefuseTool

\* A call shown as it arrives is not left behind, for no tool was used.
LEMMA PartialShownKeeps == ASSUME IInv, NEW s \in Slots, PartialShown(s) PROVE IInv'
  <1> DEFINE u == rejected \/ used
  <1>1. /\ BlockTypes(s) /\ s \in Busy /\ BlockOf(s).partial /\ Ends(s, u) /\ u \in BOOLEAN
        /\ UNCHANGED <<stream, flags, results, history>> /\ TypeOK
    BY BusyTypes DEF PartialShown, IInv, TypeOK, BlockTypes
  <1>2. ASSUME Undisturbed' PROVE UsedOnce' /\ RanBehind' /\ SettledBehind'
    <2>1. Undisturbed /\ Orderly /\ UsedOnce /\ RanBehind /\ SettledBehind
      BY <1>1, <1>2 DEF IInv, Undisturbed, stream
    <2>2. \A id : Settled(id) => Settled(id)'
      BY <1>1 DEF Settled, Answers, history
    <2>3. ~Left(s, u)
      BY <1>1, <2>1 DEF Left, UsedOnce, PartialShown, Runs
    <2> QED
      BY <1>1, <2>1, <2>2, <2>3, EndsHistory DEF stream
  <1> QED
    BY <1>1, <1>2, EndKeeps DEF stream, flags, Adds, TypeOK, Undisturbed

LEMMA FinishToolKeeps == ASSUME IInv, NEW s \in Slots, FinishTool(s) PROVE IInv'
  <1> DEFINE u == rejected \/ used
  <1>1. /\ BlockTypes(s) /\ s \in Busy /\ calls[s].pc = "finishing" /\ Ends(s, u) /\ u \in BOOLEAN
        /\ UNCHANGED <<stream, flags, results, history>> /\ TypeOK
    BY BusyTypes DEF FinishTool, IInv, TypeOK, BlockTypes, Runs
  <1>2. ASSUME Undisturbed' PROVE UsedOnce' /\ RanBehind' /\ SettledBehind'
    <2>1. Undisturbed /\ Orderly /\ UsedOnce /\ RanBehind /\ SettledBehind
      BY <1>1, <1>2 DEF IInv, Undisturbed, stream
    <2>2. \A id : Settled(id) => Settled(id)'
      BY <1>1 DEF Settled, Answers, history
    <2>3. Settled(BlockOf(s).id)
      BY <1>1, <2>1 DEF SettledBehind, BlockOf
    <2> QED
      BY <1>1, <2>1, <2>2, <2>3, EndsHistory DEF stream
  <1> QED
    BY <1>1, <1>2, EndKeeps DEF stream, flags, Adds, TypeOK, Undisturbed

LEMMA PartialErrorKeeps == ASSUME IInv, NEW s \in Slots, PartialError(s) PROVE IInv'
  <1>1. /\ BlockTypes(s) /\ Ends(s, TRUE) /\ Adds(s) /\ TypeOK
        /\ UNCHANGED <<provider, content, open, complete, reader, turn, rejected, history>>
        /\ used' \in BOOLEAN
    <2>1. BlockOf(s).kind = "tool"
      BY DEF PartialError, Runs, BlockOf, IInv, OnlyTools
    <2> QED
      BY <2>1, BusyTypes DEF PartialError, Adds, IInv
  <1>2. failures' \in 0 .. MaxFailures /\ ~Undisturbed'
    BY <1>1, BoundsAssumption DEF PartialError, TypeOK, Undisturbed
  <1> QED
    BY <1>1, <1>2, EndKeeps

\* The call goes on with its block.
GoesOn(s, from, to) ==
    /\ Runs(s, from) /\ from \in {"presenting", "executing"} /\ to \in {"executing", "finishing"}
    /\ BlockOf(s).kind = "tool"
    /\ calls' = [calls EXCEPT ![s].pc = to]
    /\ UNCHANGED <<index, locked, pending, ready, stream>>

LEMMA GoesOnSlots ==
  ASSUME TypeOK, NEW s \in Slots, NEW from, NEW to, GoesOn(s, from, to)
  PROVE  /\ calls' \in [Slots -> Call] /\ Busy' = Busy /\ s \in Busy
         /\ calls'[s].pc = to /\ calls'[s].block = calls[s].block
         /\ calls'[s].at = calls[s].at /\ calls'[s].turn = calls[s].turn
         /\ \A t \in Slots : t # s => calls'[t] = calls[t]
  <1>1. calls \in [Slots -> Call] /\ calls[s] \in Call /\ to \in CallPcs
    BY DEF TypeOK, GoesOn, CallPcs
  <1>2. calls' = [calls EXCEPT ![s] = [calls[s] EXCEPT !.pc = to]]
    BY DEF GoesOn
  <1>3. [calls[s] EXCEPT !.pc = to] \in Call
    BY <1>1 DEF Call
  <1>4. /\ calls'[s].pc = to /\ calls'[s].block = calls[s].block
        /\ calls'[s].at = calls[s].at /\ calls'[s].turn = calls[s].turn
    BY <1>1, <1>2 DEF Call
  <1>5. \A t \in Slots : t # s => calls'[t] = calls[t]
    BY <1>1, <1>2
  <1>6. calls' \in [Slots -> Call]
    BY <1>1, <1>2, <1>3
  <1> QED
    BY <1>4, <1>5, <1>6 DEF Busy, GoesOn, Runs

LEMMA GoesOnKeeps ==
  ASSUME IInv, NEW s \in Slots, NEW from, NEW to, GoesOn(s, from, to), Adds(s),
         used' \in BOOLEAN, rejected' \in BOOLEAN, ran' \subseteq 0 .. MaxBlocks, unanswered' \subseteq Ids,
         Undisturbed => UsedOnce' /\ RanBehind' /\ SettledBehind'
  PROVE  IInv'
  <1>1. TypeOK /\ Orderly /\ OnlyTools
    BY DEF IInv
  <1>2. BlockTypes(s)
    BY <1>1, BusyTypes DEF GoesOn
  <1>3. results' \in Seq(Result) /\ AnsweredOnce'
    BY <1>2, AddsTypes
  <1>4. UNCHANGED <<index, locked, pending, ready, content, complete, provider, open, reader, turn, failures>>
    BY DEF GoesOn, stream
  <1>5. TypeOK'
    BY <1>1, <1>3, <1>4, GoesOnSlots DEF TypeOK
  <1>6. OneBlockAtATime'
    BY <1>1, <1>4, GoesOnSlots DEF Orderly, OneBlockAtATime
  <1>7. BusyHolds => BusyHolds'
    <2>1. Busy' = Busy /\ Busy \subseteq Slots
      BY <1>1, GoesOnSlots DEF Busy
    <2>2. \A t \in Busy : /\ calls'[t].at = calls[t].at /\ calls'[t].turn = calls[t].turn
                          /\ calls'[t].block = calls[t].block
      BY <1>1, <2>1, GoesOnSlots
    <2> QED
      BY <1>4, <2>1, <2>2 DEF BusyHolds
  <1>8. ReadyAtEnd => ReadyAtEnd'
    BY <1>4 DEF ReadyAtEnd
  <1>9. OnlyTools'
    BY <1>1, GoesOnSlots DEF OnlyTools, GoesOn, BlockOf
  <1>10. Undisturbed' = Undisturbed
    BY <1>4 DEF Undisturbed
  <1> QED
    BY <1>1, <1>3, <1>5, <1>6, <1>7, <1>8, <1>9, <1>10 DEF IInv, Orderly

LEMMA BeginToolKeeps == ASSUME IInv, NEW s \in Slots, BeginTool(s) PROVE IInv'
  <1>1. /\ GoesOn(s, "presenting", "executing") /\ TypeOK /\ ~used
        /\ UNCHANGED <<flags, results, unanswered>>
    BY DEF BeginTool, GoesOn, IInv
  <1>2. ran' \subseteq 0 .. MaxBlocks
    <2>1. calls[s].at \in 0 .. MaxBlocks
      BY <1>1 DEF TypeOK, Call
    <2> QED
      BY <1>1, <2>1 DEF BeginTool, TypeOK
  <1>3. ASSUME Undisturbed PROVE UsedOnce' /\ RanBehind' /\ SettledBehind'
    <2>1. BusyHolds /\ UsedOnce /\ RanBehind /\ SettledBehind /\ content' = content /\ index' = index
      BY <1>1, <1>3 DEF IInv, Orderly, GoesOn, stream
    <2>2. UsedOnce'
      BY <1>1, <2>1, GoesOnSlots DEF UsedOnce, flags
    <2>3. RanBehind'
      <3> SUFFICES ASSUME NEW n \in ran'
                   PROVE  \/ n < index
                          \/ /\ n = index
                             /\ \E t \in Slots : /\ calls'[t].pc \in {"executing", "finishing"}
                                                 /\ ~calls'[t].block.partial
        BY <2>1 DEF RanBehind
      <3>1. CASE n \in ran
        <4>1. \A t \in Slots : calls[t].pc \in {"executing", "finishing"} => calls'[t] = calls[t]
          BY <1>1, GoesOnSlots DEF GoesOn, Runs
        <4> QED
          BY <2>1, <3>1, <4>1 DEF RanBehind
      <3>2. CASE n = calls[s].at /\ ~calls[s].block.partial
        BY <1>1, <2>1, <3>2, GoesOnSlots DEF BusyHolds
      <3> QED
        BY <3>1, <3>2 DEF BeginTool, BlockOf
    <2>4. SettledBehind'
      <3>1. \A id : Settled(id)' = Settled(id)
        BY <1>1 DEF Settled, Answers
      <3> QED
        BY <1>1, <2>1, <3>1, GoesOnSlots DEF SettledBehind
    <2> QED
      BY <2>2, <2>3, <2>4
  <1> QED
    BY <1>1, <1>2, <1>3, GoesOnKeeps DEF Adds, flags, TypeOK

\* The two ways a tool ends: its call is settled, and no other tool executes.
LEMMA FinishingHistory ==
  ASSUME IInv, Undisturbed, NEW s \in Slots, GoesOn(s, "executing", "finishing"), ran' = ran,
         \A id : (Settled(id) => Settled(id)') /\ (BlockOf(s).id = id => Settled(id)')
  PROVE  RanBehind' /\ SettledBehind' /\ \A t \in Slots : calls'[t].pc # "executing"
  <1>1. TypeOK /\ BusyHolds /\ RanBehind /\ SettledBehind /\ \A t, v \in Busy : t = v
    BY DEF IInv, Orderly, OneBlockAtATime, Undisturbed
  <1>2. content' = content /\ index' = index /\ calls[s].pc = "executing"
    BY DEF GoesOn, stream, Runs
  <1>3. RanBehind'
    BY <1>1, <1>2, GoesOnSlots DEF RanBehind
  <1>4. SettledBehind'
    <2>1. \A i \in 1 .. Len(content) : i <= index /\ content[i].kind = "tool" => \E id : id = content[i].id /\ Settled(id)'
      BY <1>1 DEF SettledBehind
    <2>2. \A t \in Slots : calls'[t].pc = "finishing" => \E id : id = calls'[t].block.id /\ Settled(id)'
      BY <1>1, GoesOnSlots DEF SettledBehind, BlockOf
    <2> QED
      BY <1>2, <2>1, <2>2 DEF SettledBehind
  <1>5. \A t \in Slots : calls'[t].pc # "executing"
    BY <1>1, <1>2, GoesOnSlots DEF Busy
  <1> QED
    BY <1>3, <1>4, <1>5

LEMMA ToolResultKeeps ==
  ASSUME IInv, NEW s \in Slots, NEW isRejected \in BOOLEAN, ToolResult(s, isRejected) PROVE IInv'
  <1>1. TypeOK /\ AnsweredOnce /\ BlockOf(s).kind = "tool"
    BY DEF IInv, OnlyTools, ToolResult, Runs, BlockOf
  <1>2. /\ GoesOn(s, "executing", "finishing") /\ BlockTypes(s)
        /\ results' = Pushed(BlockOf(s).id, TRUE, calls[s].turn)
        /\ used' = TRUE /\ rejected' = (rejected \/ isRejected) /\ UNCHANGED <<ran, unanswered>>
    BY <1>1, BusyTypes DEF ToolResult, GoesOn, history
  <1>3. results \in Seq(Result) /\ BlockOf(s).id \in Ids /\ calls[s].turn \in Turns
    BY <1>1, <1>2 DEF TypeOK, BlockTypes
  <1>4. ASSUME Undisturbed PROVE UsedOnce' /\ RanBehind' /\ SettledBehind'
    <2>1. UsedOnce /\ ~used
      BY <1>2, <1>4 DEF IInv, UsedOnce, GoesOn, Runs
    <2>2. \A id : (Settled(id) => Settled(id)') /\ (BlockOf(s).id = id => Settled(id)')
      <3>1. \A i \in DOMAIN results : i \in DOMAIN results' /\ results'[i] = results[i]
        BY <1>1, <1>2, <1>3, PushedFacts
      <3>2. \E i \in DOMAIN results' : results'[i].id = BlockOf(s).id
        BY <1>1, <1>2, <1>3, PushedFacts
      <3> QED
        BY <1>2, <3>1, <3>2 DEF Settled, Answers
    <2>3. RanBehind' /\ SettledBehind' /\ \A t \in Slots : calls'[t].pc # "executing"
      BY <1>2, <1>4, <2>2, FinishingHistory
    <2>4. \A i \in DOMAIN results' : results'[i].executed => i = Len(results) + 1
      <3>1. \A i \in DOMAIN results' : (i \in DOMAIN results /\ results'[i] = results[i]) \/ i = Len(results) + 1
        BY <1>1, <1>2, <1>3, PushedFacts
      <3> QED
        BY <2>1, <3>1 DEF UsedOnce
    <2>5. UsedOnce'
      BY <1>2, <2>3, <2>4 DEF UsedOnce
    <2> QED
      BY <2>3, <2>5
  <1>5. /\ Adds(s) /\ used' \in BOOLEAN /\ rejected' \in BOOLEAN
        /\ ran' \subseteq 0 .. MaxBlocks /\ unanswered' \subseteq Ids
    BY <1>1, <1>2 DEF Adds, TypeOK
  <1> QED
    BY <1>2, <1>4, <1>5, GoesOnKeeps

LEMMA ToolEndsSilentlyKeeps == ASSUME IInv, NEW s \in Slots, ToolEndsSilently(s) PROVE IInv'
  <1>1. TypeOK /\ BlockOf(s).kind = "tool"
    BY DEF IInv, OnlyTools, ToolEndsSilently, Runs, BlockOf
  <1>2. /\ GoesOn(s, "executing", "finishing") /\ BlockTypes(s)
        /\ UNCHANGED <<flags, results, ran>>
        /\ unanswered' = IF calls[s].turn = turn THEN unanswered \cup {BlockOf(s).id} ELSE unanswered
    BY <1>1, BusyTypes DEF ToolEndsSilently, GoesOn
  <1>3. ASSUME Undisturbed PROVE UsedOnce' /\ RanBehind' /\ SettledBehind'
    <2>1. UsedOnce /\ calls[s].turn = turn
      BY <1>1, <1>2, <1>3, GoesOnSlots DEF IInv, Orderly, BusyHolds
    <2>2. \A id : (Settled(id) => Settled(id)') /\ (BlockOf(s).id = id => Settled(id)')
      BY <1>2, <2>1 DEF Settled, Answers
    <2>3. RanBehind' /\ SettledBehind' /\ \A t \in Slots : calls'[t].pc # "executing"
      BY <1>2, <1>3, <2>2, FinishingHistory
    <2>4. UsedOnce'
      BY <1>2, <2>1, <2>3 DEF UsedOnce, flags
    <2> QED
      BY <2>3, <2>4
  <1>4. /\ Adds(s) /\ used' \in BOOLEAN /\ rejected' \in BOOLEAN
        /\ ran' \subseteq 0 .. MaxBlocks /\ unanswered' \subseteq Ids
    BY <1>1, <1>2 DEF Adds, TypeOK, flags, BlockTypes
  <1> QED
    BY <1>2, <1>3, <1>4, GoesOnKeeps

LEMMA PresentAgainKeeps == ASSUME IInv, NEW s \in Slots, PresentAgain(s) PROVE IInv'
  <1>1. /\ TypeOK /\ Present(s, content, ready, complete) /\ calls[s].pc = "yielded"
        /\ UNCHANGED <<stream, flags, results, history>>
    BY DEF PresentAgain, Runs, IInv
  <1>2. Undisturbed => ReadyAtEnd
    BY DEF IInv, Orderly
  <1>3. Around(s, content, ready, complete)
    BY <1>1, <1>2, GrowsSame DEF Around, stream, TypeOK, ReadyAtEnd
  <1>4. ReaderTypes
    BY <1>1 DEF ReaderTypes, stream, TypeOK
  <1> QED
    BY <1>1, <1>3, <1>4, AroundKeeps

-----------------------------------------------------------------------------
(* The invariant, and what it implies                                          *)

LEMMA InitInv == Init => IInv
  <1> SUFFICES ASSUME Init PROVE IInv
    OBVIOUS
  <1>1. calls \in [Slots -> Call] /\ \A s \in Slots : calls[s].pc = "free"
    BY RestingTypes DEF Init, Free
  <1>2. /\ content = <<>> /\ content \in Seq(Block) /\ Len(content) = 0
        /\ results = <<>> /\ results \in Seq(Result)
        /\ open \in [Ids -> 0..MaxBlocks] /\ turn \in Turns /\ failures \in 0 .. MaxFailures
    BY BoundsAssumption DEF Init, Turns
  <1>3. {locked, pending, ready, complete, rejected, used} \subseteq BOOLEAN
    BY DEF Init
  <1>4. TypeOK
    BY <1>1, <1>2, <1>3, BoundsAssumption DEF Init, TypeOK, ReaderPcs
  <1>5. Busy = {}
    BY <1>1 DEF Busy
  <1>6. Orderly /\ OnlyTools /\ AnsweredOnce
    BY <1>1, <1>2, <1>5 DEF Init, Orderly, OnlyTools, AnsweredOnce, OneBlockAtATime, BusyHolds, ReadyAtEnd
  <1>7. UsedOnce /\ RanBehind /\ SettledBehind
    BY <1>1, <1>2 DEF Init, UsedOnce, RanBehind, SettledBehind
  <1> QED
    BY <1>4, <1>6, <1>7 DEF IInv

LEMMA StutterKeeps == ASSUME IInv, UNCHANGED vars PROVE IInv'
  <1>1. UNCHANGED <<index, locked, pending, ready, calls, flags, results, turn, history, failures, reader, content>>
    BY DEF vars, flags, history
  <1>2. TypeOK' /\ AnsweredOnce' /\ OnlyTools'
    BY DEF IInv, TypeOK, vars, AnsweredOnce, OnlyTools
  <1>3. Busy' = Busy /\ \A id : Settled(id)' = Settled(id)
    BY <1>1 DEF Busy, Settled, Answers, history
  <1>4. Orderly'
    BY <1>1, <1>3 DEF IInv, Orderly, OneBlockAtATime, BusyHolds, ReadyAtEnd, Undisturbed
  <1>5. Undisturbed' => UsedOnce' /\ RanBehind' /\ SettledBehind'
    BY <1>1, <1>3 DEF IInv, UsedOnce, RanBehind, SettledBehind, Undisturbed, flags, history
  <1> QED
    BY <1>2, <1>4, <1>5 DEF IInv

LEMMA NextKeeps == ASSUME IInv, [Next]_vars PROVE IInv'
  <1>1. ASSUME ReaderStep PROVE IInv'
    BY <1>1, ReadTextKeeps, ReadToolStartKeeps, ReadToolDeltaKeeps, ReadToolCallKeeps,
       FinalizeCallKeeps, CompleteStreamKeeps, ReaderRestsKeeps, NextRequestKeeps DEF ReaderStep
  <1>2. ASSUME NEW s \in Slots, PresentStep(s) PROVE IInv'
    BY <1>2, ShowTextKeeps, SkipToolKeeps, RefuseToolKeeps, BeginToolKeeps, ToolResultKeeps,
       ToolEndsSilentlyKeeps, PartialShownKeeps, PartialErrorKeeps, FinishToolKeeps, PresentAgainKeeps
    DEF PresentStep
  <1> QED
    BY <1>1, <1>2, StutterKeeps DEF Next

LEMMA Inductive == Spec => []IInv
  BY InitInv, NextKeeps, PTL DEF Spec

\* Whatever the stream and the tools do, the state is well formed.
THEOREM TypeCorrect == Spec => []TypeOK
  <1>1. IInv => TypeOK
    BY DEF IInv
  <1> QED
    BY <1>1, Inductive, PTL

\* The lock of presentAssistantMessage: as long as nothing has failed, one call
\* presents a block at any time, however many overlap.
THEOREM OneAtATime == Spec => []OneBlockAtATime
  <1>1. IInv => OneBlockAtATime
    BY DEF IInv, Orderly
  <1> QED
    BY <1>1, Inductive, PTL

LEMMA OneAtMost ==
  ASSUME NEW S, IsFiniteSet(S), \A x, y \in S : x = y
  PROVE  Cardinality(S) <= 1
  <1>1. CASE S = {}
    BY <1>1, FS_EmptySet
  <1>2. CASE S # {}
    <2>1. PICK x \in S : S = {x}
      BY <1>2
    <2> QED
      BY <2>1, FS_Singleton
  <1> QED
    BY <1>1, <1>2

LEMMA PlacesFinite ==
  ASSUME TypeOK, NEW S, S \subseteq DOMAIN results
  PROVE  IsFiniteSet(S)
  <1>1. DOMAIN results = 1 .. Len(results) /\ Len(results) \in Nat
    BY DEF TypeOK
  <1>2. IsFiniteSet(1 .. Len(results))
    BY <1>1, FS_Interval
  <1> QED
    BY <1>1, <1>2, FS_Subset

\* One tool is used per message, however many calls the response has and however
\* it is cut into chunks.
THEOREM OneUsed == Spec => []OneToolUsed
  <1>1. IInv => OneToolUsed
    <2> SUFFICES ASSUME IInv, Undisturbed
                 PROVE  Cardinality({i \in DOMAIN results : results[i].executed}) <= 1
      BY DEF OneToolUsed, Undisturbed
    <2>1. TypeOK /\ UsedOnce
      BY DEF IInv
    <2> QED
      BY <2>1, PlacesFinite, OneAtMost DEF UsedOnce
  <1> QED
    BY <1>1, Inductive, PTL

\* Every call of the response has one result when the results go into the next
\* request, and no call ever has two.
THEOREM AllAnswered == Spec => []EveryCallAnswered
  <1>1. IInv => EveryCallAnswered
    <2> SUFFICES ASSUME IInv PROVE EveryCallAnswered
      OBVIOUS
    <2>1. TypeOK /\ AnsweredOnce
      BY DEF IInv
    <2>2. ASSUME NEW id \in Ids PROVE Cardinality(Answers(id)) <= 1
      BY <2>1, PlacesFinite, OneAtMost DEF Answers, AnsweredOnce
    <2>3. ASSUME Undisturbed, reader = "idle", NEW id \in ToolIds \ unanswered PROVE Answers(id) # {}
      <3>1. ReadyAtEnd /\ SettledBehind /\ index = Len(content)
        BY <2>3 DEF IInv, Orderly, ReadyAtEnd
      <3>2. PICK i \in DOMAIN content : content[i].kind = "tool" /\ content[i].id = id
        BY <2>3 DEF ToolIds
      <3>3. i \in 1 .. Len(content) /\ i <= index
        BY <2>1, <3>1 DEF TypeOK
      <3> QED
        BY <2>3, <3>1, <3>2, <3>3 DEF SettledBehind, Settled
    <2> QED
      BY <2>2, <2>3 DEF EveryCallAnswered, Undisturbed
  <1> QED
    BY <1>1, Inductive, PTL

\* No tool call is executed twice as long as nothing has failed.
THEOREM RunOnce == Spec => ToolsRunOnce
  <1> DEFINE P == \A s \in Slots :
                    /\ failures = 0
                    /\ calls[s].pc = "presenting" /\ calls'[s].pc = "executing"
                    /\ ~calls[s].block.partial /\ calls[s].turn = turn
                    => calls[s].at \notin ran
  <1>1. IInv => P
    <2> SUFFICES ASSUME IInv, Undisturbed, NEW s \in Slots, calls[s].pc = "presenting"
                 PROVE  calls[s].at \notin ran
      BY DEF Undisturbed
    <2>1. /\ BusyHolds /\ RanBehind /\ index \in Nat /\ s \in Busy
          /\ \A t, v \in Busy : t = v
      BY DEF IInv, Orderly, OneBlockAtATime, Undisturbed, Busy, TypeOK
    <2>2. calls[s].at = index
      BY <2>1 DEF BusyHolds
    <2>3. \A t \in Slots : calls[t].pc \notin {"executing", "finishing"}
      BY <2>1 DEF Busy
    <2> QED
      BY <2>1, <2>2, <2>3 DEF RanBehind
  <1>2. Spec => [][P]_vars
    BY <1>1, Inductive, PTL
  <1> QED
    BY <1>2 DEF ToolsRunOnce
=============================================================================
