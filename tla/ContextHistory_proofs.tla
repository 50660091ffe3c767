------------------------ MODULE ContextHistory_proofs ------------------------
(* What is proved of reducing and rewinding a conversation, for any number of *)
(* messages, turns before the start, reductions, rewinds and calls.           *)
(*   - What each operator of ContextHistory returns, as a history derived     *)
(*     from another: which message of the one is which of the other, and what *)
(*     is inserted, dropped and tagged.                                       *)
(*   - TypeInv, the form of a history and of the chat: TypeCorrect.           *)
(*   - TellInv, what summaries tell and which calls they carry, and that      *)
(*     results follow their calls: NothingForgottenEver, ResultsHaveCallsEver.*)
(*   - RewindInv, what a rewind to each comment would leave of the history    *)
(*     and that it is what had been seen before it: RewindRestoresEver.       *)
EXTENDS ContextHistory, OperatorLemmas

-----------------------------------------------------------------------------
(* Times *)

\* The times at which something is saved.
Times == {Gap * k : k \in Nat}

\* The gap between two saved messages leaves room for every reduction.
LEMMA GapNat == MaxReductions \in Nat /\ Gap \in Nat /\ Gap = MaxReductions + 2
  BY HistoryAssumption DEF HistoryAssumption, Gap

\* Two of them are a Gap apart, and a Gap later is one again.
LEMMA TimesApart ==
    /\ Times \subseteq Nat
    /\ \A a, b \in Times : a < b => a + Gap <= b
    /\ \A a \in Times : a + Gap \in Times
  <1>0. Gap \in Nat /\ Gap > 0
    BY GapNat
  <1> DEFINE G == Gap
  <1>00. G \in Nat /\ G > 0
    BY <1>0
  <1> HIDE DEF G
  <1>1. \A k \in Nat : G * k \in Nat
    BY <1>00
  <1>2. ASSUME NEW k \in Nat, NEW l \in Nat, G * k < G * l PROVE G * k + G <= G * l
    <2>1. k < l
      <3>1. SUFFICES ASSUME l <= k PROVE FALSE
        OBVIOUS
      <3>2. PICK n \in Nat : k = l + n
        <4>1. k - l \in Nat /\ k = l + (k - l)
          BY <3>1
        <4> QED
          BY <4>1
      <3>3. G * k = G * l + G * n
        BY <1>00, <3>2
      <3>4. G * n \in Nat /\ G * l \in Nat
        BY <1>1
      <3> QED
        BY <1>2, <3>3, <3>4
    <2>2. PICK n \in Nat : l = k + 1 + n
      <3>1. l - k - 1 \in Nat /\ l = k + 1 + (l - k - 1)
        BY <2>1
      <3> QED
        BY <3>1
    <2>3. G * l = G * k + G + G * n
      BY <1>00, <2>2
    <2>4. G * n \in Nat /\ G * k \in Nat
      BY <1>1
    <2> QED
      BY <1>00, <2>3, <2>4
  <1>3. ASSUME NEW k \in Nat PROVE G * k + G = G * (k + 1)
    BY <1>00
  <1>4. Times = {G * k : k \in Nat}
    BY DEF Times, G
  <1>5. \A a, b \in Times : a < b => a + G <= b
    BY <1>2, <1>4
  <1>6. \A a \in Times : a + G \in Times
    <2> SUFFICES ASSUME NEW a \in Times PROVE a + G \in Times
      OBVIOUS
    <2>1. PICK k \in Nat : a = G * k
      BY <1>4
    <2>2. a + G = G * (k + 1) /\ k + 1 \in Nat
      BY <1>3, <2>1
    <2> QED
      BY <1>4, <2>2
  <1>7. Times \subseteq Nat
    BY <1>1, <1>4
  <1> QED
    BY <1>5, <1>6, <1>7 DEF G

-----------------------------------------------------------------------------
(* Messages and histories *)

\* What a message can be at all.
Messages ==
    [id : Nat, ts : Int, role : {"user", "assistant"}, kind : {"plain", "summary", "marker"},
     uses : SUBSET Nat, results : SUBSET Nat, tells : SUBSET Nat,
     condenseParent : Nat, truncationParent : Nat, cut : BOOLEAN]

\* The fields of a message.
LEMMA MessageFields ==
    ASSUME NEW m \in Messages
    PROVE  /\ m.id \in Nat /\ m.ts \in Int /\ m.role \in {"user", "assistant"}
           /\ m.kind \in {"plain", "summary", "marker"}
           /\ m.uses \in SUBSET Nat /\ m.results \in SUBSET Nat /\ m.tells \in SUBSET Nat
           /\ m.condenseParent \in Nat /\ m.truncationParent \in Nat /\ m.cut \in BOOLEAN
  BY DEF Messages

\* The same message, but perhaps for what hides it.
Same(x, y) ==
    /\ x.id = y.id /\ x.ts = y.ts /\ x.role = y.role /\ x.kind = y.kind
    /\ x.uses = y.uses /\ x.results = y.results /\ x.tells = y.tells

\* Changing what hides a message leaves the rest of it.
LEMMA TaggedCondensed ==
    ASSUME NEW m \in Messages, NEW c \in Nat, NEW x, x = [m EXCEPT !.condenseParent = c]
    PROVE  /\ x \in Messages /\ Same(x, m) /\ x.cut = m.cut
           /\ x.condenseParent = c /\ x.truncationParent = m.truncationParent
  BY DEF Messages, Same

\* Hiding a message by truncation changes its tag and its mark only.
LEMMA TaggedTruncated ==
    ASSUME NEW m \in Messages, NEW t \in Nat, NEW x,
           x = [m EXCEPT !.truncationParent = t, !.cut = TRUE]
    PROVE  /\ x \in Messages /\ Same(x, m) /\ x.cut = TRUE
           /\ x.condenseParent = m.condenseParent /\ x.truncationParent = t
  BY DEF Messages, Same

\* g is made from the history h: its messages are those that o says, in the
\* same order, but for the p-th, which is new (none is when p is 0).
Derived(g, h, o, p) ==
    /\ g \in Seq(Messages)
    /\ \A i \in DOMAIN g : i # p => o[i] \in DOMAIN h /\ Same(g[i], h[o[i]])
    /\ \A i, j \in DOMAIN g : i < j /\ i # p /\ j # p => o[i] < o[j]

\* Where the messages come from when one is put at position p.
Shift(p) == [i \in Nat |-> IF i < p THEN i ELSE i - 1]

\* A message is put at position p of the history whose messages are re-tagged.
LEMMA InsertDerives ==
    ASSUME NEW h \in Seq(Messages), NEW r \in Seq(Messages), Len(r) = Len(h),
           \A i \in 1 .. Len(h) : Same(r[i], h[i]),
           NEW x \in Messages, NEW p \in 1 .. Len(h) + 1
    PROVE  LET g == InsertAt(r, p, x)
           IN  /\ Derived(g, h, Shift(p), p)
               /\ Len(g) = Len(h) + 1 /\ DOMAIN g = 1 .. Len(h) + 1 /\ g[p] = x
               /\ \A i \in DOMAIN g : i # p => Shift(p)[i] \in 1 .. Len(h) /\ g[i] = r[Shift(p)[i]]
               /\ \A i \in DOMAIN g : i < p => Shift(p)[i] = i
               /\ \A i \in DOMAIN g : i > p => Shift(p)[i] = i - 1
  <1> DEFINE g == InsertAt(r, p, x)
  <1>0. p \in 1 .. Len(r) + 1
    OBVIOUS
  <1>1. /\ g \in Seq(Messages) /\ Len(g) = Len(r) + 1
        /\ \A i \in 1 .. p - 1 : g[i] = r[i]
        /\ g[p] = x
        /\ \A i \in p + 1 .. Len(r) + 1 : g[i] = r[i - 1]
    BY <1>0, Inserted
  <1> HIDE DEF g
  <1>2. Len(h) \in Nat /\ p \in Nat /\ DOMAIN h = 1 .. Len(h) /\ DOMAIN g = 1 .. Len(h) + 1
    BY <1>1
  <1>3. ASSUME NEW i \in DOMAIN g, i # p
        PROVE  /\ Shift(p)[i] \in 1 .. Len(h) /\ g[i] = r[Shift(p)[i]]
               /\ i < p => Shift(p)[i] = i
               /\ i > p => Shift(p)[i] = i - 1
    <2>1. i \in Nat /\ Shift(p)[i] = IF i < p THEN i ELSE i - 1
      BY <1>2 DEF Shift
    <2>2. CASE i < p
      BY <1>1, <1>2, <2>1, <2>2
    <2>3. CASE i > p
      BY <1>1, <1>2, <2>1, <2>3
    <2> QED
      BY <1>2, <1>3, <2>1, <2>2, <2>3
  <1>4. \A i, j \in DOMAIN g : i < j /\ i # p /\ j # p => Shift(p)[i] < Shift(p)[j]
    BY <1>2 DEF Shift
  <1>5. Derived(g, h, Shift(p), p)
    BY <1>1, <1>2, <1>3, <1>4 DEF Derived
  <1> QED
    BY <1>1, <1>2, <1>3, <1>5 DEF g

-----------------------------------------------------------------------------
\* The last of the messages for which something holds is the one found.
LEMMA GreatestIn ==
    ASSUME NEW n \in Nat, NEW D, D \subseteq 1 .. n, D # {}
    PROVE  Max(D) \in D /\ \A x \in D : x <= Max(D)
  <1> DEFINE T == {m \in Nat : \E k \in D : m = n - k}
  <1>1. T \in SUBSET Nat /\ T # {}
    <2>1. PICK k \in D : TRUE
      OBVIOUS
    <2>2. n - k \in T
      BY <2>1
    <2> QED
      BY <2>2
  <1>2. PICK m \in T : \A k \in T : m <= k
    BY <1>1, LeastNat
  <1>3. PICK k \in D : m = n - k
    BY <1>2
  <1>4. ASSUME NEW y \in D PROVE k >= y
    <2>1. n - y \in T
      OBVIOUS
    <2> QED
      BY <1>2, <1>3, <2>1
  <1>5. Max(D) \in D /\ \A y \in D : Max(D) >= y
    BY <1>4 DEF Max
  <1>6. \A x, y \in D : x >= y => y <= x
    OBVIOUS
  <1> QED
    BY <1>5, <1>6

\* Min of a set of naturals that is not empty is its least element.
LEMMA LeastIn ==
    ASSUME NEW D \in SUBSET Nat, D # {}
    PROVE  Min(D) \in D /\ \A x \in D : Min(D) <= x
  <1>1. PICK m \in D : \A x \in D : m <= x
    BY LeastNat
  <1>2. \A x \in D : m <= x
    BY <1>1
  <1> QED
    BY <1>1, <1>2 DEF Min

\* Max of two numbers.
LEMMA MaxOfTwo ==
    ASSUME NEW a \in Int, NEW b \in Int
    PROVE  Max({a, b}) = IF a >= b THEN a ELSE b
  BY DEF Max

\* s is what SinceLastSummary makes of the history h whose last summary is at
\* last (0 when it has none).
Since(s, h, last) ==
    /\ last \in 0 .. Len(h)
    /\ \A j \in last + 1 .. Len(h) : h[j].kind # "summary"
    /\ last # 0 => h[last].kind = "summary"
    /\ s \in Seq(Messages)
    /\ last = 0 => s = h
    /\ last # 0 => /\ Len(s) = Len(h) - last + 2 /\ s[1] = h[1]
                   /\ \A i \in 2 .. Len(s) : s[i] = h[last + i - 2]

\* Summaries are the assistant's.
SummariesAnswer(h) == \A i \in DOMAIN h : h[i].kind = "summary" => h[i].role = "assistant"

\* What getMessagesSinceLastSummary returns.
LEMMA SinceDoes ==
    ASSUME NEW h \in Seq(Messages), SummariesAnswer(h)
    PROVE  \E last : Since(SinceLastSummary(h), h, last)
  <1> DEFINE D == {i \in 1 .. Len(h) : h[i].kind = "summary"}
             last == SelectLastInSeq(h, LAMBDA m : m.kind = "summary")
             since == SubSeq(h, last, Len(h))
             s == SinceLastSummary(h)
  <1>0. Len(h) \in Nat /\ DOMAIN h = 1 .. Len(h)
    OBVIOUS
  <1>1. last = IF D # {} THEN Max(D) ELSE 0
    BY DEF SelectLastInSeq
  <1>2. s = CASE last = 0 -> h
              [] last # 0 /\ h[last].role # "user" -> <<Head(h)>> \o since
              [] OTHER -> since
    BY DEF SinceLastSummary
  <1> HIDE DEF last, s
  <1>3. CASE D = {}
    <2>1. last = 0 /\ s = h
      BY <1>1, <1>2, <1>3
    <2>2. \A j \in 1 .. Len(h) : h[j].kind # "summary"
      BY <1>3
    <2>3. Since(s, h, 0)
      BY <1>0, <2>1, <2>2 DEF Since
    <2> QED
      BY <2>3 DEF s
  <1>4. CASE D # {}
    <2>1. Max(D) \in D /\ \A x \in D : x <= Max(D)
      BY <1>0, <1>4, GreatestIn
    <2>2. last \in 1 .. Len(h) /\ h[last].kind = "summary" /\ \A x \in D : x <= last
      BY <1>1, <1>4, <2>1
    <2>3. \A j \in last + 1 .. Len(h) : h[j].kind # "summary"
      BY <1>0, <2>2
    <2>4. h[last].role = "assistant"
      BY <2>2, <1>0 DEF SummariesAnswer
    <2>5. s = <<Head(h)>> \o since
      <3>1. last # 0 /\ h[last].role # "user"
        BY <2>2, <2>4
      <3> QED
        BY <1>2, <3>1, Zenon
    <2>6. /\ since \in Seq(Messages) /\ Len(since) = Len(h) - last + 1
          /\ \A i \in 1 .. Len(h) - last + 1 : since[i] = h[last + i - 1]
      BY <2>2
    <2>7. Head(h) = h[1] /\ h[1] \in Messages /\ <<Head(h)>> \in Seq(Messages)
          /\ Len(<<Head(h)>>) = 1 /\ <<Head(h)>>[1] = h[1]
      BY <2>2
    <2> DEFINE f == <<Head(h)>>
    <2> HIDE DEF since, f
    <2>8. /\ f \o since \in Seq(Messages)
          /\ Len(f \o since) = Len(f) + Len(since)
          /\ \A i \in 1 .. Len(f) + Len(since) : (f \o since)[i] =
                     IF i <= Len(f) THEN f[i] ELSE since[i - Len(f)]
      BY <2>6, <2>7, ConcatProperties DEF f
    <2>9. Len(s) = Len(h) - last + 2 /\ s \in Seq(Messages) /\ s[1] = h[1]
      BY <1>0, <2>2, <2>5, <2>6, <2>7, <2>8 DEF f
    <2>10. ASSUME NEW i \in 2 .. Len(s) PROVE s[i] = h[last + i - 2]
      <3>1. s[i] = since[i - 1]
        BY <1>0, <2>2, <2>5, <2>6, <2>7, <2>8, <2>9 DEF f
      <3>2. i - 1 \in 1 .. Len(h) - last + 1 /\ last + (i - 1) - 1 = last + i - 2
        BY <1>0, <2>2, <2>9
      <3> QED
        BY <2>6, <3>1, <3>2
    <2>11. Since(s, h, last)
      BY <1>0, <2>2, <2>3, <2>9, <2>10 DEF Since
    <2> QED
      BY <2>11 DEF s
  <1> QED
    BY <1>3, <1>4

-----------------------------------------------------------------------------
(* Condensation *)

\* The last three messages are kept.
LEMMA KeepStartIs ==
    ASSUME NEW h \in Seq(Messages)
    PROVE  /\ KeepStart(h) = IF Len(h) >= 3 THEN Len(h) - 3 ELSE 0
           /\ KeepStart(h) \in 0 .. Len(h)
  <1>1. Len(h) \in Nat
    OBVIOUS
  <1>2. Max({Len(h) - 3, 0}) = IF Len(h) - 3 >= 0 THEN Len(h) - 3 ELSE 0
    BY <1>1, MaxOfTwo
  <1> QED
    BY <1>1, <1>2 DEF KeepStart, Keep

\* The kept messages.
LEMMA KeptIs ==
    ASSUME NEW h \in Seq(Messages)
    PROVE  /\ Range(Kept(h)) = {h[i] : i \in KeepStart(h) + 1 .. Len(h)}
           /\ Len(h) >= 3 => Head(Kept(h)) = h[KeepStart(h) + 1]
  <1> DEFINE K == KeepStart(h)
             s == SubSeq(h, K + 1, Len(h))
  <1>1. Len(h) \in Nat /\ K \in 0 .. Len(h) /\ (Len(h) >= 3 => K = Len(h) - 3)
    BY KeepStartIs
  <1> HIDE DEF K
  <1>2. /\ Len(s) = Len(h) - K /\ DOMAIN s = 1 .. Len(h) - K
        /\ \A i \in 1 .. Len(h) - K : s[i] = h[K + i]
    BY <1>1
  <1>3. Kept(h) = s
    BY DEF Kept, K
  <1> HIDE DEF s
  <1>4. ASSUME NEW m \in Range(s) PROVE m \in {h[i] : i \in K + 1 .. Len(h)}
    <2>1. PICK i \in 1 .. Len(h) - K : m = s[i]
      BY <1>2 DEF Range
    <2>2. K + i \in K + 1 .. Len(h) /\ m = h[K + i]
      BY <1>1, <1>2, <2>1
    <2> QED
      BY <2>2
  <1>5. ASSUME NEW i \in K + 1 .. Len(h) PROVE h[i] \in Range(s)
    <2>1. i - K \in 1 .. Len(h) - K /\ s[i - K] = h[K + (i - K)] /\ K + (i - K) = i
      BY <1>1, <1>2
    <2> QED
      BY <1>2, <2>1 DEF Range
  <1>6. Range(s) = {h[i] : i \in K + 1 .. Len(h)}
    BY <1>4, <1>5
  <1>7. Len(h) >= 3 => Head(s) = h[K + 1]
    BY <1>1, <1>2 DEF s
  <1> QED
    BY <1>3, <1>6, <1>7 DEF K

\* The calls a summary carries are of messages before the kept ones, and the
\* kept ones answer them; all those of the last message before them are.
LEMMA CallsToPreserveIs ==
    ASSUME NEW h \in Seq(Messages), Len(h) > 3
    PROVE  LET K == KeepStart(h)
           IN  /\ CallsToPreserve(h) \subseteq Nat
               /\ \A u \in CallsToPreserve(h) :
                      /\ \E i \in 1 .. K : u \in h[i].uses
                      /\ \E j \in K + 1 .. Len(h) : u \in h[j].results
               /\ \A u \in h[K].uses : \A j \in K + 1 .. Len(h) :
                      u \in h[j].results => u \in CallsToPreserve(h)
  <1> DEFINE K == KeepStart(h)
             from == Max({K - Keep, 0}) + 1
             searched == from .. K
             answered == UNION {m.results : m \in Range(Kept(h))}
  <1>1. Len(h) \in Nat /\ K = Len(h) - 3 /\ K \in Nat /\ K >= 1
    BY KeepStartIs
  <1>2. CallsToPreserve(h) = answered \intersect UNION {h[i].uses : i \in searched}
    BY DEF CallsToPreserve, Keep
  <1>3. Range(Kept(h)) = {h[i] : i \in K + 1 .. Len(h)}
    BY KeptIs
  <1>4. from \in 1 .. K
    <2> HIDE DEF K
    <2>1. Max({K - 3, 0}) = IF K - 3 >= 0 THEN K - 3 ELSE 0
      BY <1>1, MaxOfTwo
    <2> QED
      BY <1>1, <2>1 DEF Keep
  <1> HIDE DEF K, from
  <1>5. searched \subseteq 1 .. K /\ K \in searched
    BY <1>1, <1>4
  <1> HIDE DEF searched
  <1>6. \A u \in CallsToPreserve(h) :
                      /\ \E i \in 1 .. K : u \in h[i].uses
                      /\ \E j \in K + 1 .. Len(h) : u \in h[j].results
    BY <1>2, <1>3, <1>5
  <1>7. \A i \in 1 .. K : h[i].uses \subseteq Nat
    <2> SUFFICES ASSUME NEW i \in 1 .. K PROVE h[i].uses \subseteq Nat
      OBVIOUS
    <2>1. h[i] \in Messages
      BY <1>1
    <2> QED
      BY <2>1, MessageFields
  <1>8. CallsToPreserve(h) \subseteq Nat
    BY <1>6, <1>7
  <1>9. \A u \in h[K].uses : \A j \in K + 1 .. Len(h) :
                      u \in h[j].results => u \in CallsToPreserve(h)
    BY <1>2, <1>3, <1>5
  <1> QED
    BY <1>6, <1>8, <1>9 DEF K

\* A history that can be condensed has a message before the kept ones, and
\* these are no summaries.
LEMMA CanCondenseWhen ==
    ASSUME NEW h \in Seq(Messages), CanCondense(h)
    PROVE  /\ Len(h) > 3 /\ Len(h) \in Nat /\ KeepStart(h) = Len(h) - 3 /\ KeepStart(h) \in 1 .. Len(h)
           /\ \A i \in KeepStart(h) + 1 .. Len(h) : h[i].kind # "summary"
  <1>1. Len(h) > 3
    <2> SUFFICES ASSUME Len(h) <= 3 PROVE FALSE
      OBVIOUS
    <2>1. KeepStart(h) = 0
      BY KeepStartIs
    <2>2. CallsToPreserve(h) = {}
      BY DEF CallsToPreserve, Keep
    <2>3. MessagesToSummarize(h) = <<>>
      BY <2>1, <2>2 DEF MessagesToSummarize
    <2> QED
      BY <2>3 DEF CanCondense
  <1>2. KeepStart(h) = Len(h) - 3 /\ KeepStart(h) \in 1 .. Len(h)
    BY <1>1, KeepStartIs
  <1>3. Range(Kept(h)) = {h[i] : i \in KeepStart(h) + 1 .. Len(h)}
    BY KeptIs
  <1>4. ASSUME NEW i \in KeepStart(h) + 1 .. Len(h), h[i].kind = "summary" PROVE FALSE
    <2>1. h[i] \in Range(Kept(h))
      BY <1>3
    <2>2. PICK j \in DOMAIN Kept(h) : Kept(h)[j] = h[i]
      BY <2>1 DEF Range
    <2>3. Kept(h)[j].id \in OfKind(Kept(h), "summary")
      BY <1>4, <2>2 DEF OfKind
    <2> QED
      BY <2>3 DEF CanCondense, Has
  <1> QED
    BY <1>1, <1>2, <1>4

\* A summary tells of what the last summary before it told and of each message
\* since, but for a last one whose calls no kept message answers.
LEMMA SummaryTells ==
    ASSUME NEW h \in Seq(Messages), CanCondense(h), SummariesAnswer(h),
           NEW i \in 1 .. KeepStart(h),
           \A j \in i + 1 .. KeepStart(h) : h[j].kind # "summary"
    PROVE  \/ h[i].tells \subseteq Summary(h).tells
           \/ /\ i = KeepStart(h) /\ CallsToPreserve(h) = {}
              /\ h[i].uses # {} /\ h[i].kind # "summary"
  <1> DEFINE K == KeepStart(h)
             upTo == K + (IF CallsToPreserve(h) # {} THEN 1 ELSE 0)
             prefix == SubSeq(h, 1, upTo)
             s == SinceLastSummary(prefix)
             M == MessagesToSummarize(h)
  <1>1. /\ Len(h) \in Nat /\ K \in 1 .. Len(h) /\ K + 1 \in 1 .. Len(h)
        /\ \A j \in K + 1 .. Len(h) : h[j].kind # "summary"
    BY CanCondenseWhen
  <1>2. upTo \in Nat /\ upTo > 0 /\ (upTo = K \/ upTo = K + 1) /\ (upTo = K => CallsToPreserve(h) = {})
    BY <1>1
  <1>3. M = IF s # <<>> /\ Last(s).uses # {} THEN Front(s) ELSE s
    <2> DEFINE since == IF upTo > 0 THEN SinceLastSummary(SubSeq(h, 1, upTo)) ELSE <<>>
    <2>1. M = IF since # <<>> /\ Last(since).uses # {} THEN Front(since) ELSE since
      BY DEF MessagesToSummarize
    <2>2. since = s
      BY <1>2
    <2> HIDE DEF since, s
    <2> QED
      BY <2>1, <2>2
  <1>4. Len(M) > 1
    BY DEF CanCondense
  <1>5. Summary(h).tells = UNION {m.tells : m \in Range(M)}
    BY DEF Summary
  <1>6. \A j \in i + 1 .. K : h[j].kind # "summary"
    OBVIOUS
  <1>7. i \in 1 .. K
    OBVIOUS
  <1> HIDE DEF K, upTo, M
  <1>8. /\ prefix \in Seq(Messages) /\ Len(prefix) = upTo
        /\ \A j \in 1 .. upTo : prefix[j] = h[j]
    BY <1>1, <1>2
  <1>9. SummariesAnswer(prefix)
    BY <1>1, <1>2, <1>8 DEF SummariesAnswer
  <1> HIDE DEF prefix
  <1>10. PICK last : Since(s, prefix, last)
    BY <1>8, <1>9, SinceDoes
  <1> HIDE DEF s
  <1>11. last \in 0 .. i
    <2>1. last \in 0 .. upTo /\ (last # 0 => h[last].kind = "summary")
      BY <1>2, <1>8, <1>10 DEF Since
    <2>2. last > i => last \in i + 1 .. K \/ last \in K + 1 .. Len(h)
      BY <1>1, <1>2, <1>7, <2>1
    <2> QED
      BY <1>1, <1>2, <1>6, <1>7, <2>1, <2>2
  <1> DEFINE x == IF last = 0 THEN i ELSE i - last + 2
  <1>12. /\ s \in Seq(Messages) /\ DOMAIN s = 1 .. Len(s) /\ x \in 1 .. Len(s) /\ s[x] = h[i]
         /\ Len(s) \in Nat /\ (x = Len(s) => i = upTo)
         /\ (last = i => Len(s) = upTo - i + 2)
    <2>1. i \in 1 .. upTo /\ prefix[i] = h[i]
      BY <1>1, <1>2, <1>7, <1>8
    <2>2. CASE last = 0
      BY <1>2, <1>7, <1>8, <1>10, <2>1, <2>2 DEF Since
    <2>3. CASE last # 0
      <3>1. /\ s \in Seq(Messages) /\ Len(s) = upTo - last + 2
            /\ \A j \in 2 .. Len(s) : s[j] = prefix[last + j - 2]
        BY <1>8, <1>10, <2>3 DEF Since
      <3>2. x \in 2 .. Len(s) /\ last + x - 2 = i
        BY <1>2, <1>7, <1>11, <2>1, <2>3, <3>1
      <3>3. s[x] = h[i]
        BY <2>1, <3>1, <3>2
      <3>4. x = Len(s) => i = upTo
        BY <1>2, <1>7, <1>11, <2>1, <2>3, <3>1
      <3> QED
        BY <1>2, <2>1, <3>1, <3>2, <3>3, <3>4
    <2> QED
      BY <2>2, <2>3
  <1> HIDE DEF x
  <1>13. CASE Last(s).uses # {} /\ x = Len(s)
    <2>1. i = upTo /\ i = K /\ CallsToPreserve(h) = {}
      BY <1>1, <1>2, <1>7, <1>12, <1>13
    <2>2. Last(s) = h[i] /\ s # <<>>
      BY <1>12, <1>13 DEF Last
    <2>3. M = Front(s) /\ Len(Front(s)) = Len(s) - 1
      <3>1. M = Front(s)
        BY <1>3, <1>13, <2>2
      <3>2. Len(Front(s)) = Len(s) - 1
        BY <1>12 DEF Front
      <3> QED
        BY <3>1, <3>2
    <2>4. h[i].kind # "summary"
      <3>1. SUFFICES ASSUME h[i].kind = "summary" PROVE FALSE
        OBVIOUS
      <3>2. \A j \in last + 1 .. upTo : h[j].kind # "summary"
        BY <1>2, <1>8, <1>10, <1>11 DEF Since
      <3>3. last = i
        BY <1>2, <1>7, <1>11, <2>1, <3>1, <3>2
      <3>4. Len(s) = 2
        BY <1>2, <1>12, <2>1, <3>3
      <3> QED
        BY <1>4, <2>3, <3>4
    <2> QED
      BY <1>13, <2>1, <2>2, <2>4 DEF K
  <1>14. CASE ~ (Last(s).uses # {} /\ x = Len(s))
    <2>1. h[i] \in Range(M)
      <3>1. CASE s # <<>> /\ Last(s).uses # {}
        <4>1. M = SubSeq(s, 1, Len(s) - 1)
          BY <1>3, <3>1 DEF Front
        <4>2. x \in 1 .. Len(s) - 1
          <5>1. x # Len(s)
            BY <1>14, <3>1
          <5>2. x \in 1 .. Len(s) /\ Len(s) \in Nat
            BY <1>12
          <5> HIDE DEF s
          <5> QED
            BY <5>1, <5>2
        <4>3. x \in DOMAIN M /\ M[x] = s[x]
          <5> DEFINE f == SubSeq(s, 1, Len(s) - 1)
          <5>1. s \in Seq(Messages) /\ Len(s) \in Nat
            BY <1>12
          <5> HIDE DEF s, x
          <5>2. x \in DOMAIN f /\ f[x] = s[x]
            BY <4>2, <5>1
          <5> QED
            BY <4>1, <5>2 DEF f
        <4> QED
          BY <1>12, <4>3 DEF Range
      <3>2. CASE ~ (s # <<>> /\ Last(s).uses # {})
        <4>1. M = s
          BY <1>3, <3>2
        <4> QED
          BY <1>12, <4>1 DEF Range
      <3> QED
        BY <3>1, <3>2
    <2> QED
      BY <1>5, <2>1
  <1> QED
    BY <1>13, <1>14

\* The fields of a new summary.
LEMMA SummaryIs ==
    ASSUME NEW h \in Seq(Messages), CanCondense(h), now \in Nat, SummariesAnswer(h)
    PROVE  /\ Summary(h) \in Messages
           /\ Summary(h).id = now /\ Summary(h).ts = h[KeepStart(h) + 1].ts - 1
           /\ Summary(h).role = "assistant" /\ Summary(h).kind = "summary"
           /\ Summary(h).uses = CallsToPreserve(h) /\ Summary(h).results = {}
           /\ Summary(h).condenseParent = None /\ Summary(h).truncationParent = None
           /\ Summary(h).cut = FALSE
  <1>1. /\ Len(h) > 3 /\ KeepStart(h) + 1 \in 1 .. Len(h) /\ Len(h) >= 3
    BY CanCondenseWhen
  <1>2. Head(Kept(h)) = h[KeepStart(h) + 1]
    BY <1>1, KeptIs
  <1>3. h[KeepStart(h) + 1] \in Messages
    BY <1>1
  <1>4. Head(Kept(h)).ts \in Int
    BY <1>2, <1>3, MessageFields
  <1>5. CallsToPreserve(h) \in SUBSET Nat
    BY <1>1, CallsToPreserveIs
  <1>6. Summary(h).tells \in SUBSET Nat
    <2> DEFINE K == KeepStart(h)
               upTo == K + (IF CallsToPreserve(h) # {} THEN 1 ELSE 0)
               prefix == SubSeq(h, 1, upTo)
               s == SinceLastSummary(prefix)
               M == MessagesToSummarize(h)
    <2>1. Len(h) \in Nat /\ K \in 1 .. Len(h) /\ K + 1 \in 1 .. Len(h)
      BY CanCondenseWhen
    <2>2. upTo \in 1 .. Len(h)
      BY <2>1
    <2>3. M = IF s # <<>> /\ Last(s).uses # {} THEN Front(s) ELSE s
      <3> DEFINE since == IF upTo > 0 THEN SinceLastSummary(SubSeq(h, 1, upTo)) ELSE <<>>
      <3>1. M = IF since # <<>> /\ Last(since).uses # {} THEN Front(since) ELSE since
        BY DEF MessagesToSummarize
      <3>2. since = s
        BY <2>2
      <3> HIDE DEF since, s
      <3> QED
        BY <3>1, <3>2
    <2> HIDE DEF upTo
    <2>4. prefix \in Seq(Messages)
      BY <2>1, <2>2
    <2>5. SummariesAnswer(prefix)
      BY <2>1, <2>2 DEF SummariesAnswer
    <2> HIDE DEF prefix
    <2>6. PICK last : Since(s, prefix, last)
      BY <2>4, <2>5, SinceDoes
    <2>7. s \in Seq(Messages)
      BY <2>6 DEF Since
    <2> HIDE DEF s, M
    <2>8. M \in Seq(Messages)
      <3>1. Front(s) \in Seq(Messages)
        BY <2>7 DEF Front
      <3> QED
        BY <2>3, <2>7, <3>1
    <2>9. \A m \in Range(M) : m.tells \subseteq Nat
      <3> SUFFICES ASSUME NEW m \in Range(M) PROVE m.tells \subseteq Nat
        OBVIOUS
      <3>1. m \in Messages
        BY <2>8 DEF Range
      <3> QED
        BY <3>1, MessageFields
    <2>10. Summary(h).tells = UNION {m.tells : m \in Range(M)}
      BY DEF Summary, M
    <2> QED
      BY <2>9, <2>10
  <1>7. /\ Summary(h).id = now /\ Summary(h).ts = Head(Kept(h)).ts - 1
        /\ Summary(h).role = "assistant" /\ Summary(h).kind = "summary"
        /\ Summary(h).uses = CallsToPreserve(h) /\ Summary(h).results = {}
        /\ Summary(h).condenseParent = None /\ Summary(h).truncationParent = None
        /\ Summary(h).cut = FALSE
    BY DEF Summary
  <1>8. Summary(h) \in Messages
    <2>1. Summary(h) = [id |-> now, ts |-> Head(Kept(h)).ts - 1, role |-> "assistant", kind |-> "summary",
              uses |-> CallsToPreserve(h), results |-> {}, tells |-> Summary(h).tells,
              condenseParent |-> None, truncationParent |-> None, cut |-> FALSE]
      BY DEF Summary
    <2>2. None \in Nat
      BY DEF None
    <2> DEFINE t == Summary(h).tells
    <2> HIDE DEF t
    <2>3. t \in SUBSET Nat
      BY <1>6 DEF t
    <2>4. [id |-> now, ts |-> Head(Kept(h)).ts - 1, role |-> "assistant", kind |-> "summary",
              uses |-> CallsToPreserve(h), results |-> {}, tells |-> t,
              condenseParent |-> None, truncationParent |-> None, cut |-> FALSE] \in Messages
      BY <1>4, <1>5, <2>2, <2>3 DEF Messages
    <2> QED
      BY <2>1, <2>4 DEF t
  <1> QED
    BY <1>2, <1>7, <1>8

\* What Condensed returns.
LEMMA CondensedDoes ==
    ASSUME NEW h \in Seq(Messages), CanCondense(h), now \in Nat, SummariesAnswer(h)
    PROVE  LET g == Condensed(h)
               p == KeepStart(h) + 1
               o == Shift(p)
           IN  /\ Derived(g, h, o, p)
               /\ Len(g) = Len(h) + 1 /\ DOMAIN g = 1 .. Len(h) + 1 /\ p \in 2 .. Len(h)
               /\ g[p] = Summary(h)
               /\ \A i \in DOMAIN g : i < p => o[i] = i
               /\ \A i \in DOMAIN g : i > p => o[i] = i - 1 /\ g[i] = h[i - 1]
               /\ \A i \in DOMAIN g : i # p =>
                      /\ g[i].truncationParent = h[o[i]].truncationParent
                      /\ g[i].cut = h[o[i]].cut
                      /\ g[i].condenseParent = IF o[i] = 1 \/ o[i] >= p \/ h[o[i]].condenseParent # None
                                               THEN h[o[i]].condenseParent ELSE now
  <1> DEFINE p == KeepStart(h) + 1
             r == [i \in DOMAIN h |->
                     IF i = 1 \/ i > KeepStart(h) \/ h[i].condenseParent # None
                     THEN h[i]
                     ELSE [h[i] EXCEPT !.condenseParent = now]]
  <1>1. Len(h) \in Nat /\ p \in 2 .. Len(h) /\ DOMAIN h = 1 .. Len(h) /\ KeepStart(h) \in Nat
    BY CanCondenseWhen
  <1>2. ASSUME NEW i \in 1 .. Len(h)
        PROVE  /\ r[i] \in Messages /\ Same(r[i], h[i])
               /\ r[i].truncationParent = h[i].truncationParent /\ r[i].cut = h[i].cut
               /\ r[i].condenseParent = IF i = 1 \/ i >= p \/ h[i].condenseParent # None
                                        THEN h[i].condenseParent ELSE now
               /\ (i >= p => r[i] = h[i])
    <2>1. h[i] \in Messages
      OBVIOUS
    <2>2. CASE i = 1 \/ i > KeepStart(h) \/ h[i].condenseParent # None
      <3>1. r[i] = h[i]
        BY <1>1, <2>2
      <3> QED
        BY <1>1, <2>1, <2>2, <3>1 DEF Same
    <2>3. CASE ~ (i = 1 \/ i > KeepStart(h) \/ h[i].condenseParent # None)
      <3>1. r[i] = [h[i] EXCEPT !.condenseParent = now]
        BY <1>1, <2>3
      <3>2. ~ (i >= p)
        BY <1>1, <2>3
      <3>3. r[i] \in Messages /\ Same(r[i], h[i]) /\ r[i].cut = h[i].cut
            /\ r[i].condenseParent = now /\ r[i].truncationParent = h[i].truncationParent
        <4> HIDE DEF r
        <4>1. now \in Nat
          OBVIOUS
        <4> QED
          BY <2>1, <3>1, <4>1, TaggedCondensed
      <3> QED
        BY <2>3, <3>2, <3>3
    <2> QED
      BY <2>2, <2>3
  <1>3. Condensed(h) = InsertAt(r, p, Summary(h))
    BY DEF Condensed
  <1>4. r \in Seq(Messages) /\ Len(r) = Len(h)
    <2>1. r \in [1 .. Len(h) -> Messages]
      BY <1>1, <1>2
    <2> HIDE DEF r
    <2> QED
      BY <1>1, <2>1
  <1>5. Summary(h) \in Messages
    BY SummaryIs
  <1> HIDE DEF r
  <1>6. LET g == InsertAt(r, p, Summary(h))
        IN  /\ Derived(g, h, Shift(p), p)
            /\ Len(g) = Len(h) + 1 /\ DOMAIN g = 1 .. Len(h) + 1 /\ g[p] = Summary(h)
            /\ \A i \in DOMAIN g : i # p => Shift(p)[i] \in 1 .. Len(h) /\ g[i] = r[Shift(p)[i]]
            /\ \A i \in DOMAIN g : i < p => Shift(p)[i] = i
            /\ \A i \in DOMAIN g : i > p => Shift(p)[i] = i - 1
    <2>1. p \in 1 .. Len(h) + 1
      BY <1>1
    <2> HIDE DEF p
    <2> QED
      BY <1>2, <1>4, <1>5, <2>1, InsertDerives
  <1> DEFINE g == Condensed(h)
             o == Shift(p)
  <1>7. ASSUME NEW i \in DOMAIN g, i > p PROVE o[i] = i - 1 /\ g[i] = h[i - 1]
    <2>1. o[i] = i - 1 /\ g[i] = r[i - 1] /\ i - 1 \in 1 .. Len(h)
      BY <1>1, <1>3, <1>6, <1>7
    <2>2. i - 1 >= p
      BY <1>1, <1>3, <1>6, <1>7
    <2> QED
      BY <1>2, <2>1, <2>2
  <1>8. ASSUME NEW i \in DOMAIN g, i # p
        PROVE  /\ g[i].truncationParent = h[o[i]].truncationParent
               /\ g[i].cut = h[o[i]].cut
               /\ g[i].condenseParent = IF o[i] = 1 \/ o[i] >= p \/ h[o[i]].condenseParent # None
                                        THEN h[o[i]].condenseParent ELSE now
    <2>1. o[i] \in 1 .. Len(h) /\ g[i] = r[o[i]]
      BY <1>3, <1>6, <1>8
    <2> QED
      BY <1>2, <2>1
  <1> QED
    BY <1>1, <1>3, <1>6, <1>7, <1>8

-----------------------------------------------------------------------------
(* Truncation *)

\* A truncation counts the i-th message: no truncation hid it, and it is no marker.
Seen(h, i) == h[i].truncationParent = None /\ h[i].kind # "marker"

\* The visible positions in their order.
LEMMA VisibleIs ==
    ASSUME NEW h \in Seq(Messages)
    PROVE  /\ Visible(h) \in Seq(Nat) /\ Len(Visible(h)) \in Nat
           /\ \A n \in 1 .. Len(Visible(h)) : Visible(h)[n] \in 1 .. Len(h) /\ Seen(h, Visible(h)[n])
           /\ \A n, m \in 1 .. Len(Visible(h)) : n < m => Visible(h)[n] < Visible(h)[m]
           /\ \A i \in 1 .. Len(h) : Seen(h, i) => \E n \in 1 .. Len(Visible(h)) : Visible(h)[n] = i
  <1> DEFINE q == [i \in DOMAIN h |-> i]
             K == {i \in DOMAIN h : h[i].truncationParent = None /\ h[i].kind # "marker"}
             V == Visible(h)
  <1>1. q \in Seq(Nat) /\ Len(q) = Len(h) /\ Len(h) \in Nat /\ \A i \in 1 .. Len(h) : q[i] = i
    OBVIOUS
  <1>2. V = Selected(q, K)
    BY DEF Visible
  <1>3. \A i \in 1 .. Len(h) : i \in K <=> Seen(h, i)
    BY DEF Seen
  <1> HIDE DEF q, K, V
  <1>4. V \in Seq(Nat)
    BY <1>1, <1>2, SelectedIndices
  <1>5. PICK e : Enumerates(e, V, q, K)
    BY <1>1, <1>2, SelectedIndices
  <1>6. ASSUME NEW n \in 1 .. Len(V) PROVE V[n] = e[n] /\ e[n] \in 1 .. Len(h) /\ e[n] \in K
    BY <1>1, <1>5 DEF Enumerates
  <1>7. \A n, m \in 1 .. Len(V) : n < m => V[n] < V[m]
    BY <1>5, <1>6 DEF Enumerates
  <1>8. ASSUME NEW i \in 1 .. Len(h), Seen(h, i) PROVE \E n \in 1 .. Len(V) : V[n] = i
    <2>1. q[i] \in K /\ i \in 1 .. Len(q)
      BY <1>1, <1>3, <1>8
    <2>2. PICK n \in 1 .. Len(V) : e[n] = i
      BY <1>5, <2>1 DEF Enumerates
    <2> QED
      BY <1>6, <2>2
  <1> QED
    BY <1>3, <1>4, <1>6, <1>7, <1>8 DEF V

\* What is removed leaves a visible message behind it.
LEMMA ToRemoveIs ==
    ASSUME NEW h \in Seq(Messages)
    PROVE  /\ ToRemove(h) \in Nat
           /\ ToRemove(h) # 0 => ToRemove(h) + 2 <= Len(Visible(h))
  <1> DEFINE n == Len(Visible(h))
             top == Max({n, 1})
             half == (top - 1) \div 2
  <1>1. n \in Nat
    BY VisibleIs
  <1> HIDE DEF n
  <1>2. top = IF n >= 1 THEN n ELSE 1
    BY <1>1, MaxOfTwo
  <1> HIDE DEF top
  <1>3. top \in Nat /\ top >= 1 /\ (top > 1 => top = n)
    BY <1>1, <1>2
  <1>4. half \in Nat /\ 2 * half <= top - 1
    BY <1>3
  <1> HIDE DEF half
  <1>5. half % 2 \in 0 .. 1 /\ half % 2 <= half
    BY <1>4
  <1>6. ToRemove(h) = half - (half % 2)
    BY DEF ToRemove, half, top, n
  <1>7. half - (half % 2) # 0 => half >= 2
    <2>1. half = 1 => half % 2 = 1
      OBVIOUS
    <2> QED
      BY <1>4, <1>5, <2>1
  <1>8. half - (half % 2) \in Nat /\ half - (half % 2) <= half
    BY <1>4, <1>5
  <1>9. half >= 2 => half + 2 <= n
    BY <1>1, <1>3, <1>4
  <1> QED
    BY <1>1, <1>4, <1>5, <1>6, <1>7, <1>8, <1>9 DEF n

\* The first message is one of the user's that nothing hides.
BeginsPlain(h) ==
    h # <<>> => /\ h[1].kind = "plain" /\ h[1].role = "user"
                /\ h[1].condenseParent = None /\ h[1].truncationParent = None

\* The fields of a new marker.
LEMMA MarkerIs ==
    ASSUME NEW h \in Seq(Messages), NEW p \in 1 .. Len(h), now \in Nat
    PROVE  /\ Marker(h, p) \in Messages
           /\ Marker(h, p).id = now /\ Marker(h, p).ts = h[p].ts - 1
           /\ Marker(h, p).role = "user" /\ Marker(h, p).kind = "marker"
           /\ Marker(h, p).uses = {} /\ Marker(h, p).results = {} /\ Marker(h, p).tells = {}
           /\ Marker(h, p).condenseParent = None /\ Marker(h, p).truncationParent = None
           /\ Marker(h, p).cut = FALSE
  <1>1. h[p].ts \in Int /\ p <= Len(h)
    BY MessageFields
  <1>2. Marker(h, p) = [id |-> now, ts |-> h[p].ts - 1,
           role |-> "user", kind |-> "marker", uses |-> {}, results |-> {}, tells |-> {},
           condenseParent |-> None, truncationParent |-> None, cut |-> FALSE]
    BY <1>1 DEF Marker
  <1>3. None \in Nat
    BY DEF None
  <1> QED
    BY <1>1, <1>2, <1>3, SMTT(20) DEF Messages

\* What Truncated returns: the visible messages between the first one and the
\* marker are hidden.
LEMMA TruncatedDoes ==
    ASSUME NEW h \in Seq(Messages), BeginsPlain(h), now \in Nat
    PROVE  LET g == Truncated(h)
               p == MarkerAt(h)
               o == Shift(p)
           IN  \/ g = h
               \/ /\ p \in 2 .. Len(h) /\ Seen(h, p)
                  /\ Derived(g, h, o, p)
                  /\ Len(g) = Len(h) + 1 /\ DOMAIN g = 1 .. Len(h) + 1
                  /\ g[p] = Marker(h, p)
                  /\ \A i \in DOMAIN g : i < p => o[i] = i
                  /\ \A i \in DOMAIN g : i > p => o[i] = i - 1
                  /\ \A i \in DOMAIN g : i # p =>
                      /\ g[i].condenseParent = h[o[i]].condenseParent
                      /\ IF o[i] \in 2 .. p - 1 /\ Seen(h, o[i])
                         THEN g[i].truncationParent = now /\ g[i].cut = TRUE
                         ELSE /\ g[i].truncationParent = h[o[i]].truncationParent
                              /\ g[i].cut = h[o[i]].cut
  <1> DEFINE V == Visible(h)
             R == ToRemove(h)
             p == MarkerAt(h)
             hidden == Range(SubSeq(V, 2, R + 1))
             r == [i \in DOMAIN h |->
                     IF i \in hidden THEN [h[i] EXCEPT !.truncationParent = now, !.cut = TRUE]
                     ELSE h[i]]
  <1>1. CASE R = 0
    BY <1>1 DEF Truncated
  <1>2. CASE R # 0
    <2>1. R \in Nat /\ R + 2 <= Len(V) /\ R >= 1
      BY <1>2, ToRemoveIs
    <2>2. /\ V \in Seq(Nat) /\ Len(V) \in Nat
          /\ \A n \in 1 .. Len(V) : V[n] \in 1 .. Len(h) /\ Seen(h, V[n])
          /\ \A n, m \in 1 .. Len(V) : n < m => V[n] < V[m]
          /\ \A i \in 1 .. Len(h) : Seen(h, i) => \E n \in 1 .. Len(V) : V[n] = i
      BY VisibleIs
    <2>3. Truncated(h) = InsertAt(r, p, Marker(h, p))
      BY <1>2 DEF Truncated
    <2>4. p = V[R + 2]
      BY <2>1, <2>2 DEF MarkerAt
    <2> HIDE DEF V, R, p
    <2>5. hidden = {V[n] : n \in 2 .. R + 1}
      <3> DEFINE s == SubSeq(V, 2, R + 1)
      <3>1. Len(s) = R /\ DOMAIN s = 1 .. R /\ \A n \in 1 .. R : s[n] = V[n + 1]
        BY <2>1, <2>2
      <3> HIDE DEF s
      <3>2. Range(s) = {s[n] : n \in 1 .. R}
        BY <3>1 DEF Range
      <3>3. ASSUME NEW n \in 2 .. R + 1 PROVE V[n] \in Range(s)
        <4>1. n - 1 \in 1 .. R /\ (n - 1) + 1 = n
          BY <2>1
        <4> QED
          BY <3>1, <3>2, <4>1
      <3>4. ASSUME NEW n \in 1 .. R PROVE s[n] \in {V[m] : m \in 2 .. R + 1}
        <4>1. n + 1 \in 2 .. R + 1
          BY <2>1
        <4> QED
          BY <3>1, <4>1
      <3> QED
        BY <3>2, <3>3, <3>4 DEF s
    <2>6. p \in 2 .. Len(h) /\ Seen(h, p) /\ Len(h) \in Nat
      <3>1. R + 2 \in 1 .. Len(V) /\ 1 \in 1 .. Len(V) /\ 1 < R + 2
        BY <2>1, <2>2
      <3>2. V[1] \in 1 .. Len(h) /\ V[1] < V[R + 2] /\ V[R + 2] \in 1 .. Len(h) /\ Seen(h, V[R + 2])
        BY <2>2, <3>1
      <3> QED
        BY <2>4, <3>2
    <2>7. V[1] = 1
      <3>1. h # <<>> /\ 1 \in 1 .. Len(h)
        BY <2>6
      <3>2. Seen(h, 1)
        BY <3>1 DEF BeginsPlain, Seen
      <3>3. PICK n \in 1 .. Len(V) : V[n] = 1
        BY <2>2, <3>1, <3>2
      <3>4. n = 1
        <4>1. SUFFICES ASSUME n # 1 PROVE FALSE
          OBVIOUS
        <4>2. 1 \in 1 .. Len(V) /\ 1 < n
          BY <2>2, <4>1
        <4> QED
          BY <2>2, <3>3, <4>2
      <3> QED
        BY <3>3, <3>4
    <2>8. ASSUME NEW i \in 1 .. Len(h)
          PROVE  i \in hidden <=> i \in 2 .. p - 1 /\ Seen(h, i)
      <3>1. ASSUME i \in hidden PROVE i \in 2 .. p - 1 /\ Seen(h, i)
        <4>1. PICK n \in 2 .. R + 1 : i = V[n]
          BY <2>5, <3>1
        <4>2. n \in 1 .. Len(V) /\ 1 \in 1 .. Len(V) /\ R + 2 \in 1 .. Len(V) /\ 1 < n /\ n < R + 2
          BY <2>1, <2>2
        <4>3. V[1] < V[n] /\ V[n] < V[R + 2] /\ Seen(h, V[n])
          BY <2>2, <4>2
        <4> QED
          BY <2>4, <2>6, <2>7, <4>1, <4>3
      <3>2. ASSUME i \in 2 .. p - 1, Seen(h, i) PROVE i \in hidden
        <4>1. PICK n \in 1 .. Len(V) : V[n] = i
          BY <2>2, <3>2
        <4>2. R + 2 \in 1 .. Len(V) /\ 1 \in 1 .. Len(V)
          BY <2>1, <2>2
        <4>3. n # 1
          BY <2>7, <3>2, <4>1
        <4>4. n < R + 2
          <5>1. SUFFICES ASSUME n >= R + 2 PROVE FALSE
            BY <2>1
          <5>2. V[R + 2] <= V[n]
            <6>1. CASE n = R + 2
              BY <2>2, <4>2, <6>1
            <6>2. CASE R + 2 < n
              <7>1. V[R + 2] < V[n] /\ V[R + 2] \in Nat /\ V[n] \in Nat
                BY <2>2, <4>2, <6>2, SMTT(20)
              <7> QED
                BY <7>1
            <6> QED
              BY <2>1, <5>1, <6>1, <6>2
          <5> QED
            BY <2>4, <2>6, <3>2, <4>1, <5>2
        <4>5. n \in 2 .. R + 1
          BY <2>1, <4>3, <4>4
        <4> QED
          BY <2>5, <4>1, <4>5
      <3> QED
        BY <3>1, <3>2
    <2> HIDE DEF hidden
    <2>9. ASSUME NEW i \in 1 .. Len(h)
          PROVE  /\ r[i] \in Messages /\ Same(r[i], h[i])
                 /\ r[i].condenseParent = h[i].condenseParent
                 /\ IF i \in 2 .. p - 1 /\ Seen(h, i)
                    THEN r[i].truncationParent = now /\ r[i].cut = TRUE
                    ELSE r[i].truncationParent = h[i].truncationParent /\ r[i].cut = h[i].cut
      <3>0. i \in DOMAIN h
        OBVIOUS
      <3>1. h[i] \in Messages
        OBVIOUS
      <3>2. CASE i \in hidden
        <4>1. r[i] = [h[i] EXCEPT !.truncationParent = now, !.cut = TRUE]
          BY <3>0, <3>2, Zenon
        <4>2. r[i] \in Messages /\ Same(r[i], h[i]) /\ r[i].cut = TRUE
              /\ r[i].condenseParent = h[i].condenseParent /\ r[i].truncationParent = now
          <5> HIDE DEF r
          <5>1. now \in Nat
            OBVIOUS
          <5>2. \A x : x = [h[i] EXCEPT !.truncationParent = now, !.cut = TRUE]
                  => /\ x \in Messages /\ Same(x, h[i]) /\ x.cut = TRUE
                     /\ x.condenseParent = h[i].condenseParent /\ x.truncationParent = now
            BY <3>1, <5>1, TaggedTruncated, Zenon
          <5> QED
            BY <4>1, <5>2, Zenon
        <4> QED
          BY <2>8, <3>2, <4>2
      <3>3. CASE i \notin hidden
        <4>1. r[i] = h[i]
          BY <3>0, <3>3, Zenon
        <4> QED
          BY <2>8, <3>1, <3>3, <4>1 DEF Same
      <3> QED
        BY <3>2, <3>3
    <2>10. r \in Seq(Messages) /\ Len(r) = Len(h)
      <3>0. DOMAIN h = 1 .. Len(h)
        OBVIOUS
      <3>1. r = [i \in 1 .. Len(h) |-> r[i]]
        BY <3>0, Zenon
      <3> HIDE DEF r
      <3>2. \A i \in 1 .. Len(h) : r[i] \in Messages
        BY <2>9
      <3>3. r \in [1 .. Len(h) -> Messages]
        BY <3>1, <3>2
      <3> QED
        BY <2>6, <3>3
    <2> HIDE DEF r
    <2>11. p \in 1 .. Len(h) /\ Marker(h, p) \in Messages
      <3>1. p \in 1 .. Len(h)
        BY <2>6
      <3> QED
        BY <3>1, MarkerIs
    <2>12. LET g == InsertAt(r, p, Marker(h, p))
           IN  /\ Derived(g, h, Shift(p), p)
               /\ Len(g) = Len(h) + 1 /\ DOMAIN g = 1 .. Len(h) + 1 /\ g[p] = Marker(h, p)
               /\ \A i \in DOMAIN g : i # p => Shift(p)[i] \in 1 .. Len(h) /\ g[i] = r[Shift(p)[i]]
               /\ \A i \in DOMAIN g : i < p => Shift(p)[i] = i
               /\ \A i \in DOMAIN g : i > p => Shift(p)[i] = i - 1
      <3>1. p \in 1 .. Len(h) + 1
        BY <2>6
      <3>2. \A i \in 1 .. Len(h) : Same(r[i], h[i])
        BY <2>9
      <3> DEFINE x == Marker(h, p)
      <3>3. x \in Messages
        BY <2>11
      <3> HIDE DEF x
      <3>4. LET g == InsertAt(r, p, x)
           IN  /\ Derived(g, h, Shift(p), p)
               /\ Len(g) = Len(h) + 1 /\ DOMAIN g = 1 .. Len(h) + 1 /\ g[p] = x
               /\ \A i \in DOMAIN g : i # p => Shift(p)[i] \in 1 .. Len(h) /\ g[i] = r[Shift(p)[i]]
               /\ \A i \in DOMAIN g : i < p => Shift(p)[i] = i
               /\ \A i \in DOMAIN g : i > p => Shift(p)[i] = i - 1
        BY <2>10, <3>1, <3>2, <3>3, InsertDerives
      <3> QED
        BY <3>4 DEF x
    <2> DEFINE g == Truncated(h)
               o == Shift(p)
    <2>13. ASSUME NEW i \in DOMAIN g, i # p
           PROVE  /\ g[i].condenseParent = h[o[i]].condenseParent
                  /\ IF o[i] \in 2 .. p - 1 /\ Seen(h, o[i])
                         THEN g[i].truncationParent = now /\ g[i].cut = TRUE
                         ELSE /\ g[i].truncationParent = h[o[i]].truncationParent
                              /\ g[i].cut = h[o[i]].cut
      <3>1. o[i] \in 1 .. Len(h) /\ g[i] = r[o[i]]
        BY <2>3, <2>12, <2>13
      <3> QED
        BY <2>9, <3>1
    <2> QED
      BY <2>3, <2>6, <2>12, <2>13 DEF p
  <1> QED
    BY <1>1, <1>2

-----------------------------------------------------------------------------
(* Removing messages *)

\* g has the messages of h that are in K, re-tagged.
Thinned(g, h, e, K) ==
    /\ Derived(g, h, e, 0)
    /\ \A i \in DOMAIN g : h[e[i]] \in K
    /\ \A q \in DOMAIN h : h[q] \in K => \E i \in DOMAIN g : e[i] = q

\* A history that has the messages of a filtered one was thinned.
LEMMA FilterDerives ==
    ASSUME NEW h \in Seq(Messages), NEW K, NEW g \in Seq(Messages),
           Len(g) = Len(Selected(h, K)),
           \A i \in 1 .. Len(g) : Same(g[i], Selected(h, K)[i])
    PROVE  \E e : /\ Thinned(g, h, e, K)
                  /\ \A i \in DOMAIN g : Selected(h, K)[i] = h[e[i]]
  <1> DEFINE s == Selected(h, K)
  <1>1. PICK e : s \in Seq(Messages) /\ Enumerates(e, s, h, K)
    BY SelectedIndices
  <1> HIDE DEF s
  <1>2. /\ DOMAIN g = 1 .. Len(g) /\ DOMAIN h = 1 .. Len(h) /\ Len(g) = Len(s)
        /\ \A i \in 1 .. Len(g) : i # 0
    BY DEF s
  <1>3. \A i \in 1 .. Len(g) : Same(g[i], s[i])
    BY DEF s
  <1>4. Derived(g, h, e, 0)
    BY <1>1, <1>2, <1>3 DEF Derived, Enumerates
  <1>5. Thinned(g, h, e, K)
    BY <1>1, <1>2, <1>4 DEF Thinned, Enumerates
  <1>6. \A i \in DOMAIN g : s[i] = h[e[i]]
    BY <1>1, <1>2 DEF Enumerates
  <1> QED
    BY <1>5, <1>6 DEF s

\* The messages that uncondenseForExtendedThinking leaves.
Lasting(h, invalid) == {m \in Range(h) : m.id \notin invalid}

\* What uncondenseForExtendedThinking makes of a history.
LEMMA UncondensedDoes ==
    ASSUME NEW h \in Seq(Messages), NEW invalid
    PROVE  LET g == Uncondensed(h, invalid)
           IN  \E e : /\ Thinned(g, h, e, Lasting(h, invalid))
                      /\ \A i \in DOMAIN g :
                           /\ g[i].truncationParent = h[e[i]].truncationParent
                           /\ g[i].cut = h[e[i]].cut
                           /\ g[i].condenseParent = IF h[e[i]].condenseParent \in invalid
                                                    THEN None ELSE h[e[i]].condenseParent
  <1> DEFINE K == Lasting(h, invalid)
             left == Selected(h, K)
             g == [i \in DOMAIN left |->
                     IF left[i].condenseParent \in invalid
                     THEN [left[i] EXCEPT !.condenseParent = None] ELSE left[i]]
  <1>1. Uncondensed(h, invalid) = g
    BY DEF Uncondensed, Lasting
  <1> HIDE DEF K
  <1>2. left \in Seq(Messages)
    BY SelectedSeq
  <1> HIDE DEF left
  <1>3. DOMAIN left = 1 .. Len(left) /\ Len(left) \in Nat
    BY <1>2
  <1>4. ASSUME NEW i \in 1 .. Len(left)
        PROVE  /\ g[i] \in Messages /\ Same(g[i], left[i])
               /\ g[i].truncationParent = left[i].truncationParent
               /\ g[i].cut = left[i].cut
               /\ g[i].condenseParent = IF left[i].condenseParent \in invalid
                                        THEN None ELSE left[i].condenseParent
    <2>0. i \in DOMAIN left /\ left[i] \in Messages /\ None \in Nat
      BY <1>2 DEF None
    <2>1. CASE left[i].condenseParent \in invalid
      <3>1. g[i] = [left[i] EXCEPT !.condenseParent = None]
        BY <2>0, <2>1, Zenon
      <3> HIDE DEF g
      <3>2. g[i] \in Messages /\ Same(g[i], left[i]) /\ g[i].cut = left[i].cut
            /\ g[i].condenseParent = None /\ g[i].truncationParent = left[i].truncationParent
        BY <2>0, <3>1, TaggedCondensed
      <3> QED
        BY <2>1, <3>2
    <2>2. CASE left[i].condenseParent \notin invalid
      <3>1. g[i] = left[i]
        BY <2>0, <2>2, Zenon
      <3> QED
        BY <2>0, <2>2, <3>1 DEF Same
    <2> QED
      BY <2>1, <2>2
  <1>5. g \in Seq(Messages) /\ Len(g) = Len(left) /\ DOMAIN g = 1 .. Len(left)
    <2>1. g = [i \in 1 .. Len(left) |-> g[i]]
      BY <1>3, Zenon
    <2> HIDE DEF g
    <2>2. g \in [1 .. Len(left) -> Messages]
      BY <1>4, <2>1
    <2> QED
      BY <1>3, <2>2
  <1> HIDE DEF g
  <1>6. PICK e : Thinned(g, h, e, K) /\ \A i \in DOMAIN g : left[i] = h[e[i]]
    BY <1>4, <1>5, FilterDerives, SMTT(20) DEF left
  <1>7. \A i \in DOMAIN g :
                           /\ g[i].truncationParent = h[e[i]].truncationParent
                           /\ g[i].cut = h[e[i]].cut
                           /\ g[i].condenseParent = IF h[e[i]].condenseParent \in invalid
                                                    THEN None ELSE h[e[i]].condenseParent
    BY <1>4, <1>5, <1>6
  <1> QED
    BY <1>1, <1>6, <1>7 DEF K

\* The messages that a rewind leaves.
Stays(h, ts, removed) ==
    {m \in Range(h) : /\ m.ts < ActualCutoff(h, ts)
                      /\ ~ (m.kind # "plain" /\ m.id \in removed)}

\* What cleanupAfterTruncation makes of a history: tags of what is gone go too.
LEMMA CleanedUpDoes ==
    ASSUME NEW h \in Seq(Messages)
    PROVE  LET g == CleanedUp(h)
           IN  /\ g \in Seq(Messages) /\ Len(g) = Len(h)
               /\ \A i \in 1 .. Len(h) :
                    /\ Same(g[i], h[i]) /\ g[i].cut = h[i].cut
                    /\ g[i].condenseParent = IF h[i].condenseParent \in OfKind(h, "summary")
                                             THEN h[i].condenseParent ELSE None
                    /\ g[i].truncationParent = IF h[i].truncationParent \in OfKind(h, "marker")
                                               THEN h[i].truncationParent ELSE None
  <1> DEFINE C(m) == IF m.condenseParent \in OfKind(h, "summary") THEN m.condenseParent ELSE None
             T(m) == IF m.truncationParent \in OfKind(h, "marker") THEN m.truncationParent ELSE None
             g == [i \in DOMAIN h |-> [h[i] EXCEPT !.condenseParent = C(h[i]), !.truncationParent = T(h[i])]]
  <1>1. CleanedUp(h) = g
    BY DEF CleanedUp
  <1>2. DOMAIN h = 1 .. Len(h) /\ Len(h) \in Nat
    OBVIOUS
  <1>3. ASSUME NEW i \in 1 .. Len(h)
        PROVE  /\ g[i] \in Messages /\ Same(g[i], h[i]) /\ g[i].cut = h[i].cut
               /\ g[i].condenseParent = C(h[i]) /\ g[i].truncationParent = T(h[i])
    <2>1. h[i] \in Messages
      OBVIOUS
    <2>2. C(h[i]) \in Nat /\ T(h[i]) \in Nat
      BY <2>1, MessageFields DEF None
    <2> DEFINE c == C(h[i])
               t == T(h[i])
    <2>3. g[i] = [h[i] EXCEPT !.condenseParent = c, !.truncationParent = t]
      BY <1>2, Zenon
    <2> HIDE DEF g, c, t
    <2>4. c \in Nat /\ t \in Nat
      BY <2>2 DEF c, t
    <2>5. /\ g[i] \in Messages /\ Same(g[i], h[i]) /\ g[i].cut = h[i].cut
          /\ g[i].condenseParent = c /\ g[i].truncationParent = t
      <3>1. \A x : x = [h[i] EXCEPT !.condenseParent = c, !.truncationParent = t]
              => /\ x \in Messages /\ Same(x, h[i]) /\ x.cut = h[i].cut
                 /\ x.condenseParent = c /\ x.truncationParent = t
        <4> DEFINE m == h[i]
        <4>1. m \in Messages
          BY <2>1
        <4> HIDE DEF m
        <4>2. \A x : x = [m EXCEPT !.condenseParent = c, !.truncationParent = t]
              => /\ x \in Messages /\ Same(x, m) /\ x.cut = m.cut
                 /\ x.condenseParent = c /\ x.truncationParent = t
          BY <2>4, <4>1 DEF Messages, Same
        <4> QED
          BY <4>2 DEF m
      <3> QED
        BY <2>3, <3>1, Zenon
    <2> QED
      BY <2>5 DEF c, t
  <1>4. g \in Seq(Messages) /\ Len(g) = Len(h)
    <2>1. g = [i \in 1 .. Len(h) |-> g[i]]
      BY <1>2, Zenon
    <2> HIDE DEF g
    <2>2. g \in [1 .. Len(h) -> Messages]
      BY <1>3, <2>1
    <2> QED
      BY <1>2, <2>2
  <1> HIDE DEF g
  <1> QED
    BY <1>1, <1>3, <1>4

\* What a rewind makes of a history: it cuts, then cleans up.
LEMMA RewoundDoes ==
    ASSUME NEW h \in Seq(Messages), NEW ts, NEW removed
    PROVE  LET g == Rewound(h, ts, removed)
           IN  /\ \E e : /\ Thinned(g, h, e, Stays(h, ts, removed))
                         /\ \A i \in DOMAIN g :
                           /\ g[i].cut = h[e[i]].cut
                           /\ g[i].condenseParent = IF h[e[i]].condenseParent \in OfKind(g, "summary")
                                                    THEN h[e[i]].condenseParent ELSE None
                           /\ g[i].truncationParent = IF h[e[i]].truncationParent \in OfKind(g, "marker")
                                                      THEN h[e[i]].truncationParent ELSE None
               /\ Ids(g) = Ids(Selected(h, Stays(h, ts, removed)))
  <1> DEFINE K == Stays(h, ts, removed)
             left == Selected(h, K)
             g == CleanedUp(left)
  <1>1. Rewound(h, ts, removed) = g
    BY DEF Rewound, Stays
  <1> HIDE DEF K
  <1>2. left \in Seq(Messages)
    BY SelectedSeq
  <1> HIDE DEF left
  <1>3. /\ g \in Seq(Messages) /\ Len(g) = Len(left)
        /\ \A i \in 1 .. Len(left) :
                    /\ Same(g[i], left[i]) /\ g[i].cut = left[i].cut
                    /\ g[i].condenseParent = IF left[i].condenseParent \in OfKind(left, "summary")
                                             THEN left[i].condenseParent ELSE None
                    /\ g[i].truncationParent = IF left[i].truncationParent \in OfKind(left, "marker")
                                               THEN left[i].truncationParent ELSE None
    BY <1>2, CleanedUpDoes
  <1> HIDE DEF g
  <1>4. DOMAIN g = 1 .. Len(left) /\ DOMAIN left = 1 .. Len(left) /\ Len(left) \in Nat
    BY <1>2, <1>3
  <1>5. \A k : OfKind(g, k) = OfKind(left, k)
    <2>1. \A i \in 1 .. Len(left) : g[i].id = left[i].id /\ g[i].kind = left[i].kind
      BY <1>3 DEF Same
    <2> QED
      BY <1>4, <2>1 DEF OfKind
  <1>6. PICK e : Thinned(g, h, e, K) /\ \A i \in DOMAIN g : left[i] = h[e[i]]
    BY <1>3, FilterDerives DEF left
  <1>7. \A i \in DOMAIN g :
                           /\ g[i].cut = h[e[i]].cut
                           /\ g[i].condenseParent = IF h[e[i]].condenseParent \in OfKind(g, "summary")
                                                    THEN h[e[i]].condenseParent ELSE None
                           /\ g[i].truncationParent = IF h[e[i]].truncationParent \in OfKind(g, "marker")
                                                      THEN h[e[i]].truncationParent ELSE None
    BY <1>3, <1>4, <1>5, <1>6
  <1>8. Ids(g) = Ids(left)
    <2>1. \A i \in 1 .. Len(left) : g[i].id = left[i].id
      BY <1>3 DEF Same
    <2> QED
      BY <1>4, <2>1 DEF Ids
  <1> QED
    BY <1>1, <1>6, <1>7, <1>8 DEF left, K

-----------------------------------------------------------------------------
(* What a history always is.  d bounds by how much summaries and markers are  *)
(* set before the time of a message, t is later than all of it, k the number  *)
(* of calls made.                                                             *)

\* A message of the conversation, neither a summary nor a marker.
IsPlain(m) == m.kind = "plain"

\* One message.  A plain one has the time of its saving for its id and tells of
\* itself; a summary or a marker lies at most d before the time of a message.
MessageOK(m, d, t, k) ==
    /\ m.id \in Times /\ 0 < m.id /\ m.id < t
    /\ m.kind = "plain" => m.ts = m.id /\ m.tells = {m.id}
    /\ m.kind # "plain" => m.ts < m.id /\ \E b \in Times : b - d <= m.ts /\ m.ts < b
    /\ m.kind = "summary" => m.role = "assistant" /\ m.results = {}
    /\ m.kind = "marker" => m.role = "user" /\ m.uses = {} /\ m.results = {} /\ m.tells = {}
    /\ m.uses # {} => m.role = "assistant"
    /\ m.results # {} => m.role = "user" /\ m.kind = "plain"
    /\ m.uses \subseteq 1 .. k

\* The tags of one message name what was made earlier, and not itself.
TagOK(m, t) ==
    /\ m.condenseParent < t /\ m.truncationParent < t
    /\ m.id \notin {m.condenseParent, m.truncationParent}
    /\ m.truncationParent # None => m.cut

\* No two messages have one id.
Distinct(h) == \A i, j \in DOMAIN h : i < j => h[i].id # h[j].id

\* Plain messages lie in the order of their times, and summaries and markers
\* between them.
InOrder(h) ==
    \A i, j \in DOMAIN h : i < j /\ (IsPlain(h[i]) \/ IsPlain(h[j])) => h[i].ts < h[j].ts

\* No two answers make the same call.
UsesApart(h) ==
    \A i, j \in DOMAIN h : i < j /\ IsPlain(h[i]) /\ IsPlain(h[j]) => h[i].uses \intersect h[j].uses = {}

\* A summary lies behind everything it hides.
HiddenBefore(h) ==
    \A i, j \in DOMAIN h : h[j].kind = "summary" /\ h[i].condenseParent = h[j].id => i < j

\* A history: the parts together.
HistoryOK(h, d, t, k) ==
    /\ h \in Seq(Messages)
    /\ \A i \in DOMAIN h : MessageOK(h[i], d, t, k) /\ TagOK(h[i], t)
    /\ Distinct(h)
    /\ InOrder(h)
    /\ UsesApart(h)
    /\ BeginsPlain(h)
    /\ HiddenBefore(h)

\* How a new message has to fit in at position p.
FitsAt(g, p) ==
    /\ \A i \in DOMAIN g : i < p /\ (IsPlain(g[i]) \/ IsPlain(g[p])) => g[i].ts < g[p].ts
    /\ \A i \in DOMAIN g : i > p /\ (IsPlain(g[i]) \/ IsPlain(g[p])) => g[p].ts < g[i].ts
    /\ \A i \in DOMAIN g : i # p /\ IsPlain(g[i]) /\ IsPlain(g[p]) => g[i].uses \intersect g[p].uses = {}

\* As time goes by, the bounds grow.
LEMMA MessageLater ==
    ASSUME NEW x \in Messages, NEW y \in Messages, NEW d \in Int, NEW t \in Nat, NEW k \in Nat,
           NEW d2 \in Int, NEW t2 \in Nat, NEW k2 \in Nat, d <= d2, t <= t2, k <= k2,
           MessageOK(y, d, t, k), Same(x, y)
    PROVE  MessageOK(x, d2, t2, k2)
  <1>1. Times \subseteq Nat /\ y.ts \in Int /\ y.id \in Nat
    BY TimesApart, MessageFields
  <1>2. 1 .. k \subseteq 1 .. k2
    OBVIOUS
  <1>3. y.kind # "plain" => \E b \in Times : b - d2 <= y.ts /\ y.ts < b
    <2> SUFFICES ASSUME y.kind # "plain" PROVE \E b \in Times : b - d2 <= y.ts /\ y.ts < b
      OBVIOUS
    <2>1. PICK b \in Times : b - d <= y.ts /\ y.ts < b
      BY DEF MessageOK
    <2>2. b \in Nat
      BY <1>1
    <2>3. b - d2 <= y.ts
      BY <1>1, <2>1, <2>2
    <2> QED
      BY <2>1, <2>3
  <1>4. y.id < t2
    BY <1>1 DEF MessageOK
  <1>5. y.uses \subseteq 1 .. k2
    BY <1>2 DEF MessageOK
  <1> QED
    BY <1>3, <1>4, <1>5 DEF MessageOK, Same

\* Tags stay right as time goes on.
LEMMA TagLater ==
    ASSUME NEW m \in Messages, NEW t \in Nat, NEW t2 \in Nat, t <= t2, TagOK(m, t)
    PROVE  TagOK(m, t2)
  BY MessageFields DEF TagOK

\* A history stays one as time goes on.
LEMMA HistoryLater ==
    ASSUME NEW h, NEW d \in Int, NEW t \in Nat, NEW k \in Nat, HistoryOK(h, d, t, k),
           NEW d2 \in Int, NEW t2 \in Nat, NEW k2 \in Nat, d <= d2, t <= t2, k <= k2
    PROVE  HistoryOK(h, d2, t2, k2)
  <1>1. ASSUME NEW i \in DOMAIN h PROVE MessageOK(h[i], d2, t2, k2) /\ TagOK(h[i], t2)
    <2>1. h[i] \in Messages /\ MessageOK(h[i], d, t, k) /\ TagOK(h[i], t) /\ Same(h[i], h[i])
      BY DEF HistoryOK, Same
    <2> QED
      BY <2>1, MessageLater, TagLater
  <1> QED
    BY <1>1 DEF HistoryOK

\* What a history is passes on to one made from it, if the new message fits.
LEMMA DerivedOK ==
    ASSUME NEW h, NEW d \in Int, NEW t \in Nat, NEW k \in Nat, HistoryOK(h, d, t, k),
           NEW d2 \in Int, NEW t2 \in Nat, NEW k2 \in Nat, d <= d2, t <= t2, k <= k2,
           NEW g, NEW o, NEW p \in Nat, Derived(g, h, o, p),
           \A i \in DOMAIN g : i # p => TagOK(g[i], t2),
           p \in DOMAIN g => /\ MessageOK(g[p], d2, t2, k2) /\ TagOK(g[p], t2)
                             /\ t <= g[p].id /\ FitsAt(g, p),
           BeginsPlain(g), HiddenBefore(g)
    PROVE  HistoryOK(g, d2, t2, k2)
  <1>1. g \in Seq(Messages) /\ h \in Seq(Messages) /\ DOMAIN g \subseteq Nat
    BY DEF Derived, HistoryOK
  <1>2. ASSUME NEW i \in DOMAIN g, i # p
        PROVE  /\ o[i] \in DOMAIN h /\ Same(g[i], h[o[i]]) /\ g[i] \in Messages /\ h[o[i]] \in Messages
               /\ MessageOK(h[o[i]], d, t, k)
    <2>1. o[i] \in DOMAIN h /\ Same(g[i], h[o[i]])
      BY <1>2 DEF Derived
    <2> QED
      BY <1>1, <2>1 DEF HistoryOK
  <1>3. \A i, j \in DOMAIN g : i < j /\ i # p /\ j # p => o[i] < o[j]
    BY DEF Derived
  <1>4. ASSUME NEW i \in DOMAIN g PROVE MessageOK(g[i], d2, t2, k2) /\ TagOK(g[i], t2)
    <2>1. CASE i = p
      BY <2>1
    <2>2. CASE i # p
      <3>1. MessageOK(g[i], d2, t2, k2)
        BY <1>2, <2>2, MessageLater
      <3> QED
        BY <2>2, <3>1
    <2> QED
      BY <2>1, <2>2
  <1>5. \A i \in DOMAIN g : i # p => g[i].id < t /\ g[i].id \in Nat
    <2> SUFFICES ASSUME NEW i \in DOMAIN g, i # p PROVE g[i].id < t /\ g[i].id \in Nat
      OBVIOUS
    <2>1. h[o[i]].id < t /\ g[i].id = h[o[i]].id
      BY <1>2 DEF MessageOK, Same
    <2> QED
      BY <1>2, <2>1, MessageFields
  <1>6. Distinct(g)
    <2> SUFFICES ASSUME NEW i \in DOMAIN g, NEW j \in DOMAIN g, i < j PROVE g[i].id # g[j].id
      BY DEF Distinct
    <2>1. CASE i # p /\ j # p
      <3>1. o[i] < o[j] /\ o[i] \in DOMAIN h /\ o[j] \in DOMAIN h
        BY <1>2, <1>3, <2>1
      <3>2. h[o[i]].id # h[o[j]].id
        BY <3>1 DEF HistoryOK, Distinct
      <3> QED
        BY <1>2, <2>1, <3>2 DEF Same
    <2>2. CASE i = p
      BY <1>1, <1>5, <2>2
    <2>3. CASE j = p
      BY <1>1, <1>5, <2>3
    <2> QED
      BY <2>1, <2>2, <2>3
  <1>7. InOrder(g)
    <2> SUFFICES ASSUME NEW i \in DOMAIN g, NEW j \in DOMAIN g, i < j,
                        IsPlain(g[i]) \/ IsPlain(g[j])
                 PROVE  g[i].ts < g[j].ts
      BY DEF InOrder
    <2>1. CASE i # p /\ j # p
      <3>1. o[i] < o[j] /\ o[i] \in DOMAIN h /\ o[j] \in DOMAIN h
        BY <1>2, <1>3, <2>1
      <3>2. IsPlain(h[o[i]]) \/ IsPlain(h[o[j]])
        BY <1>2, <2>1 DEF Same, IsPlain
      <3>3. h[o[i]].ts < h[o[j]].ts
        BY <3>1, <3>2 DEF HistoryOK, InOrder
      <3> QED
        BY <1>2, <2>1, <3>3 DEF Same
    <2>2. CASE i = p
      BY <1>1, <2>2 DEF FitsAt
    <2>3. CASE j = p
      BY <1>1, <2>3 DEF FitsAt
    <2> QED
      BY <2>1, <2>2, <2>3
  <1>8. UsesApart(g)
    <2> SUFFICES ASSUME NEW i \in DOMAIN g, NEW j \in DOMAIN g, i < j,
                        IsPlain(g[i]), IsPlain(g[j])
                 PROVE  g[i].uses \intersect g[j].uses = {}
      BY DEF UsesApart
    <2>1. CASE i # p /\ j # p
      <3>1. o[i] < o[j] /\ o[i] \in DOMAIN h /\ o[j] \in DOMAIN h
        BY <1>2, <1>3, <2>1
      <3>2. IsPlain(h[o[i]]) /\ IsPlain(h[o[j]])
        BY <1>2, <2>1 DEF Same, IsPlain
      <3>3. h[o[i]].uses \intersect h[o[j]].uses = {}
        BY <3>1, <3>2 DEF HistoryOK, UsesApart
      <3> QED
        BY <1>2, <2>1, <3>3 DEF Same
    <2>2. CASE i = p
      <3>1. j # p
        BY <1>1, <2>2
      <3> QED
        BY <2>2, <3>1 DEF FitsAt
    <2>3. CASE j = p
      <3>1. i # p
        BY <1>1, <2>3
      <3> QED
        BY <2>3, <3>1 DEF FitsAt
    <2> QED
      BY <2>1, <2>2, <2>3
  <1> QED
    BY <1>1, <1>4, <1>6, <1>7, <1>8 DEF HistoryOK

-----------------------------------------------------------------------------
(* Every operation makes a history of a history. *)

\* Every message where it was.
Itself == [i \in Nat |-> i]

\* A message that is saved at time t.
Saved(x, t, k) ==
    /\ x \in Messages /\ MessageOK(x, 0, t + Gap, k) /\ IsPlain(x) /\ x.id = t
    /\ x.condenseParent = None /\ x.truncationParent = None /\ x.cut = FALSE

\* Appending a message to a history.
LEMMA AppendDerives ==
    ASSUME NEW h \in Seq(Messages), NEW x \in Messages
    PROVE  LET g == Append(h, x)
           IN  /\ Derived(g, h, Itself, Len(h) + 1)
               /\ DOMAIN g = 1 .. Len(h) + 1 /\ g[Len(h) + 1] = x
               /\ \A i \in 1 .. Len(h) : g[i] = h[i] /\ Itself[i] = i
  <1> DEFINE g == Append(h, x)
  <1>1. /\ g \in Seq(Messages) /\ Len(g) = Len(h) + 1 /\ DOMAIN g = 1 .. Len(h) + 1
        /\ g[Len(h) + 1] = x /\ \A i \in 1 .. Len(h) : g[i] = h[i]
        /\ DOMAIN h = 1 .. Len(h) /\ Len(h) \in Nat
    OBVIOUS
  <1> HIDE DEF g
  <1>2. \A i \in DOMAIN g : Itself[i] = i
    BY <1>1 DEF Itself
  <1>3. \A i \in DOMAIN g : i # Len(h) + 1 => i \in 1 .. Len(h)
    BY <1>1
  <1>4. Derived(g, h, Itself, Len(h) + 1)
    BY <1>1, <1>2, <1>3 DEF Derived, Same
  <1> QED
    BY <1>1, <1>2, <1>4 DEF g

\* Saving a message keeps the form of a history.
LEMMA AppendedOK ==
    ASSUME NEW h, NEW d \in Int, NEW t \in Times, NEW k \in Nat, HistoryOK(h, d, t, k), 0 <= d,
           NEW x, Saved(x, t, k), h = <<>> => x.role = "user",
           \A i \in DOMAIN h : IsPlain(h[i]) => h[i].uses \intersect x.uses = {}
    PROVE  HistoryOK(Append(h, x), d, t + Gap, k)
  <1> DEFINE g == Append(h, x)
             p == Len(h) + 1
  <1>1. h \in Seq(Messages) /\ x \in Messages /\ Len(h) \in Nat /\ DOMAIN h = 1 .. Len(h)
    BY DEF HistoryOK, Saved
  <1>2. /\ Derived(g, h, Itself, p) /\ DOMAIN g = 1 .. Len(h) + 1 /\ g[p] = x
        /\ \A i \in 1 .. Len(h) : g[i] = h[i] /\ Itself[i] = i
    BY <1>1, AppendDerives
  <1> HIDE DEF g
  <1>3. t \in Nat /\ t + Gap \in Nat /\ t <= t + Gap /\ Gap >= 2
    BY TimesApart, GapNat
  <1>4. \A i \in DOMAIN g : i # p => i \in DOMAIN h /\ g[i] = h[i]
    BY <1>1, <1>2
  <1>5. \A i \in DOMAIN g : i # p => TagOK(g[i], t + Gap)
    <2> SUFFICES ASSUME NEW i \in DOMAIN g, i # p PROVE TagOK(g[i], t + Gap)
      OBVIOUS
    <2>1. h[i] \in Messages /\ TagOK(h[i], t) /\ g[i] = h[i]
      BY <1>1, <1>4 DEF HistoryOK
    <2> QED
      BY <1>3, <2>1, TagLater
  <1>6. MessageOK(x, d, t + Gap, k)
    <2>1. MessageOK(x, 0, t + Gap, k) /\ Same(x, x)
      BY DEF Saved, Same
    <2> DEFINE u == t + Gap
    <2>2. u \in Nat /\ u <= u /\ 0 \in Int /\ k <= k
      BY <1>3
    <2> HIDE DEF u
    <2>3. MessageOK(x, 0, u, k)
      BY <2>1 DEF u
    <2>4. MessageOK(x, d, u, k)
      BY <1>1, <2>1, <2>2, <2>3, MessageLater
    <2> QED
      BY <2>4 DEF u
  <1>7. TagOK(x, t + Gap)
    <2>1. x.condenseParent = 0 /\ x.truncationParent = 0 /\ x.id = t /\ 0 < x.id
      BY DEF Saved, None, MessageOK
    <2> QED
      BY <1>3, <2>1 DEF TagOK, None
  <1>8. FitsAt(g, p)
    <2>1. ASSUME NEW i \in DOMAIN g, i < p PROVE g[i].ts < g[p].ts
      <3>1. g[i] = h[i] /\ h[i] \in Messages /\ MessageOK(h[i], d, t, k)
        BY <1>1, <1>2, <1>4, <2>1 DEF HistoryOK
      <3>2. h[i].ts <= h[i].id /\ h[i].id < t
        BY <3>1, MessageFields DEF MessageOK
      <3>3. x.ts = t
        BY DEF Saved, MessageOK, IsPlain
      <3>4. h[i].ts \in Int /\ h[i].id \in Nat
        BY <3>1, MessageFields
      <3> QED
        BY <1>2, <1>3, <3>1, <3>2, <3>3, <3>4
    <2>2. ~ \E i \in DOMAIN g : i > p
      BY <1>1, <1>2
    <2>3. \A i \in DOMAIN g : i # p /\ IsPlain(g[i]) => g[i].uses \intersect g[p].uses = {}
      BY <1>2, <1>4
    <2> QED
      BY <2>1, <2>2, <2>3 DEF FitsAt
  <1>9. BeginsPlain(g)
    <2>1. CASE h = <<>>
      <3>1. g[1] = x
        BY <1>2, <2>1
      <3> QED
        BY <2>1, <3>1 DEF BeginsPlain, Saved, IsPlain
    <2>2. CASE h # <<>>
      <3>1. 1 \in 1 .. Len(h)
        BY <1>1, <2>2
      <3>2. g[1] = h[1]
        BY <1>2, <3>1
      <3> QED
        BY <2>2, <3>2 DEF BeginsPlain, HistoryOK
    <2> QED
      BY <2>1, <2>2
  <1>10. HiddenBefore(g)
    <2> SUFFICES ASSUME NEW i \in DOMAIN g, NEW j \in DOMAIN g, g[j].kind = "summary",
                        g[i].condenseParent = g[j].id
                 PROVE  i < j
      BY DEF HiddenBefore
    <2>1. j # p
      BY <1>2 DEF Saved, IsPlain
    <2>2. j \in DOMAIN h /\ g[j] = h[j] /\ 0 < h[j].id
      BY <1>4, <2>1 DEF HistoryOK, MessageOK
    <2>3. i # p
      BY <1>2, <2>2 DEF Saved, None
    <2> QED
      BY <1>4, <2>2, <2>3 DEF HistoryOK, HiddenBefore
  <1>11. t <= g[p].id /\ p \in Nat /\ g[p] = x
    BY <1>1, <1>2, <1>3 DEF Saved
  <1>12. \A i \in DOMAIN g : i # p => TagOK(g[i], t + Gap)
    BY <1>5
  <1> HIDE DEF p
  <1>13. HistoryOK(g, d, t + Gap, k)
    BY <1>2, <1>3, <1>6, <1>7, <1>8, <1>9, <1>10, <1>11, <1>12, DerivedOK
  <1> QED
    BY <1>13 DEF g

\* A message set just before the p-th, which does not end a turn, fits in.
LEMMA SetBefore ==
    ASSUME NEW h, NEW d \in Nat, NEW t \in Times, NEW k \in Nat, HistoryOK(h, d, t, k),
           d <= MaxReductions,
           NEW g, NEW p \in 2 .. Len(h), Derived(g, h, Shift(p), p),
           DOMAIN g = 1 .. Len(h) + 1,
           \A i \in DOMAIN g : i < p => Shift(p)[i] = i,
           \A i \in DOMAIN g : i > p => Shift(p)[i] = i - 1,
           ~ IsPlain(g[p]), g[p].ts = h[p].ts - 1
    PROVE  /\ FitsAt(g, p)
           /\ g[p].ts < t /\ \E b \in Times : b - (d + 1) <= g[p].ts /\ g[p].ts < b
  <1>1. h \in Seq(Messages) /\ Len(h) \in Nat /\ DOMAIN h = 1 .. Len(h) /\ p \in DOMAIN h /\ p \in DOMAIN g
    BY DEF HistoryOK
  <1>2. Times \subseteq Nat /\ \A a, b \in Times : a < b => a + Gap <= b
    BY TimesApart
  <1>3. Gap \in Nat /\ Gap = MaxReductions + 2 /\ MaxReductions \in Nat
    BY GapNat
  <1>4. /\ h[p] \in Messages /\ MessageOK(h[p], d, t, k) /\ h[p].ts \in Int /\ h[p].id \in Nat
        /\ t \in Nat
    BY <1>1, <1>2, MessageFields DEF HistoryOK
  \* the time of a message, at most d before which the p-th is set
  <1>5. PICK b \in Times : h[p].ts <= b /\ b - d <= h[p].ts /\ (IsPlain(h[p]) => h[p].ts = b) /\ (~ IsPlain(h[p]) => h[p].ts < b)
    <2>1. CASE IsPlain(h[p])
      <3>1. h[p].ts = h[p].id /\ h[p].id \in Times
        BY <1>4, <2>1 DEF MessageOK, IsPlain
      <3>2. h[p].ts \in Times /\ h[p].ts <= h[p].ts /\ h[p].ts - d <= h[p].ts
        BY <1>4, <3>1
      <3> QED
        BY <2>1, <3>2
    <2>2. CASE ~ IsPlain(h[p])
      <3>1. PICK b \in Times : b - d <= h[p].ts /\ h[p].ts < b
        BY <1>4, <2>2 DEF MessageOK, IsPlain
      <3>2. b \in Int /\ h[p].ts \in Int
        BY <1>2, <1>4
      <3>3. h[p].ts <= b
        BY <3>1, <3>2
      <3> QED
        BY Zenon, <2>2, <3>1, <3>3
    <2> QED
      BY <2>1, <2>2
  <1>6. b \in Nat
    BY <1>2
  <1>7. g[p].ts < b /\ b - (d + 1) <= g[p].ts
    BY <1>4, <1>5, <1>6
  <1>8. g[p].ts < t
    <2>1. h[p].ts <= h[p].id /\ h[p].id < t
      BY <1>4 DEF MessageOK
    <2> QED
      BY <1>4, <2>1
  <1>9. ASSUME NEW i \in DOMAIN g, i < p, IsPlain(g[i]) PROVE g[i].ts < g[p].ts
    <2>1. i \in DOMAIN h /\ Same(g[i], h[i])
      <3>1. i # p /\ Shift(p)[i] = i
        BY <1>9, <1>1
      <3> QED
        BY <3>1 DEF Derived
    <2>2. IsPlain(h[i]) /\ h[i].ts < h[p].ts /\ g[i].ts = h[i].ts
      BY <1>1, <1>9, <2>1 DEF Same, IsPlain, HistoryOK, InOrder
    <2>3. h[i].ts \in Times
      BY <2>1, <2>2 DEF HistoryOK, MessageOK, IsPlain
    <2>5. h[i].ts \in Nat
      BY <1>2, <2>3
    <2>4. h[i].ts + Gap <= b
      <3>1. h[i].ts < b
        BY <1>4, <1>5, <1>6, <2>2, <2>5, SMTT(20)
      <3> QED
        BY <1>2, <2>3, <3>1
    <2>6. g[p].ts = h[p].ts - 1 /\ d <= MaxReductions /\ d \in Nat
      OBVIOUS
    <2>7. b - d <= h[p].ts
      BY <1>5
    <2>8. h[i].ts < h[p].ts - 1
      <3> DEFINE x == h[i].ts
                 y == h[p].ts
      <3>1. x \in Int /\ y \in Int /\ b \in Int /\ Gap \in Int /\ MaxReductions \in Int /\ d \in Int
        BY <1>3, <1>4, <1>6, <2>5
      <3>2. x + Gap <= b /\ b - d <= y /\ d <= MaxReductions /\ Gap = MaxReductions + 2
        BY <1>3, <2>4, <2>6, <2>7
      <3> HIDE DEF x, y
      <3>3. x < y - 1
        BY <3>1, <3>2, SMTT(20)
      <3> QED
        BY <3>3 DEF x, y
    <2> QED
      BY <2>2, <2>6, <2>8
  <1>10. ASSUME NEW i \in DOMAIN g, i > p, IsPlain(g[i]) PROVE g[p].ts < g[i].ts
    <2>1. i - 1 \in DOMAIN h /\ Same(g[i], h[i - 1])
      <3>1. i # p /\ Shift(p)[i] = i - 1
        BY <1>10, <1>1
      <3> QED
        BY <3>1 DEF Derived
    <2>2. IsPlain(h[i - 1]) /\ g[i].ts = h[i - 1].ts /\ h[i - 1].ts \in Int
      BY <1>1, <1>10, <2>1, MessageFields DEF Same, IsPlain
    <2>3. CASE i - 1 = p
      BY <1>4, <2>2, <2>3
    <2>4. CASE i - 1 # p
      <3>1. p < i - 1
        BY <1>1, <1>10, <2>4
      <3>2. h[p].ts < h[i - 1].ts
        BY <1>1, <2>1, <2>2, <3>1 DEF HistoryOK, InOrder
      <3> QED
        BY <1>4, <2>2, <3>2, SMTT(20)
    <2> QED
      BY <2>3, <2>4
  <1>11. FitsAt(g, p)
    BY <1>9, <1>10 DEF FitsAt
  <1> QED
    BY <1>7, <1>8, <1>11

\* In a history summaries are the assistant's.
LEMMA SummariesAnswerOK ==
    ASSUME NEW h, NEW d, NEW t, NEW k, HistoryOK(h, d, t, k)
    PROVE  SummariesAnswer(h)
  BY DEF HistoryOK, MessageOK, SummariesAnswer

\* Condensing keeps the form of a history.
LEMMA CondensedOK ==
    ASSUME NEW h, NEW d \in Nat, now \in Times, NEW k \in Nat, HistoryOK(h, d, now, k),
           d <= MaxReductions, CanCondense(h)
    PROVE  HistoryOK(Condensed(h), d + 1, now + Gap, k)
  <1> DEFINE g == Condensed(h)
             K == KeepStart(h)
             p == K + 1
             o == Shift(p)
  <1>1. /\ h \in Seq(Messages) /\ Len(h) \in Nat /\ DOMAIN h = 1 .. Len(h) /\ SummariesAnswer(h)
        /\ \A i \in DOMAIN h : MessageOK(h[i], d, now, k) /\ TagOK(h[i], now) /\ h[i] \in Messages
    <2>1. SummariesAnswer(h)
      BY SummariesAnswerOK
    <2> QED
      BY <2>1 DEF HistoryOK
  <1>2. now \in Nat /\ now + Gap \in Nat /\ now <= now + Gap /\ now < now + Gap /\ Times \subseteq Nat
    BY TimesApart, GapNat
  <1>3. /\ Derived(g, h, o, p)
        /\ DOMAIN g = 1 .. Len(h) + 1 /\ p \in 2 .. Len(h)
        /\ g[p] = Summary(h)
        /\ \A i \in DOMAIN g : i < p => o[i] = i
        /\ \A i \in DOMAIN g : i > p => o[i] = i - 1
        /\ \A i \in DOMAIN g : i # p =>
               /\ g[i].truncationParent = h[o[i]].truncationParent
               /\ g[i].cut = h[o[i]].cut
               /\ g[i].condenseParent = IF o[i] = 1 \/ o[i] >= p \/ h[o[i]].condenseParent # None
                                        THEN h[o[i]].condenseParent ELSE now
    BY <1>1, <1>2, CondensedDoes
  <1>4. /\ Summary(h) \in Messages
        /\ Summary(h).id = now /\ Summary(h).ts = h[p].ts - 1
        /\ Summary(h).role = "assistant" /\ Summary(h).kind = "summary"
        /\ Summary(h).uses = CallsToPreserve(h) /\ Summary(h).results = {}
        /\ Summary(h).condenseParent = 0 /\ Summary(h).truncationParent = 0
    BY <1>1, <1>2, SummaryIs DEF None
  <1>5. CallsToPreserve(h) \subseteq 1 .. k
    <2>1. Len(h) > 3 /\ K \in 1 .. Len(h)
      BY <1>1, CanCondenseWhen
    <2>2. \A u \in CallsToPreserve(h) : \E i \in 1 .. K : u \in h[i].uses
      BY <1>1, <2>1, CallsToPreserveIs
    <2>3. \A i \in 1 .. K : h[i].uses \subseteq 1 .. k
      BY <1>1, <2>1 DEF MessageOK
    <2> QED
      BY <2>2, <2>3
  <1>6. 0 < now
    <2>1. h[p].id < now /\ 0 < h[p].id /\ h[p].id \in Nat
      BY <1>1, <1>3, MessageFields DEF MessageOK
    <2> QED
      BY <1>2, <2>1
  <1> HIDE DEF g, p, o
  <1>7. FitsAt(g, p) /\ g[p].ts < now /\ \E b \in Times : b - (d + 1) <= g[p].ts /\ g[p].ts < b
    <2>1. ~ IsPlain(g[p]) /\ g[p].ts = h[p].ts - 1
      BY <1>3, <1>4 DEF IsPlain
    <2>2. \A i \in DOMAIN g : i < p => Shift(p)[i] = i
      BY <1>3 DEF o
    <2>3. \A i \in DOMAIN g : i > p => Shift(p)[i] = i - 1
      BY <1>3 DEF o
    <2>4. Derived(g, h, Shift(p), p) /\ p \in 2 .. Len(h) /\ DOMAIN g = 1 .. Len(h) + 1
      BY <1>3 DEF o
    <2> QED
      BY <2>1, <2>2, <2>3, <2>4, SetBefore
  <1>8. MessageOK(g[p], d + 1, now + Gap, k) /\ TagOK(g[p], now + Gap) /\ now <= g[p].id
    <2>1. now \in Times /\ 0 < now /\ g[p].id = now /\ now < now + Gap
      BY <1>2, <1>3, <1>4, <1>6
    <2>2. g[p].kind = "summary" /\ g[p].role = "assistant" /\ g[p].results = {} /\ g[p].uses \subseteq 1 .. k
      BY <1>3, <1>4, <1>5
    <2>3. MessageOK(g[p], d + 1, now + Gap, k)
      BY <1>7, <2>1, <2>2 DEF MessageOK
    <2>4. TagOK(g[p], now + Gap)
      BY <1>2, <1>3, <1>4, <1>6 DEF TagOK, None
    <2> QED
      BY <1>2, <2>1, <2>3, <2>4
  <1>9. \A i \in DOMAIN g : i # p => o[i] \in DOMAIN h /\ Same(g[i], h[o[i]])
    BY <1>3 DEF Derived
  <1>10. ASSUME NEW i \in DOMAIN g, i # p PROVE TagOK(g[i], now + Gap)
    <2>1. /\ o[i] \in DOMAIN h /\ g[i].id = h[o[i]].id
          /\ TagOK(h[o[i]], now) /\ h[o[i]].id < now /\ h[o[i]] \in Messages
      BY <1>1, <1>9, <1>10 DEF Same, MessageOK
    <2>2. /\ h[o[i]].condenseParent \in Nat /\ h[o[i]].truncationParent \in Nat /\ h[o[i]].id \in Nat
      BY <2>1, MessageFields
    <2>3. g[i].truncationParent = h[o[i]].truncationParent /\ g[i].cut = h[o[i]].cut
      BY <1>3, <1>10
    <2>4. g[i].condenseParent = h[o[i]].condenseParent \/ g[i].condenseParent = now
      BY <1>3, <1>10
    <2> QED
      BY <1>2, <2>1, <2>2, <2>3, <2>4 DEF TagOK
  <1>11. BeginsPlain(g)
    <2>1. 1 \in DOMAIN g /\ 1 # p /\ o[1] = 1 /\ h # <<>>
      BY <1>1, <1>3
    <2>2. Same(g[1], h[1]) /\ g[1].condenseParent = h[1].condenseParent
          /\ g[1].truncationParent = h[1].truncationParent
      BY <1>3, <1>9, <2>1
    <2> QED
      BY <2>1, <2>2 DEF BeginsPlain, HistoryOK, Same
  <1>12. HiddenBefore(g)
    <2> SUFFICES ASSUME NEW i \in DOMAIN g, NEW j \in DOMAIN g, g[j].kind = "summary",
                        g[i].condenseParent = g[j].id
                 PROVE  i < j
      BY DEF HiddenBefore
    <2>0. i \in Nat /\ j \in Nat /\ p \in Nat
      BY <1>3
    <2>1. i # p
      <3>1. g[j].id # 0
        <4>1. CASE j = p
          BY <1>3, <1>4, <1>6, <4>1
        <4>2. CASE j # p
          BY <1>1, <1>9, <4>2 DEF MessageOK, Same
        <4> QED
          BY <4>1, <4>2
      <3> QED
        BY <1>3, <1>4, <3>1
    <2>2. o[i] \in DOMAIN h /\ TagOK(h[o[i]], now) /\ h[o[i]] \in Messages
      BY <1>1, <1>9, <2>1
    <2>3. CASE j = p
      <3>1. g[i].condenseParent = now
        BY <1>3, <1>4, <2>3
      <3>2. h[o[i]].condenseParent < now /\ h[o[i]].condenseParent \in Nat
        BY <2>2, MessageFields DEF TagOK
      <3>3. o[i] < p
        <4>1. ~ (o[i] = 1 \/ o[i] >= p \/ h[o[i]].condenseParent # None)
          BY <1>2, <1>3, <2>1, <3>1, <3>2
        <4>2. o[i] \in Nat
          BY <1>1, <2>2
        <4> QED
          BY <2>0, <4>1, <4>2
      <3>4. CASE i > p
        <4>1. o[i] = i - 1
          BY <1>3, <3>4
        <4> QED
          BY <2>0, <3>3, <3>4, <4>1
      <3> QED
        BY <2>0, <2>1, <2>3, <3>4
    <2>4. CASE j # p
      <3>1. o[j] \in DOMAIN h /\ h[o[j]].kind = "summary" /\ h[o[j]].id = g[j].id
            /\ h[o[j]].id < now /\ h[o[j]].id \in Nat
        BY <1>1, <1>9, <2>4, MessageFields DEF Same, MessageOK
      <3>2. g[i].condenseParent = h[o[i]].condenseParent
        BY <1>2, <1>3, <2>1, <3>1
      <3>3. o[i] < o[j]
        BY <2>2, <3>1, <3>2 DEF HistoryOK, HiddenBefore
      <3>4. j < i => o[j] < o[i]
        BY <1>3, <2>1, <2>4 DEF Derived
      <3>5. o[i] \in Nat /\ o[j] \in Nat
        BY <1>1, <2>2, <3>1
      <3>6. i # j
        BY <3>3, <3>5
      <3> QED
        BY <2>0, <3>3, <3>4, <3>5, <3>6
    <2> QED
      BY <2>3, <2>4
  <1>13. p \in Nat /\ d \in Int /\ d + 1 \in Int /\ d <= d + 1 /\ k <= k
    BY <1>3
  <1>14. HistoryOK(g, d + 1, now + Gap, k)
    <2> DEFINE t2 == now + Gap
               d2 == d + 1
    <2>1. t2 \in Nat /\ now <= t2 /\ d2 \in Int /\ d <= d2
      BY <1>2, <1>13
    <2>2. \A i \in DOMAIN g : i # p => TagOK(g[i], t2)
      BY <1>10
    <2>3. MessageOK(g[p], d2, t2, k) /\ TagOK(g[p], t2)
      BY <1>8
    <2> HIDE DEF t2, d2
    <2>4. HistoryOK(g, d2, t2, k)
      BY <1>2, <1>3, <1>7, <1>8, <1>11, <1>12, <1>13, <2>1, <2>2, <2>3, DerivedOK
    <2> QED
      BY <2>4 DEF t2, d2
  <1> QED
    BY <1>14 DEF g

\* Truncating keeps the form of a history.
LEMMA TruncatedOK ==
    ASSUME NEW h, NEW d \in Nat, now \in Times, NEW k \in Nat, HistoryOK(h, d, now, k),
           d <= MaxReductions
    PROVE  HistoryOK(Truncated(h), d + 1, now + Gap, k)
  <1> DEFINE g == Truncated(h)
             p == MarkerAt(h)
             o == Shift(p)
  <1>1. /\ h \in Seq(Messages) /\ Len(h) \in Nat /\ DOMAIN h = 1 .. Len(h) /\ BeginsPlain(h)
        /\ \A i \in DOMAIN h : MessageOK(h[i], d, now, k) /\ TagOK(h[i], now) /\ h[i] \in Messages
    BY DEF HistoryOK
  <1>2. now \in Nat /\ now + Gap \in Nat /\ now <= now + Gap /\ now < now + Gap /\ Times \subseteq Nat
    BY TimesApart, GapNat
  <1>3. CASE g = h
    <2> DEFINE t2 == now + Gap
               d2 == d + 1
    <2>1. t2 \in Nat /\ now <= t2 /\ d2 \in Int /\ d <= d2 /\ k <= k /\ d \in Int
      BY <1>2
    <2> HIDE DEF t2, d2
    <2>2. HistoryOK(h, d2, t2, k)
      BY <1>2, <2>1, HistoryLater
    <2> QED
      BY <1>3, <2>2 DEF t2, d2
  <1>4. CASE g # h
    <2>1. /\ p \in 2 .. Len(h) /\ Seen(h, p)
          /\ Derived(g, h, o, p)
          /\ DOMAIN g = 1 .. Len(h) + 1
          /\ g[p] = Marker(h, p)
          /\ \A i \in DOMAIN g : i < p => o[i] = i
          /\ \A i \in DOMAIN g : i > p => o[i] = i - 1
          /\ \A i \in DOMAIN g : i # p =>
              /\ g[i].condenseParent = h[o[i]].condenseParent
              /\ IF o[i] \in 2 .. p - 1 /\ Seen(h, o[i])
                 THEN g[i].truncationParent = now /\ g[i].cut = TRUE
                 ELSE /\ g[i].truncationParent = h[o[i]].truncationParent
                      /\ g[i].cut = h[o[i]].cut
      BY <1>1, <1>2, <1>4, TruncatedDoes
    <2> HIDE DEF g, p
    <2>2. /\ Marker(h, p) \in Messages
          /\ Marker(h, p).id = now /\ Marker(h, p).ts = h[p].ts - 1
          /\ Marker(h, p).role = "user" /\ Marker(h, p).kind = "marker"
          /\ Marker(h, p).uses = {} /\ Marker(h, p).results = {} /\ Marker(h, p).tells = {}
          /\ Marker(h, p).condenseParent = 0 /\ Marker(h, p).truncationParent = 0
      <3>1. p \in 1 .. Len(h)
        BY <2>1
      <3> QED
        BY <1>1, <1>2, <3>1, MarkerIs DEF None
    <2>3. 0 < now
      <3>1. h[p].id < now /\ 0 < h[p].id /\ h[p].id \in Nat
        BY <1>1, <2>1, MessageFields, SMTT(20) DEF MessageOK
      <3> QED
        BY <1>2, <3>1
    <2> HIDE DEF o
    <2>4. FitsAt(g, p) /\ g[p].ts < now /\ \E b \in Times : b - (d + 1) <= g[p].ts /\ g[p].ts < b
      <3>1. ~ IsPlain(g[p]) /\ g[p].ts = h[p].ts - 1
        BY <2>1, <2>2 DEF IsPlain
      <3>2. \A i \in DOMAIN g : i < p => Shift(p)[i] = i
        BY <2>1 DEF o
      <3>3. \A i \in DOMAIN g : i > p => Shift(p)[i] = i - 1
        BY <2>1 DEF o
      <3>4. Derived(g, h, Shift(p), p) /\ p \in 2 .. Len(h) /\ DOMAIN g = 1 .. Len(h) + 1
        BY <2>1 DEF o
      <3> QED
        BY <3>1, <3>2, <3>3, <3>4, SetBefore
    <2>5. MessageOK(g[p], d + 1, now + Gap, k) /\ TagOK(g[p], now + Gap) /\ now <= g[p].id
      <3>1. now \in Times /\ 0 < now /\ g[p].id = now /\ now < now + Gap
        BY <1>2, <2>1, <2>2, <2>3
      <3>2. /\ g[p].kind = "marker" /\ g[p].role = "user" /\ g[p].results = {} /\ g[p].uses = {}
            /\ g[p].tells = {}
        BY <2>1, <2>2
      <3>3. MessageOK(g[p], d + 1, now + Gap, k)
        BY <2>4, <3>1, <3>2 DEF MessageOK
      <3>4. TagOK(g[p], now + Gap)
        BY <1>2, <2>1, <2>2, <2>3 DEF TagOK, None
      <3> QED
        BY <1>2, <3>1, <3>3, <3>4
    <2>6. \A i \in DOMAIN g : i # p => o[i] \in DOMAIN h /\ Same(g[i], h[o[i]])
      BY <2>1 DEF Derived
    <2>7. ASSUME NEW i \in DOMAIN g, i # p PROVE TagOK(g[i], now + Gap)
      <3>1. /\ o[i] \in DOMAIN h /\ g[i].id = h[o[i]].id
            /\ TagOK(h[o[i]], now) /\ h[o[i]].id < now /\ h[o[i]] \in Messages
        BY <1>1, <2>6, <2>7 DEF Same, MessageOK
      <3>2. /\ h[o[i]].condenseParent \in Nat /\ h[o[i]].truncationParent \in Nat /\ h[o[i]].id \in Nat
        BY <3>1, MessageFields
      <3>3. g[i].condenseParent = h[o[i]].condenseParent
        BY <2>1, <2>7
      <3>4. \/ g[i].truncationParent = now /\ g[i].cut = TRUE
            \/ g[i].truncationParent = h[o[i]].truncationParent /\ g[i].cut = h[o[i]].cut
        BY <2>1, <2>7
      <3> QED
        BY <1>2, <3>1, <3>2, <3>3, <3>4 DEF TagOK
    <2>8. BeginsPlain(g)
      <3>1. 1 \in DOMAIN g /\ 1 # p /\ o[1] = 1 /\ h # <<>>
        BY <1>1, <2>1
      <3>2. Same(g[1], h[1]) /\ g[1].condenseParent = h[1].condenseParent
            /\ g[1].truncationParent = h[1].truncationParent
        BY <2>1, <2>6, <3>1
      <3> QED
        BY <1>1, <3>1, <3>2 DEF BeginsPlain, Same
    <2>9. HiddenBefore(g)
      <3> SUFFICES ASSUME NEW i \in DOMAIN g, NEW j \in DOMAIN g, g[j].kind = "summary",
                          g[i].condenseParent = g[j].id
                   PROVE  i < j
        BY DEF HiddenBefore
      <3>0. i \in Nat /\ j \in Nat /\ p \in Nat
        BY <2>1
      <3>1. j # p
        BY <2>1, <2>2
      <3>2. o[j] \in DOMAIN h /\ h[o[j]].kind = "summary" /\ h[o[j]].id = g[j].id
            /\ 0 < h[o[j]].id /\ h[o[j]].id \in Nat
        BY <1>1, <2>6, <3>1, MessageFields DEF Same, MessageOK
      <3>3. i # p
        BY <2>1, <2>2, <3>2
      <3>4. o[i] \in DOMAIN h /\ g[i].condenseParent = h[o[i]].condenseParent
        BY <2>1, <2>6, <3>3
      <3>5. o[i] < o[j]
        BY <3>2, <3>4 DEF HistoryOK, HiddenBefore
      <3>6. j < i => o[j] < o[i]
        BY <2>1, <3>1, <3>3 DEF Derived
      <3>7. o[i] \in Nat /\ o[j] \in Nat
        BY <1>1, <3>2, <3>4
      <3>8. i # j
        BY <3>5, <3>7
      <3> QED
        BY <3>0, <3>5, <3>6, <3>7, <3>8
    <2> DEFINE t2 == now + Gap
               d2 == d + 1
    <2>10. t2 \in Nat /\ now <= t2 /\ d2 \in Int /\ d <= d2 /\ p \in Nat /\ d \in Int /\ k <= k
      BY <1>2, <2>1
    <2>11. \A i \in DOMAIN g : i # p => TagOK(g[i], t2)
      BY <2>7
    <2>12. MessageOK(g[p], d2, t2, k) /\ TagOK(g[p], t2)
      BY <2>5
    <2> HIDE DEF t2, d2
    <2>13. HistoryOK(g, d2, t2, k)
      BY <1>2, <2>1, <2>4, <2>5, <2>8, <2>9, <2>10, <2>11, <2>12, DerivedOK
    <2> QED
      BY <2>13 DEF t2, d2, g
  <1> QED
    BY <1>3, <1>4

\* The messages left, if the first is among them, and tags that are cleared.
LEMMA ThinnedOK ==
    ASSUME NEW h, NEW d \in Int, NEW t \in Nat, NEW k \in Nat, HistoryOK(h, d, t, k),
           NEW g, NEW e, NEW K, Thinned(g, h, e, K), h # <<>> => h[1] \in K,
           \A i \in DOMAIN g :
               /\ g[i].cut = h[e[i]].cut
               /\ g[i].condenseParent \in {h[e[i]].condenseParent, None}
               /\ g[i].truncationParent \in {h[e[i]].truncationParent, None}
    PROVE  HistoryOK(g, d, t, k) /\ (h # <<>> => g # <<>> /\ Same(g[1], h[1]) /\ e[1] = 1)
  <1>1. /\ h \in Seq(Messages) /\ Len(h) \in Nat /\ DOMAIN h = 1 .. Len(h)
        /\ \A i \in DOMAIN h : MessageOK(h[i], d, t, k) /\ TagOK(h[i], t) /\ h[i] \in Messages
    BY DEF HistoryOK
  <1>2. Derived(g, h, e, 0) /\ g \in Seq(Messages) /\ Len(g) \in Nat /\ DOMAIN g = 1 .. Len(g)
    BY DEF Thinned, Derived
  <1>3. /\ \A i \in DOMAIN g : e[i] \in DOMAIN h /\ Same(g[i], h[e[i]])
        /\ \A i, j \in DOMAIN g : i < j => e[i] < e[j]
    BY <1>2 DEF Derived
  <1>4. h # <<>> => g # <<>> /\ e[1] = 1
    <2> SUFFICES ASSUME h # <<>> PROVE g # <<>> /\ e[1] = 1
      OBVIOUS
    <2>1. 1 \in DOMAIN h /\ h[1] \in K
      BY <1>1
    <2>2. PICK i \in DOMAIN g : e[i] = 1
      BY <2>1 DEF Thinned
    <2>3. 1 \in DOMAIN g /\ (i # 1 => 1 < i)
      BY <1>2, <2>2
    <2>4. i = 1
      <3> SUFFICES ASSUME i # 1 PROVE FALSE
        OBVIOUS
      <3>1. e[1] < e[i] /\ e[1] \in DOMAIN h
        BY <1>3, <2>2, <2>3
      <3> QED
        BY <1>1, <2>2, <3>1
    <2> QED
      BY <2>2, <2>4
  <1>5. g # <<>> => h # <<>>
    <2> SUFFICES ASSUME g # <<>> PROVE h # <<>>
      OBVIOUS
    <2>1. 1 \in DOMAIN g
      BY <1>2
    <2> QED
      BY <1>1, <1>3, <2>1
  <1>6. BeginsPlain(g)
    <2> SUFFICES ASSUME g # <<>> PROVE BeginsPlain(g)
      BY DEF BeginsPlain
    <2>1. e[1] = 1 /\ 1 \in DOMAIN g /\ h # <<>>
      BY <1>2, <1>4, <1>5
    <2>2. Same(g[1], h[1]) /\ g[1].condenseParent \in {h[1].condenseParent, None}
          /\ g[1].truncationParent \in {h[1].truncationParent, None}
      BY <1>3, <2>1
    <2> QED
      BY <2>1, <2>2 DEF BeginsPlain, HistoryOK, Same
  <1>7. ASSUME NEW i \in DOMAIN g PROVE TagOK(g[i], t)
    <2>1. /\ TagOK(h[e[i]], t) /\ h[e[i]].id = g[i].id /\ MessageOK(h[e[i]], d, t, k) /\ h[e[i]] \in Messages
      BY <1>1, <1>3 DEF Same
    <2>2. 0 < g[i].id /\ g[i].id < t /\ g[i].id \in Nat
      BY <2>1, MessageFields DEF MessageOK
    <2> QED
      BY <2>1, <2>2 DEF TagOK, None
  <1>8. HiddenBefore(g)
    <2> SUFFICES ASSUME NEW i \in DOMAIN g, NEW j \in DOMAIN g, g[j].kind = "summary",
                        g[i].condenseParent = g[j].id
                 PROVE  i < j
      BY DEF HiddenBefore
    <2>1. /\ e[i] \in DOMAIN h /\ e[j] \in DOMAIN h /\ h[e[j]].kind = "summary" /\ h[e[j]].id = g[j].id
          /\ 0 < h[e[j]].id
      BY <1>1, <1>3 DEF Same, MessageOK
    <2>2. h[e[i]].condenseParent = h[e[j]].id
      <3>1. g[i].condenseParent # None
        <4>1. h[e[j]].id \in Nat
          BY <1>1, <2>1, MessageFields
        <4> QED
          BY <2>1, <4>1 DEF None
      <3> QED
        BY <2>1, <3>1
    <2>3. e[i] < e[j]
      BY <2>1, <2>2 DEF HistoryOK, HiddenBefore
    <2>4. i \in Nat /\ j \in Nat /\ e[i] \in Nat /\ e[j] \in Nat
      BY <1>1, <1>2, <2>1
    <2>5. i # j /\ ~ (j < i)
      BY <1>3, <2>3, <2>4
    <2> QED
      BY <2>4, <2>5
  <1>9. HistoryOK(g, d, t, k)
    <2>1. 0 \notin DOMAIN g /\ d <= d /\ t <= t /\ k <= k /\ 0 \in Nat
      BY <1>2
    <2> QED
      BY <1>2, <1>6, <1>7, <1>8, <2>1, DerivedOK
  <1>10. h # <<>> => Same(g[1], h[1])
    <2> SUFFICES ASSUME h # <<>> PROVE Same(g[1], h[1])
      OBVIOUS
    <2>1. 1 \in DOMAIN g /\ e[1] = 1
      BY <1>2, <1>4
    <2> QED
      BY <1>3, <2>1
  <1> QED
    BY <1>4, <1>9, <1>10

-----------------------------------------------------------------------------
(* The messages that are saved *)

\* The results of a user message are those at hand, or the calls of the last
\* message of the assistant if it has some.
LEMMA ResultsForIs ==
    ASSUME NEW h \in Seq(Messages), NEW results
    PROVE  \/ /\ ResultsFor(results, h) = results
              /\ \A i \in DOMAIN h : h[i].role = "assistant" =>
                     \E a \in DOMAIN h : i <= a /\ h[a].role = "assistant" /\ h[a].uses = {}
                                         /\ \A j \in DOMAIN h : j > a => h[j].role # "assistant"
           \/ \E a \in DOMAIN h :
                 /\ h[a].role = "assistant" /\ h[a].uses # {}
                 /\ \A j \in DOMAIN h : j > a => h[j].role # "assistant"
                 /\ ResultsFor(results, h) = h[a].uses
  <1> DEFINE D == {i \in 1 .. Len(h) : h[i].role = "assistant"}
             a == SelectLastInSeq(h, LAMBDA m : m.role = "assistant")
  <1>0. Len(h) \in Nat /\ DOMAIN h = 1 .. Len(h)
    OBVIOUS
  <1>1. a = IF D # {} THEN Max(D) ELSE 0
    BY DEF SelectLastInSeq
  <1>2. ResultsFor(results, h) = IF a = 0 \/ h[a].uses = {} THEN results ELSE h[a].uses
    BY DEF ResultsFor
  <1> HIDE DEF a
  <1>3. CASE D = {}
    <2>1. ResultsFor(results, h) = results
      BY <1>1, <1>2, <1>3
    <2>2. \A i \in DOMAIN h : h[i].role # "assistant"
      BY <1>0, <1>3
    <2> QED
      BY <2>1, <2>2
  <1>4. CASE D # {}
    <2>1. Max(D) \in D /\ \A x \in D : x <= Max(D)
      BY <1>0, <1>4, GreatestIn
    <2>2. a \in D /\ \A x \in D : x <= a
      BY <1>1, <1>4, <2>1
    <2> HIDE DEF D
    <2>3. a \in DOMAIN h /\ a # 0 /\ h[a].role = "assistant"
      BY <1>0, <2>2 DEF D
    <2>4. \A j \in DOMAIN h : h[j].role = "assistant" => j <= a
      BY <1>0, <2>2 DEF D
    <2>5. \A j \in DOMAIN h : j > a => h[j].role # "assistant"
      BY <1>0, <2>3, <2>4
    <2> QED
      BY <1>2, <2>3, <2>4, <2>5
  <1> QED
    BY <1>3, <1>4

\* A user message as it is saved.
LEMMA QuestionIs ==
    ASSUME NEW r \in SUBSET Nat, NEW k \in Nat, now \in Times, 0 < now
    PROVE  LET x == Plain("user", {}, r)
           IN  /\ Saved(x, now, k) /\ x.role = "user" /\ x.uses = {} /\ x.results = r
               /\ x.tells = {now} /\ x.ts = now
  <1> DEFINE x == Plain("user", {}, r)
  <1>1. now \in Nat /\ now < now + Gap
    BY TimesApart, GapNat
  <1>2. /\ x.id = now /\ x.ts = now /\ x.role = "user" /\ x.kind = "plain" /\ x.uses = {}
        /\ x.results = r /\ x.tells = {now} /\ x.condenseParent = None
        /\ x.truncationParent = None /\ x.cut = FALSE
    BY DEF Plain
  <1>3. x \in Messages
    BY <1>1 DEF Plain, Messages, None
  <1> HIDE DEF x
  <1>4. MessageOK(x, 0, now + Gap, k)
    BY <1>1, <1>2 DEF MessageOK
  <1>5. Saved(x, now, k)
    BY <1>2, <1>3, <1>4 DEF Saved, IsPlain
  <1> QED
    BY <1>2, <1>5 DEF x

\* An assistant message as it is saved.
LEMMA AnswerIs ==
    ASSUME NEW u \in SUBSET Nat, NEW k \in Nat, u \subseteq 1 .. k, now \in Times, 0 < now
    PROVE  LET x == Plain("assistant", u, {})
           IN  /\ Saved(x, now, k) /\ x.role = "assistant" /\ x.uses = u /\ x.results = {}
               /\ x.tells = {now} /\ x.ts = now
  <1> DEFINE x == Plain("assistant", u, {})
  <1>1. now \in Nat /\ now < now + Gap
    BY TimesApart, GapNat
  <1>2. /\ x.id = now /\ x.ts = now /\ x.role = "assistant" /\ x.kind = "plain" /\ x.uses = u
        /\ x.results = {} /\ x.tells = {now} /\ x.condenseParent = None
        /\ x.truncationParent = None /\ x.cut = FALSE
    BY DEF Plain
  <1>3. x \in Messages
    BY <1>1 DEF Plain, Messages, None
  <1> HIDE DEF x
  <1>4. MessageOK(x, 0, now + Gap, k)
    BY <1>1, <1>2 DEF MessageOK
  <1>5. Saved(x, now, k)
    BY <1>2, <1>3, <1>4 DEF Saved, IsPlain
  <1> QED
    BY <1>2, <1>5 DEF x

\* The user message of the next request, its results repaired.
LEMMA UserMessageIs ==
    ASSUME NEW k \in Nat, HistoryOK(api, reductions, now, k), pending \subseteq 1 .. k,
           now \in Times, 0 < now
    PROVE  /\ Saved(UserMessage, now, k) /\ UserMessage.role = "user" /\ UserMessage.uses = {}
           /\ UserMessage.results = ResultsFor(pending, api)
           /\ UserMessage.tells = {now} /\ UserMessage.ts = now
           /\ ResultsFor(pending, api) \subseteq 1 .. k
  <1>1. api \in Seq(Messages) /\ \A i \in DOMAIN api : api[i].uses \subseteq 1 .. k
    BY DEF HistoryOK, MessageOK
  <1>2. ResultsFor(pending, api) \subseteq 1 .. k
    BY <1>1, ResultsForIs
  <1>3. ResultsFor(pending, api) \in SUBSET Nat
    BY <1>2
  <1>4. UserMessage = Plain("user", {}, ResultsFor(pending, api))
    BY DEF UserMessage
  <1> DEFINE r == ResultsFor(pending, api)
  <1> HIDE DEF r
  <1>5. r \in SUBSET Nat /\ UserMessage = Plain("user", {}, r)
    BY <1>3, <1>4 DEF r
  <1>6. LET x == Plain("user", {}, r)
           IN  /\ Saved(x, now, k) /\ x.role = "user" /\ x.uses = {} /\ x.results = r
               /\ x.tells = {now} /\ x.ts = now
    BY <1>5, QuestionIs
  <1> QED
    BY <1>2, <1>5, <1>6 DEF r

-----------------------------------------------------------------------------
(* The cut of a rewind *)

\* The cut of a rewind: the time asked for, or that of the first user message
\* from it on when no message has that time.
LEMMA CutoffIs ==
    ASSUME NEW h \in Seq(Messages), NEW ts \in Int
    PROVE  \/ /\ ActualCutoff(h, ts) = ts
              /\ \/ \E i \in DOMAIN h : h[i].ts = ts
                 \/ \A i \in DOMAIN h : h[i].ts >= ts
                 \/ \A i \in DOMAIN h : h[i].ts < ts \/ h[i].role # "user"
           \/ \E f \in DOMAIN h :
                 /\ h[f].ts >= ts /\ h[f].role = "user"
                 /\ \A j \in DOMAIN h : j < f => h[j].ts < ts \/ h[j].role # "user"
                 /\ ActualCutoff(h, ts) = h[f].ts
                 /\ \A i \in DOMAIN h : h[i].ts # ts
  <1> DEFINE D == {i \in 1 .. Len(h) : h[i].ts >= ts /\ h[i].role = "user"}
             f == SelectInSeq(h, LAMBDA m : m.ts >= ts /\ m.role = "user")
             exact == \E m \in Range(h) : m.ts = ts
             before == \E m \in Range(h) : m.ts < ts
  <1>0. Len(h) \in Nat /\ DOMAIN h = 1 .. Len(h) /\ \A i \in DOMAIN h : h[i].ts \in Int
    BY MessageFields
  <1>1. f = IF D # {} THEN Min(D) ELSE 0
    BY DEF SelectInSeq
  <1>2. ActualCutoff(h, ts) = IF ~ exact /\ before /\ f # 0 THEN h[f].ts ELSE ts
    BY DEF ActualCutoff
  <1> HIDE DEF f
  <1>3. exact <=> \E i \in DOMAIN h : h[i].ts = ts
    BY DEF Range
  <1>4. before <=> \E i \in DOMAIN h : h[i].ts < ts
    BY DEF Range
  <1> HIDE DEF exact, before
  <1>5. D # {} => f \in D /\ \A x \in D : f <= x
    <2> SUFFICES ASSUME D # {} PROVE f \in D /\ \A x \in D : f <= x
      OBVIOUS
    <2>1. D \in SUBSET Nat
      BY <1>0
    <2>2. Min(D) \in D /\ \A x \in D : Min(D) <= x
      BY <2>1, LeastIn
    <2> QED
      BY <1>1, <2>2
  <1>6. CASE ~ exact /\ before /\ f # 0
    <2>1. D # {}
      BY <1>1, <1>6
    <2>2. f \in DOMAIN h /\ h[f].ts >= ts /\ h[f].role = "user"
      BY <1>0, <1>5, <2>1
    <2>3. \A j \in DOMAIN h : j < f => h[j].ts < ts \/ h[j].role # "user"
      <3> SUFFICES ASSUME NEW j \in DOMAIN h, j < f, h[j].ts >= ts, h[j].role = "user" PROVE FALSE
        BY <1>0
      <3>1. j \in D
        BY <1>0
      <3> QED
        BY <1>0, <1>5, <2>2, <3>1
    <2> QED
      BY <1>2, <1>3, <1>6, <2>2, <2>3
  <1>7. CASE ~ (~ exact /\ before /\ f # 0)
    <2>1. ActualCutoff(h, ts) = ts
      BY <1>2, <1>7
    <2>2. f = 0 => \A i \in DOMAIN h : h[i].ts < ts \/ h[i].role # "user"
      <3> SUFFICES ASSUME f = 0, NEW i \in DOMAIN h PROVE h[i].ts < ts \/ h[i].role # "user"
        OBVIOUS
      <3>1. D = {}
        BY <1>0, <1>5
      <3>2. ~ (h[i].ts >= ts /\ h[i].role = "user")
        BY <1>0, <3>1
      <3> QED
        BY <1>0, <3>2
    <2>3. ~ before => \A i \in DOMAIN h : h[i].ts >= ts
      BY <1>0, <1>4
    <2> QED
      BY <1>3, <1>7, <2>1, <2>2, <2>3
  <1> QED
    BY <1>6, <1>7

\* A rewind keeps the messages before its target.
LEMMA CutoffLater ==
    ASSUME NEW h \in Seq(Messages), NEW ts \in Int
    PROVE  ActualCutoff(h, ts) >= ts /\ ActualCutoff(h, ts) \in Int
  BY CutoffIs, MessageFields

-----------------------------------------------------------------------------
(* The invariant behind TypeOK *)

\* What a message of the chat can be at all.
ChatMessages ==
    [ts : Nat, kind : {"feedback", "condensed", "truncated"}, event : Nat,
     before : Seq(Nat), intact : BOOLEAN]

\* One message of the chat.
ChatMessageOK(m, t) ==
    /\ m.ts \in Times /\ 0 < m.ts /\ m.ts < t
    /\ m.kind = "feedback" => m.event = None
    /\ m.event \in {None, m.ts}
    /\ m.intact => m.kind = "feedback"

\* The chat is in the order of its times.
InTurn(c) == \A i, j \in DOMAIN c : i < j => c[i].ts < c[j].ts

\* A chat: the parts together.
ChatOK(c, t) ==
    /\ c \in Seq(ChatMessages)
    /\ InTurn(c)
    /\ \A i \in DOMAIN c : ChatMessageOK(c[i], t)

\* Comments are neither saved with a message nor made before the first.
CommentsApart(h, c) ==
    \A i \in DOMAIN c : c[i].kind = "feedback" =>
        /\ \A j \in DOMAIN h : h[j].id # c[i].ts
        /\ h # <<>> => h[1].ts < c[i].ts

\* The calls that stream in are in no message yet.
FreshCalls(h) ==
    pc = "stream" => \A i \in DOMAIN h : IsPlain(h[i]) => h[i].uses \intersect calls = {}

\* What goes with each place of the request loop.
Loop ==
    /\ pc \in {"request", "stream", "tools"}
    /\ now \in Times /\ 0 < now
    /\ made \in Nat /\ reductions \in 0 .. MaxReductions
    /\ calls \subseteq 1 .. made /\ open \subseteq calls /\ pending \subseteq calls
    /\ api = <<>> => pc = "tools" /\ open = {} /\ chat = <<>> /\ manual = <<>>
    /\ manual # <<>> => reductions >= 1
    /\ pc = "request" => open = {} /\ pending = {}

\* The invariant behind TypeOK.  The history a condensation by hand works on is
\* one of an earlier moment.
TypeInv ==
    /\ Loop
    /\ HistoryOK(api, reductions, now, made)
    /\ HistoryOK(manual, reductions - 1, now, made)
    /\ FreshCalls(api) /\ FreshCalls(manual)
    /\ ChatOK(chat, now)
    /\ CommentsApart(api, chat) /\ CommentsApart(manual, chat)

\* It implies the types.
LEMMA TypeInvImplies == TypeInv => TypeOK
  <1> SUFFICES ASSUME TypeInv PROVE TypeOK
    OBVIOUS
  <1>1. api \in Seq(Messages) /\ chat \in Seq(ChatMessages)
    BY DEF TypeInv, HistoryOK, ChatOK
  <1>2. \A i, j \in DOMAIN api : i < j => api[i].id # api[j].id
    BY DEF TypeInv, HistoryOK, Distinct
  <1>3. \A i, j \in DOMAIN chat : i < j => chat[i].ts < chat[j].ts
    BY DEF TypeInv, ChatOK, InTurn
  <1>4. ASSUME NEW m \in Range(api)
        PROVE  /\ m.role \in {"user", "assistant"} /\ m.kind \in {"plain", "summary", "marker"}
               /\ m.uses # {} => m.role = "assistant"
               /\ m.results # {} => m.role = "user" /\ m.kind = "plain"
               /\ m.id \notin {m.condenseParent, m.truncationParent}
    <2>1. PICK i \in DOMAIN api : m = api[i]
      BY DEF Range
    <2>2. m \in Messages /\ MessageOK(m, reductions, now, made) /\ TagOK(m, now)
      BY <1>1, <2>1 DEF TypeInv, HistoryOK
    <2> QED
      BY <2>2, MessageFields DEF MessageOK, TagOK
  <1>5. pc \in {"request", "stream", "tools"} /\ open \subseteq calls /\ pending \subseteq calls
    BY DEF TypeInv, Loop
  <1> QED
    BY <1>2, <1>3, <1>4, <1>5 DEF TypeOK

-----------------------------------------------------------------------------
(* The chat *)

\* A chat stays one as time goes on.
LEMMA ChatLater ==
    ASSUME NEW c, NEW t \in Nat, ChatOK(c, t), NEW t2 \in Nat, t <= t2
    PROVE  ChatOK(c, t2)
  <1>1. ASSUME NEW i \in DOMAIN c PROVE ChatMessageOK(c[i], t2)
    <2>1. ChatMessageOK(c[i], t) /\ c[i].ts \in Nat
      BY TimesApart DEF ChatOK, ChatMessageOK
    <2> QED
      BY <2>1 DEF ChatMessageOK
  <1> QED
    BY <1>1 DEF ChatOK

\* A new message of the chat, at time t.
Posted(m, t) ==
    /\ m \in ChatMessages /\ m.ts = t /\ m.event \in {None, t}
    /\ m.kind = "feedback" => m.event = None
    /\ m.intact => m.kind = "feedback"

\* Posting a message to the chat.
LEMMA ChatAppend ==
    ASSUME NEW c, NEW t \in Times, 0 < t, ChatOK(c, t), NEW m, Posted(m, t)
    PROVE  /\ ChatOK(Append(c, m), t + Gap)
           /\ DOMAIN Append(c, m) = 1 .. Len(c) + 1 /\ Len(c) \in Nat /\ DOMAIN c = 1 .. Len(c)
           /\ Append(c, m)[Len(c) + 1] = m
           /\ \A i \in 1 .. Len(c) : Append(c, m)[i] = c[i]
           /\ Append(c, m) # <<>>
  <1> DEFINE g == Append(c, m)
             u == t + Gap
  <1>1. t \in Nat /\ u \in Nat /\ t < u
    BY TimesApart, GapNat
  <1>2. c \in Seq(ChatMessages) /\ m \in ChatMessages
    BY DEF ChatOK, Posted
  <1>3. /\ g \in Seq(ChatMessages) /\ DOMAIN g = 1 .. Len(c) + 1 /\ g[Len(c) + 1] = m
        /\ \A i \in 1 .. Len(c) : g[i] = c[i]
        /\ Len(c) \in Nat /\ DOMAIN c = 1 .. Len(c) /\ g # <<>>
    BY <1>2
  <1> HIDE DEF g, u
  <1>4. \A i \in DOMAIN g : i # Len(c) + 1 => i \in DOMAIN c /\ g[i] = c[i]
    BY <1>3
  <1>5. \A i \in DOMAIN c : c[i].ts < t /\ c[i].ts \in Nat
    BY TimesApart DEF ChatOK, ChatMessageOK
  <1>6. ASSUME NEW i \in DOMAIN g PROVE ChatMessageOK(g[i], u)
    <2>1. CASE i = Len(c) + 1
      BY <1>1, <1>3, <2>1 DEF ChatMessageOK, Posted
    <2>2. CASE i # Len(c) + 1
      <3>1. ChatMessageOK(c[i], t) /\ g[i] = c[i] /\ c[i].ts < u
        BY <1>1, <1>4, <1>5, <2>2 DEF ChatOK
      <3> QED
        BY <3>1 DEF ChatMessageOK
    <2> QED
      BY <2>1, <2>2
  <1>7. InTurn(g)
    <2> SUFFICES ASSUME NEW i \in DOMAIN g, NEW j \in DOMAIN g, i < j PROVE g[i].ts < g[j].ts
      BY DEF InTurn
    <2>1. i # Len(c) + 1 /\ i \in DOMAIN c /\ g[i] = c[i]
      BY <1>3, <1>4
    <2>2. CASE j = Len(c) + 1
      BY <1>3, <1>5, <2>1, <2>2 DEF Posted
    <2>3. CASE j # Len(c) + 1
      BY <1>4, <2>1, <2>3 DEF ChatOK, InTurn
    <2> QED
      BY <2>2, <2>3
  <1>8. ChatOK(g, u)
    BY <1>3, <1>6, <1>7 DEF ChatOK
  <1> QED
    BY <1>3, <1>8 DEF g, u

\* The messages of one chat are those of another, but for what they remember.
SameChat(g, c) ==
    /\ g \in Seq(ChatMessages) /\ DOMAIN g = DOMAIN c
    /\ \A i \in DOMAIN g :
           /\ g[i].ts = c[i].ts /\ g[i].kind = c[i].kind /\ g[i].event = c[i].event
           /\ g[i].intact => c[i].intact

\* A chat whose links to the history were spoiled is still one.
LEMMA SameChatOK ==
    ASSUME NEW c, NEW t, ChatOK(c, t), NEW g, SameChat(g, c)
    PROVE  ChatOK(g, t)
  BY DEF ChatOK, SameChat, InTurn, ChatMessageOK

\* Taking the intact mark from some messages of the chat.
LEMMA SpoiledAt ==
    ASSUME NEW c \in Seq(ChatMessages), NEW D, NEW g,
           g = [i \in DOMAIN c |-> IF i \in D THEN [c[i] EXCEPT !.intact = FALSE] ELSE c[i]]
    PROVE  /\ SameChat(g, c)
           /\ \A i \in DOMAIN g : /\ g[i].before = c[i].before
                                  /\ g[i].intact => i \notin D
  <1>1. Len(c) \in Nat /\ DOMAIN c = 1 .. Len(c) /\ \A i \in DOMAIN c : c[i] \in ChatMessages
    OBVIOUS
  <1>2. ASSUME NEW m \in ChatMessages, NEW x, x = [m EXCEPT !.intact = FALSE]
        PROVE  /\ x \in ChatMessages /\ x.ts = m.ts /\ x.kind = m.kind /\ x.event = m.event
               /\ x.before = m.before /\ x.intact = FALSE
    BY <1>2 DEF ChatMessages
  <1>3. ASSUME NEW i \in DOMAIN c
        PROVE  /\ g[i] \in ChatMessages /\ g[i].ts = c[i].ts /\ g[i].kind = c[i].kind
               /\ g[i].event = c[i].event /\ g[i].before = c[i].before
               /\ g[i].intact => c[i].intact /\ i \notin D
    <2>1. CASE i \in D
      <3>1. g[i] = [c[i] EXCEPT !.intact = FALSE]
        BY <2>1
      <3> QED
        BY <1>1, <1>2, <3>1
    <2>2. CASE i \notin D
      <3>1. g[i] = c[i]
        BY <2>2
      <3> QED
        BY <1>1, <2>2, <3>1
    <2> QED
      BY <2>1, <2>2
  <1>4. DOMAIN g = 1 .. Len(c)
    BY <1>1
  <1>5. \A i \in 1 .. Len(c) : g[i] \in ChatMessages
    BY <1>1, <1>3, <1>4
  <1>6. g = [i \in 1 .. Len(c) |-> g[i]]
    BY <1>1
  <1>8. g \in Seq(ChatMessages)
    BY <1>1, <1>4, <1>5, <1>6
  <1>9. SameChat(g, c)
    BY <1>1, <1>3, <1>4, <1>8 DEF SameChat
  <1> QED
    BY <1>1, <1>3, <1>4, <1>9

\* No mark is left.
LEMMA AllSpoiledDoes ==
    ASSUME NEW c \in Seq(ChatMessages)
    PROVE  /\ SameChat(AllSpoiled(c), c)
           /\ \A i \in DOMAIN AllSpoiled(c) : ~ AllSpoiled(c)[i].intact
  <1> DEFINE g == AllSpoiled(c)
  <1>1. g = [i \in DOMAIN c |-> IF i \in DOMAIN c THEN [c[i] EXCEPT !.intact = FALSE] ELSE c[i]]
    BY DEF AllSpoiled, Spoiled
  <1> HIDE DEF g
  <1>2. SameChat(g, c) /\ \A i \in DOMAIN g : g[i].intact => i \notin DOMAIN c
    BY <1>1, SpoiledAt
  <1>3. DOMAIN g = DOMAIN c
    BY <1>1
  <1> QED
    BY <1>2, <1>3 DEF g

\* Who keeps the mark although a rewind before its user message would cut the
\* answer.
LEMMA SpoiledByCutDoes ==
    ASSUME NEW c \in Seq(ChatMessages), NEW h \in Seq(Messages)
    PROVE  LET g == SpoiledByCut(c, h)
           IN  /\ SameChat(g, c)
               /\ \A i \in DOMAIN g :
                      /\ g[i].before = c[i].before
                      /\ g[i].intact => \E j \in DOMAIN h : h[j].role = "user" /\ h[j].ts >= c[i].ts
  <1> DEFINE D == {i \in DOMAIN c : \A m \in Range(h) : m.role = "user" => m.ts < c[i].ts}
             g == SpoiledByCut(c, h)
  <1>1. g = [i \in DOMAIN c |-> IF i \in D THEN [c[i] EXCEPT !.intact = FALSE] ELSE c[i]]
    BY DEF SpoiledByCut, Spoiled
  <1> HIDE DEF g
  <1>2. ASSUME NEW i \in DOMAIN c, i \notin D
        PROVE  \E j \in DOMAIN h : h[j].role = "user" /\ h[j].ts >= c[i].ts
    <2>1. \E m \in Range(h) : m.role = "user" /\ ~ (m.ts < c[i].ts)
      BY <1>2, Zenon
    <2> PICK m \in Range(h) : m.role = "user" /\ ~ (m.ts < c[i].ts)
      BY <2>1
    <2>2. PICK j \in DOMAIN h : m = h[j]
      BY DEF Range
    <2>3. h[j].ts \in Int
      BY MessageFields
    <2>5. c[i] \in ChatMessages
      OBVIOUS
    <2>4. c[i].ts \in Nat
      BY <2>5 DEF ChatMessages
    <2> QED
      BY <2>1, <2>2, <2>3, <2>4
  <1>3. DOMAIN g = DOMAIN c
    BY <1>1
  <1> HIDE DEF D
  <1>5. SameChat(g, c)
    BY <1>1, SpoiledAt
  <1>4. ASSUME NEW i \in DOMAIN g PROVE g[i].before = c[i].before /\ (g[i].intact => i \notin D)
    BY <1>1, SpoiledAt
  <1> QED
    BY <1>2, <1>3, <1>4, <1>5 DEF g

\* Who keeps the mark although a marker was set before an answer saved later.
LEMMA SpoiledByMarkerDoes ==
    ASSUME NEW c \in Seq(ChatMessages), NEW h \in Seq(Messages), NEW at \in 1 .. Len(h)
    PROVE  LET g == SpoiledByMarker(c, h, at)
           IN  /\ SameChat(g, c)
               /\ \A i \in DOMAIN g :
                      /\ g[i].before = c[i].before
                      /\ g[i].intact =>
                             ~ (/\ h[at].role = "assistant" /\ c[i].ts < h[at].ts
                                /\ \A j \in 1 .. at - 1 : h[j].ts >= c[i].ts => h[j].role = "assistant")
  <1> DEFINE D == {i \in DOMAIN c :
                      /\ at <= Len(h) /\ h[at].role = "assistant" /\ c[i].ts < h[at].ts
                      /\ \A j \in 1 .. at - 1 : h[j].ts >= c[i].ts => h[j].role = "assistant"}
             g == SpoiledByMarker(c, h, at)
  <1>1. g = [i \in DOMAIN c |-> IF i \in D THEN [c[i] EXCEPT !.intact = FALSE] ELSE c[i]]
    BY DEF SpoiledByMarker, Spoiled
  <1> HIDE DEF g
  <1>2. ASSUME NEW i \in DOMAIN c, i \notin D
        PROVE  ~ (/\ h[at].role = "assistant" /\ c[i].ts < h[at].ts
                  /\ \A j \in 1 .. at - 1 : h[j].ts >= c[i].ts => h[j].role = "assistant")
    BY <1>2
  <1>3. DOMAIN g = DOMAIN c
    BY <1>1
  <1> HIDE DEF D
  <1>5. SameChat(g, c)
    BY <1>1, SpoiledAt
  <1>4. ASSUME NEW i \in DOMAIN g PROVE g[i].before = c[i].before /\ (g[i].intact => i \notin D)
    BY <1>1, SpoiledAt
  <1> QED
    BY <1>2, <1>3, <1>4, <1>5 DEF g

\* SpoiledByMarker leaves the chat as it is but for what it marks, wherever the marker goes.
LEMMA SpoiledByMarkerSame ==
    ASSUME NEW c \in Seq(ChatMessages), NEW h, NEW at
    PROVE  LET g == SpoiledByMarker(c, h, at)
           IN  SameChat(g, c) /\ \A i \in DOMAIN g : g[i].before = c[i].before
  <1> DEFINE D == {i \in DOMAIN c :
                      /\ at <= Len(h) /\ h[at].role = "assistant" /\ c[i].ts < h[at].ts
                      /\ \A j \in 1 .. at - 1 : h[j].ts >= c[i].ts => h[j].role = "assistant"}
             g == SpoiledByMarker(c, h, at)
  <1>1. g = [i \in DOMAIN c |-> IF i \in D THEN [c[i] EXCEPT !.intact = FALSE] ELSE c[i]]
    BY DEF SpoiledByMarker, Spoiled
  <1> HIDE DEF g, D
  <1>2. /\ SameChat(g, c)
        /\ \A i \in DOMAIN g : /\ g[i].before = c[i].before
                               /\ g[i].intact => i \notin D
    BY <1>1, SpoiledAt
  <1> QED
    BY <1>2 DEF g

\* The comments made while an answer streamed come to have it before them.
LEMMA WithAnswerDoes ==
    ASSUME NEW c \in Seq(ChatMessages), NEW m, m.id \in Nat
    PROVE  LET g == WithAnswer(c, m)
           IN  /\ SameChat(g, c)
               /\ \A i \in DOMAIN g :
                      g[i].before = IF c[i].kind = "feedback" /\ c[i].ts > Last(api).ts
                                    THEN Append(c[i].before, m.id) ELSE c[i].before
  <1> DEFINE Answered(i) == c[i].kind = "feedback" /\ c[i].ts > Last(api).ts
  <1> DEFINE g == [i \in DOMAIN c |->
                      IF Answered(i)
                      THEN [c[i] EXCEPT !.before = Append(@, m.id)] ELSE c[i]]
  <1>1. Len(c) \in Nat /\ DOMAIN c = 1 .. Len(c) /\ \A i \in DOMAIN c : c[i] \in ChatMessages
    OBVIOUS
  <1>2. ASSUME NEW y \in ChatMessages, NEW b \in Seq(Nat), NEW x, x = [y EXCEPT !.before = b]
        PROVE  /\ x \in ChatMessages /\ x.ts = y.ts /\ x.kind = y.kind /\ x.event = y.event
               /\ x.before = b /\ x.intact = y.intact
    BY <1>2 DEF ChatMessages
  <1>3. ASSUME NEW i \in DOMAIN c
        PROVE  /\ g[i] \in ChatMessages /\ g[i].ts = c[i].ts /\ g[i].kind = c[i].kind
               /\ g[i].event = c[i].event
               /\ g[i].intact => c[i].intact
               /\ g[i].before = IF Answered(i)
                                THEN Append(c[i].before, m.id) ELSE c[i].before
    <2>1. CASE Answered(i)
      <3>1. g[i] = [c[i] EXCEPT !.before = Append(c[i].before, m.id)]
        BY <2>1
      <3> HIDE DEF g, Answered
      <3>2. c[i].before \in Seq(Nat)
        BY <1>1 DEF ChatMessages
      <3> DEFINE b == Append(c[i].before, m.id)
      <3>3. b \in Seq(Nat) /\ g[i] = [c[i] EXCEPT !.before = b]
        BY <3>1, <3>2
      <3> HIDE DEF b
      <3>4. /\ g[i] \in ChatMessages /\ g[i].ts = c[i].ts /\ g[i].kind = c[i].kind
            /\ g[i].event = c[i].event /\ g[i].before = b /\ g[i].intact = c[i].intact
        BY <1>1, <1>2, <3>3
      <3>5. g[i].before = Append(c[i].before, m.id)
        BY <3>4 DEF b
      <3> QED
        BY <2>1, <3>4, <3>5
    <2>2. CASE ~ Answered(i)
      <3>1. g[i] = c[i]
        BY <2>2
      <3> HIDE DEF g, Answered
      <3> QED
        BY <1>1, <2>2, <3>1
    <2> QED
      BY <2>1, <2>2
  <1>4. DOMAIN g = 1 .. Len(c)
    BY <1>1
  <1>5. \A i \in 1 .. Len(c) : g[i] \in ChatMessages
    BY <1>1, <1>3, <1>4
  <1>6. g = [i \in 1 .. Len(c) |-> g[i]]
    BY <1>1
  <1>7. WithAnswer(c, m) = g
    BY DEF WithAnswer
  <1> HIDE DEF g, Answered
  <1>8. g \in Seq(ChatMessages)
    BY <1>1, <1>4, <1>5, <1>6
  <1>9. SameChat(g, c)
    BY <1>1, <1>3, <1>4, <1>8 DEF SameChat
  <1>10. \A i \in DOMAIN g : g[i].before = IF Answered(i) THEN Append(c[i].before, m.id) ELSE c[i].before
    BY <1>1, <1>3, <1>4
  <1> QED
    BY <1>7, <1>9, <1>10 DEF Answered

\* The chat in front of a message.
LEMMA ChatFront ==
    ASSUME NEW c, NEW t, ChatOK(c, t), NEW n \in DOMAIN c
    PROVE  LET g == SubSeq(c, 1, n - 1)
           IN  /\ ChatOK(g, t) /\ g \in Seq(ChatMessages) /\ Len(g) = n - 1
               /\ DOMAIN g = 1 .. n - 1
               /\ \A i \in DOMAIN g : i \in DOMAIN c /\ g[i] = c[i]
  <1> DEFINE g == SubSeq(c, 1, n - 1)
  <1>1. c \in Seq(ChatMessages) /\ Len(c) \in Nat /\ n \in 1 .. Len(c) /\ DOMAIN c = 1 .. Len(c)
    BY DEF ChatOK
  <1>2. /\ g \in Seq(ChatMessages) /\ Len(g) = n - 1 /\ DOMAIN g = 1 .. n - 1
        /\ \A i \in 1 .. n - 1 : g[i] = c[i]
    BY <1>1
  <1> HIDE DEF g
  <1>3. \A i \in DOMAIN g : i \in DOMAIN c /\ g[i] = c[i]
    BY <1>1, <1>2
  <1>4. ChatOK(g, t)
    BY <1>1, <1>2, <1>3 DEF ChatOK, InTurn
  <1> QED
    BY <1>2, <1>3, <1>4 DEF g

-----------------------------------------------------------------------------
(* The initial histories *)

\* The messages of the first turns are saved after 1, 2, 4, 5, 7, 8, ... gaps.
Turn(i) == (3 * i - 1) \div 2

\* In this order, and none at a multiple of three gaps.
LEMMA TurnOrder ==
    ASSUME NEW n \in Nat
    PROVE  /\ \A i \in 1 .. 2 * n : Turn(i) \in Nat /\ 0 < Turn(i) /\ Turn(i) < 3 * n + 1
           /\ \A i, j \in 1 .. 2 * n : i < j => Turn(i) < Turn(j)
           /\ \A i \in 1 .. 2 * n : \A l \in Nat : Turn(i) # 3 * l
  <1>1. \A i \in 1 .. 2 * n : Turn(i) \in Nat /\ 0 < Turn(i) /\ Turn(i) < 3 * n + 1
    BY DEF Turn
  <1>2. \A i, j \in 1 .. 2 * n : i < j => Turn(i) < Turn(j)
    BY DEF Turn
  <1>3. \A i \in 1 .. 2 * n : \A l \in Nat : Turn(i) # 3 * l
    BY DEF Turn
  <1> QED
    BY <1>1, <1>2, <1>3

\* Multiples of the gap.
LEMMA GapTimes ==
    /\ \A a \in Nat : Gap * a \in Times /\ Gap * a \in Nat
    /\ \A a \in Nat : 0 < a => 0 < Gap * a
    /\ \A a, b \in Nat : a < b => Gap * a < Gap * b
    /\ \A a, b \in Nat : a # b => Gap * a # Gap * b
  <1> DEFINE G == Gap
  <1>1. G \in Nat /\ G > 0
    BY GapNat
  <1>0. Times = {G * k : k \in Nat}
    BY DEF Times
  <1> HIDE DEF G
  <1>2. ASSUME NEW a \in Nat PROVE G * a \in Times /\ G * a \in Nat /\ (0 < a => 0 < G * a)
    BY <1>0, <1>1
  <1>3. ASSUME NEW a \in Nat, NEW b \in Nat, a < b PROVE G * a < G * b
    <2>1. PICK c \in Nat : b = a + c /\ c > 0
      <3>1. b - a \in Nat /\ b = a + (b - a) /\ b - a > 0
        BY <1>3
      <3> QED
        BY <3>1
    <2>2. G * b = G * a + G * c /\ G * a \in Nat /\ G * c \in Nat /\ G * c > 0
      BY <1>1, <2>1
    <2> QED
      BY <2>2
  <1>4. ASSUME NEW a \in Nat, NEW b \in Nat, a # b PROVE G * a # G * b
    <2>1. CASE a < b
      <3>1. G * a < G * b /\ G * a \in Nat
        BY <1>2, <1>3, <2>1
      <3> QED
        BY <3>1
    <2>2. CASE b < a
      <3>1. G * b < G * a /\ G * a \in Nat
        BY <1>2, <1>3, <2>2
      <3> QED
        BY <3>1
    <2> QED
      BY <1>4, <2>1, <2>2
  <1> QED
    BY <1>2, <1>3, <1>4 DEF G

\* The messages of the initial history.
LEMMA StartDoes ==
    ASSUME NEW n \in Nat
    PROVE  LET h == StartHistory(n)
           IN  /\ h \in Seq(Messages) /\ Len(h) = 2 * n /\ DOMAIN h = 1 .. 2 * n
               /\ \A i \in 1 .. 2 * n :
                    /\ h[i].kind = "plain" /\ h[i].id = Gap * Turn(i) /\ h[i].ts = h[i].id
                    /\ h[i].role = IF i % 2 = 1 THEN "user" ELSE "assistant"
                    /\ h[i].uses = IF i % 2 = 0 THEN {i \div 2} ELSE {}
                    /\ h[i].results = IF i % 2 = 1 /\ i > 1 THEN {i \div 2} ELSE {}
                    /\ h[i].tells = {h[i].id}
                    /\ h[i].condenseParent = None /\ h[i].truncationParent = None /\ h[i].cut = FALSE
  <1> DEFINE h == StartHistory(n)
             At(i) == Gap * ((3 * i - 1) \div 2)
             role(i) == IF i % 2 = 1 THEN "user" ELSE "assistant"
             uses(i) == IF i % 2 = 0 THEN {i \div 2} ELSE {}
             results(i) == IF i % 2 = 1 /\ i > 1 THEN {i \div 2} ELSE {}
             f == [i \in 1 .. 2 * n |->
                    [id |-> At(i), ts |-> At(i), role |-> role(i),
                     kind |-> "plain", uses |-> uses(i), results |-> results(i), tells |-> {At(i)},
                     condenseParent |-> None, truncationParent |-> None, cut |-> FALSE]]
  <1>1. h = f
    BY DEF StartHistory
  <1>2. ASSUME NEW i \in 1 .. 2 * n
        PROVE  /\ At(i) \in Nat /\ At(i) = Gap * Turn(i)
               /\ role(i) \in {"user", "assistant"} /\ uses(i) \in SUBSET Nat /\ results(i) \in SUBSET Nat
    <2>1. Turn(i) \in Nat /\ At(i) = Gap * Turn(i)
      BY TurnOrder DEF Turn
    <2>2. At(i) \in Nat
      BY <2>1, GapTimes
    <2>3. i \div 2 \in Nat
      OBVIOUS
    <2> QED
      BY <2>1, <2>2, <2>3
  <1> HIDE DEF At, role, uses, results
  <1>3. ASSUME NEW i \in 1 .. 2 * n
        PROVE  /\ f[i].kind = "plain" /\ f[i].id = At(i) /\ f[i].ts = At(i)
               /\ f[i].role = role(i) /\ f[i].uses = uses(i) /\ f[i].results = results(i)
               /\ f[i].tells = {At(i)}
               /\ f[i].condenseParent = None /\ f[i].truncationParent = None /\ f[i].cut = FALSE
               /\ f[i] \in Messages
    BY <1>2 DEF Messages, None
  <1>4. f \in [1 .. 2 * n -> Messages]
    BY <1>3
  <1> HIDE DEF f
  <1>5. f \in Seq(Messages) /\ Len(f) = 2 * n /\ DOMAIN f = 1 .. 2 * n
    BY <1>4
  <1> HIDE DEF h
  <1>6. ASSUME NEW i \in 1 .. 2 * n
        PROVE  /\ h[i].kind = "plain" /\ h[i].id = Gap * Turn(i) /\ h[i].ts = h[i].id
               /\ h[i].role = role(i) /\ h[i].uses = uses(i) /\ h[i].results = results(i)
               /\ h[i].tells = {h[i].id}
               /\ h[i].condenseParent = None /\ h[i].truncationParent = None /\ h[i].cut = FALSE
    BY <1>1, <1>2, <1>3
  <1> QED
    BY <1>1, <1>5, <1>6 DEF h, role, uses, results

\* The initial history is one.
LEMMA StartOK ==
    ASSUME NEW n \in Nat
    PROVE  HistoryOK(StartHistory(n), 0, Gap * (3 * n + 1), n)
  <1> DEFINE h == StartHistory(n)
             t == Gap * (3 * n + 1)
  <1>1. /\ h \in Seq(Messages) /\ Len(h) = 2 * n /\ DOMAIN h = 1 .. 2 * n
        /\ \A i \in 1 .. 2 * n :
                    /\ h[i].kind = "plain" /\ h[i].id = Gap * Turn(i) /\ h[i].ts = h[i].id
                    /\ h[i].role = IF i % 2 = 1 THEN "user" ELSE "assistant"
                    /\ h[i].uses = IF i % 2 = 0 THEN {i \div 2} ELSE {}
                    /\ h[i].results = IF i % 2 = 1 /\ i > 1 THEN {i \div 2} ELSE {}
                    /\ h[i].tells = {h[i].id}
                    /\ h[i].condenseParent = None /\ h[i].truncationParent = None /\ h[i].cut = FALSE
    BY StartDoes
  <1> HIDE DEF h
  <1>11. h \in Seq(Messages) /\ Len(h) = 2 * n /\ DOMAIN h = 1 .. 2 * n
    BY <1>1
  <1>12. \A i \in DOMAIN h : /\ h[i].uses = IF i % 2 = 0 THEN {i \div 2} ELSE {}
                             /\ h[i].role = IF i % 2 = 1 THEN "user" ELSE "assistant"
    BY <1>1
  <1>13. \A i \in DOMAIN h :
                    /\ h[i].kind = "plain" /\ h[i].ts = h[i].id /\ h[i].tells = {h[i].id}
                    /\ h[i].condenseParent = None /\ h[i].truncationParent = None
    BY <1>1
  <1>14. \A i \in DOMAIN h : h[i].results # {} => h[i].role = "user"
    BY <1>1
  <1>15. ASSUME NEW i \in DOMAIN h
         PROVE  h[i].id \in Times /\ 0 < h[i].id /\ h[i].id < t /\ h[i].id \in Nat
    <2>1. Turn(i) \in Nat /\ 0 < Turn(i) /\ Turn(i) < 3 * n + 1 /\ 3 * n + 1 \in Nat
      BY <1>11, TurnOrder
    <2>2. Gap * Turn(i) \in Times /\ 0 < Gap * Turn(i) /\ Gap * Turn(i) < t /\ Gap * Turn(i) \in Nat
      BY <2>1, GapTimes
    <2>3. h[i].id = Gap * Turn(i)
      BY <1>1
    <2> QED
      BY <2>2, <2>3
  <1>16. ASSUME NEW i \in DOMAIN h, NEW j \in DOMAIN h, i < j PROVE h[i].id < h[j].id
    <2>1. Turn(i) \in Nat /\ Turn(j) \in Nat /\ Turn(i) < Turn(j)
      BY <1>11, <1>16, TurnOrder
    <2>2. Gap * Turn(i) < Gap * Turn(j)
      BY <2>1, GapTimes
    <2>3. h[i].id = Gap * Turn(i) /\ h[j].id = Gap * Turn(j)
      BY <1>1
    <2> QED
      BY <2>2, <2>3
  <1>4. t \in Nat
    BY GapTimes
  <1> HIDE DEF t
  <1>5. ASSUME NEW i \in DOMAIN h PROVE MessageOK(h[i], 0, t, n) /\ TagOK(h[i], t)
    <2>0. i \in 1 .. 2 * n
      BY <1>11
    <2>1. h[i].uses \subseteq 1 .. n /\ (h[i].uses # {} => h[i].role = "assistant")
      <3>1. CASE i % 2 = 0
        <4>1. i \div 2 \in 1 .. n /\ i % 2 # 1
          BY <2>0, <3>1
        <4> QED
          BY <1>12, <3>1, <4>1
      <3>2. CASE i % 2 # 0
        BY <1>12, <3>2
      <3> QED
        BY <3>1, <3>2
    <2>4. MessageOK(h[i], 0, t, n)
      BY <1>13, <1>14, <1>15, <2>1 DEF MessageOK
    <2>5. TagOK(h[i], t)
      <3>1. h[i].condenseParent = 0 /\ h[i].truncationParent = 0
        BY <1>13 DEF None
      <3> QED
        BY <1>4, <1>15, <3>1 DEF TagOK, None
    <2> QED
      BY <2>4, <2>5
  <1>17. \A i \in DOMAIN h : i \in Nat /\ h[i].id \in Nat
    BY <1>11, <1>15
  <1>6. Distinct(h)
    BY <1>16, <1>17 DEF Distinct
  <1>7. InOrder(h)
    BY <1>13, <1>16, <1>17 DEF InOrder
  <1>8. UsesApart(h)
    <2> SUFFICES ASSUME NEW i \in DOMAIN h, NEW j \in DOMAIN h, i < j PROVE h[i].uses \intersect h[j].uses = {}
      BY DEF UsesApart
    <2>1. i \in 1 .. 2 * n /\ j \in 1 .. 2 * n
      BY <1>11
    <2>2. i % 2 = 0 /\ j % 2 = 0 => i \div 2 # j \div 2
      BY <2>1
    <2> QED
      BY <1>12, <2>2
  <1>9. BeginsPlain(h)
    <2>1. CASE n = 0
      BY <1>11, <2>1 DEF BeginsPlain
    <2>2. CASE n # 0
      <3>1. 1 \in DOMAIN h /\ 1 % 2 = 1
        BY <1>11, <2>2
      <3> QED
        BY <1>12, <1>13, <3>1 DEF BeginsPlain
    <2> QED
      BY <2>1, <2>2
  <1>10. HiddenBefore(h)
    BY <1>13 DEF HiddenBefore
  <1> QED
    BY <1>11, <1>5, <1>6, <1>7, <1>8, <1>9, <1>10 DEF HistoryOK, h, t

\* The initial chat: a comment after each answer but the last.
LEMMA StartChatIs ==
    ASSUME NEW n \in Nat
    PROVE  LET c == StartChat(n)
           IN  /\ ChatOK(c, Gap * (3 * n + 1)) /\ c \in Seq(ChatMessages)
               /\ DOMAIN c = 1 .. n - 1
               /\ \A i \in 1 .. n - 1 :
                      /\ c[i].ts = Gap * (3 * i) /\ c[i].kind = "feedback" /\ c[i].intact
                      /\ c[i].before = Ids(SubSeq(StartHistory(n), 1, 2 * i))
  <1> DEFINE c == StartChat(n)
             t == Gap * (3 * n + 1)
             b(i) == Ids(SubSeq(StartHistory(n), 1, 2 * i))
             T(i) == Gap * (3 * i)
             f == [i \in 1 .. n - 1 |->
                    [ts |-> T(i), kind |-> "feedback", event |-> None, before |-> b(i), intact |-> TRUE]]
  <1>1. c = f
    BY DEF StartChat
  <1>2. ASSUME NEW i \in 1 .. n - 1 PROVE b(i) \in Seq(Nat)
    <2>1. StartHistory(n) \in Seq(Messages) /\ Len(StartHistory(n)) = 2 * n
      BY StartDoes
    <2> DEFINE s == SubSeq(StartHistory(n), 1, 2 * i)
    <2>2. s \in Seq(Messages)
      BY <2>1
    <2> HIDE DEF s
    <2>3. Len(s) \in Nat /\ DOMAIN s = 1 .. Len(s) /\ \A j \in DOMAIN s : s[j].id \in Nat
      BY <2>2, MessageFields
    <2>4. [j \in DOMAIN s |-> s[j].id] \in Seq(Nat)
      BY <2>3
    <2> QED
      BY <2>4 DEF Ids, s
  <1>3. ASSUME NEW i \in 1 .. n - 1 PROVE T(i) \in Times /\ T(i) \in Nat /\ 0 < T(i) /\ T(i) < t
    <2>1. 3 * i \in Nat /\ 0 < 3 * i /\ 3 * i < 3 * n + 1 /\ 3 * n + 1 \in Nat
      OBVIOUS
    <2> QED
      BY <2>1, GapTimes
  <1>4. ASSUME NEW i \in 1 .. n - 1, NEW j \in 1 .. n - 1, i < j PROVE T(i) < T(j)
    <2>1. 3 * i \in Nat /\ 3 * j \in Nat /\ 3 * i < 3 * j
      BY <1>4
    <2> QED
      BY <2>1, GapTimes
  <1> HIDE DEF b, T, t
  <1>5. ASSUME NEW i \in 1 .. n - 1
        PROVE  /\ f[i] \in ChatMessages /\ f[i].ts = T(i) /\ f[i].kind = "feedback"
               /\ f[i].event = None /\ f[i].before = b(i) /\ f[i].intact = TRUE
    BY <1>2, <1>3 DEF ChatMessages, None
  <1>6. f \in [1 .. n - 1 -> ChatMessages] /\ DOMAIN f = 1 .. n - 1
    BY <1>5
  <1> HIDE DEF f
  <1>7. f \in Seq(ChatMessages)
    <2>1. CASE n = 0
      <3>1. DOMAIN f = {} /\ f \in [{} -> ChatMessages]
        BY <1>6, <2>1
      <3>2. 1 .. 0 = {}
        OBVIOUS
      <3>3. f \in [1 .. 0 -> ChatMessages]
        BY <3>1, <3>2
      <3> QED
        BY <3>3
    <2>2. CASE n # 0
      <3>1. n - 1 \in Nat
        BY <2>2
      <3> QED
        BY <1>6, <3>1
    <2> QED
      BY <2>1, <2>2
  <1>8. \A i \in DOMAIN f : ChatMessageOK(f[i], t)
    BY <1>3, <1>5, <1>6 DEF ChatMessageOK
  <1>9. InTurn(f)
    BY <1>4, <1>5, <1>6 DEF InTurn
  <1>10. ChatOK(f, t)
    BY <1>7, <1>8, <1>9 DEF ChatOK
  <1> HIDE DEF c
  <1> QED
    BY <1>1, <1>5, <1>6, <1>7, <1>10 DEF c, t, b, T

-----------------------------------------------------------------------------
(* What the operations have in common. *)

\* The messages of g are those of h, or saved now.
Kin(g, h) ==
    /\ \A i \in DOMAIN g : g[i].id = now \/ \E j \in DOMAIN h : Same(g[i], h[j])
    /\ g # <<>> => h # <<>> /\ g[1].ts = h[1].ts

\* What was derived from a history shares no times with comments either.
LEMMA KinApart ==
    ASSUME NEW g, NEW h, Kin(g, h), NEW c, CommentsApart(h, c), ChatOK(c, now), now \in Nat
    PROVE  CommentsApart(g, c)
  <1> SUFFICES ASSUME NEW i \in DOMAIN c, c[i].kind = "feedback"
               PROVE  (\A j \in DOMAIN g : g[j].id # c[i].ts) /\ (g # <<>> => g[1].ts < c[i].ts)
    BY DEF CommentsApart
  <1>1. c[i].ts < now /\ c[i].ts \in Nat
    BY TimesApart DEF ChatOK, ChatMessageOK
  <1>2. ASSUME NEW j \in DOMAIN g PROVE g[j].id # c[i].ts
    <2>1. CASE g[j].id = now
      BY <1>1, <2>1
    <2>2. CASE \E l \in DOMAIN h : Same(g[j], h[l])
      BY <2>2 DEF Same, CommentsApart
    <2> QED
      BY <2>1, <2>2 DEF Kin
  <1>3. g # <<>> => g[1].ts < c[i].ts
    BY DEF Kin, CommentsApart
  <1> QED
    BY <1>2, <1>3

\* A derived history is kin to what it was derived from.
LEMMA DerivedKin ==
    ASSUME NEW g, NEW h, NEW o, NEW p, Derived(g, h, o, p), p \in DOMAIN g => g[p].id = now,
           1 # p, g # <<>> => o[1] = 1
    PROVE  Kin(g, h)
  <1>1. \A i \in DOMAIN g : g[i].id = now \/ \E j \in DOMAIN h : Same(g[i], h[j])
    BY DEF Derived
  <1>2. g # <<>> => 1 \in DOMAIN g
    BY DEF Derived
  <1>3. g # <<>> => 1 \in DOMAIN h /\ Same(g[1], h[1])
    BY <1>2 DEF Derived
  <1>4. 1 \in DOMAIN h => h # <<>>
    OBVIOUS
  <1> QED
    BY <1>1, <1>3, <1>4 DEF Kin, Same

\* No message of h has a call of C.
Without(h, C) == \A i \in DOMAIN h : IsPlain(h[i]) => h[i].uses \intersect C = {}

\* No message comes to have a call.
LEMMA DerivedWithout ==
    ASSUME NEW g, NEW h, NEW o, NEW p, Derived(g, h, o, p), NEW C, Without(h, C),
           p \in DOMAIN g /\ IsPlain(g[p]) => g[p].uses = {}
    PROVE  Without(g, C)
  <1> SUFFICES ASSUME NEW i \in DOMAIN g, IsPlain(g[i]) PROVE g[i].uses \intersect C = {}
    BY DEF Without
  <1>1. CASE i = p
    BY <1>1
  <1>2. CASE i # p
    <2>1. o[i] \in DOMAIN h /\ Same(g[i], h[o[i]])
      BY <1>2 DEF Derived
    <2> QED
      BY <2>1 DEF Without, Same, IsPlain
  <1> QED
    BY <1>1, <1>2

\* The empty history is one.
LEMMA EmptyOK ==
    ASSUME NEW d, NEW t, NEW k, NEW c
    PROVE  HistoryOK(<<>>, d, t, k) /\ FreshCalls(<<>>) /\ CommentsApart(<<>>, c)
  BY DEF HistoryOK, Distinct, InOrder, UsesApart, BeginsPlain, HiddenBefore, FreshCalls, CommentsApart

\* Spoiling links moves no comment.
LEMMA SameChatApart ==
    ASSUME NEW h, NEW c, CommentsApart(h, c), NEW g, SameChat(g, c)
    PROVE  CommentsApart(h, g)
  BY DEF CommentsApart, SameChat

\* A message posted now shares no time with the history.
LEMMA AppendApart ==
    ASSUME NEW h, NEW c, CommentsApart(h, c), NEW d, NEW k, NEW t \in Times, 0 < t, ChatOK(c, t),
           HistoryOK(h, d, t, k), NEW m, Posted(m, t)
    PROVE  CommentsApart(h, Append(c, m))
  <1> DEFINE g == Append(c, m)
  <1>1. /\ DOMAIN g = 1 .. Len(c) + 1 /\ Len(c) \in Nat /\ DOMAIN c = 1 .. Len(c)
        /\ g[Len(c) + 1] = m /\ \A i \in 1 .. Len(c) : g[i] = c[i]
    BY ChatAppend
  <1> HIDE DEF g
  <1>2. h \in Seq(Messages) /\ t \in Nat
    BY TimesApart DEF HistoryOK
  <1> SUFFICES ASSUME NEW i \in DOMAIN g, g[i].kind = "feedback"
               PROVE  (\A j \in DOMAIN h : h[j].id # g[i].ts) /\ (h # <<>> => h[1].ts < g[i].ts)
    BY DEF CommentsApart, g
  <1>3. CASE i = Len(c) + 1
    <2>1. g[i].ts = t
      BY <1>1, <1>3 DEF Posted
    <2>2. \A j \in DOMAIN h : h[j].id < t /\ h[j].id \in Nat
      BY <1>2, MessageFields DEF HistoryOK, MessageOK
    <2>3. h # <<>> => 1 \in DOMAIN h
      BY <1>2
    <2>4. h # <<>> => h[1].ts = h[1].id
      BY <2>3 DEF HistoryOK, MessageOK, BeginsPlain
    <2> QED
      BY <1>2, <2>1, <2>2, <2>3, <2>4
  <1>4. CASE i # Len(c) + 1
    <2>1. i \in DOMAIN c /\ g[i] = c[i]
      BY <1>1, <1>4
    <2> QED
      BY <2>1 DEF CommentsApart
  <1> QED
    BY <1>3, <1>4

\* The clock and the count of reductions.
LEMMA Ticks ==
    ASSUME Loop
    PROVE  /\ now \in Nat /\ now + Gap \in Nat /\ now + Gap \in Times /\ 0 < now + Gap /\ now <= now + Gap
           /\ reductions \in Nat /\ reductions - 1 \in Int /\ MaxReductions \in Nat
           /\ reductions <= MaxReductions
  BY TimesApart, GapNat DEF Loop

\* The chat message of a condensation or a truncation.
LEMMA EventPosted ==
    ASSUME NEW kind \in {"condensed", "truncated"}, now \in Nat
    PROVE  /\ Posted(Event(kind), now) /\ Event(kind).kind = kind /\ Event(kind).event = now
           /\ Posted([Event(kind) EXCEPT !.event = None], now)
  <1>1. ASSUME NEW b, b = <<>> PROVE b \in Seq(Nat)
    BY <1>1
  <1>2. Event(kind) = [ts |-> now, kind |-> kind, event |-> now, before |-> <<>>, intact |-> FALSE]
    BY DEF Event
  <1>3. Posted(Event(kind), now) /\ Event(kind).kind = kind /\ Event(kind).event = now
    BY <1>1, <1>2 DEF Posted, ChatMessages, None
  <1>4. ASSUME NEW m \in ChatMessages, NEW x, x = [m EXCEPT !.event = None]
        PROVE  x \in ChatMessages /\ x.ts = m.ts /\ x.kind = m.kind /\ x.event = None /\ x.intact = m.intact
    BY <1>4 DEF ChatMessages, None
  <1>6. Event(kind) \in ChatMessages /\ Event(kind).ts = now /\ Event(kind).intact = FALSE
    BY <1>2, <1>3 DEF Posted
  <1> DEFINE y == [Event(kind) EXCEPT !.event = None]
  <1>7. /\ y \in ChatMessages /\ y.ts = Event(kind).ts /\ y.kind = Event(kind).kind
        /\ y.event = None /\ y.intact = Event(kind).intact
    BY <1>4, <1>6
  <1> HIDE DEF y
  <1>8. Posted(y, now)
    BY <1>3, <1>6, <1>7 DEF Posted
  <1>5. Posted([Event(kind) EXCEPT !.event = None], now)
    BY <1>8 DEF y
  <1> QED
    BY <1>3, <1>5

\* A comment of the user.
LEMMA FeedbackPosted ==
    ASSUME now \in Nat, api \in Seq(Messages)
    PROVE  /\ Posted(Feedback, now) /\ Feedback.kind = "feedback"
           /\ Feedback.before = Ids(EffectiveHistory(api)) /\ Feedback.intact = TRUE
  <1> DEFINE e == EffectiveHistory(api)
             b == Ids(e)
  <1>1. e \in Seq(Messages)
    BY SelectedIndices DEF EffectiveHistory
  <1> HIDE DEF e
  <1>2. Len(e) \in Nat /\ DOMAIN e = 1 .. Len(e) /\ \A j \in DOMAIN e : e[j].id \in Nat
    BY <1>1, MessageFields
  <1>3. b \in Seq(Nat)
    BY <1>2 DEF Ids
  <1> HIDE DEF b
  <1>4. Feedback = [ts |-> now, kind |-> "feedback", event |-> None, before |-> b, intact |-> TRUE]
    BY DEF Feedback, b, e
  <1> QED
    BY <1>3, <1>4 DEF Posted, ChatMessages, None, b, e

-----------------------------------------------------------------------------
(* Every action keeps the invariant behind TypeOK. *)

\* Initially the invariant holds.
LEMMA TypeInit == Init => TypeInv
  <1> SUFFICES ASSUME Init PROVE TypeInv
    OBVIOUS
  <1>1. PICK n \in StartTurns :
            /\ api = StartHistory(n) /\ chat = StartChat(n)
            /\ calls = (IF n = 0 THEN {} ELSE {n}) /\ open = calls
            /\ now = Gap * (3 * n + 1) /\ made = n /\ pc = "tools"
            /\ pending = {} /\ manual = <<>> /\ reductions = 0
    BY DEF Init
  <1>2. n \in Nat
    BY HistoryAssumption DEF HistoryAssumption
  <1>3. /\ api \in Seq(Messages) /\ Len(api) = 2 * n /\ DOMAIN api = 1 .. 2 * n
        /\ \A i \in 1 .. 2 * n : api[i].id = Gap * Turn(i) /\ api[i].ts = api[i].id
    BY <1>1, <1>2, StartDoes
  <1>4. /\ ChatOK(chat, now) /\ chat \in Seq(ChatMessages) /\ DOMAIN chat = 1 .. n - 1
        /\ \A i \in 1 .. n - 1 : chat[i].ts = Gap * (3 * i)
    BY <1>1, <1>2, StartChatIs
  <1>5. HistoryOK(api, 0, now, n)
    BY <1>1, <1>2, StartOK
  <1>6. HistoryOK(manual, reductions - 1, now, made) /\ FreshCalls(manual) /\ CommentsApart(manual, chat)
    BY <1>1, EmptyOK
  <1>7. Loop
    <2>1. now \in Times /\ 0 < now
      <3>1. 3 * n + 1 \in Nat /\ 0 < 3 * n + 1
        BY <1>2
      <3> QED
        BY <1>1, <3>1, GapTimes
    <2>2. calls \subseteq 1 .. made
      BY <1>1, <1>2
    <2>3. api = <<>> => open = {} /\ chat = <<>>
      <3> SUFFICES ASSUME api = <<>> PROVE open = {} /\ chat = <<>>
        OBVIOUS
      <3>1. n = 0
        BY <1>2, <1>3
      <3>2. open = {}
        BY <1>1, <3>1
      <3>3. DOMAIN chat = {}
        BY <1>4, <3>1
      <3> QED
        BY <1>4, <3>2, <3>3
    <2>4. reductions \in 0 .. MaxReductions
      BY <1>1, GapNat
    <2> QED
      BY <1>1, <1>2, <2>1, <2>2, <2>3, <2>4 DEF Loop
  <1>8. FreshCalls(api)
    BY <1>1 DEF FreshCalls
  <1>9. CommentsApart(api, chat)
    <2> SUFFICES ASSUME NEW i \in DOMAIN chat
                 PROVE  (\A j \in DOMAIN api : api[j].id # chat[i].ts) /\ (api # <<>> => api[1].ts < chat[i].ts)
      BY DEF CommentsApart
    <2>1. i \in 1 .. n - 1 /\ 3 * i \in Nat /\ chat[i].ts = Gap * (3 * i)
      BY <1>2, <1>4
    <2>2. ASSUME NEW j \in DOMAIN api PROVE api[j].id # chat[i].ts
      <3>0. j \in 1 .. 2 * n /\ i \in Nat
        BY <1>2, <1>3, <2>1
      <3>1. Turn(j) \in Nat /\ Turn(j) # 3 * i
        BY <1>2, <3>0, TurnOrder
      <3>2. Gap * Turn(j) # Gap * (3 * i)
        BY <2>1, <3>1, GapTimes
      <3> QED
        BY <1>3, <2>1, <3>2
    <2>3. api[1].ts < chat[i].ts
      <3>1. Turn(1) \in Nat /\ Turn(1) < 3 * i /\ 1 \in 1 .. 2 * n
        BY <1>2, <2>1 DEF Turn
      <3>2. Gap * Turn(1) < Gap * (3 * i)
        BY <2>1, <3>1, GapTimes
      <3> QED
        BY <1>3, <2>1, <3>1, <3>2
    <2> QED
      BY <2>2, <2>3
  <1> QED
    BY <1>1, <1>4, <1>5, <1>6, <1>7, <1>8, <1>9 DEF TypeInv

\* A user message is saved with the results at hand.
LEMMA UserMessageSaved ==
    ASSUME TypeInv
    PROVE  LET g == Append(api, UserMessage)
           IN  /\ HistoryOK(g, reductions, now + Gap, made)
               /\ (api # <<>> => Kin(g, api)) /\ g # <<>>
               /\ \A C : Without(api, C) => Without(g, C)
               /\ Saved(UserMessage, now, made) /\ UserMessage.role = "user" /\ UserMessage.uses = {}
               /\ UserMessage.results = ResultsFor(pending, api) /\ UserMessage.tells = {now}
  <1> DEFINE x == UserMessage
             g == Append(api, x)
  <1>1. now \in Times /\ 0 < now /\ now \in Nat /\ made \in Nat /\ reductions \in Nat /\ pending \subseteq 1 .. made
    BY Ticks DEF TypeInv, Loop
  <1>2. HistoryOK(api, reductions, now, made) /\ api \in Seq(Messages)
    BY DEF TypeInv, HistoryOK
  <1>3. /\ Saved(x, now, made) /\ x.role = "user" /\ x.uses = {}
        /\ x.results = ResultsFor(pending, api) /\ x.tells = {now}
    BY <1>1, <1>2, UserMessageIs
  <1> HIDE DEF x
  <1>4. HistoryOK(g, reductions, now + Gap, made)
    BY <1>1, <1>2, <1>3, AppendedOK
  <1>5. /\ Derived(g, api, Itself, Len(api) + 1)
        /\ DOMAIN g = 1 .. Len(api) + 1 /\ g[Len(api) + 1] = x
        /\ \A i \in 1 .. Len(api) : g[i] = api[i]
    BY <1>2, <1>3, AppendDerives DEF Saved
  <1> HIDE DEF g
  <1>6. g # <<>>
    <2>1. 1 \in DOMAIN g
      BY <1>2, <1>5
    <2> QED
      BY <2>1
  <1>7. \A C : Without(api, C) => Without(g, C)
    BY <1>3, <1>5, DerivedWithout
  <1>8. ASSUME api # <<>> PROVE Kin(g, api)
    <2>1. 1 # Len(api) + 1 /\ Itself[1] = 1
      BY <1>2, <1>8 DEF Itself
    <2>2. g[Len(api) + 1].id = now
      BY <1>3, <1>5 DEF Saved
    <2> QED
      BY <1>5, <2>1, <2>2, DerivedKin
  <1> QED
    BY <1>3, <1>4, <1>6, <1>7, <1>8 DEF g, x

\* Saving the user's message keeps the invariant.
LEMMA AddUserTypes ==
    ASSUME TypeInv, AddUser
    PROVE  TypeInv'
  <1>1. /\ pc = "tools" /\ api' = Append(api, UserMessage) /\ pending' = {} /\ pc' = "request"
        /\ now' = now + Gap /\ open = {}
        /\ UNCHANGED <<chat, calls, open, manual, made, reductions, rewinds>>
    BY DEF AddUser, Tick
  <1>2. Loop /\ now \in Nat /\ now' \in Nat /\ now' \in Times /\ 0 < now' /\ now <= now' /\ made \in Nat
        /\ reductions \in Nat /\ reductions - 1 \in Int
    BY <1>1, Ticks DEF TypeInv, Loop
  <1>3. HistoryOK(api', reductions, now', made) /\ (api # <<>> => Kin(api', api)) /\ api' # <<>>
    BY <1>1, UserMessageSaved
  <1>4. HistoryOK(manual, reductions - 1, now', made)
    BY <1>2, HistoryLater DEF TypeInv
  <1>5. ChatOK(chat, now')
    BY <1>2, ChatLater DEF TypeInv
  <1>6. CommentsApart(api', chat)
    <2>1. CASE api = <<>>
      <3>1. chat = <<>>
        BY <1>2, <2>1 DEF Loop
      <3> QED
        BY <3>1 DEF CommentsApart
    <2>2. CASE api # <<>>
      BY <1>2, <1>3, <2>2, KinApart DEF TypeInv
    <2> QED
      BY <2>1, <2>2
  <1>7. Loop'
    BY <1>1, <1>2, <1>3 DEF Loop
  <1>8. FreshCalls(api)' /\ FreshCalls(manual)'
    BY <1>1 DEF FreshCalls
  <1> QED
    BY <1>1, <1>3, <1>4, <1>5, <1>6, <1>7, <1>8 DEF TypeInv

\* The response and its calls.
LEMMA StartResponseTypes ==
    ASSUME TypeInv, StartResponse
    PROVE  TypeInv'
  <1>1. /\ pc = "request" /\ pc' = "stream" /\ open' = calls'
        /\ UNCHANGED <<api, chat, pending, manual, now, reductions, rewinds>>
    BY DEF StartResponse
  <1>2. PICK n \in 0 .. MaxCalls : calls' = made + 1 .. made + n /\ made' = made + n
    BY DEF StartResponse
  <1>3. MaxCalls \in Nat
    BY HistoryAssumption DEF HistoryAssumption
  <1>4. Loop /\ now \in Nat /\ made \in Nat /\ reductions \in Nat /\ reductions - 1 \in Int
    BY Ticks DEF TypeInv, Loop
  <1>5. made' \in Nat /\ made <= made' /\ calls' \subseteq 1 .. made'
    BY <1>2, <1>3, <1>4
  <1>6. HistoryOK(api, reductions, now, made') /\ HistoryOK(manual, reductions - 1, now, made')
    BY <1>4, <1>5, HistoryLater DEF TypeInv
  <1>7. ASSUME NEW h, NEW d, HistoryOK(h, d, now, made), NEW i \in DOMAIN h
        PROVE  h[i].uses \intersect calls' = {}
    <2>1. h[i].uses \subseteq 1 .. made
      BY <1>7 DEF HistoryOK, MessageOK
    <2> QED
      BY <1>2, <1>3, <1>4, <2>1
  <1>8. FreshCalls(api)' /\ FreshCalls(manual)'
    BY <1>1, <1>7 DEF FreshCalls, TypeInv
  <1>9. Loop'
    <2>1. pending' = {} /\ api # <<>>
      BY <1>1, <1>4 DEF Loop
    <2> QED
      BY <1>1, <1>4, <1>5, <2>1 DEF Loop
  <1> QED
    BY <1>1, <1>6, <1>8, <1>9 DEF TypeInv, ChatOK, CommentsApart

\* A tool that ends, and a comment.
LEMMA RunToolTypes ==
    ASSUME TypeInv, RunTool
    PROVE  TypeInv'
  <1>1. /\ pc \in {"stream", "tools"} /\ open # {} /\ open' \subseteq open
        /\ pending' \subseteq pending \union open
        /\ UNCHANGED <<api, pc, calls, manual, made, reductions, rewinds>>
    <2>1. /\ pc \in {"stream", "tools"} /\ open # {} /\ open' = open \ {Min(open)}
          /\ pending' = pending \union {Min(open)}
          /\ UNCHANGED <<api, pc, calls, manual, made, reductions, rewinds>>
      BY DEF RunTool
    <2>2. open \subseteq Nat
      BY DEF TypeInv, Loop
    <2>3. Min(open) \in open
      BY <2>1, <2>2, LeastIn
    <2> QED
      BY <2>1, <2>3
  <1>2. Loop /\ now \in Nat /\ now \in Times /\ 0 < now /\ made \in Nat /\ reductions \in Nat /\ reductions - 1 \in Int
    BY Ticks DEF TypeInv, Loop
  <1>3. FreshCalls(api)' /\ FreshCalls(manual)'
    BY <1>1 DEF TypeInv, FreshCalls
  <1>0. api # <<>> /\ open' \subseteq calls /\ pending' \subseteq calls
    BY <1>1, <1>2 DEF Loop
  <1>4. CASE UNCHANGED <<chat, now>>
    <2>1. Loop'
      BY <1>0, <1>1, <1>2, <1>4 DEF Loop
    <2> QED
      BY <1>1, <1>3, <1>4, <2>1 DEF TypeInv, ChatOK, CommentsApart
  <1>5. CASE chat' = Append(chat, Feedback) /\ Tick
    <2>1. now' = now + Gap /\ now' \in Nat /\ now' \in Times /\ 0 < now' /\ now <= now'
      BY <1>2, <1>5, Ticks DEF Tick
    <2>2. HistoryOK(api, reductions, now', made) /\ HistoryOK(manual, reductions - 1, now', made)
      BY <1>2, <2>1, HistoryLater DEF TypeInv
    <2>3. Posted(Feedback, now)
      BY <1>2, FeedbackPosted DEF TypeInv, HistoryOK
    <2>4. ChatOK(chat', now')
      BY <1>2, <1>5, <2>1, <2>3, ChatAppend DEF TypeInv
    <2>5. CommentsApart(api, chat') /\ CommentsApart(manual, chat')
      BY <1>2, <1>5, <2>3, AppendApart DEF TypeInv
    <2>6. Loop'
      BY <1>0, <1>1, <1>2, <2>1 DEF Loop
    <2> QED
      BY <1>1, <1>3, <2>2, <2>4, <2>5, <2>6 DEF TypeInv
  <1> QED
    BY <1>4, <1>5 DEF RunTool

\* Saving the answer.
LEMMA AddAssistantTypes ==
    ASSUME TypeInv, AddAssistant
    PROVE  TypeInv'
  <1> DEFINE x == Plain("assistant", calls, {})
  <1>1. /\ pc = "stream" /\ api' = Append(api, x) /\ chat' = WithAnswer(chat, Last(api'))
        /\ pc' = "tools" /\ now' = now + Gap
        /\ UNCHANGED <<calls, open, pending, manual, made, reductions, rewinds>>
    BY DEF AddAssistant, Tick
  <1>2. /\ Loop /\ now \in Nat /\ now \in Times /\ 0 < now /\ now' \in Nat /\ now' \in Times /\ 0 < now'
        /\ now <= now' /\ made \in Nat /\ reductions \in Nat /\ reductions - 1 \in Int
        /\ calls \subseteq 1 .. made
    BY <1>1, Ticks DEF TypeInv, Loop
  <1>3. calls \in SUBSET Nat
    BY <1>2
  <1>4. /\ Saved(x, now, made) /\ x.role = "assistant" /\ x.uses = calls /\ x.results = {}
        /\ x.tells = {now} /\ x.ts = now
    BY <1>2, <1>3, AnswerIs
  <1> HIDE DEF x
  <1>5. api # <<>> /\ api \in Seq(Messages) /\ HistoryOK(api, reductions, now, made)
    BY <1>1, <1>2 DEF TypeInv, Loop, HistoryOK
  <1>6. \A i \in DOMAIN api : IsPlain(api[i]) => api[i].uses \intersect x.uses = {}
    BY <1>1, <1>4 DEF TypeInv, FreshCalls
  <1>7. HistoryOK(api', reductions, now', made)
    BY <1>1, <1>2, <1>4, <1>5, <1>6, AppendedOK
  <1>8. /\ Derived(api', api, Itself, Len(api) + 1)
        /\ DOMAIN api' = 1 .. Len(api) + 1 /\ api'[Len(api) + 1] = x
    BY <1>1, <1>4, <1>5, AppendDerives DEF Saved
  <1>9. Kin(api', api) /\ api' # <<>> /\ Last(api') = x
    <2>1. 1 # Len(api) + 1 /\ Itself[1] = 1 /\ x \in Messages /\ x.id = now
      BY <1>4, <1>5 DEF Itself, Saved
    <2>2. Kin(api', api)
      BY <1>8, <2>1, DerivedKin
    <2>3. 1 \in DOMAIN api'
      BY <1>5, <1>8
    <2>4. api' \in Seq(Messages)
      BY <1>8 DEF Derived
    <2>5. Len(api') = Len(api) + 1
      BY <1>5, <1>8, <2>4
    <2> QED
      BY <1>8, <2>2, <2>3, <2>5 DEF Last
  <1>10. SameChat(chat', chat)
    <2>1. x.id \in Nat
      BY <1>2, <1>4 DEF Saved
    <2>2. chat' = WithAnswer(chat, x) /\ chat \in Seq(ChatMessages)
      BY <1>1, <1>9 DEF TypeInv, ChatOK
    <2> QED
      BY <2>1, <2>2, WithAnswerDoes
  <1>11. ChatOK(chat', now')
    <2>1. ChatOK(chat', now)
      BY <1>10, SameChatOK DEF TypeInv
    <2> QED
      BY <1>2, <2>1, ChatLater
  <1>12. CommentsApart(api', chat') /\ CommentsApart(manual, chat')
    <2>1. CommentsApart(api', chat) /\ CommentsApart(manual, chat)
      BY <1>2, <1>9, KinApart DEF TypeInv
    <2> QED
      BY <1>10, <2>1, SameChatApart
  <1>13. HistoryOK(manual, reductions - 1, now', made)
    BY <1>2, HistoryLater DEF TypeInv
  <1>14. Loop'
    BY <1>1, <1>2, <1>9 DEF Loop
  <1>15. FreshCalls(api)' /\ FreshCalls(manual)'
    BY <1>1 DEF FreshCalls
  <1> QED
    BY <1>1, <1>7, <1>11, <1>12, <1>13, <1>14, <1>15 DEF TypeInv

\* The chat is marked, and may get a message about the context.
Follows(g, c) ==
    \/ SameChat(g, c)
    \/ \E b, m : SameChat(b, c) /\ Posted(m, now) /\ m.kind # "feedback" /\ g = Append(b, m)

\* A chat that an operation leaves is one.
LEMMA FollowsOK ==
    ASSUME Loop, NEW c, ChatOK(c, now), NEW g, Follows(g, c)
    PROVE  /\ ChatOK(g, now + Gap)
           /\ \A h : CommentsApart(h, c) => CommentsApart(h, g)
  <1>1. now \in Times /\ 0 < now /\ now \in Nat /\ now + Gap \in Nat /\ now <= now + Gap
    BY Ticks DEF Loop
  <1>2. CASE SameChat(g, c)
    <2> DEFINE u == now + Gap
    <2>1. ChatOK(g, now) /\ u \in Nat /\ now <= u
      BY <1>1, <1>2, SameChatOK
    <2> HIDE DEF u
    <2>2. ChatOK(g, u)
      BY <1>1, <2>1, ChatLater
    <2>3. \A h : CommentsApart(h, c) => CommentsApart(h, g)
      BY <1>2, SameChatApart
    <2> QED
      BY <2>2, <2>3 DEF u
  <1>3. CASE \E b, m : SameChat(b, c) /\ Posted(m, now) /\ m.kind # "feedback" /\ g = Append(b, m)
    <2> PICK b, m : SameChat(b, c) /\ Posted(m, now) /\ m.kind # "feedback" /\ g = Append(b, m)
      BY <1>3
    <2>1. ChatOK(b, now)
      BY SameChatOK
    <2>2. /\ ChatOK(g, now + Gap)
          /\ DOMAIN g = 1 .. Len(b) + 1 /\ Len(b) \in Nat /\ DOMAIN b = 1 .. Len(b)
          /\ g[Len(b) + 1] = m /\ \A i \in 1 .. Len(b) : g[i] = b[i]
      BY <1>1, <2>1, ChatAppend
    <2>3. ASSUME NEW h, CommentsApart(h, c) PROVE CommentsApart(h, g)
      <3>1. CommentsApart(h, b)
        BY <2>3, SameChatApart
      <3>2. \A i \in DOMAIN g : g[i].kind = "feedback" => i \in DOMAIN b /\ g[i] = b[i]
        BY <2>2
      <3> QED
        BY <3>1, <3>2 DEF CommentsApart
    <2> QED
      BY <2>2, <2>3
  <1> QED
    BY <1>2, <1>3 DEF Follows

\* Doing nothing to the chat.
LEMMA SameChatReflexive ==
    ASSUME NEW c \in Seq(ChatMessages) PROVE SameChat(c, c)
  BY DEF SameChat

\* What an action that reduces the history before a request does to the rest.
LEMMA ReducesTypes ==
    ASSUME TypeInv, pc = "request", Reduces, UNCHANGED <<pending, manual>>,
           HistoryOK(api', reductions + 1, now + Gap, made), Kin(api', api), api' # <<>>,
           Follows(chat', chat)
    PROVE  TypeInv'
  <1>1. /\ reductions < MaxReductions /\ reductions' = reductions + 1 /\ now' = now + Gap
        /\ UNCHANGED <<pc, calls, open, made, rewinds>>
    BY DEF Reduces, Tick
  <1>2. /\ Loop /\ now \in Nat /\ now' \in Nat /\ now' \in Times /\ 0 < now' /\ now <= now'
        /\ made \in Nat /\ reductions \in Nat /\ MaxReductions \in Nat
        /\ reductions - 1 \in Int /\ reductions' - 1 \in Int /\ reductions - 1 <= reductions' - 1
    BY <1>1, Ticks DEF TypeInv, Loop
  <1>3. HistoryOK(manual, reductions' - 1, now', made)
    <2> DEFINE d == reductions - 1
               d2 == reductions' - 1
    <2>1. d \in Int /\ d2 \in Int /\ d <= d2 /\ HistoryOK(manual, d, now, made)
      BY <1>2 DEF TypeInv
    <2> HIDE DEF d, d2
    <2>2. HistoryOK(manual, d2, now', made)
      BY <1>2, <2>1, HistoryLater
    <2> QED
      BY <2>2 DEF d2
  <1>4. ChatOK(chat', now') /\ \A h : CommentsApart(h, chat) => CommentsApart(h, chat')
    BY <1>1, <1>2, FollowsOK DEF TypeInv
  <1>5. CommentsApart(api', chat') /\ CommentsApart(manual, chat')
    <2>1. CommentsApart(api', chat)
      BY <1>2, KinApart DEF TypeInv
    <2> QED
      BY <1>4, <2>1 DEF TypeInv
  <1>6. Loop'
    BY <1>1, <1>2 DEF Loop
  <1>7. FreshCalls(api)' /\ FreshCalls(manual)'
    BY <1>1 DEF FreshCalls
  <1> QED
    BY <1>1, <1>3, <1>4, <1>5, <1>6, <1>7 DEF TypeInv

\* What a condensation leaves.
LEMMA CondensedTypes ==
    ASSUME NEW h, NEW d \in Nat, NEW k \in Nat, HistoryOK(h, d, now, k), d <= MaxReductions,
           CanCondense(h), Loop
    PROVE  /\ HistoryOK(Condensed(h), d + 1, now + Gap, k)
           /\ Kin(Condensed(h), h) /\ Condensed(h) # <<>>
           /\ \A C : Without(h, C) => Without(Condensed(h), C)
  <1> DEFINE g == Condensed(h)
             p == KeepStart(h) + 1
  <1>1. now \in Times /\ now \in Nat /\ h \in Seq(Messages) /\ SummariesAnswer(h)
    BY Ticks, SummariesAnswerOK DEF Loop, HistoryOK
  <1>2. HistoryOK(g, d + 1, now + Gap, k)
    BY <1>1, CondensedOK
  <1>3. /\ Derived(g, h, Shift(p), p) /\ DOMAIN g = 1 .. Len(h) + 1 /\ p \in 2 .. Len(h)
        /\ g[p] = Summary(h) /\ \A i \in DOMAIN g : i < p => Shift(p)[i] = i
    BY <1>1, CondensedDoes
  <1> HIDE DEF g, p
  <1>4. Summary(h).id = now /\ Summary(h).kind = "summary"
    BY <1>1, SummaryIs
  <1>5. 1 \in DOMAIN g /\ 1 # p /\ Shift(p)[1] = 1
    BY <1>1, <1>3
  <1>6. Kin(g, h)
    BY <1>3, <1>4, <1>5, DerivedKin
  <1>7. \A C : Without(h, C) => Without(g, C)
    BY <1>3, <1>4, DerivedWithout DEF IsPlain
  <1>8. g # <<>>
    BY <1>5
  <1> QED
    BY <1>2, <1>6, <1>7, <1>8 DEF g

\* What a truncation leaves.
LEMMA TruncatedTypes ==
    ASSUME NEW h, NEW d \in Nat, NEW k \in Nat, HistoryOK(h, d, now, k), d <= MaxReductions,
           Loop, h # <<>>
    PROVE  /\ HistoryOK(Truncated(h), d + 1, now + Gap, k)
           /\ Kin(Truncated(h), h) /\ Truncated(h) # <<>>
  <1> DEFINE g == Truncated(h)
             p == MarkerAt(h)
  <1>1. now \in Times /\ now \in Nat /\ h \in Seq(Messages) /\ BeginsPlain(h)
    BY Ticks DEF Loop, HistoryOK
  <1>2. HistoryOK(g, d + 1, now + Gap, k)
    BY <1>1, TruncatedOK
  <1>3. \/ g = h
        \/ /\ Derived(g, h, Shift(p), p) /\ DOMAIN g = 1 .. Len(h) + 1 /\ p \in 2 .. Len(h)
           /\ g[p] = Marker(h, p) /\ \A i \in DOMAIN g : i < p => Shift(p)[i] = i
    BY <1>1, TruncatedDoes
  <1> HIDE DEF g, p
  <1>4. CASE g = h
    BY <1>2, <1>4 DEF Kin, Same, g
  <1>5. CASE /\ Derived(g, h, Shift(p), p) /\ DOMAIN g = 1 .. Len(h) + 1 /\ p \in 2 .. Len(h)
             /\ g[p] = Marker(h, p) /\ \A i \in DOMAIN g : i < p => Shift(p)[i] = i
    <2>1. Marker(h, p).id = now
      <3>1. p \in 1 .. Len(h)
        BY <1>5
      <3> QED
        BY <1>1, <3>1, MarkerIs
    <2>2. 1 \in DOMAIN g /\ 1 # p /\ Shift(p)[1] = 1
      BY <1>1, <1>5
    <2>3. Kin(g, h)
      BY <1>5, <2>1, <2>2, DerivedKin
    <2>4. g # <<>>
      BY <2>2
    <2> QED
      BY <1>2, <2>3, <2>4 DEF g
  <1> QED
    BY <1>3, <1>4, <1>5

\* A condensation before a request.
LEMMA CondenseBeforeRequestTypes ==
    ASSUME TypeInv, CondenseBeforeRequest
    PROVE  TypeInv'
  <1>1. /\ pc = "request" /\ CanCondense(api) /\ api' = Condensed(api)
        /\ chat' = Append(chat, Event("condensed")) /\ Reduces /\ UNCHANGED <<pending, manual>>
    BY DEF CondenseBeforeRequest
  <1>2. Loop /\ now \in Nat /\ made \in Nat /\ reductions \in Nat /\ reductions <= MaxReductions
    BY Ticks DEF TypeInv, Loop
  <1>3. HistoryOK(api', reductions + 1, now + Gap, made) /\ Kin(api', api) /\ api' # <<>>
    BY <1>1, <1>2, CondensedTypes DEF TypeInv
  <1>4. Follows(chat', chat)
    <2>1. Posted(Event("condensed"), now) /\ Event("condensed").kind = "condensed"
      BY <1>2, EventPosted
    <2>2. SameChat(chat, chat)
      BY SameChatReflexive DEF TypeInv, ChatOK
    <2> QED
      BY <1>1, <2>1, <2>2 DEF Follows
  <1> QED
    BY <1>1, <1>3, <1>4, ReducesTypes

\* A condensation when the window is exceeded.
LEMMA CondenseOverWindowTypes ==
    ASSUME TypeInv, CondenseOverWindow
    PROVE  TypeInv'
  <1> DEFINE e == [Event("condensed") EXCEPT !.event = None]
  <1>1. /\ pc = "request" /\ CanCondense(api) /\ api' = Condensed(api)
        /\ chat' = Append(AllSpoiled(chat), e)
        /\ Reduces /\ UNCHANGED <<pending, manual>>
    BY DEF CondenseOverWindow
  <1>2. Loop /\ now \in Nat /\ made \in Nat /\ reductions \in Nat /\ reductions <= MaxReductions
    BY Ticks DEF TypeInv, Loop
  <1>3. HistoryOK(api', reductions + 1, now + Gap, made) /\ Kin(api', api) /\ api' # <<>>
    BY <1>1, <1>2, CondensedTypes DEF TypeInv
  <1>4. Follows(chat', chat)
    <2>1. Posted(e, now) /\ Event("condensed").kind = "condensed"
      BY <1>2, EventPosted
    <2>3. e.kind # "feedback"
      <3>1. e.kind = Event("condensed").kind
        BY DEF Event
      <3> QED
        BY <2>1, <3>1
    <2>2. SameChat(AllSpoiled(chat), chat)
      BY AllSpoiledDoes DEF TypeInv, ChatOK
    <2> HIDE DEF e
    <2> QED
      BY <1>1, <2>1, <2>2, <2>3 DEF Follows
  <1> QED
    BY <1>1, <1>3, <1>4, ReducesTypes

\* A truncation.
LEMMA TruncateTypes ==
    ASSUME TypeInv, Truncate
    PROVE  TypeInv'
  <1>1. /\ pc = "request" /\ api' = Truncated(api) /\ Reduces /\ UNCHANGED <<pending, manual>>
        /\ \/ chat' = Append(SpoiledByMarker(chat, api, MarkerAt(api)), Event("truncated"))
           \/ chat' = AllSpoiled(chat)
    BY DEF Truncate
  <1>2. /\ Loop /\ now \in Nat /\ made \in Nat /\ reductions \in Nat /\ reductions <= MaxReductions
        /\ api # <<>> /\ chat \in Seq(ChatMessages)
    BY <1>1, Ticks DEF TypeInv, Loop, ChatOK
  <1>3. HistoryOK(api', reductions + 1, now + Gap, made) /\ Kin(api', api) /\ api' # <<>>
    BY <1>1, <1>2, TruncatedTypes DEF TypeInv
  <1>4. Follows(chat', chat)
    <2>1. Posted(Event("truncated"), now) /\ Event("truncated").kind = "truncated"
      BY <1>2, EventPosted
    <2>2. SameChat(AllSpoiled(chat), chat) /\ SameChat(SpoiledByMarker(chat, api, MarkerAt(api)), chat)
      BY <1>2, AllSpoiledDoes, SpoiledByMarkerSame
    <2> QED
      BY <1>1, <2>1, <2>2 DEF Follows
  <1> QED
    BY <1>1, <1>3, <1>4, ReducesTypes

\* Being kin over two steps.
LEMMA KinTwice ==
    ASSUME NEW f, NEW g, NEW h, Kin(f, g), Kin(g, h)
    PROVE  Kin(f, h)
  <1>1. ASSUME NEW i \in DOMAIN f PROVE f[i].id = now \/ \E j \in DOMAIN h : Same(f[i], h[j])
    <2>1. CASE f[i].id = now
      BY <2>1
    <2>2. CASE \E j \in DOMAIN g : Same(f[i], g[j])
      <3> PICK j \in DOMAIN g : Same(f[i], g[j])
        BY <2>2
      <3> QED
        BY DEF Kin, Same
    <2> QED
      BY <2>1, <2>2 DEF Kin
  <1> QED
    BY <1>1 DEF Kin

\* A thinned history is kin to what it was thinned from.
LEMMA ThinnedKin ==
    ASSUME NEW g, NEW h, NEW e, NEW K, Thinned(g, h, e, K), g # <<>> => e[1] = 1
    PROVE  Kin(g, h)
  <1>1. Derived(g, h, e, 0)
    BY DEF Thinned
  <1>2. 0 \notin DOMAIN g
    BY <1>1 DEF Derived
  <1> QED
    BY <1>1, <1>2, DerivedKin

\* Uncondensing keeps the form of a history.
LEMMA UncondensedOK ==
    ASSUME NEW h, NEW d \in Int, NEW t \in Nat, NEW k \in Nat, HistoryOK(h, d, t, k), h # <<>>,
           NEW invalid, invalid \subseteq OfKind(h, "summary")
    PROVE  LET g == Uncondensed(h, invalid)
           IN  HistoryOK(g, d, t, k) /\ Kin(g, h) /\ g # <<>>
  <1> DEFINE g == Uncondensed(h, invalid)
             K == Lasting(h, invalid)
  <1>1. h \in Seq(Messages)
    BY DEF HistoryOK
  <1>2. \E e : /\ Thinned(g, h, e, K)
               /\ \A i \in DOMAIN g :
                           /\ g[i].truncationParent = h[e[i]].truncationParent
                           /\ g[i].cut = h[e[i]].cut
                           /\ g[i].condenseParent = IF h[e[i]].condenseParent \in invalid
                                                    THEN None ELSE h[e[i]].condenseParent
    BY <1>1, UncondensedDoes
  <1>3. 1 \in DOMAIN h /\ h[1].kind = "plain"
    BY <1>1 DEF HistoryOK, BeginsPlain
  <1>4. h[1] \in K
    <2>1. ASSUME h[1].id \in invalid PROVE FALSE
      <3>1. PICK j \in DOMAIN h : h[j].kind = "summary" /\ h[j].id = h[1].id
        BY <2>1 DEF OfKind
      <3>2. j # 1 /\ j > 1
        BY <1>1, <1>3, <3>1
      <3> QED
        BY <1>3, <3>1, <3>2 DEF HistoryOK, Distinct
    <2> QED
      BY <1>3, <2>1 DEF Range, Lasting
  <1> HIDE DEF g, K
  <1>5. PICK e : /\ Thinned(g, h, e, K)
                 /\ \A i \in DOMAIN g :
                           /\ g[i].truncationParent = h[e[i]].truncationParent
                           /\ g[i].cut = h[e[i]].cut
                           /\ g[i].condenseParent \in {h[e[i]].condenseParent, None}
    BY <1>2
  <1>6. HistoryOK(g, d, t, k) /\ g # <<>> /\ e[1] = 1
    BY <1>4, <1>5, ThinnedOK
  <1>7. Kin(g, h)
    BY <1>5, <1>6, ThinnedKin
  <1> QED
    BY <1>6, <1>7 DEF g

\* Taking back summaries without reasoning.
LEMMA UncondenseTypes ==
    ASSUME TypeInv, Uncondense
    PROVE  TypeInv'
  <1>1. /\ pc = "request" /\ chat' = AllSpoiled(chat) /\ Reduces /\ UNCHANGED <<pending, manual>>
        /\ \E invalid \in SUBSET OfKind(api, "summary") \ {{}} :
              \/ api' = Uncondensed(api, invalid)
              \/ /\ CanCondense(Uncondensed(api, invalid))
                 /\ api' = Condensed(Uncondensed(api, invalid))
    BY DEF Uncondense
  <1>2. PICK invalid \in SUBSET OfKind(api, "summary") :
              \/ api' = Uncondensed(api, invalid)
              \/ /\ CanCondense(Uncondensed(api, invalid))
                 /\ api' = Condensed(Uncondensed(api, invalid))
    BY <1>1
  <1> DEFINE plain == Uncondensed(api, invalid)
  <1>3. /\ Loop /\ now \in Nat /\ made \in Nat /\ reductions \in Nat /\ reductions <= MaxReductions
        /\ api # <<>> /\ chat \in Seq(ChatMessages) /\ reductions \in Int
        /\ now + Gap \in Nat /\ now <= now + Gap /\ reductions + 1 \in Int /\ reductions <= reductions + 1
    BY <1>1, Ticks DEF TypeInv, Loop, ChatOK
  <1>4. HistoryOK(plain, reductions, now, made) /\ Kin(plain, api) /\ plain # <<>>
    BY <1>2, <1>3, UncondensedOK DEF TypeInv
  <1>5. SameChat(chat', chat)
    BY <1>1, <1>3, AllSpoiledDoes
  <1> HIDE DEF plain
  <1>6. HistoryOK(api', reductions + 1, now + Gap, made) /\ Kin(api', api) /\ api' # <<>>
    <2>1. CASE api' = plain
      <3> DEFINE t2 == now + Gap
                 d2 == reductions + 1
      <3>1. t2 \in Nat /\ d2 \in Int /\ now <= t2 /\ reductions <= d2
        BY <1>3
      <3> HIDE DEF t2, d2
      <3>2. HistoryOK(plain, d2, t2, made)
        BY <1>3, <1>4, <3>1, HistoryLater
      <3> QED
        BY <1>4, <2>1, <3>2 DEF t2, d2
    <2>2. CASE CanCondense(plain) /\ api' = Condensed(plain)
      <3>1. HistoryOK(api', reductions + 1, now + Gap, made) /\ Kin(api', plain) /\ api' # <<>>
        BY <1>3, <1>4, <2>2, CondensedTypes
      <3> QED
        BY <1>4, <3>1, KinTwice
    <2> QED
      BY <1>2, <2>1, <2>2 DEF plain
  <1> QED
    BY <1>1, <1>5, <1>6, ReducesTypes DEF Follows

\* A condensation by hand begins, with the history it reads.
LEMMA BeginManualTypes ==
    ASSUME TypeInv, BeginManual
    PROVE  TypeInv'
  <1>1. /\ open # {} /\ manual = <<>>
        /\ api' = (IF pending = {} THEN api ELSE Append(api, UserMessage))
        /\ manual' = api' /\ pending' = {} /\ chat' = chat
        /\ reductions < MaxReductions /\ reductions' = reductions + 1 /\ now' = now + Gap
        /\ UNCHANGED <<pc, calls, open, made, rewinds>>
    BY DEF BeginManual, Reduces, Tick
  <1>2. /\ Loop /\ now \in Nat /\ now' \in Nat /\ now' \in Times /\ 0 < now' /\ now <= now'
        /\ made \in Nat /\ reductions \in Nat /\ reductions' \in Nat /\ reductions <= reductions'
        /\ MaxReductions \in Nat
        /\ api # <<>> /\ api \in Seq(Messages)
    <2>1. Loop /\ api \in Seq(Messages)
      BY DEF TypeInv, HistoryOK
    <2>2. /\ now \in Nat /\ now' \in Nat /\ now' \in Times /\ 0 < now' /\ now <= now'
          /\ reductions \in Nat /\ MaxReductions \in Nat
      BY <1>1, <2>1, Ticks
    <2>3. made \in Nat /\ api # <<>>
      BY <1>1, <2>1 DEF Loop
    <2> QED
      BY <1>1, <2>1, <2>2, <2>3
  <1>3. /\ HistoryOK(api', reductions, now', made) /\ Kin(api', api) /\ api' # <<>>
        /\ \A C : Without(api, C) => Without(api', C)
    <2>1. CASE pending = {}
      <3>1. api' = api
        BY <1>1, <2>1
      <3>2. HistoryOK(api, reductions, now', made)
        BY <1>2, HistoryLater DEF TypeInv
      <3>3. Kin(api, api)
        BY <1>2 DEF Kin, Same
      <3> QED
        BY <1>2, <3>1, <3>2, <3>3
    <2>2. CASE pending # {}
      <3>1. api' = Append(api, UserMessage)
        BY <1>1, <2>2
      <3> QED
        BY <1>1, <1>2, <3>1, UserMessageSaved
    <2> QED
      BY <2>1, <2>2
  <1>4. HistoryOK(api', reductions', now', made)
    BY <1>2, <1>3, HistoryLater
  <1>5. HistoryOK(manual', reductions' - 1, now', made)
    <2>1. reductions' - 1 = reductions
      BY <1>1, <1>2
    <2> QED
      BY <1>1, <1>3, <2>1
  <1>6. ChatOK(chat, now')
    BY <1>2, ChatLater DEF TypeInv
  <1>7. CommentsApart(api', chat)
    BY <1>2, <1>3, KinApart DEF TypeInv
  <1>8. FreshCalls(api)' /\ FreshCalls(manual)'
    <2>1. pc = "stream" => Without(api', calls)
      BY <1>3 DEF TypeInv, FreshCalls, Without
    <2> QED
      BY <1>1, <2>1 DEF FreshCalls, Without
  <1>9. Loop'
    BY <1>1, <1>2, <1>3, SMTT(20) DEF Loop
  <1> QED
    BY <1>1, <1>4, <1>5, <1>6, <1>7, <1>8, <1>9 DEF TypeInv

\* It ends, and puts its result in the place of the history.
LEMMA EndManualTypes ==
    ASSUME TypeInv, EndManual
    PROVE  TypeInv'
  <1>1. /\ manual # <<>> /\ manual' = <<>>
        /\ UNCHANGED <<pc, calls, open, pending, made, reductions, rewinds>>
        /\ \/ /\ CanCondense(manual) /\ api' = Condensed(manual) /\ now' = now + Gap
              /\ chat' = Append(IF api = manual THEN chat ELSE AllSpoiled(chat), Event("condensed"))
           \/ UNCHANGED <<api, chat, now>>
    BY DEF EndManual, Tick
  <1>2. /\ Loop /\ now \in Nat /\ made \in Nat /\ reductions \in Nat /\ reductions <= MaxReductions
        /\ api # <<>> /\ reductions >= 1 /\ chat \in Seq(ChatMessages)
    BY <1>1, Ticks DEF TypeInv, Loop, ChatOK
  <1>3. HistoryOK(manual', reductions' - 1, now', made') /\ FreshCalls(<<>>)' /\ CommentsApart(manual', chat')
    <2>1. HistoryOK(<<>>, reductions' - 1, now', made') /\ CommentsApart(<<>>, chat')
      BY EmptyOK
    <2>2. FreshCalls(<<>>)'
      BY DEF FreshCalls
    <2> QED
      BY <1>1, <2>1, <2>2
  <1>4. FreshCalls(manual)'
    BY <1>1 DEF FreshCalls
  <1>5. CASE UNCHANGED <<api, chat, now>>
    <2>1. FreshCalls(api)'
      BY <1>1, <1>5 DEF TypeInv, FreshCalls
    <2>2. Loop'
      BY <1>1, <1>2, <1>5 DEF Loop
    <2> QED
      BY <1>1, <1>3, <1>4, <1>5, <2>1, <2>2 DEF TypeInv
  <1>6. CASE /\ CanCondense(manual) /\ api' = Condensed(manual) /\ now' = now + Gap
             /\ chat' = Append(IF api = manual THEN chat ELSE AllSpoiled(chat), Event("condensed"))
    <2> DEFINE d == reductions - 1
    <2>0. HistoryOK(manual, d, now, made)
      BY DEF TypeInv
    <2>1. d \in Nat /\ d <= MaxReductions /\ d + 1 = reductions /\ HistoryOK(manual, d, now, made)
      <3>1. MaxReductions \in Nat /\ reductions \in Nat /\ reductions <= MaxReductions /\ reductions >= 1
        BY <1>2, GapNat
      <3> QED
        BY <2>0, <3>1
    <2> HIDE DEF d
    <2>2. /\ HistoryOK(api', d + 1, now', made) /\ Kin(api', manual) /\ api' # <<>>
          /\ \A C : Without(manual, C) => Without(api', C)
      BY <1>2, <1>6, <2>1, CondensedTypes
    <2>3. HistoryOK(api', reductions, now', made)
      BY <2>1, <2>2
    <2>4. Follows(chat', chat)
      <3>1. Posted(Event("condensed"), now) /\ Event("condensed").kind = "condensed"
        BY <1>2, EventPosted
      <3>2. SameChat(AllSpoiled(chat), chat) /\ SameChat(chat, chat)
        BY <1>2, AllSpoiledDoes, SameChatReflexive
      <3> QED
        BY <1>6, <3>1, <3>2 DEF Follows
    <2>5. ChatOK(chat', now') /\ \A h : CommentsApart(h, chat) => CommentsApart(h, chat')
      BY <1>2, <1>6, <2>4, FollowsOK DEF TypeInv
    <2>6. CommentsApart(api', chat')
      <3>1. CommentsApart(api', chat)
        BY <1>2, <2>2, KinApart DEF TypeInv
      <3> QED
        BY <2>5, <3>1
    <2>7. FreshCalls(api)'
      <3>1. pc = "stream" => Without(api', calls)
        BY <2>2 DEF TypeInv, FreshCalls, Without
      <3> QED
        BY <1>1, <3>1 DEF FreshCalls, Without
    <2>8. Loop'
      <3>1. now' \in Times /\ 0 < now'
        BY <1>2, <1>6, Ticks
      <3> QED
        BY <1>1, <1>2, <2>2, <3>1 DEF Loop
    <2> QED
      BY <1>1, <1>3, <1>4, <2>3, <2>5, <2>6, <2>7, <2>8 DEF TypeInv
  <1> QED
    BY <1>1, <1>5, <1>6

-----------------------------------------------------------------------------
(* A rewind *)

\* Rewinding keeps the form of a history.
LEMMA RewoundOK ==
    ASSUME NEW h, NEW d \in Int, NEW t \in Nat, NEW k \in Nat, HistoryOK(h, d, t, k), h # <<>>,
           NEW ts \in Int, h[1].ts < ts, NEW removed
    PROVE  LET g == Rewound(h, ts, removed)
           IN  HistoryOK(g, d, t, k) /\ Kin(g, h) /\ g # <<>>
               /\ \A C : Without(h, C) => Without(g, C)
  <1> DEFINE g == Rewound(h, ts, removed)
             K == Stays(h, ts, removed)
  <1>1. h \in Seq(Messages)
    BY DEF HistoryOK
  <1>2. \E e : /\ Thinned(g, h, e, K)
               /\ \A i \in DOMAIN g :
                           /\ g[i].cut = h[e[i]].cut
                           /\ g[i].condenseParent = IF h[e[i]].condenseParent \in OfKind(g, "summary")
                                                    THEN h[e[i]].condenseParent ELSE None
                           /\ g[i].truncationParent = IF h[e[i]].truncationParent \in OfKind(g, "marker")
                                                      THEN h[e[i]].truncationParent ELSE None
    BY <1>1, RewoundDoes
  <1>3. 1 \in DOMAIN h /\ h[1].kind = "plain" /\ h[1].ts \in Int
    BY <1>1, MessageFields DEF HistoryOK, BeginsPlain
  <1>4. h[1] \in K
    <2>1. ActualCutoff(h, ts) >= ts /\ ActualCutoff(h, ts) \in Int
      BY <1>1, CutoffLater
    <2>2. h[1].ts < ActualCutoff(h, ts)
      BY <1>3, <2>1
    <2> QED
      BY <1>3, <2>2 DEF Range, Stays
  <1> HIDE DEF g, K
  <1>5. PICK e : /\ Thinned(g, h, e, K)
                 /\ \A i \in DOMAIN g :
                           /\ g[i].cut = h[e[i]].cut
                           /\ g[i].condenseParent \in {h[e[i]].condenseParent, None}
                           /\ g[i].truncationParent \in {h[e[i]].truncationParent, None}
    BY <1>2
  <1>6. HistoryOK(g, d, t, k) /\ g # <<>> /\ e[1] = 1
    BY <1>4, <1>5, ThinnedOK
  <1>7. Kin(g, h)
    BY <1>5, <1>6, ThinnedKin
  <1>8. \A C : Without(h, C) => Without(g, C)
    <2>1. Derived(g, h, e, 0) /\ 0 \notin DOMAIN g
      BY <1>5 DEF Thinned, Derived
    <2> QED
      BY <2>1, DerivedWithout
  <1> QED
    BY <1>6, <1>7, <1>8 DEF g

\* A rewind.
LEMMA RewindTypes ==
    ASSUME TypeInv, Rewind
    PROVE  TypeInv'
  <1>1. /\ pc \in {"stream", "tools"} /\ open # {}
        /\ UNCHANGED <<pc, calls, open, pending, manual, now, made, reductions>>
    BY DEF Rewind
  <1>2. PICK i \in DOMAIN chat :
           /\ chat[i].kind = "feedback"
           /\ api' = Rewound(api, chat[i].ts, {chat[j].event : j \in i .. Len(chat)})
           /\ chat' = SpoiledByCut(SubSeq(chat, 1, i - 1), api')
    BY DEF Rewind
  <1> DEFINE removed == {chat[j].event : j \in i .. Len(chat)}
             front == SubSeq(chat, 1, i - 1)
  <1>3. /\ Loop /\ now \in Nat /\ made \in Nat /\ reductions \in Nat /\ reductions \in Int
        /\ api # <<>> /\ chat \in Seq(ChatMessages) /\ api \in Seq(Messages)
    BY <1>1, Ticks DEF TypeInv, Loop, ChatOK, HistoryOK
  <1>4. chat[i].ts \in Int /\ api[1].ts < chat[i].ts
    <2>1. chat[i].kind = "feedback"
      BY <1>2
    <2>2. CommentsApart(api, chat) /\ ChatMessageOK(chat[i], now)
      BY DEF TypeInv, ChatOK
    <2>3. api[1].ts < chat[i].ts
      BY <1>3, <2>1, <2>2 DEF CommentsApart
    <2>4. chat[i].ts \in Times
      BY <2>2 DEF ChatMessageOK
    <2>5. chat[i].ts \in Nat
      BY <2>4, TimesApart
    <2> QED
      BY <2>3, <2>5
  <1>5. /\ HistoryOK(api', reductions, now, made) /\ Kin(api', api) /\ api' # <<>>
        /\ \A C : Without(api, C) => Without(api', C)
    BY <1>2, <1>3, <1>4, RewoundOK DEF TypeInv
  <1>6. /\ ChatOK(front, now) /\ front \in Seq(ChatMessages)
        /\ \A n \in DOMAIN front : n \in DOMAIN chat /\ front[n] = chat[n]
    BY ChatFront DEF TypeInv
  <1> HIDE DEF front, removed
  <1>7. SameChat(chat', front)
    <2>1. api' \in Seq(Messages) /\ chat' = SpoiledByCut(front, api')
      BY <1>2, <1>5 DEF HistoryOK, front
    <2> DEFINE a == api'
               c == chat'
    <2>2. a \in Seq(Messages) /\ c = SpoiledByCut(front, a)
      BY <2>1
    <2> HIDE DEF a, c
    <2>3. SameChat(c, front)
      BY <1>6, <2>2, SpoiledByCutDoes
    <2> QED
      BY <2>3 DEF c
  <1>8. ChatOK(chat', now)
    BY <1>6, <1>7, SameChatOK
  <1>9. ASSUME NEW h, CommentsApart(h, chat) PROVE CommentsApart(h, chat')
    <2>1. CommentsApart(h, front)
      BY <1>6, <1>9 DEF CommentsApart
    <2> QED
      BY <1>7, <2>1, SameChatApart
  <1>10. CommentsApart(api', chat') /\ CommentsApart(manual, chat')
    <2>1. CommentsApart(api', chat)
      BY <1>3, <1>5, KinApart DEF TypeInv
    <2> QED
      BY <1>9, <2>1 DEF TypeInv
  <1>11. FreshCalls(api)' /\ FreshCalls(manual)'
    <2>1. pc = "stream" => Without(api', calls)
      BY <1>5 DEF TypeInv, FreshCalls, Without
    <2> QED
      BY <1>1, <2>1 DEF TypeInv, FreshCalls, Without
  <1>12. Loop'
    BY <1>1, <1>3, <1>5 DEF Loop
  <1> QED
    BY <1>1, <1>5, <1>8, <1>10, <1>11, <1>12 DEF TypeInv

\* Every step keeps the invariant.
LEMMA TypeNext == TypeInv /\ [Next]_vars => TypeInv'
  <1> SUFFICES ASSUME TypeInv, [Next]_vars PROVE TypeInv'
    OBVIOUS
  <1>1. CASE UNCHANGED vars
    BY <1>1 DEF vars, TypeInv, Loop, FreshCalls, ChatOK, CommentsApart
  <1>2. CASE Next
    BY <1>2, AddUserTypes, StartResponseTypes, RunToolTypes, AddAssistantTypes,
       CondenseBeforeRequestTypes, TruncateTypes, CondenseOverWindowTypes, UncondenseTypes,
       BeginManualTypes, EndManualTypes, RewindTypes DEF Next
  <1> QED
    BY <1>1, <1>2

\* Both histories always have their form: messages in the order of their times,
\* ids and calls of their own, summaries behind what they hide, for any number of
\* messages, reductions, rewinds and calls.
THEOREM TypeInvAlways == Spec => []TypeInv
  BY TypeInit, TypeNext, PTL DEF Spec

\* The state of the request loop, of a condensation by hand, of the API history
\* and of the chat always has its type.
THEOREM TypeCorrect == Spec => []TypeOK
  BY TypeInvAlways, TypeInvImplies, PTL

-----------------------------------------------------------------------------
(* What summaries tell and which calls they carry *)

\* No message behind the i-th has a result of its calls.
NoResult(h, i) ==
    h[i].uses # {} /\ \A k \in DOMAIN h : k > i => h[k].results \intersect h[i].uses = {}

\* A summary tells what those before it tell,
TellOn(h) ==
    \A i, j \in DOMAIN h : i < j /\ h[i].kind = "summary" /\ h[j].kind = "summary"
        => h[i].tells \subseteq h[j].tells

\* of every message before it but an answer no result belongs to,
TellAll(h) ==
    \A i, j \in DOMAIN h : i < j /\ h[j].kind = "summary"
        => h[i].tells \subseteq h[j].tells \/ NoResult(h, i)

\* and of a message whose calls a summary still carries.
TellCarried(h) ==
    \A i, j, k \in DOMAIN h :
        /\ i < j /\ j <= k /\ h[j].kind = "summary" /\ h[k].kind = "summary"
        /\ h[i].uses \intersect h[k].uses # {}
        => h[i].tells \subseteq h[j].tells

\* The three together.
Telling(h) == TellOn(h) /\ TellAll(h) /\ TellCarried(h)

\* An answer with calls that no truncation has ever hidden.
OpenAnswer(h, c) == IsPlain(h[c]) /\ h[c].role = "assistant" /\ h[c].uses # {} /\ ~ h[c].cut

\* Only summaries and markers lie between the two.
NoPlainBetween(h, c, x) == \A k \in DOMAIN h : c < k /\ k < x => ~ IsPlain(h[k])

\* A truncation hides all there is before the marker.
CutBefore(h) ==
    \A c, k \in DOMAIN h :
        c >= 2 /\ IsPlain(h[c]) /\ c < k /\ (h[k].kind = "marker" \/ h[k].truncationParent # None)
        => h[c].cut

\* A summary behind an answer carries its calls, unless it was put there before
\* another answer.
CarriedOn(h) ==
    \A c, a \in DOMAIN h :
        OpenAnswer(h, c) /\ c < a /\ h[a].kind = "summary" /\ NoPlainBetween(h, c, a)
        => \/ h[c].uses \subseteq h[a].uses
           \/ \E x \in DOMAIN h : /\ a < x /\ IsPlain(h[x]) /\ h[x].role = "assistant"
                                  /\ h[a].ts = h[x].ts - 1

\* The next user message answers all calls.
AnsweredNext(h) ==
    \A c, x \in DOMAIN h :
        OpenAnswer(h, c) /\ c < x /\ IsPlain(h[x]) /\ h[x].role = "user" /\ NoPlainBetween(h, c, x)
        => h[c].uses \subseteq h[x].results

\* The three together.
Parting(h) == CutBefore(h) /\ CarriedOn(h) /\ AnsweredNext(h)

\* An answer with calls in C is the last and every summary behind it tells of it.
CurrentAnswer(h, C) ==
    \A i \in DOMAIN h : IsPlain(h[i]) /\ h[i].uses \intersect C # {} =>
        /\ ~ h[i].cut
        /\ \A j \in DOMAIN h : i < j => ~ (IsPlain(h[j]) /\ h[j].role = "assistant")
        /\ \A j \in DOMAIN h : i < j /\ h[j].kind = "summary" => h[i].tells \subseteq h[j].tells

-----------------------------------------------------------------------------
\* A derived history has its messages in the order they were in.
LEMMA OrderBack ==
    ASSUME NEW g, NEW h \in Seq(Messages), NEW o, NEW p, Derived(g, h, o, p)
    PROVE  /\ g \in Seq(Messages) /\ DOMAIN g \subseteq Nat /\ DOMAIN h \subseteq Nat
           /\ \A i \in DOMAIN g : i # p => o[i] \in DOMAIN h /\ Same(g[i], h[o[i]])
           /\ \A i, j \in DOMAIN g : i # p /\ j # p => (i < j <=> o[i] < o[j])
  <1>1. g \in Seq(Messages) /\ DOMAIN g \subseteq Nat /\ DOMAIN h \subseteq Nat
    BY DEF Derived
  <1>2. \A i \in DOMAIN g : i # p => o[i] \in DOMAIN h /\ Same(g[i], h[o[i]])
    BY DEF Derived
  <1>3. ASSUME NEW i \in DOMAIN g, NEW j \in DOMAIN g, i # p, j # p
        PROVE  i < j <=> o[i] < o[j]
    <2>1. i < j => o[i] < o[j]
      BY <1>3 DEF Derived
    <2>2. j < i => o[j] < o[i]
      BY <1>3 DEF Derived
    <2>3. i \in Nat /\ j \in Nat /\ o[i] \in Nat /\ o[j] \in Nat
      BY <1>1, <1>2, <1>3
    <2> QED
      BY <2>1, <2>2, <2>3
  <1> QED
    BY <1>1, <1>2, <1>3

\* Leaving messages out or putting a marker in does not matter to what is told.
LEMMA DerivedTelling ==
    ASSUME NEW g, NEW h \in Seq(Messages), NEW o, NEW p, Derived(g, h, o, p), Telling(h),
           p \in DOMAIN g => /\ g[p].kind # "summary" /\ g[p].uses = {} /\ g[p].results = {}
                             /\ g[p].tells = {}
    PROVE  Telling(g)
  <1>1. /\ g \in Seq(Messages) /\ DOMAIN g \subseteq Nat /\ DOMAIN h \subseteq Nat
        /\ \A i \in DOMAIN g : i # p => o[i] \in DOMAIN h /\ Same(g[i], h[o[i]])
        /\ \A i, j \in DOMAIN g : i # p /\ j # p => (i < j <=> o[i] < o[j])
    BY OrderBack
  <1>2. \A i \in DOMAIN g : i # p => /\ o[i] \in DOMAIN h
                                     /\ g[i].kind = h[o[i]].kind /\ g[i].uses = h[o[i]].uses
                                     /\ g[i].results = h[o[i]].results /\ g[i].tells = h[o[i]].tells
    BY <1>1 DEF Same
  <1>3. ASSUME NEW i \in DOMAIN g, i # p, NoResult(h, o[i]) PROVE NoResult(g, i)
    <2>1. ASSUME NEW k \in DOMAIN g, k > i PROVE g[k].results \intersect g[i].uses = {}
      <3>1. CASE k = p
        BY <3>1
      <3>2. CASE k # p
        <4>1. o[k] \in DOMAIN h /\ o[k] > o[i]
          BY <1>1, <1>3, <2>1, <3>2
        <4> QED
          BY <1>2, <1>3, <3>2, <4>1 DEF NoResult
      <3> QED
        BY <3>1, <3>2
    <2> QED
      BY <1>2, <1>3, <2>1 DEF NoResult
  <1>4. TellOn(g)
    <2> SUFFICES ASSUME NEW i \in DOMAIN g, NEW j \in DOMAIN g, i < j,
                        g[i].kind = "summary", g[j].kind = "summary"
                 PROVE  g[i].tells \subseteq g[j].tells
      BY DEF TellOn
    <2>1. i # p /\ j # p
      OBVIOUS
    <2> QED
      BY <1>1, <1>2, <2>1 DEF Telling, TellOn
  <1>5. TellAll(g)
    <2> SUFFICES ASSUME NEW i \in DOMAIN g, NEW j \in DOMAIN g, i < j, g[j].kind = "summary"
                 PROVE  g[i].tells \subseteq g[j].tells \/ NoResult(g, i)
      BY DEF TellAll
    <2>1. j # p
      OBVIOUS
    <2>2. CASE i = p
      BY <2>2
    <2>3. CASE i # p
      <3>1. h[o[i]].tells \subseteq h[o[j]].tells \/ NoResult(h, o[i])
        BY <1>1, <1>2, <2>1, <2>3 DEF Telling, TellAll
      <3> QED
        BY <1>2, <1>3, <2>1, <2>3, <3>1
    <2> QED
      BY <2>2, <2>3
  <1>6. TellCarried(g)
    <2> SUFFICES ASSUME NEW i \in DOMAIN g, NEW j \in DOMAIN g, NEW k \in DOMAIN g,
                        i < j, j <= k, g[j].kind = "summary", g[k].kind = "summary",
                        g[i].uses \intersect g[k].uses # {}
                 PROVE  g[i].tells \subseteq g[j].tells
      BY DEF TellCarried
    <2>1. i # p /\ j # p /\ k # p
      OBVIOUS
    <2>2. o[i] < o[j] /\ o[j] <= o[k]
      <3>1. j = k \/ j < k
        BY <1>1
      <3>2. o[j] \in Nat /\ o[k] \in Nat
        BY <1>1, <2>1
      <3> QED
        BY <1>1, <2>1, <3>1, <3>2
    <2> QED
      BY <1>2, <2>1, <2>2 DEF Telling, TellCarried
  <1> QED
    BY <1>4, <1>5, <1>6 DEF Telling

\* An operation that adds no call keeps the current answer.
LEMMA DerivedCurrent ==
    ASSUME NEW g, NEW h \in Seq(Messages), NEW o, NEW p, Derived(g, h, o, p), NEW C, CurrentAnswer(h, C),
           p \in DOMAIN g => /\ g[p].kind # "summary" /\ g[p].uses = {} /\ g[p].role = "user",
           \A i \in DOMAIN g : i # p => g[i].cut = h[o[i]].cut
    PROVE  CurrentAnswer(g, C)
  <1>1. /\ g \in Seq(Messages) /\ DOMAIN g \subseteq Nat /\ DOMAIN h \subseteq Nat
        /\ \A i \in DOMAIN g : i # p => o[i] \in DOMAIN h /\ Same(g[i], h[o[i]])
        /\ \A i, j \in DOMAIN g : i # p /\ j # p => (i < j <=> o[i] < o[j])
    BY OrderBack
  <1> SUFFICES ASSUME NEW i \in DOMAIN g, IsPlain(g[i]), g[i].uses \intersect C # {}
               PROVE  /\ ~ g[i].cut
                      /\ \A j \in DOMAIN g : i < j => ~ (IsPlain(g[j]) /\ g[j].role = "assistant")
                      /\ \A j \in DOMAIN g : i < j /\ g[j].kind = "summary" => g[i].tells \subseteq g[j].tells
    BY DEF CurrentAnswer
  <1>2. i # p
    OBVIOUS
  <1>3. o[i] \in DOMAIN h /\ IsPlain(h[o[i]]) /\ h[o[i]].uses \intersect C # {} /\ g[i].tells = h[o[i]].tells
        /\ g[i].cut = h[o[i]].cut
    BY <1>1, <1>2 DEF Same, IsPlain
  <1>4. /\ ~ h[o[i]].cut
        /\ \A j \in DOMAIN h : o[i] < j => ~ (IsPlain(h[j]) /\ h[j].role = "assistant")
        /\ \A j \in DOMAIN h : o[i] < j /\ h[j].kind = "summary" => h[o[i]].tells \subseteq h[j].tells
    BY <1>3 DEF CurrentAnswer
  <1>5. ASSUME NEW j \in DOMAIN g, i < j
        PROVE  /\ ~ (IsPlain(g[j]) /\ g[j].role = "assistant")
               /\ g[j].kind = "summary" => g[i].tells \subseteq g[j].tells
    <2>1. CASE j = p
      BY <2>1
    <2>2. CASE j # p
      <3>1. o[j] \in DOMAIN h /\ o[i] < o[j] /\ Same(g[j], h[o[j]])
        BY <1>1, <1>2, <1>5, <2>2
      <3> QED
        BY <1>3, <1>4, <3>1 DEF Same, IsPlain
    <2> QED
      BY <2>1, <2>2
  <1> QED
    BY <1>3, <1>4, <1>5

\* Leaving out messages, of the plain ones only the last.
LEMMA ThinnedParting ==
    ASSUME NEW h \in Seq(Messages), Parting(h), NEW g, NEW e, NEW K, Thinned(g, h, e, K),
           \A i \in DOMAIN g : /\ g[i].cut = h[e[i]].cut
                               /\ g[i].truncationParent \in {h[e[i]].truncationParent, None},
           \A q, r \in DOMAIN h : q < r /\ IsPlain(h[q]) /\ h[q] \notin K => h[r] \notin K,
           \A a, x \in DOMAIN h :
               /\ a < x /\ h[a] \in K /\ h[a].kind = "summary"
               /\ IsPlain(h[x]) /\ h[x].role = "assistant" /\ h[a].ts = h[x].ts - 1
               => h[x] \in K
    PROVE  Parting(g)
  <1>0. Derived(g, h, e, 0) /\ 0 \notin DOMAIN g
    BY DEF Thinned, Derived
  <1>1. /\ g \in Seq(Messages) /\ DOMAIN g \subseteq Nat /\ DOMAIN h \subseteq Nat
        /\ \A i \in DOMAIN g : e[i] \in DOMAIN h /\ Same(g[i], h[e[i]])
        /\ \A i, j \in DOMAIN g : (i < j <=> e[i] < e[j])
    BY <1>0, OrderBack
  <1>2. \A i \in DOMAIN g : /\ e[i] \in DOMAIN h /\ e[i] \in Nat /\ i \in Nat
                            /\ g[i].kind = h[e[i]].kind /\ g[i].role = h[e[i]].role /\ g[i].ts = h[e[i]].ts
                            /\ g[i].uses = h[e[i]].uses /\ g[i].results = h[e[i]].results
                            /\ g[i].cut = h[e[i]].cut
    BY <1>1 DEF Same
  <1>3. ASSUME NEW c \in DOMAIN g, NEW x \in DOMAIN g, NoPlainBetween(g, c, x)
        PROVE  NoPlainBetween(h, e[c], e[x])
    <2> SUFFICES ASSUME NEW q \in DOMAIN h, e[c] < q, q < e[x], IsPlain(h[q]) PROVE FALSE
      BY DEF NoPlainBetween
    <2>1. h[e[x]] \in K /\ e[x] \in DOMAIN h
      BY <1>2 DEF Thinned
    <2>2. h[q] \in K
      BY <2>1
    <2>3. PICK i \in DOMAIN g : e[i] = q
      BY <2>2 DEF Thinned
    <2>4. c < i /\ i < x /\ IsPlain(g[i])
      BY <1>1, <1>2, <2>3 DEF IsPlain
    <2> QED
      BY <1>3, <2>4 DEF NoPlainBetween
  <1>4. ASSUME NEW c \in DOMAIN g, OpenAnswer(g, c) PROVE OpenAnswer(h, e[c])
    BY <1>2, <1>4 DEF OpenAnswer, IsPlain
  <1>5. CutBefore(g)
    <2> SUFFICES ASSUME NEW c \in DOMAIN g, NEW k \in DOMAIN g, c >= 2, IsPlain(g[c]), c < k,
                        g[k].kind = "marker" \/ g[k].truncationParent # None
                 PROVE  g[c].cut
      BY DEF CutBefore
    <2>1. e[c] >= 2
      <3>1. 1 \in DOMAIN g
        BY <1>1
      <3>2. e[1] < e[c] /\ e[1] \in DOMAIN h /\ e[1] >= 1 /\ e[1] \in Nat /\ e[c] \in Nat
        BY <1>1, <1>2, <3>1
      <3> QED
        BY <3>2
    <2>2. h[e[k]].kind = "marker" \/ h[e[k]].truncationParent # None
      BY <1>2
    <2>3. e[c] < e[k] /\ IsPlain(h[e[c]]) /\ e[c] \in DOMAIN h /\ e[k] \in DOMAIN h
      BY <1>1, <1>2 DEF IsPlain
    <2>4. h[e[c]].cut
      BY <2>1, <2>2, <2>3 DEF Parting, CutBefore
    <2> QED
      BY <1>2, <2>4
  <1>6. CarriedOn(g)
    <2> SUFFICES ASSUME NEW c \in DOMAIN g, NEW a \in DOMAIN g, OpenAnswer(g, c), c < a,
                        g[a].kind = "summary", NoPlainBetween(g, c, a)
                 PROVE  \/ g[c].uses \subseteq g[a].uses
                        \/ \E x \in DOMAIN g : /\ a < x /\ IsPlain(g[x]) /\ g[x].role = "assistant"
                                               /\ g[a].ts = g[x].ts - 1
      BY DEF CarriedOn
    <2>1. /\ OpenAnswer(h, e[c]) /\ e[c] < e[a] /\ h[e[a]].kind = "summary" /\ NoPlainBetween(h, e[c], e[a])
          /\ e[c] \in DOMAIN h /\ e[a] \in DOMAIN h
      BY <1>1, <1>2, <1>3, <1>4
    <2>2. CASE h[e[c]].uses \subseteq h[e[a]].uses
      BY <1>2, <2>2
    <2>3. CASE \E x \in DOMAIN h : /\ e[a] < x /\ IsPlain(h[x]) /\ h[x].role = "assistant"
                                   /\ h[e[a]].ts = h[x].ts - 1
      <3> PICK x \in DOMAIN h : /\ e[a] < x /\ IsPlain(h[x]) /\ h[x].role = "assistant"
                                /\ h[e[a]].ts = h[x].ts - 1
        BY <2>3
      <3>1. h[e[a]] \in K
        BY DEF Thinned
      <3>2. h[x] \in K
        BY <2>1, <3>1
      <3>3. PICK i \in DOMAIN g : e[i] = x
        BY <3>2 DEF Thinned
      <3>4. a < i /\ IsPlain(g[i]) /\ g[i].role = "assistant" /\ g[a].ts = g[i].ts - 1
        BY <1>1, <1>2, <3>3 DEF IsPlain
      <3> QED
        BY <3>4
    <2> QED
      BY <2>1, <2>2, <2>3 DEF Parting, CarriedOn
  <1>7. AnsweredNext(g)
    <2> SUFFICES ASSUME NEW c \in DOMAIN g, NEW x \in DOMAIN g, OpenAnswer(g, c), c < x,
                        IsPlain(g[x]), g[x].role = "user", NoPlainBetween(g, c, x)
                 PROVE  g[c].uses \subseteq g[x].results
      BY DEF AnsweredNext
    <2>1. /\ OpenAnswer(h, e[c]) /\ e[c] < e[x] /\ IsPlain(h[e[x]]) /\ h[e[x]].role = "user"
          /\ NoPlainBetween(h, e[c], e[x]) /\ e[c] \in DOMAIN h /\ e[x] \in DOMAIN h
      BY <1>1, <1>2, <1>3, <1>4 DEF IsPlain
    <2>2. h[e[c]].uses \subseteq h[e[x]].results
      BY <2>1 DEF Parting, AnsweredNext
    <2> QED
      BY <1>2, <2>2
  <1> QED
    BY <1>5, <1>6, <1>7 DEF Parting

\* Putting a message in that is not plain.
LEMMA InsertedBetween ==
    ASSUME NEW h \in Seq(Messages), NEW g, NEW p \in 1 .. Len(h) + 1, Derived(g, h, Shift(p), p),
           DOMAIN g = 1 .. Len(h) + 1,
           \A i \in DOMAIN g : i < p => Shift(p)[i] = i,
           \A i \in DOMAIN g : i > p => Shift(p)[i] = i - 1
    PROVE  /\ \A q \in DOMAIN h : \E i \in DOMAIN g : i # p /\ Shift(p)[i] = q
           /\ \A c, x \in DOMAIN g : c # p /\ x # p /\ NoPlainBetween(g, c, x)
                  => NoPlainBetween(h, Shift(p)[c], Shift(p)[x])
           /\ \A c, x \in DOMAIN g : c # p /\ x = p /\ NoPlainBetween(g, c, x)
                  => NoPlainBetween(h, Shift(p)[c], p)
  <1>1. Len(h) \in Nat /\ DOMAIN h = 1 .. Len(h)
    OBVIOUS
  <1>2. ASSUME NEW q \in DOMAIN h PROVE \E i \in DOMAIN g : i # p /\ Shift(p)[i] = q
    <2>1. CASE q < p
      BY <1>1, <2>1
    <2>2. CASE q >= p
      <3>1. q + 1 \in DOMAIN g /\ q + 1 > p /\ q + 1 # p
        BY <1>1, <2>2
      <3>2. Shift(p)[q + 1] = q
        BY <1>1, <3>1
      <3> QED
        BY <3>1, <3>2
    <2> QED
      BY <1>1, <2>1, <2>2
  <1>3. /\ DOMAIN g \subseteq Nat /\ DOMAIN h \subseteq Nat
        /\ \A i \in DOMAIN g : i # p => Shift(p)[i] \in DOMAIN h /\ Same(g[i], h[Shift(p)[i]])
        /\ \A i, j \in DOMAIN g : i # p /\ j # p => (i < j <=> Shift(p)[i] < Shift(p)[j])
    BY OrderBack
  <1>4. ASSUME NEW c \in DOMAIN g, NEW x \in DOMAIN g, c # p, x # p, NoPlainBetween(g, c, x)
        PROVE  NoPlainBetween(h, Shift(p)[c], Shift(p)[x])
    <2> SUFFICES ASSUME NEW q \in DOMAIN h, Shift(p)[c] < q, q < Shift(p)[x], IsPlain(h[q]) PROVE FALSE
      BY DEF NoPlainBetween
    <2>1. PICK i \in DOMAIN g : i # p /\ Shift(p)[i] = q
      BY <1>2
    <2>2. c < i /\ i < x /\ IsPlain(g[i])
      BY <1>3, <1>4, <2>1 DEF IsPlain, Same
    <2> QED
      BY <1>4, <2>2 DEF NoPlainBetween
  <1>5. ASSUME NEW c \in DOMAIN g, p \in DOMAIN g, c # p, NoPlainBetween(g, c, p)
        PROVE  NoPlainBetween(h, Shift(p)[c], p)
    <2> SUFFICES ASSUME NEW q \in DOMAIN h, Shift(p)[c] < q, q < p, IsPlain(h[q]) PROVE FALSE
      BY DEF NoPlainBetween
    <2>1. q \in DOMAIN g /\ q # p /\ Shift(p)[q] = q
      BY <1>1
    <2>2. c < q /\ IsPlain(g[q])
      BY <1>3, <1>5, <2>1 DEF IsPlain, Same
    <2> QED
      BY <1>5, <2>1, <2>2 DEF NoPlainBetween
  <1> QED
    BY <1>2, <1>4, <1>5

\* A truncation keeps both.
LEMMA TruncatedKeeps ==
    ASSUME NEW h, NEW d, NEW k, HistoryOK(h, d, now, k), now \in Nat, Telling(h), Parting(h)
    PROVE  Telling(Truncated(h)) /\ Parting(Truncated(h))
  <1> DEFINE g == Truncated(h)
             p == MarkerAt(h)
             o == Shift(p)
             Fresh == /\ p \in 2 .. Len(h) /\ Seen(h, p)
                      /\ Derived(g, h, o, p)
                      /\ Len(g) = Len(h) + 1 /\ DOMAIN g = 1 .. Len(h) + 1
                      /\ g[p] = Marker(h, p)
                      /\ \A i \in DOMAIN g : i < p => o[i] = i
                      /\ \A i \in DOMAIN g : i > p => o[i] = i - 1
                      /\ \A i \in DOMAIN g : i # p =>
                          /\ g[i].condenseParent = h[o[i]].condenseParent
                          /\ IF o[i] \in 2 .. p - 1 /\ Seen(h, o[i])
                             THEN g[i].truncationParent = now /\ g[i].cut = TRUE
                             ELSE /\ g[i].truncationParent = h[o[i]].truncationParent
                                  /\ g[i].cut = h[o[i]].cut
  <1>1. h \in Seq(Messages) /\ BeginsPlain(h) /\ \A i \in DOMAIN h : TagOK(h[i], now)
    BY DEF HistoryOK
  <1>2. g = h \/ Fresh
    BY <1>1, TruncatedDoes
  <1> SUFFICES ASSUME Fresh PROVE Telling(g) /\ Parting(g)
    BY <1>2
  <1>20. /\ p \in 2 .. Len(h) /\ Derived(g, h, o, p) /\ DOMAIN g = 1 .. Len(h) + 1
         /\ g[p] = Marker(h, p)
         /\ \A i \in DOMAIN g : i < p => o[i] = i
         /\ \A i \in DOMAIN g : i > p => o[i] = i - 1
    OBVIOUS
  <1>21. \A i \in DOMAIN g : i # p =>
            IF o[i] \in 2 .. p - 1 /\ Seen(h, o[i])
            THEN g[i].truncationParent = now /\ g[i].cut = TRUE
            ELSE /\ g[i].truncationParent = h[o[i]].truncationParent
                 /\ g[i].cut = h[o[i]].cut
    OBVIOUS
  <1> HIDE DEF g, p, Fresh
  <1>3. /\ g[p].kind = "marker" /\ g[p].uses = {} /\ g[p].results = {} /\ g[p].tells = {}
        /\ g[p].role = "user" /\ p \in DOMAIN g /\ p \in Nat /\ Len(h) \in Nat /\ DOMAIN h = 1 .. Len(h)
        /\ p \in 1 .. Len(h) + 1
    <2>1. p \in 1 .. Len(h) /\ Len(h) \in Nat /\ DOMAIN h = 1 .. Len(h) /\ p \in 1 .. Len(h) + 1 /\ p \in Nat
      BY <1>1, <1>20
    <2>2. p \in DOMAIN g
      BY <1>20, <2>1
    <2>3. /\ Marker(h, p).role = "user" /\ Marker(h, p).kind = "marker"
          /\ Marker(h, p).uses = {} /\ Marker(h, p).results = {} /\ Marker(h, p).tells = {}
      BY <1>1, <2>1, MarkerIs
    <2>4. g[p] = Marker(h, p)
      BY <1>20
    <2> QED
      BY <2>1, <2>2, <2>3, <2>4
  <1>4. Telling(g)
    BY <1>1, <1>3, <1>20, DerivedTelling
  <1>5. /\ DOMAIN g \subseteq Nat /\ DOMAIN h \subseteq Nat
        /\ \A i \in DOMAIN g : i # p => o[i] \in DOMAIN h /\ Same(g[i], h[o[i]])
        /\ \A i, j \in DOMAIN g : i # p /\ j # p => (i < j <=> o[i] < o[j])
    BY <1>1, <1>20, OrderBack
  <1>6. /\ \A q \in DOMAIN h : \E i \in DOMAIN g : i # p /\ o[i] = q
        /\ \A c, x \in DOMAIN g : c # p /\ x # p /\ NoPlainBetween(g, c, x)
                  => NoPlainBetween(h, o[c], o[x])
    <2>1. ASSUME NEW q \in DOMAIN h PROVE \E i \in DOMAIN g : i # p /\ o[i] = q
      <3>0. q \in Nat /\ q >= 1 /\ q <= Len(h)
        BY <1>3
      <3>1. CASE q < p
        <4>1. q \in DOMAIN g /\ q # p
          BY <1>3, <1>20, <3>0, <3>1
        <4>2. o[q] = q
          BY <1>20, <3>1, <4>1
        <4> QED
          BY <4>1, <4>2
      <3>2. CASE q >= p
        <4>0. q + 1 \in 1 .. Len(h) + 1 /\ q + 1 # p /\ q + 1 > p /\ (q + 1) - 1 = q
          BY <1>3, <3>0, <3>2
        <4>1. q + 1 \in DOMAIN g
          BY <1>20, <4>0
        <4>2. o[q + 1] = q
          BY <1>20, <4>0, <4>1
        <4> QED
          BY <4>0, <4>1, <4>2
      <3> QED
        BY <1>3, <3>0, <3>1, <3>2
    <2>2. ASSUME NEW c \in DOMAIN g, NEW x \in DOMAIN g, c # p, x # p, NoPlainBetween(g, c, x)
          PROVE  NoPlainBetween(h, o[c], o[x])
      BY <1>1, <1>3, <1>20, <2>2, InsertedBetween
    <2> QED
      BY <2>1, <2>2
  <1>7. \A i \in DOMAIN g : i # p =>
            /\ o[i] \in DOMAIN h /\ o[i] \in Nat /\ i \in Nat
            /\ g[i].kind = h[o[i]].kind /\ g[i].role = h[o[i]].role /\ g[i].ts = h[o[i]].ts
            /\ g[i].uses = h[o[i]].uses /\ g[i].results = h[o[i]].results
            /\ h[o[i]].cut => g[i].cut
    BY <1>5, <1>21 DEF Same
  <1>8. ASSUME NEW c \in DOMAIN g, OpenAnswer(g, c) PROVE c # p /\ OpenAnswer(h, o[c])
    <2>1. c # p
      BY <1>3, <1>8 DEF OpenAnswer, IsPlain
    <2> QED
      BY <1>7, <1>8, <2>1 DEF OpenAnswer, IsPlain
  <1>9. CutBefore(g)
    <2> SUFFICES ASSUME NEW c \in DOMAIN g, NEW k1 \in DOMAIN g, c >= 2, IsPlain(g[c]), c < k1,
                        g[k1].kind = "marker" \/ g[k1].truncationParent # None
                 PROVE  g[c].cut
      BY DEF CutBefore
    <2>1. c # p /\ IsPlain(h[o[c]]) /\ o[c] \in DOMAIN h
      BY <1>3, <1>7 DEF IsPlain
    <2>2. CASE c < p /\ (k1 = p \/ k1 < p)
      <3>1. o[c] = c /\ c \in 2 .. p - 1
        BY <1>3, <1>5, <1>20, <2>2
      <3>2. CASE Seen(h, c)
        BY <1>21, <2>1, <3>1, <3>2
      <3>3. CASE ~ Seen(h, c)
        <4>1. h[c].truncationParent # None
          BY <2>1, <3>1, <3>3 DEF Seen, IsPlain
        <4>2. h[c].cut
          BY <1>1, <2>1, <3>1, <4>1 DEF TagOK
        <4> QED
          BY <1>7, <2>1, <3>1, <4>2
      <3> QED
        BY <3>2, <3>3
    <2>3. CASE k1 > p
      <3>1. k1 # p /\ o[k1] = k1 - 1 /\ o[k1] \notin 2 .. p - 1
        BY <1>3, <1>5, <1>20, <2>3
      <3>2. g[k1].truncationParent = h[o[k1]].truncationParent /\ g[k1].kind = h[o[k1]].kind
        BY <1>7, <1>21, <3>1
      <3>3. o[c] < o[k1] /\ o[k1] \in DOMAIN h
        BY <1>5, <2>1, <3>1
      <3>4. o[c] >= 2
        BY <1>3, <1>5, <1>20, <2>1
      <3>5. h[o[c]].cut
        BY <2>1, <3>2, <3>3, <3>4 DEF Parting, CutBefore
      <3> QED
        BY <1>7, <2>1, <3>5
    <2> QED
      BY <1>3, <1>5, <2>1, <2>2, <2>3
  <1>10. CarriedOn(g)
    <2> SUFFICES ASSUME NEW c \in DOMAIN g, NEW a \in DOMAIN g, OpenAnswer(g, c), c < a,
                        g[a].kind = "summary", NoPlainBetween(g, c, a)
                 PROVE  \/ g[c].uses \subseteq g[a].uses
                        \/ \E x \in DOMAIN g : /\ a < x /\ IsPlain(g[x]) /\ g[x].role = "assistant"
                                               /\ g[a].ts = g[x].ts - 1
      BY DEF CarriedOn
    <2>0. a # p /\ c # p /\ OpenAnswer(h, o[c])
      BY <1>3, <1>8
    <2>1. /\ o[c] < o[a] /\ h[o[a]].kind = "summary" /\ NoPlainBetween(h, o[c], o[a])
          /\ o[c] \in DOMAIN h /\ o[a] \in DOMAIN h
      BY <1>5, <1>6, <1>7, <2>0
    <2>2. CASE h[o[c]].uses \subseteq h[o[a]].uses
      BY <1>7, <2>0, <2>2
    <2>3. CASE \E x \in DOMAIN h : /\ o[a] < x /\ IsPlain(h[x]) /\ h[x].role = "assistant"
                                   /\ h[o[a]].ts = h[x].ts - 1
      <3> PICK x \in DOMAIN h : /\ o[a] < x /\ IsPlain(h[x]) /\ h[x].role = "assistant"
                                /\ h[o[a]].ts = h[x].ts - 1
        BY <2>3
      <3>3. PICK i \in DOMAIN g : i # p /\ o[i] = x
        BY <1>6
      <3>4. a < i /\ IsPlain(g[i]) /\ g[i].role = "assistant" /\ g[a].ts = g[i].ts - 1
        BY <1>5, <1>7, <2>0, <3>3 DEF IsPlain
      <3> QED
        BY <3>4
    <2> QED
      BY <2>0, <2>1, <2>2, <2>3 DEF Parting, CarriedOn
  <1>11. AnsweredNext(g)
    <2> SUFFICES ASSUME NEW c \in DOMAIN g, NEW x \in DOMAIN g, OpenAnswer(g, c), c < x,
                        IsPlain(g[x]), g[x].role = "user", NoPlainBetween(g, c, x)
                 PROVE  g[c].uses \subseteq g[x].results
      BY DEF AnsweredNext
    <2>0. c # p /\ x # p /\ OpenAnswer(h, o[c])
      BY <1>3, <1>8 DEF IsPlain
    <2>1. /\ o[c] < o[x] /\ IsPlain(h[o[x]]) /\ h[o[x]].role = "user"
          /\ NoPlainBetween(h, o[c], o[x]) /\ o[c] \in DOMAIN h /\ o[x] \in DOMAIN h
      BY <1>5, <1>6, <1>7, <2>0 DEF IsPlain
    <2>2. h[o[c]].uses \subseteq h[o[x]].results
      BY <2>0, <2>1 DEF Parting, AnsweredNext
    <2> QED
      BY <1>7, <2>0, <2>2
  <1> QED
    BY <1>4, <1>9, <1>10, <1>11 DEF Parting

-----------------------------------------------------------------------------
(* Saving a message *)

\* What holds between the messages of h holds between the same ones of Append(h, x).
LEMMA AppendParting ==
    ASSUME NEW h \in Seq(Messages), NEW x \in Messages, Parting(h), IsPlain(x),
           x.truncationParent = None, x.cut = FALSE,
           x.role = "user" => \A c \in DOMAIN h :
               OpenAnswer(h, c) /\ (\A k \in DOMAIN h : c < k => ~ IsPlain(h[k])) => h[c].uses \subseteq x.results
    PROVE  Parting(Append(h, x))
  <1> DEFINE g == Append(h, x)
             n == Len(h) + 1
  <1>1. /\ DOMAIN g = 1 .. n /\ g[n] = x /\ \A i \in 1 .. Len(h) : g[i] = h[i]
        /\ Len(h) \in Nat /\ DOMAIN h = 1 .. Len(h)
    OBVIOUS
  <1> HIDE DEF g
  <1>2. \A i \in DOMAIN g : i # n => i \in DOMAIN h /\ g[i] = h[i]
    BY <1>1
  <1>0. DOMAIN g \subseteq Nat /\ DOMAIN h \subseteq DOMAIN g /\ n \in DOMAIN g /\ \A i \in DOMAIN g : i <= n
    BY <1>1
  <1> HIDE DEF n
  <1>3. CutBefore(g)
    <2> SUFFICES ASSUME NEW c \in DOMAIN g, NEW k \in DOMAIN g, c >= 2, IsPlain(g[c]), c < k,
                        g[k].kind = "marker" \/ g[k].truncationParent # None
                 PROVE  g[c].cut
      BY DEF CutBefore
    <2>1. k # n
      BY <1>1 DEF IsPlain
    <2>2. c # n
      BY <1>0
    <2> QED
      BY <1>2, <2>1, <2>2 DEF Parting, CutBefore
  <1>4. ASSUME NEW c \in DOMAIN g, NEW a \in DOMAIN g, c < a, NoPlainBetween(g, c, a)
        PROVE  NoPlainBetween(h, c, a)
    BY <1>0, <1>1, <1>4 DEF NoPlainBetween
  <1>5. CarriedOn(g)
    <2> SUFFICES ASSUME NEW c \in DOMAIN g, NEW a \in DOMAIN g, OpenAnswer(g, c), c < a,
                        g[a].kind = "summary", NoPlainBetween(g, c, a)
                 PROVE  \/ g[c].uses \subseteq g[a].uses
                        \/ \E y \in DOMAIN g : /\ a < y /\ IsPlain(g[y]) /\ g[y].role = "assistant"
                                               /\ g[a].ts = g[y].ts - 1
      BY DEF CarriedOn
    <2>1. a # n
      BY <1>1 DEF IsPlain
    <2>2. c # n
      BY <1>0
    <2>3. /\ a \in DOMAIN h /\ c \in DOMAIN h /\ g[a] = h[a] /\ g[c] = h[c]
          /\ OpenAnswer(h, c) /\ NoPlainBetween(h, c, a)
      BY <1>2, <1>4, <2>1, <2>2 DEF OpenAnswer
    <2>4. \/ h[c].uses \subseteq h[a].uses
          \/ \E y \in DOMAIN h : /\ a < y /\ IsPlain(h[y]) /\ h[y].role = "assistant"
                                 /\ h[a].ts = h[y].ts - 1
      BY <2>3 DEF Parting, CarriedOn
    <2> QED
      BY <1>0, <1>1, <2>3, <2>4
  <1>6. AnsweredNext(g)
    <2> SUFFICES ASSUME NEW c \in DOMAIN g, NEW y \in DOMAIN g, OpenAnswer(g, c), c < y,
                        IsPlain(g[y]), g[y].role = "user", NoPlainBetween(g, c, y)
                 PROVE  g[c].uses \subseteq g[y].results
      BY DEF AnsweredNext
    <2>2. c # n
      BY <1>0
    <2>3. c \in DOMAIN h /\ g[c] = h[c] /\ OpenAnswer(h, c) /\ NoPlainBetween(h, c, y)
      BY <1>2, <1>4, <2>2 DEF OpenAnswer
    <2>4. CASE y # n
      <3>1. y \in DOMAIN h /\ g[y] = h[y]
        BY <1>2, <2>4
      <3> QED
        BY <2>3, <3>1 DEF Parting, AnsweredNext
    <2>5. CASE y = n
      <3>1. \A k \in DOMAIN h : c < k => ~ IsPlain(h[k])
        <4> SUFFICES ASSUME NEW k \in DOMAIN h, c < k PROVE ~ IsPlain(h[k])
          OBVIOUS
        <4>1. k < n
          BY <1>1 DEF n
        <4> QED
          BY <2>3, <2>5, <4>1 DEF NoPlainBetween
      <3> QED
        BY <1>1, <2>3, <2>5, <3>1
    <2> QED
      BY <2>4, <2>5
  <1> QED
    BY <1>3, <1>5, <1>6 DEF Parting, g

\* A message saved tells nothing wrong, unless a summary tells nothing of a call
\* it answers.
LEMMA AppendTelling ==
    ASSUME NEW h \in Seq(Messages), NEW x \in Messages, Telling(h), IsPlain(x),
           \A i, j \in DOMAIN h : i < j /\ h[j].kind = "summary" /\ x.results \intersect h[i].uses # {}
               => h[i].tells \subseteq h[j].tells
    PROVE  Telling(Append(h, x))
  <1> DEFINE g == Append(h, x)
             n == Len(h) + 1
  <1>1. /\ DOMAIN g = 1 .. n /\ g[n] = x /\ \A i \in 1 .. Len(h) : g[i] = h[i]
        /\ Len(h) \in Nat /\ DOMAIN h = 1 .. Len(h)
    OBVIOUS
  <1> HIDE DEF g
  <1>2. \A i \in DOMAIN g : i # n => i \in DOMAIN h /\ g[i] = h[i]
    BY <1>1
  <1>0. DOMAIN g \subseteq Nat /\ DOMAIN h \subseteq DOMAIN g /\ n \in DOMAIN g /\ \A i \in DOMAIN g : i <= n
    BY <1>1
  <1> HIDE DEF n
  <1>3. \A j \in DOMAIN g : g[j].kind = "summary" => j # n /\ j \in DOMAIN h /\ g[j] = h[j]
    BY <1>1, <1>2 DEF IsPlain
  <1>4. \A i, j \in DOMAIN g : i < j => i # n /\ i \in DOMAIN h /\ g[i] = h[i]
    BY <1>0, <1>2
  <1>5. TellOn(g)
    BY <1>3, <1>4 DEF Telling, TellOn
  <1>6. TellAll(g)
    <2> SUFFICES ASSUME NEW i \in DOMAIN g, NEW j \in DOMAIN g, i < j, g[j].kind = "summary",
                        ~ (g[i].tells \subseteq g[j].tells)
                 PROVE  NoResult(g, i)
      BY DEF TellAll
    <2>1. i \in DOMAIN h /\ j \in DOMAIN h /\ g[i] = h[i] /\ g[j] = h[j]
      BY <1>3, <1>4
    <2>2. NoResult(h, i)
      BY <2>1 DEF Telling, TellAll
    <2>3. x.results \intersect h[i].uses = {}
      BY <2>1
    <2>4. ASSUME NEW k \in DOMAIN g, k > i PROVE g[k].results \intersect g[i].uses = {}
      <3>1. CASE k = n
        BY <1>1, <2>1, <2>3, <3>1
      <3>2. CASE k # n
        BY <1>2, <2>1, <2>2, <2>4, <3>2 DEF NoResult
      <3> QED
        BY <3>1, <3>2
    <2> QED
      BY <2>1, <2>2, <2>4 DEF NoResult
  <1>7. TellCarried(g)
    <2> SUFFICES ASSUME NEW i \in DOMAIN g, NEW j \in DOMAIN g, NEW k \in DOMAIN g,
                        i < j, j <= k, g[j].kind = "summary", g[k].kind = "summary",
                        g[i].uses \intersect g[k].uses # {}
                 PROVE  g[i].tells \subseteq g[j].tells
      BY DEF TellCarried
    <2>1. /\ i \in DOMAIN h /\ j \in DOMAIN h /\ k \in DOMAIN h
          /\ g[i] = h[i] /\ g[j] = h[j] /\ g[k] = h[k]
      BY <1>3, <1>4
    <2> QED
      BY <2>1 DEF Telling, TellCarried
  <1> QED
    BY <1>5, <1>6, <1>7 DEF Telling, g

\* The results a user message brings belong to calls of which the summaries know.
LEMMA ResultsTold ==
    ASSUME NEW h, NEW d, NEW t, NEW k, HistoryOK(h, d, t, k), Telling(h), NEW results,
           CurrentAnswer(h, results),
           NEW i \in DOMAIN h, NEW j \in DOMAIN h, i < j, h[j].kind = "summary",
           ResultsFor(results, h) \intersect h[i].uses # {}
    PROVE  h[i].tells \subseteq h[j].tells
  <1>1. h \in Seq(Messages) /\ MessageOK(h[i], d, t, k) /\ MessageOK(h[j], d, t, k) /\ h[i] \in Messages
        /\ i \in Nat /\ j \in Nat /\ DOMAIN h \subseteq Nat
    BY DEF HistoryOK
  <1>2. CASE h[i].kind = "summary"
    BY <1>2 DEF Telling, TellOn
  <1>3. CASE h[i].kind = "marker"
    <2>1. h[i].uses = {}
      BY <1>1, <1>3 DEF MessageOK
    <2> QED
      BY <2>1
  <1>4. CASE IsPlain(h[i])
    <2>1. CASE ResultsFor(results, h) = results
      BY <1>4, <2>1 DEF CurrentAnswer
    <2>2. CASE \E a \in DOMAIN h :
                 /\ h[a].role = "assistant" /\ h[a].uses # {}
                 /\ \A l \in DOMAIN h : l > a => h[l].role # "assistant"
                 /\ ResultsFor(results, h) = h[a].uses
      <3> PICK a \in DOMAIN h :
                 /\ h[a].role = "assistant" /\ h[a].uses # {}
                 /\ \A l \in DOMAIN h : l > a => h[l].role # "assistant"
                 /\ ResultsFor(results, h) = h[a].uses
        BY <2>2
      <3>1. h[j].role = "assistant"
        BY <1>1 DEF MessageOK
      <3>2. j <= a /\ i < a /\ a \in Nat
        BY <1>1, <3>1
      <3>3. MessageOK(h[a], d, t, k)
        BY DEF HistoryOK
      <3>4. CASE h[a].kind = "summary"
        BY <3>2, <3>4 DEF Telling, TellCarried
      <3>5. CASE IsPlain(h[a])
        BY <1>4, <3>2, <3>5 DEF HistoryOK, UsesApart
      <3>6. CASE h[a].kind = "marker"
        BY <3>3, <3>6 DEF MessageOK
      <3>7. h[a] \in Messages
        BY <1>1
      <3> QED
        BY <3>4, <3>5, <3>6, <3>7, MessageFields DEF IsPlain
    <2> QED
      BY <2>1, <2>2, <1>1, ResultsForIs
  <1> QED
    BY <1>1, <1>2, <1>3, <1>4, MessageFields DEF IsPlain

\* The results a user message brings are for all calls of the answer before it.
LEMMA ResultsAll ==
    ASSUME NEW h, NEW d, NEW t, NEW k, HistoryOK(h, d, t, k), Parting(h), NEW results,
           NEW c \in DOMAIN h, OpenAnswer(h, c), \A q \in DOMAIN h : c < q => ~ IsPlain(h[q])
    PROVE  h[c].uses \subseteq ResultsFor(results, h)
  <1>1. h \in Seq(Messages) /\ DOMAIN h \subseteq Nat
    BY DEF HistoryOK
  <1>2. c >= 2
    <2>1. c # 1
      BY <1>1 DEF OpenAnswer, HistoryOK, BeginsPlain
    <2>2. c \in 1 .. Len(h)
      BY <1>1
    <2> QED
      BY <2>1, <2>2
  <1>3. ASSUME NEW q \in DOMAIN h, c < q PROVE h[q].kind = "summary"
    <2>1. h[q].kind # "marker"
      BY <1>2, <1>3 DEF Parting, CutBefore, OpenAnswer
    <2>2. h[q] \in Messages
      BY <1>1
    <2> QED
      BY <1>3, <2>1, <2>2, MessageFields DEF IsPlain
  <1>4. ASSUME NEW a \in DOMAIN h, c <= a PROVE h[c].uses \subseteq h[a].uses
    <2>1. CASE a = c
      BY <2>1
    <2>2. CASE a # c
      <3>1. c < a /\ h[a].kind = "summary"
        BY <1>1, <1>3, <1>4, <2>2
      <3>2. NoPlainBetween(h, c, a)
        BY DEF NoPlainBetween
      <3>3. ~ \E x \in DOMAIN h : a < x /\ IsPlain(h[x])
        BY <1>1, <3>1
      <3> QED
        BY <3>1, <3>2, <3>3 DEF Parting, CarriedOn
    <2> QED
      BY <2>1, <2>2
  <1>5. CASE /\ ResultsFor(results, h) = results
             /\ \A i \in DOMAIN h : h[i].role = "assistant" =>
                     \E a \in DOMAIN h : i <= a /\ h[a].role = "assistant" /\ h[a].uses = {}
                                         /\ \A j \in DOMAIN h : j > a => h[j].role # "assistant"
    <2>1. PICK a \in DOMAIN h : c <= a /\ h[a].uses = {}
      BY <1>5 DEF OpenAnswer
    <2> QED
      BY <1>4, <2>1 DEF OpenAnswer
  <1>6. CASE \E a \in DOMAIN h :
                 /\ h[a].role = "assistant" /\ h[a].uses # {}
                 /\ \A j \in DOMAIN h : j > a => h[j].role # "assistant"
                 /\ ResultsFor(results, h) = h[a].uses
    <2>1. PICK a \in DOMAIN h :
                 /\ h[a].role = "assistant" /\ h[a].uses # {}
                 /\ \A j \in DOMAIN h : j > a => h[j].role # "assistant"
                 /\ ResultsFor(results, h) = h[a].uses
      BY <1>6
    <2>2. c <= a
      BY <1>1, <2>1 DEF OpenAnswer
    <2> QED
      BY <1>4, <2>1, <2>2
  <1> QED
    BY <1>1, <1>5, <1>6, ResultsForIs

-----------------------------------------------------------------------------
(* What a new summary tells *)

\* A new summary tells of everything before the kept messages, but for an answer
\* whose calls have no result behind it.
LEMMA NewSummaryTells ==
    ASSUME NEW h, NEW d, NEW t, NEW k, HistoryOK(h, d, t, k), CanCondense(h), Telling(h),
           NEW i \in 1 .. KeepStart(h)
    PROVE  /\ h[i].kind = "summary" => h[i].tells \subseteq Summary(h).tells
           /\ h[i].tells \subseteq Summary(h).tells \/ NoResult(h, i)
           /\ h[i].uses \intersect CallsToPreserve(h) # {}
                  => h[i].tells \subseteq Summary(h).tells /\ ~ NoResult(h, i)
  <1> DEFINE K == KeepStart(h)
             S == Summary(h)
             U == CallsToPreserve(h)
  <1>1. h \in Seq(Messages) /\ SummariesAnswer(h)
    BY SummariesAnswerOK DEF HistoryOK
  <1>2. /\ Len(h) > 3 /\ Len(h) \in Nat /\ K \in 1 .. Len(h) /\ DOMAIN h = 1 .. Len(h)
    BY <1>1, CanCondenseWhen
  <1>3. /\ \A u \in U : \E j \in K + 1 .. Len(h) : u \in h[j].results
        /\ \A u \in h[K].uses : \A j \in K + 1 .. Len(h) : u \in h[j].results => u \in U
    BY <1>1, <1>2, CallsToPreserveIs
  <1>4. ASSUME NEW q \in 1 .. K, \A j \in q + 1 .. K : h[j].kind # "summary"
        PROVE  \/ h[q].tells \subseteq S.tells
               \/ q = K /\ U = {} /\ h[q].uses # {} /\ h[q].kind # "summary"
    BY <1>1, <1>4, SummaryTells
  <1> HIDE DEF K, S, U
  <1>5. ASSUME NEW q \in 1 .. K, h[q].kind = "summary" PROVE h[q].tells \subseteq S.tells
    <2> DEFINE D == {j \in 1 .. K : h[j].kind = "summary"}
    <2>1. Max(D) \in D /\ \A j \in D : j <= Max(D)
      <3>1. D \subseteq 1 .. K /\ K \in Nat
        BY <1>2
      <3>2. q \in D
        BY <1>5
      <3> HIDE DEF D
      <3>3. D # {}
        BY <3>2
      <3> QED
        BY <3>1, <3>3, GreatestIn
    <2> DEFINE l == Max(D)
    <2>2. l \in 1 .. K /\ h[l].kind = "summary" /\ q <= l
      BY <1>5, <2>1
    <2>3. \A j \in l + 1 .. K : h[j].kind # "summary"
      BY <1>2, <2>1
    <2> HIDE DEF l
    <2>4. h[l].tells \subseteq S.tells
      BY <1>4, <2>2, <2>3
    <2>5. CASE q = l
      BY <2>4, <2>5
    <2>6. CASE q # l
      <3>1. q < l /\ q \in DOMAIN h /\ l \in DOMAIN h
        BY <1>2, <2>2, <2>6
      <3>2. h[q].tells \subseteq h[l].tells
        BY <1>5, <2>2, <3>1 DEF Telling, TellOn
      <3> QED
        BY <2>4, <3>2
    <2> QED
      BY <2>5, <2>6
  <1>6. h[i].tells \subseteq S.tells \/ NoResult(h, i)
    <2>0. i \in 1 .. K /\ i \in DOMAIN h /\ i \in Nat /\ K \in Nat
      BY <1>2 DEF K
    <2>1. CASE \A j \in i + 1 .. K : h[j].kind # "summary"
      <3>1. CASE i = K /\ U = {} /\ h[i].uses # {}
        <4>1. ASSUME NEW l \in DOMAIN h, l > i PROVE h[l].results \intersect h[i].uses = {}
          <5>1. l \in K + 1 .. Len(h)
            BY <1>2, <3>1, <4>1
          <5> QED
            BY <1>3, <3>1, <5>1
        <4> QED
          BY <3>1, <4>1 DEF NoResult
      <3> QED
        BY <1>4, <2>0, <2>1, <3>1
    <2>2. CASE ~ \A j \in i + 1 .. K : h[j].kind # "summary"
      <3> PICK j \in i + 1 .. K : h[j].kind = "summary"
        BY <2>2
      <3>1. j \in 1 .. K /\ j \in DOMAIN h /\ i < j
        BY <1>2, <2>0
      <3>2. h[j].tells \subseteq S.tells
        BY <1>5, <3>1
      <3>3. h[i].tells \subseteq h[j].tells \/ NoResult(h, i)
        BY <2>0, <3>1 DEF Telling, TellAll
      <3> QED
        BY <3>2, <3>3
    <2> QED
      BY <2>1, <2>2
  <1>7. ASSUME h[i].uses \intersect U # {} PROVE ~ NoResult(h, i)
    <2> PICK u \in U : u \in h[i].uses
      BY <1>7
    <2> PICK j \in K + 1 .. Len(h) : u \in h[j].results
      BY <1>3
    <2>1. j \in DOMAIN h /\ j > i
      BY <1>2 DEF K
    <2> QED
      BY <2>1 DEF NoResult
  <1> QED
    BY <1>5, <1>6, <1>7 DEF K, S, U

\* What Condensed makes of h, position by position.
CondensedTo(g, h, K, o) ==
    LET p == K + 1
    IN  /\ h \in Seq(Messages) /\ Len(h) \in Nat /\ DOMAIN h = 1 .. Len(h)
        /\ K \in 1 .. Len(h) /\ p \in 2 .. Len(h) /\ DOMAIN g = 1 .. Len(h) + 1
        /\ Derived(g, h, o, p)
        /\ \A i \in DOMAIN g : i < p => o[i] = i
        /\ \A i \in DOMAIN g : i > p => o[i] = i - 1 /\ g[i].kind # "summary"
        /\ g[p].kind = "summary" /\ g[p].role = "assistant" /\ g[p].results = {}
        /\ g[p].truncationParent = None /\ g[p].ts = h[p].ts - 1
        /\ \A i \in DOMAIN g : i # p =>
               /\ i \in Nat /\ o[i] \in DOMAIN h /\ o[i] \in Nat
               /\ g[i].kind = h[o[i]].kind /\ g[i].role = h[o[i]].role /\ g[i].ts = h[o[i]].ts
               /\ g[i].uses = h[o[i]].uses /\ g[i].results = h[o[i]].results
               /\ g[i].tells = h[o[i]].tells /\ g[i].cut = h[o[i]].cut
               /\ g[i].truncationParent = h[o[i]].truncationParent
        /\ \A i, j \in DOMAIN g : i # p /\ j # p => (i < j <=> o[i] < o[j])
        /\ \A q \in DOMAIN h : \E i \in DOMAIN g : i # p /\ o[i] = q

\* A condensation as an insertion.
LEMMA CondensedToIs ==
    ASSUME NEW h, NEW d, NEW k, HistoryOK(h, d, now, k), now \in Nat, CanCondense(h)
    PROVE  LET g == Condensed(h)
           IN  /\ CondensedTo(g, h, KeepStart(h), Shift(KeepStart(h) + 1))
               /\ g[KeepStart(h) + 1] = Summary(h) /\ Summary(h).uses = CallsToPreserve(h)
  <1> DEFINE g == Condensed(h)
             K == KeepStart(h)
             p == K + 1
             o == Shift(p)
  <1>1. h \in Seq(Messages) /\ SummariesAnswer(h) /\ Len(h) \in Nat /\ DOMAIN h = 1 .. Len(h)
    <2>1. SummariesAnswer(h)
      BY SummariesAnswerOK
    <2> QED
      BY <2>1 DEF HistoryOK
  <1>2. /\ Derived(g, h, o, p)
        /\ DOMAIN g = 1 .. Len(h) + 1 /\ p \in 2 .. Len(h)
        /\ g[p] = Summary(h)
        /\ \A i \in DOMAIN g : i < p => o[i] = i
        /\ \A i \in DOMAIN g : i > p => o[i] = i - 1 /\ g[i] = h[i - 1]
        /\ \A i \in DOMAIN g : i # p => /\ g[i].truncationParent = h[o[i]].truncationParent
                                        /\ g[i].cut = h[o[i]].cut
    BY <1>1, CondensedDoes
  <1>3. /\ Summary(h).ts = h[p].ts - 1
        /\ Summary(h).role = "assistant" /\ Summary(h).kind = "summary"
        /\ Summary(h).uses = CallsToPreserve(h) /\ Summary(h).results = {}
        /\ Summary(h).truncationParent = None
    BY <1>1, SummaryIs
  <1>4. K \in 1 .. Len(h) /\ \A i \in K + 1 .. Len(h) : h[i].kind # "summary"
    BY <1>1, CanCondenseWhen
  <1>5. /\ DOMAIN g \subseteq Nat /\ DOMAIN h \subseteq Nat
        /\ \A i \in DOMAIN g : i # p => o[i] \in DOMAIN h /\ Same(g[i], h[o[i]])
        /\ \A i, j \in DOMAIN g : i # p /\ j # p => (i < j <=> o[i] < o[j])
    <2>1. Derived(g, h, o, p)
      BY <1>2
    <2> HIDE DEF g, K, p, o
    <2> QED
      BY <1>1, <2>1, OrderBack
  <1> HIDE DEF g, K
  <1>50. K \in Nat
    BY <1>4
  <1>6. \A i \in DOMAIN g : i > p => o[i] = i - 1 /\ g[i].kind # "summary"
    <2> SUFFICES ASSUME NEW i \in DOMAIN g, i > p PROVE o[i] = i - 1 /\ g[i].kind # "summary"
      OBVIOUS
    <2>1. i - 1 \in K + 1 .. Len(h)
      BY <1>1, <1>2, <1>50
    <2> QED
      BY <1>2, <1>4, <2>1
  <1>7. ASSUME NEW q \in DOMAIN h PROVE \E i \in DOMAIN g : i # p /\ o[i] = q
    <2>0. q \in Nat /\ q >= 1 /\ q <= Len(h)
      BY <1>1
    <2>1. CASE q < p
      <3>1. q \in DOMAIN g /\ q # p
        BY <1>1, <1>2, <1>50, <2>0, <2>1
      <3>2. o[q] = q
        BY <1>2, <2>1, <3>1
      <3> QED
        BY <3>1, <3>2
    <2>2. CASE q >= p
      <3>1. q + 1 \in 1 .. Len(h) + 1 /\ q + 1 # p /\ q + 1 > p /\ (q + 1) - 1 = q
        BY <1>1, <1>50, <2>0, <2>2
      <3>2. q + 1 \in DOMAIN g
        BY <1>2, <3>1
      <3>3. o[q + 1] = q
        BY <1>2, <3>1, <3>2
      <3> QED
        BY <3>1, <3>2, <3>3
    <2> QED
      BY <1>50, <2>0, <2>1, <2>2
  <1>8. \A i \in DOMAIN g : i # p =>
               /\ i \in Nat /\ o[i] \in DOMAIN h /\ o[i] \in Nat
               /\ g[i].kind = h[o[i]].kind /\ g[i].role = h[o[i]].role /\ g[i].ts = h[o[i]].ts
               /\ g[i].uses = h[o[i]].uses /\ g[i].results = h[o[i]].results
               /\ g[i].tells = h[o[i]].tells /\ g[i].cut = h[o[i]].cut
               /\ g[i].truncationParent = h[o[i]].truncationParent
    BY <1>2, <1>5 DEF Same
  <1>9. CondensedTo(g, h, K, o)
    BY <1>1, <1>2, <1>3, <1>4, <1>5, <1>6, <1>7, <1>8 DEF CondensedTo
  <1> QED
    BY <1>2, <1>3, <1>9 DEF g, K

\* A condensation keeps what summaries tell.
LEMMA CondensedTelling ==
    ASSUME NEW h, NEW d, NEW k, HistoryOK(h, d, now, k), now \in Nat, CanCondense(h), Telling(h)
    PROVE  Telling(Condensed(h))
  <1> DEFINE g == Condensed(h)
             K == KeepStart(h)
             p == K + 1
             o == Shift(p)
             S == Summary(h)
  <1>1. CondensedTo(g, h, K, o) /\ g[p] = S /\ S.uses = CallsToPreserve(h)
    BY CondensedToIs
  <1>2. ASSUME NEW i \in 1 .. K
        PROVE  /\ h[i].kind = "summary" => h[i].tells \subseteq S.tells
               /\ h[i].tells \subseteq S.tells \/ NoResult(h, i)
               /\ h[i].uses \intersect S.uses # {} => h[i].tells \subseteq S.tells /\ ~ NoResult(h, i)
    BY <1>1, <1>2, NewSummaryTells
  <1> HIDE DEF g, K, o, S
  <1>3. /\ K \in Nat /\ p \in Nat /\ p \in DOMAIN g /\ DOMAIN g \subseteq Nat
        /\ \A i \in DOMAIN g : i < p => o[i] = i /\ i \in 1 .. K
        /\ \A i \in DOMAIN g : i > p => g[i].kind # "summary"
        /\ g[p].results = {}
        /\ \A i \in DOMAIN g : i # p =>
               /\ o[i] \in DOMAIN h
               /\ g[i].kind = h[o[i]].kind /\ g[i].uses = h[o[i]].uses
               /\ g[i].results = h[o[i]].results /\ g[i].tells = h[o[i]].tells
        /\ \A i, j \in DOMAIN g : i # p /\ j # p => (i < j <=> o[i] < o[j])
    BY <1>1 DEF CondensedTo
  <1>4. ASSUME NEW i \in DOMAIN g, i # p, NoResult(h, o[i]) PROVE NoResult(g, i)
    <2>1. ASSUME NEW l \in DOMAIN g, l > i PROVE g[l].results \intersect g[i].uses = {}
      <3>1. CASE l = p
        BY <1>3, <3>1
      <3>2. CASE l # p
        <4>1. o[l] \in DOMAIN h /\ o[l] > o[i]
          BY <1>3, <1>4, <2>1, <3>2
        <4> QED
          BY <1>3, <1>4, <3>2, <4>1 DEF NoResult
      <3> QED
        BY <3>1, <3>2
    <2> QED
      BY <1>3, <1>4, <2>1 DEF NoResult
  <1>5. TellOn(g)
    <2> SUFFICES ASSUME NEW i \in DOMAIN g, NEW j \in DOMAIN g, i < j,
                        g[i].kind = "summary", g[j].kind = "summary"
                 PROVE  g[i].tells \subseteq g[j].tells
      BY DEF TellOn
    <2>1. i < p /\ i # p /\ o[i] = i /\ i \in 1 .. K
      BY <1>3
    <2>2. CASE j = p
      BY <1>1, <1>2, <1>3, <2>1, <2>2
    <2>3. CASE j # p
      BY <1>3, <2>1, <2>3 DEF Telling, TellOn
    <2> QED
      BY <2>2, <2>3
  <1>6. TellAll(g)
    <2> SUFFICES ASSUME NEW i \in DOMAIN g, NEW j \in DOMAIN g, i < j, g[j].kind = "summary"
                 PROVE  g[i].tells \subseteq g[j].tells \/ NoResult(g, i)
      BY DEF TellAll
    <2>1. i < p /\ i # p /\ o[i] = i /\ i \in 1 .. K
      BY <1>3
    <2>2. CASE j = p
      BY <1>1, <1>2, <1>3, <1>4, <2>1, <2>2
    <2>3. CASE j # p
      <3>1. h[o[i]].tells \subseteq h[o[j]].tells \/ NoResult(h, o[i])
        BY <1>3, <2>1, <2>3 DEF Telling, TellAll
      <3> QED
        BY <1>3, <1>4, <2>1, <2>3, <3>1
    <2> QED
      BY <2>2, <2>3
  <1>7. TellCarried(g)
    <2> SUFFICES ASSUME NEW i \in DOMAIN g, NEW j \in DOMAIN g, NEW l \in DOMAIN g,
                        i < j, j <= l, g[j].kind = "summary", g[l].kind = "summary",
                        g[i].uses \intersect g[l].uses # {}
                 PROVE  g[i].tells \subseteq g[j].tells
      BY DEF TellCarried
    <2>1. i < p /\ i # p /\ o[i] = i /\ i \in 1 .. K
      BY <1>3
    <2>2. CASE l = p /\ j = p
      BY <1>1, <1>2, <1>3, <2>1, <2>2
    <2>3. CASE l = p /\ j # p
      <3>1. ~ NoResult(h, o[i])
        BY <1>1, <1>2, <1>3, <2>1, <2>3
      <3>2. h[o[i]].tells \subseteq h[o[j]].tells
        BY <1>3, <2>1, <2>3, <3>1 DEF Telling, TellAll
      <3> QED
        BY <1>3, <2>1, <2>3, <3>2
    <2>4. CASE l # p
      <3>1. j # p
        BY <1>3, <2>4
      <3>2. o[i] < o[j] /\ o[j] <= o[l]
        <4>1. o[j] \in Nat /\ o[l] \in Nat /\ (j = l \/ j < l)
          BY <1>1, <1>3, <2>4, <3>1 DEF CondensedTo
        <4> QED
          BY <1>3, <2>1, <2>4, <3>1, <4>1
      <3> QED
        BY <1>3, <2>1, <2>4, <3>1, <3>2 DEF Telling, TellCarried
    <2> QED
      BY <2>2, <2>3, <2>4
  <1> QED
    BY <1>5, <1>6, <1>7 DEF Telling, g

\* A condensation keeps results behind their calls.
LEMMA CondensedParting ==
    ASSUME NEW h, NEW d, NEW k, HistoryOK(h, d, now, k), now \in Nat, CanCondense(h), Parting(h)
    PROVE  Parting(Condensed(h))
  <1> DEFINE g == Condensed(h)
             K == KeepStart(h)
             p == K + 1
             o == Shift(p)
             S == Summary(h)
             U == CallsToPreserve(h)
  <1>1. CondensedTo(g, h, K, o) /\ g[p] = S /\ S.uses = U
    BY CondensedToIs
  <1>2. /\ \A u \in h[K].uses : \A j \in K + 1 .. Len(h) : u \in h[j].results => u \in U
        /\ \A i \in K + 1 .. Len(h) : h[i].kind # "summary"
    BY CallsToPreserveIs, CanCondenseWhen DEF HistoryOK
  <1> HIDE DEF g, K, o, S, U
  <1>3. /\ K \in Nat /\ p \in Nat /\ p \in DOMAIN g /\ DOMAIN g \subseteq Nat /\ DOMAIN h \subseteq Nat
        /\ K \in DOMAIN h /\ p \in DOMAIN h /\ p + 1 \in DOMAIN g /\ p \in K + 1 .. Len(h) /\ p >= 2
        /\ \A i \in DOMAIN g : i < p => o[i] = i /\ i \in 1 .. K
        /\ \A i \in DOMAIN g : i > p => o[i] = i - 1 /\ g[i].kind # "summary"
        /\ g[p].kind = "summary" /\ g[p].role = "assistant" /\ g[p].ts = h[p].ts - 1
        /\ g[p].truncationParent = None
    BY <1>1 DEF CondensedTo
  <1>4. \A i \in DOMAIN g : i # p =>
            /\ o[i] \in DOMAIN h /\ o[i] \in Nat
            /\ g[i].kind = h[o[i]].kind /\ g[i].role = h[o[i]].role /\ g[i].ts = h[o[i]].ts
            /\ g[i].uses = h[o[i]].uses /\ g[i].results = h[o[i]].results
            /\ g[i].cut = h[o[i]].cut /\ g[i].truncationParent = h[o[i]].truncationParent
    BY <1>1 DEF CondensedTo
  <1>5. /\ \A i, j \in DOMAIN g : i # p /\ j # p => (i < j <=> o[i] < o[j])
        /\ \A q \in DOMAIN h : \E i \in DOMAIN g : i # p /\ o[i] = q
    BY <1>1 DEF CondensedTo
  <1>6. ASSUME NEW c \in DOMAIN g, OpenAnswer(g, c) PROVE c # p /\ OpenAnswer(h, o[c])
    <2>1. c # p
      BY <1>3, <1>6 DEF OpenAnswer, IsPlain
    <2> QED
      BY <1>4, <1>6, <2>1 DEF OpenAnswer, IsPlain
  <1>7. ASSUME NEW c \in DOMAIN g, NEW x \in DOMAIN g, c # p, x # p, NoPlainBetween(g, c, x)
        PROVE  NoPlainBetween(h, o[c], o[x])
    <2> SUFFICES ASSUME NEW q \in DOMAIN h, o[c] < q, q < o[x], IsPlain(h[q]) PROVE FALSE
      BY DEF NoPlainBetween
    <2>1. PICK i \in DOMAIN g : i # p /\ o[i] = q
      BY <1>5
    <2>2. c < i /\ i < x /\ IsPlain(g[i])
      BY <1>4, <1>5, <1>7, <2>1 DEF IsPlain
    <2> QED
      BY <1>7, <2>2 DEF NoPlainBetween
  <1>8. CutBefore(g)
    <2> SUFFICES ASSUME NEW c \in DOMAIN g, NEW l \in DOMAIN g, c >= 2, IsPlain(g[c]), c < l,
                        g[l].kind = "marker" \/ g[l].truncationParent # None
                 PROVE  g[c].cut
      BY DEF CutBefore
    <2>1. c # p /\ l # p
      BY <1>3 DEF IsPlain
    <2>2. o[c] >= 2
      BY <1>3, <2>1
    <2> QED
      BY <1>4, <1>5, <2>1, <2>2 DEF Parting, CutBefore, IsPlain
  <1>9. ASSUME NEW c \in DOMAIN g, OpenAnswer(g, c), c < p, NoPlainBetween(g, c, p)
        PROVE  \/ g[c].uses \subseteq U
               \/ \E x \in DOMAIN g : /\ p < x /\ IsPlain(g[x]) /\ g[x].role = "assistant"
                                      /\ g[p].ts = g[x].ts - 1
    <2>1. OpenAnswer(h, c) /\ c \in DOMAIN h /\ o[c] = c /\ c \in 1 .. K /\ g[c].uses = h[c].uses
      BY <1>3, <1>4, <1>6, <1>9
    <2>2. c >= 2
      <3>1. c # 1
        BY <2>1 DEF OpenAnswer, HistoryOK, BeginsPlain
      <3> QED
        BY <2>1, <3>1
    <2>3. ASSUME NEW q \in DOMAIN h, c < q, q <= K PROVE ~ IsPlain(h[q])
      <3>1. q \in DOMAIN g /\ q < p /\ o[q] = q /\ q # p
        BY <1>1, <1>3, <2>3 DEF CondensedTo
      <3>2. ~ IsPlain(g[q])
        BY <1>9, <2>3, <3>1 DEF NoPlainBetween
      <3> QED
        BY <1>4, <3>1, <3>2 DEF IsPlain
    <2>4. NoPlainBetween(h, c, p) /\ NoPlainBetween(h, c, K)
      BY <1>3, <2>3 DEF NoPlainBetween
    <2>5. \A q \in DOMAIN h : c < q => h[q].kind # "marker"
      BY <2>1, <2>2 DEF OpenAnswer, Parting, CutBefore
    <2>6. IsPlain(h[p])
      <3>1. h[p].kind # "summary" /\ h[p].kind # "marker" /\ h[p] \in Messages
        BY <1>2, <1>3, <1>9, <2>5 DEF HistoryOK
      <3> QED
        BY <3>1, MessageFields DEF IsPlain
    <2>7. CASE h[p].role = "assistant"
      <3>1. p + 1 # p /\ p + 1 > p /\ o[p + 1] = p
        BY <1>3
      <3>2. IsPlain(g[p + 1]) /\ g[p + 1].role = "assistant" /\ g[p].ts = g[p + 1].ts - 1
        BY <1>3, <1>4, <2>6, <2>7, <3>1 DEF IsPlain
      <3> QED
        BY <1>3, <3>1, <3>2
    <2>8. CASE h[p].role = "user"
      <3>1. h[c].uses \subseteq h[p].results
        BY <1>3, <1>9, <2>1, <2>4, <2>6, <2>8 DEF Parting, AnsweredNext
      <3>2. h[K].uses \intersect h[p].results \subseteq U
        BY <1>2, <1>3
      <3>3. CASE c = K
        BY <2>1, <3>1, <3>2, <3>3
      <3>4. CASE c # K
        <4>1. c < K /\ ~ IsPlain(h[K])
          BY <1>3, <2>1, <2>3, <3>4
        <4>2. h[K].kind = "summary"
          <5>1. h[K].kind # "marker" /\ h[K] \in Messages
            BY <1>3, <2>5, <4>1 DEF HistoryOK
          <5> QED
            BY <4>1, <5>1, MessageFields DEF IsPlain
        <4>3. CASE h[c].uses \subseteq h[K].uses
          BY <2>1, <3>1, <3>2, <4>3
        <4>4. CASE \E x \in DOMAIN h : /\ K < x /\ IsPlain(h[x]) /\ h[x].role = "assistant"
                                       /\ h[K].ts = h[x].ts - 1
          <5> PICK x \in DOMAIN h : /\ K < x /\ IsPlain(h[x]) /\ h[x].role = "assistant"
                                    /\ h[K].ts = h[x].ts - 1
            BY <4>4
          <5>1. p < x /\ K < p
            <6>1. x # p
              BY <2>8
            <6> QED
              BY <1>3, <6>1
          <5>2. h[K].ts < h[p].ts /\ h[p].ts < h[x].ts
            BY <1>3, <2>6, <5>1 DEF HistoryOK, InOrder
          <5>3. h[K].ts \in Int /\ h[p].ts \in Int /\ h[x].ts \in Int
            BY <1>3, MessageFields DEF HistoryOK
          <5> QED
            BY <5>2, <5>3
        <4> QED
          BY <1>3, <2>1, <2>4, <4>1, <4>2, <4>3, <4>4 DEF Parting, CarriedOn
      <3> QED
        BY <3>3, <3>4
    <2>9. h[p].role \in {"user", "assistant"}
      BY <1>3, MessageFields DEF HistoryOK
    <2> QED
      BY <2>7, <2>8, <2>9
  <1>10. CarriedOn(g)
    <2> SUFFICES ASSUME NEW c \in DOMAIN g, NEW a \in DOMAIN g, OpenAnswer(g, c), c < a,
                        g[a].kind = "summary", NoPlainBetween(g, c, a)
                 PROVE  \/ g[c].uses \subseteq g[a].uses
                        \/ \E x \in DOMAIN g : /\ a < x /\ IsPlain(g[x]) /\ g[x].role = "assistant"
                                               /\ g[a].ts = g[x].ts - 1
      BY DEF CarriedOn
    <2>1. CASE a = p
      BY <1>1, <1>9, <2>1
    <2>2. CASE a # p
      <3>0. c # p /\ OpenAnswer(h, o[c])
        BY <1>6
      <3>1. /\ o[c] < o[a] /\ h[o[a]].kind = "summary" /\ NoPlainBetween(h, o[c], o[a])
            /\ o[c] \in DOMAIN h /\ o[a] \in DOMAIN h
        BY <1>4, <1>5, <1>7, <2>2, <3>0
      <3>2. CASE h[o[c]].uses \subseteq h[o[a]].uses
        BY <1>4, <2>2, <3>0, <3>2
      <3>3. CASE \E x \in DOMAIN h : /\ o[a] < x /\ IsPlain(h[x]) /\ h[x].role = "assistant"
                                     /\ h[o[a]].ts = h[x].ts - 1
        <4> PICK x \in DOMAIN h : /\ o[a] < x /\ IsPlain(h[x]) /\ h[x].role = "assistant"
                                  /\ h[o[a]].ts = h[x].ts - 1
          BY <3>3
        <4>1. PICK i \in DOMAIN g : i # p /\ o[i] = x
          BY <1>5
        <4>2. a < i /\ IsPlain(g[i]) /\ g[i].role = "assistant" /\ g[a].ts = g[i].ts - 1
          BY <1>4, <1>5, <2>2, <4>1 DEF IsPlain
        <4> QED
          BY <4>2
      <3> QED
        BY <3>0, <3>1, <3>2, <3>3 DEF Parting, CarriedOn
    <2> QED
      BY <2>1, <2>2
  <1>11. AnsweredNext(g)
    <2> SUFFICES ASSUME NEW c \in DOMAIN g, NEW x \in DOMAIN g, OpenAnswer(g, c), c < x,
                        IsPlain(g[x]), g[x].role = "user", NoPlainBetween(g, c, x)
                 PROVE  g[c].uses \subseteq g[x].results
      BY DEF AnsweredNext
    <2>0. c # p /\ x # p /\ OpenAnswer(h, o[c])
      BY <1>3, <1>6 DEF IsPlain
    <2>1. /\ o[c] < o[x] /\ IsPlain(h[o[x]]) /\ h[o[x]].role = "user"
          /\ NoPlainBetween(h, o[c], o[x]) /\ o[c] \in DOMAIN h /\ o[x] \in DOMAIN h
      BY <1>4, <1>5, <1>7, <2>0 DEF IsPlain
    <2>2. h[o[c]].uses \subseteq h[o[x]].results
      BY <2>0, <2>1 DEF Parting, AnsweredNext
    <2> QED
      BY <1>4, <2>0, <2>2
  <1> QED
    BY <1>8, <1>10, <1>11 DEF Parting, g

\* A condensation keeps the current answer.
LEMMA CondensedCurrent ==
    ASSUME NEW h, NEW d, NEW k, HistoryOK(h, d, now, k), now \in Nat, CanCondense(h),
           Telling(h), Parting(h), NEW C, CurrentAnswer(h, C)
    PROVE  CurrentAnswer(Condensed(h), C)
  <1> DEFINE g == Condensed(h)
             K == KeepStart(h)
             p == K + 1
             o == Shift(p)
             S == Summary(h)
  <1>1. CondensedTo(g, h, K, o) /\ g[p] = S
    BY CondensedToIs
  <1>2. ASSUME NEW i \in 1 .. K
        PROVE  h[i].tells \subseteq S.tells \/ NoResult(h, i)
    BY <1>2, NewSummaryTells
  <1>20. \A i \in K + 1 .. Len(h) : h[i].kind # "summary"
    BY CanCondenseWhen DEF HistoryOK
  <1> HIDE DEF g, K, o, S
  <1>3. /\ K \in Nat /\ p \in Nat /\ p \in DOMAIN g /\ DOMAIN g \subseteq Nat /\ DOMAIN h \subseteq Nat
        /\ p \in DOMAIN h /\ p \in K + 1 .. Len(h)
        /\ \A i \in DOMAIN g : i < p => o[i] = i /\ i \in 1 .. K
        /\ \A i \in DOMAIN g : i > p => g[i].kind # "summary"
        /\ g[p].kind = "summary"
        /\ \A i \in DOMAIN g : i # p =>
            /\ o[i] \in DOMAIN h
            /\ g[i].kind = h[o[i]].kind /\ g[i].role = h[o[i]].role
            /\ g[i].uses = h[o[i]].uses /\ g[i].tells = h[o[i]].tells /\ g[i].cut = h[o[i]].cut
        /\ \A i, j \in DOMAIN g : i # p /\ j # p => (i < j <=> o[i] < o[j])
    BY <1>1 DEF CondensedTo
  <1> SUFFICES ASSUME NEW i \in DOMAIN g, IsPlain(g[i]), g[i].uses \intersect C # {}
               PROVE  /\ ~ g[i].cut
                      /\ \A j \in DOMAIN g : i < j => ~ (IsPlain(g[j]) /\ g[j].role = "assistant")
                      /\ \A j \in DOMAIN g : i < j /\ g[j].kind = "summary" => g[i].tells \subseteq g[j].tells
    BY DEF CurrentAnswer, g
  <1>4. i # p /\ IsPlain(h[o[i]]) /\ h[o[i]].uses \intersect C # {} /\ o[i] \in DOMAIN h
    BY <1>3 DEF IsPlain
  <1>5. /\ ~ h[o[i]].cut
        /\ \A j \in DOMAIN h : o[i] < j => ~ (IsPlain(h[j]) /\ h[j].role = "assistant")
        /\ \A j \in DOMAIN h : o[i] < j /\ h[j].kind = "summary" => h[o[i]].tells \subseteq h[j].tells
    BY <1>4 DEF CurrentAnswer
  <1>6. ASSUME NEW j \in DOMAIN g, i < j PROVE ~ (IsPlain(g[j]) /\ g[j].role = "assistant")
    <2>1. CASE j = p
      BY <1>3, <2>1 DEF IsPlain
    <2>2. CASE j # p
      BY <1>3, <1>4, <1>5, <1>6, <2>2 DEF IsPlain
    <2> QED
      BY <2>1, <2>2
  <1>7. ASSUME NEW j \in DOMAIN g, i < j, g[j].kind = "summary" PROVE g[i].tells \subseteq g[j].tells
    <2>1. CASE j # p
      BY <1>3, <1>4, <1>5, <1>7, <2>1
    <2>2. CASE j = p
      <3>1. i < p /\ o[i] = i /\ i \in 1 .. K /\ i \in DOMAIN h
        BY <1>3, <1>4, <1>7, <2>2
      <3>2. ~ NoResult(h, i)
        <4>1. OpenAnswer(h, i) /\ i >= 2
          <5>1. h[i].uses # {} /\ IsPlain(h[i]) /\ ~ h[i].cut
            BY <1>4, <1>5, <3>1
          <5>2. h[i].role = "assistant"
            BY <3>1, <5>1 DEF HistoryOK, MessageOK
          <5>3. i # 1
            BY <5>2, <3>1 DEF HistoryOK, BeginsPlain
          <5> QED
            BY <3>1, <5>1, <5>2, <5>3 DEF OpenAnswer
        <4>2. \A q \in DOMAIN h : i < q => h[q].kind # "marker"
          BY <3>1, <4>1 DEF OpenAnswer, Parting, CutBefore
        <4>3. IsPlain(h[p])
          <5>1. h[p].kind # "summary" /\ h[p].kind # "marker" /\ h[p] \in Messages
            BY <1>3, <1>20, <3>1, <4>2 DEF HistoryOK
          <5> QED
            BY <5>1, MessageFields DEF IsPlain
        <4> DEFINE D == {q \in DOMAIN h : i < q /\ IsPlain(h[q])}
                   x == Min(D)
        <4>4. D \in SUBSET Nat /\ D # {}
          <5>1. p \in D
            BY <1>3, <3>1, <4>3
          <5> QED
            BY <1>3, <5>1
        <4>5. x \in D /\ \A q \in D : x <= q
          BY <4>4, LeastIn
        <4> HIDE DEF x
        <4>6. x \in DOMAIN h /\ i < x /\ IsPlain(h[x]) /\ NoPlainBetween(h, i, x)
          <5>1. x \in DOMAIN h /\ i < x /\ IsPlain(h[x])
            BY <4>5
          <5>2. ASSUME NEW q \in DOMAIN h, i < q, q < x, IsPlain(h[q]) PROVE FALSE
            <6>1. q \in D
              BY <5>2
            <6>2. x <= q /\ q \in Nat /\ x \in Nat
              BY <1>3, <4>5, <5>1, <6>1
            <6> QED
              BY <5>2, <6>2
          <5> QED
            BY <5>1, <5>2 DEF NoPlainBetween
        <4> HIDE DEF D
        <4>7. h[x].role = "user"
          <5>1. h[x].role # "assistant" /\ h[x] \in Messages
            BY <1>5, <3>1, <4>6 DEF HistoryOK
          <5> QED
            BY <5>1, MessageFields
        <4>8. h[i].uses \subseteq h[x].results
          BY <3>1, <4>1, <4>6, <4>7 DEF Parting, AnsweredNext
        <4> QED
          BY <1>3, <3>1, <4>1, <4>6, <4>8 DEF NoResult, OpenAnswer
      <3>3. h[i].tells \subseteq S.tells
        BY <1>2, <3>1, <3>2
      <3> QED
        BY <1>1, <1>3, <1>4, <2>2, <3>1, <3>3
    <2> QED
      BY <2>1, <2>2
  <1> QED
    BY <1>3, <1>4, <1>5, <1>6, <1>7

\* A user message keeps it.
LEMMA AppendCurrent ==
    ASSUME NEW h \in Seq(Messages), NEW x \in Messages, NEW C, CurrentAnswer(h, C),
           IsPlain(x), x.role = "user", x.uses = {}
    PROVE  CurrentAnswer(Append(h, x), C)
  <1> DEFINE g == Append(h, x)
             p == Len(h) + 1
  <1>1. /\ Derived(g, h, Itself, p)
        /\ DOMAIN g = 1 .. Len(h) + 1 /\ g[p] = x
        /\ \A i \in 1 .. Len(h) : g[i] = h[i] /\ Itself[i] = i
    BY AppendDerives
  <1>2. \A i \in DOMAIN g : i # p => g[i].cut = h[Itself[i]].cut
    BY <1>1
  <1>3. g[p].kind # "summary" /\ g[p].uses = {} /\ g[p].role = "user"
    BY <1>1 DEF IsPlain
  <1> HIDE DEF g, p
  <1> DEFINE o == Itself
  <1>4. Derived(g, h, o, p) /\ \A i \in DOMAIN g : i # p => g[i].cut = h[o[i]].cut
    BY <1>1, <1>2
  <1> HIDE DEF o
  <1>5. CurrentAnswer(g, C)
    BY <1>3, <1>4, DerivedCurrent
  <1> QED
    BY <1>5 DEF g

\* Uncondensing keeps both.
LEMMA UncondensedKeeps ==
    ASSUME NEW h, NEW d, NEW t, NEW k, HistoryOK(h, d, t, k), Telling(h), Parting(h),
           NEW invalid, invalid \subseteq OfKind(h, "summary")
    PROVE  Telling(Uncondensed(h, invalid)) /\ Parting(Uncondensed(h, invalid))
  <1> DEFINE g == Uncondensed(h, invalid)
             K == Lasting(h, invalid)
  <1>1. h \in Seq(Messages) /\ DOMAIN h \subseteq Nat
    BY DEF HistoryOK
  <1>2. \E e : /\ Thinned(g, h, e, K)
               /\ \A i \in DOMAIN g :
                           /\ g[i].truncationParent = h[e[i]].truncationParent
                           /\ g[i].cut = h[e[i]].cut
                           /\ g[i].condenseParent = IF h[e[i]].condenseParent \in invalid
                                                    THEN None ELSE h[e[i]].condenseParent
    BY <1>1, UncondensedDoes
  <1>3. ASSUME NEW q \in DOMAIN h, IsPlain(h[q]) PROVE h[q] \in K
    <2>1. ASSUME h[q].id \in invalid PROVE FALSE
      <3>1. PICK j \in DOMAIN h : h[j].kind = "summary" /\ h[j].id = h[q].id
        BY <2>1 DEF OfKind
      <3>2. j < q \/ q < j
        BY <1>1, <1>3, <3>1 DEF IsPlain
      <3> QED
        BY <3>1, <3>2 DEF HistoryOK, Distinct
    <2> QED
      BY <2>1 DEF Range, Lasting
  <1> HIDE DEF g, K
  <1>5. PICK e : /\ Thinned(g, h, e, K)
                 /\ \A i \in DOMAIN g :
                           /\ g[i].truncationParent \in {h[e[i]].truncationParent, None}
                           /\ g[i].cut = h[e[i]].cut
    BY <1>2
  <1>6. Telling(g)
    <2>1. Derived(g, h, e, 0) /\ 0 \notin DOMAIN g
      BY <1>5 DEF Thinned, Derived
    <2> QED
      BY <1>1, <2>1, DerivedTelling
  <1>7. Parting(g)
    BY <1>1, <1>3, <1>5, ThinnedParting
  <1> QED
    BY <1>6, <1>7 DEF g

\* A rewind keeps all three.
LEMMA RewoundKeeps ==
    ASSUME NEW h, NEW d, NEW t, NEW k, HistoryOK(h, d, t, k), Telling(h), Parting(h),
           NEW ts \in Int, NEW removed, \A i \in DOMAIN h : h[i].id # ts
    PROVE  LET g == Rewound(h, ts, removed)
           IN  Telling(g) /\ Parting(g) /\ \A C : CurrentAnswer(h, C) => CurrentAnswer(g, C)
  <1> DEFINE g == Rewound(h, ts, removed)
             K == Stays(h, ts, removed)
             cutoff == ActualCutoff(h, ts)
  <1>1. h \in Seq(Messages) /\ DOMAIN h \subseteq Nat /\ \A i \in DOMAIN h : h[i] \in Messages /\ h[i].ts \in Int
    BY MessageFields DEF HistoryOK
  <1>2. \E e : /\ Thinned(g, h, e, K)
               /\ \A i \in DOMAIN g :
                           /\ g[i].cut = h[e[i]].cut
                           /\ g[i].condenseParent = IF h[e[i]].condenseParent \in OfKind(g, "summary")
                                                    THEN h[e[i]].condenseParent ELSE None
                           /\ g[i].truncationParent = IF h[e[i]].truncationParent \in OfKind(g, "marker")
                                                      THEN h[e[i]].truncationParent ELSE None
    BY <1>1, RewoundDoes
  <1>3. cutoff \in Int
    BY <1>1, CutoffLater
  <1>4. \A q \in DOMAIN h : /\ h[q] \in K => h[q].ts < cutoff
                            /\ IsPlain(h[q]) /\ h[q].ts < cutoff => h[q] \in K
    BY DEF Stays, Range, IsPlain
  <1>5. cutoff = ts \/ \E f \in DOMAIN h : h[f].role = "user" /\ cutoff = h[f].ts
    BY <1>1, CutoffIs
  <1> HIDE DEF g, K, cutoff
  <1>6. PICK e : /\ Thinned(g, h, e, K)
                 /\ \A i \in DOMAIN g :
                           /\ g[i].truncationParent \in {h[e[i]].truncationParent, None}
                           /\ g[i].cut = h[e[i]].cut
    BY <1>2
  <1>7. ASSUME NEW q \in DOMAIN h, NEW r \in DOMAIN h, q < r, IsPlain(h[q]), h[q] \notin K
        PROVE  h[r] \notin K
    <2>1. h[q].ts < h[r].ts
      BY <1>7 DEF HistoryOK, InOrder
    <2> QED
      BY <1>1, <1>3, <1>4, <1>7, <2>1
  <1>8. ASSUME NEW a \in DOMAIN h, NEW x \in DOMAIN h, a < x, h[a] \in K,
               IsPlain(h[x]), h[x].role = "assistant", h[a].ts = h[x].ts - 1
        PROVE  h[x] \in K
    <2>1. h[x].ts <= cutoff
      BY <1>1, <1>3, <1>4, <1>8
    <2>2. h[x].ts # cutoff
      <3>1. h[x].ts = h[x].id
        BY <1>8 DEF HistoryOK, MessageOK, IsPlain
      <3>2. ASSUME NEW f \in DOMAIN h, h[f].role = "user" PROVE h[x].ts # h[f].ts
        <4>1. f < x \/ x < f
          BY <1>1, <1>8, <3>2
        <4>2. h[f].ts < h[x].ts \/ h[x].ts < h[f].ts
          BY <1>8, <4>1 DEF HistoryOK, InOrder
        <4> QED
          BY <1>1, <4>2
      <3> QED
        BY <1>5, <3>1, <3>2
    <2> QED
      BY <1>1, <1>3, <1>4, <1>8, <2>1, <2>2
  <1>9. Derived(g, h, e, 0) /\ 0 \notin DOMAIN g
    BY <1>6 DEF Thinned, Derived
  <1>10. Telling(g)
    BY <1>1, <1>9, DerivedTelling
  <1>11. Parting(g)
    BY <1>1, <1>6, <1>7, <1>8, ThinnedParting
  <1>12. ASSUME NEW C, CurrentAnswer(h, C) PROVE CurrentAnswer(g, C)
    BY <1>1, <1>6, <1>9, <1>12, DerivedCurrent
  <1> QED
    BY <1>10, <1>11, <1>12 DEF g

\* The invariant behind NothingForgotten and ResultsHaveCalls.
TellInv ==
    /\ Telling(api) /\ Parting(api)
    /\ Telling(manual) /\ Parting(manual)
    /\ pc = "tools" => CurrentAnswer(api, calls) /\ CurrentAnswer(manual, calls)

\* The empty history has nothing to tell.
LEMMA EmptyKeeps == Telling(<<>>) /\ Parting(<<>>) /\ \A C : CurrentAnswer(<<>>, C)
  BY DEF Telling, TellOn, TellAll, TellCarried, Parting, CutBefore, CarriedOn, AnsweredNext, CurrentAnswer

\* Calls that are in no message yet are in no way.
LEMMA WithoutCurrent ==
    ASSUME NEW h, NEW C, Without(h, C)
    PROVE  CurrentAnswer(h, C)
  BY DEF Without, CurrentAnswer

\* Initially the invariant holds.
LEMMA TellInit == Init => TellInv
  <1> SUFFICES ASSUME Init PROVE TellInv
    OBVIOUS
  <1>1. PICK n \in StartTurns :
            /\ api = StartHistory(n)
            /\ calls = (IF n = 0 THEN {} ELSE {n}) /\ manual = <<>>
    BY DEF Init
  <1>2. n \in Nat
    BY HistoryAssumption DEF HistoryAssumption
  <1>3. /\ DOMAIN api = 1 .. 2 * n
        /\ \A i \in 1 .. 2 * n :
             /\ api[i].kind = "plain"
             /\ api[i].role = IF i % 2 = 1 THEN "user" ELSE "assistant"
             /\ api[i].uses = IF i % 2 = 0 THEN {i \div 2} ELSE {}
             /\ api[i].results = IF i % 2 = 1 /\ i > 1 THEN {i \div 2} ELSE {}
             /\ api[i].truncationParent = None /\ api[i].cut = FALSE
    BY <1>1, <1>2, StartDoes
  <1>4. \A i \in DOMAIN api : api[i].kind # "summary" /\ api[i].kind # "marker" /\ api[i].truncationParent = None
    BY <1>3
  <1>5. Telling(api) /\ CutBefore(api) /\ CarriedOn(api)
    BY <1>4 DEF Telling, TellOn, TellAll, TellCarried, CutBefore, CarriedOn
  <1>6. AnsweredNext(api)
    <2> SUFFICES ASSUME NEW c \in DOMAIN api, NEW x \in DOMAIN api, OpenAnswer(api, c), c < x,
                        IsPlain(api[x]), api[x].role = "user", NoPlainBetween(api, c, x)
                 PROVE  api[c].uses \subseteq api[x].results
      BY DEF AnsweredNext
    <2>1. c \in 1 .. 2 * n /\ x \in 1 .. 2 * n /\ c % 2 = 0 /\ x % 2 = 1
      BY <1>3 DEF OpenAnswer
    <2>2. x = c + 1
      <3> SUFFICES ASSUME c + 1 < x PROVE FALSE
        BY <1>2, <2>1
      <3>1. c + 1 \in 1 .. 2 * n /\ c < c + 1
        BY <1>2, <2>1
      <3> QED
        BY <1>3, <3>1 DEF NoPlainBetween, IsPlain
    <2>3. api[c].uses = {c \div 2} /\ api[x].results = {x \div 2}
      <3>1. x > 1
        BY <1>2, <2>1, <2>2
      <3> QED
        BY <1>3, <2>1, <3>1
    <2>4. x \div 2 = c \div 2
      BY <1>2, <2>1, <2>2
    <2> QED
      BY <2>3, <2>4
  <1>7. CurrentAnswer(api, calls)
    <2> SUFFICES ASSUME NEW i \in DOMAIN api, api[i].uses \intersect calls # {}
                 PROVE  ~ api[i].cut /\ \A j \in DOMAIN api : ~ i < j
      BY DEF CurrentAnswer
    <2>1. i \in 1 .. 2 * n /\ i \in Nat
      BY <1>2, <1>3
    <2>2. api[i].uses # {} /\ api[i].cut = FALSE /\ calls # {}
      BY <1>3, <2>1
    <2>3. n # 0 /\ calls = {n}
      BY <1>1, <2>2
    <2>4. i % 2 = 0 /\ api[i].uses = {i \div 2}
      BY <1>3, <2>1, <2>2
    <2>5. i \div 2 = n
      BY <2>3, <2>4
    <2>6. i = 2 * n
      BY <1>2, <2>1, <2>4, <2>5
    <2>7. \A j \in DOMAIN api : ~ i < j
      BY <1>2, <1>3, <2>6
    <2> QED
      BY <2>2, <2>7
  <1> QED
    BY <1>1, <1>5, <1>6, <1>7, EmptyKeeps DEF TellInv, Parting

\* The calls of the response are those of the last answer, or of none yet.
LEMMA InHand ==
    ASSUME TypeInv, TellInv, pc \in {"stream", "tools"}
    PROVE  CurrentAnswer(api, calls) /\ CurrentAnswer(manual, calls)
  <1>1. CASE pc = "tools"
    BY <1>1 DEF TellInv
  <1>2. CASE pc = "stream"
    <2>1. Without(api, calls) /\ Without(manual, calls)
      BY <1>2 DEF TypeInv, FreshCalls, Without
    <2> QED
      BY <2>1, WithoutCurrent
  <1> QED
    BY <1>1, <1>2

\* Saving the results at hand.
LEMMA UserMessageKeeps ==
    ASSUME TypeInv, TellInv, pc \in {"stream", "tools"}
    PROVE  LET g == Append(api, UserMessage)
           IN  Telling(g) /\ Parting(g) /\ CurrentAnswer(g, calls)
  <1> DEFINE x == UserMessage
  <1>1. /\ Saved(x, now, made) /\ x.role = "user" /\ x.uses = {}
        /\ x.results = ResultsFor(pending, api)
    BY UserMessageSaved
  <1> HIDE DEF x
  <1>2. x \in Messages /\ IsPlain(x) /\ x.truncationParent = None /\ x.cut = FALSE
    BY <1>1 DEF Saved
  <1>3. HistoryOK(api, reductions, now, made) /\ api \in Seq(Messages) /\ Telling(api) /\ Parting(api)
    BY DEF TypeInv, TellInv, HistoryOK
  <1>4. CurrentAnswer(api, calls) /\ CurrentAnswer(api, pending)
    <2>1. CurrentAnswer(api, calls) /\ pending \subseteq calls
      BY InHand DEF TypeInv, Loop
    <2>2. \A i \in DOMAIN api : api[i].uses \intersect pending # {} => api[i].uses \intersect calls # {}
      BY <2>1
    <2> QED
      BY <2>1, <2>2 DEF CurrentAnswer
  <1>5. Telling(Append(api, x))
    <2>1. ASSUME NEW i \in DOMAIN api, NEW j \in DOMAIN api, i < j, api[j].kind = "summary",
                 x.results \intersect api[i].uses # {}
          PROVE  api[i].tells \subseteq api[j].tells
      BY <1>1, <1>3, <1>4, <2>1, ResultsTold
    <2> QED
      BY <1>2, <1>3, <2>1, AppendTelling
  <1>6. Parting(Append(api, x))
    <2>1. ASSUME NEW c \in DOMAIN api, OpenAnswer(api, c), \A k \in DOMAIN api : c < k => ~ IsPlain(api[k])
          PROVE  api[c].uses \subseteq x.results
      BY <1>1, <1>3, <2>1, ResultsAll
    <2> QED
      BY <1>2, <1>3, <2>1, AppendParting
  <1>7. CurrentAnswer(Append(api, x), calls)
    BY <1>1, <1>2, <1>3, <1>4, AppendCurrent
  <1> QED
    BY <1>5, <1>6, <1>7 DEF x

\* Saving the user's message, with the results of its calls.
LEMMA AddUserTells ==
    ASSUME TypeInv, TellInv, AddUser
    PROVE  TellInv'
  <1>1. pc = "tools" /\ api' = Append(api, UserMessage) /\ pc' = "request" /\ manual' = manual
    BY DEF AddUser
  <1>2. Telling(api') /\ Parting(api')
    BY <1>1, UserMessageKeeps
  <1> QED
    BY <1>1, <1>2 DEF TellInv

\* Saving the answer, whose calls are new.
LEMMA AddAssistantTells ==
    ASSUME TypeInv, TellInv, AddAssistant
    PROVE  TellInv'
  <1> DEFINE x == Plain("assistant", calls, {})
  <1>1. /\ pc = "stream" /\ api' = Append(api, x) /\ pc' = "tools" /\ calls' = calls /\ manual' = manual
    BY DEF AddAssistant
  <1>2. /\ Loop /\ now \in Nat /\ now \in Times /\ 0 < now /\ made \in Nat
        /\ calls \subseteq 1 .. made /\ calls \in SUBSET Nat
    BY Ticks DEF TypeInv, Loop
  <1>3. Saved(x, now, made) /\ x.role = "assistant" /\ x.results = {}
    BY <1>2, AnswerIs
  <1> HIDE DEF x
  <1>4. x \in Messages /\ IsPlain(x) /\ x.truncationParent = None /\ x.cut = FALSE
    BY <1>3 DEF Saved
  <1>5. api \in Seq(Messages) /\ Telling(api) /\ Parting(api) /\ Telling(manual) /\ Parting(manual)
    BY DEF TypeInv, HistoryOK, TellInv
  <1>6. Telling(Append(api, x))
    <2>1. \A i, j \in DOMAIN api : x.results \intersect api[i].uses # {} => api[i].tells \subseteq api[j].tells
      BY <1>3
    <2> QED
      BY <1>4, <1>5, <2>1, AppendTelling
  <1>7. Parting(Append(api, x))
    BY <1>3, <1>4, <1>5, AppendParting
  <1>8. Without(api, calls) /\ Without(manual, calls)
    BY <1>1 DEF TypeInv, FreshCalls, Without
  <1>9. CurrentAnswer(Append(api, x), calls)
    <2> DEFINE g == Append(api, x)
    <2>1. /\ DOMAIN g = 1 .. Len(api) + 1 /\ g[Len(api) + 1] = x /\ Len(api) \in Nat
          /\ \A i \in 1 .. Len(api) : i \in DOMAIN api /\ g[i] = api[i]
      BY <1>5
    <2> HIDE DEF g
    <2> SUFFICES ASSUME NEW i \in DOMAIN g, IsPlain(g[i]), g[i].uses \intersect calls # {}
                 PROVE  ~ g[i].cut /\ \A j \in DOMAIN g : ~ i < j
      BY DEF CurrentAnswer, g
    <2>2. i = Len(api) + 1
      <3> SUFFICES ASSUME i # Len(api) + 1 PROVE FALSE
        OBVIOUS
      <3>1. i \in 1 .. Len(api)
        BY <2>1
      <3> QED
        BY <1>8, <2>1, <3>1 DEF Without
    <2> QED
      BY <1>4, <2>1, <2>2
  <1>10. CurrentAnswer(manual, calls)
    BY <1>8, WithoutCurrent
  <1> QED
    BY <1>1, <1>5, <1>6, <1>7, <1>9, <1>10 DEF TellInv

\* The actions that reduce the history before a request.
LEMMA RequestTells ==
    ASSUME TellInv, pc = "request", UNCHANGED <<pc, manual>>, Telling(api'), Parting(api')
    PROVE  TellInv'
  BY DEF TellInv

\* A condensation.
LEMMA CondenseTells ==
    ASSUME TypeInv, TellInv, CondenseBeforeRequest \/ CondenseOverWindow
    PROVE  TellInv'
  <1>1. pc = "request" /\ UNCHANGED <<pc, manual>> /\ CanCondense(api) /\ api' = Condensed(api)
    BY DEF CondenseBeforeRequest, CondenseOverWindow, Reduces
  <1>2. HistoryOK(api, reductions, now, made) /\ now \in Nat /\ Telling(api) /\ Parting(api)
    BY Ticks DEF TypeInv, TellInv
  <1>3. Telling(api') /\ Parting(api')
    BY <1>1, <1>2, CondensedTelling, CondensedParting
  <1> QED
    BY <1>1, <1>3, RequestTells

\* A truncation.
LEMMA TruncateTells ==
    ASSUME TypeInv, TellInv, Truncate
    PROVE  TellInv'
  <1>1. pc = "request" /\ UNCHANGED <<pc, manual>> /\ api' = Truncated(api)
    BY DEF Truncate, Reduces
  <1>2. HistoryOK(api, reductions, now, made) /\ now \in Nat /\ Telling(api) /\ Parting(api)
    BY Ticks DEF TypeInv, TellInv
  <1>3. Telling(api') /\ Parting(api')
    BY <1>1, <1>2, TruncatedKeeps
  <1> QED
    BY <1>1, <1>3, RequestTells

\* Taking back summaries without reasoning.
LEMMA UncondenseTells ==
    ASSUME TypeInv, TellInv, Uncondense
    PROVE  TellInv'
  <1>1. /\ pc = "request" /\ UNCHANGED <<pc, manual>>
        /\ \E invalid \in SUBSET OfKind(api, "summary") \ {{}} :
              \/ api' = Uncondensed(api, invalid)
              \/ /\ CanCondense(Uncondensed(api, invalid))
                 /\ api' = Condensed(Uncondensed(api, invalid))
    BY DEF Uncondense, Reduces
  <1>2. PICK invalid \in SUBSET OfKind(api, "summary") :
              \/ api' = Uncondensed(api, invalid)
              \/ /\ CanCondense(Uncondensed(api, invalid))
                 /\ api' = Condensed(Uncondensed(api, invalid))
    BY <1>1
  <1> DEFINE plain == Uncondensed(api, invalid)
  <1>3. /\ HistoryOK(api, reductions, now, made) /\ now \in Nat /\ Telling(api) /\ Parting(api) /\ api # <<>>
        /\ reductions \in Int /\ made \in Nat
    BY <1>1, Ticks DEF TypeInv, TellInv, Loop
  <1>4. HistoryOK(plain, reductions, now, made)
    BY <1>2, <1>3, UncondensedOK
  <1>5. Telling(plain) /\ Parting(plain)
    BY <1>2, <1>3, UncondensedKeeps
  <1> HIDE DEF plain
  <1>6. CASE api' = plain
    BY <1>1, <1>5, <1>6, RequestTells
  <1>7. CASE CanCondense(plain) /\ api' = Condensed(plain)
    <2>1. Telling(api') /\ Parting(api')
      BY <1>3, <1>4, <1>5, <1>7, CondensedTelling, CondensedParting
    <2> QED
      BY <1>1, <2>1, RequestTells
  <1> QED
    BY <1>2, <1>6, <1>7 DEF plain

\* A condensation by hand begins, with the history it reads.
LEMMA BeginManualTells ==
    ASSUME TypeInv, TellInv, BeginManual
    PROVE  TellInv'
  <1>1. /\ open # {} /\ UNCHANGED <<pc, calls>> /\ manual' = api'
        /\ api' = (IF pending = {} THEN api ELSE Append(api, UserMessage))
    BY DEF BeginManual, Reduces
  <1>2. pc \in {"stream", "tools"}
    BY <1>1 DEF TypeInv, Loop
  <1>3. Telling(api') /\ Parting(api') /\ CurrentAnswer(api', calls)
    <2>1. CASE pending = {}
      BY <1>1, <1>2, <2>1, InHand DEF TellInv
    <2>2. CASE pending # {}
      BY <1>1, <1>2, <2>2, UserMessageKeeps
    <2> QED
      BY <2>1, <2>2
  <1> QED
    BY <1>1, <1>3 DEF TellInv

\* It ends, with a history that has missed what was saved meanwhile.
LEMMA EndManualTells ==
    ASSUME TypeInv, TellInv, EndManual
    PROVE  TellInv'
  <1>1. /\ manual' = <<>> /\ UNCHANGED <<pc, calls>>
        /\ (CanCondense(manual) /\ api' = Condensed(manual)) \/ api' = api
    BY DEF EndManual
  <1>2. Telling(manual') /\ Parting(manual') /\ CurrentAnswer(manual', calls)
    BY <1>1, EmptyKeeps
  <1>3. CASE api' = api
    BY <1>1, <1>2, <1>3 DEF TellInv
  <1>4. CASE CanCondense(manual) /\ api' = Condensed(manual)
    <2>1. HistoryOK(manual, reductions - 1, now, made) /\ now \in Nat /\ Telling(manual) /\ Parting(manual)
      BY Ticks DEF TypeInv, TellInv
    <2>2. Telling(api') /\ Parting(api')
      BY <1>4, <2>1, CondensedTelling, CondensedParting
    <2>3. pc = "tools" => CurrentAnswer(api', calls)
      BY <1>4, <2>1, CondensedCurrent DEF TellInv
    <2> QED
      BY <1>1, <1>2, <2>2, <2>3 DEF TellInv
  <1> QED
    BY <1>1, <1>3, <1>4

\* A rewind.
LEMMA RewindTells ==
    ASSUME TypeInv, TellInv, Rewind
    PROVE  TellInv'
  <1>1. PICK i \in DOMAIN chat :
           /\ chat[i].kind = "feedback"
           /\ api' = Rewound(api, chat[i].ts, {chat[j].event : j \in i .. Len(chat)})
    BY DEF Rewind
  <1>2. UNCHANGED <<pc, calls, manual>>
    BY DEF Rewind
  <1>3. HistoryOK(api, reductions, now, made) /\ Telling(api) /\ Parting(api)
    BY DEF TypeInv, TellInv
  <1>4. chat[i].ts \in Int
    <2>1. chat[i].ts \in Times
      BY DEF TypeInv, ChatOK, ChatMessageOK
    <2>2. chat[i].ts \in Nat
      BY <2>1, TimesApart
    <2> QED
      BY <2>2
  <1>5. \A j \in DOMAIN api : api[j].id # chat[i].ts
    BY <1>1 DEF TypeInv, CommentsApart
  <1> DEFINE ts == chat[i].ts
             removed == {chat[j].event : j \in i .. Len(chat)}
  <1>6. api' = Rewound(api, ts, removed) /\ ts \in Int /\ \A j \in DOMAIN api : api[j].id # ts
    BY <1>1, <1>4, <1>5
  <1> HIDE DEF ts, removed
  <1>7. Telling(api') /\ Parting(api') /\ \A C : CurrentAnswer(api, C) => CurrentAnswer(api', C)
    BY <1>3, <1>6, RewoundKeeps
  <1> QED
    BY <1>2, <1>7 DEF TellInv

\* Every step keeps the invariant.
LEMMA TellNext == TypeInv /\ TellInv /\ [Next]_vars => TellInv'
  <1> SUFFICES ASSUME TypeInv, TellInv, [Next]_vars PROVE TellInv'
    OBVIOUS
  <1>1. CASE UNCHANGED vars
    BY <1>1 DEF vars, TellInv
  <1>2. CASE StartResponse
    BY <1>2 DEF StartResponse, TellInv
  <1>3. CASE RunTool
    BY <1>3 DEF RunTool, TellInv
  <1>4. CASE AddUser \/ AddAssistant
    BY <1>4, AddUserTells, AddAssistantTells
  <1>5. CASE CondenseBeforeRequest \/ CondenseOverWindow \/ Truncate \/ Uncondense
    BY <1>5, CondenseTells, TruncateTells, UncondenseTells
  <1>6. CASE BeginManual \/ EndManual \/ Rewind
    BY <1>6, BeginManualTells, EndManualTells, RewindTells
  <1> QED
    BY <1>1, <1>2, <1>3, <1>4, <1>5, <1>6 DEF Next

\* Both invariants always hold.
LEMMA TellAlways == Spec => [](TypeInv /\ TellInv)
  <1>1. Init => TypeInv /\ TellInv
    BY TypeInit, TellInit
  <1>2. TypeInv /\ TellInv /\ [Next]_vars => TypeInv' /\ TellInv'
    BY TypeNext, TellNext
  <1> QED
    BY <1>1, <1>2, PTL DEF Spec

-----------------------------------------------------------------------------
(* What is sent *)

\* The q-th message of h is hidden by nothing that exists.
Shown(h, q) ==
    /\ h[q].condenseParent \notin OfKind(h, "summary")
    /\ h[q].truncationParent \notin OfKind(h, "marker")

\* s is what is sent of h: its messages are those that f says, the first and
\* those shown from the l-th on, the last summary shown (0 when there is none).
SentFrom(s, h, f, l) ==
    /\ s \in Seq(Messages)
    /\ \A n \in DOMAIN s : f[n] \in DOMAIN h /\ s[n] = h[f[n]]
    /\ \A n, m \in DOMAIN s : n < m => f[n] < f[m]
    /\ l \in 0 .. Len(h)
    /\ l # 0 => h[l].kind = "summary"
    /\ \A q \in DOMAIN h : Shown(h, q) /\ q > l => h[q].kind # "summary"
    /\ \A q \in DOMAIN h : Shown(h, q) /\ q >= l => \E n \in DOMAIN s : f[n] = q
    /\ \A n \in DOMAIN s : n = 1 \/ f[n] >= l
    /\ 1 \in DOMAIN s => f[1] = 1

\* What a request sends.
LEMMA SentIs ==
    ASSUME NEW h, NEW d, NEW t, NEW k, HistoryOK(h, d, t, k)
    PROVE  \E f, l : SentFrom(SinceLastSummary(EffectiveHistory(h)), h, f, l)
  <1> DEFINE V == {m \in Range(h) :
                     /\ m.condenseParent \notin OfKind(h, "summary")
                     /\ m.truncationParent \notin OfKind(h, "marker")}
             g == EffectiveHistory(h)
             s == SinceLastSummary(g)
  <1>1. h \in Seq(Messages) /\ DOMAIN h = 1 .. Len(h) /\ Len(h) \in Nat
    BY DEF HistoryOK
  <1>2. g = Selected(h, V)
    BY DEF EffectiveHistory
  <1>3. \A q \in DOMAIN h : h[q] \in V <=> Shown(h, q)
    BY DEF Shown, Range
  <1> HIDE DEF V, g
  <1>4. PICK e : g \in Seq(Messages) /\ Enumerates(e, g, h, V)
    BY <1>1, <1>2, SelectedIndices
  <1>5. /\ DOMAIN g = 1 .. Len(g) /\ Len(g) \in Nat
        /\ \A i \in 1 .. Len(g) : e[i] \in 1 .. Len(h) /\ g[i] = h[e[i]] /\ Shown(h, e[i])
        /\ \A i, j \in 1 .. Len(g) : i < j => e[i] < e[j]
        /\ \A q \in 1 .. Len(h) : Shown(h, q) => \E i \in 1 .. Len(g) : e[i] = q
    <2>1. DOMAIN g = 1 .. Len(g) /\ Len(g) \in Nat
      BY <1>4
    <2>2. /\ \A i \in 1 .. Len(g) : e[i] \in 1 .. Len(h) /\ g[i] = h[e[i]] /\ h[e[i]] \in V
          /\ \A i, j \in 1 .. Len(g) : i < j => e[i] < e[j]
          /\ \A q \in 1 .. Len(h) : h[q] \in V => \E i \in 1 .. Len(g) : e[i] = q
      BY <1>4 DEF Enumerates
    <2>3. \A i \in 1 .. Len(h) : h[i] \in V <=> Shown(h, i)
      BY <1>1, <1>3
    <2> QED
      BY <2>1, <2>2, <2>3
  <1>6. SummariesAnswer(g)
    <2>1. SummariesAnswer(h)
      BY SummariesAnswerOK
    <2> QED
      BY <1>1, <1>5, <2>1 DEF SummariesAnswer
  <1>7. PICK last : Since(s, g, last)
    BY <1>4, <1>6, SinceDoes
  <1> HIDE DEF s
  <1>8. ASSUME Len(g) > 0 PROVE e[1] = 1 /\ h[1].kind = "plain"
    <2>1. h # <<>> /\ 1 \in 1 .. Len(h) /\ 1 \in 1 .. Len(g)
      BY <1>1, <1>5, <1>8
    <2>2. h[1].condenseParent = 0 /\ h[1].truncationParent = 0 /\ h[1].kind = "plain"
      BY <2>1 DEF HistoryOK, BeginsPlain, None
    <2>3. \A q \in DOMAIN h : h[q].id # 0
      <3>1. \A q \in DOMAIN h : 0 < h[q].id
        BY DEF HistoryOK, MessageOK
      <3> QED
        BY <3>1
    <2>4. Shown(h, 1)
      BY <2>2, <2>3 DEF Shown, OfKind
    <2>5. PICK i \in 1 .. Len(g) : e[i] = 1
      BY <1>5, <2>1, <2>4
    <2>6. i = 1
      <3> SUFFICES ASSUME i # 1 PROVE FALSE
        OBVIOUS
      <3>1. 1 < i
        BY <1>5
      <3>2. e[1] < e[i] /\ e[1] \in 1 .. Len(h)
        BY <1>5, <2>1, <3>1
      <3> QED
        BY <1>1, <2>5, <3>2
    <2> QED
      BY <2>2, <2>5, <2>6
  <1>9. CASE last = 0
    <2>1. s = g /\ \A j \in 1 .. Len(g) : g[j].kind # "summary"
      BY <1>5, <1>7, <1>9 DEF Since
    <2>2. SentFrom(s, h, e, 0)
      <3>1. \A n \in DOMAIN s : e[n] \in DOMAIN h /\ s[n] = h[e[n]]
        BY <1>1, <1>5, <2>1
      <3>2. \A n, m \in DOMAIN s : n < m => e[n] < e[m]
        BY <1>5, <2>1
      <3>3. \A q \in DOMAIN h : Shown(h, q) => h[q].kind # "summary" /\ \E n \in DOMAIN s : e[n] = q
        BY <1>1, <1>5, <2>1
      <3>4. \A n \in DOMAIN s : e[n] >= 0
        BY <1>1, <1>5, <2>1
      <3>5. 1 \in DOMAIN s => e[1] = 1
        BY <1>5, <1>8, <2>1
      <3>6. 0 \in 0 .. Len(h)
        BY <1>1
      <3> QED
        BY <1>4, <2>1, <3>1, <3>2, <3>3, <3>4, <3>5, <3>6 DEF SentFrom
    <2> QED
      BY <2>2 DEF s, g
  <1>10. CASE last # 0
    <2>1. /\ last \in 1 .. Len(g) /\ g[last].kind = "summary"
          /\ \A j \in last + 1 .. Len(g) : g[j].kind # "summary"
          /\ s \in Seq(Messages) /\ Len(s) = Len(g) - last + 2 /\ s[1] = g[1]
          /\ \A i \in 2 .. Len(s) : s[i] = g[last + i - 2]
      BY <1>5, <1>7, <1>10 DEF Since
    <2>2. DOMAIN s = 1 .. Len(g) - last + 2 /\ Len(g) > 0 /\ last \in Nat
      BY <1>5, <2>1
    <2>3. last > 1
      <3>1. last # 1
        BY <1>5, <1>8, <2>1, <2>2
      <3> QED
        BY <2>1, <2>2, <3>1
    <2> DEFINE l == e[last]
               f == [n \in DOMAIN s |-> IF n = 1 THEN 1 ELSE e[last + n - 2]]
    <2>4. l \in 1 .. Len(h) /\ h[l].kind = "summary"
      BY <1>5, <2>1
    <2>5. ASSUME NEW n \in DOMAIN s, n # 1
          PROVE  /\ last + n - 2 \in last .. Len(g) /\ f[n] = e[last + n - 2] /\ s[n] = g[last + n - 2]
                 /\ f[n] \in 1 .. Len(h) /\ f[n] >= l /\ s[n] = h[f[n]] /\ f[n] > 1
      <3>1. last + n - 2 \in last .. Len(g) /\ s[n] = g[last + n - 2] /\ last + n - 2 \in 1 .. Len(g)
        BY <1>5, <2>1, <2>2, <2>5
      <3>2. f[n] = e[last + n - 2]
        BY <2>5
      <3>3. f[n] \in 1 .. Len(h) /\ s[n] = h[f[n]]
        BY <1>5, <3>1, <3>2
      <3>4. e[last + n - 2] >= l
        <4> DEFINE j == last + n - 2
        <4>1. j \in 1 .. Len(g) /\ (j = last \/ last < j)
          BY <2>2, <3>1
        <4> HIDE DEF j
        <4>2. e[j] \in Nat /\ e[last] \in Nat
          BY <1>1, <1>5, <2>1, <4>1
        <4>3. j = last => e[j] = e[last]
          OBVIOUS
        <4>4. last < j => e[last] < e[j]
          BY <1>5, <2>1, <4>1
        <4>5. e[j] >= e[last]
          BY <4>1, <4>2, <4>3, <4>4
        <4> QED
          BY <4>5 DEF j
      <3>5. e[1] < e[last] /\ e[1] = 1
        BY <1>5, <1>8, <2>1, <2>2, <2>3
      <3> QED
        BY <1>1, <2>4, <3>1, <3>2, <3>3, <3>4, <3>5
    <2>6. f[1] = 1 /\ s[1] = h[1] /\ 1 \in DOMAIN h
      BY <1>1, <1>5, <1>8, <2>1, <2>2, <2>4
    <2> HIDE DEF f
    <2>7. \A n \in DOMAIN s : f[n] \in DOMAIN h /\ s[n] = h[f[n]]
      BY <1>1, <2>5, <2>6
    <2>8. ASSUME NEW n \in DOMAIN s, NEW m \in DOMAIN s, n < m PROVE f[n] < f[m]
      <3>1. m # 1 /\ m > 1
        BY <2>2, <2>8
      <3>2. CASE n = 1
        BY <2>5, <2>6, <3>1, <3>2
      <3>3. CASE n # 1
        <4>1. last + n - 2 < last + m - 2 /\ last + n - 2 \in 1 .. Len(g) /\ last + m - 2 \in 1 .. Len(g)
          <5>1. last + n - 2 \in last .. Len(g) /\ last + m - 2 \in last .. Len(g)
            BY <2>5, <3>1, <3>3
          <5>2. n \in Nat /\ m \in Nat
            BY <2>2
          <5> QED
            BY <1>5, <2>2, <2>8, <2>3, <5>1, <5>2
        <4>2. e[last + n - 2] < e[last + m - 2]
          <5> DEFINE a == last + n - 2
                     b == last + m - 2
          <5> HIDE DEF a, b
          <5>1. a < b /\ a \in 1 .. Len(g) /\ b \in 1 .. Len(g)
            BY <4>1 DEF a, b
          <5>2. e[a] < e[b]
            BY <1>5, <5>1
          <5> QED
            BY <5>2 DEF a, b
        <4> QED
          BY <2>5, <3>1, <3>3, <4>2
      <3> QED
        BY <3>2, <3>3
    <2>9. ASSUME NEW q \in DOMAIN h, Shown(h, q), q > l PROVE h[q].kind # "summary"
      <3>1. PICK i \in 1 .. Len(g) : e[i] = q
        BY <1>1, <1>5, <2>9
      <3>2. i \in last + 1 .. Len(g)
        <4>1. i # last
          BY <1>1, <2>4, <2>9, <3>1
        <4>2. ~ (i < last)
          <5> SUFFICES ASSUME i < last PROVE FALSE
            OBVIOUS
          <5>1. e[i] < e[last]
            BY <1>5, <2>1
          <5> QED
            BY <1>1, <2>4, <2>9, <3>1, <5>1
        <4> QED
          BY <1>5, <2>1, <4>1, <4>2
      <3> QED
        BY <1>5, <2>1, <3>1, <3>2
    <2>10. ASSUME NEW q \in DOMAIN h, Shown(h, q), q >= l PROVE \E n \in DOMAIN s : f[n] = q
      <3>1. PICK i \in 1 .. Len(g) : e[i] = q
        BY <1>1, <1>5, <2>10
      <3>2. i >= last
        <4> SUFFICES ASSUME i < last PROVE FALSE
          BY <1>5, <2>1
        <4>1. e[i] < e[last]
          BY <1>5, <2>1
        <4> QED
          BY <1>1, <2>4, <2>10, <3>1, <4>1
      <3>3. i - last + 2 \in DOMAIN s /\ i - last + 2 # 1 /\ last + (i - last + 2) - 2 = i
        BY <1>5, <2>1, <2>2, <3>2
      <3>4. f[i - last + 2] = e[i]
        BY <2>5, <3>3
      <3> QED
        BY <3>1, <3>3, <3>4
    <2>11. l \in 0 .. Len(h) /\ \A n \in DOMAIN s : n = 1 \/ f[n] >= l
      BY <1>1, <2>4, <2>5
    <2> HIDE DEF l
    <2>12. SentFrom(s, h, f, l)
      BY <2>1, <2>4, <2>6, <2>7, <2>8, <2>9, <2>10, <2>11 DEF SentFrom
    <2> QED
      BY <2>12 DEF s, g
  <1> QED
    BY <1>9, <1>10

\* Nothing behind the last summary is hidden by one.
LEMMA SummaryAfterShown ==
    ASSUME NEW h, NEW d, NEW t, NEW k, HistoryOK(h, d, t, k), NEW i \in DOMAIN h,
           \A j \in DOMAIN h : i < j => h[j].kind # "summary"
    PROVE  h[i].condenseParent \notin OfKind(h, "summary")
  <1> SUFFICES ASSUME h[i].condenseParent \in OfKind(h, "summary") PROVE FALSE
    OBVIOUS
  <1>1. PICK j \in DOMAIN h : h[j].kind = "summary" /\ h[i].condenseParent = h[j].id
    BY DEF OfKind
  <1>2. i < j
    BY <1>1 DEF HistoryOK, HiddenBefore
  <1> QED
    BY <1>1, <1>2

\* The invariants imply that nothing is forgotten.
LEMMA NothingForgottenHere == TypeInv /\ TellInv => NothingForgotten
  <1> SUFFICES ASSUME TypeInv, TellInv PROVE NothingForgotten
    OBVIOUS
  <1> DEFINE told == UNION {m.tells : m \in Range(Sent)}
             truncated == UNION {m.tells : m \in {x \in Range(api) :
                                x.truncationParent \in OfKind(api, "marker")}}
  <1>1. HistoryOK(api, reductions, now, made) /\ api \in Seq(Messages) /\ Telling(api)
        /\ DOMAIN api = 1 .. Len(api) /\ Len(api) \in Nat
    BY DEF TypeInv, TellInv, HistoryOK
  <1>2. PICK f, l : SentFrom(Sent, api, f, l)
    BY <1>1, SentIs DEF Sent
  <1>3. ASSUME NEW q \in DOMAIN api, Shown(api, q), q >= l PROVE api[q].tells \subseteq told
    <2>1. PICK n \in DOMAIN Sent : f[n] = q
      BY <1>2, <1>3 DEF SentFrom
    <2>2. Sent[n] = api[q]
      BY <1>2, <2>1 DEF SentFrom
    <2>3. api[q] \in Range(Sent)
      BY <2>1, <2>2 DEF Range
    <2> QED
      BY <2>3
  <1>4. ASSUME NEW q \in DOMAIN api, api[q].truncationParent \in OfKind(api, "marker")
        PROVE  api[q].tells \subseteq truncated
    BY <1>4 DEF Range
  <1>5. l \in 0 .. Len(api) /\ (l # 0 => api[l].kind = "summary")
    BY <1>2 DEF SentFrom
  <1> HIDE DEF told, truncated
  \* The last message with a summary's part, or a message behind all summaries.
  <1>6. ASSUME NEW q \in DOMAIN api, \A j \in DOMAIN api : q < j => api[j].kind # "summary"
        PROVE  api[q].tells \subseteq told \union truncated
    <2>1. api[q].condenseParent \notin OfKind(api, "summary")
      BY <1>1, <1>6, SummaryAfterShown
    <2>2. CASE api[q].truncationParent \in OfKind(api, "marker")
      BY <1>4, <2>2
    <2>3. CASE api[q].truncationParent \notin OfKind(api, "marker")
      <3>1. Shown(api, q)
        BY <2>1, <2>3 DEF Shown
      <3>2. q >= l
        <4>1. l # 0 => l \in DOMAIN api /\ ~ (q < l)
          BY <1>1, <1>5, <1>6
        <4> QED
          BY <1>1, <1>5, <4>1
      <3> QED
        BY <1>3, <3>1, <3>2
    <2> QED
      BY <2>2, <2>3
  <1>7. ASSUME NEW i \in DOMAIN api
        PROVE  api[i].tells \subseteq told \union truncated \/ NoResult(api, i)
    <2>1. CASE \A j \in DOMAIN api : i < j => api[j].kind # "summary"
      BY <1>6, <2>1
    <2>2. CASE ~ \A j \in DOMAIN api : i < j => api[j].kind # "summary"
      <3> DEFINE D == {j \in 1 .. Len(api) : i < j /\ api[j].kind = "summary"}
                 b == Max(D)
      <3>1. D \subseteq 1 .. Len(api)
        OBVIOUS
      <3>2. D # {}
        BY <1>1, <2>2
      <3> HIDE DEF D
      <3>3. b \in D /\ \A j \in D : j <= b
        BY <1>1, <3>1, <3>2, GreatestIn
      <3> HIDE DEF b
      <3>4. b \in DOMAIN api /\ i < b /\ api[b].kind = "summary"
        BY <1>1, <3>3 DEF D
      <3>5. ASSUME NEW j \in DOMAIN api, b < j PROVE api[j].kind # "summary"
        <4> SUFFICES ASSUME api[j].kind = "summary" PROVE FALSE
          OBVIOUS
        <4>1. j \in D
          BY <1>1, <3>4, <3>5 DEF D
        <4>2. j <= b /\ j \in Nat /\ b \in Nat
          BY <1>1, <3>3, <3>4, <4>1
        <4> QED
          BY <3>5, <4>2
      <3>6. api[b].tells \subseteq told \union truncated
        BY <1>6, <3>4, <3>5
      <3>7. api[i].tells \subseteq api[b].tells \/ NoResult(api, i)
        BY <1>1, <3>4 DEF Telling, TellAll
      <3> QED
        BY <3>6, <3>7
    <2> QED
      BY <2>1, <2>2
  <1>8. ASSUME NEW i \in DOMAIN api
        PROVE  \/ api[i].tells \subseteq told \union truncated
               \/ /\ api[i].uses # {}
                  /\ \A k \in i + 1 .. Len(api) : api[k].results \intersect api[i].uses = {}
    <2>1. ASSUME NoResult(api, i)
          PROVE  api[i].uses # {} /\ \A k \in i + 1 .. Len(api) : api[k].results \intersect api[i].uses = {}
      <3>1. \A k \in i + 1 .. Len(api) : k \in DOMAIN api /\ k > i
        BY <1>1
      <3> QED
        BY <2>1, <3>1 DEF NoResult
    <2> QED
      BY <1>7, <2>1
  <1> QED
    BY <1>8 DEF NothingForgotten, told, truncated

\* However often the conversation is condensed, truncated, uncondensed and rewound,
\* and with condensations by hand at any time: what a request does not send is told
\* of by a summary it sends, was hidden by a truncation, or is an answer none of
\* whose calls has a result behind it.
THEOREM NothingForgottenEver == Spec => []NothingForgotten
  BY TellAlways, NothingForgottenHere, PTL

\* The invariants imply that results have their calls.
LEMMA ResultsHaveCallsHere == TypeInv /\ TellInv => ResultsHaveCalls
  <1> SUFFICES ASSUME TypeInv, TellInv PROVE ResultsHaveCalls
    OBVIOUS
  <1> DEFINE s == Sent
  <1>1. HistoryOK(api, reductions, now, made) /\ api \in Seq(Messages) /\ Parting(api)
        /\ DOMAIN api = 1 .. Len(api) /\ Len(api) \in Nat
    BY DEF TypeInv, TellInv, HistoryOK
  <1>2. PICK f, l : SentFrom(s, api, f, l)
    BY <1>1, SentIs DEF Sent
  <1> HIDE DEF s
  <1>3. /\ s \in Seq(Messages) /\ DOMAIN s = 1 .. Len(s) /\ Len(s) \in Nat
        /\ \A n \in DOMAIN s : f[n] \in DOMAIN api /\ s[n] = api[f[n]]
        /\ \A n, m \in DOMAIN s : n < m => f[n] < f[m]
        /\ l \in 0 .. Len(api) /\ (l # 0 => api[l].kind = "summary")
        /\ \A q \in DOMAIN api : Shown(api, q) /\ q > l => api[q].kind # "summary"
        /\ \A q \in DOMAIN api : Shown(api, q) /\ q >= l => \E n \in DOMAIN s : f[n] = q
        /\ \A n \in DOMAIN s : n = 1 \/ f[n] >= l
        /\ 1 \in DOMAIN s => f[1] = 1
    BY <1>2 DEF SentFrom
  <1> SUFFICES ASSUME NEW i \in DOMAIN s, s[i].results # {},
                      NEW r \in DOMAIN api, api[r].id = s[i].id,
                      NEW c \in DOMAIN api, AnswersAtOnce(c, r)
               PROVE  Answers(s, i)
    BY DEF ResultsHaveCalls, s
  <1>4. /\ f[i] \in DOMAIN api /\ s[i] = api[f[i]] /\ f[i] \in Nat /\ r \in Nat /\ c \in Nat /\ i \in Nat
    BY <1>1, <1>3
  <1>5. f[i] = r
    <2>1. ~ (f[i] < r) /\ ~ (r < f[i])
      BY <1>1, <1>4 DEF HistoryOK, Distinct
    <2> QED
      BY <1>4, <2>1
  <1>6. /\ c < r /\ api[c].role = "assistant" /\ IsPlain(api[c]) /\ ~ api[c].cut
        /\ api[r].results \subseteq api[c].uses /\ api[r].results # {}
        /\ \A q \in c + 1 .. r - 1 : api[q].kind = "summary"
    BY <1>4, <1>5 DEF AnswersAtOnce, IsPlain
  <1>7. api[r].role = "user" /\ IsPlain(api[r]) /\ OpenAnswer(api, c)
    BY <1>1, <1>6 DEF HistoryOK, MessageOK, IsPlain, OpenAnswer
  <1>8. c >= 2
    <2>1. c # 1
      BY <1>1, <1>6 DEF HistoryOK, BeginsPlain
    <2> QED
      BY <1>1, <2>1
  <1>9. i # 1 /\ l < r
    <2>1. i # 1
      BY <1>3, <1>4, <1>5, <1>6, <1>8
    <2>2. l # r
      BY <1>3, <1>4, <1>7, <1>6, <1>8 DEF IsPlain
    <2> QED
      BY <1>1, <1>3, <1>4, <1>5, <2>1, <2>2
  \* Nothing from the call on has been hidden by a truncation,
  <1>10. ASSUME NEW q \in DOMAIN api, c <= q PROVE api[q].truncationParent \notin OfKind(api, "marker")
    <2>1. api[q].truncationParent = None
      <3>1. CASE q = c
        BY <1>1, <1>6, <3>1 DEF HistoryOK, TagOK
      <3>2. CASE q # c
        <4>1. c < q
          BY <1>1, <1>10, <3>2
        <4> QED
          BY <1>1, <1>6, <1>8, <4>1 DEF Parting, CutBefore
      <3> QED
        BY <3>1, <3>2
    <2>2. \A j \in DOMAIN api : api[j].id # 0
      <3>1. \A j \in DOMAIN api : 0 < api[j].id
        BY <1>1 DEF HistoryOK, MessageOK
      <3> QED
        BY <3>1
    <2> QED
      BY <2>1, <2>2 DEF OfKind, None
  \* and no summary follows the results.
  <1>11. \A q \in DOMAIN api : r < q => api[q].kind # "summary"
    <2> SUFFICES ASSUME NEW q \in DOMAIN api, r < q, api[q].kind = "summary" PROVE FALSE
      OBVIOUS
    <2> DEFINE D == {j \in 1 .. Len(api) : r < j /\ api[j].kind = "summary"}
               b == Max(D)
    <2>1. D \subseteq 1 .. Len(api) /\ q \in D
      BY <1>1
    <2> HIDE DEF D
    <2>2. D # {}
      BY <2>1
    <2>3. b \in D /\ \A j \in D : j <= b
      BY <1>1, <2>1, <2>2, GreatestIn
    <2> HIDE DEF b
    <2>4. b \in DOMAIN api /\ r < b /\ api[b].kind = "summary" /\ b \in Nat
      BY <1>1, <2>3 DEF D
    <2>5. ASSUME NEW j \in DOMAIN api, b < j PROVE api[j].kind # "summary"
      <3> SUFFICES ASSUME api[j].kind = "summary" PROVE FALSE
        OBVIOUS
      <3>1. j \in D
        BY <1>1, <1>4, <2>4, <2>5 DEF D
      <3>2. j <= b /\ j \in Nat
        BY <1>1, <2>3, <3>1
      <3> QED
        BY <2>4, <2>5, <3>2
    <2>6. api[b].condenseParent \notin OfKind(api, "summary")
      BY <1>1, <2>4, <2>5, SummaryAfterShown
    <2>7. api[b].truncationParent \notin OfKind(api, "marker")
      BY <1>4, <1>6, <1>10, <2>4
    <2>8. Shown(api, b) /\ b > l
      BY <1>1, <1>3, <1>4, <1>9, <2>4, <2>6, <2>7 DEF Shown
    <2> QED
      BY <1>3, <2>4, <2>8
  \* So what stands before the results is shown, and has their calls.
  <1> DEFINE a == r - 1
  <1>12. a \in DOMAIN api /\ a \in Nat /\ a < r /\ c <= a /\ (a = c \/ (c < a /\ api[a].kind = "summary"))
    <2>1. a \in 1 .. Len(api) /\ c <= a
      BY <1>1, <1>4, <1>6, <1>8
    <2>2. a # c => c < a /\ a \in c + 1 .. r - 1
      BY <1>4, <2>1
    <2> QED
      BY <1>1, <1>4, <1>6, <2>1, <2>2
  <1>120. \A q \in Nat : q > a => q >= r
    BY <1>4
  <1> HIDE DEF a
  <1>13. Shown(api, a) /\ a >= l
    <2>1. ASSUME NEW j \in DOMAIN api, a < j PROVE api[j].kind # "summary"
      <3>1. j = r \/ r < j
        BY <1>1, <1>4, <1>120, <2>1
      <3> QED
        BY <1>7, <1>11, <3>1 DEF IsPlain
    <2>2. api[a].condenseParent \notin OfKind(api, "summary")
      BY <1>1, <1>12, <2>1, SummaryAfterShown
    <2>3. a >= l
      BY <1>1, <1>3, <1>9, <1>12, <1>120
    <2> QED
      BY <1>10, <1>12, <2>2, <2>3 DEF Shown
  <1>14. api[a].role = "assistant" /\ api[r].results \subseteq api[a].uses
    <2>1. CASE a = c
      BY <1>6, <2>1
    <2>2. CASE c < a /\ api[a].kind = "summary"
      <3>1. NoPlainBetween(api, c, a)
        <4> SUFFICES ASSUME NEW q \in DOMAIN api, c < q, q < a PROVE api[q].kind = "summary"
          BY DEF NoPlainBetween, IsPlain
        <4>1. q \in c + 1 .. r - 1
          BY <1>1, <1>4, <1>12 DEF a
        <4> QED
          BY <1>6, <4>1
      <3>2. ASSUME \E x \in DOMAIN api : /\ a < x /\ IsPlain(api[x]) /\ api[x].role = "assistant"
                                         /\ api[a].ts = api[x].ts - 1
            PROVE  FALSE
        <4> PICK x \in DOMAIN api : /\ a < x /\ IsPlain(api[x]) /\ api[x].role = "assistant"
                                    /\ api[a].ts = api[x].ts - 1
          BY <3>2
        <4>1. x # r /\ r < x
          BY <1>1, <1>4, <1>7, <1>120
        <4>2. api[a].ts < api[r].ts /\ api[r].ts < api[x].ts
          BY <1>1, <1>7, <1>12, <4>1 DEF HistoryOK, InOrder
        <4>3. api[a].ts \in Int /\ api[r].ts \in Int /\ api[x].ts \in Int
          BY <1>1, <1>12, MessageFields
        <4> QED
          BY <4>2, <4>3
      <3>3. api[c].uses \subseteq api[a].uses
        BY <1>1, <1>7, <1>12, <2>2, <3>1, <3>2 DEF Parting, CarriedOn
      <3>4. api[a].role = "assistant"
        BY <1>1, <1>12, <2>2 DEF HistoryOK, MessageOK
      <3> QED
        BY <1>6, <3>3, <3>4
    <2> QED
      BY <1>12, <2>1, <2>2
  <1>15. i - 1 \in DOMAIN s /\ f[i - 1] = a
    <2>1. PICK n \in DOMAIN s : f[n] = a
      BY <1>3, <1>12, <1>13
    <2>2. n < i
      <3> SUFFICES ASSUME ~ (n < i) PROVE FALSE
        OBVIOUS
      <3>1. n = i \/ i < n
        BY <1>3
      <3>2. f[i] <= f[n]
        BY <1>3, <1>4, <1>12, <2>1, <3>1
      <3> QED
        BY <1>4, <1>5, <1>12, <2>1, <3>2
    <2>3. n = i - 1
      <3> SUFFICES ASSUME n < i - 1 PROVE FALSE
        BY <1>3, <2>2
      <3>1. i - 1 \in DOMAIN s /\ i - 1 < i
        BY <1>3, <2>2
      <3>2. f[n] < f[i - 1] /\ f[i - 1] < f[i] /\ f[i - 1] \in DOMAIN api
        BY <1>3, <3>1
      <3>3. f[i - 1] \in Nat
        BY <1>1, <3>2
      <3> QED
        BY <1>5, <1>120, <1>4, <2>1, <3>2, <3>3
    <2> QED
      BY <2>1, <2>3
  <1> DEFINE q == SubSeq(s, 1, i - 1)
             D == {j \in 1 .. Len(q) : q[j].role = "assistant"}
             answer == SelectLastInSeq(q, LAMBDA m : m.role = "assistant")
  <1>16. /\ Len(q) = i - 1 /\ q[i - 1] = s[i - 1] /\ i - 1 \in 1 .. Len(q) /\ i - 1 \in Nat
    BY <1>3, <1>15
  <1>17. answer = IF D # {} THEN Max(D) ELSE 0
    BY DEF SelectLastInSeq
  <1>18. s[i - 1] = api[a]
    BY <1>3, <1>15
  <1> HIDE DEF q, answer
  <1>19. i - 1 \in D /\ D \subseteq 1 .. i - 1
    BY <1>14, <1>16, <1>18
  <1> HIDE DEF D
  <1>20. Max(D) \in D /\ \A j \in D : j <= Max(D)
    <2>1. D # {}
      BY <1>19
    <2> DEFINE n == i - 1
    <2>2. n \in Nat /\ D \subseteq 1 .. n
      BY <1>16, <1>19
    <2> HIDE DEF n
    <2> QED
      BY <2>1, <2>2, GreatestIn
  <1>21. answer = i - 1
    <2>1. answer = Max(D)
      BY <1>17, <1>19
    <2>2. i - 1 <= Max(D) /\ Max(D) \in 1 .. i - 1
      BY <1>19, <1>20
    <2> QED
      BY <1>16, <2>1, <2>2
  <1>22. answer # 0 /\ s[i].results \subseteq s[answer].uses
    BY <1>3, <1>4, <1>5, <1>9, <1>14, <1>15, <1>18, <1>21
  <1> QED
    BY <1>22 DEF Answers, answer, q

\* However the history is reduced and rewound, a result that directly follows the
\* answer with its call is sent behind a message of the assistant with that call,
\* if it is sent and no truncation ever hid the answer.
THEOREM ResultsHaveCallsEver == Spec => []ResultsHaveCalls
  BY TellAlways, ResultsHaveCallsHere, PTL

-----------------------------------------------------------------------------
(* What a rewind would leave *)

\* The u-th message of h is one of the user's that was saved after t.
Later(h, t, u) == IsPlain(h[u]) /\ h[u].role = "user" /\ t < h[u].id

\* A user message was saved after t.
Answered(h, t) == \E u \in DOMAIN h : Later(h, t, u)

\* A rewind to t leaves the i-th message: a plain one that no user message after t
\* precedes, and a summary or a marker made before t.
Left(h, t, i) ==
    IF IsPlain(h[i]) THEN \A u \in DOMAIN h : Later(h, t, u) => h[i].id < h[u].id
    ELSE h[i].id < t

\* x is the summary or the marker that hides m.
HiddenBy(x, m) == \/ x.kind = "summary" /\ m.condenseParent = x.id
                  \/ x.kind = "marker" /\ m.truncationParent = x.id

\* The ids of what is left and not hidden by what is left.
SeenThen(h, t) ==
    {h[i].id : i \in {j \in DOMAIN h :
        Left(h, t, j) /\ \A k \in DOMAIN h : Left(h, t, k) => ~ HiddenBy(h[k], h[j])}}

\* Each summary or marker made after the i-th message of the chat is linked to a
\* later message of the chat.
Linked(h, c, i) ==
    \A j \in DOMAIN h : ~ IsPlain(h[j]) /\ c[i].ts < h[j].id
        => \E l \in DOMAIN c : i < l /\ c[l].event = h[j].id

\* A marker made after t was made after a user message,
MarkedLater(h, t) ==
    \A j \in DOMAIN h : h[j].kind = "marker" /\ t < h[j].id
        => \E u \in DOMAIN h : Later(h, t, u) /\ h[u].id < h[j].id

\* and behind a marker put after t no answer comes but after a user message.
MarkedApart(h, t) ==
    \A j, r \in DOMAIN h :
        j < r /\ h[j].kind = "marker" /\ t <= h[j].ts /\ IsPlain(h[r]) /\ h[r].role = "assistant"
        => \E u \in DOMAIN h : Later(h, t, u) /\ h[u].id < h[r].id

-----------------------------------------------------------------------------
(* A history that grew *)

\* g is h with a message at p that is newer than t and hides at most what nothing
\* hid.
Grown(g, h, o, p, t) ==
    /\ h \in Seq(Messages) /\ Derived(g, h, o, p) /\ p \in DOMAIN g
    /\ \A q \in DOMAIN h : \E i \in DOMAIN g : i # p /\ o[i] = q
    /\ \A q \in DOMAIN h : 0 < h[q].id /\ h[q].id < g[p].id
    /\ t < g[p].id
    /\ g[p].condenseParent = None /\ g[p].truncationParent = None
    /\ \A i \in DOMAIN g : i # p =>
           /\ \/ g[i].condenseParent = h[o[i]].condenseParent
              \/ h[o[i]].condenseParent = None /\ g[i].condenseParent = g[p].id
           /\ \/ g[i].truncationParent = h[o[i]].truncationParent
              \/ h[o[i]].truncationParent = None /\ g[i].truncationParent = g[p].id
    /\ \A L : g[p].id \notin L => Selected(Ids(g), L) = Selected(Ids(h), L)

\* The same messages of the user are later.
LEMMA GrownLater ==
    ASSUME NEW g, NEW h, NEW o, NEW p, NEW t \in Nat, Grown(g, h, o, p, t)
    PROVE  /\ \A i \in DOMAIN g : i # p => o[i] \in DOMAIN h /\ Same(g[i], h[o[i]])
           /\ \A i \in DOMAIN g : i # p => (Later(g, t, i) <=> Later(h, t, o[i]))
           /\ \A q \in DOMAIN h : \E i \in DOMAIN g : i # p /\ o[i] = q
           /\ \A i \in DOMAIN g : i # p => g[i].id < g[p].id /\ 0 < g[i].id /\ g[i].id \in Nat
           /\ g[p].id \in Nat
  <1>1. \A i \in DOMAIN g : i # p => o[i] \in DOMAIN h /\ Same(g[i], h[o[i]])
    BY DEF Grown, Derived
  <1>2. \A i \in DOMAIN g : i # p => (Later(g, t, i) <=> Later(h, t, o[i]))
    BY <1>1 DEF Same, Later, IsPlain
  <1>3. \A q \in DOMAIN h : \E i \in DOMAIN g : i # p /\ o[i] = q
    BY DEF Grown
  <1>4. \A i \in DOMAIN g : g[i].id \in Nat
    <2> SUFFICES ASSUME NEW i \in DOMAIN g PROVE g[i].id \in Nat
      OBVIOUS
    <2>1. g[i] \in Messages
      BY DEF Grown, Derived
    <2> QED
      BY <2>1, MessageFields
  <1>5. \A i \in DOMAIN g : i # p => g[i].id < g[p].id /\ 0 < g[i].id
    BY <1>1 DEF Grown, Same
  <1>6. p \in DOMAIN g
    BY DEF Grown
  <1> QED
    BY <1>1, <1>2, <1>3, <1>4, <1>5, <1>6

\* The same messages are left, and the new one if it is plain and the user has
\* said nothing since.
LEMMA GrownLeft ==
    ASSUME NEW g, NEW h, NEW o, NEW p, NEW t \in Nat, Grown(g, h, o, p, t)
    PROVE  /\ \A i \in DOMAIN g : i # p => (Left(g, t, i) <=> Left(h, t, o[i]))
           /\ Left(g, t, p) <=> IsPlain(g[p]) /\ ~ Answered(g, t)
  <1>1. /\ \A i \in DOMAIN g : i # p => o[i] \in DOMAIN h /\ Same(g[i], h[o[i]])
        /\ \A i \in DOMAIN g : i # p => (Later(g, t, i) <=> Later(h, t, o[i]))
        /\ \A q \in DOMAIN h : \E i \in DOMAIN g : i # p /\ o[i] = q
        /\ \A i \in DOMAIN g : i # p => g[i].id < g[p].id /\ 0 < g[i].id /\ g[i].id \in Nat
        /\ g[p].id \in Nat
    BY GrownLater
  <1>2. ASSUME NEW i \in DOMAIN g, i # p PROVE Left(g, t, i) <=> Left(h, t, o[i])
    <2>1. o[i] \in DOMAIN h /\ g[i].id = h[o[i]].id /\ (IsPlain(g[i]) <=> IsPlain(h[o[i]]))
      BY <1>1, <1>2 DEF Same, IsPlain
    <2>2. CASE ~ IsPlain(g[i])
      BY <2>1, <2>2 DEF Left
    <2>3. CASE IsPlain(g[i])
      <3>1. ASSUME Left(g, t, i) PROVE Left(h, t, o[i])
        <4> SUFFICES ASSUME NEW q \in DOMAIN h, Later(h, t, q) PROVE h[o[i]].id < h[q].id
          BY <2>1, <2>3 DEF Left
        <4>1. PICK j \in DOMAIN g : j # p /\ o[j] = q
          BY <1>1
        <4>2. Later(g, t, j) /\ g[j].id = h[q].id
          BY <1>1, <4>1 DEF Same
        <4> QED
          BY <2>1, <2>3, <3>1, <4>2 DEF Left
      <3>2. ASSUME Left(h, t, o[i]) PROVE Left(g, t, i)
        <4> SUFFICES ASSUME NEW u \in DOMAIN g, Later(g, t, u) PROVE g[i].id < g[u].id
          BY <2>3 DEF Left
        <4>1. CASE u = p
          BY <1>1, <1>2, <4>1
        <4>2. CASE u # p
          <5>1. o[u] \in DOMAIN h /\ Later(h, t, o[u]) /\ g[u].id = h[o[u]].id
            BY <1>1, <4>2 DEF Same
          <5> QED
            BY <2>1, <2>3, <3>2, <5>1 DEF Left
        <4> QED
          BY <4>1, <4>2
      <3> QED
        BY <3>1, <3>2
    <2> QED
      BY <2>2, <2>3
  <1>3. Left(g, t, p) <=> IsPlain(g[p]) /\ ~ Answered(g, t)
    <2>1. p \in DOMAIN g /\ t < g[p].id
      BY DEF Grown
    <2>2. CASE ~ IsPlain(g[p])
      BY <1>1, <2>1, <2>2 DEF Left
    <2>3. CASE IsPlain(g[p])
      <3>1. \A u \in DOMAIN g : ~ (g[p].id < g[u].id)
        <4> SUFFICES ASSUME NEW u \in DOMAIN g PROVE ~ (g[p].id < g[u].id)
          OBVIOUS
        <4>1. u # p => g[u].id < g[p].id /\ g[u].id \in Nat
          BY <1>1
        <4> QED
          BY <1>1, <4>1
      <3> QED
        BY <2>3, <3>1 DEF Left, Answered
    <2> QED
      BY <2>2, <2>3
  <1> QED
    BY <1>2, <1>3

\* What was seen at t is what it was, with the new message if it is left.
LEMMA GrownSeen ==
    ASSUME NEW g, NEW h, NEW o, NEW p, NEW t \in Nat, Grown(g, h, o, p, t)
    PROVE  SeenThen(g, t) = SeenThen(h, t) \cup {i \in {g[p].id} : IsPlain(g[p]) /\ ~ Answered(g, t)}
  <1>1. /\ \A i \in DOMAIN g : i # p => o[i] \in DOMAIN h /\ Same(g[i], h[o[i]])
        /\ \A q \in DOMAIN h : \E i \in DOMAIN g : i # p /\ o[i] = q
        /\ \A i \in DOMAIN g : i # p => g[i].id < g[p].id /\ 0 < g[i].id /\ g[i].id \in Nat
        /\ g[p].id \in Nat
    BY GrownLater
  <1>2. /\ \A i \in DOMAIN g : i # p => (Left(g, t, i) <=> Left(h, t, o[i]))
        /\ Left(g, t, p) <=> IsPlain(g[p]) /\ ~ Answered(g, t)
    BY GrownLeft
  <1>3. p \in DOMAIN g /\ g[p].condenseParent = 0 /\ g[p].truncationParent = 0 /\ 0 # g[p].id
    BY <1>1 DEF Grown, None
  <1>4. ASSUME NEW i \in DOMAIN g, NEW k \in DOMAIN g, i # p, k # p
        PROVE  HiddenBy(g[k], g[i]) <=> HiddenBy(h[o[k]], h[o[i]])
    <2>1. g[k].kind = h[o[k]].kind /\ g[k].id = h[o[k]].id
      BY <1>1, <1>4 DEF Same
    <2>2. g[k].id # g[p].id /\ g[k].id # 0
      BY <1>1, <1>4
    <2>3. /\ \/ g[i].condenseParent = h[o[i]].condenseParent
             \/ h[o[i]].condenseParent = 0 /\ g[i].condenseParent = g[p].id
          /\ \/ g[i].truncationParent = h[o[i]].truncationParent
             \/ h[o[i]].truncationParent = 0 /\ g[i].truncationParent = g[p].id
      BY <1>4 DEF Grown, None
    <2> QED
      BY <2>1, <2>2, <2>3 DEF HiddenBy
  <1>5. ASSUME NEW k \in DOMAIN g, Left(g, t, k) PROVE ~ HiddenBy(g[k], g[p])
    <2>1. g[k].id # 0
      BY <1>1, <1>3
    <2> QED
      BY <1>3, <2>1 DEF HiddenBy
  <1>6. Left(g, t, p) => \A i : ~ HiddenBy(g[p], g[i])
    BY <1>2 DEF HiddenBy, IsPlain
  <1> DEFINE Unhidden(h2, j) == Left(h2, t, j) /\ \A k \in DOMAIN h2 : Left(h2, t, k) => ~ HiddenBy(h2[k], h2[j])
  <1>7. ASSUME NEW i \in DOMAIN g, i # p PROVE Unhidden(g, i) <=> Unhidden(h, o[i])
    <2>1. ASSUME Unhidden(g, i) PROVE Unhidden(h, o[i])
      <3> SUFFICES ASSUME NEW q \in DOMAIN h, Left(h, t, q) PROVE ~ HiddenBy(h[q], h[o[i]])
        BY <1>2, <1>7, <2>1
      <3>1. PICK k \in DOMAIN g : k # p /\ o[k] = q
        BY <1>1
      <3> QED
        BY <1>2, <1>4, <1>7, <2>1, <3>1
    <2>2. ASSUME Unhidden(h, o[i]) PROVE Unhidden(g, i)
      <3> SUFFICES ASSUME NEW k \in DOMAIN g, Left(g, t, k) PROVE ~ HiddenBy(g[k], g[i])
        BY <1>2, <1>7, <2>2
      <3>1. CASE k = p
        BY <1>6, <3>1
      <3>2. CASE k # p
        BY <1>1, <1>2, <1>4, <1>7, <2>2, <3>2
      <3> QED
        BY <3>1, <3>2
    <2> QED
      BY <2>1, <2>2
  <1>8. Unhidden(g, p) <=> IsPlain(g[p]) /\ ~ Answered(g, t)
    BY <1>2, <1>5
  <1>9. SeenThen(g, t) = {g[i].id : i \in {j \in DOMAIN g : Unhidden(g, j)}}
    BY DEF SeenThen
  <1>10. SeenThen(h, t) = {h[i].id : i \in {j \in DOMAIN h : Unhidden(h, j)}}
    BY DEF SeenThen
  <1> HIDE DEF Unhidden
  <1>11. ASSUME NEW x \in SeenThen(g, t) PROVE x \in SeenThen(h, t) \cup {i \in {g[p].id} : IsPlain(g[p]) /\ ~ Answered(g, t)}
    <2>1. PICK i \in DOMAIN g : Unhidden(g, i) /\ x = g[i].id
      BY <1>9, <1>11
    <2>2. CASE i = p
      BY <1>8, <2>1, <2>2
    <2>3. CASE i # p
      <3>1. o[i] \in DOMAIN h /\ Unhidden(h, o[i]) /\ x = h[o[i]].id
        BY <1>1, <1>7, <2>1, <2>3 DEF Same
      <3> QED
        BY <1>10, <3>1
    <2> QED
      BY <2>2, <2>3
  <1>12. ASSUME NEW x \in SeenThen(h, t) PROVE x \in SeenThen(g, t)
    <2>1. PICK q \in DOMAIN h : Unhidden(h, q) /\ x = h[q].id
      BY <1>10, <1>12
    <2>2. PICK i \in DOMAIN g : i # p /\ o[i] = q
      BY <1>1
    <2>3. Unhidden(g, i) /\ x = g[i].id
      BY <1>1, <1>7, <2>1, <2>2 DEF Same
    <2> QED
      BY <1>9, <2>3
  <1>13. IsPlain(g[p]) /\ ~ Answered(g, t) => g[p].id \in SeenThen(g, t)
    BY <1>3, <1>8, <1>9
  <1> QED
    BY <1>11, <1>12, <1>13

\* The ids of a history.
LEMMA IdsIs ==
    ASSUME NEW h \in Seq(Messages)
    PROVE  /\ Ids(h) \in Seq(Nat) /\ Len(Ids(h)) = Len(h) /\ Len(h) \in Nat
           /\ \A i \in 1 .. Len(h) : Ids(h)[i] = h[i].id
           /\ \A x \in Messages : Ids(Append(h, x)) = Append(Ids(h), x.id)
  <1>1. Len(h) \in Nat /\ DOMAIN h = 1 .. Len(h)
    OBVIOUS
  <1>2. \A i \in 1 .. Len(h) : h[i] \in Messages /\ h[i].id \in Nat
    BY <1>1, MessageFields
  <1>3. Ids(h) = [i \in 1 .. Len(h) |-> h[i].id]
    BY <1>1 DEF Ids
  <1>4. Ids(h) \in Seq(Nat) /\ Len(Ids(h)) = Len(h)
    <2>1. Ids(h) \in [1 .. Len(h) -> Nat]
      BY <1>2, <1>3
    <2> QED
      BY <1>1, <2>1, SeqDef
  <1>5. \A i \in 1 .. Len(h) : Ids(h)[i] = h[i].id
    BY <1>3
  <1>6. ASSUME NEW x \in Messages PROVE Ids(Append(h, x)) = Append(Ids(h), x.id)
    <2>1. Append(h, x) \in Seq(Messages) /\ DOMAIN Append(h, x) = 1 .. Len(h) + 1
      BY <1>1
    <2>2. Ids(Append(h, x)) = [i \in 1 .. Len(h) + 1 |-> Append(h, x)[i].id]
      BY <2>1 DEF Ids
    <2>3. x.id \in Nat
      BY MessageFields
    <2>4. Append(Ids(h), x.id) = [i \in 1 .. Len(h) + 1 |-> Append(Ids(h), x.id)[i]]
      BY <1>1, <1>4, <2>3
    <2>5. \A i \in 1 .. Len(h) + 1 : Append(h, x)[i].id = Append(Ids(h), x.id)[i]
      BY <1>1, <1>4, <1>5, <2>3
    <2> QED
      BY <2>2, <2>4, <2>5
  <1> QED
    BY <1>1, <1>4, <1>5, <1>6

\* Selecting messages selects their ids.
LEMMA IdsSelected ==
    ASSUME NEW h \in Seq(Messages), NEW K, NEW L,
           \A i \in DOMAIN h : h[i] \in K <=> h[i].id \in L
    PROVE  Ids(Selected(h, K)) = Selected(Ids(h), L)
  <1> DEFINE Q == {s \in Seq(Messages) :
                      (\A i \in DOMAIN s : s[i] \in K <=> s[i].id \in L)
                         => Ids(Selected(s, K)) = Selected(Ids(s), L)}
  <1>1. <<>> \in Q
    <2>1. Ids(<<>>) = <<>>
      BY DEF Ids
    <2> QED
      BY <2>1, SelectedEmpty
  <1>2. ASSUME NEW s \in Seq(Messages), NEW x \in Messages, s \in Q
        PROVE  Append(s, x) \in Q
    <2> SUFFICES ASSUME \A i \in DOMAIN Append(s, x) : Append(s, x)[i] \in K <=> Append(s, x)[i].id \in L
                 PROVE  Ids(Selected(Append(s, x), K)) = Selected(Ids(Append(s, x)), L)
      <3>1. Append(s, x) \in Seq(Messages)
        OBVIOUS
      <3> QED
        BY <3>1
    <2>1. /\ Len(s) \in Nat /\ DOMAIN Append(s, x) = 1 .. Len(s) + 1 /\ DOMAIN s = 1 .. Len(s)
          /\ Append(s, x)[Len(s) + 1] = x /\ \A i \in 1 .. Len(s) : Append(s, x)[i] = s[i]
      OBVIOUS
    <2>2. \A i \in DOMAIN s : s[i] \in K <=> s[i].id \in L
      <3> SUFFICES ASSUME NEW i \in DOMAIN s PROVE s[i] \in K <=> s[i].id \in L
        OBVIOUS
      <3>1. i \in DOMAIN Append(s, x) /\ Append(s, x)[i] = s[i]
        BY <2>1
      <3> QED
        BY <3>1
    <2>3. x \in K <=> x.id \in L
      <3>1. Len(s) + 1 \in DOMAIN Append(s, x)
        BY <2>1
      <3> QED
        BY <2>1, <3>1
    <2>4. Ids(Selected(s, K)) = Selected(Ids(s), L)
      BY <1>2, <2>2
    <2>5. Ids(s) \in Seq(Nat) /\ Ids(Append(s, x)) = Append(Ids(s), x.id) /\ x.id \in Nat
      BY IdsIs, MessageFields
    <2>6. Selected(Ids(Append(s, x)), L)
            = IF x.id \in L THEN Append(Selected(Ids(s), L), x.id) ELSE Selected(Ids(s), L)
      <3>1. \A q \in Seq(Nat), y \in Nat : Selected(Append(q, y), L)
               = IF y \in L THEN Append(Selected(q, L), y) ELSE Selected(q, L)
        BY SelectedAppend
      <3> QED
        BY <2>5, <3>1
    <2>7. /\ Selected(s, K) \in Seq(Messages)
          /\ Selected(Append(s, x), K) = IF x \in K THEN Append(Selected(s, K), x) ELSE Selected(s, K)
      BY SelectedAppend
    <2>8. Ids(Append(Selected(s, K), x)) = Append(Ids(Selected(s, K)), x.id)
      BY <2>7, IdsIs
    <2> QED
      BY <2>3, <2>4, <2>6, <2>7, <2>8
  <1> HIDE DEF Q
  <1>3. Seq(Messages) \subseteq Q
    BY <1>1, <1>2, SeqInduction
  <1> QED
    BY <1>3 DEF Q

\* The new message is not selected.
LEMMA InsertedIds ==
    ASSUME NEW h \in Seq(Messages), NEW g \in Seq(Messages), NEW p \in 1 .. Len(h) + 1,
           Derived(g, h, Shift(p), p), DOMAIN g = 1 .. Len(h) + 1,
           \A i \in DOMAIN g : i < p => Shift(p)[i] = i,
           \A i \in DOMAIN g : i > p => Shift(p)[i] = i - 1,
           NEW L, g[p].id \notin L
    PROVE  Selected(Ids(g), L) = Selected(Ids(h), L)
  <1>1. Ids(h) \in Seq(Nat) /\ Len(Ids(h)) = Len(h) /\ Len(h) \in Nat /\ \A i \in 1 .. Len(h) : Ids(h)[i] = h[i].id
    BY IdsIs
  <1>2. Ids(g) \in Seq(Nat) /\ Len(Ids(g)) = Len(g) /\ Len(g) \in Nat /\ \A i \in 1 .. Len(g) : Ids(g)[i] = g[i].id
    BY IdsIs
  <1>3. Len(g) = Len(h) + 1
    BY <1>1, <1>2
  <1>4. g[p].id \in Nat
    BY <1>3, MessageFields
  <1>5. /\ InsertAt(Ids(h), p, g[p].id) \in Seq(Nat)
        /\ Len(InsertAt(Ids(h), p, g[p].id)) = Len(h) + 1
        /\ \A i \in 1 .. p - 1 : InsertAt(Ids(h), p, g[p].id)[i] = Ids(h)[i]
        /\ InsertAt(Ids(h), p, g[p].id)[p] = g[p].id
        /\ \A i \in p + 1 .. Len(h) + 1 : InsertAt(Ids(h), p, g[p].id)[i] = Ids(h)[i - 1]
    <2> DEFINE q == Ids(h)
               y == g[p].id
               N == Nat
    <2>1. q \in Seq(N) /\ y \in N /\ p \in 1 .. Len(q) + 1 /\ Len(q) = Len(h)
      BY <1>1, <1>4
    <2> HIDE DEF q, y, N
    <2>2. /\ InsertAt(q, p, y) \in Seq(N)
          /\ Len(InsertAt(q, p, y)) = Len(q) + 1
          /\ \A i \in 1 .. p - 1 : InsertAt(q, p, y)[i] = q[i]
          /\ InsertAt(q, p, y)[p] = y
          /\ \A i \in p + 1 .. Len(q) + 1 : InsertAt(q, p, y)[i] = q[i - 1]
      BY <2>1, Inserted
    <2> QED
      BY <2>1, <2>2 DEF q, y, N
  <1>6. Ids(g) = InsertAt(Ids(h), p, g[p].id)
    <2>1. ASSUME NEW i \in 1 .. Len(h) + 1 PROVE Ids(g)[i] = InsertAt(Ids(h), p, g[p].id)[i]
      <3>1. CASE i = p
        BY <1>2, <1>3, <1>5, <3>1
      <3>2. CASE i < p
        <4>1. Shift(p)[i] = i /\ g[i].id = h[i].id
          BY <3>2 DEF Derived, Same
        <4>2. i \in 1 .. p - 1 /\ i \in 1 .. Len(h) /\ i \in 1 .. Len(g)
          BY <1>1, <1>3, <3>2
        <4> QED
          BY <1>1, <1>2, <1>5, <4>1, <4>2
      <3>3. CASE i > p
        <4>1. Shift(p)[i] = i - 1 /\ g[i].id = h[i - 1].id
          BY <3>3 DEF Derived, Same
        <4>2. i \in p + 1 .. Len(h) + 1 /\ i - 1 \in 1 .. Len(h) /\ i \in 1 .. Len(g)
          BY <1>1, <1>3, <3>3
        <4> QED
          BY <1>1, <1>2, <1>5, <4>1, <4>2
      <3> QED
        BY <3>1, <3>2, <3>3
    <2> QED
      BY <1>2, <1>3, <1>5, <2>1, SeqEqual
  <1> QED
    <2>1. \A s \in Seq(Nat), x \in Nat : \A n \in 1 .. Len(s) + 1 :
              x \notin L => Selected(InsertAt(s, n, x), L) = Selected(s, L)
      BY SelectedInserted
    <2> QED
      BY <1>1, <1>4, <1>6, <2>1

\* Saving a message.
LEMMA AppendGrown ==
    ASSUME NEW h, NEW d \in Int, NEW n \in Times, NEW k \in Nat, HistoryOK(h, d, n, k),
           NEW x, Saved(x, n, k), NEW t \in Nat, t < n
    PROVE  Grown(Append(h, x), h, Itself, Len(h) + 1, t)
  <1> DEFINE g == Append(h, x)
             p == Len(h) + 1
  <1>1. h \in Seq(Messages) /\ Len(h) \in Nat /\ DOMAIN h = 1 .. Len(h)
    BY DEF HistoryOK
  <1>2. x \in Messages /\ x.id = n /\ x.condenseParent = None /\ x.truncationParent = None /\ n \in Nat
    BY TimesApart DEF Saved
  <1>3. /\ Derived(g, h, Itself, p)
        /\ DOMAIN g = 1 .. Len(h) + 1 /\ g[p] = x
        /\ \A i \in 1 .. Len(h) : g[i] = h[i] /\ Itself[i] = i
    BY <1>1, <1>2, AppendDerives
  <1>4. \A q \in DOMAIN h : 0 < h[q].id /\ h[q].id < n
    BY DEF HistoryOK, MessageOK
  <1>5. ASSUME NEW L, n \notin L PROVE Selected(Ids(g), L) = Selected(Ids(h), L)
    <2>1. Ids(g) = Append(Ids(h), n) /\ Ids(h) \in Seq(Nat)
      BY <1>1, <1>2, IdsIs
    <2> QED
      BY <1>2, <1>5, <2>1, SelectedAppend
  <1>6. ASSUME NEW q \in DOMAIN h PROVE \E i \in DOMAIN g : i # p /\ Itself[i] = q
    <2>1. q \in DOMAIN g /\ q # p /\ Itself[q] = q
      BY <1>1, <1>3
    <2> QED
      BY <2>1
  <1>7. p \in DOMAIN g
    BY <1>1, <1>3
  <1>8. ASSUME NEW i \in DOMAIN g, i # p PROVE g[i] = h[Itself[i]]
    <2>1. i \in 1 .. Len(h)
      BY <1>1, <1>3, <1>8
    <2> QED
      BY <1>3, <2>1
  <1> HIDE DEF g, p
  <1>9. Grown(g, h, Itself, p, t)
    BY <1>1, <1>2, <1>3, <1>4, <1>5, <1>6, <1>7, <1>8 DEF Grown
  <1> QED
    BY <1>9 DEF g, p

\* A condensation.
LEMMA CondensedGrown ==
    ASSUME NEW h, NEW d, NEW k, HistoryOK(h, d, now, k), now \in Nat, CanCondense(h),
           NEW t \in Nat, t < now
    PROVE  Grown(Condensed(h), h, Shift(KeepStart(h) + 1), KeepStart(h) + 1, t)
  <1> DEFINE g == Condensed(h)
             p == KeepStart(h) + 1
             o == Shift(p)
  <1>1. h \in Seq(Messages) /\ SummariesAnswer(h)
    BY SummariesAnswerOK DEF HistoryOK
  <1>2. /\ Derived(g, h, o, p)
        /\ Len(g) = Len(h) + 1 /\ DOMAIN g = 1 .. Len(h) + 1 /\ p \in 2 .. Len(h)
        /\ g[p] = Summary(h)
        /\ \A i \in DOMAIN g : i < p => o[i] = i
        /\ \A i \in DOMAIN g : i > p => o[i] = i - 1 /\ g[i] = h[i - 1]
        /\ \A i \in DOMAIN g : i # p =>
               /\ g[i].truncationParent = h[o[i]].truncationParent
               /\ g[i].condenseParent = IF o[i] = 1 \/ o[i] >= p \/ h[o[i]].condenseParent # None
                                        THEN h[o[i]].condenseParent ELSE now
    BY <1>1, CondensedDoes
  <1>3. Summary(h).id = now /\ Summary(h).condenseParent = None /\ Summary(h).truncationParent = None
    BY <1>1, SummaryIs
  <1>4. \A q \in DOMAIN h : 0 < h[q].id /\ h[q].id < now
    BY DEF HistoryOK, MessageOK
  <1>5. \A q \in DOMAIN h : \E i \in DOMAIN g : i # p /\ o[i] = q
    BY CondensedToIs DEF CondensedTo
  <1>6. Len(h) \in Nat /\ g \in Seq(Messages) /\ p \in 1 .. Len(h) + 1 /\ p \in DOMAIN g
    BY <1>1, <1>2 DEF Derived
  <1>7. ASSUME NEW L, now \notin L PROVE Selected(Ids(g), L) = Selected(Ids(h), L)
    <2> HIDE DEF g, p
    <2>1. \A i \in DOMAIN g : i > p => Shift(p)[i] = i - 1
      BY <1>2
    <2>2. \A i \in DOMAIN g : i < p => Shift(p)[i] = i
      BY <1>2
    <2>3. g[p].id \notin L
      BY <1>2, <1>3, <1>7
    <2>4. h \in Seq(Messages) /\ g \in Seq(Messages) /\ p \in 1 .. Len(h) + 1
      BY <1>1, <1>6
    <2>5. Derived(g, h, Shift(p), p) /\ DOMAIN g = 1 .. Len(h) + 1
      BY <1>2
    <2> HIDE DEF o
    <2> QED
      BY <2>1, <2>2, <2>3, <2>4, <2>5, InsertedIds
  <1> HIDE DEF g, p, o
  <1>8. Grown(g, h, o, p, t)
    BY <1>1, <1>2, <1>3, <1>4, <1>5, <1>6, <1>7 DEF Grown
  <1> QED
    BY <1>8 DEF g, p, o

\* A truncation.
LEMMA TruncatedGrown ==
    ASSUME NEW h, NEW d, NEW k, HistoryOK(h, d, now, k), now \in Nat, NEW t \in Nat, t < now
    PROVE  LET p == MarkerAt(h)
           IN  \/ Truncated(h) = h
               \/ /\ Grown(Truncated(h), h, Shift(p), p, t)
                  /\ p \in 2 .. Len(h) /\ DOMAIN Truncated(h) = 1 .. Len(h) + 1 /\ Truncated(h)[p] = Marker(h, p)
                  /\ \A i \in DOMAIN Truncated(h) : i < p => Shift(p)[i] = i
                  /\ \A i \in DOMAIN Truncated(h) : i > p => Shift(p)[i] = i - 1
  <1> DEFINE g == Truncated(h)
             p == MarkerAt(h)
             o == Shift(p)
  <1>1. h \in Seq(Messages) /\ BeginsPlain(h) /\ Len(h) \in Nat
    BY DEF HistoryOK
  <1>2. \/ g = h
        \/ /\ p \in 2 .. Len(h)
           /\ Derived(g, h, o, p)
           /\ Len(g) = Len(h) + 1 /\ DOMAIN g = 1 .. Len(h) + 1
           /\ g[p] = Marker(h, p)
           /\ \A i \in DOMAIN g : i < p => o[i] = i
           /\ \A i \in DOMAIN g : i > p => o[i] = i - 1
           /\ \A i \in DOMAIN g : i # p =>
               /\ g[i].condenseParent = h[o[i]].condenseParent
               /\ IF o[i] \in 2 .. p - 1 /\ Seen(h, o[i])
                  THEN g[i].truncationParent = now
                  ELSE g[i].truncationParent = h[o[i]].truncationParent
    BY <1>1, TruncatedDoes
  <1> SUFFICES ASSUME g # h PROVE Grown(g, h, o, p, t)
    BY <1>2
  <1>3. p \in 2 .. Len(h) /\ p \in 1 .. Len(h) /\ p \in 1 .. Len(h) + 1
    BY <1>1, <1>2
  <1>4. Marker(h, p).id = now /\ Marker(h, p).condenseParent = None /\ Marker(h, p).truncationParent = None
    BY <1>1, <1>3, MarkerIs
  <1>5. \A q \in DOMAIN h : 0 < h[q].id /\ h[q].id < now
    BY DEF HistoryOK, MessageOK
  <1>6. g \in Seq(Messages) /\ p \in DOMAIN g
    BY <1>2, <1>3 DEF Derived
  <1> HIDE DEF g, p
  <1>7. \A q \in DOMAIN h : \E i \in DOMAIN g : i # p /\ o[i] = q
    BY <1>1, <1>2, <1>3, InsertedBetween
  <1>8. ASSUME NEW L, now \notin L PROVE Selected(Ids(g), L) = Selected(Ids(h), L)
    BY <1>1, <1>2, <1>3, <1>4, <1>6, <1>8, InsertedIds
  <1>9. ASSUME NEW i \in DOMAIN g, i # p
        PROVE  \/ g[i].truncationParent = h[o[i]].truncationParent
               \/ h[o[i]].truncationParent = None /\ g[i].truncationParent = now
    BY <1>2, <1>9 DEF Seen
  <1>10. \A i \in DOMAIN g : i # p => g[i].condenseParent = h[o[i]].condenseParent
    BY <1>2
  <1>11. Derived(g, h, o, p) /\ g[p] = Marker(h, p)
    BY <1>2
  <1> HIDE DEF o
  <1> QED
    BY <1>1, <1>4, <1>5, <1>6, <1>7, <1>8, <1>9, <1>10, <1>11 DEF Grown

\* A rewind to the i-th message of the chat brings back what was before it.
Restorable(h, c, i) ==
    /\ c[i].before = Selected(Ids(h), SeenThen(h, c[i].ts))
    /\ Linked(h, c, i)
    /\ MarkedLater(h, c[i].ts)
    /\ MarkedApart(h, c[i].ts)

\* No message of the chat that is intact was otherwise before, and the links stay.
Continues(c2, c) ==
    /\ \A l \in DOMAIN c2 : c2[l].intact => /\ l \in DOMAIN c /\ c[l].intact
                                            /\ c2[l].ts = c[l].ts /\ c2[l].before = c[l].before
    /\ \A l \in DOMAIN c : l \in DOMAIN c2 /\ c2[l].event = c[l].event

\* A new message that is not left changes nothing of what was seen.
LEMMA GrownKept ==
    ASSUME NEW g, NEW h, NEW o, NEW p, NEW t \in Nat, Grown(g, h, o, p, t),
           IsPlain(g[p]) => Answered(g, t)
    PROVE  Selected(Ids(g), SeenThen(g, t)) = Selected(Ids(h), SeenThen(h, t))
  <1>1. SeenThen(g, t) = SeenThen(h, t)
    BY GrownSeen
  <1>2. g[p].id \notin SeenThen(h, t)
    <2> SUFFICES ASSUME g[p].id \in SeenThen(h, t) PROVE FALSE
      OBVIOUS
    <2>1. PICK q \in DOMAIN h : g[p].id = h[q].id
      BY DEF SeenThen
    <2>2. h[q].id < g[p].id
      BY DEF Grown
    <2>3. g[p].id \in Nat
      BY GrownLater
    <2> QED
      BY <2>1, <2>2, <2>3
  <1> QED
    BY <1>1, <1>2 DEF Grown

\* What the user has answered stays answered.
LEMMA GrownAnswered ==
    ASSUME NEW g, NEW h, NEW o, NEW p, NEW t \in Nat, Grown(g, h, o, p, t)
    PROVE  /\ Answered(h, t) => Answered(g, t)
           /\ \A q \in DOMAIN h : Later(h, t, q) => \E u \in DOMAIN g : Later(g, t, u) /\ g[u].id = h[q].id
  <1>1. ASSUME NEW q \in DOMAIN h, Later(h, t, q)
        PROVE  \E u \in DOMAIN g : Later(g, t, u) /\ g[u].id = h[q].id
    <2>1. PICK u \in DOMAIN g : u # p /\ o[u] = q
      BY GrownLater
    <2>2. Later(g, t, u) /\ g[u].id = h[q].id
      BY <1>1, <2>1, GrownLater DEF Same
    <2> QED
      BY <2>2
  <1> QED
    BY <1>1 DEF Answered

\* Links stay, if a new summary or marker is linked.
LEMMA GrownLinked ==
    ASSUME NEW c, NEW c2, NEW i \in DOMAIN c2, Continues(c2, c), c2[i].intact,
           NEW g, NEW h, NEW o, NEW p, c[i].ts \in Nat, Grown(g, h, o, p, c[i].ts), Linked(h, c, i),
           IsPlain(g[p]) \/ \E l \in DOMAIN c2 : i < l /\ c2[l].event = g[p].id
    PROVE  Linked(g, c2, i)
  <1> SUFFICES ASSUME NEW j \in DOMAIN g, ~ IsPlain(g[j]), c2[i].ts < g[j].id
               PROVE  \E l \in DOMAIN c2 : i < l /\ c2[l].event = g[j].id
    BY DEF Linked
  <1>1. c2[i].ts = c[i].ts
    BY DEF Continues
  <1>2. CASE j = p
    BY <1>2
  <1>3. CASE j # p
    <2>1. o[j] \in DOMAIN h /\ ~ IsPlain(h[o[j]]) /\ h[o[j]].id = g[j].id
      BY <1>3, GrownLater DEF Same, IsPlain
    <2>2. PICK l \in DOMAIN c : i < l /\ c[l].event = h[o[j]].id
      BY <1>1, <2>1 DEF Linked
    <2> QED
      BY <2>1, <2>2 DEF Continues
  <1> QED
    BY <1>2, <1>3

\* So do the conditions on the markers, for a new one after an answer of the user
\* that is put before no answer, and a new answer after one of the user.
LEMMA GrownMarked ==
    ASSUME NEW g, NEW h, NEW o, NEW p, NEW t \in Nat, Grown(g, h, o, p, t),
           MarkedLater(h, t), MarkedApart(h, t),
           g[p].kind = "marker" \/ (IsPlain(g[p]) /\ g[p].role = "assistant") => Answered(h, t),
           g[p].kind = "marker" /\ t <= g[p].ts =>
               \A r \in DOMAIN g : p < r /\ IsPlain(g[r]) /\ g[r].role = "assistant"
                   => \E u \in DOMAIN g : Later(g, t, u) /\ g[u].id < g[r].id
    PROVE  MarkedLater(g, t) /\ MarkedApart(g, t)
  <1>1. /\ \A i \in DOMAIN g : i # p => o[i] \in DOMAIN h /\ Same(g[i], h[o[i]])
        /\ \A i \in DOMAIN g : i # p => g[i].id < g[p].id
        /\ p \in DOMAIN g
    <2>1. p \in DOMAIN g
      BY DEF Grown
    <2> QED
      BY <2>1, GrownLater
  <1>2. \A q \in DOMAIN h : Later(h, t, q) => \E u \in DOMAIN g : Later(g, t, u) /\ g[u].id = h[q].id
    BY GrownAnswered
  <1>3. \A q \in DOMAIN h : h[q].id < g[p].id
    BY DEF Grown
  <1>4. ASSUME Answered(h, t) PROVE \E u \in DOMAIN g : Later(g, t, u) /\ g[u].id < g[p].id
    <2>1. PICK q \in DOMAIN h : Later(h, t, q)
      BY <1>4 DEF Answered
    <2>2. PICK u \in DOMAIN g : Later(g, t, u) /\ g[u].id = h[q].id
      BY <1>2, <2>1
    <2> QED
      BY <1>3, <2>2
  <1>5. MarkedLater(g, t)
    <2> SUFFICES ASSUME NEW j \in DOMAIN g, g[j].kind = "marker", t < g[j].id
                 PROVE  \E u \in DOMAIN g : Later(g, t, u) /\ g[u].id < g[j].id
      BY DEF MarkedLater
    <2>1. CASE j = p
      BY <1>4, <2>1
    <2>2. CASE j # p
      <3>1. o[j] \in DOMAIN h /\ h[o[j]].kind = "marker" /\ h[o[j]].id = g[j].id
        BY <1>1, <2>2 DEF Same
      <3>2. PICK q \in DOMAIN h : Later(h, t, q) /\ h[q].id < h[o[j]].id
        BY <3>1 DEF MarkedLater
      <3> QED
        BY <1>2, <3>1, <3>2
    <2> QED
      BY <2>1, <2>2
  <1>6. MarkedApart(g, t)
    <2> SUFFICES ASSUME NEW j \in DOMAIN g, NEW r \in DOMAIN g,
                        j < r, g[j].kind = "marker", t <= g[j].ts, IsPlain(g[r]), g[r].role = "assistant"
                 PROVE  \E u \in DOMAIN g : Later(g, t, u) /\ g[u].id < g[r].id
      BY DEF MarkedApart
    <2>1. CASE r = p
      BY <1>4, <2>1
    <2>2. CASE r # p /\ j = p
      BY <2>2
    <2>3. CASE r # p /\ j # p
      <3>1. /\ o[j] \in DOMAIN h /\ h[o[j]].kind = "marker" /\ h[o[j]].ts = g[j].ts
            /\ o[r] \in DOMAIN h /\ IsPlain(h[o[r]]) /\ h[o[r]].role = "assistant" /\ h[o[r]].id = g[r].id
        BY <1>1, <2>3 DEF Same, IsPlain
      <3>2. o[j] < o[r]
        BY <2>3 DEF Grown, Derived
      <3>3. PICK q \in DOMAIN h : Later(h, t, q) /\ h[q].id < h[o[r]].id
        BY <3>1, <3>2 DEF MarkedApart
      <3> QED
        BY <1>2, <3>1, <3>3
    <2> QED
      BY <2>1, <2>2, <2>3
  <1> QED
    BY <1>5, <1>6

\* What could be brought back before the message was added still can.
LEMMA GrownRestorable ==
    ASSUME NEW c, NEW c2, NEW i \in DOMAIN c2, Continues(c2, c), c2[i].intact,
           NEW g, NEW h, NEW o, NEW p, c[i].ts \in Nat, Grown(g, h, o, p, c[i].ts), Restorable(h, c, i),
           IsPlain(g[p]) => Answered(g, c[i].ts),
           IsPlain(g[p]) \/ \E l \in DOMAIN c2 : i < l /\ c2[l].event = g[p].id,
           g[p].kind = "marker" \/ (IsPlain(g[p]) /\ g[p].role = "assistant") => Answered(h, c[i].ts),
           g[p].kind = "marker" /\ c[i].ts <= g[p].ts =>
               \A r \in DOMAIN g : p < r /\ IsPlain(g[r]) /\ g[r].role = "assistant"
                   => \E u \in DOMAIN g : Later(g, c[i].ts, u) /\ g[u].id < g[r].id
    PROVE  Restorable(g, c2, i) /\ (Answered(h, c[i].ts) => Answered(g, c[i].ts))
  <1>1. c2[i].ts = c[i].ts /\ c2[i].before = c[i].before
    BY DEF Continues
  <1>2. Selected(Ids(g), SeenThen(g, c[i].ts)) = Selected(Ids(h), SeenThen(h, c[i].ts))
    BY GrownKept
  <1>3. Linked(g, c2, i)
    BY GrownLinked DEF Restorable
  <1>4. MarkedLater(g, c[i].ts) /\ MarkedApart(g, c[i].ts)
    BY GrownMarked DEF Restorable
  <1>5. Answered(h, c[i].ts) => Answered(g, c[i].ts)
    BY GrownAnswered
  <1> QED
    BY <1>1, <1>2, <1>3, <1>4, <1>5 DEF Restorable

-----------------------------------------------------------------------------
(* The invariant behind RewindRestores *)

\* A message of the chat to which a rewind brings back is answered when the next
\* request is made, and nothing is later when its answer begins.
Waits(h, t) ==
    /\ pc = "request" => Answered(h, t)
    /\ pc = "stream" => Answered(h, t) \/ \A j \in DOMAIN h : h[j].ts < t

\* The invariant behind RewindRestores.
RewindInv ==
    \A i \in DOMAIN chat : chat[i].intact => Restorable(api, chat, i) /\ Waits(api, chat[i].ts)

\* The chat goes on when nothing happens to it,
LEMMA ContinuesSame == ASSUME NEW c PROVE Continues(c, c)
  BY DEF Continues

\* when some of its marks are taken and a message without one is posted,
LEMMA ContinuesAppend ==
    ASSUME NEW c \in Seq(ChatMessages), NEW b, SameChat(b, c),
           \A i \in DOMAIN b : b[i].before = c[i].before,
           NEW m \in ChatMessages, ~ m.intact
    PROVE  LET g == Append(b, m)
           IN  /\ Continues(g, c)
               /\ Len(c) \in Nat /\ DOMAIN g = 1 .. Len(c) + 1 /\ g[Len(c) + 1] = m
               /\ \A i \in DOMAIN g : g[i].intact => i \in 1 .. Len(c) /\ b[i].intact
  <1> DEFINE g == Append(b, m)
  <1>1. /\ b \in Seq(ChatMessages) /\ Len(c) \in Nat /\ DOMAIN c = 1 .. Len(c) /\ DOMAIN b = 1 .. Len(c)
        /\ \A i \in DOMAIN b : b[i].ts = c[i].ts /\ b[i].event = c[i].event /\ (b[i].intact => c[i].intact)
    BY DEF SameChat
  <1>2. Len(b) = Len(c)
    BY <1>1
  <1>3. /\ DOMAIN g = 1 .. Len(c) + 1 /\ g[Len(c) + 1] = m
        /\ \A i \in 1 .. Len(c) : g[i] = b[i]
    BY <1>1, <1>2
  <1> HIDE DEF g
  <1>4. \A i \in DOMAIN g : g[i].intact => i \in 1 .. Len(c) /\ b[i].intact
    BY <1>1, <1>3
  <1>5. Continues(g, c)
    BY <1>1, <1>3, <1>4 DEF Continues
  <1> QED
    BY <1>1, <1>3, <1>4, <1>5 DEF g

\* and then what could be gone back to still can.
LEMMA RestorableContinues ==
    ASSUME NEW c, NEW c2, Continues(c2, c), NEW i \in DOMAIN c2, c2[i].intact,
           NEW h, Restorable(h, c, i)
    PROVE  Restorable(h, c2, i)
  <1>1. c2[i].ts = c[i].ts /\ c2[i].before = c[i].before
    BY DEF Continues
  <1>2. Linked(h, c2, i)
    BY <1>1 DEF Restorable, Continues, Linked
  <1> QED
    BY <1>1, <1>2 DEF Restorable

\* The times of the chat and of the messages in the history.
LEMMA ChatTimes ==
    ASSUME TypeInv
    PROVE  /\ api \in Seq(Messages) /\ HistoryOK(api, reductions, now, made)
           /\ chat \in Seq(ChatMessages) /\ now \in Nat /\ now \in Times
           /\ \A i \in DOMAIN chat : chat[i].ts \in Nat /\ chat[i].ts < now
           /\ \A j \in DOMAIN api : api[j].id \in Nat /\ api[j].ts \in Int /\ api[j].ts <= api[j].id
                                    /\ 0 < api[j].id /\ api[j].id < now
           /\ \A j \in DOMAIN api : IsPlain(api[j]) => api[j].ts = api[j].id
  <1>1. api \in Seq(Messages) /\ HistoryOK(api, reductions, now, made) /\ chat \in Seq(ChatMessages)
    BY DEF TypeInv, HistoryOK, ChatOK
  <1>2. now \in Nat /\ now \in Times
    BY TimesApart DEF TypeInv, Loop
  <1>3. ASSUME NEW i \in DOMAIN chat PROVE chat[i].ts \in Nat /\ chat[i].ts < now
    <2>1. chat[i].ts \in Times /\ chat[i].ts < now
      BY DEF TypeInv, ChatOK, ChatMessageOK
    <2> QED
      BY <2>1, TimesApart
  <1>4. ASSUME NEW j \in DOMAIN api
        PROVE  /\ api[j].id \in Nat /\ api[j].ts \in Int /\ api[j].ts <= api[j].id
               /\ 0 < api[j].id /\ api[j].id < now
               /\ IsPlain(api[j]) => api[j].ts = api[j].id
    <2>1. api[j] \in Messages
      BY <1>1
    <2>2. api[j].id \in Nat /\ api[j].ts \in Int /\ api[j].kind \in {"plain", "summary", "marker"}
      BY <2>1, MessageFields
    <2>3. MessageOK(api[j], reductions, now, made)
      BY <1>1 DEF HistoryOK
    <2> QED
      BY <2>2, <2>3 DEF MessageOK, IsPlain
  <1> QED
    BY <1>1, <1>2, <1>3, <1>4

\* Saving the user's message.
LEMMA AddUserRewinds ==
    ASSUME TypeInv, RewindInv, AddUser
    PROVE  RewindInv'
  <1> DEFINE p == Len(api) + 1
  <1>1. api' = Append(api, UserMessage) /\ pc' = "request" /\ chat' = chat
    BY DEF AddUser
  <1>2. /\ HistoryOK(api, reductions, now, made) /\ api \in Seq(Messages) /\ now \in Times
        /\ reductions \in Int /\ made \in Nat
    BY ChatTimes DEF TypeInv, Loop
  <1>3. Saved(UserMessage, now, made) /\ UserMessage.role = "user"
    BY UserMessageSaved
  <1> SUFFICES ASSUME NEW i \in DOMAIN chat, chat[i].intact
               PROVE  Restorable(api', chat, i) /\ Answered(api', chat[i].ts)
    BY <1>1 DEF RewindInv, Waits
  <1>4. Restorable(api, chat, i) /\ chat[i].ts \in Nat /\ chat[i].ts < now
    BY ChatTimes DEF RewindInv
  <1>5. Grown(api', api, Itself, p, chat[i].ts)
    BY <1>1, <1>2, <1>3, <1>4, AppendGrown
  <1>6. p \in DOMAIN api' /\ api'[p] = UserMessage
    BY <1>1, <1>2
  <1>7. IsPlain(api'[p]) /\ api'[p].role = "user" /\ api'[p].id = now
    BY <1>3, <1>6 DEF Saved
  <1>8. Answered(api', chat[i].ts)
    BY <1>4, <1>6, <1>7 DEF Answered, Later
  <1>9. Continues(chat, chat)
    BY ContinuesSame
  <1> HIDE DEF p
  <1>10. Restorable(api', chat, i)
    <2>1. api'[p].kind # "marker" /\ api'[p].role # "assistant"
      BY <1>7 DEF IsPlain
    <2> QED
      BY <1>4, <1>5, <1>7, <1>8, <1>9, <2>1, GrownRestorable
  <1> QED
    BY <1>8, <1>10

\* The request is sent.
LEMMA StartResponseRewinds ==
    ASSUME RewindInv, StartResponse
    PROVE  RewindInv'
  <1>1. pc = "request" /\ pc' = "stream" /\ UNCHANGED <<api, chat>>
    BY DEF StartResponse
  <1>2. ASSUME NEW i \in DOMAIN chat, chat[i].intact
        PROVE  Restorable(api, chat, i) /\ Answered(api, chat[i].ts)
    BY <1>1, <1>2 DEF RewindInv, Waits
  <1> QED
    BY <1>1, <1>2 DEF RewindInv, Waits

\* Nothing intact.
LEMMA SpoiledRewinds ==
    ASSUME \A i \in DOMAIN chat' : ~ chat'[i].intact
    PROVE  RewindInv'
  BY DEF RewindInv

\* What is not hidden now was seen by now.
LEMMA SeenNow ==
    ASSUME NEW h, NEW d, NEW t \in Nat, NEW k, HistoryOK(h, d, t, k)
    PROVE  /\ Ids(EffectiveHistory(h)) = Selected(Ids(h), SeenThen(h, t))
           /\ \A j \in DOMAIN h : Left(h, t, j)
  <1>1. h \in Seq(Messages) /\ \A j \in DOMAIN h : h[j].id \in Nat /\ h[j].id < t
    <2>1. h \in Seq(Messages) /\ \A j \in DOMAIN h : h[j].id < t
      BY DEF HistoryOK, MessageOK
    <2> QED
      BY <2>1, MessageFields
  <1>2. \A j \in DOMAIN h : Left(h, t, j)
    <2>1. \A u \in DOMAIN h : ~ Later(h, t, u)
      BY <1>1 DEF Later
    <2> QED
      BY <1>1, <2>1 DEF Left
  <1> DEFINE K == {m \in Range(h) : /\ m.condenseParent \notin OfKind(h, "summary")
                                      /\ m.truncationParent \notin OfKind(h, "marker")}
             Seen2(j) == \A x \in DOMAIN h : ~ HiddenBy(h[x], h[j])
  <1>3. \A j \in DOMAIN h : h[j] \in K <=> Seen2(j)
    <2> SUFFICES ASSUME NEW j \in DOMAIN h PROVE h[j] \in K <=> Seen2(j)
      OBVIOUS
    <2>1. h[j] \in Range(h)
      BY DEF Range
    <2>2. h[j].condenseParent \in OfKind(h, "summary")
            <=> \E x \in DOMAIN h : h[x].kind = "summary" /\ h[j].condenseParent = h[x].id
      BY DEF OfKind
    <2>3. h[j].truncationParent \in OfKind(h, "marker")
            <=> \E x \in DOMAIN h : h[x].kind = "marker" /\ h[j].truncationParent = h[x].id
      BY DEF OfKind
    <2> QED
      BY <2>1, <2>2, <2>3 DEF HiddenBy
  <1>4. SeenThen(h, t) = {h[j].id : j \in {y \in DOMAIN h : Seen2(y)}}
    <2>1. {j \in DOMAIN h : Left(h, t, j) /\ \A x \in DOMAIN h : Left(h, t, x) => ~ HiddenBy(h[x], h[j])}
            = {y \in DOMAIN h : Seen2(y)}
      BY <1>2
    <2> QED
      BY <2>1 DEF SeenThen
  <1> HIDE DEF Seen2, K
  <1>5. ASSUME NEW j \in DOMAIN h PROVE h[j] \in K <=> h[j].id \in SeenThen(h, t)
    <2>1. \A x \in DOMAIN h : h[x].id = h[j].id => x = j
      <3> SUFFICES ASSUME NEW x \in DOMAIN h, h[x].id = h[j].id, x # j PROVE FALSE
        OBVIOUS
      <3>1. x \in Nat /\ j \in Nat
        BY <1>1
      <3>2. x < j \/ j < x
        BY <3>1
      <3> QED
        BY <1>1, <3>2 DEF HistoryOK, Distinct
    <2> QED
      BY <1>3, <1>4, <2>1
  <1>6. EffectiveHistory(h) = Selected(h, K)
    BY DEF EffectiveHistory, K
  <1>7. Ids(EffectiveHistory(h)) = Selected(Ids(h), SeenThen(h, t))
    BY <1>1, <1>5, <1>6, IdsSelected
  <1> QED
    BY <1>2, <1>7

\* A tool ends, and a comment may come.
LEMMA RunToolRewinds ==
    ASSUME TypeInv, RewindInv, RunTool
    PROVE  RewindInv'
  <1>1. pc \in {"stream", "tools"} /\ UNCHANGED <<api, pc>>
    BY DEF RunTool
  <1>2. CASE UNCHANGED <<chat, now>>
    BY <1>1, <1>2 DEF RewindInv, Waits
  <1>3. CASE chat' = Append(chat, Feedback) /\ Tick
    <2>1. /\ chat \in Seq(ChatMessages) /\ api \in Seq(Messages) /\ now \in Nat
          /\ Len(chat) \in Nat /\ DOMAIN chat = 1 .. Len(chat)
          /\ \A j \in DOMAIN api : /\ api[j].id \in Nat /\ api[j].ts \in Int
                                   /\ api[j].id < now /\ api[j].ts < now
          /\ HistoryOK(api, reductions, now, made)
      BY ChatTimes
    <2>2. Feedback \in ChatMessages /\ Feedback.ts = now /\ Feedback.before = Ids(EffectiveHistory(api))
      BY <2>1, FeedbackPosted DEF Posted
    <2>3. DOMAIN chat' = 1 .. Len(chat) + 1 /\ chat'[Len(chat) + 1] = Feedback
          /\ \A i \in DOMAIN chat : i \in DOMAIN chat' /\ chat'[i] = chat[i]
      BY <1>3, <2>1, <2>2
    <2> SUFFICES ASSUME NEW i \in DOMAIN chat', chat'[i].intact
                 PROVE  Restorable(api, chat', i) /\ Waits(api, chat'[i].ts)
      BY <1>1 DEF RewindInv, Waits
    <2>4. CASE i \in DOMAIN chat
      <3>1. chat[i].intact /\ chat'[i] = chat[i] /\ Restorable(api, chat, i) /\ Waits(api, chat[i].ts)
        BY <2>3, <2>4 DEF RewindInv
      <3>2. Linked(api, chat', i)
        BY <2>3, <3>1 DEF Restorable, Linked
      <3> QED
        BY <3>1, <3>2 DEF Restorable
    <2>5. CASE i = Len(chat) + 1
      <3>1. chat'[i].ts = now /\ chat'[i].before = Selected(Ids(api), SeenThen(api, now))
        BY <2>1, <2>2, <2>3, <2>5, SeenNow
      <3>2. \A j \in DOMAIN api : ~ (now < api[j].id) /\ ~ (now <= api[j].ts) /\ api[j].ts < now
        BY <2>1
      <3>3. Linked(api, chat', i)
        BY <3>1, <3>2 DEF Linked
      <3>4. MarkedLater(api, now)
        BY <3>2 DEF MarkedLater
      <3>5. MarkedApart(api, now)
        BY <3>2 DEF MarkedApart
      <3>6. Waits(api, now)
        BY <1>1, <3>2 DEF Waits
      <3> QED
        BY <3>1, <3>3, <3>4, <3>5, <3>6 DEF Restorable
    <2> QED
      BY <2>1, <2>3, <2>4, <2>5
  <1> QED
    BY <1>2, <1>3 DEF RunTool

\* Where the last message lies.
LEMMA LastIs ==
    ASSUME TypeInv, api # <<>>
    PROVE  /\ Len(api) \in DOMAIN api /\ Last(api) = api[Len(api)]
           /\ \A t : (\E u \in DOMAIN api : Later(api, t, u)) /\ t \in Nat => t < Last(api).ts
  <1>1. /\ api \in Seq(Messages) /\ Len(api) \in Nat /\ DOMAIN api = 1 .. Len(api)
        /\ InOrder(api)
    BY DEF TypeInv, HistoryOK
  <1>2. Len(api) \in DOMAIN api /\ Last(api) = api[Len(api)]
    BY <1>1 DEF Last
  <1>3. ASSUME NEW t \in Nat, NEW u \in DOMAIN api, Later(api, t, u)
        PROVE  t < Last(api).ts
    <2>1. IsPlain(api[u]) /\ t < api[u].ts /\ api[u].ts \in Int /\ api[Len(api)].ts \in Int
      BY <1>2, <1>3, ChatTimes DEF Later
    <2>2. u < Len(api) => api[u].ts < api[Len(api)].ts
      BY <1>1, <1>2, <2>1 DEF InOrder
    <2>3. u = Len(api) \/ u < Len(api)
      BY <1>1
    <2> QED
      BY <1>2, <2>1, <2>2, <2>3
  <1> QED
    BY <1>2, <1>3

\* Saving the answer, of which the comments made meanwhile come to know.
LEMMA AddAssistantRewinds ==
    ASSUME TypeInv, RewindInv, AddAssistant
    PROVE  RewindInv'
  <1> DEFINE x == Plain("assistant", calls, {})
             p == Len(api) + 1
  <1>1. pc = "stream" /\ api' = Append(api, x) /\ chat' = WithAnswer(chat, Last(api')) /\ pc' = "tools"
    BY DEF AddAssistant
  <1>2. /\ HistoryOK(api, reductions, now, made) /\ api \in Seq(Messages) /\ now \in Times /\ now \in Nat /\ 0 < now
        /\ reductions \in Int /\ made \in Nat /\ calls \in SUBSET Nat /\ calls \subseteq 1 .. made
        /\ api # <<>> /\ chat \in Seq(ChatMessages)
    <2>1. /\ HistoryOK(api, reductions, now, made) /\ api \in Seq(Messages) /\ now \in Times /\ now \in Nat
          /\ chat \in Seq(ChatMessages)
      BY ChatTimes
    <2>2. /\ reductions \in Int /\ made \in Nat /\ calls \subseteq 1 .. made /\ 0 < now /\ api # <<>>
      BY <1>1 DEF TypeInv, Loop
    <2> QED
      BY <2>1, <2>2
  <1>3. Saved(x, now, made) /\ x.role = "assistant"
    BY <1>2, AnswerIs
  <1> HIDE DEF x
  <1>4. x \in Messages /\ x.id = now /\ IsPlain(x)
    BY <1>3 DEF Saved
  <1>5. Last(api') = x /\ p \in DOMAIN api' /\ api'[p] = x
    <2>1. Last(api') = x
      BY <1>1, <1>2, <1>4, LastAppend
    <2> QED
      BY <1>1, <1>2, <1>4, <2>1
  <1>6. /\ SameChat(chat', chat)
        /\ \A i \in DOMAIN chat' :
               chat'[i].before = IF chat[i].kind = "feedback" /\ chat[i].ts > Last(api).ts
                                 THEN Append(chat[i].before, now) ELSE chat[i].before
    <2>1. chat' = WithAnswer(chat, x)
      BY <1>1, <1>5
    <2> QED
      BY <1>2, <1>4, <2>1, WithAnswerDoes
  <1> SUFFICES ASSUME NEW i \in DOMAIN chat', chat'[i].intact
               PROVE  Restorable(api', chat', i)
    BY <1>1 DEF RewindInv, Waits
  <1> DEFINE t == chat[i].ts
  <1>7. i \in DOMAIN chat /\ chat[i].intact /\ chat'[i].ts = t /\ \A l \in DOMAIN chat : chat'[l].event = chat[l].event
    BY <1>6 DEF SameChat
  <1>8. Restorable(api, chat, i) /\ Waits(api, t) /\ t \in Nat /\ t < now /\ chat[i].kind = "feedback"
    <2>1. Restorable(api, chat, i) /\ Waits(api, t) /\ t \in Nat /\ t < now
      BY <1>7, ChatTimes DEF RewindInv
    <2> QED
      BY <1>7, <2>1 DEF TypeInv, ChatOK, ChatMessageOK
  <1>9. Grown(api', api, Itself, p, t)
    BY <1>1, <1>2, <1>3, <1>8, AppendGrown
  <1> HIDE DEF p
  <1>10. Linked(api', chat', i)
    <2> SUFFICES ASSUME NEW j \in DOMAIN api', ~ IsPlain(api'[j]), t < api'[j].id
                 PROVE  \E l \in DOMAIN chat' : i < l /\ chat'[l].event = api'[j].id
      BY <1>7 DEF Linked
    <2>1. j # p
      BY <1>4, <1>5
    <2>2. Itself[j] \in DOMAIN api /\ ~ IsPlain(api[Itself[j]]) /\ api[Itself[j]].id = api'[j].id
      BY <1>8, <1>9, <2>1, GrownLater DEF Same, IsPlain
    <2>3. PICK l \in DOMAIN chat : i < l /\ chat[l].event = api[Itself[j]].id
      BY <1>8, <2>2 DEF Restorable, Linked
    <2> QED
      BY <1>6, <1>7, <2>2, <2>3 DEF SameChat
  <1>11. CASE Answered(api, t)
    <2>1. ~ (chat[i].ts > Last(api).ts)
      <3>1. t < Last(api).ts /\ Last(api).ts \in Int
        BY <1>2, <1>8, <1>11, LastIs, ChatTimes DEF Answered
      <3> QED
        BY <1>8, <3>1
    <2>2. chat'[i].before = chat[i].before
      BY <1>6, <2>1
    <2>3. Answered(api', t)
      BY <1>8, <1>9, <1>11, GrownAnswered
    <2>4. Selected(Ids(api'), SeenThen(api', t)) = Selected(Ids(api), SeenThen(api, t))
      BY <1>8, <1>9, <2>3, GrownKept
    <2>5. MarkedLater(api', t) /\ MarkedApart(api', t)
      <3>1. api'[p].kind # "marker"
        BY <1>4, <1>5 DEF IsPlain
      <3> QED
        BY <1>8, <1>9, <1>11, <3>1, GrownMarked DEF Restorable
    <2> QED
      BY <1>7, <1>8, <1>10, <2>2, <2>4, <2>5 DEF Restorable
  <1>12. CASE ~ Answered(api, t)
    <2>1. \A j \in DOMAIN api : api[j].ts < t
      BY <1>1, <1>8, <1>12 DEF Waits
    <2>2. chat'[i].before = Append(chat[i].before, now)
      <3>1. Last(api).ts < t /\ Last(api).ts \in Int
        BY <1>2, <2>1, LastIs, ChatTimes
      <3> QED
        BY <1>6, <1>7, <1>8, <3>1
    <2>3. ~ Answered(api', t)
      <3> SUFFICES ASSUME NEW u \in DOMAIN api', Later(api', t, u) PROVE FALSE
        BY DEF Answered
      <3>1. CASE u = p
        BY <1>3, <1>5, <3>1 DEF Later
      <3>2. CASE u # p
        <4>1. Itself[u] \in DOMAIN api /\ Later(api, t, Itself[u])
          BY <1>8, <1>9, <3>2, GrownLater
        <4> QED
          BY <1>12, <4>1 DEF Answered
      <3> QED
        BY <3>1, <3>2
    <2>4. SeenThen(api', t) = SeenThen(api, t) \cup {now}
      <3>1. SeenThen(api', t) = SeenThen(api, t) \cup {n \in {api'[p].id} : IsPlain(api'[p]) /\ ~ Answered(api', t)}
        BY <1>8, <1>9, GrownSeen
      <3> QED
        BY <1>4, <1>5, <2>3, <3>1
    <2>5. Selected(Ids(api'), SeenThen(api', t)) = Append(Selected(Ids(api), SeenThen(api, t)), now)
      <3> DEFINE q == Ids(api)
                 L == SeenThen(api, t)
                 M == SeenThen(api', t)
      <3>1. q \in Seq(Nat) /\ Ids(api') = Append(q, now) /\ Len(q) = Len(api)
            /\ \A j \in 1 .. Len(api) : q[j] = api[j].id
        BY <1>1, <1>2, <1>4, IdsIs
      <3>2. \A y \in ToSet(q) : y # now
        <4> SUFFICES ASSUME NEW j \in DOMAIN q PROVE q[j] # now
          BY DEF ToSet
        <4>1. j \in 1 .. Len(api) /\ j \in DOMAIN api
          BY <1>2, <3>1
        <4>2. api[j].id < now /\ api[j].id \in Nat
          BY <4>1, ChatTimes
        <4> QED
          BY <1>2, <3>1, <4>1, <4>2
      <3> HIDE DEF q, L
      <3>3. M = L \cup {now}
        BY <2>4 DEF L
      <3> HIDE DEF M
      <3>4. Selected(Append(q, now), M) = Append(Selected(q, M), now)
        <4>1. now \in M
          BY <3>3
        <4> QED
          BY <1>2, <3>1, <4>1, SelectedAppend
      <3>5. Selected(q, M) = Selected(q, L)
        <4>1. \A y \in ToSet(q) : y \in M <=> y \in L
          BY <3>2, <3>3
        <4> QED
          BY <3>1, <4>1, SelectedAgree
      <3> QED
        BY <3>1, <3>4, <3>5 DEF q, L, M
    <2>6. MarkedLater(api', t)
      <3> SUFFICES ASSUME NEW j \in DOMAIN api', api'[j].kind = "marker", t < api'[j].id
                   PROVE  FALSE
        BY DEF MarkedLater
      <3>1. j # p
        BY <1>4, <1>5 DEF IsPlain
      <3>2. Itself[j] \in DOMAIN api /\ api[Itself[j]].kind = "marker" /\ api[Itself[j]].id = api'[j].id
        BY <1>8, <1>9, <3>1, GrownLater DEF Same
      <3>3. \E u \in DOMAIN api : Later(api, t, u)
        BY <1>8, <3>2 DEF Restorable, MarkedLater
      <3> QED
        BY <1>12, <3>3 DEF Answered
    <2>7. MarkedApart(api', t)
      <3> SUFFICES ASSUME NEW j \in DOMAIN api', api'[j].kind = "marker", t <= api'[j].ts
                   PROVE  FALSE
        BY DEF MarkedApart
      <3>1. j # p
        BY <1>4, <1>5 DEF IsPlain
      <3>2. Itself[j] \in DOMAIN api /\ api[Itself[j]].ts = api'[j].ts
        BY <1>8, <1>9, <3>1, GrownLater DEF Same
      <3>3. api[Itself[j]].ts < t /\ api[Itself[j]].ts \in Int
        BY <2>1, <3>2, ChatTimes
      <3> QED
        BY <1>8, <3>2, <3>3
    <2> QED
      BY <1>7, <1>8, <1>10, <2>2, <2>5, <2>6, <2>7 DEF Restorable
  <1> QED
    BY <1>11, <1>12

\* A condensation, of whose summary the chat has the id.
LEMMA CondensedRewinds ==
    ASSUME TypeInv, RewindInv, CanCondense(api), api' = Condensed(api), pc' = pc,
           chat' = Append(chat, Event("condensed"))
    PROVE  RewindInv'
  <1> DEFINE p == KeepStart(api) + 1
  <1>1. HistoryOK(api, reductions, now, made) /\ now \in Nat /\ api \in Seq(Messages) /\ chat \in Seq(ChatMessages)
    BY ChatTimes
  <1> DEFINE e == Event("condensed")
  <1>2. e \in ChatMessages /\ ~ e.intact /\ e.event = now
    <2>1. Posted(e, now) /\ e.kind = "condensed" /\ e.event = now
      BY <1>1, EventPosted
    <2> QED
      BY <2>1 DEF Posted
  <1> HIDE DEF e
  <1>3. /\ Continues(chat', chat) /\ Len(chat) \in Nat
        /\ DOMAIN chat' = 1 .. Len(chat) + 1 /\ chat'[Len(chat) + 1] = e
        /\ \A i \in DOMAIN chat' : chat'[i].intact => i \in 1 .. Len(chat) /\ chat[i].intact
    <2>1. chat' = Append(chat, e) /\ SameChat(chat, chat) /\ \A i \in DOMAIN chat : chat[i].before = chat[i].before
      BY <1>1, SameChatReflexive DEF e
    <2> QED
      BY <1>1, <1>2, <2>1, ContinuesAppend
  <1>4. SummariesAnswer(api)
    BY <1>1, SummariesAnswerOK
  <1>5. /\ p \in DOMAIN api' /\ p \in DOMAIN api
        /\ api'[p].id = now /\ api'[p].kind = "summary" /\ api'[p].ts = api[p].ts - 1
        /\ \A i \in DOMAIN api' : i # p => \E q \in DOMAIN api : Same(api'[i], api[q])
    <2>1. /\ Derived(api', api, Shift(p), p)
          /\ DOMAIN api' = 1 .. Len(api) + 1 /\ p \in 2 .. Len(api) /\ api'[p] = Summary(api)
      BY <1>1, <1>4, CondensedDoes
    <2>2. Summary(api).id = now /\ Summary(api).kind = "summary" /\ Summary(api).ts = api[p].ts - 1
      BY <1>1, <1>4, SummaryIs
    <2> HIDE DEF p
    <2>3. p \in DOMAIN api' /\ p \in DOMAIN api
      BY <1>1, <2>1
    <2> QED
      BY <2>1, <2>2, <2>3 DEF Derived
  <1> SUFFICES ASSUME NEW i \in DOMAIN chat', chat'[i].intact
               PROVE  /\ Restorable(api', chat', i)
                      /\ pc' = "request" => Answered(api', chat'[i].ts)
                      /\ pc' = "stream" => \/ Answered(api', chat'[i].ts)
                                           \/ \A j \in DOMAIN api' : api'[j].ts < chat'[i].ts
    BY DEF RewindInv, Waits
  <1> DEFINE t == chat[i].ts
  <1>6. i \in 1 .. Len(chat) /\ i \in DOMAIN chat /\ chat[i].intact /\ chat'[i].ts = t
    BY <1>3 DEF Continues
  <1>7. Restorable(api, chat, i) /\ Waits(api, t) /\ t \in Nat /\ t < now
    BY <1>6, ChatTimes DEF RewindInv
  <1>8. Grown(api', api, Shift(p), p, t)
    BY <1>1, <1>7, CondensedGrown
  <1> HIDE DEF p
  <1>9. Restorable(api', chat', i) /\ (Answered(api, t) => Answered(api', t))
    <2>1. ~ IsPlain(api'[p]) /\ api'[p].kind # "marker"
      BY <1>5 DEF IsPlain
    <2>2. \E l \in DOMAIN chat' : i < l /\ chat'[l].event = api'[p].id
      BY <1>2, <1>3, <1>5, <1>6
    <2> QED
      BY <1>3, <1>7, <1>8, <2>1, <2>2, GrownRestorable
  <1>10. (\A j \in DOMAIN api : api[j].ts < t) => \A j \in DOMAIN api' : api'[j].ts < t
    <2> SUFFICES ASSUME \A j \in DOMAIN api : api[j].ts < t, NEW j \in DOMAIN api' PROVE api'[j].ts < t
      OBVIOUS
    <2>1. CASE j = p
      <3>1. api[p].ts < t /\ api[p].ts \in Int
        BY <1>5, ChatTimes
      <3> QED
        BY <1>5, <1>7, <2>1, <3>1
    <2>2. CASE j # p
      BY <1>5, <2>2 DEF Same
    <2> QED
      BY <2>1, <2>2
  <1> QED
    BY <1>6, <1>7, <1>9, <1>10 DEF Waits

\* Before a request.
LEMMA CondenseBeforeRequestRewinds ==
    ASSUME TypeInv, RewindInv, CondenseBeforeRequest
    PROVE  RewindInv'
  BY CondensedRewinds DEF CondenseBeforeRequest, Reduces

\* By hand: the history is the one it was begun with, or nothing is intact.
LEMMA EndManualRewinds ==
    ASSUME TypeInv, RewindInv, EndManual
    PROVE  RewindInv'
  <1>1. /\ pc' = pc
        /\ \/ /\ CanCondense(manual) /\ api' = Condensed(manual)
              /\ chat' = Append(IF api = manual THEN chat ELSE AllSpoiled(chat), Event("condensed"))
           \/ UNCHANGED <<api, chat>>
    BY DEF EndManual
  <1>2. CASE UNCHANGED <<api, chat>>
    BY <1>1, <1>2 DEF RewindInv, Waits
  <1>3. CASE /\ CanCondense(manual) /\ api' = Condensed(manual)
             /\ chat' = Append(IF api = manual THEN chat ELSE AllSpoiled(chat), Event("condensed"))
    <2>1. CASE api = manual
      BY <1>1, <1>3, <2>1, CondensedRewinds
    <2>2. CASE api # manual
      <3> DEFINE c == AllSpoiled(chat)
                 e == Event("condensed")
      <3>1. chat' = Append(c, e)
        BY <1>3, <2>2
      <3>2. chat \in Seq(ChatMessages) /\ now \in Nat
        BY ChatTimes
      <3>3. SameChat(c, chat) /\ \A i \in DOMAIN c : ~ c[i].intact
        BY <3>2, AllSpoiledDoes
      <3>4. e \in ChatMessages /\ ~ e.intact
        <4>1. Posted(e, now) /\ e.kind = "condensed"
          BY <3>2, EventPosted
        <4> QED
          BY <4>1 DEF Posted
      <3> HIDE DEF c, e
      <3>5. c \in Seq(ChatMessages)
        BY <3>3 DEF SameChat
      <3>6. \A i \in DOMAIN chat' : ~ chat'[i].intact
        BY <3>1, <3>3, <3>4, <3>5
      <3> QED
        BY <3>6, SpoiledRewinds
    <2> QED
      BY <2>1, <2>2
  <1> QED
    BY <1>1, <1>2, <1>3

\* The actions that leave nothing intact.
LEMMA AllSpoiledRewinds ==
    ASSUME TypeInv, chat' = AllSpoiled(chat)
    PROVE  RewindInv'
  <1>1. chat \in Seq(ChatMessages)
    BY ChatTimes
  <1> QED
    BY <1>1, AllSpoiledDoes, SpoiledRewinds

\* Taking condensations back,
LEMMA UncondenseRewinds ==
    ASSUME TypeInv, RewindInv, Uncondense
    PROVE  RewindInv'
  BY AllSpoiledRewinds DEF Uncondense

\* and condensing when the context is full.
LEMMA CondenseOverWindowRewinds ==
    ASSUME TypeInv, RewindInv, CondenseOverWindow
    PROVE  RewindInv'
  <1> DEFINE c == AllSpoiled(chat)
             e == [Event("condensed") EXCEPT !.event = None]
  <1>1. chat' = Append(c, e)
    BY DEF CondenseOverWindow
  <1>2. chat \in Seq(ChatMessages) /\ now \in Nat
    BY ChatTimes
  <1>3. SameChat(c, chat) /\ \A i \in DOMAIN c : ~ c[i].intact
    BY <1>2, AllSpoiledDoes
  <1>4. e \in ChatMessages
    BY <1>2, EventPosted DEF Posted
  <1>5. ~ e.intact
    BY DEF Event
  <1> HIDE DEF c, e
  <1>6. c \in Seq(ChatMessages)
    BY <1>3 DEF SameChat
  <1>7. \A i \in DOMAIN chat' : ~ chat'[i].intact
    BY <1>1, <1>3, <1>4, <1>5, <1>6
  <1> QED
    BY <1>7, SpoiledRewinds

\* A condensation by hand saves the results at hand.
LEMMA BeginManualRewinds ==
    ASSUME TypeInv, RewindInv, BeginManual
    PROVE  RewindInv'
  <1> DEFINE p == Len(api) + 1
  <1>1. /\ api' = (IF pending = {} THEN api ELSE Append(api, UserMessage))
        /\ chat' = chat /\ pc' = pc
    BY DEF BeginManual, Reduces
  <1>2. CASE pending = {}
    BY <1>1, <1>2 DEF RewindInv, Waits
  <1>3. CASE pending # {}
    <2>1. api' = Append(api, UserMessage)
      BY <1>1, <1>3
    <2>2. /\ HistoryOK(api, reductions, now, made) /\ api \in Seq(Messages) /\ now \in Times
          /\ reductions \in Int /\ made \in Nat
      BY ChatTimes DEF TypeInv, Loop
    <2>3. Saved(UserMessage, now, made) /\ UserMessage.role = "user"
      BY UserMessageSaved
    <2> SUFFICES ASSUME NEW i \in DOMAIN chat, chat[i].intact
                 PROVE  Restorable(api', chat, i) /\ Answered(api', chat[i].ts)
      BY <1>1 DEF RewindInv, Waits
    <2>4. Restorable(api, chat, i) /\ chat[i].ts \in Nat /\ chat[i].ts < now
      BY ChatTimes DEF RewindInv
    <2>5. Grown(api', api, Itself, p, chat[i].ts)
      BY <2>1, <2>2, <2>3, <2>4, AppendGrown
    <2>6. p \in DOMAIN api' /\ api'[p] = UserMessage
      BY <2>1, <2>2
    <2>7. IsPlain(api'[p]) /\ api'[p].role = "user" /\ api'[p].id = now
      BY <2>3, <2>6 DEF Saved
    <2>8. Answered(api', chat[i].ts)
      BY <2>4, <2>6, <2>7 DEF Answered, Later
    <2>9. Continues(chat, chat)
      BY ContinuesSame
    <2> HIDE DEF p
    <2>10. api'[p].kind # "marker" /\ api'[p].role # "assistant"
      BY <2>7 DEF IsPlain
    <2> QED
      BY <2>4, <2>5, <2>7, <2>8, <2>9, <2>10, GrownRestorable
  <1> QED
    BY <1>2, <1>3

\* Where a marker was put that did not spoil a comment.
LEMMA MarkerApart ==
    ASSUME TypeInv, NEW t \in Nat, \A j \in DOMAIN api : api[j].id # t,
           MarkedApart(api, t), NEW p \in DOMAIN api, t < api[p].ts,
           ~ (/\ api[p].role = "assistant" /\ t < api[p].ts
              /\ \A j \in 1 .. p - 1 : api[j].ts >= t => api[j].role = "assistant"),
           NEW r \in DOMAIN api, p <= r, IsPlain(api[r]), api[r].role = "assistant"
    PROVE  \E u \in DOMAIN api : Later(api, t, u) /\ api[u].id < api[r].id
  <1>1. /\ api \in Seq(Messages) /\ InOrder(api) /\ DOMAIN api = 1 .. Len(api) /\ Len(api) \in Nat
        /\ \A j \in DOMAIN api : api[j].id \in Nat /\ api[j].ts \in Int /\ (IsPlain(api[j]) => api[j].ts = api[j].id)
    BY ChatTimes DEF HistoryOK
  <1>2. PICK j \in DOMAIN api : j <= p /\ t <= api[j].ts /\ api[j].role # "assistant"
    <2>1. CASE api[p].role = "assistant"
      <3>1. PICK j \in 1 .. p - 1 : ~ (api[j].ts >= t => api[j].role = "assistant")
        BY <2>1
      <3>2. j \in DOMAIN api /\ j <= p /\ api[j].ts \in Int
        BY <1>1
      <3> QED
        BY <3>1, <3>2
    <2>2. CASE api[p].role # "assistant"
      <3>1. api[p].ts \in Int /\ p <= p
        BY <1>1
      <3>2. t <= api[p].ts
        BY <3>1
      <3> QED
        BY <2>2, <3>1, <3>2
    <2> QED
      BY <2>1, <2>2
  <1>3. j < r
    <2>1. j # r
      BY <1>2
    <2> QED
      BY <1>1, <1>2, <2>1
  <1>4. CASE IsPlain(api[j])
    <2>1. api[j].ts = api[j].id /\ api[j].id # t /\ api[j].id \in Nat
      BY <1>1, <1>4
    <2>2. api[j].role = "user"
      <3>1. api[j] \in Messages
        BY <1>1
      <3> QED
        BY <1>2, <3>1, MessageFields
    <2>3. Later(api, t, j)
      BY <1>2, <1>4, <2>1, <2>2 DEF Later
    <2>4. api[j].ts < api[r].ts /\ api[r].ts = api[r].id
      BY <1>1, <1>3, <1>4 DEF InOrder
    <2> QED
      BY <2>1, <2>3, <2>4
  <1>5. CASE ~ IsPlain(api[j])
    <2>1. api[j].kind = "marker"
      <3>1. MessageOK(api[j], reductions, now, made) /\ api[j] \in Messages
        BY <1>1, ChatTimes DEF HistoryOK
      <3> QED
        BY <1>2, <1>5, <3>1, MessageFields DEF MessageOK, IsPlain
    <2> QED
      BY <1>2, <1>3, <2>1 DEF MarkedApart
  <1> QED
    BY <1>4, <1>5

\* A truncation, of whose marker the chat has the id, or which leaves nothing intact.
LEMMA TruncateRewinds ==
    ASSUME TypeInv, RewindInv, Truncate
    PROVE  RewindInv'
  <1> DEFINE p == MarkerAt(api)
             b == SpoiledByMarker(chat, api, p)
             e == Event("truncated")
  <1>1. /\ pc = "request" /\ pc' = pc /\ api' = Truncated(api)
        /\ chat' = Append(b, e) \/ chat' = AllSpoiled(chat)
    BY DEF Truncate, Reduces
  <1>2. CASE chat' = AllSpoiled(chat)
    BY <1>2, AllSpoiledRewinds
  <1>3. CASE chat' = Append(b, e)
    <2>1. HistoryOK(api, reductions, now, made) /\ now \in Nat /\ api \in Seq(Messages) /\ chat \in Seq(ChatMessages)
      BY ChatTimes
    <2>2. e \in ChatMessages /\ ~ e.intact /\ e.event = now
      <3>1. Posted(e, now) /\ e.kind = "truncated" /\ e.event = now
        BY <2>1, EventPosted
      <3> QED
        BY <3>1 DEF Posted
    <2>3. SameChat(b, chat) /\ \A i \in DOMAIN b : b[i].before = chat[i].before
      BY <2>1, SpoiledByMarkerSame
    <2> HIDE DEF e, b
    <2>4. /\ Continues(chat', chat) /\ Len(chat) \in Nat
          /\ DOMAIN chat' = 1 .. Len(chat) + 1 /\ chat'[Len(chat) + 1] = e
          /\ \A i \in DOMAIN chat' : chat'[i].intact => i \in 1 .. Len(chat) /\ b[i].intact
      BY <1>3, <2>1, <2>2, <2>3, ContinuesAppend
    <2> SUFFICES ASSUME NEW i \in DOMAIN chat', chat'[i].intact
                 PROVE  Restorable(api', chat', i) /\ Answered(api', chat'[i].ts)
      BY <1>1 DEF RewindInv, Waits
    <2> DEFINE t == chat[i].ts
    <2>5. i \in 1 .. Len(chat) /\ i \in DOMAIN chat /\ chat[i].intact /\ chat'[i].ts = t /\ b[i].intact
      BY <2>4 DEF Continues
    <2>6. Restorable(api, chat, i) /\ Answered(api, t) /\ t \in Nat /\ t < now
      BY <1>1, <2>5, ChatTimes DEF RewindInv, Waits
    <2>7. CASE api' = api
      BY <2>4, <2>5, <2>6, <2>7, RestorableContinues
    <2>8. CASE api' # api
      <3>1. /\ Grown(api', api, Shift(p), p, t)
            /\ p \in 2 .. Len(api) /\ DOMAIN api' = 1 .. Len(api) + 1 /\ api'[p] = Marker(api, p)
            /\ \A j \in DOMAIN api' : j < p => Shift(p)[j] = j
            /\ \A j \in DOMAIN api' : j > p => Shift(p)[j] = j - 1
        BY <1>1, <2>1, <2>6, <2>8, TruncatedGrown
      <3> HIDE DEF p
      <3>2. p \in 1 .. Len(api) /\ p \in DOMAIN api /\ p \in Nat /\ Len(api) \in Nat
        BY <2>1, <3>1
      <3>3. api'[p].id = now /\ api'[p].kind = "marker" /\ api'[p].ts = api[p].ts - 1
        <4>1. Marker(api, p).id = now /\ Marker(api, p).kind = "marker" /\ Marker(api, p).ts = api[p].ts - 1
          BY <2>1, <3>2, MarkerIs
        <4> QED
          BY <3>1, <4>1
      <3>4. ~ (/\ api[p].role = "assistant" /\ t < api[p].ts
               /\ \A j \in 1 .. p - 1 : api[j].ts >= t => api[j].role = "assistant")
        <4>1. b = SpoiledByMarker(chat, api, p)
          BY DEF b
        <4> QED
          BY <2>1, <2>3, <2>5, <3>2, <4>1, SpoiledByMarkerDoes DEF SameChat
      <3>5. \A j \in DOMAIN api : api[j].id # t
        BY <2>5 DEF TypeInv, CommentsApart, ChatOK, ChatMessageOK
      <3>6. ASSUME t <= api'[p].ts, NEW r \in DOMAIN api', p < r, IsPlain(api'[r]), api'[r].role = "assistant"
            PROVE  \E u \in DOMAIN api' : Later(api', t, u) /\ api'[u].id < api'[r].id
        <4>1. t < api[p].ts
          <5>1. api[p].ts \in Int
            BY <3>2, ChatTimes
          <5> QED
            BY <2>6, <3>3, <3>6, <5>1
        <4>2. /\ Shift(p)[r] = r - 1 /\ r - 1 \in DOMAIN api /\ p <= r - 1
          BY <2>1, <3>1, <3>2, <3>6
        <4>3. IsPlain(api[r - 1]) /\ api[r - 1].role = "assistant" /\ api[r - 1].id = api'[r].id
          <5>1. r # p
            BY <3>2, <3>6
          <5>2. Same(api'[r], api[Shift(p)[r]])
            <6>1. Derived(api', api, Shift(p), p)
              BY <3>1 DEF Grown
            <6> QED
              BY <5>1, <6>1 DEF Derived
          <5> QED
            BY <3>6, <4>2, <5>2 DEF Same, IsPlain
        <4>4. PICK q \in DOMAIN api : Later(api, t, q) /\ api[q].id < api[r - 1].id
          <5> DEFINE s == r - 1
          <5>1. s \in DOMAIN api /\ p <= s /\ IsPlain(api[s]) /\ api[s].role = "assistant"
            BY <4>2, <4>3
          <5> HIDE DEF s
          <5>2. \E q \in DOMAIN api : Later(api, t, q) /\ api[q].id < api[s].id
            BY <2>6, <3>2, <3>4, <3>5, <4>1, <5>1, MarkerApart DEF Restorable
          <5> QED
            BY <5>2 DEF s
        <4>5. PICK u \in DOMAIN api' : Later(api', t, u) /\ api'[u].id = api[q].id
          BY <2>6, <3>1, <4>4, GrownAnswered
        <4> QED
          BY <4>3, <4>4, <4>5
      <3>7. ~ IsPlain(api'[p])
        BY <3>3 DEF IsPlain
      <3>8. \E l \in DOMAIN chat' : i < l /\ chat'[l].event = api'[p].id
        BY <2>2, <2>4, <2>5, <3>3
      <3>9. Restorable(api', chat', i) /\ (Answered(api, t) => Answered(api', t))
        BY <2>4, <2>6, <3>1, <3>6, <3>7, <3>8, GrownRestorable
      <3> QED
        BY <2>5, <2>6, <3>9
    <2> QED
      BY <2>7, <2>8
  <1> QED
    BY <1>1, <1>2, <1>3

\* What is selected when everything is,
LEMMA SelectedAll ==
    ASSUME NEW S, NEW K, NEW s \in Seq(S), ToSet(s) \subseteq K
    PROVE  Selected(s, K) = s
  <1> DEFINE Q == {q \in Seq(S) : ToSet(q) \subseteq K => Selected(q, K) = q}
  <1>1. <<>> \in Q
    BY SelectedEmpty
  <1>2. ASSUME NEW q \in Seq(S), NEW x \in S, q \in Q
        PROVE  Append(q, x) \in Q
    <2>1. ToSet(Append(q, x)) = ToSet(q) \cup {x}
      BY ToSetAppend
    <2>2. Selected(Append(q, x), K) = IF x \in K THEN Append(Selected(q, K), x) ELSE Selected(q, K)
      BY SelectedAppend
    <2>3. Append(q, x) \in Seq(S)
      OBVIOUS
    <2> QED
      BY <1>2, <2>1, <2>2, <2>3
  <1> HIDE DEF Q
  <1>3. Seq(S) \subseteq Q
    BY <1>1, <1>2, SeqInduction
  <1> QED
    BY <1>3 DEF Q

\* and when what is in K comes first.
LEMMA SelectedFirst ==
    ASSUME NEW S, NEW K, NEW s \in Seq(S), NEW m \in 0 .. Len(s),
           \A j \in 1 .. Len(s) : s[j] \in K <=> j <= m
    PROVE  Selected(s, K) = SubSeq(s, 1, m)
  <1> DEFINE a == SubSeq(s, 1, m)
             b == SubSeq(s, m + 1, Len(s))
  <1>1. Len(s) \in Nat /\ m \in Nat /\ m <= Len(s)
    OBVIOUS
  <1>2. /\ a \in Seq(S) /\ Len(a) = m /\ \A j \in 1 .. m : a[j] = s[j]
        /\ b \in Seq(S) /\ Len(b) = Len(s) - m /\ \A j \in 1 .. Len(s) - m : b[j] = s[m + j]
    BY <1>1
  <1> HIDE DEF a, b
  <1>3. s = a \o b
    <2>1. a \o b \in Seq(S) /\ Len(a \o b) = Len(s)
      BY <1>1, <1>2
    <2>2. ASSUME NEW j \in 1 .. Len(s) PROVE (a \o b)[j] = s[j]
      <3>1. CASE j <= m
        BY <1>1, <1>2, <3>1
      <3>2. CASE ~ (j <= m)
        <4>0. j > m
          BY <1>1, <3>2
        <4>1. j - m \in 1 .. Len(s) - m /\ m + (j - m) = j
          BY <1>1, <4>0
        <4>2. (a \o b)[j] = b[j - m]
          BY <1>1, <1>2, <4>0
        <4>3. b[j - m] = s[m + (j - m)]
          BY <1>2, <4>1
        <4> QED
          BY <4>1, <4>2, <4>3
      <3> QED
        BY <3>1, <3>2
    <2> QED
      BY <2>1, <2>2, SeqEqual
  <1>4. ToSet(a) \subseteq K
    <2> SUFFICES ASSUME NEW j \in DOMAIN a PROVE a[j] \in K
      BY DEF ToSet
    <2>1. j \in 1 .. m /\ j \in 1 .. Len(s)
      BY <1>1, <1>2
    <2> QED
      BY <1>2, <2>1
  <1>5. ToSet(b) \cap K = {}
    <2> SUFFICES ASSUME NEW j \in DOMAIN b, b[j] \in K PROVE FALSE
      BY DEF ToSet
    <2>1. j \in 1 .. Len(s) - m /\ m + j \in 1 .. Len(s)
      BY <1>1, <1>2
    <2>2. s[m + j] \in K
      BY <1>2, <2>1
    <2> QED
      BY <1>1, <2>1, <2>2
  <1>6. Selected(a, K) = a
    BY <1>2, <1>4, SelectedAll
  <1>7. Selected(b, K) = <<>>
    <2>1. Selected(b, K) \in Seq(S) /\ ToSet(Selected(b, K)) = {}
      BY <1>2, <1>5, SelectedSeq, SelectedElements
    <2>2. ASSUME Selected(b, K) # <<>> PROVE FALSE
      BY <2>1, <2>2, LastElement
    <2> QED
      BY <2>2
  <1>8. Selected(s, K) = a \o <<>>
    <2>1. Selected(a \o b, K) = Selected(a, K) \o Selected(b, K)
      BY <1>2, SelectedConcat
    <2> QED
      BY <1>3, <1>6, <1>7, <2>1
  <1>9. a \o <<>> = a
    BY <1>2
  <1> QED
    BY <1>8, <1>9 DEF a

\* Initially each comment can be gone back to.
LEMMA RewindInit == Init => RewindInv
  <1> SUFFICES ASSUME Init PROVE RewindInv
    OBVIOUS
  <1>1. PICK n \in StartTurns : api = StartHistory(n) /\ chat = StartChat(n)
    BY DEF Init
  <1>2. n \in Nat /\ pc = "tools"
    BY HistoryAssumption DEF Init, HistoryAssumption
  <1> DEFINE h == StartHistory(n)
             c == StartChat(n)
  <1>3. /\ h \in Seq(Messages) /\ Len(h) = 2 * n /\ DOMAIN h = 1 .. 2 * n
        /\ \A i \in 1 .. 2 * n :
             /\ h[i].kind = "plain" /\ h[i].id = Gap * Turn(i)
             /\ h[i].role = IF i % 2 = 1 THEN "user" ELSE "assistant"
    BY <1>2, StartDoes
  <1>4. /\ DOMAIN c = 1 .. n - 1
        /\ \A i \in 1 .. n - 1 : c[i].ts = Gap * (3 * i) /\ c[i].before = Ids(SubSeq(h, 1, 2 * i))
    BY <1>2, StartChatIs
  <1> SUFFICES ASSUME NEW i \in DOMAIN chat PROVE Restorable(h, c, i)
    BY <1>1, <1>2 DEF RewindInv, Waits
  <1> HIDE DEF h, c
  <1>5. i \in 1 .. n - 1 /\ 3 * i \in Nat /\ 2 * i + 1 \in 1 .. 2 * n /\ 2 * i \in 0 .. 2 * n /\ 2 * i \in 1 .. 2 * n
    <2>1. i \in 1 .. n - 1
      BY <1>1, <1>4 DEF c
    <2> QED
      BY <1>2, <2>1
  <1> DEFINE t == Gap * (3 * i)
  <1>6. c[i].ts = t /\ t \in Nat
    BY <1>4, <1>5, GapTimes
  <1> HIDE DEF t
  <1>7. ASSUME NEW j \in 1 .. 2 * n
        PROVE  h[j].id \in Nat /\ IF j <= 2 * i THEN h[j].id < t ELSE t < h[j].id /\ h[2 * i + 1].id <= h[j].id
    <2>1. Turn(j) \in Nat /\ Turn(2 * i + 1) \in Nat
      BY <1>2, <1>5, TurnOrder
    <2>2. Turn(2 * i) = 3 * i - 1 /\ Turn(2 * i + 1) = 3 * i + 1
      BY <1>5 DEF Turn
    <2>3. IF j <= 2 * i THEN Turn(j) < 3 * i ELSE 3 * i < Turn(j) /\ (j = 2 * i + 1 \/ Turn(2 * i + 1) < Turn(j))
      <3>1. j < 2 * i => Turn(j) < Turn(2 * i)
        BY <1>2, <1>5, TurnOrder
      <3>2. 2 * i + 1 < j => Turn(2 * i + 1) < Turn(j)
        BY <1>2, <1>5, TurnOrder
      <3> QED
        BY <1>2, <1>5, <2>1, <2>2, <3>1, <3>2
    <2>4. Gap * Turn(j) \in Nat /\ Gap * Turn(2 * i + 1) \in Nat
      BY <2>1, GapTimes
    <2>5. IF j <= 2 * i THEN Gap * Turn(j) < t
          ELSE t < Gap * Turn(j) /\ Gap * Turn(2 * i + 1) <= Gap * Turn(j)
      <3>1. \A a, b \in Nat : a < b => Gap * a < Gap * b
        BY GapTimes
      <3>2. CASE j <= 2 * i
        BY <1>5, <2>1, <2>3, <3>1, <3>2 DEF t
      <3>3. CASE ~ (j <= 2 * i)
        <4>1. t < Gap * Turn(j)
          BY <1>5, <2>1, <2>3, <3>1, <3>3 DEF t
        <4>2. Gap * Turn(2 * i + 1) <= Gap * Turn(j)
          <5>1. CASE j = 2 * i + 1
            BY <2>4, <5>1
          <5>2. CASE Turn(2 * i + 1) < Turn(j)
            <6>1. Gap * Turn(2 * i + 1) < Gap * Turn(j)
              BY <2>1, <3>1, <5>2
            <6> QED
              BY <2>4, <6>1
          <5> QED
            BY <2>3, <3>3, <5>1, <5>2
        <4> QED
          BY <3>3, <4>1, <4>2
      <3> QED
        BY <3>2, <3>3
    <2>6. h[j].id = Gap * Turn(j) /\ h[2 * i + 1].id = Gap * Turn(2 * i + 1)
      BY <1>3, <1>5
    <2> QED
      BY <2>4, <2>5, <2>6
  <1>8. Later(h, t, 2 * i + 1)
    <2>1. (2 * i + 1) % 2 = 1 /\ ~ (2 * i + 1 <= 2 * i)
      BY <1>5
    <2> QED
      BY <1>3, <1>5, <1>7, <2>1 DEF Later, IsPlain
  <1>9. ASSUME NEW j \in 1 .. 2 * n PROVE Left(h, t, j) <=> j <= 2 * i
    <2>1. IsPlain(h[j])
      BY <1>3 DEF IsPlain
    <2>2. CASE j <= 2 * i
      <3>1. ASSUME NEW u \in DOMAIN h, Later(h, t, u) PROVE h[j].id < h[u].id
        <4>1. t < h[u].id /\ h[u].id \in Nat /\ h[j].id < t /\ h[j].id \in Nat
          BY <1>3, <1>7, <2>2, <3>1 DEF Later
        <4> QED
          BY <1>6, <4>1
      <3> QED
        BY <2>1, <2>2, <3>1 DEF Left
    <2>3. CASE ~ (j <= 2 * i)
      <3>1. ~ (h[j].id < h[2 * i + 1].id)
        <4>1. h[2 * i + 1].id <= h[j].id /\ h[j].id \in Nat /\ h[2 * i + 1].id \in Nat
          BY <1>5, <1>7, <2>3
        <4> QED
          BY <4>1
      <3>2. 2 * i + 1 \in DOMAIN h
        BY <1>3, <1>5
      <3> QED
        BY <1>8, <2>1, <2>3, <3>1, <3>2 DEF Left
    <2> QED
      BY <2>2, <2>3
  <1>10. SeenThen(h, t) = {h[j].id : j \in {k \in DOMAIN h : k <= 2 * i}}
    <2>1. \A j, k \in DOMAIN h : ~ HiddenBy(h[k], h[j])
      BY <1>3 DEF HiddenBy
    <2>2. {j \in DOMAIN h : Left(h, t, j) /\ \A k \in DOMAIN h : Left(h, t, k) => ~ HiddenBy(h[k], h[j])}
            = {k \in DOMAIN h : k <= 2 * i}
      BY <1>3, <1>9, <2>1
    <2> QED
      BY <2>2 DEF SeenThen
  <1>11. c[i].before = Selected(Ids(h), SeenThen(h, t))
    <2> DEFINE q == Ids(h)
               L == SeenThen(h, t)
               N == Nat
               m == 2 * i
    <2>1. q \in Seq(N) /\ Len(q) = 2 * n /\ \A j \in 1 .. 2 * n : q[j] = h[j].id
      BY <1>3, IdsIs
    <2>2. ASSUME NEW j \in 1 .. 2 * n PROVE h[j].id \in L <=> j <= m
      <3>1. j <= m => h[j].id \in L
        BY <1>3, <1>10
      <3>2. ASSUME h[j].id \in L, ~ (j <= m) PROVE FALSE
        <4>1. PICK k \in DOMAIN h : k <= 2 * i /\ h[j].id = h[k].id
          BY <1>10, <3>2
        <4>2. h[k].id < t /\ t < h[j].id /\ h[k].id \in Nat
          BY <1>3, <1>7, <3>2, <4>1
        <4> QED
          BY <1>6, <4>1, <4>2
      <3> QED
        BY <3>1, <3>2
    <2>3. m \in 0 .. 2 * n /\ 2 * n \in Nat
      BY <1>2, <1>5
    <2> HIDE DEF q, L, N, m
    <2>4. SubSeq(q, 1, m) = Ids(SubSeq(h, 1, m))
      <3> DEFINE g == SubSeq(h, 1, m)
      <3>1. g \in Seq(Messages) /\ Len(g) = m /\ \A j \in 1 .. m : g[j] = h[j]
        BY <1>3, <2>3
      <3> HIDE DEF g
      <3>2. Ids(g) \in Seq(Nat) /\ Len(Ids(g)) = m /\ \A j \in 1 .. m : Ids(g)[j] = g[j].id
        BY <3>1, IdsIs
      <3>3. /\ SubSeq(q, 1, m) \in Seq(N) /\ Len(SubSeq(q, 1, m)) = m
            /\ \A j \in 1 .. m : SubSeq(q, 1, m)[j] = q[j]
        BY <2>1, <2>3
      <3>4. \A j \in 1 .. m : q[j] = h[j].id
        BY <2>1, <2>3
      <3>5. \A j \in 1 .. m : Ids(g)[j] = SubSeq(q, 1, m)[j]
        BY <3>1, <3>2, <3>3, <3>4
      <3>6. SubSeq(q, 1, m) \in Seq(Nat)
        BY <3>3 DEF N
      <3> QED
        BY <3>2, <3>3, <3>5, <3>6, SeqEqual DEF g
    <2>5. Selected(q, L) = SubSeq(q, 1, m)
      BY <2>1, <2>2, <2>3, SelectedFirst
    <2>6. c[i].before = Ids(SubSeq(h, 1, m))
      BY <1>4, <1>5 DEF m
    <2> QED
      BY <2>4, <2>5, <2>6 DEF q, L
  <1>12. Linked(h, c, i) /\ MarkedLater(h, t) /\ MarkedApart(h, t)
    BY <1>3 DEF Linked, MarkedLater, MarkedApart, IsPlain
  <1> QED
    BY <1>6, <1>11, <1>12 DEF Restorable

-----------------------------------------------------------------------------
(* A history that was cut *)

\* g is h without what is not in K, and without the tags of what is gone.
CutTo(g, h, e, K) ==
    /\ Thinned(g, h, e, K)
    /\ \A i \in DOMAIN g :
           /\ g[i].condenseParent = IF h[e[i]].condenseParent \in OfKind(g, "summary")
                                    THEN h[e[i]].condenseParent ELSE None
           /\ g[i].truncationParent = IF h[e[i]].truncationParent \in OfKind(g, "marker")
                                      THEN h[e[i]].truncationParent ELSE None

\* Which message is which.
LEMMA CutIs ==
    ASSUME NEW h \in Seq(Messages), NEW g, NEW e, NEW K, CutTo(g, h, e, K)
    PROVE  /\ g \in Seq(Messages)
           /\ \A i \in DOMAIN g : e[i] \in DOMAIN h /\ Same(g[i], h[e[i]]) /\ h[e[i]] \in K
           /\ \A q \in DOMAIN h : h[q] \in K => \E i \in DOMAIN g : e[i] = q
           /\ \A i, j \in DOMAIN g : i < j => e[i] < e[j]
           /\ \A s, i : i \in DOMAIN g => (Later(g, s, i) <=> Later(h, s, e[i]))
  <1>1. g \in Seq(Messages) /\ 0 \notin DOMAIN g
    BY DEF CutTo, Thinned, Derived
  <1>2. /\ \A i \in DOMAIN g : e[i] \in DOMAIN h /\ Same(g[i], h[e[i]]) /\ h[e[i]] \in K
        /\ \A q \in DOMAIN h : h[q] \in K => \E i \in DOMAIN g : e[i] = q
        /\ \A i, j \in DOMAIN g : i < j => e[i] < e[j]
    BY <1>1 DEF CutTo, Thinned, Derived
  <1>3. \A s, i : i \in DOMAIN g => (Later(g, s, i) <=> Later(h, s, e[i]))
    BY <1>2 DEF Same, Later, IsPlain
  <1> QED
    BY <1>1, <1>2, <1>3

\* If all that was left at t stays, what was seen at t is what was seen at x, for
\* which the same is left.
LEMMA CutSeen ==
    ASSUME NEW h, NEW d, NEW n, NEW k, HistoryOK(h, d, n, k), NEW g, NEW e, NEW K, CutTo(g, h, e, K),
           NEW t, NEW x,
           \A j \in DOMAIN h : Left(h, t, j) => h[j] \in K,
           \A i \in DOMAIN g : Left(g, x, i) <=> Left(h, t, e[i])
    PROVE  SeenThen(g, x) = SeenThen(h, t)
  <1>1. h \in Seq(Messages) /\ \A j \in DOMAIN h : h[j].id # 0
    BY DEF HistoryOK, MessageOK
  <1>2. /\ \A i \in DOMAIN g : e[i] \in DOMAIN h /\ Same(g[i], h[e[i]]) /\ h[e[i]] \in K
        /\ \A q \in DOMAIN h : h[q] \in K => \E i \in DOMAIN g : e[i] = q
    BY <1>1, CutIs
  <1>3. ASSUME NEW a \in DOMAIN g, NEW b \in DOMAIN g
        PROVE  HiddenBy(g[a], g[b]) <=> HiddenBy(h[e[a]], h[e[b]])
    <2>1. g[a].kind = h[e[a]].kind /\ g[a].id = h[e[a]].id /\ g[a].id # 0
      BY <1>1, <1>2 DEF Same
    <2>2. g[a].kind = "summary" => (g[b].condenseParent = g[a].id <=> h[e[b]].condenseParent = g[a].id)
      <3> SUFFICES ASSUME g[a].kind = "summary"
                   PROVE  g[b].condenseParent = g[a].id <=> h[e[b]].condenseParent = g[a].id
        OBVIOUS
      <3>1. g[a].id \in OfKind(g, "summary")
        BY DEF OfKind
      <3>2. g[b].condenseParent = IF h[e[b]].condenseParent \in OfKind(g, "summary")
                                  THEN h[e[b]].condenseParent ELSE 0
        BY DEF CutTo, None
      <3> QED
        BY <2>1, <3>1, <3>2
    <2>3. g[a].kind = "marker" => (g[b].truncationParent = g[a].id <=> h[e[b]].truncationParent = g[a].id)
      <3> SUFFICES ASSUME g[a].kind = "marker"
                   PROVE  g[b].truncationParent = g[a].id <=> h[e[b]].truncationParent = g[a].id
        OBVIOUS
      <3>1. g[a].id \in OfKind(g, "marker")
        BY DEF OfKind
      <3>2. g[b].truncationParent = IF h[e[b]].truncationParent \in OfKind(g, "marker")
                                    THEN h[e[b]].truncationParent ELSE 0
        BY DEF CutTo, None
      <3> QED
        BY <2>1, <3>1, <3>2
    <2> QED
      BY <2>1, <2>2, <2>3 DEF HiddenBy
  <1> DEFINE Open(f, s, j) == Left(f, s, j) /\ \A q \in DOMAIN f : Left(f, s, q) => ~ HiddenBy(f[q], f[j])
  <1>4. ASSUME NEW i \in DOMAIN g PROVE Open(g, x, i) <=> Open(h, t, e[i])
    <2>1. ASSUME Open(g, x, i) PROVE Open(h, t, e[i])
      <3> SUFFICES ASSUME NEW q \in DOMAIN h, Left(h, t, q) PROVE ~ HiddenBy(h[q], h[e[i]])
        BY <2>1
      <3>1. PICK a \in DOMAIN g : e[a] = q
        BY <1>2
      <3> QED
        BY <1>3, <2>1, <3>1
    <2>2. ASSUME Open(h, t, e[i]) PROVE Open(g, x, i)
      <3> SUFFICES ASSUME NEW a \in DOMAIN g, Left(g, x, a) PROVE ~ HiddenBy(g[a], g[i])
        BY <2>2
      <3>1. e[a] \in DOMAIN h /\ Left(h, t, e[a])
        BY <1>2
      <3> QED
        BY <1>3, <2>2, <3>1
    <2> QED
      BY <2>1, <2>2
  <1>5. SeenThen(g, x) = {g[i].id : i \in {j \in DOMAIN g : Open(g, x, j)}}
    BY DEF SeenThen
  <1>6. SeenThen(h, t) = {h[i].id : i \in {j \in DOMAIN h : Open(h, t, j)}}
    BY DEF SeenThen
  <1>7. \A j \in DOMAIN h : Open(h, t, j) => h[j] \in K
    OBVIOUS
  <1> HIDE DEF Open
  <1>8. ASSUME NEW y \in SeenThen(g, x) PROVE y \in SeenThen(h, t)
    <2>1. PICK i \in DOMAIN g : Open(g, x, i) /\ y = g[i].id
      BY <1>5, <1>8
    <2>2. e[i] \in DOMAIN h /\ Open(h, t, e[i]) /\ y = h[e[i]].id
      BY <1>2, <1>4, <2>1 DEF Same
    <2> QED
      BY <1>6, <2>2
  <1>9. ASSUME NEW y \in SeenThen(h, t) PROVE y \in SeenThen(g, x)
    <2>1. PICK q \in DOMAIN h : Open(h, t, q) /\ y = h[q].id
      BY <1>6, <1>9
    <2>2. PICK i \in DOMAIN g : e[i] = q
      BY <1>2, <1>7, <2>1
    <2>3. Open(g, x, i) /\ y = g[i].id
      BY <1>2, <1>4, <2>1, <2>2 DEF Same
    <2> QED
      BY <1>5, <2>3
  <1> QED
    BY <1>8, <1>9

\* What was seen at t is then selected from what stays as from what there was.
LEMMA CutSelected ==
    ASSUME NEW h, NEW d, NEW n, NEW k, HistoryOK(h, d, n, k), NEW g, NEW K, NEW t,
           Ids(g) = Ids(Selected(h, K)),
           \A j \in DOMAIN h : Left(h, t, j) => h[j] \in K
    PROVE  Selected(Ids(g), SeenThen(h, t)) = Selected(Ids(h), SeenThen(h, t))
  <1> DEFINE I == {h[j].id : j \in {i \in DOMAIN h : h[i] \in K}}
             L == SeenThen(h, t)
             q == Ids(h)
  <1>1. h \in Seq(Messages) /\ DOMAIN h \subseteq Nat /\ q \in Seq(Nat)
    BY IdsIs DEF HistoryOK
  <1>2. ASSUME NEW j \in DOMAIN h PROVE h[j] \in K <=> h[j].id \in I
    <2>1. \A i \in DOMAIN h : h[i].id = h[j].id => i = j
      <3> SUFFICES ASSUME NEW i \in DOMAIN h, h[i].id = h[j].id, i # j PROVE FALSE
        OBVIOUS
      <3>1. i < j \/ j < i
        BY <1>1
      <3> QED
        BY <3>1 DEF HistoryOK, Distinct
    <2> QED
      BY <2>1
  <1>3. L \subseteq I
    BY DEF SeenThen
  <1> HIDE DEF I, L
  <1>4. Ids(g) = Selected(q, I)
    BY <1>1, <1>2, IdsSelected
  <1> HIDE DEF q
  <1>5. Selected(Selected(q, I), L) = Selected(q, I \cap L)
    BY <1>1, SelectedTwice
  <1>6. I \cap L = L
    BY <1>3
  <1> QED
    BY <1>4, <1>5, <1>6 DEF q, L

\* What a rewind to the n-th message of the chat does to the history.
RewindTo(n) ==
    /\ n \in DOMAIN chat /\ chat[n].kind = "feedback"
    /\ api' = Rewound(api, chat[n].ts, {chat[j].event : j \in n .. Len(chat)})
    /\ chat' = SpoiledByCut(SubSeq(chat, 1, n - 1), api')

\* What it keeps.
KeptAt(n) == Stays(api, chat[n].ts, {chat[j].event : j \in n .. Len(chat)})

\* What is kept, by the time and by the id.
LEMMA KeptIsWhat ==
    ASSUME TypeInv, NEW n \in DOMAIN chat
    PROVE  LET cutoff == ActualCutoff(api, chat[n].ts)
           IN  /\ cutoff \in Int /\ chat[n].ts <= cutoff
               /\ \A j \in DOMAIN api : IsPlain(api[j]) => (api[j] \in KeptAt(n) <=> api[j].ts < cutoff)
               /\ \A j \in DOMAIN api : api[j] \in KeptAt(n) => api[j].ts < cutoff
               /\ \A j \in DOMAIN api : ~ IsPlain(api[j]) /\ api[j].id < chat[n].ts => api[j] \in KeptAt(n)
               /\ \A j \in DOMAIN api : \A l \in DOMAIN chat :
                      ~ IsPlain(api[j]) /\ n <= l /\ chat[l].event = api[j].id => api[j] \notin KeptAt(n)
  <1> DEFINE cutoff == ActualCutoff(api, chat[n].ts)
             removed == {chat[j].event : j \in n .. Len(chat)}
  <1>1. /\ api \in Seq(Messages) /\ chat \in Seq(ChatMessages) /\ chat[n].ts \in Nat
        /\ Len(chat) \in Nat /\ DOMAIN chat = 1 .. Len(chat)
        /\ \A j \in DOMAIN api : /\ api[j].id \in Nat /\ api[j].ts \in Int /\ api[j].ts <= api[j].id
                                 /\ 0 < api[j].id
    BY ChatTimes
  <1>2. cutoff \in Int /\ chat[n].ts <= cutoff
    <2>1. chat[n].ts \in Int
      BY <1>1
    <2>2. cutoff >= chat[n].ts /\ cutoff \in Int
      BY <1>1, <2>1, CutoffLater
    <2> QED
      BY <2>1, <2>2
  <1>3. KeptAt(n) = {m \in Range(api) : m.ts < cutoff /\ ~ (m.kind # "plain" /\ m.id \in removed)}
    BY DEF KeptAt, Stays
  <1>4. \A j \in DOMAIN api : api[j] \in Range(api)
    BY DEF Range
  <1>5. ASSUME NEW l \in n .. Len(chat) PROVE chat[l].event = 0 \/ (chat[l].event \in Nat /\ chat[n].ts <= chat[l].event)
    <2>1. l \in DOMAIN chat /\ n \in Nat /\ l \in Nat
      BY <1>1
    <2>2. chat[l].event \in {0, chat[l].ts}
      BY <2>1 DEF TypeInv, ChatOK, ChatMessageOK, None
    <2>3. chat[l].ts \in Nat
      BY <2>1, ChatTimes
    <2>4. l = n \/ n < l
      BY <2>1
    <2>5. n < l => chat[n].ts < chat[l].ts
      BY <2>1 DEF TypeInv, ChatOK, InTurn
    <2> QED
      BY <1>1, <2>2, <2>3, <2>4, <2>5
  <1> HIDE DEF cutoff
  <1>6. ASSUME NEW j \in DOMAIN api, ~ IsPlain(api[j]), api[j].id < chat[n].ts PROVE api[j] \in KeptAt(n)
    <2>1. api[j].ts < cutoff
      BY <1>1, <1>2, <1>6
    <2>2. api[j].id \notin removed
      <3> SUFFICES ASSUME NEW l \in n .. Len(chat), api[j].id = chat[l].event PROVE FALSE
        OBVIOUS
      <3> QED
        BY <1>1, <1>5, <1>6
    <2> QED
      BY <1>3, <1>4, <2>1, <2>2
  <1>7. ASSUME NEW j \in DOMAIN api, NEW l \in DOMAIN chat,
               ~ IsPlain(api[j]), n <= l, chat[l].event = api[j].id
        PROVE  api[j] \notin KeptAt(n)
    <2>1. l \in n .. Len(chat)
      BY <1>1, <1>7
    <2>2. api[j].id \in removed
      BY <1>7, <2>1
    <2> QED
      BY <1>3, <1>7, <2>2 DEF IsPlain
  <1>8. ASSUME NEW j \in DOMAIN api, IsPlain(api[j]) PROVE api[j] \in KeptAt(n) <=> api[j].ts < cutoff
    BY <1>3, <1>4, <1>8 DEF IsPlain
  <1>9. \A j \in DOMAIN api : api[j] \in KeptAt(n) => api[j].ts < cutoff
    BY <1>3
  <1> QED
    BY <1>2, <1>6, <1>7, <1>8, <1>9 DEF cutoff

\* A rewind.
LEMMA RewindIs ==
    ASSUME TypeInv, Rewind
    PROVE  /\ pc \in {"stream", "tools"} /\ UNCHANGED <<pc, now>>
           /\ \E n \in DOMAIN chat : RewindTo(n)
  <1>1. pc \in {"stream", "tools"} /\ UNCHANGED <<pc, now>>
    BY DEF Rewind
  <1>2. \E n \in DOMAIN chat : RewindTo(n)
    BY DEF Rewind, RewindTo
  <1> QED
    BY <1>1, <1>2

\* What a rewind leaves, of the history
LEMMA RewindCuts ==
    ASSUME TypeInv, NEW n, RewindTo(n)
    PROVE  /\ \E e : CutTo(api', api, e, KeptAt(n))
           /\ Ids(api') = Ids(Selected(api, KeptAt(n)))
  <1> DEFINE removed == {chat[j].event : j \in n .. Len(chat)}
             ts == chat[n].ts
  <1>1. api \in Seq(Messages) /\ api' = Rewound(api, ts, removed) /\ KeptAt(n) = Stays(api, ts, removed)
    BY ChatTimes DEF RewindTo, KeptAt
  <1> HIDE DEF removed, ts
  <1>2. /\ \E e : /\ Thinned(api', api, e, Stays(api, ts, removed))
                  /\ \A i \in DOMAIN api' :
                       /\ api'[i].condenseParent = IF api[e[i]].condenseParent \in OfKind(api', "summary")
                                                   THEN api[e[i]].condenseParent ELSE None
                       /\ api'[i].truncationParent = IF api[e[i]].truncationParent \in OfKind(api', "marker")
                                                     THEN api[e[i]].truncationParent ELSE None
        /\ Ids(api') = Ids(Selected(api, Stays(api, ts, removed)))
    BY <1>1, RewoundDoes
  <1> QED
    BY <1>1, <1>2 DEF CutTo

\* and of the chat.
LEMMA RewindLeaves ==
    ASSUME TypeInv, NEW n, RewindTo(n), api' \in Seq(Messages)
    PROVE  /\ n \in DOMAIN chat /\ DOMAIN chat' = 1 .. n - 1 /\ Len(chat') = n - 1
           /\ n \in Nat /\ DOMAIN chat = 1 .. Len(chat) /\ Len(chat) \in Nat
           /\ \A i \in DOMAIN chat' :
                  /\ i \in DOMAIN chat /\ i < n
                  /\ chat'[i].ts = chat[i].ts /\ chat'[i].event = chat[i].event
                  /\ chat'[i].before = chat[i].before
                  /\ chat'[i].intact => /\ chat[i].intact
                                        /\ \E j \in DOMAIN api' : api'[j].role = "user" /\ api'[j].ts >= chat[i].ts
  <1> DEFINE c == SubSeq(chat, 1, n - 1)
  <1>1. n \in DOMAIN chat /\ chat' = SpoiledByCut(c, api')
    BY DEF RewindTo
  <1>2. chat \in Seq(ChatMessages) /\ DOMAIN chat = 1 .. Len(chat) /\ Len(chat) \in Nat /\ n \in Nat
    BY <1>1, ChatTimes
  <1>3. /\ c \in Seq(ChatMessages) /\ DOMAIN c = 1 .. n - 1
        /\ \A i \in DOMAIN c : i \in DOMAIN chat /\ c[i] = chat[i]
    BY <1>1, ChatFront DEF TypeInv
  <1> HIDE DEF c
  <1>4. /\ SameChat(chat', c)
        /\ \A i \in DOMAIN chat' :
               /\ chat'[i].before = c[i].before
               /\ chat'[i].intact => \E j \in DOMAIN api' : api'[j].role = "user" /\ api'[j].ts >= c[i].ts
    BY <1>1, <1>3, SpoiledByCutDoes
  <1>5. chat' \in Seq(ChatMessages) /\ DOMAIN chat' = 1 .. n - 1
    BY <1>3, <1>4 DEF SameChat
  <1>6. Len(chat') = n - 1
    BY <1>1, <1>2, <1>5
  <1>7. ASSUME NEW i \in DOMAIN chat'
        PROVE  /\ i \in DOMAIN chat /\ i < n
               /\ chat'[i].ts = chat[i].ts /\ chat'[i].event = chat[i].event
               /\ chat'[i].before = chat[i].before
               /\ chat'[i].intact => /\ chat[i].intact
                                     /\ \E j \in DOMAIN api' : api'[j].role = "user" /\ api'[j].ts >= chat[i].ts
    <2>1. i \in DOMAIN c /\ i \in 1 .. n - 1
      BY <1>3, <1>5
    <2>2. i \in DOMAIN chat /\ c[i] = chat[i] /\ i < n
      BY <1>2, <1>3, <2>1
    <2> QED
      BY <1>4, <2>1, <2>2 DEF SameChat
  <1> QED
    BY <1>1, <1>2, <1>5, <1>6, <1>7

\* An earlier comment that stays intact has a later message of the user that stays.
LEMMA EarlierAnswered ==
    ASSUME TypeInv, NEW n \in DOMAIN chat, NEW i \in DOMAIN chat, i < n,
           chat[i].kind = "feedback", Linked(api, chat, i), MarkedLater(api, chat[i].ts),
           NEW m \in DOMAIN api, api[m] \in KeptAt(n), api[m].role = "user", api[m].ts >= chat[i].ts
    PROVE  \E v \in DOMAIN api : Later(api, chat[i].ts, v) /\ api[v] \in KeptAt(n)
  <1> DEFINE s == chat[i].ts
             t == chat[n].ts
             cutoff == ActualCutoff(api, t)
  <1>1. /\ s \in Nat /\ t \in Nat /\ cutoff \in Int /\ t <= cutoff
        /\ \A j \in DOMAIN api : IsPlain(api[j]) => (api[j] \in KeptAt(n) <=> api[j].ts < cutoff)
        /\ \A j \in DOMAIN api : \A l \in DOMAIN chat :
               ~ IsPlain(api[j]) /\ n <= l /\ chat[l].event = api[j].id => api[j] \notin KeptAt(n)
    BY ChatTimes, KeptIsWhat
  <1>2. \A j \in DOMAIN api : /\ api[j].id \in Nat /\ api[j].ts \in Int /\ api[j].ts <= api[j].id
                              /\ IsPlain(api[j]) => api[j].ts = api[j].id
    BY ChatTimes
  <1>3. api[m].id # s
    BY DEF TypeInv, CommentsApart
  <1> HIDE DEF s, t, cutoff
  <1>4. s < api[m].id
    BY <1>1, <1>2, <1>3 DEF s
  <1>5. CASE IsPlain(api[m])
    BY <1>4, <1>5 DEF Later, s
  <1>6. CASE ~ IsPlain(api[m])
    <2>1. api[m].kind = "marker"
      <3>1. api[m] \in Messages /\ MessageOK(api[m], reductions, now, made)
        BY ChatTimes DEF HistoryOK
      <3> QED
        BY <1>6, <3>1, MessageFields DEF MessageOK, IsPlain
    <2>2. PICK u \in DOMAIN api : Later(api, s, u) /\ api[u].id < api[m].id
      BY <1>4, <2>1 DEF MarkedLater, s
    <2>3. CASE api[u].ts < cutoff
      BY <1>1, <2>2, <2>3 DEF Later, s
    <2>4. CASE ~ (api[u].ts < cutoff)
      <3>1. t < api[m].id
        BY <1>1, <1>2, <2>2, <2>4 DEF Later
      <3>2. PICK l \in DOMAIN chat : i < l /\ chat[l].event = api[m].id
        BY <1>4, <1>6 DEF Linked, s
      <3>3. n <= l
        <4>1. chat[l].event \in {0, chat[l].ts} /\ chat[l].ts \in Nat /\ l \in Nat /\ n \in Nat
          BY ChatTimes DEF TypeInv, ChatOK, ChatMessageOK, None
        <4>2. chat[l].ts = api[m].id
          BY <1>1, <3>1, <3>2, <4>1
        <4>3. l < n => chat[l].ts < t
          BY DEF TypeInv, ChatOK, InTurn, t
        <4> QED
          BY <1>1, <3>1, <4>1, <4>2, <4>3
      <3> QED
        BY <1>1, <1>6, <3>2, <3>3
    <2> QED
      BY <2>3, <2>4
  <1> QED
    BY <1>5, <1>6

\* What such a comment needs stays.
LEMMA EarlierLeft ==
    ASSUME TypeInv, NEW n \in DOMAIN chat, NEW i \in DOMAIN chat, i < n,
           NEW v \in DOMAIN api, Later(api, chat[i].ts, v), api[v] \in KeptAt(n),
           NEW j \in DOMAIN api, Left(api, chat[i].ts, j)
    PROVE  api[j] \in KeptAt(n)
  <1> DEFINE s == chat[i].ts
             t == chat[n].ts
             cutoff == ActualCutoff(api, t)
  <1>1. /\ s \in Nat /\ t \in Nat /\ cutoff \in Int
        /\ \A x \in DOMAIN api : IsPlain(api[x]) => (api[x] \in KeptAt(n) <=> api[x].ts < cutoff)
        /\ \A x \in DOMAIN api : ~ IsPlain(api[x]) /\ api[x].id < t => api[x] \in KeptAt(n)
    BY ChatTimes, KeptIsWhat
  <1>2. \A x \in DOMAIN api : api[x].id \in Nat /\ api[x].ts \in Int /\ (IsPlain(api[x]) => api[x].ts = api[x].id)
    BY ChatTimes
  <1>3. s < t
    <2>1. i \in Nat /\ n \in Nat
      BY ChatTimes
    <2> QED
      BY <2>1 DEF TypeInv, ChatOK, InTurn
  <1>4. Later(api, s, v) /\ Left(api, s, j)
    OBVIOUS
  <1> HIDE DEF s, t, cutoff
  <1>5. CASE IsPlain(api[j])
    <2>1. api[j].id < api[v].id /\ IsPlain(api[v])
      BY <1>4, <1>5 DEF Left, Later
    <2>2. api[v].ts < cutoff
      BY <1>1, <2>1
    <2>3. api[j].ts < cutoff
      BY <1>1, <1>2, <1>5, <2>1, <2>2
    <2> QED
      BY <1>1, <1>5, <2>3
  <1>6. CASE ~ IsPlain(api[j])
    <2>1. api[j].id < s
      BY <1>4, <1>6 DEF Left
    <2> QED
      BY <1>1, <1>2, <1>3, <1>6, <2>1
  <1> QED
    BY <1>5, <1>6

\* Rewinding to a later message, an earlier comment can still be gone back to.
LEMMA RewindRewinds ==
    ASSUME TypeInv, RewindInv, Rewind
    PROVE  RewindInv'
  <1>1. pc' = pc /\ pc \in {"stream", "tools"}
    BY RewindIs
  <1>2. PICK n \in DOMAIN chat : RewindTo(n)
    BY RewindIs
  <1>3. PICK e : CutTo(api', api, e, KeptAt(n))
    BY <1>2, RewindCuts
  <1>4. Ids(api') = Ids(Selected(api, KeptAt(n)))
    BY <1>2, RewindCuts
  <1>5. HistoryOK(api, reductions, now, made) /\ api \in Seq(Messages)
    BY ChatTimes
  <1>6. /\ api' \in Seq(Messages)
        /\ \A i \in DOMAIN api' : e[i] \in DOMAIN api /\ Same(api'[i], api[e[i]]) /\ api[e[i]] \in KeptAt(n)
        /\ \A q \in DOMAIN api : api[q] \in KeptAt(n) => \E i \in DOMAIN api' : e[i] = q
        /\ \A i, j \in DOMAIN api' : i < j => e[i] < e[j]
        /\ \A s, i : i \in DOMAIN api' => (Later(api', s, i) <=> Later(api, s, e[i]))
    BY <1>3, <1>5, CutIs
  <1> SUFFICES ASSUME NEW i \in DOMAIN chat', chat'[i].intact
               PROVE  Restorable(api', chat', i) /\ Answered(api', chat'[i].ts)
    BY <1>1 DEF RewindInv, Waits
  <1> DEFINE s == chat[i].ts
             cutoff == ActualCutoff(api, chat[n].ts)
  <1>7. /\ i \in DOMAIN chat /\ i < n /\ chat'[i].ts = s /\ chat'[i].before = chat[i].before
        /\ chat[i].intact
        /\ \E j \in DOMAIN api' : api'[j].role = "user" /\ api'[j].ts >= s
        /\ DOMAIN chat' = 1 .. n - 1 /\ DOMAIN chat = 1 .. Len(chat) /\ n \in Nat /\ Len(chat) \in Nat
        /\ \A l \in DOMAIN chat' : chat'[l].event = chat[l].event
    BY <1>2, <1>6, RewindLeaves
  <1>8. Restorable(api, chat, i) /\ chat[i].kind = "feedback"
    BY <1>7 DEF RewindInv, TypeInv, ChatOK, ChatMessageOK
  <1>9. PICK v \in DOMAIN api : Later(api, s, v) /\ api[v] \in KeptAt(n)
    <2>1. PICK j \in DOMAIN api' : api'[j].role = "user" /\ api'[j].ts >= s
      BY <1>7
    <2>2. e[j] \in DOMAIN api /\ api[e[j]] \in KeptAt(n) /\ api[e[j]].role = "user" /\ api[e[j]].ts >= s
      BY <1>6, <2>1 DEF Same
    <2> QED
      BY <1>7, <1>8, <2>2, EarlierAnswered DEF Restorable
  <1>10. \A j \in DOMAIN api : Left(api, s, j) => api[j] \in KeptAt(n)
    BY <1>7, <1>9, EarlierLeft
  <1>11. /\ s \in Nat /\ cutoff \in Int
         /\ \A j \in DOMAIN api : IsPlain(api[j]) => (api[j] \in KeptAt(n) <=> api[j].ts < cutoff)
         /\ \A j \in DOMAIN api : api[j] \in KeptAt(n) => api[j].ts < cutoff
         /\ \A j \in DOMAIN api : \A l \in DOMAIN chat :
                ~ IsPlain(api[j]) /\ n <= l /\ chat[l].event = api[j].id => api[j] \notin KeptAt(n)
         /\ \A j \in DOMAIN api : api[j].id \in Nat /\ api[j].ts \in Int /\ (IsPlain(api[j]) => api[j].ts = api[j].id)
    BY <1>7, ChatTimes, KeptIsWhat
  <1> HIDE DEF s, cutoff
  <1>12. ASSUME NEW u \in DOMAIN api, Later(api, s, u), api[u] \in KeptAt(n)
         PROVE  \E w \in DOMAIN api' : Later(api', s, w) /\ api'[w].id = api[u].id
    <2>1. PICK w \in DOMAIN api' : e[w] = u
      BY <1>6, <1>12
    <2> QED
      BY <1>6, <1>12, <2>1 DEF Same
  <1>13. \A k \in DOMAIN api' : Left(api', s, k) <=> Left(api, s, e[k])
    <2> SUFFICES ASSUME NEW k \in DOMAIN api' PROVE Left(api', s, k) <=> Left(api, s, e[k])
      OBVIOUS
    <2>1. /\ e[k] \in DOMAIN api /\ api'[k].id = api[e[k]].id /\ (IsPlain(api'[k]) <=> IsPlain(api[e[k]]))
          /\ api[e[k]].ts < cutoff
      BY <1>6, <1>11 DEF Same, IsPlain
    <2>2. CASE ~ IsPlain(api'[k])
      BY <2>1, <2>2 DEF Left
    <2>3. CASE IsPlain(api'[k])
      <3>1. ASSUME Left(api', s, k), NEW u \in DOMAIN api, Later(api, s, u) PROVE api[e[k]].id < api[u].id
        <4>1. CASE api[u] \in KeptAt(n)
          <5>1. PICK w \in DOMAIN api' : Later(api', s, w) /\ api'[w].id = api[u].id
            BY <1>12, <3>1, <4>1
          <5> QED
            BY <2>1, <2>3, <3>1, <5>1 DEF Left
        <4>2. CASE api[u] \notin KeptAt(n)
          <5>1. IsPlain(api[u]) /\ ~ (api[u].ts < cutoff)
            BY <1>11, <3>1, <4>2 DEF Later
          <5> QED
            BY <1>11, <2>1, <2>3, <5>1
        <4> QED
          BY <4>1, <4>2
      <3>2. ASSUME Left(api, s, e[k]), NEW w \in DOMAIN api', Later(api', s, w) PROVE api'[k].id < api'[w].id
        <4>1. e[w] \in DOMAIN api /\ Later(api, s, e[w]) /\ api'[w].id = api[e[w]].id
          BY <1>6, <3>2 DEF Same
        <4> QED
          BY <2>1, <2>3, <3>2, <4>1 DEF Left
      <3> QED
        BY <2>1, <2>3, <3>1, <3>2 DEF Left
    <2> QED
      BY <2>2, <2>3
  <1>14. SeenThen(api', s) = SeenThen(api, s)
    BY <1>3, <1>5, <1>10, <1>13, CutSeen
  <1>15. Selected(Ids(api'), SeenThen(api', s)) = Selected(Ids(api), SeenThen(api, s))
    BY <1>4, <1>5, <1>10, <1>14, CutSelected
  <1>16. Linked(api', chat', i)
    <2> SUFFICES ASSUME NEW j \in DOMAIN api', ~ IsPlain(api'[j]), s < api'[j].id
                 PROVE  \E l \in DOMAIN chat' : i < l /\ chat'[l].event = api'[j].id
      BY <1>7 DEF Linked
    <2>1. /\ e[j] \in DOMAIN api /\ ~ IsPlain(api[e[j]]) /\ api[e[j]].id = api'[j].id
          /\ api[e[j]] \in KeptAt(n)
      BY <1>6 DEF Same, IsPlain
    <2>2. PICK l \in DOMAIN chat : i < l /\ chat[l].event = api[e[j]].id
      BY <1>8, <2>1 DEF Restorable, Linked, s
    <2>3. ~ (n <= l)
      BY <1>11, <2>1, <2>2
    <2>4. l \in DOMAIN chat'
      BY <1>7, <2>3
    <2> QED
      BY <1>7, <2>1, <2>2, <2>4
  <1>17. MarkedLater(api', s)
    <2> SUFFICES ASSUME NEW j \in DOMAIN api', api'[j].kind = "marker", s < api'[j].id
                 PROVE  \E w \in DOMAIN api' : Later(api', s, w) /\ api'[w].id < api'[j].id
      BY DEF MarkedLater
    <2>1. e[j] \in DOMAIN api /\ api[e[j]].kind = "marker" /\ api[e[j]].id = api'[j].id
      BY <1>6 DEF Same
    <2>2. PICK u \in DOMAIN api : Later(api, s, u) /\ api[u].id < api[e[j]].id
      BY <1>8, <2>1 DEF Restorable, MarkedLater, s
    <2>3. CASE api[u] \in KeptAt(n)
      BY <1>12, <2>1, <2>2, <2>3
    <2>4. CASE api[u] \notin KeptAt(n)
      <3>1. IsPlain(api[u]) /\ ~ (api[u].ts < cutoff) /\ IsPlain(api[v]) /\ api[v].ts < cutoff
        BY <1>9, <1>11, <2>2, <2>4 DEF Later
      <3>2. api[v].id < api[u].id
        BY <1>11, <3>1
      <3>3. PICK w \in DOMAIN api' : Later(api', s, w) /\ api'[w].id = api[v].id
        BY <1>9, <1>12
      <3> QED
        BY <1>11, <2>1, <2>2, <3>2, <3>3
    <2> QED
      BY <2>3, <2>4
  <1>18. MarkedApart(api', s)
    <2> SUFFICES ASSUME NEW j \in DOMAIN api', NEW r \in DOMAIN api',
                        j < r, api'[j].kind = "marker", s <= api'[j].ts, IsPlain(api'[r]), api'[r].role = "assistant"
                 PROVE  \E w \in DOMAIN api' : Later(api', s, w) /\ api'[w].id < api'[r].id
      BY DEF MarkedApart
    <2>1. /\ e[j] \in DOMAIN api /\ api[e[j]].kind = "marker" /\ api[e[j]].ts = api'[j].ts
          /\ e[r] \in DOMAIN api /\ IsPlain(api[e[r]]) /\ api[e[r]].role = "assistant" /\ api[e[r]].id = api'[r].id
          /\ e[j] < e[r] /\ api[e[r]].ts < cutoff
      BY <1>6, <1>11 DEF Same, IsPlain
    <2>2. PICK u \in DOMAIN api : Later(api, s, u) /\ api[u].id < api[e[r]].id
      BY <1>8, <2>1 DEF Restorable, MarkedApart, s
    <2>3. IsPlain(api[u]) /\ api[u].ts < cutoff
      BY <1>11, <2>1, <2>2 DEF Later
    <2>4. api[u] \in KeptAt(n)
      BY <1>11, <2>3
    <2> QED
      BY <1>12, <2>1, <2>2, <2>4
  <1>19. Answered(api', s)
    BY <1>9, <1>12 DEF Answered
  <1> QED
    BY <1>7, <1>8, <1>15, <1>16, <1>17, <1>18, <1>19 DEF Restorable, s

-----------------------------------------------------------------------------
(* What a rewind brings back is what was there *)

\* No step takes away what a rewind needs,
LEMMA RewindNext == TypeInv /\ RewindInv /\ [Next]_vars => RewindInv'
  <1> SUFFICES ASSUME TypeInv, RewindInv, [Next]_vars PROVE RewindInv'
    OBVIOUS
  <1>1. CASE UNCHANGED vars
    BY <1>1 DEF vars, RewindInv, Waits
  <1>2. CASE AddUser \/ StartResponse \/ RunTool \/ AddAssistant
    BY <1>2, AddUserRewinds, StartResponseRewinds, RunToolRewinds, AddAssistantRewinds
  <1>3. CASE CondenseBeforeRequest \/ Truncate \/ CondenseOverWindow \/ Uncondense
    BY <1>3, CondenseBeforeRequestRewinds, TruncateRewinds, CondenseOverWindowRewinds, UncondenseRewinds
  <1>4. CASE BeginManual \/ EndManual \/ Rewind
    BY <1>4, BeginManualRewinds, EndManualRewinds, RewindRewinds
  <1> QED
    BY <1>1, <1>2, <1>3, <1>4 DEF Next

\* so that it is always there.
LEMMA RewindAlways == Spec => [](TypeInv /\ RewindInv)
  <1>1. Init => TypeInv /\ RewindInv
    BY TypeInit, RewindInit
  <1>2. TypeInv /\ RewindInv /\ [Next]_vars => TypeInv' /\ RewindInv'
    BY TypeNext, RewindNext
  <1> QED
    BY <1>1, <1>2, PTL DEF Spec

\* A chat with other marks, and one message more, is not shorter.
LEMMA ChatNotShorter ==
    ASSUME NEW c \in Seq(ChatMessages), NEW b, SameChat(b, c), NEW m
    PROVE  ~ (Len(b) < Len(c)) /\ ~ (Len(Append(b, m)) < Len(c))
  <1>1. b \in Seq(ChatMessages) /\ DOMAIN b = DOMAIN c
    BY DEF SameChat
  <1>2. Len(b) \in Nat /\ Len(c) \in Nat /\ Len(b) = Len(c)
    BY <1>1
  <1>3. Len(Append(b, m)) = Len(b) + 1
    BY <1>1
  <1> QED
    BY <1>2, <1>3

\* Only a rewind makes the chat shorter.
LEMMA OnlyRewindCuts ==
    ASSUME TypeInv, [Next]_vars, Len(chat') < Len(chat)
    PROVE  Rewind
  <1>1. chat \in Seq(ChatMessages) /\ now \in Nat
    BY ChatTimes
  <1>2. SameChat(chat, chat) /\ SameChat(AllSpoiled(chat), chat)
    BY <1>1, AllSpoiledDoes, SameChatReflexive
  <1>3. SameChat(SpoiledByMarker(chat, api, MarkerAt(api)), chat)
    BY <1>1, SpoiledByMarkerSame
  <1>4. ~ UNCHANGED chat
    BY <1>1
  <1>5. ~ \E m : chat' = Append(chat, m)
    BY <1>1, <1>2, ChatNotShorter
  <1>6. chat' # AllSpoiled(chat) /\ ~ \E m : chat' = Append(AllSpoiled(chat), m)
    BY <1>1, <1>2, ChatNotShorter
  <1>7. ~ \E m : chat' = Append(SpoiledByMarker(chat, api, MarkerAt(api)), m)
    BY <1>1, <1>3, ChatNotShorter
  <1>8. ~ AddUser /\ ~ StartResponse /\ ~ BeginManual
    BY <1>4 DEF AddUser, StartResponse, BeginManual
  <1>9. ~ RunTool
    BY <1>4, <1>5 DEF RunTool
  <1>10. ~ AddAssistant
    <2>1. ASSUME AddAssistant PROVE FALSE
      <3> DEFINE m == Last(api')
      <3>1. api' = Append(api, Plain("assistant", calls, {})) /\ chat' = WithAnswer(chat, m)
        BY <2>1 DEF AddAssistant
      <3>2. m.id \in Nat
        <4> DEFINE x == Plain("assistant", calls, {})
        <4>1. api' = Append(api, x) /\ x.id = now
          BY <3>1 DEF Plain
        <4>2. api \in Seq(Messages)
          BY ChatTimes
        <4> HIDE DEF x
        <4>3. Last(api') = x
          BY <4>1, <4>2 DEF Last
        <4> QED
          BY <1>1, <4>1, <4>3
      <3> HIDE DEF m
      <3>3. SameChat(chat', chat)
        BY <1>1, <3>1, <3>2, WithAnswerDoes
      <3> QED
        BY <1>1, <3>3, ChatNotShorter
    <2> QED
      BY <2>1
  <1>11. ~ CondenseBeforeRequest /\ ~ CondenseOverWindow /\ ~ Uncondense
    BY <1>5, <1>6 DEF CondenseBeforeRequest, CondenseOverWindow, Uncondense
  <1>12. ~ Truncate
    BY <1>6, <1>7 DEF Truncate
  <1>13. ~ EndManual
    BY <1>4, <1>5, <1>6 DEF EndManual
  <1> QED
    BY <1>4, <1>8, <1>9, <1>10, <1>11, <1>12, <1>13 DEF Next, vars

\* Between the messages that are saved there is none at the time of a comment, and
\* the history begins before it: when a user message follows the comment, the cut is
\* made at the first one that does.
LEMMA CutoffFollows ==
    ASSUME TypeInv, NEW n \in DOMAIN chat, chat[n].kind = "feedback",
           NEW s \in DOMAIN api, api[s].role = "user", api[s].ts >= chat[n].ts
    PROVE  \E f \in DOMAIN api :
               /\ api[f].ts >= chat[n].ts /\ api[f].role = "user"
               /\ \A j \in DOMAIN api : j < f => api[j].ts < chat[n].ts \/ api[j].role # "user"
               /\ ActualCutoff(api, chat[n].ts) = api[f].ts
  <1> DEFINE t == chat[n].ts
  <1>1. /\ api \in Seq(Messages) /\ HistoryOK(api, reductions, now, made) /\ t \in Nat /\ t \in Int
        /\ \A j \in DOMAIN api : api[j].id \in Nat /\ api[j].ts \in Int
        /\ \A j \in DOMAIN api : IsPlain(api[j]) => api[j].ts = api[j].id
    BY ChatTimes
  <1>2. t \in Times
    BY DEF TypeInv, ChatOK, ChatMessageOK
  <1>3. /\ \A j \in DOMAIN api : api[j].id # t
        /\ 1 \in DOMAIN api /\ api[1].ts < t
    <2>1. api # <<>> /\ 1 \in DOMAIN api
      BY <1>1
    <2> QED
      BY <2>1 DEF TypeInv, CommentsApart
  <1>4. ASSUME NEW i \in DOMAIN api PROVE api[i].ts # t
    <2>1. CASE IsPlain(api[i])
      BY <1>1, <1>3, <2>1
    <2>2. CASE ~ IsPlain(api[i])
      <3>1. PICK b \in Times : b - reductions <= api[i].ts /\ api[i].ts < b
        BY <1>1, <2>2 DEF HistoryOK, MessageOK, IsPlain
      <3>2. reductions \in Nat /\ reductions <= MaxReductions /\ MaxReductions \in Nat /\ Gap = MaxReductions + 2
        BY GapNat DEF TypeInv, Loop
      <3>3. b \in Nat /\ (t < b => t + Gap <= b)
        BY <1>2, TimesApart
      <3> QED
        BY <1>1, <3>1, <3>2, <3>3
    <2> QED
      BY <2>1, <2>2
  <1>5. api[s].ts \in Int /\ api[s].ts >= t
    BY <1>1
  <1> HIDE DEF t
  <1>6. \/ /\ ActualCutoff(api, t) = t
           /\ \/ \E i \in DOMAIN api : api[i].ts = t
              \/ \A i \in DOMAIN api : api[i].ts >= t
              \/ \A i \in DOMAIN api : api[i].ts < t \/ api[i].role # "user"
        \/ \E f \in DOMAIN api :
              /\ api[f].ts >= t /\ api[f].role = "user"
              /\ \A j \in DOMAIN api : j < f => api[j].ts < t \/ api[j].role # "user"
              /\ ActualCutoff(api, t) = api[f].ts
              /\ \A i \in DOMAIN api : api[i].ts # t
    BY <1>1, CutoffIs
  <1>7. ~ \A i \in DOMAIN api : api[i].ts >= t
    BY <1>1, <1>3
  <1>8. ~ \A i \in DOMAIN api : api[i].ts < t \/ api[i].role # "user"
    BY <1>1, <1>5
  <1> QED
    BY <1>4, <1>6, <1>7, <1>8 DEF t

\* What is kept is what a rewind to the comment leaves.
LEMMA KeptIsLeft ==
    ASSUME TypeInv, NEW n \in DOMAIN chat, chat[n].kind = "feedback",
           Linked(api, chat, n), MarkedApart(api, chat[n].ts),
           NEW s \in DOMAIN api, api[s].role = "user", api[s].ts >= chat[n].ts,
           NEW j \in DOMAIN api
    PROVE  api[j] \in KeptAt(n) <=> Left(api, chat[n].ts, j)
  <1> DEFINE t == chat[n].ts
             cutoff == ActualCutoff(api, t)
  <1>1. /\ api \in Seq(Messages) /\ InOrder(api) /\ t \in Nat /\ DOMAIN api \subseteq Nat
        /\ \A x \in DOMAIN api : api[x].id \in Nat /\ api[x].ts \in Int
        /\ \A x \in DOMAIN api : IsPlain(api[x]) => api[x].ts = api[x].id
    BY ChatTimes DEF HistoryOK
  <1>2. /\ \A x \in DOMAIN api : IsPlain(api[x]) => (api[x] \in KeptAt(n) <=> api[x].ts < cutoff)
        /\ \A x \in DOMAIN api : ~ IsPlain(api[x]) /\ api[x].id < t => api[x] \in KeptAt(n)
        /\ \A x \in DOMAIN api : \A l \in DOMAIN chat :
               ~ IsPlain(api[x]) /\ n <= l /\ chat[l].event = api[x].id => api[x] \notin KeptAt(n)
    BY KeptIsWhat
  <1>3. \A x \in DOMAIN api : api[x].id # t
    BY DEF TypeInv, CommentsApart
  <1>4. PICK f \in DOMAIN api :
               /\ api[f].ts >= t /\ api[f].role = "user"
               /\ \A x \in DOMAIN api : x < f => api[x].ts < t \/ api[x].role # "user"
               /\ cutoff = api[f].ts
    BY CutoffFollows
  <1>5. Linked(api, chat, n) /\ MarkedApart(api, t)
    OBVIOUS
  <1>6. n \in Nat /\ DOMAIN chat \subseteq Nat
    BY ChatTimes
  <1> HIDE DEF cutoff
  <1>7. CASE ~ IsPlain(api[j])
    <2>1. CASE api[j].id < t
      BY <1>2, <1>7, <2>1 DEF Left
    <2>2. CASE ~ (api[j].id < t)
      <3>1. t < api[j].id
        BY <1>1, <1>3, <2>2
      <3>2. PICK l \in DOMAIN chat : n < l /\ chat[l].event = api[j].id
        BY <1>5, <1>7, <3>1 DEF Linked
      <3>3. n <= l
        BY <1>6, <3>2
      <3>4. api[j] \notin KeptAt(n)
        BY <1>2, <1>7, <3>2, <3>3
      <3> QED
        BY <1>7, <2>2, <3>4 DEF Left
    <2> QED
      BY <2>1, <2>2
  <1>8. CASE IsPlain(api[j])
    <2>1. api[j] \in KeptAt(n) <=> api[j].ts < cutoff
      BY <1>2, <1>8
    <2>2. api[j].ts = api[j].id /\ api[j].id \in Nat
      BY <1>1, <1>8
    <2>3. ASSUME NEW u \in DOMAIN api, Later(api, t, u)
          PROVE  f <= u /\ api[f].ts <= api[u].ts /\ api[u].ts = api[u].id
      <3>1. api[u].ts = api[u].id /\ IsPlain(api[u]) /\ api[u].role = "user" /\ t < api[u].ts
        BY <1>1, <2>3 DEF Later
      <3>2. ~ (u < f)
        BY <1>1, <1>4, <3>1
      <3>3. f = u \/ f < u
        BY <1>1, <3>2
      <3>4. f < u => api[f].ts < api[u].ts
        BY <1>1, <3>1 DEF InOrder
      <3> QED
        BY <1>1, <3>1, <3>3, <3>4
    <2>4. ASSUME api[j].ts < cutoff PROVE Left(api, t, j)
      <3> SUFFICES ASSUME NEW u \in DOMAIN api, Later(api, t, u) PROVE api[j].id < api[u].id
        BY <1>8 DEF Left
      <3> QED
        BY <1>1, <1>4, <2>2, <2>3, <2>4
    <2>5. ASSUME Left(api, t, j) PROVE api[j].ts < cutoff
      <3>1. CASE IsPlain(api[f])
        <4>1. Later(api, t, f)
          BY <1>1, <1>3, <1>4, <3>1 DEF Later
        <4>2. api[j].id < api[f].id
          BY <1>8, <2>5, <4>1 DEF Left
        <4> QED
          BY <1>1, <1>4, <2>2, <3>1, <4>2
      <3>2. CASE ~ IsPlain(api[f])
        <4> SUFFICES ASSUME ~ (api[j].ts < cutoff) PROVE FALSE
          OBVIOUS
        <4>1. api[j].ts >= api[f].ts /\ api[j].ts >= t
          BY <1>1, <1>4
        <4>2. j < f => api[j].ts < api[f].ts
          BY <1>1, <1>8 DEF InOrder
        <4>3. f < j
          BY <1>1, <1>8, <3>2, <4>1, <4>2
        <4>4. api[f] \in Messages /\ api[j] \in Messages /\ MessageOK(api[f], reductions, now, made)
          BY <1>1, ChatTimes DEF HistoryOK
        <4>5. api[f].kind = "marker" /\ api[j].role \in {"user", "assistant"}
          BY <1>4, <3>2, <4>4, MessageFields DEF MessageOK, IsPlain
        <4>6. CASE api[j].role = "user"
          <5>1. Later(api, t, j)
            BY <1>1, <1>3, <1>8, <2>2, <4>1, <4>6 DEF Later
          <5>2. api[j].id < api[j].id
            BY <1>8, <2>5, <5>1 DEF Left
          <5> QED
            BY <2>2, <5>2
        <4>7. CASE api[j].role = "assistant"
          <5>1. t <= api[f].ts
            BY <1>1, <1>4
          <5>2. PICK u \in DOMAIN api : Later(api, t, u) /\ api[u].id < api[j].id
            BY <1>5, <1>8, <4>3, <4>5, <4>7, <5>1 DEF MarkedApart
          <5>3. api[j].id < api[u].id
            BY <1>8, <2>5, <5>2 DEF Left
          <5> QED
            BY <1>1, <5>2, <5>3
        <4> QED
          BY <4>5, <4>6, <4>7
      <3> QED
        BY <3>1, <3>2
    <2> QED
      BY <2>1, <2>4, <2>5
  <1> QED
    BY <1>7, <1>8

\* A rewind to a comment that is intact brings back what was before it.
LEMMA RewindBrings ==
    ASSUME TypeInv, TypeInv', RewindInv, NEW n \in DOMAIN chat, RewindTo(n), UNCHANGED <<now, reductions, made>>,
           chat[n].intact,
           NEW s \in DOMAIN api, api[s].role = "user", api[s].ts >= chat[n].ts
    PROVE  Ids(EffectiveHistory(api')) = chat[n].before
  <1> DEFINE t == chat[n].ts
  <1>1. HistoryOK(api, reductions, now, made) /\ now \in Nat
    BY ChatTimes
  <1>2. HistoryOK(api', reductions, now, made)
    <2>1. HistoryOK(api', reductions', now', made')
      BY DEF TypeInv
    <2>2. reductions' = reductions /\ now' = now /\ made' = made
      OBVIOUS
    <2> QED
      BY <2>1, <2>2
  <1>3. chat[n].kind = "feedback" /\ Restorable(api, chat, n)
    BY DEF RewindTo, RewindInv
  <1>4. chat[n].before = Selected(Ids(api), SeenThen(api, t))
    BY <1>3 DEF Restorable
  <1>5. \A j \in DOMAIN api : api[j] \in KeptAt(n) <=> Left(api, t, j)
    BY <1>3, KeptIsLeft DEF Restorable
  <1>6. PICK e : CutTo(api', api, e, KeptAt(n))
    BY RewindCuts
  <1>7. Ids(api') = Ids(Selected(api, KeptAt(n)))
    BY RewindCuts
  <1> DEFINE g == api'
             K == KeptAt(n)
  <1>8. /\ HistoryOK(g, reductions, now, made) /\ CutTo(g, api, e, K)
        /\ Ids(g) = Ids(Selected(api, K))
        /\ \A j \in DOMAIN api : api[j] \in K <=> Left(api, t, j)
    BY <1>2, <1>5, <1>6, <1>7
  <1> SUFFICES Ids(EffectiveHistory(g)) = chat[n].before
    OBVIOUS
  <1> HIDE DEF g, K, t
  <1>9. /\ Ids(EffectiveHistory(g)) = Selected(Ids(g), SeenThen(g, now))
        /\ \A j \in DOMAIN g : Left(g, now, j)
    BY <1>1, <1>8, SeenNow
  <1>10. \A i \in DOMAIN g : e[i] \in DOMAIN api /\ api[e[i]] \in K
    <2>1. api \in Seq(Messages)
      BY <1>1 DEF HistoryOK
    <2> QED
      BY <1>8, <2>1, CutIs
  <1>11. \A i \in DOMAIN g : Left(g, now, i) <=> Left(api, t, e[i])
    BY <1>8, <1>9, <1>10
  <1>12. SeenThen(g, now) = SeenThen(api, t)
    BY <1>1, <1>8, <1>11, CutSeen
  <1>13. Selected(Ids(g), SeenThen(api, t)) = Selected(Ids(api), SeenThen(api, t))
    BY <1>1, <1>8, CutSelected
  <1> QED
    BY <1>4, <1>9, <1>12, <1>13

\* A step that makes the chat shorter brings back what was before the comment it
\* rewinds to.
LEMMA RewindRestoresHere ==
    ASSUME TypeInv, RewindInv, [Next]_vars, Len(chat') < Len(chat)
    PROVE  LET target == chat[Len(chat') + 1]
               saved == \E m \in Range(api) : m.role = "user" /\ m.ts >= target.ts
           IN  target.intact /\ saved => Ids(EffectiveHistory(api')) = target.before
  <1>1. Rewind
    BY OnlyRewindCuts
  <1>2. TypeInv'
    BY TypeNext
  <1>3. UNCHANGED <<now, reductions, made>>
    BY <1>1 DEF Rewind
  <1>4. PICK n \in DOMAIN chat : RewindTo(n)
    BY <1>1, RewindIs
  <1>5. Len(chat') = n - 1 /\ n \in Nat
    <2>1. api' \in Seq(Messages)
      BY <1>2 DEF TypeInv, HistoryOK
    <2> QED
      BY <1>4, <2>1, RewindLeaves
  <1>6. Len(chat') + 1 = n
    BY <1>5
  <1> SUFFICES ASSUME chat[n].intact, \E m \in Range(api) : m.role = "user" /\ m.ts >= chat[n].ts
               PROVE  Ids(EffectiveHistory(api')) = chat[n].before
    BY <1>6
  <1>7. PICK s \in DOMAIN api : api[s].role = "user" /\ api[s].ts >= chat[n].ts
    BY DEF Range
  <1> QED
    BY <1>2, <1>3, <1>4, <1>7, RewindBrings

\* Whatever was condensed or truncated since, deleting or editing a comment of the
\* user (rewindToTimestamp) brings back what the provider had seen before it.
THEOREM RewindRestoresEver == Spec => RewindRestores
  <1>1. TypeInv /\ RewindInv /\ [Next]_vars
          => [Len(chat') < Len(chat) =>
                 LET target == chat[Len(chat') + 1]
                     saved == \E m \in Range(api) : m.role = "user" /\ m.ts >= target.ts
                 IN  target.intact /\ saved => Ids(EffectiveHistory(api')) = target.before]_vars
    BY RewindRestoresHere
  <1> QED
    BY <1>1, RewindAlways, PTL DEF Spec, RewindRestores
=============================================================================
