--------------------------- MODULE OperatorLemmas ---------------------------
(* Facts about the operators of the modules that the proofs share.  About      *)
(* sequences of any length: induction in the form of a set that has the empty  *)
(* sequence and is closed under Append, the folds of the community modules as  *)
(* iterations, and what Selected returns.  About the contents of messages: the *)
(* calls and tokens of a content that blocks are added to, and what            *)
(* validateAndFixToolResultIds (ValidResults) returns for any content.         *)
EXTENDS ToolResults, Integers, SequenceTheorems, WellFoundedInduction, TLAPS

\* A set of naturals that is not empty has a least element.
LEMMA LeastNat ==
    ASSUME NEW T \in SUBSET Nat, T # {}
    PROVE  \E n \in T : \A m \in T : n <= m
  <1> DEFINE R == OpToRel(<, Nat)
  <1>1. \A x, y \in Nat : <<x, y>> \in R <=> x < y
    BY DEF OpToRel
  <1>2. \E x \in T : \A y \in T : ~ (<<y, x>> \in R)
    BY NatLessThanWellFounded, WFMin
  <1> HIDE DEF R
  <1>3. PICK n \in T : \A m \in T : ~ (<<m, n>> \in R)
    BY <1>2
  <1>4. ASSUME NEW m \in T PROVE n <= m
    <2>1. n \in Nat /\ m \in Nat
      OBVIOUS
    <2>2. ~ (m < n)
      BY <1>1, <1>3, <2>1
    <2> QED
      BY <2>1, <2>2
  <1> QED
    BY <1>4

\* Induction over the naturals, for a set instead of a predicate.
LEMMA Induction ==
    ASSUME NEW T, 0 \in T, \A n \in Nat : n \in T => n + 1 \in T
    PROVE  Nat \subseteq T
  <1> SUFFICES ASSUME Nat \ T # {} PROVE FALSE
    OBVIOUS
  <1>1. PICK n \in Nat \ T : \A m \in Nat \ T : n <= m
    BY LeastNat
  <1>2. n # 0 /\ n - 1 \in Nat
    BY <1>1
  <1>3. n - 1 \in T
    BY <1>1, <1>2
  <1> QED
    BY <1>1, <1>2, <1>3

\* Induction over sequences by Append, for a set instead of a predicate.
LEMMA SeqInduction ==
    ASSUME NEW S, NEW Q, <<>> \in Q,
           \A s \in Seq(S), x \in S : s \in Q => Append(s, x) \in Q
    PROVE  Seq(S) \subseteq Q
  <1> DEFINE T == {n \in Nat : \A s \in Seq(S) : Len(s) = n => s \in Q}
  <1>1. 0 \in T
    OBVIOUS
  <1>2. ASSUME NEW n \in Nat, n \in T PROVE n + 1 \in T
    <2>1. ASSUME NEW s \in Seq(S), Len(s) = n + 1 PROVE s \in Q
      <3> DEFINE r == SubSeq(s, 1, n)
      <3>1. r \in Seq(S) /\ Len(r) = n /\ s[n + 1] \in S
        BY <2>1
      <3>2. s = Append(r, s[n + 1])
        BY <2>1
      <3>3. r \in Q
        BY <1>2, <3>1
      <3> HIDE DEF r
      <3> QED
        BY <3>1, <3>2, <3>3
    <2> QED
      BY <2>1
  <1>3. Nat \subseteq T
    <2> HIDE DEF T
    <2> QED
      BY <1>1, <1>2, Induction
  <1> QED
    BY <1>3

-----------------------------------------------------------------------------
\* The greatest of a set of indexes that has the last one,
LEMMA MaxTop ==
    ASSUME NEW n \in Nat, NEW D, D \subseteq 1 .. n + 1, n + 1 \in D
    PROVE  Max(D) = n + 1 /\ D \ {Max(D)} \subseteq 1 .. n
  <1>1. \A y \in D : n + 1 >= y
    OBVIOUS
  <1>2. \A x \in D : (\A y \in D : x >= y) => x = n + 1
    OBVIOUS
  <1>3. Max(D) = n + 1
    BY <1>1, <1>2 DEF Max
  <1> QED
    BY <1>3

\* and of any set of indexes that is not empty.
LEMMA MaxIn ==
    ASSUME NEW n \in Nat, NEW D, D \subseteq 1 .. n, D # {}
    PROVE  Max(D) \in D
  <1> DEFINE T == {m \in Nat : \E k \in D : m = n - k}
  <1>1. T \in SUBSET Nat /\ T # {}
    <2>1. PICK k \in D : TRUE
      OBVIOUS
    <2>2. n - k \in T
      BY <2>1
    <2> QED
      BY <2>2
  <1>2. PICK m \in T : \A k \in T : m <= k
    BY <1>1, LeastNat
  <1>3. PICK k \in D : m = n - k
    BY <1>2
  <1>4. ASSUME NEW y \in D PROVE k >= y
    <2>1. n - y \in T
      OBVIOUS
    <2> QED
      BY <1>2, <1>3, <2>1
  <1> QED
    BY <1>4 DEF Max

-----------------------------------------------------------------------------
\* it computes a fold of G over s, as far as its own values are in V.
Iterates(it, s, base, G, V) ==
    /\ it[{}] = base
    /\ \A D \in SUBSET DOMAIN s :
         D # {} /\ it[D \ {Max(D)}] \in V
           => it[D] = G[<<it[D \ {Max(D)}], s[Max(D)]>>]

\* it computes it, with values in V all the way.
Folds(it, s, base, G, V) ==
    /\ it \in [SUBSET DOMAIN s -> V]
    /\ \A D \in SUBSET DOMAIN s :
         it[D] = IF D = {} THEN base ELSE G[<<it[D \ {Max(D)}], s[Max(D)]>>]

\* There is a function that gives the fold over every set of indexes,
LEMMA FoldExists ==
    ASSUME NEW S, NEW V, NEW base \in V, NEW G \in [V \X S -> V], NEW s \in Seq(S)
    PROVE  \E it : Folds(it, s, base, G, V)
  <1> DEFINE Fold(n, it) ==
        it = [D \in SUBSET (1 .. n) |->
                IF D = {} THEN base ELSE G[<<it[D \ {Max(D)}], s[Max(D)]>>]]
             Foldable(n) == \E it \in [SUBSET (1 .. n) -> V] : Fold(n, it)
             T == {n \in Nat : n <= Len(s) => Foldable(n)}
  <1>1. 0 \in T
    <2>1. 1 .. 0 = {} /\ SUBSET (1 .. 0) = {{}}
      OBVIOUS
    <2> DEFINE it == [D \in SUBSET (1 .. 0) |-> base]
    <2>2. it \in [SUBSET (1 .. 0) -> V]
      OBVIOUS
    <2>3. Fold(0, it)
      BY <2>1
    <2> QED
      BY <2>2, <2>3
  <1>2. ASSUME NEW n \in Nat, n \in T PROVE n + 1 \in T
    <2> SUFFICES ASSUME n + 1 <= Len(s)
                 PROVE  Foldable(n + 1)
      <3> HIDE DEF Foldable
      <3> QED
        OBVIOUS
    <2>1. PICK it \in [SUBSET (1 .. n) -> V] : Fold(n, it)
      <3>1. Foldable(n)
        <4>1. n <= Len(s)
          OBVIOUS
        <4> HIDE DEF Foldable
        <4> QED
          BY <1>2, <4>1
      <3> QED
        BY <3>1
    <2> DEFINE it2 == [D \in SUBSET (1 .. n + 1) |->
                         IF n + 1 \in D THEN G[<<it[D \ {n + 1}], s[n + 1]>>] ELSE it[D]]
    <2>2. s[n + 1] \in S
      OBVIOUS
    <2>3. ASSUME NEW D \in SUBSET (1 .. n + 1)
          PROVE  /\ it2[D] \in V
                 /\ it2[D] = IF D = {} THEN base
                             ELSE G[<<it2[D \ {Max(D)}], s[Max(D)]>>]
      <3>1. CASE n + 1 \in D
        <4>1. Max(D) = n + 1 /\ D \ {Max(D)} \subseteq 1 .. n
          BY <3>1, MaxTop
        <4>2. it2[D \ {Max(D)}] = it[D \ {Max(D)}] /\ it[D \ {Max(D)}] \in V
          BY <4>1
        <4>3. it2[D] = G[<<it2[D \ {Max(D)}], s[Max(D)]>>]
          BY <3>1, <4>1, <4>2
        <4>4. it2[D] \in V
          BY <2>2, <4>1, <4>2, <4>3
        <4> QED
          BY <3>1, <4>3, <4>4
      <3>2. CASE n + 1 \notin D
        <4>1. D \in SUBSET (1 .. n)
          BY <3>2
        <4>2. it2[D] = it[D] /\ it[D] \in V
          BY <3>2, <4>1
        <4>3. CASE D = {}
          BY <2>1, <4>1, <4>2, <4>3
        <4>4. CASE D # {}
          <5>1. D \ {Max(D)} \in SUBSET (1 .. n) /\ n + 1 \notin D \ {Max(D)}
            <6> DEFINE m == Max(D)
            <6> HIDE DEF m, it2, Fold
            <6>1. n + 1 \notin D \ {m} /\ D \ {m} \subseteq 1 .. n
              BY <3>2, <4>1
            <6> QED
              BY <6>1 DEF m
          <5>2. it2[D \ {Max(D)}] = it[D \ {Max(D)}]
            BY <5>1
          <5>3. it[D] = G[<<it[D \ {Max(D)}], s[Max(D)]>>]
            BY <2>1, <4>1, <4>4
          <5> QED
            BY <4>2, <4>4, <5>2, <5>3
        <4> QED
          BY <4>3, <4>4
      <3> QED
        BY <3>1, <3>2
    <2>4. it2 \in [SUBSET (1 .. n + 1) -> V]
      BY <2>3
    <2> DEFINE f == [D \in SUBSET (1 .. n + 1) |->
                       IF D = {} THEN base ELSE G[<<it2[D \ {Max(D)}], s[Max(D)]>>]]
    <2>5. it2 = f
      <3>1. \A D \in SUBSET (1 .. n + 1) : it2[D] = f[D]
        <4> HIDE DEF it2
        <4> QED
          BY <2>3
      <3> QED
        BY <3>1
    <2> HIDE DEF it2
    <2> QED
      BY <2>4, <2>5
  <1>3. Nat \subseteq T
    <2> HIDE DEF T
    <2> QED
      BY <1>1, <1>2, Induction
  <1>4. Len(s) \in Nat /\ DOMAIN s = 1 .. Len(s) /\ Len(s) <= Len(s)
    OBVIOUS
  <1>5. Foldable(Len(s))
    <2> HIDE DEF Foldable
    <2> QED
      BY <1>3, <1>4
  <1> QED
    BY <1>4, <1>5 DEF Folds

\* it computes a fold over s, and it2 over s with x at its end.
Grows(S, V, base, G, s, x, it, it2) ==
    /\ base \in V /\ G \in [V \X S -> V] /\ s \in Seq(S) /\ x \in S
    /\ Iterates(it, s, base, G, V) /\ Iterates(it2, Append(s, x), base, G, V)

\* and one for a longer sequence takes one step more than one for the sequence.
LEMMA FoldUnique ==
    ASSUME NEW S, NEW V, NEW base, NEW G, NEW s, NEW x, NEW it, NEW it2,
           Grows(S, V, base, G, s, x, it, it2)
    PROVE  /\ it[DOMAIN s] \in V
           /\ it2[DOMAIN Append(s, x)] = G[<<it[DOMAIN s], x>>]
  <1> USE DEF Grows
  <1>0. \A m \in Nat : m + 1 \in 1 .. m + 1
    OBVIOUS
  <1> DEFINE r == Append(s, x)
             T == {n \in Nat : n <= Len(s) =>
                     \A D \in SUBSET (1 .. n) : it[D] \in V /\ it2[D] = it[D]}
  <1>1. 0 \in T
    <2>1. \A D \in SUBSET (1 .. 0) : D = {}
      OBVIOUS
    <2>2. it[{}] = base /\ it2[{}] = base
      BY DEF Iterates
    <2> QED
      BY <2>1, <2>2
  <1>2. ASSUME NEW n \in Nat, n \in T PROVE n + 1 \in T
    <2> SUFFICES ASSUME n + 1 <= Len(s), NEW D \in SUBSET (1 .. n + 1)
                 PROVE  it[D] \in V /\ it2[D] = it[D]
      OBVIOUS
    <2>1. CASE n + 1 \in D
      <3>1. Max(D) = n + 1 /\ D \ {Max(D)} \subseteq 1 .. n
        BY <2>1, MaxTop
      <3> DEFINE E == D \ {Max(D)}
      <3>2. it[E] \in V /\ it2[E] = it[E]
        BY <1>2, <3>1
      <3>3. D \in SUBSET DOMAIN s /\ D \in SUBSET DOMAIN r /\ D # {}
        BY <2>1
      <3>4. r[n + 1] = s[n + 1] /\ s[n + 1] \in S
        OBVIOUS
      <3> HIDE DEF r
      <3>5. it[D] = G[<<it[E], s[Max(D)]>>]
        BY <3>2, <3>3 DEF Iterates
      <3>6. it2[D] = G[<<it2[E], r[Max(D)]>>]
        BY <3>2, <3>3 DEF Iterates, r
      <3>7. it2[D] = it[D]
        BY <3>1, <3>2, <3>4, <3>5, <3>6
      <3>8. <<it[E], s[n + 1]>> \in V \X S
        BY <3>2, <3>4
      <3> HIDE DEF E
      <3>9. it[D] \in V
        BY <3>1, <3>5, <3>8
      <3> QED
        BY <3>7, <3>9
    <2>2. CASE n + 1 \notin D
      <3>1. D \in SUBSET (1 .. n)
        BY <2>2
      <3> QED
        BY <1>2, <3>1
    <2> QED
      BY <2>1, <2>2
  <1>3. Nat \subseteq T
    <2> HIDE DEF T
    <2> QED
      BY <1>1, <1>2, Induction
  <1> DEFINE n == Len(s)
             A == DOMAIN s
             B == DOMAIN r
  <1>4. n \in Nat /\ n \in T /\ A = 1 .. n /\ B = 1 .. n + 1
    BY <1>3
  <1>5. it[A] \in V /\ it2[A] = it[A]
    BY <1>4
  <1> HIDE DEF n, A, B, T
  <1>6. n + 1 \in B /\ B \subseteq 1 .. n + 1 /\ B # {}
    BY <1>0, <1>4
  <1>7. Max(B) = n + 1
    BY <1>4, <1>6, MaxTop
  <1>8. B \ {Max(B)} = A
    BY <1>4, <1>7
  <1>9. r[Max(B)] = x
    BY <1>7 DEF n
  <1>10. it2[B] = G[<<it2[A], x>>]
    BY <1>5, <1>6, <1>8, <1>9 DEF Iterates, B
  <1> QED
    BY <1>5, <1>10 DEF A, B

-----------------------------------------------------------------------------
(* Selected *)

Filter(S, K) ==
    [p \in Seq(S) \X S |-> IF p[2] \in K THEN Append(p[1], p[2]) ELSE p[1]]

\* The step of Selected takes a sequence to a sequence.
LEMMA FilterType ==
    ASSUME NEW S, NEW K
    PROVE  Filter(S, K) \in [Seq(S) \X S -> Seq(S)]
  BY DEF Filter

\* Selected as the end of an iteration over the sequence.
LEMMA SelectedIterates ==
    ASSUME NEW S, NEW K, NEW s \in Seq(S)
    PROVE  \E it : /\ Iterates(it, s, <<>>, Filter(S, K), Seq(S))
                   /\ Selected(s, K) = it[DOMAIN s]
  <1> DEFINE G == Filter(S, K)
             Value(g, D) == IF D = {} THEN <<>>
                            ELSE IF s[Max(D)] \in K
                                 THEN Append(g[D \ {Max(D)}], s[Max(D)])
                                 ELSE g[D \ {Max(D)}]
             it == CHOOSE g : g = [D \in SUBSET DOMAIN s |-> Value(g, D)]
  <1>0. <<>> \in Seq(S)
    OBVIOUS
  <1>1. PICK f : Folds(f, s, <<>>, G, Seq(S))
    <2>1. G \in [Seq(S) \X S -> Seq(S)]
      BY FilterType
    <2> HIDE DEF G
    <2> QED
      BY <1>0, <2>1, FoldExists, Zenon
  <1>2. f = [D \in SUBSET DOMAIN s |-> Value(f, D)]
    <2> SUFFICES ASSUME NEW D \in SUBSET DOMAIN s PROVE f[D] = Value(f, D)
      BY <1>1 DEF Folds
    <2>1. CASE D = {}
      BY <1>1, <2>1 DEF Folds
    <2>2. CASE D # {}
      <3>1. Max(D) \in DOMAIN s
        BY <2>2, MaxIn
      <3>2. s[Max(D)] \in S /\ f[D \ {Max(D)}] \in Seq(S)
        BY <1>1, <3>1 DEF Folds
      <3> DEFINE E == f[D \ {Max(D)}]
                 x == s[Max(D)]
      <3>3. f[D] = G[<<E, x>>]
        BY <1>1, <2>2 DEF Folds
      <3>4. G[<<E, x>>] = IF x \in K THEN Append(E, x) ELSE E
        <4> HIDE DEF E, x
        <4> QED
          BY <3>2 DEF Filter, E, x
      <3> QED
        BY <2>2, <3>3, <3>4
    <2> QED
      BY <2>1, <2>2
  <1>3. it = [D \in SUBSET DOMAIN s |-> Value(it, D)]
    <2> HIDE DEF Value
    <2> QED
      BY <1>2
  <1>4. Selected(s, K) = it[DOMAIN s]
    BY DEF Selected, FoldLeft, MapThenFoldSet
  <1> HIDE DEF it
  <1>5. Iterates(it, s, <<>>, G, Seq(S))
    <2>1. it[{}] = <<>>
      BY <1>3
    <2>2. ASSUME NEW D \in SUBSET DOMAIN s, D # {}, it[D \ {Max(D)}] \in Seq(S)
          PROVE  it[D] = G[<<it[D \ {Max(D)}], s[Max(D)]>>]
      <3>1. Max(D) \in DOMAIN s
        BY <2>2, MaxIn
      <3>2. s[Max(D)] \in S
        BY <3>1
      <3>3. it[D] = Value(it, D)
        BY <1>3
      <3> DEFINE E == it[D \ {Max(D)}]
                 x == s[Max(D)]
      <3>4. G[<<E, x>>] = IF x \in K THEN Append(E, x) ELSE E
        <4> HIDE DEF E, x
        <4> QED
          BY <2>2, <3>2 DEF Filter, E, x
      <3> QED
        BY <2>2, <3>3, <3>4
    <2> HIDE DEF G
    <2> QED
      BY <2>1, <2>2 DEF Iterates
  <1> QED
    BY <1>4, <1>5

\* What is selected from the empty sequence, and from one that grows.
LEMMA SelectedEmpty ==
    ASSUME NEW K
    PROVE  Selected(<<>>, K) = <<>>
  <1>1. <<>> \in Seq({}) /\ DOMAIN <<>> = {}
    OBVIOUS
  <1>2. PICK it : /\ Iterates(it, <<>>, <<>>, Filter({}, K), Seq({}))
                  /\ Selected(<<>>, K) = it[DOMAIN <<>>]
    BY <1>1, SelectedIterates
  <1> QED
    BY <1>1, <1>2 DEF Iterates

\* A selection grows by the last element, if that one is selected.
LEMMA SelectedAppend ==
    ASSUME NEW S, NEW K, NEW s \in Seq(S), NEW x \in S
    PROVE  /\ Selected(s, K) \in Seq(S)
           /\ Selected(Append(s, x), K)
                = IF x \in K THEN Append(Selected(s, K), x) ELSE Selected(s, K)
  <1> DEFINE G == Filter(S, K)
             V == Seq(S)
  <1>0. <<>> \in V /\ Append(s, x) \in Seq(S)
    OBVIOUS
  <1>1. G \in [V \X S -> V]
    BY FilterType
  <1>2. PICK it : Iterates(it, s, <<>>, G, V) /\ Selected(s, K) = it[DOMAIN s]
    BY SelectedIterates
  <1>3. PICK it2 : Iterates(it2, Append(s, x), <<>>, G, V) /\ Selected(Append(s, x), K) = it2[DOMAIN Append(s, x)]
    BY <1>0, SelectedIterates
  <1>4. /\ it[DOMAIN s] \in V
        /\ it2[DOMAIN Append(s, x)] = G[<<it[DOMAIN s], x>>]
    <2>1. Grows(S, V, <<>>, G, s, x, it, it2)
      BY <1>0, <1>1, <1>2, <1>3 DEF Grows
    <2> HIDE DEF G, V
    <2> QED
      BY <2>1, FoldUnique
  <1>5. \A v \in V : G[<<v, x>>] = IF x \in K THEN Append(v, x) ELSE v
    BY DEF Filter
  <1> HIDE DEF G, V
  <1> QED
    BY <1>2, <1>3, <1>4, <1>5 DEF V

\* The elements of a sequence and of one more.
LEMMA ToSetAppend ==
    ASSUME NEW S, NEW s \in Seq(S), NEW x \in S
    PROVE  ToSet(Append(s, x)) = ToSet(s) \cup {x}
  <1> DEFINE r == Append(s, x)
             n == Len(s)
  <1>1. n \in Nat /\ DOMAIN s = 1 .. n /\ DOMAIN r = 1 .. n + 1
    OBVIOUS
  <1>2. r[n + 1] = x /\ \A i \in 1 .. n : r[i] = s[i]
    OBVIOUS
  <1>3. 1 .. n + 1 = (1 .. n) \cup {n + 1}
    BY <1>1
  <1> HIDE DEF r, n
  <1>4. ToSet(r) \subseteq ToSet(s) \cup {x}
    BY <1>1, <1>2, <1>3 DEF ToSet
  <1>5. ToSet(s) \subseteq ToSet(r) /\ x \in ToSet(r)
    BY <1>1, <1>2, <1>3 DEF ToSet
  <1> QED
    BY <1>4, <1>5 DEF r

\* A selection is a sequence of the same type.
LEMMA SelectedSeq ==
    ASSUME NEW S, NEW K, NEW s \in Seq(S)
    PROVE  Selected(s, K) \in Seq(S)
  <1> DEFINE Q == {r \in Seq(S) : Selected(r, K) \in Seq(S)}
  <1>1. <<>> \in Q
    <2>1. <<>> \in Seq(S)
      OBVIOUS
    <2> QED
      BY <2>1, SelectedEmpty
  <1>2. \A r \in Seq(S), x \in S : r \in Q => Append(r, x) \in Q
    BY SelectedAppend
  <1>3. Seq(S) \subseteq Q
    <2> HIDE DEF Q
    <2> QED
      BY <1>1, <1>2, SeqInduction
  <1> QED
    BY <1>3

\* The elements that are selected.
LEMMA SelectedElements ==
    ASSUME NEW S, NEW K, NEW s \in Seq(S)
    PROVE  ToSet(Selected(s, K)) = ToSet(s) \cap K
  <1> DEFINE Q == {r \in Seq(S) : ToSet(Selected(r, K)) = ToSet(r) \cap K}
  <1>1. <<>> \in Q
    BY SelectedEmpty DEF ToSet
  <1>2. ASSUME NEW r \in Seq(S), NEW x \in S, r \in Q
        PROVE  Append(r, x) \in Q
    <2>1. ToSet(Append(r, x)) = ToSet(r) \cup {x}
      BY ToSetAppend
    <2>2. /\ Selected(r, K) \in Seq(S)
          /\ Selected(Append(r, x), K)
               = IF x \in K THEN Append(Selected(r, K), x) ELSE Selected(r, K)
      BY SelectedAppend
    <2>3. x \in K => ToSet(Append(Selected(r, K), x)) = ToSet(Selected(r, K)) \cup {x}
      BY <2>2, ToSetAppend
    <2>4. Append(r, x) \in Seq(S)
      OBVIOUS
    <2>5. ToSet(Selected(Append(r, x), K)) = ToSet(Append(r, x)) \cap K
      BY <1>2, <2>1, <2>2, <2>3
    <2> QED
      BY <2>4, <2>5
  <1>3. Seq(S) \subseteq Q
    <2> HIDE DEF Q
    <2> QED
      BY <1>1, <1>2, SeqInduction
  <1> QED
    BY <1>3

\* Two selections are one.
LEMMA SelectedTwice ==
    ASSUME NEW S, NEW K, NEW L, NEW s \in Seq(S)
    PROVE  Selected(Selected(s, K), L) = Selected(s, K \cap L)
  <1> DEFINE Q == {r \in Seq(S) : Selected(Selected(r, K), L) = Selected(r, K \cap L)}
  <1>1. <<>> \in Q
    BY SelectedEmpty
  <1>2. ASSUME NEW r \in Seq(S), NEW x \in S, r \in Q
        PROVE  Append(r, x) \in Q
    <2> DEFINE k == Selected(r, K)
    <2>1. /\ k \in Seq(S)
          /\ Selected(Append(r, x), K) = IF x \in K THEN Append(k, x) ELSE k
          /\ Selected(Append(r, x), K \cap L)
               = IF x \in K \cap L THEN Append(Selected(r, K \cap L), x)
                                   ELSE Selected(r, K \cap L)
      BY SelectedAppend
    <2>2. Selected(Append(k, x), L)
            = IF x \in L THEN Append(Selected(k, L), x) ELSE Selected(k, L)
      <3> HIDE DEF k
      <3> QED
        BY <2>1, SelectedAppend
    <2>3. Append(r, x) \in Seq(S)
      OBVIOUS
    <2>4. Selected(Selected(Append(r, x), K), L) = Selected(Append(r, x), K \cap L)
      <3>1. Selected(k, L) = Selected(r, K \cap L)
        BY <1>2
      <3> HIDE DEF k, Q
      <3>2. CASE x \in K
        <4>1. Selected(Append(r, x), K) = Append(k, x)
          BY <2>1, <3>2
        <4> QED
          BY <2>1, <2>2, <3>1, <3>2, <4>1
      <3>3. CASE x \notin K
        <4>1. Selected(Append(r, x), K) = k
          BY <2>1, <3>3
        <4> QED
          BY <2>1, <3>1, <3>3, <4>1
      <3> QED
        BY <3>2, <3>3
    <2> QED
      BY <2>3, <2>4
  <1>3. Seq(S) \subseteq Q
    <2> HIDE DEF Q
    <2> QED
      BY <1>1, <1>2, SeqInduction
  <1> QED
    BY <1>3

\* The last element is the one that was appended,
LEMMA LastAppend ==
    ASSUME NEW S, NEW s \in Seq(S), NEW x \in S
    PROVE  Append(s, x) # <<>> /\ Last(Append(s, x)) = x
  BY DEF Last

\* and is an element.
LEMMA LastElement ==
    ASSUME NEW S, NEW s \in Seq(S), s # <<>>
    PROVE  Last(s) \in ToSet(s) /\ Last(s) \in S
  BY DEF Last, ToSet

\* The last element selected stays the last one as long as it is selected.
LEMMA SelectedLast ==
    ASSUME NEW S, NEW K, NEW L, NEW s \in Seq(S),
           Selected(s, K) # <<>>, Last(Selected(s, K)) \in L
    PROVE  /\ Selected(s, K \cap L) # <<>>
           /\ Last(Selected(s, K \cap L)) = Last(Selected(s, K))
  <1> DEFINE Kept(r) == Selected(r, K) # <<>> /\ Last(Selected(r, K)) \in L
                          => /\ Selected(r, K \cap L) # <<>>
                             /\ Last(Selected(r, K \cap L)) = Last(Selected(r, K))
             Q == {r \in Seq(S) : Kept(r)}
  <1>1. <<>> \in Q
    BY SelectedEmpty
  <1>2. ASSUME NEW r \in Seq(S), NEW x \in S, r \in Q
        PROVE  Append(r, x) \in Q
    <2> DEFINE k == Selected(r, K)
               l == Selected(r, K \cap L)
    <2>1. /\ k \in Seq(S) /\ l \in Seq(S)
          /\ Selected(Append(r, x), K) = IF x \in K THEN Append(k, x) ELSE k
          /\ Selected(Append(r, x), K \cap L) = IF x \in K \cap L THEN Append(l, x) ELSE l
      BY SelectedAppend
    <2>2. Append(k, x) # <<>> /\ Last(Append(k, x)) = x
      <3> HIDE DEF k
      <3> QED
        BY <2>1, LastAppend
    <2>3. Append(l, x) # <<>> /\ Last(Append(l, x)) = x
      <3> HIDE DEF l
      <3> QED
        BY <2>1, LastAppend
    <2>4. Append(r, x) \in Seq(S)
      OBVIOUS
    <2>5. Kept(r)
      BY <1>2
    <2>6. Kept(Append(r, x))
      <3> HIDE DEF k, l
      <3> QED
        BY <2>1, <2>2, <2>3, <2>5 DEF k, l
    <2> QED
      BY <2>4, <2>6
  <1>3. Seq(S) \subseteq Q
    <2> HIDE DEF Q
    <2> QED
      BY <1>1, <1>2, SeqInduction
  <1> QED
    BY <1>3


\* An element of a sequence is its first one or among the others.
LEMMA HeadOrTail ==
    ASSUME NEW S, NEW q \in Seq(S), NEW x \in ToSet(q), q # <<>>
    PROVE  x = Head(q) \/ x \in ToSet(Tail(q))
  <1>1. PICK k \in 1 .. Len(q) : x = q[k]
    BY DEF ToSet
  <1>2. CASE k = 1
    BY <1>1, <1>2
  <1>3. CASE k # 1
    <2>1. k - 1 \in 1 .. Len(Tail(q)) /\ Tail(q)[k - 1] = x
      BY <1>1, <1>3
    <2>2. Tail(q) \in Seq(S)
      OBVIOUS
    <2>3. DOMAIN Tail(q) = 1 .. Len(Tail(q))
      BY <2>2
    <2> QED
      BY <2>1, <2>3 DEF ToSet
  <1> QED
    BY <1>2, <1>3

-----------------------------------------------------------------------------
(* Contents of messages *)

\* Blocks with calls of C and tokens of T, and a content with at most one
\* result a call.
BlocksOf(C, T) == [call : C, token : T]
OnePerCall(q) ==
    \A i, j \in DOMAIN q : q[i].call = q[j].call /\ q[i].call # NoCall => i = j

\* The empty content,
LEMMA EmptyContent ==
    /\ CallsIn(<<>>) = {} /\ TokensOf(<<>>) = {} /\ OnePerCall(<<>>)
  BY DEF CallsIn, TokensOf, OnePerCall

\* the calls and tokens of a content as those of its blocks,
LEMMA ContentOfBlocks ==
    ASSUME NEW q
    PROVE  /\ CallsIn(q) = {b.call : b \in ToSet(q)} \ {NoCall}
           /\ TokensOf(q) = {b.token : b \in ToSet(q)} \ {NoNews}
  BY DEF CallsIn, TokensOf, ToSet

\* what one block adds to it,
LEMMA ContentAppend ==
    ASSUME NEW S, NEW s \in Seq(S), NEW x \in S
    PROVE  /\ CallsIn(Append(s, x)) = CallsIn(s) \cup ({x.call} \ {NoCall})
           /\ TokensOf(Append(s, x)) = TokensOf(s) \cup ({x.token} \ {NoNews})
  <1>1. ToSet(Append(s, x)) = ToSet(s) \cup {x}
    BY ToSetAppend
  <1>2. /\ {b.call : b \in ToSet(Append(s, x))} = {b.call : b \in ToSet(s)} \cup {x.call}
        /\ {b.token : b \in ToSet(Append(s, x))} = {b.token : b \in ToSet(s)} \cup {x.token}
    BY <1>1
  <1>3. /\ CallsIn(Append(s, x)) = {b.call : b \in ToSet(Append(s, x))} \ {NoCall}
        /\ TokensOf(Append(s, x)) = {b.token : b \in ToSet(Append(s, x))} \ {NoNews}
        /\ CallsIn(s) = {b.call : b \in ToSet(s)} \ {NoCall}
        /\ TokensOf(s) = {b.token : b \in ToSet(s)} \ {NoNews}
    BY ContentOfBlocks
  <1>4. CallsIn(Append(s, x)) = CallsIn(s) \cup ({x.call} \ {NoCall})
    BY <1>2, <1>3
  <1>5. TokensOf(Append(s, x)) = TokensOf(s) \cup ({x.token} \ {NoNews})
    BY <1>2, <1>3
  <1> QED
    BY <1>4, <1>5

\* The elements of two sequences, one after the other,
LEMMA ToSetConcat ==
    ASSUME NEW S, NEW s \in Seq(S), NEW t \in Seq(S)
    PROVE  ToSet(s \o t) = ToSet(s) \cup ToSet(t)
  <1> DEFINE r == s \o t
             m == Len(s)
             n == Len(t)
  <1>1. m \in Nat /\ n \in Nat /\ DOMAIN s = 1 .. m /\ DOMAIN t = 1 .. n /\ DOMAIN r = 1 .. m + n
    OBVIOUS
  <1>2. /\ \A i \in 1 .. m : r[i] = s[i]
        /\ \A i \in 1 .. n : r[m + i] = t[i]
    OBVIOUS
  <1>3. \A i \in 1 .. m + n : i \in 1 .. m \/ (i - m \in 1 .. n /\ r[i] = t[i - m])
    BY <1>1, <1>2
  <1>4. \A i \in 1 .. n : m + i \in 1 .. m + n
    BY <1>1
  <1>5. \A i \in 1 .. m : i \in 1 .. m + n
    BY <1>1
  <1> HIDE DEF r, m, n
  <1>6. ToSet(r) \subseteq ToSet(s) \cup ToSet(t)
    BY <1>1, <1>2, <1>3 DEF ToSet
  <1>7. ToSet(s) \subseteq ToSet(r)
    BY <1>1, <1>2, <1>5 DEF ToSet
  <1>8. ToSet(t) \subseteq ToSet(r)
    BY <1>1, <1>2, <1>4 DEF ToSet
  <1> QED
    BY <1>6, <1>7, <1>8 DEF r

\* and their calls and tokens.
LEMMA ContentConcat ==
    ASSUME NEW S, NEW s \in Seq(S), NEW t \in Seq(S)
    PROVE  /\ CallsIn(s \o t) = CallsIn(s) \cup CallsIn(t)
           /\ TokensOf(s \o t) = TokensOf(s) \cup TokensOf(t)
  <1>1. ToSet(s \o t) = ToSet(s) \cup ToSet(t)
    BY ToSetConcat
  <1>2. /\ {b.call : b \in ToSet(s \o t)} = {b.call : b \in ToSet(s)} \cup {b.call : b \in ToSet(t)}
        /\ {b.token : b \in ToSet(s \o t)} = {b.token : b \in ToSet(s)} \cup {b.token : b \in ToSet(t)}
    BY <1>1
  <1>3. /\ CallsIn(s \o t) = {b.call : b \in ToSet(s \o t)} \ {NoCall}
        /\ TokensOf(s \o t) = {b.token : b \in ToSet(s \o t)} \ {NoNews}
        /\ CallsIn(s) = {b.call : b \in ToSet(s)} \ {NoCall}
        /\ TokensOf(s) = {b.token : b \in ToSet(s)} \ {NoNews}
        /\ CallsIn(t) = {b.call : b \in ToSet(t)} \ {NoCall}
        /\ TokensOf(t) = {b.token : b \in ToSet(t)} \ {NoNews}
    BY ContentOfBlocks
  <1>4. CallsIn(s \o t) = CallsIn(s) \cup CallsIn(t)
    BY <1>2, <1>3
  <1>5. TokensOf(s \o t) = TokensOf(s) \cup TokensOf(t)
    BY <1>2, <1>3
  <1> QED
    BY <1>4, <1>5

\* Results of calls that had none so far leave one a call: one more block,
LEMMA OnePerCallAppend ==
    ASSUME NEW S, NEW s \in Seq(S), NEW x \in S, OnePerCall(s), x.call \notin CallsIn(s)
    PROVE  OnePerCall(Append(s, x))
  <1> DEFINE r == Append(s, x)
             n == Len(s)
  <1>1. n \in Nat /\ DOMAIN s = 1 .. n /\ DOMAIN r = 1 .. n + 1
    OBVIOUS
  <1>2. r[n + 1] = x /\ \A i \in 1 .. n : r[i] = s[i]
    OBVIOUS
  <1>3. \A i \in 1 .. n + 1 : i \in 1 .. n \/ i = n + 1
    BY <1>1
  <1> HIDE DEF r, n
  <1>4. SUFFICES ASSUME NEW i \in 1 .. n + 1, NEW j \in 1 .. n + 1,
                        r[i].call = r[j].call, r[i].call # NoCall
                 PROVE  i = j
    BY <1>1, <1>4 DEF OnePerCall, r
  <1>5. CASE i \in 1 .. n /\ j \in 1 .. n
    BY <1>1, <1>2, <1>4, <1>5 DEF OnePerCall
  <1>6. CASE i \in 1 .. n /\ j = n + 1
    BY <1>1, <1>2, <1>4, <1>6 DEF CallsIn
  <1>7. CASE i = n + 1 /\ j \in 1 .. n
    BY <1>1, <1>2, <1>4, <1>7 DEF CallsIn
  <1> QED
    BY <1>3, <1>5, <1>6, <1>7

\* or another content in front.
LEMMA OnePerCallConcat ==
    ASSUME NEW S, NEW s \in Seq(S), NEW t \in Seq(S), OnePerCall(s), OnePerCall(t),
           CallsIn(s) \cap CallsIn(t) = {}
    PROVE  OnePerCall(s \o t)
  <1> DEFINE r == s \o t
             m == Len(s)
             n == Len(t)
  <1>1. m \in Nat /\ n \in Nat /\ DOMAIN s = 1 .. m /\ DOMAIN t = 1 .. n /\ DOMAIN r = 1 .. m + n
    OBVIOUS
  <1>2. \A i \in 1 .. m : r[i] = s[i]
    OBVIOUS
  <1>3. \A i \in 1 .. m + n : i \in 1 .. m \/ (i - m \in 1 .. n /\ r[i] = t[i - m])
    OBVIOUS
  <1> HIDE DEF r, m, n
  <1>4. SUFFICES ASSUME NEW i \in 1 .. m + n, NEW j \in 1 .. m + n,
                        r[i].call = r[j].call, r[i].call # NoCall
                 PROVE  i = j
    BY <1>1, <1>4 DEF OnePerCall, r
  <1>5. CASE i \in 1 .. m /\ j \in 1 .. m
    BY <1>1, <1>2, <1>4, <1>5 DEF OnePerCall
  <1>6. CASE i \in 1 .. m /\ j \notin 1 .. m
    BY <1>1, <1>2, <1>3, <1>4, <1>6 DEF CallsIn
  <1>7. CASE i \notin 1 .. m /\ j \in 1 .. m
    BY <1>1, <1>2, <1>3, <1>4, <1>7 DEF CallsIn
  <1>8. CASE i \notin 1 .. m /\ j \notin 1 .. m
    <2>1. i - m \in 1 .. n /\ j - m \in 1 .. n /\ t[i - m].call = t[j - m].call /\ t[i - m].call # NoCall
      BY <1>3, <1>4, <1>8
    <2>2. i - m = j - m
      BY <1>1, <2>1 DEF OnePerCall
    <2> QED
      BY <1>1, <2>2
  <1> QED
    BY <1>5, <1>6, <1>7, <1>8

\* The part of a content that has one result a call has one a call.
LEMMA OnePerCallPart ==
    ASSUME NEW S, NEW s \in Seq(S), NEW x \in S, OnePerCall(Append(s, x))
    PROVE  OnePerCall(s) /\ x.call \notin CallsIn(s)
  <1> DEFINE r == Append(s, x)
             n == Len(s)
  <1>1. n \in Nat /\ DOMAIN s = 1 .. n /\ DOMAIN r = 1 .. n + 1
    OBVIOUS
  <1>2. r[n + 1] = x /\ \A i \in 1 .. n : r[i] = s[i]
    OBVIOUS
  <1>3. n + 1 \in 1 .. n + 1 /\ n + 1 \notin 1 .. n /\ \A i \in 1 .. n : i \in 1 .. n + 1
    BY <1>1
  <1>4. OnePerCall(r)
    OBVIOUS
  <1> HIDE DEF r, n
  <1>5. OnePerCall(s)
    BY <1>1, <1>2, <1>3, <1>4 DEF OnePerCall
  <1>6. \A i \in 1 .. n : s[i].call = x.call => x.call = NoCall
    BY <1>1, <1>2, <1>3, <1>4 DEF OnePerCall
  <1> QED
    BY <1>1, <1>5, <1>6 DEF CallsIn

\* A selection of a content with one result a call has one a call.
LEMMA OnePerCallSelected ==
    ASSUME NEW S, NEW K, NEW s \in Seq(S), OnePerCall(s)
    PROVE  OnePerCall(Selected(s, K))
  <1> DEFINE Q == {r \in Seq(S) : OnePerCall(r) => OnePerCall(Selected(r, K))}
  <1>1. <<>> \in Q
    BY SelectedEmpty
  <1>2. ASSUME NEW r \in Seq(S), NEW x \in S, r \in Q
        PROVE  Append(r, x) \in Q
    <2>1. /\ Selected(r, K) \in Seq(S)
          /\ Selected(Append(r, x), K)
               = IF x \in K THEN Append(Selected(r, K), x) ELSE Selected(r, K)
      BY SelectedAppend
    <2>2. ASSUME OnePerCall(Append(r, x)) PROVE OnePerCall(Selected(Append(r, x), K))
      <3>1. OnePerCall(r) /\ x.call \notin CallsIn(r)
        BY <2>2, OnePerCallPart
      <3>2. OnePerCall(Selected(r, K))
        BY <1>2, <3>1
      <3>3. ToSet(Selected(r, K)) \subseteq ToSet(r)
        BY SelectedElements
      <3>4. CallsIn(Selected(r, K)) \subseteq CallsIn(r)
        BY <3>3, ContentOfBlocks
      <3>5. OnePerCall(Append(Selected(r, K), x))
        BY <2>1, <3>1, <3>2, <3>4, OnePerCallAppend
      <3> QED
        BY <2>1, <3>2, <3>5
    <2>3. Append(r, x) \in Seq(S)
      OBVIOUS
    <2> QED
      BY <2>2, <2>3
  <1>3. Seq(S) \subseteq Q
    <2> HIDE DEF Q
    <2> QED
      BY <1>1, <1>2, SeqInduction
  <1> QED
    BY <1>3

-----------------------------------------------------------------------------
(* WithoutRepeats *)

FirstAdder(S) == [p \in Seq(S) \X S |-> AddFirst(p[1], p[2])]

\* The step of WithoutRepeats takes a content to a content.
LEMMA FirstAdderType ==
    ASSUME NEW S
    PROVE  FirstAdder(S) \in [Seq(S) \X S -> Seq(S)]
  BY DEF FirstAdder, AddFirst

\* WithoutRepeats as the end of an iteration over the content.
LEMMA WithoutRepeatsIterates ==
    ASSUME NEW S, NEW s \in Seq(S)
    PROVE  \E it : /\ Iterates(it, s, <<>>, FirstAdder(S), Seq(S))
                   /\ WithoutRepeats(s) = it[DOMAIN s]
  <1> DEFINE G == FirstAdder(S)
             Value(g, D) == IF D = {} THEN <<>> ELSE AddFirst(g[D \ {Max(D)}], s[Max(D)])
             it == CHOOSE g : g = [D \in SUBSET DOMAIN s |-> Value(g, D)]
  <1>0. <<>> \in Seq(S)
    OBVIOUS
  <1>1. PICK f : Folds(f, s, <<>>, G, Seq(S))
    <2>1. G \in [Seq(S) \X S -> Seq(S)]
      BY FirstAdderType
    <2> HIDE DEF G
    <2> QED
      BY <1>0, <2>1, FoldExists, Zenon
  <1>2. \A v \in Seq(S), x \in S : G[<<v, x>>] = AddFirst(v, x)
    BY DEF FirstAdder
  <1> HIDE DEF G
  <1>3. f = [D \in SUBSET DOMAIN s |-> Value(f, D)]
    <2> SUFFICES ASSUME NEW D \in SUBSET DOMAIN s PROVE f[D] = Value(f, D)
      BY <1>1 DEF Folds
    <2>1. CASE D = {}
      BY <1>1, <2>1 DEF Folds
    <2>2. CASE D # {}
      <3>1. Max(D) \in DOMAIN s
        BY <2>2, MaxIn
      <3>2. s[Max(D)] \in S /\ f[D \ {Max(D)}] \in Seq(S)
        BY <1>1, <3>1 DEF Folds
      <3>3. f[D] = G[<<f[D \ {Max(D)}], s[Max(D)]>>]
        BY <1>1, <2>2 DEF Folds
      <3> QED
        BY <1>2, <2>2, <3>2, <3>3
    <2> QED
      BY <2>1, <2>2
  <1>4. it = [D \in SUBSET DOMAIN s |-> Value(it, D)]
    <2> HIDE DEF Value
    <2> QED
      BY <1>3
  <1>5. WithoutRepeats(s) = it[DOMAIN s]
    BY DEF WithoutRepeats, FoldLeft, MapThenFoldSet
  <1> HIDE DEF it
  <1>6. Iterates(it, s, <<>>, G, Seq(S))
    <2>1. it[{}] = <<>>
      BY <1>4
    <2>2. ASSUME NEW D \in SUBSET DOMAIN s, D # {}, it[D \ {Max(D)}] \in Seq(S)
          PROVE  it[D] = G[<<it[D \ {Max(D)}], s[Max(D)]>>]
      <3>1. Max(D) \in DOMAIN s
        BY <2>2, MaxIn
      <3>2. s[Max(D)] \in S
        BY <3>1
      <3>3. it[D] = Value(it, D)
        BY <1>4
      <3> QED
        BY <1>2, <2>2, <3>2, <3>3
    <2> QED
      BY <2>1, <2>2 DEF Iterates
  <1> QED
    BY <1>5, <1>6 DEF G

\* What it returns for the empty content, and for one that grows.
LEMMA WithoutRepeatsEmpty ==
    WithoutRepeats(<<>>) = <<>>
  <1>1. <<>> \in Seq({}) /\ DOMAIN <<>> = {}
    OBVIOUS
  <1>2. PICK it : /\ Iterates(it, <<>>, <<>>, FirstAdder({}), Seq({}))
                  /\ WithoutRepeats(<<>>) = it[DOMAIN <<>>]
    BY <1>1, WithoutRepeatsIterates
  <1> QED
    BY <1>1, <1>2 DEF Iterates

\* A block is added to what it returns, or repeats a result there.
LEMMA WithoutRepeatsAppend ==
    ASSUME NEW S, NEW s \in Seq(S), NEW x \in S
    PROVE  /\ WithoutRepeats(s) \in Seq(S)
           /\ WithoutRepeats(Append(s, x)) = AddFirst(WithoutRepeats(s), x)
  <1> DEFINE G == FirstAdder(S)
             V == Seq(S)
  <1>0. <<>> \in V /\ Append(s, x) \in Seq(S)
    OBVIOUS
  <1>1. G \in [V \X S -> V]
    BY FirstAdderType
  <1>2. PICK it : Iterates(it, s, <<>>, G, V) /\ WithoutRepeats(s) = it[DOMAIN s]
    BY WithoutRepeatsIterates
  <1>3. PICK it2 : /\ Iterates(it2, Append(s, x), <<>>, G, V)
                   /\ WithoutRepeats(Append(s, x)) = it2[DOMAIN Append(s, x)]
    BY <1>0, WithoutRepeatsIterates
  <1>4. /\ it[DOMAIN s] \in V
        /\ it2[DOMAIN Append(s, x)] = G[<<it[DOMAIN s], x>>]
    <2>1. Grows(S, V, <<>>, G, s, x, it, it2)
      BY <1>0, <1>1, <1>2, <1>3 DEF Grows
    <2> HIDE DEF G, V
    <2> QED
      BY <2>1, FoldUnique
  <1>5. \A v \in V : G[<<v, x>>] = AddFirst(v, x)
    BY DEF FirstAdder
  <1> HIDE DEF G, V
  <1> QED
    BY <1>2, <1>3, <1>4, <1>5 DEF V

\* Repeats are dropped: what stays answers the same calls, once each, with
\* blocks of the content, and nothing is dropped where nothing is repeated.
LEMMA WithoutRepeatsOnce ==
    ASSUME NEW S, NEW s \in Seq(S)
    PROVE  /\ WithoutRepeats(s) \in Seq(S)
           /\ CallsIn(WithoutRepeats(s)) = CallsIn(s)
           /\ OnePerCall(WithoutRepeats(s))
           /\ ToSet(WithoutRepeats(s)) \subseteq ToSet(s)
           /\ OnePerCall(s) => WithoutRepeats(s) = s
  <1> DEFINE Right(q) == /\ WithoutRepeats(q) \in Seq(S)
                         /\ CallsIn(WithoutRepeats(q)) = CallsIn(q)
                         /\ OnePerCall(WithoutRepeats(q))
                         /\ ToSet(WithoutRepeats(q)) \subseteq ToSet(q)
                         /\ OnePerCall(q) => WithoutRepeats(q) = q
             Q == {q \in Seq(S) : Right(q)}
  <1>1. <<>> \in Q
    <2>1. <<>> \in Seq(S)
      OBVIOUS
    <2>2. Right(<<>>)
      BY <2>1, WithoutRepeatsEmpty, EmptyContent
    <2> QED
      BY <2>1, <2>2
  <1>2. ASSUME NEW q \in Seq(S), NEW x \in S, q \in Q
        PROVE  Append(q, x) \in Q
    <2> DEFINE r == Append(q, x)
               w == WithoutRepeats(q)
    <2>1. w \in Seq(S) /\ WithoutRepeats(r) = AddFirst(w, x)
      BY WithoutRepeatsAppend
    <2>2. /\ CallsIn(w) = CallsIn(q) /\ OnePerCall(w) /\ ToSet(w) \subseteq ToSet(q)
          /\ OnePerCall(q) => w = q
      BY <1>2
    <2>3. r \in Seq(S) /\ CallsIn(r) = CallsIn(q) \cup ({x.call} \ {NoCall})
          /\ ToSet(r) = ToSet(q) \cup {x}
      BY ContentAppend, ToSetAppend
    <2> HIDE DEF w, r, Q
    <2>4. /\ Append(w, x) \in Seq(S) /\ ToSet(Append(w, x)) = ToSet(w) \cup {x}
          /\ CallsIn(Append(w, x)) = CallsIn(w) \cup ({x.call} \ {NoCall})
      BY <2>1, ContentAppend, ToSetAppend
    <2>5. OnePerCall(r) => OnePerCall(q) /\ x.call \notin CallsIn(q)
      BY OnePerCallPart DEF r
    <2>6. ASSUME x.call # NoCall, x.call \in CallsIn(w) PROVE Right(r)
      <3>1. WithoutRepeats(r) = w
        BY <2>1, <2>6 DEF AddFirst
      <3> QED
        BY <2>1, <2>2, <2>3, <2>5, <2>6, <3>1
    <2>7. ASSUME ~(x.call # NoCall /\ x.call \in CallsIn(w)) PROVE Right(r)
      <3>1. WithoutRepeats(r) = Append(w, x)
        BY <2>1, <2>7 DEF AddFirst
      <3>2. x.call \notin CallsIn(w)
        BY <2>7 DEF CallsIn
      <3>3. OnePerCall(Append(w, x))
        BY <2>1, <2>2, <3>2, OnePerCallAppend
      <3>4. OnePerCall(r) => Append(w, x) = r
        BY <2>2, <2>5 DEF r
      <3> QED
        BY <2>2, <2>3, <2>4, <3>1, <3>3, <3>4
    <2>8. Right(r)
      BY <2>6, <2>7
    <2> QED
      BY <2>3, <2>8 DEF Q, r
  <1>3. Seq(S) \subseteq Q
    <2> HIDE DEF Q
    <2> QED
      BY <1>1, <1>2, SeqInduction
  <1> QED
    BY <1>3

\* The first result of a call stays.
LEMMA FirstResultStays ==
    ASSUME NEW S, NEW s \in Seq(S), NEW k \in DOMAIN s,
           s[k].call \notin CallsIn(SubSeq(s, 1, k - 1))
    PROVE  s[k] \in ToSet(WithoutRepeats(s))
  <1> DEFINE First(q, i) == q[i].call \notin CallsIn(SubSeq(q, 1, i - 1))
             Right(q) == \A i \in DOMAIN q : First(q, i) => q[i] \in ToSet(WithoutRepeats(q))
             Q == {q \in Seq(S) : Right(q)}
  <1>1. <<>> \in Q
    OBVIOUS
  <1>2. ASSUME NEW q \in Seq(S), NEW x \in S, q \in Q
        PROVE  Append(q, x) \in Q
    <2> DEFINE r == Append(q, x)
               w == WithoutRepeats(q)
               n == Len(q)
    <2>1. w \in Seq(S) /\ WithoutRepeats(r) = AddFirst(w, x) /\ CallsIn(w) = CallsIn(q)
      BY WithoutRepeatsAppend, WithoutRepeatsOnce
    <2>2. /\ n \in Nat /\ DOMAIN q = 1 .. n /\ DOMAIN r = 1 .. n + 1 /\ r \in Seq(S)
          /\ r[n + 1] = x /\ \A i \in 1 .. n : r[i] = q[i]
      OBVIOUS
    <2>3. \A i \in 1 .. n + 1 : i \in 1 .. n \/ i = n + 1
      BY <2>2
    <2>4. \A i \in 1 .. n : SubSeq(r, 1, i - 1) = SubSeq(q, 1, i - 1)
      <3> SUFFICES ASSUME NEW i \in 1 .. n
                   PROVE  SubSeq(r, 1, i - 1) = SubSeq(q, 1, i - 1)
        OBVIOUS
      <3>1. i - 1 \in Nat /\ i - 1 <= n
        BY <2>2
      <3> QED
        BY <3>1
    <2>5. SubSeq(r, 1, n + 1 - 1) = q
      <3>1. n + 1 - 1 = n
        BY <2>2
      <3>2. SubSeq(r, 1, n) = q
        OBVIOUS
      <3> QED
        BY <3>1, <3>2
    <2> HIDE DEF w, r, n
    <2>6. ToSet(w) \subseteq ToSet(WithoutRepeats(r))
      BY <2>1, ToSetAppend DEF AddFirst
    <2>7. ASSUME NEW i \in 1 .. n, First(r, i) PROVE r[i] \in ToSet(WithoutRepeats(r))
      <3>1. First(q, i)
        BY <2>2, <2>4, <2>7
      <3>2. q[i] \in ToSet(w)
        BY <1>2, <2>2, <3>1 DEF w
      <3> QED
        BY <2>2, <2>6, <3>2
    <2>8. ASSUME First(r, n + 1) PROVE r[n + 1] \in ToSet(WithoutRepeats(r))
      <3>0. x.call \notin CallsIn(SubSeq(r, 1, n + 1 - 1))
        BY <2>2, <2>8
      <3>1. x.call \notin CallsIn(w)
        BY <2>1, <2>5, <3>0
      <3>2. WithoutRepeats(r) = Append(w, x)
        BY <2>1, <3>1 DEF AddFirst
      <3>3. ToSet(Append(w, x)) = ToSet(w) \cup {x}
        BY <2>1, ToSetAppend
      <3> QED
        BY <2>2, <3>2, <3>3
    <2>9. Right(r)
      BY <2>2, <2>3, <2>7, <2>8
    <2> QED
      BY <2>2, <2>9 DEF r
  <1>3. Seq(S) \subseteq Q
    <2> HIDE DEF Q
    <2> QED
      BY <1>1, <1>2, SeqInduction
  <1> QED
    BY <1>3

-----------------------------------------------------------------------------
(* Relabelled *)

Accs(C, T) == [out : Seq(BlocksOf(C, T)), used : SUBSET C, seen : Nat]
NoAcc == [out |-> <<>>, used |-> {}, seen |-> 0]
Relabeller(C, T, calls) == [p \in Accs(C, T) \X BlocksOf(C, T) |-> Relabel(p[1], p[2], calls)]
Relabelling(content, calls) == FoldLeft(LAMBDA acc, b : Relabel(acc, b, calls), NoAcc, content)

\* The calls of a content are of the type of its blocks.
LEMMA CallsInType ==
    ASSUME NEW C, NEW T, NEW q \in Seq(BlocksOf(C, T))
    PROVE  CallsIn(q) \subseteq C
  <1>1. \A i \in DOMAIN q : q[i] \in BlocksOf(C, T)
    OBVIOUS
  <1> QED
    BY <1>1 DEF CallsIn, BlocksOf

\* r is what a step of Relabelled makes of acc: b is added as it is, nothing
\* is, or a result that answers an unused call.
RelabelStep(C, T, calls, acc, b, r) ==
    /\ r \in Accs(C, T)
    /\ \/ b.call = NoCall /\ r.out = Append(acc.out, b) /\ r.used = acc.used
       \/ /\ b.call # NoCall /\ b.call \notin CallsIn(calls) \ acc.used
          /\ r.out = acc.out /\ r.used = acc.used
       \/ \E y \in BlocksOf(C, T) :
             /\ b.call # NoCall /\ y.call \in CallsIn(calls) \ acc.used
             /\ b.call \in CallsIn(calls) \ acc.used => y = b
             /\ r.out = Append(acc.out, y) /\ r.used = acc.used \cup {y.call}

\* Relabel is such a step.
LEMMA RelabelDoes ==
    ASSUME NEW C, NEW T, NEW calls \in Seq(BlocksOf(C, T)),
           NEW acc \in Accs(C, T), NEW b \in BlocksOf(C, T)
    PROVE  RelabelStep(C, T, calls, acc, b, Relabel(acc, b, calls))
  <1> DEFINE ids == CallsIn(calls)
             n == acc.seen + 1
             byPosition == IF n <= Len(calls) THEN calls[n].call ELSE NoCall
             id == IF b.call \in ids \ acc.used THEN b.call ELSE byPosition
             r == Relabel(acc, b, calls)
  <1>1. /\ acc.out \in Seq(BlocksOf(C, T)) /\ acc.used \subseteq C /\ acc.seen \in Nat /\ n \in Nat
        /\ acc = [out |-> acc.out, used |-> acc.used, seen |-> acc.seen]
    BY DEF Accs
  <1>2. ids \subseteq C
    BY CallsInType
  <1>3. byPosition \in ids \cup {NoCall}
    <2>1. CASE n <= Len(calls)
      <3>1. n \in DOMAIN calls /\ byPosition = calls[n].call
        BY <1>1, <2>1
      <3> QED
        BY <3>1 DEF CallsIn
    <2>2. CASE ~(n <= Len(calls))
      BY <2>2
    <2> QED
      BY <2>1, <2>2
  <1>4. r = CASE b.call = NoCall -> [acc EXCEPT !.out = Append(@, b)]
              [] b.call # NoCall /\ id \in acc.used \union {NoCall} -> [acc EXCEPT !.seen = n]
              [] OTHER -> [out |-> Append(acc.out, [b EXCEPT !.call = id]),
                           used |-> acc.used \union {id}, seen |-> n]
    BY DEF Relabel
  <1>5. NoCall \notin ids
    BY DEF CallsIn
  <1>6. id \in ids \cup {NoCall}
    BY <1>3
  <1>7. b.call \in ids \ acc.used => id = b.call
    OBVIOUS
  <1> HIDE DEF ids, n, byPosition, id, r
  <1>8. CASE b.call = NoCall
    <2>1. r = [out |-> Append(acc.out, b), used |-> acc.used, seen |-> acc.seen]
      BY <1>1, <1>4, <1>8
    <2>2. r \in Accs(C, T)
      BY <1>1, <2>1 DEF Accs
    <2> QED
      BY <1>8, <2>1, <2>2 DEF r, RelabelStep
  <1>9. CASE b.call # NoCall /\ id \in acc.used \union {NoCall}
    <2>1. r = [out |-> acc.out, used |-> acc.used, seen |-> n]
      BY <1>1, <1>4, <1>9
    <2>2. r \in Accs(C, T)
      BY <1>1, <2>1 DEF Accs
    <2>3. b.call \notin ids \ acc.used
      BY <1>7, <1>9
    <2> QED
      BY <1>9, <2>1, <2>2, <2>3 DEF r, ids, RelabelStep
  <1>10. CASE b.call # NoCall /\ id \notin acc.used \union {NoCall}
    <2>1. r = [out |-> Append(acc.out, [b EXCEPT !.call = id]),
               used |-> acc.used \union {id}, seen |-> n]
      BY <1>1, <1>4, <1>10
    <2>2. id \in ids \ acc.used /\ id \in C
      BY <1>2, <1>6, <1>10
    <2> DEFINE y == [b EXCEPT !.call = id]
    <2>3. y \in BlocksOf(C, T) /\ y.call = id /\ (b.call = id => y = b)
      BY <2>2 DEF BlocksOf
    <2>4. r = [out |-> Append(acc.out, y), used |-> acc.used \union {id}, seen |-> n]
      BY <2>1
    <2> HIDE DEF y
    <2>5. r \in Accs(C, T)
      BY <1>1, <2>2, <2>3, <2>4 DEF Accs
    <2>6. /\ b.call # NoCall /\ y.call \in ids \ acc.used
          /\ b.call \in ids \ acc.used => y = b
          /\ r.out = Append(acc.out, y) /\ r.used = acc.used \cup {y.call}
      BY <1>7, <1>10, <2>2, <2>3, <2>4
    <2> QED
      BY <2>3, <2>5, <2>6 DEF r, ids, RelabelStep
  <1> QED
    BY <1>8, <1>9, <1>10

\* The step of Relabelled takes an accumulator to an accumulator.
LEMMA RelabellerType ==
    ASSUME NEW C, NEW T, NEW calls \in Seq(BlocksOf(C, T))
    PROVE  Relabeller(C, T, calls) \in [Accs(C, T) \X BlocksOf(C, T) -> Accs(C, T)]
  <1>1. \A acc \in Accs(C, T), b \in BlocksOf(C, T) : Relabel(acc, b, calls) \in Accs(C, T)
    BY RelabelDoes DEF RelabelStep
  <1> QED
    BY <1>1 DEF Relabeller

\* Relabelled as the end of an iteration over the content.
LEMMA RelabellingIterates ==
    ASSUME NEW C, NEW T, NEW calls \in Seq(BlocksOf(C, T)), NEW s \in Seq(BlocksOf(C, T))
    PROVE  \E it : /\ Iterates(it, s, NoAcc, Relabeller(C, T, calls), Accs(C, T))
                   /\ Relabelling(s, calls) = it[DOMAIN s]
  <1> DEFINE G == Relabeller(C, T, calls)
             V == Accs(C, T)
             S == BlocksOf(C, T)
             Value(g, D) == IF D = {} THEN NoAcc
                            ELSE Relabel(g[D \ {Max(D)}], s[Max(D)], calls)
             it == CHOOSE g : g = [D \in SUBSET DOMAIN s |-> Value(g, D)]
  <1>0. NoAcc \in V
    BY DEF NoAcc, Accs
  <1>1. PICK f : Folds(f, s, NoAcc, G, V)
    <2>1. G \in [V \X S -> V]
      BY RelabellerType
    <2> HIDE DEF G, V, S
    <2>2. s \in Seq(S)
      BY DEF S
    <2> QED
      BY <1>0, <2>1, <2>2, FoldExists, Zenon
  <1>2. \A v \in V, x \in S : G[<<v, x>>] = Relabel(v, x, calls)
    BY DEF Relabeller
  <1>3. s \in Seq(S)
    OBVIOUS
  <1> HIDE DEF G, V, S
  <1>4. f = [D \in SUBSET DOMAIN s |-> Value(f, D)]
    <2> SUFFICES ASSUME NEW D \in SUBSET DOMAIN s PROVE f[D] = Value(f, D)
      BY <1>1 DEF Folds
    <2>1. CASE D = {}
      BY <1>1, <2>1 DEF Folds
    <2>2. CASE D # {}
      <3>1. Max(D) \in DOMAIN s
        BY <1>3, <2>2, MaxIn
      <3>2. s[Max(D)] \in S /\ f[D \ {Max(D)}] \in V
        BY <1>1, <1>3, <3>1 DEF Folds
      <3>3. f[D] = G[<<f[D \ {Max(D)}], s[Max(D)]>>]
        BY <1>1, <2>2 DEF Folds
      <3> QED
        BY <1>2, <2>2, <3>2, <3>3
    <2> QED
      BY <2>1, <2>2
  <1>5. it = [D \in SUBSET DOMAIN s |-> Value(it, D)]
    <2> HIDE DEF Value
    <2> QED
      BY <1>4
  <1>6. Relabelling(s, calls) = it[DOMAIN s]
    BY DEF Relabelling, FoldLeft, MapThenFoldSet
  <1> HIDE DEF it
  <1>7. Iterates(it, s, NoAcc, G, V)
    <2>1. it[{}] = NoAcc
      BY <1>5
    <2>2. ASSUME NEW D \in SUBSET DOMAIN s, D # {}, it[D \ {Max(D)}] \in V
          PROVE  it[D] = G[<<it[D \ {Max(D)}], s[Max(D)]>>]
      <3>1. Max(D) \in DOMAIN s
        BY <1>3, <2>2, MaxIn
      <3>2. s[Max(D)] \in S
        BY <1>3, <3>1
      <3>3. it[D] = Value(it, D)
        BY <1>5
      <3> QED
        BY <1>2, <2>2, <3>2, <3>3
    <2> QED
      BY <2>1, <2>2 DEF Iterates
  <1> QED
    BY <1>6, <1>7 DEF G, V

\* What the walk has when nothing was walked,
LEMMA RelabellingEmpty ==
    ASSUME NEW C, NEW T, NEW calls \in Seq(BlocksOf(C, T))
    PROVE  Relabelling(<<>>, calls) = NoAcc
  <1>1. <<>> \in Seq(BlocksOf(C, T)) /\ DOMAIN <<>> = {}
    OBVIOUS
  <1>2. PICK it : /\ Iterates(it, <<>>, NoAcc, Relabeller(C, T, calls), Accs(C, T))
                  /\ Relabelling(<<>>, calls) = it[DOMAIN <<>>]
    BY <1>1, RelabellingIterates
  <1> QED
    BY <1>1, <1>2 DEF Iterates

\* and after one more block.
LEMMA RelabellingAppend ==
    ASSUME NEW C, NEW T, NEW calls \in Seq(BlocksOf(C, T)), NEW s \in Seq(BlocksOf(C, T)),
           NEW x \in BlocksOf(C, T)
    PROVE  /\ Relabelling(s, calls) \in Accs(C, T)
           /\ Relabelling(Append(s, x), calls) = Relabel(Relabelling(s, calls), x, calls)
  <1> DEFINE G == Relabeller(C, T, calls)
             V == Accs(C, T)
             S == BlocksOf(C, T)
  <1>0. NoAcc \in V /\ Append(s, x) \in Seq(S)
    BY DEF NoAcc, Accs
  <1>1. G \in [V \X S -> V]
    BY RelabellerType
  <1>2. PICK it : Iterates(it, s, NoAcc, G, V) /\ Relabelling(s, calls) = it[DOMAIN s]
    BY RelabellingIterates
  <1>3. PICK it2 : /\ Iterates(it2, Append(s, x), NoAcc, G, V)
                   /\ Relabelling(Append(s, x), calls) = it2[DOMAIN Append(s, x)]
    BY <1>0, RelabellingIterates
  <1>4. /\ it[DOMAIN s] \in V
        /\ it2[DOMAIN Append(s, x)] = G[<<it[DOMAIN s], x>>]
    <2>1. Grows(S, V, NoAcc, G, s, x, it, it2)
      BY <1>0, <1>1, <1>2, <1>3 DEF Grows
    <2> HIDE DEF G, V, S
    <2> QED
      BY <2>1, FoldUnique
  <1>5. \A v \in V : G[<<v, x>>] = Relabel(v, x, calls)
    BY DEF Relabeller
  <1> HIDE DEF G, V
  <1> QED
    BY <1>2, <1>3, <1>4, <1>5 DEF V

\* What the walk has so far: results of different calls of the message, and
\* the content itself as long as that answers those calls once.
RelabelledRight(C, T, calls, q) ==
    LET acc == Relabelling(q, calls)
    IN  /\ acc \in Accs(C, T)
        /\ CallsIn(acc.out) = acc.used /\ acc.used \subseteq CallsIn(calls)
        /\ OnePerCall(acc.out)
        /\ OnePerCall(q) /\ CallsIn(q) \subseteq CallsIn(calls) => acc.out = q

\* One more block keeps it so.
LEMMA RelabelKeepsRight ==
    ASSUME NEW C, NEW T, NEW calls \in Seq(BlocksOf(C, T)), NEW q \in Seq(BlocksOf(C, T)),
           NEW x \in BlocksOf(C, T), RelabelledRight(C, T, calls, q)
    PROVE  RelabelledRight(C, T, calls, Append(q, x))
  <1> DEFINE acc == Relabelling(q, calls)
             p == Append(q, x)
             r == Relabelling(p, calls)
             B == BlocksOf(C, T)
  <1>1. acc \in Accs(C, T) /\ r = Relabel(acc, x, calls)
    BY RelabellingAppend
  <1>2. RelabelStep(C, T, calls, acc, x, r)
    <2> HIDE DEF acc, r
    <2> QED
      BY <1>1, RelabelDoes
  <1>3. /\ CallsIn(acc.out) = acc.used /\ acc.used \subseteq CallsIn(calls) /\ OnePerCall(acc.out)
        /\ OnePerCall(q) /\ CallsIn(q) \subseteq CallsIn(calls) => acc.out = q
    BY DEF RelabelledRight
  <1>4. acc.out \in Seq(B) /\ NoCall \notin CallsIn(calls) /\ NoCall \notin CallsIn(acc.out)
    BY <1>1 DEF Accs, CallsIn
  <1>5. CallsIn(p) = CallsIn(q) \cup ({x.call} \ {NoCall})
    BY ContentAppend
  <1>6. OnePerCall(p) => OnePerCall(q) /\ x.call \notin CallsIn(q)
    BY OnePerCallPart
  <1>7. x \in B
    OBVIOUS
  <1>8. ASSUME /\ CallsIn(r.out) = r.used /\ r.used \subseteq CallsIn(calls)
               /\ OnePerCall(r.out)
               /\ OnePerCall(p) /\ CallsIn(p) \subseteq CallsIn(calls) => r.out = p
        PROVE  RelabelledRight(C, T, calls, p)
    BY <1>2, <1>8 DEF RelabelStep, RelabelledRight
  <1> HIDE DEF acc, r, p, B
  <1>9. CASE x.call = NoCall /\ r.out = Append(acc.out, x) /\ r.used = acc.used
    <2>1. CallsIn(r.out) = CallsIn(acc.out)
      <3>1. CallsIn(Append(acc.out, x)) = CallsIn(acc.out) \cup ({x.call} \ {NoCall})
        BY <1>4, <1>7, ContentAppend
      <3> QED
        BY <1>9, <3>1
    <2>2. OnePerCall(r.out)
      BY <1>3, <1>4, <1>7, <1>9, OnePerCallAppend
    <2>3. OnePerCall(p) /\ CallsIn(p) \subseteq CallsIn(calls) => r.out = p
      BY <1>3, <1>5, <1>6, <1>9 DEF p
    <2> QED
      BY <1>3, <1>8, <1>9, <2>1, <2>2, <2>3 DEF p
  <1>10. CASE /\ x.call # NoCall /\ x.call \notin CallsIn(calls) \ acc.used
              /\ r.out = acc.out /\ r.used = acc.used
    <2>1. ~(OnePerCall(p) /\ CallsIn(p) \subseteq CallsIn(calls))
      <3> SUFFICES ASSUME OnePerCall(p), CallsIn(p) \subseteq CallsIn(calls) PROVE FALSE
        OBVIOUS
      <3>1. acc.out = q /\ x.call \in CallsIn(calls) /\ x.call \notin CallsIn(q)
        BY <1>3, <1>5, <1>6, <1>10
      <3> QED
        BY <1>3, <1>10, <3>1
    <2> QED
      BY <1>3, <1>8, <1>10, <2>1 DEF p
  <1>11. CASE \E y \in BlocksOf(C, T) :
                 /\ x.call # NoCall /\ y.call \in CallsIn(calls) \ acc.used
                 /\ x.call \in CallsIn(calls) \ acc.used => y = x
                 /\ r.out = Append(acc.out, y) /\ r.used = acc.used \cup {y.call}
    <2>1. PICK y \in B :
                 /\ x.call # NoCall /\ y.call \in CallsIn(calls) \ acc.used
                 /\ x.call \in CallsIn(calls) \ acc.used => y = x
                 /\ r.out = Append(acc.out, y) /\ r.used = acc.used \cup {y.call}
      BY <1>11 DEF B
    <2>5. y.call # NoCall /\ y.call \notin CallsIn(acc.out)
      BY <1>3, <1>4, <2>1
    <2>6. CallsIn(r.out) = CallsIn(acc.out) \cup {y.call}
      <3>1. CallsIn(Append(acc.out, y)) = CallsIn(acc.out) \cup ({y.call} \ {NoCall})
        BY <1>4, ContentAppend
      <3> QED
        BY <2>1, <2>5, <3>1
    <2>7. OnePerCall(r.out)
      BY <1>3, <1>4, <2>1, <2>5, OnePerCallAppend
    <2>8. ASSUME OnePerCall(p), CallsIn(p) \subseteq CallsIn(calls) PROVE r.out = p
      <3>1. acc.out = q /\ x.call \in CallsIn(calls) /\ x.call \notin CallsIn(q)
        BY <1>3, <1>5, <1>6, <2>1, <2>8
      <3>2. y = x
        BY <1>3, <2>1, <3>1
      <3> QED
        BY <2>1, <3>1, <3>2 DEF p
    <2> QED
      BY <1>3, <1>8, <2>1, <2>6, <2>7, <2>8 DEF p
  <1> QED
    BY <1>2, <1>9, <1>10, <1>11 DEF p, RelabelStep

\* It is so for every content,
LEMMA RelabellingRight ==
    ASSUME NEW C, NEW T, NEW calls \in Seq(BlocksOf(C, T)), NEW s \in Seq(BlocksOf(C, T))
    PROVE  RelabelledRight(C, T, calls, s)
  <1> DEFINE B == BlocksOf(C, T)
             Q == {q \in Seq(B) : RelabelledRight(C, T, calls, q)}
  <1>1. <<>> \in Q
    <2>1. Relabelling(<<>>, calls) = NoAcc /\ <<>> \in Seq(B)
      BY RelabellingEmpty
    <2>2. NoAcc \in Accs(C, T) /\ NoAcc.out = <<>> /\ NoAcc.used = {}
      BY DEF NoAcc, Accs
    <2>3. CallsIn(<<>>) = {} /\ OnePerCall(<<>>)
      BY EmptyContent
    <2>4. RelabelledRight(C, T, calls, <<>>)
      BY <2>1, <2>2, <2>3 DEF RelabelledRight
    <2> QED
      BY <2>1, <2>4
  <1>2. ASSUME NEW q \in Seq(B), NEW x \in B, q \in Q
        PROVE  Append(q, x) \in Q
    <2>1. RelabelledRight(C, T, calls, Append(q, x))
      BY <1>2, RelabelKeepsRight
    <2> QED
      BY <2>1
  <1>3. Seq(B) \subseteq Q
    <2> HIDE DEF Q, B
    <2> QED
      BY <1>1, <1>2, SeqInduction
  <1> QED
    BY <1>3

\* so that repeated, misplaced and unknown ids leave one result for each call
\* that is answered, and right ones leave the content as it is.
LEMMA RelabelledOnce ==
    ASSUME NEW C, NEW T, NEW calls \in Seq(BlocksOf(C, T)), NEW s \in Seq(BlocksOf(C, T))
    PROVE  /\ Relabelled(s, calls) \in Seq(BlocksOf(C, T))
           /\ CallsIn(Relabelled(s, calls)) \subseteq CallsIn(calls)
           /\ OnePerCall(Relabelled(s, calls))
           /\ OnePerCall(s) /\ CallsIn(s) \subseteq CallsIn(calls) => Relabelled(s, calls) = s
  <1>1. Relabelled(s, calls) = Relabelling(s, calls).out
    BY DEF Relabelled, Relabelling, NoAcc
  <1>2. RelabelledRight(C, T, calls, s)
    BY RelabellingRight
  <1> QED
    BY <1>1, <1>2 DEF RelabelledRight, Accs

-----------------------------------------------------------------------------
\* Placeholders carry nothing and answer, once each, the calls without a result.
LEMMA UnansweredAnswers ==
    ASSUME NEW C, NEW T, NoNews \in T, NEW calls \in Seq(BlocksOf(C, T)), NEW s
    PROVE  /\ Unanswered(s, calls) \in Seq(BlocksOf(C, T))
           /\ CallsIn(Unanswered(s, calls)) = CallsIn(calls) \ CallsIn(s)
           /\ TokensOf(Unanswered(s, calls)) = {}
           /\ OnePerCall(calls) => OnePerCall(Unanswered(s, calls))
  <1> DEFINE K == {b \in ToSet(calls) : b.call \notin CallsIn(s)}
             open == Selected(calls, K)
             u == Unanswered(s, calls)
  <1>1. open \in Seq(BlocksOf(C, T)) /\ ToSet(open) = K
    BY SelectedSeq, SelectedElements
  <1>2. OnePerCall(calls) => OnePerCall(open)
    BY OnePerCallSelected
  <1>3. u = [i \in DOMAIN open |-> Block(open[i].call, NoNews)]
    BY DEF Unanswered
  <1>4. CallsIn(calls) \ CallsIn(s) = {b.call : b \in K} \ {NoCall}
    <2>1. CallsIn(calls) = {b.call : b \in ToSet(calls)} \ {NoCall}
      BY ContentOfBlocks
    <2> QED
      BY <2>1
  <1>5. CallsIn(open) = {b.call : b \in K} \ {NoCall}
    <2>1. CallsIn(open) = {b.call : b \in ToSet(open)} \ {NoCall}
      BY ContentOfBlocks
    <2> QED
      BY <1>1, <2>1
  <1> HIDE DEF K, open, u
  <1>6. /\ DOMAIN u = DOMAIN open
        /\ \A i \in DOMAIN open : u[i].call = open[i].call /\ u[i].token = NoNews
    BY <1>3 DEF Block
  <1>7. u \in Seq(BlocksOf(C, T))
    <2>1. \A i \in DOMAIN open : open[i].call \in C
      <3>1. \A i \in DOMAIN open : open[i] \in BlocksOf(C, T)
        BY <1>1
      <3> QED
        BY <3>1 DEF BlocksOf
    <2>2. \A i \in DOMAIN open : Block(open[i].call, NoNews) \in BlocksOf(C, T)
      BY <2>1 DEF Block, BlocksOf
    <2>3. Len(open) \in Nat /\ DOMAIN open = 1 .. Len(open)
      BY <1>1
    <2>4. u \in [1 .. Len(open) -> BlocksOf(C, T)]
      BY <1>3, <2>2, <2>3
    <2> QED
      BY <2>3, <2>4
  <1>8. CallsIn(u) = CallsIn(open)
    BY <1>6 DEF CallsIn
  <1>9. TokensOf(u) = {}
    BY <1>6 DEF TokensOf
  <1>10. OnePerCall(open) => OnePerCall(u)
    BY <1>6 DEF OnePerCall
  <1> QED
    BY <1>2, <1>4, <1>5, <1>7, <1>8, <1>9, <1>10 DEF u

-----------------------------------------------------------------------------
\* The content that enters the conversation after calls with different ids
\* answers each of them once and no other,
LEMMA ValidResultsAnswer ==
    ASSUME NEW C, NEW T, NoNews \in T, NEW content \in Seq(BlocksOf(C, T)), NEW history,
           LastCalls(history) \in Seq(BlocksOf(C, T)), OnePerCall(LastCalls(history))
    PROVE  LET calls == LastCalls(history)
               checked == ValidResults(content, history)
           IN  /\ checked \in Seq(BlocksOf(C, T))
               /\ calls # <<>> => CallsIn(checked) = CallsIn(calls) /\ OnePerCall(checked)
  <1> DEFINE calls == LastCalls(history)
             B == BlocksOf(C, T)
             unique == WithoutRepeats(content)
             fixed == Relabelled(unique, calls)
             more == Unanswered(fixed, calls)
             checked == ValidResults(content, history)
  <1>1. checked = CASE calls = <<>> -> content
                    [] calls # <<>> /\ CallsIn(unique) = CallsIn(calls) -> unique
                    [] OTHER -> more \o fixed
    BY DEF ValidResults
  <1>2. unique \in Seq(B) /\ OnePerCall(unique)
    BY WithoutRepeatsOnce
  <1>3. calls \in Seq(B) /\ OnePerCall(calls)
    OBVIOUS
  <1> HIDE DEF unique, calls, B
  <1>4. fixed \in Seq(B) /\ CallsIn(fixed) \subseteq CallsIn(calls) /\ OnePerCall(fixed)
    BY <1>2, <1>3, RelabelledOnce DEF B
  <1> HIDE DEF fixed
  <1>5. /\ more \in Seq(B) /\ CallsIn(more) = CallsIn(calls) \ CallsIn(fixed)
        /\ OnePerCall(more)
    BY <1>3, UnansweredAnswers DEF B
  <1> HIDE DEF more
  <1>6. /\ more \o fixed \in Seq(B) /\ CallsIn(more \o fixed) = CallsIn(calls)
        /\ OnePerCall(more \o fixed)
    <2>1. CallsIn(more \o fixed) = CallsIn(more) \cup CallsIn(fixed)
      BY <1>4, <1>5, ContentConcat
    <2>2. OnePerCall(more \o fixed)
      BY <1>4, <1>5, OnePerCallConcat
    <2>3. more \o fixed \in Seq(B)
      BY <1>4, <1>5
    <2> QED
      BY <1>4, <1>5, <2>1, <2>2, <2>3
  <1> HIDE DEF checked
  <1>7. checked \in Seq(B) /\ (calls # <<>> => CallsIn(checked) = CallsIn(calls) /\ OnePerCall(checked))
    <2>1. CASE calls = <<>>
      BY <1>1, <2>1 DEF B
    <2>2. CASE calls # <<>> /\ CallsIn(unique) = CallsIn(calls)
      BY <1>1, <1>2, <2>2
    <2>3. CASE calls # <<>> /\ CallsIn(unique) # CallsIn(calls)
      BY <1>1, <1>6, <2>3
    <2> QED
      BY <2>1, <2>2, <2>3
  <1> QED
    BY <1>7 DEF B, calls, checked

\* and has all that the content without its repeats had, unless that answered
\* something else.
LEMMA ValidResultsKeep ==
    ASSUME NEW C, NEW T, NoNews \in T, NEW content \in Seq(BlocksOf(C, T)), NEW history,
           LastCalls(history) \in Seq(BlocksOf(C, T)),
           LastCalls(history) = <<>> \/ CallsIn(content) \subseteq CallsIn(LastCalls(history))
    PROVE  LET checked == ValidResults(content, history)
           IN  /\ ToSet(WithoutRepeats(content)) \subseteq ToSet(checked)
               /\ OnePerCall(content) => TokensOf(checked) = TokensOf(content)
  <1> DEFINE calls == LastCalls(history)
             B == BlocksOf(C, T)
             unique == WithoutRepeats(content)
             fixed == Relabelled(unique, calls)
             more == Unanswered(fixed, calls)
             checked == ValidResults(content, history)
  <1>1. checked = CASE calls = <<>> -> content
                    [] calls # <<>> /\ CallsIn(unique) = CallsIn(calls) -> unique
                    [] OTHER -> more \o fixed
    BY DEF ValidResults
  <1>2. /\ unique \in Seq(B) /\ OnePerCall(unique) /\ CallsIn(unique) = CallsIn(content)
        /\ ToSet(unique) \subseteq ToSet(content) /\ (OnePerCall(content) => unique = content)
    BY WithoutRepeatsOnce
  <1>3. calls \in Seq(B) /\ (calls = <<>> \/ CallsIn(content) \subseteq CallsIn(calls))
    OBVIOUS
  <1> HIDE DEF unique, calls, B
  <1>4. calls # <<>> => fixed = unique
    BY <1>2, <1>3, RelabelledOnce DEF B
  <1> HIDE DEF fixed
  <1>5. more \in Seq(B) /\ TokensOf(more) = {}
    BY <1>3, UnansweredAnswers DEF B
  <1> HIDE DEF more, checked
  <1>6. /\ ToSet(unique) \subseteq ToSet(checked)
        /\ OnePerCall(content) => TokensOf(checked) = TokensOf(content)
    <2>1. CASE calls = <<>>
      BY <1>1, <1>2, <2>1
    <2>2. CASE calls # <<>> /\ CallsIn(unique) = CallsIn(calls)
      BY <1>1, <1>2, <2>2
    <2>3. CASE calls # <<>> /\ CallsIn(unique) # CallsIn(calls)
      <3>1. checked = more \o unique
        BY <1>1, <1>4, <2>3
      <3>2. ToSet(checked) = ToSet(more) \cup ToSet(unique)
        BY <1>2, <1>5, <3>1, ToSetConcat
      <3>3. TokensOf(checked) = TokensOf(more) \cup TokensOf(unique)
        <4>1. TokensOf(more \o unique) = TokensOf(more) \cup TokensOf(unique)
          <5>1. more \in Seq(B) /\ unique \in Seq(B)
            BY <1>2, <1>5
          <5> QED
            BY <5>1, ContentConcat
        <4> QED
          BY <3>1, <4>1
      <3> QED
        BY <1>2, <1>5, <3>2, <3>3
    <2> QED
      BY <2>1, <2>2, <2>3
  <1> QED
    BY <1>6 DEF unique, checked

\* e says where the elements of g are in q, in the same order: all those of q
\* that are in K, and no others.
Enumerates(e, g, q, K) ==
    /\ e \in [1 .. Len(g) -> 1 .. Len(q)]
    /\ \A i \in 1 .. Len(g) : g[i] = q[e[i]] /\ q[e[i]] \in K
    /\ \A i, j \in 1 .. Len(g) : i < j => e[i] < e[j]
    /\ \A p \in 1 .. Len(q) : q[p] \in K => \E i \in 1 .. Len(g) : e[i] = p

LEMMA SelectedIndices ==
    ASSUME NEW S, NEW K, NEW s \in Seq(S)
    PROVE  Selected(s, K) \in Seq(S) /\ \E e : Enumerates(e, Selected(s, K), s, K)
  <1> DEFINE Q == {r \in Seq(S) : \E e : Enumerates(e, Selected(r, K), r, K)}
  <1>1. <<>> \in Q
    <2>1. Enumerates(<<>>, <<>>, <<>>, K)
      BY DEF Enumerates
    <2>2. \E e : Enumerates(e, Selected(<<>>, K), <<>>, K)
      BY <2>1, SelectedEmpty
    <2> QED
      BY <2>2
  <1>2. ASSUME NEW r \in Seq(S), NEW x \in S, r \in Q
        PROVE  Append(r, x) \in Q
    <2> DEFINE k == Selected(r, K)
               a == Append(r, x)
    <2>1. /\ k \in Seq(S)
          /\ Selected(a, K) = IF x \in K THEN Append(k, x) ELSE k
      BY SelectedAppend
    <2>2. PICK e : Enumerates(e, k, r, K)
      BY <1>2
    <2>3. /\ a \in Seq(S) /\ Len(a) = Len(r) + 1 /\ a[Len(r) + 1] = x
          /\ \A i \in 1 .. Len(r) : a[i] = r[i]
      OBVIOUS
    <2>4. CASE x \notin K
      <3>1. Selected(a, K) = k
        BY <2>1, <2>4
      <3>2. Enumerates(e, k, a, K)
        <4> HIDE DEF k, a
        <4>0. Len(k) \in Nat /\ Len(r) \in Nat
          BY <2>1
        <4>1. e \in [1 .. Len(k) -> 1 .. Len(a)]
          BY <2>2, <2>3, <4>0 DEF Enumerates
        <4>2. \A i \in 1 .. Len(k) : k[i] = a[e[i]] /\ a[e[i]] \in K
          BY <2>2, <2>3, <4>0 DEF Enumerates
        <4>3. ASSUME NEW p \in 1 .. Len(a), a[p] \in K
              PROVE  \E i \in 1 .. Len(k) : e[i] = p
          <5>1. p # Len(r) + 1
            BY <2>3, <2>4, <4>3
          <5>2. p \in 1 .. Len(r) /\ r[p] \in K
            BY <2>3, <4>0, <4>3, <5>1
          <5> QED
            BY <2>2, <5>2 DEF Enumerates
        <4>4. \A i, j \in 1 .. Len(k) : i < j => e[i] < e[j]
          BY <2>2 DEF Enumerates
        <4> QED
          BY <4>1, <4>2, <4>3, <4>4 DEF Enumerates
      <3> QED
        BY <2>3, <3>1, <3>2
    <2>5. CASE x \in K
      <3> DEFINE g == Append(k, x)
                 f == [i \in 1 .. Len(k) + 1 |-> IF i = Len(k) + 1 THEN Len(r) + 1 ELSE e[i]]
      <3>0. /\ Len(g) = Len(k) + 1 /\ g[Len(k) + 1] = x /\ Len(k) \in Nat /\ Len(r) \in Nat
            /\ \A i \in 1 .. Len(k) : g[i] = k[i]
        BY <2>1
      <3>1. Selected(a, K) = g
        BY <2>1, <2>5
      <3>2. Enumerates(f, g, a, K)
        <4> HIDE DEF k, a, g
        <4>1. f \in [1 .. Len(g) -> 1 .. Len(a)]
          BY <2>2, <2>3, <3>0 DEF Enumerates
        <4>2. \A i \in 1 .. Len(g) : g[i] = a[f[i]] /\ a[f[i]] \in K
          <5>0. /\ e \in [1 .. Len(k) -> 1 .. Len(r)]
                /\ \A i \in 1 .. Len(k) : k[i] = r[e[i]] /\ r[e[i]] \in K
            BY <2>2 DEF Enumerates
          <5> SUFFICES ASSUME NEW i \in 1 .. Len(g) PROVE g[i] = a[f[i]] /\ a[f[i]] \in K
            OBVIOUS
          <5>1. CASE i = Len(k) + 1
            BY <2>3, <2>5, <3>0, <5>1
          <5>2. CASE i # Len(k) + 1
            <6>1. i \in 1 .. Len(k) /\ f[i] = e[i]
              BY <3>0, <5>2
            <6>2. g[i] = r[e[i]] /\ r[e[i]] \in K /\ e[i] \in 1 .. Len(r)
              BY <3>0, <5>0, <6>1
            <6> QED
              BY <2>3, <6>1, <6>2
          <5> QED
            BY <5>1, <5>2
        <4>3. ASSUME NEW i \in 1 .. Len(g), NEW j \in 1 .. Len(g), i < j PROVE f[i] < f[j]
          <5>1. i \in 1 .. Len(k) /\ f[i] = e[i] /\ e[i] \in 1 .. Len(r)
            BY <2>2, <3>0, <4>3 DEF Enumerates
          <5>2. CASE j = Len(k) + 1
            <6>1. f[j] = Len(r) + 1
              BY <3>0, <5>2
            <6> QED
              BY <3>0, <5>1, <6>1
          <5>3. CASE j # Len(k) + 1
            <6>1. j \in 1 .. Len(k) /\ f[j] = e[j]
              BY <3>0, <5>3
            <6> QED
              BY <2>2, <4>3, <5>1, <6>1 DEF Enumerates
          <5> QED
            BY <5>2, <5>3
        <4>4. ASSUME NEW p \in 1 .. Len(a), a[p] \in K
              PROVE  \E i \in 1 .. Len(g) : f[i] = p
          <5>1. CASE p = Len(r) + 1
            <6>1. Len(k) + 1 \in 1 .. Len(g) /\ f[Len(k) + 1] = p
              BY <3>0, <5>1
            <6> QED
              BY <6>1
          <5>2. CASE p # Len(r) + 1
            <6>1. p \in 1 .. Len(r) /\ r[p] \in K
              BY <2>3, <4>4, <5>2, <3>0
            <6>2. PICK i \in 1 .. Len(k) : e[i] = p
              BY <2>2, <6>1 DEF Enumerates
            <6>3. i \in 1 .. Len(g) /\ f[i] = p
              BY <3>0, <6>2
            <6> QED
              BY <6>3
          <5> QED
            BY <5>1, <5>2
        <4> QED
          BY <4>1, <4>2, <4>3, <4>4 DEF Enumerates
      <3> QED
        BY <2>3, <3>1, <3>2
    <2> QED
      BY <2>4, <2>5
  <1>3. Seq(S) \subseteq Q
    <2> HIDE DEF Q
    <2> QED
      BY <1>1, <1>2, SeqInduction
  <1> QED
    BY <1>3, SelectedSeq

\* What InsertAt returns.
LEMMA Inserted ==
    ASSUME NEW S, NEW s \in Seq(S), NEW x \in S, NEW p \in 1 .. Len(s) + 1
    PROVE  /\ InsertAt(s, p, x) \in Seq(S)
           /\ Len(InsertAt(s, p, x)) = Len(s) + 1
           /\ \A i \in 1 .. p - 1 : InsertAt(s, p, x)[i] = s[i]
           /\ InsertAt(s, p, x)[p] = x
           /\ \A i \in p + 1 .. Len(s) + 1 : InsertAt(s, p, x)[i] = s[i - 1]
  <1> DEFINE a == SubSeq(s, 1, p - 1)
             c == SubSeq(s, p, Len(s))
             b == a \o <<x>>
  <1>1. /\ a \in Seq(S) /\ Len(a) = p - 1
        /\ \A i \in 1 .. p - 1 : a[i] = s[i]
    OBVIOUS
  <1>2. /\ c \in Seq(S) /\ Len(c) = Len(s) - p + 1
        /\ \A i \in 1 .. Len(s) - p + 1 : c[i] = s[i + p - 1]
    OBVIOUS
  <1>3. <<x>> \in Seq(S) /\ Len(<<x>>) = 1 /\ <<x>>[1] = x
    OBVIOUS
  <1>4. InsertAt(s, p, x) = b \o c
    BY DEF InsertAt
  <1>5. /\ b \in Seq(S) /\ Len(b) = p /\ b[p] = x
        /\ \A i \in 1 .. p - 1 : b[i] = s[i]
    <2> HIDE DEF a
    <2> QED
      BY <1>1, <1>3
  <1>6. p \in Nat /\ Len(s) \in Nat
    OBVIOUS
  <1> HIDE DEF b, c
  <1>12. /\ b \o c \in Seq(S)
        /\ Len(b \o c) = Len(b) + Len(c)
        /\ \A i \in 1 .. Len(b) + Len(c) : (b \o c)[i] = IF i <= Len(b) THEN b[i] ELSE c[i - Len(b)]
    BY <1>2, <1>5, ConcatProperties
  <1>7. Len(b \o c) = Len(s) + 1 /\ b \o c \in Seq(S)
    BY <1>2, <1>5, <1>6, <1>12
  <1>8. \A i \in 1 .. p : (b \o c)[i] = b[i]
    BY <1>2, <1>5, <1>6, <1>12
  <1>9. ASSUME NEW i \in p + 1 .. Len(s) + 1 PROVE (b \o c)[i] = s[i - 1]
    <2>1. (b \o c)[i] = c[i - p]
      BY <1>2, <1>5, <1>6, <1>12
    <2>2. i - p \in 1 .. Len(s) - p + 1
      BY <1>6
    <2> QED
      BY <1>2, <1>6, <2>1, <2>2
  <1>10. \A i \in 1 .. p - 1 : (b \o c)[i] = s[i]
    BY <1>5, <1>6, <1>8
  <1>11. (b \o c)[p] = x
    BY <1>5, <1>6, <1>8
  <1> QED
    BY <1>4, <1>7, <1>9, <1>10, <1>11

\* What is selected from two sequences, one behind the other,
LEMMA SelectedConcat ==
    ASSUME NEW S, NEW K, NEW s \in Seq(S), NEW t \in Seq(S)
    PROVE  Selected(s \o t, K) = Selected(s, K) \o Selected(t, K)
  <1> DEFINE Q == {r \in Seq(S) : Selected(s \o r, K) = Selected(s, K) \o Selected(r, K)}
  <1>0. Selected(s, K) \in Seq(S)
    BY SelectedSeq
  <1>1. <<>> \in Q
    <2>1. Selected(<<>>, K) = <<>> /\ <<>> \in Seq(S)
      BY SelectedEmpty
    <2>2. s \o <<>> = s /\ Selected(s, K) \o <<>> = Selected(s, K)
      BY <1>0
    <2> QED
      BY <2>1, <2>2
  <1>2. ASSUME NEW r \in Seq(S), NEW x \in S, r \in Q
        PROVE  Append(r, x) \in Q
    <2>1. /\ Selected(r, K) \in Seq(S)
          /\ Selected(Append(r, x), K)
               = IF x \in K THEN Append(Selected(r, K), x) ELSE Selected(r, K)
      BY SelectedAppend
    <2>2. s \o r \in Seq(S) /\ Append(r, x) \in Seq(S)
      OBVIOUS
    <2>3. s \o Append(r, x) = Append(s \o r, x)
      OBVIOUS
    <2>4. Selected(Append(s \o r, x), K)
            = IF x \in K THEN Append(Selected(s \o r, K), x) ELSE Selected(s \o r, K)
      <3> DEFINE u == s \o r
      <3>1. u \in Seq(S)
        BY <2>2
      <3> HIDE DEF u
      <3>2. Selected(Append(u, x), K) = IF x \in K THEN Append(Selected(u, K), x) ELSE Selected(u, K)
        BY <3>1, SelectedAppend
      <3> QED
        BY <3>2 DEF u
    <2>5. Selected(s, K) \o Append(Selected(r, K), x) = Append(Selected(s, K) \o Selected(r, K), x)
      BY <1>0, <2>1
    <2>6. Selected(s \o r, K) = Selected(s, K) \o Selected(r, K)
      BY <1>2
    <2>7. Selected(s \o Append(r, x), K) = Selected(s, K) \o Selected(Append(r, x), K)
      <3>1. CASE x \in K
        BY <2>1, <2>3, <2>4, <2>5, <2>6, <3>1
      <3>2. CASE x \notin K
        BY <2>1, <2>3, <2>4, <2>6, <3>2
      <3> QED
        BY <3>1, <3>2
    <2> QED
      BY <2>2, <2>7
  <1>3. Seq(S) \subseteq Q
    <2> HIDE DEF Q
    <2> QED
      BY <1>1, <1>2, SeqInduction
  <1> QED
    BY <1>3

\* and from one that got an element that is not wanted.
LEMMA SelectedInserted ==
    ASSUME NEW S, NEW K, NEW s \in Seq(S), NEW x \in S, x \notin K, NEW p \in 1 .. Len(s) + 1
    PROVE  Selected(InsertAt(s, p, x), K) = Selected(s, K)
  <1> DEFINE a == SubSeq(s, 1, p - 1)
             c == SubSeq(s, p, Len(s))
  <1>0. a \in Seq(S) /\ c \in Seq(S)
    OBVIOUS
  <1>1. a \in Seq(S) /\ c \in Seq(S) /\ s = a \o c
    <2>1. a \o SubSeq(s, (p - 1) + 1, Len(s)) = SubSeq(s, 1, Len(s))
      <3>1. /\ 1 \in 1 .. Len(s) + 1 /\ p - 1 \in 1 - 1 .. Len(s)
            /\ Len(s) \in p - 1 .. Len(s)
        OBVIOUS
      <3> QED
        BY <3>1, ConcatAdjacentSubSeq
    <2>2. SubSeq(s, 1, Len(s)) = s /\ (p - 1) + 1 = p
      BY SubSeqFull
    <2> QED
      BY <1>0, <2>1, <2>2
  <1>2. InsertAt(s, p, x) = (a \o <<x>>) \o c
    BY DEF InsertAt
  <1> HIDE DEF a, c
  <1>3. Append(a, x) \in Seq(S) /\ Append(a, x) = a \o <<x>>
    BY <1>1
  <1>4. Selected(Append(a, x), K) = Selected(a, K)
    BY <1>1, SelectedAppend
  <1>5. Selected(Append(a, x) \o c, K) = Selected(Append(a, x), K) \o Selected(c, K)
    BY <1>1, <1>3, SelectedConcat
  <1>6. Selected(a \o c, K) = Selected(a, K) \o Selected(c, K)
    BY <1>1, SelectedConcat
  <1> QED
    BY <1>1, <1>2, <1>3, <1>4, <1>5, <1>6

\* A selection depends on the elements only.
LEMMA SelectedAgree ==
    ASSUME NEW S, NEW K, NEW L, NEW s \in Seq(S), \A x \in ToSet(s) : x \in K <=> x \in L
    PROVE  Selected(s, K) = Selected(s, L)
  <1> DEFINE Q == {r \in Seq(S) : (\A x \in ToSet(r) : x \in K <=> x \in L)
                                     => Selected(r, K) = Selected(r, L)}
  <1>1. <<>> \in Q
    BY SelectedEmpty
  <1>2. ASSUME NEW r \in Seq(S), NEW x \in S, r \in Q
        PROVE  Append(r, x) \in Q
    <2>1. /\ Selected(Append(r, x), K)
               = IF x \in K THEN Append(Selected(r, K), x) ELSE Selected(r, K)
          /\ Selected(Append(r, x), L)
               = IF x \in L THEN Append(Selected(r, L), x) ELSE Selected(r, L)
      BY SelectedAppend
    <2>2. ToSet(Append(r, x)) = ToSet(r) \cup {x} /\ Append(r, x) \in Seq(S)
      BY ToSetAppend
    <2>3. ASSUME \A y \in ToSet(Append(r, x)) : y \in K <=> y \in L
          PROVE  Selected(Append(r, x), K) = Selected(Append(r, x), L)
      <3>1. Selected(r, K) = Selected(r, L) /\ (x \in K <=> x \in L)
        BY <1>2, <2>2, <2>3
      <3> QED
        BY <2>1, <3>1
    <2> QED
      BY <2>2, <2>3
  <1>3. Seq(S) \subseteq Q
    <2> HIDE DEF Q
    <2> QED
      BY <1>1, <1>2, SeqInduction
  <1> QED
    BY <1>3
=============================================================================
