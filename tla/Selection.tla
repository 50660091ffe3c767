----------------------------- MODULE Selection ------------------------------
(* Array.prototype.filter as a fold: what SelectSeq computes, with the test   *)
(* given as the set of the elements that stay, in a form that facts can be    *)
(* proved about for sequences of any length (OperatorLemmas).                 *)
EXTENDS SequencesExt

\* The elements of q that are in K, in their order.
Selected(q, K) ==
    FoldLeft(LAMBDA kept, x : IF x \in K THEN Append(kept, x) ELSE kept, <<>>, q)
=============================================================================
