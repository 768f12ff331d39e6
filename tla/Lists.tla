--------------------------------- MODULE Lists ---------------------------------
(***************************************************************************)
(* Operators on sequences.                                                 *)
(***************************************************************************)
EXTENDS FiniteSets, Integers, SequencesExt

\* A function on the numbers up to some n.
IsList(seq) == seq \in Seq(ToSet(seq))

\* The elements of a sequence at some of its indices, in their order.  SelectSeq
\* would be the same with a test in the place of the indices, but it is a
\* primitive of which the provers know nothing.
Selected(seq, indices) ==
    FoldLeftDomain(LAMBDA kept, i : IF i \in indices THEN Append(kept, seq[i]) ELSE kept,
                   <<>>, seq)

\* The elements of a finite set in the order of the pairs of before: an element
\* comes at the place that its predecessors leave to it.
InOrder(S, before) ==
    [k \in 1..Cardinality(S) |->
        CHOOSE x \in S : Cardinality({y \in S : <<y, x>> \in before}) = k - 1]
=============================================================================
