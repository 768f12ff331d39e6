----------------------------- MODULE RefreshTable -----------------------------
(***************************************************************************)
(* RefreshBatch as an implementation of ConditionTable: what a reader gets *)
(* from the tables the batches write.                                      *)
(***************************************************************************)
EXTENDS RefreshBatch

\* Saving.verified_conditions: a record of another source, of an old schema or
\* not decided yet tells a reader nothing.
Shown(p) ==
    IF ~Readable(p) THEN "none"
    ELSE IF row[p].status = "NEEDS_REVIEW" THEN "review"
    ELSE row[p].conditions.kind

SourceOf(p) == IF Stored(p) THEN ConditionSource(p) ELSE None

Asked ==
    {[product |-> a.product, source |-> a.source] :
        a \in {a \in attempts : a.status = "VALIDATED"}}

Table == INSTANCE ConditionTable WITH
    Sources <- Source,
    source <- [p \in Products |-> SourceOf(p)],
    shown <- [p \in Products |-> Shown(p)],
    asked <- Asked

-----------------------------------------------------------------------------
(* Properties *)

\* Batches that run one at a time, with crashes at any step: a reader is shown
\* an extraction for the very disclosure the AI was asked about only, and
\* conditions of an unchanged disclosure are never taken away from a reader nor
\* replaced by worse ones, reruns and hand-written conditions included.
ImplementsTableAlone == Table!Spec
=============================================================================
