---------------------------- MODULE ConditionTable ----------------------------
(***************************************************************************)
(* What the condition tables promise to whoever reads the conditions of a  *)
(* product while the batches that fill them run one at a time, with        *)
(* nothing said about batches, listings or transactions.  A reader         *)
(* (Saving.verified_conditions) gets the conditions of the disclosure the  *)
(* product has at that moment, or is told to wait.                         *)
(***************************************************************************)
EXTENDS Naturals

CONSTANTS
    Products,
    Sources,   \* disclosures a product can have
    None       \* the product is not in the table

VARIABLES
    source,    \* the disclosure each product has
    shown,     \* what a reader gets for it
    asked      \* the disclosures the AI gave a verified answer about

vars == <<source, shown, asked>>

\* Nothing yet; the disclosure text as a checklist, incomplete or complete; the
\* conditions the AI extracted; conditions written by hand.
Stages == {"none", "review", "checklist", "extracted", "manual"}

\* An extraction is shown for a disclosure the AI was asked about, never for
\* another disclosure of the product.
Grounded(p, stage, disclosure) ==
    stage = "extracted" => [product |-> p, source |-> disclosure] \in asked

Init ==
    /\ source \in [Products -> Sources \cup {None}]
    /\ shown = [p \in Products |-> "none"]
    /\ asked = {}

\* Disclosures are loaded.  A product is never removed, and what is shown
\* changes only with the disclosure it is shown for.
Load ==
    /\ source' \in [Products -> Sources \cup {None}]
    /\ shown' \in [Products -> Stages]
    /\ \A p \in Products :
          IF source'[p] = source[p] THEN shown'[p] = shown[p]
          ELSE source'[p] # None /\ Grounded(p, shown'[p], source'[p])
    /\ UNCHANGED asked

Answer(p, disclosure) ==
    /\ asked' = asked \cup {[product |-> p, source |-> disclosure]}
    /\ UNCHANGED <<source, shown>>

Write(p, stage) ==
    /\ source[p] # None
    /\ Grounded(p, stage, source[p])
    /\ shown' = [shown EXCEPT ![p] = stage]
    /\ UNCHANGED <<source, asked>>

\* How much work the stages stand for.
Worth == [none |-> 0, review |-> 1, checklist |-> 1, extracted |-> 2, manual |-> 3]

\* What is shown for an unchanged disclosure is never taken back, nor replaced
\* by something of less worth.
Next ==
    \/ Load
    \/ \E p \in Products, disclosure \in Sources : Answer(p, disclosure)
    \/ \E p \in Products, stage \in Stages : Write(p, stage) /\ Worth[shown[p]] < Worth[stage]

Spec == Init /\ [][Next]_vars
=============================================================================
