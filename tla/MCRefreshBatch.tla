--------------------------- MODULE MCRefreshBatch ---------------------------
(***************************************************************************)
(* RefreshBatch on small instances.  The old and the new disclosure text   *)
(* differ in their bonus text; the third has the bonus text of the old one *)
(* and no join member, so that no answer about it is ever complete.        *)
(***************************************************************************)
EXTENDS RefreshTable, TLC

CONSTANTS p1, p2, old, new, blank, r1, b1, b2

MCTexts == {old, new, blank}
MCRates == {r1}
MCBonusText == [t \in MCTexts |-> IF t = new THEN new ELSE old]
Offer(t) == [text |-> t, rates |-> r1]

MCDisclosures == {Offer(old), Offer(new), Offer(blank), [text |-> old, rates |-> None]}

\* The change of text and the loss of rates together: a load that stops between
\* its transactions leaves a source that was never published.
MCTwoDisclosures == {Offer(old), [text |-> new, rates |-> None]}
MCTextDisclosures == {Offer(old), Offer(new)}
MCNoJoinMember == {blank}
MCIncomplete == [text : {blank}, rates : {r1, None}]

MCOffering == {old}

\* The new text says that there is no bonus while the rates leave room for one.
MCNewIncomplete == MCIncomplete \cup {Offer(new)}

Symmetry == Permutations(Products) \cup Permutations(Batches)
=============================================================================
