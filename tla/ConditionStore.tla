---------------------------- MODULE ConditionStore ----------------------------
(***************************************************************************)
(* The tables behind the recommendation: product (with its rate options),  *)
(* product_condition, product_bonus and product_condition_attempt, and the *)
(* transactions SavingService runs on them.  A batch never touches the     *)
(* tables in any other way, and each transaction below commits on its own. *)
(*                                                                         *)
(* Texts stand for the disclosure columns of a product, Rates for its set  *)
(* of rate options.  The condition source hash is a hash of both, so two   *)
(* sources have the same hash exactly when they are equal.                 *)
(***************************************************************************)
EXTENDS Naturals

CONSTANTS
    Products,      \* product ids the disclosure can list
    Texts,         \* contents of a product's disclosure columns
    Rates,         \* contents of a product's rate options, when it has some
    BonusText,     \* [Texts -> bonus text]: what bonus_source_hash is a hash of
    Disclosures,   \* the sources the disclosure may publish
    NoJoinMember,  \* texts with a blank join_member
    Incomplete,    \* sources whose own checklist still needs a review
    Offering,      \* texts with a bonus that compatibility rows can hold
    None           \* no product row, no rate option, no condition row, no bonus

VARIABLES
    text,      \* product row: [Products -> Texts], None before the first load
    rates,     \* rate_option rows: [Products -> Rates], None when there is none
    row,       \* product_condition: at most one row a product
    bonusRow,  \* product_bonus: the condition row its compatibility rows were made from
    attempts   \* product_condition_attempt: the log of answers and failures

store == <<text, rates, row, bonusRow, attempts>>

Source == [text : Texts, rates : Rates \cup {None}]

\* FAILED, the fourth status, is an answer to a reader: no code stores it.
ConditionStatus == {"PENDING", "EXTRACTED", "NEEDS_REVIEW"}

\* What conditions_json holds: nothing, the disclosure text as a checklist,
\* the verified answer of the AI, or conditions written by hand.
Kind == {"none", "checklist", "extracted", "manual"}

\* conditions_json, with the source it was made from.
Conditions == [kind : Kind, of : Source \cup {None}]

NoConditions == [kind |-> "none", of |-> None]

\* source is the column source_hash (source_json follows it); schema is "old"
\* for a row that an earlier CONDITION_SCHEMA_VERSION wrote.
Row == [source : Source, schema : {"current", "old"},
        status : ConditionStatus, conditions : Conditions]

Attempt == [product : Products, source : Source, status : {"VALIDATED", "FAILED"}]

\* What list_every() returns of a product.
Listing == [source : Source, row : Row \cup {None}]

ASSUME NoneIsApart == /\ None \notin Texts
                      /\ None \notin Rates
                      /\ None \notin Source
                      /\ None \notin Row
                      /\ None \notin Listing
ASSUME SourceAssumption ==
    /\ Disclosures \subseteq Source
    /\ Incomplete \subseteq Source
    /\ Offering \subseteq Texts
    /\ \A s \in Source : s.text \in NoJoinMember => s \in Incomplete

-----------------------------------------------------------------------------
(* SavingCondition *)

Stored(p) == text[p] # None

ConditionSource(p) == [text |-> text[p], rates |-> rates[p]]

Matches(r, s) == r.source = s /\ r.schema = "current"

\* A mutant of CanSkip: an up-to-date status is enough, whatever the source.
CanSkipAnySource(r, s) == r.status \in {"EXTRACTED", "NEEDS_REVIEW"}

\* A mutant of CanSkip: nothing is ever skipped.
CanSkipNothing(r, s) == FALSE

\* A mutant of CanSkip: a pending row counts as settled.
CanSkipPending(r, s) == Matches(r, s)

CanSkip(r, s) == Matches(r, s) /\ r.status \in {"EXTRACTED", "NEEDS_REVIEW"}

Record(s, status, conditions) ==
    [source |-> s, schema |-> "current", status |-> status, conditions |-> conditions]

\* A mutant of PendingRecord: the row keeps no conditions column at all.
PendingWithoutJson(s) == Record(s, "PENDING", None)

PendingRecord(s) == Record(s, "PENDING", NoConditions)

Made(kind, s) == [kind |-> kind, of |-> s]

ChecklistRecord(s) ==
    Record(s, IF s \in Incomplete THEN "NEEDS_REVIEW" ELSE "EXTRACTED", Made("checklist", s))

\* An answer that still needs a review is replaced by the checklist.
ExtractedRecord(s, complete) ==
    IF complete THEN Record(s, "EXTRACTED", Made("extracted", s)) ELSE ChecklistRecord(s)

ManualRecord(s) == Record(s, "EXTRACTED", Made("manual", s))

-----------------------------------------------------------------------------
(* SavingService: one operator per transaction *)

\* The bonus text differs from the last load's, or there was none.
BonusSourceChanged(p, new) ==
    text[p] = None \/ BonusText[text[p]] # BonusText[new]

\* A mutant of SaveAll: the compatibility rows outlive their bonus text.
SaveAllKeepingBonuses(received) ==
    /\ text' = [p \in Products |->
                  IF received[p] = None THEN text[p] ELSE received[p].text]
    /\ UNCHANGED <<rates, row, bonusRow, attempts>>

\* Products the disclosure no longer lists keep their rows.
SaveAll(received) ==
    /\ text' = [p \in Products |->
                  IF received[p] = None THEN text[p] ELSE received[p].text]
    /\ bonusRow' = [p \in Products |->
                      IF received[p] # None /\ BonusSourceChanged(p, received[p].text)
                        THEN None ELSE bonusRow[p]]
    /\ UNCHANGED <<rates, row, attempts>>

ReplaceRateOptions(received) ==
    /\ rates' = [p \in Products |->
                   IF received[p] = None THEN rates[p] ELSE received[p].rates]
    /\ UNCHANGED <<text, row, bonusRow, attempts>>

\* list_every(): what a batch keeps of each product while it works.
Saving(p) == IF Stored(p) THEN [source |-> ConditionSource(p), row |-> row[p]] ELSE None

ListEvery == [p \in Products |-> Saving(p)]

\* A mutant of Outdated: a product without a condition row is left alone.
OutdatedRow(saving) == saving.row # None /\ ~Matches(saving.row, saving.source)

Outdated(saving) == saving.row = None \/ ~Matches(saving.row, saving.source)

\* _condition_outdated, for every product of a listing.
OutdatedOf(listing) == {p \in Products : listing[p] # None /\ Outdated(listing[p])}

\* What a batch keeps of a listing once it has decided about the rows: the
\* sources of the products it is going to write about.
SourcesOf(listing, some) ==
    [p \in Products |-> IF p \in some THEN [source |-> listing[p].source, row |-> None]
                        ELSE None]

\* The check of _replace_conditions: FALSE when the product is gone or its
\* source is no longer the record's.
CurrentRecord(p, r) == Stored(p) /\ Matches(r, ConditionSource(p))

(***************************************************************************)
(* session.merge: the row is read, and the flush updates the columns in    *)
(* which the record differs from what was read.  The others keep what is   *)
(* in the table by then.                                                   *)
(***************************************************************************)

Column(now, seen, new) == IF new = seen THEN now ELSE new

\* Two answers of the AI about one source, or two entries written by hand, may
\* be the same conditions or not: again tells which.
ConditionsColumn(now, seen, new, again) ==
    IF again /\ new.kind \in {"extracted", "manual"} THEN new ELSE Column(now, seen, new)

\* A product without a row gets one: the INSERT of all columns.
Merged(now, seen, new, again) ==
    IF seen = None THEN new
    ELSE [source |-> Column(now.source, seen.source, new.source),
          schema |-> Column(now.schema, seen.schema, new.schema),
          status |-> Column(now.status, seen.status, new.status),
          conditions |-> ConditionsColumn(now.conditions, seen.conditions,
                                          new.conditions, again)]

\* The INSERT of a row that another batch inserted since: an integrity error.
Taken(p, seen) == seen = None /\ row[p] # None

\* A mutant of ReplaceConditions: delete_bonuses is forgotten.
ReplaceConditionsOnly(p, seen, new, withBonuses) ==
    /\ ~Taken(p, seen)
    /\ \E again \in BOOLEAN : row' = [row EXCEPT ![p] = Merged(@, seen, new, again)]
    /\ bonusRow' = IF withBonuses THEN [bonusRow EXCEPT ![p] = new] ELSE bonusRow
    /\ UNCHANGED <<text, rates, attempts>>

\* The writes of _replace_conditions, one transaction, after merge saw the row.
ReplaceConditions(p, seen, new, withBonuses) ==
    /\ ~Taken(p, seen)
    /\ \E again \in BOOLEAN : row' = [row EXCEPT ![p] = Merged(@, seen, new, again)]
    /\ bonusRow' = [bonusRow EXCEPT ![p] = IF withBonuses THEN new ELSE None]
    /\ UNCHANGED <<text, rates, attempts>>

\* The writes of invalidate_changed_conditions, one transaction.  It opens at
\* the first of them, the one about p: the outdated products after p are
\* checked, read and written inside it.
InvalidateChanged(listing, p, seen, after) ==
    LET Pending(q) == PendingRecord(listing[q].source)
        rest == {q \in after : CurrentRecord(q, Pending(q))}
    IN  /\ ~Taken(p, seen)
        /\ row' = [q \in Products |->
                     IF q = p THEN Merged(row[q], seen, Pending(q), FALSE)
                     ELSE IF q \in rest THEN Pending(q) ELSE row[q]]
        /\ bonusRow' = [q \in Products |-> IF q \in rest \cup {p} THEN None ELSE bonusRow[q]]
        /\ UNCHANGED <<text, rates, attempts>>

\* A mutant of SaveConditionAttempt: only failures are logged.
SaveFailedAttempt(p, s, status) ==
    /\ attempts' = IF status = "FAILED"
                     THEN attempts \cup {[product |-> p, source |-> s, status |-> status]}
                     ELSE attempts
    /\ UNCHANGED <<text, rates, row, bonusRow>>

SaveConditionAttempt(p, s, status) ==
    /\ attempts' = attempts \cup {[product |-> p, source |-> s, status |-> status]}
    /\ UNCHANGED <<text, rates, row, bonusRow>>

-----------------------------------------------------------------------------
\* A fresh database, or one an earlier release filled: its products have an
\* extracted row of the old schema and the compatibility rows made from it.
OldRow(s) == [source |-> s, schema |-> "old", status |-> "EXTRACTED",
              conditions |-> Made("extracted", s)]

StoreInit ==
    \E loaded \in [Products -> Disclosures \cup {None}] :
        /\ text = [p \in Products |-> IF loaded[p] = None THEN None ELSE loaded[p].text]
        /\ rates = [p \in Products |-> IF loaded[p] = None THEN None ELSE loaded[p].rates]
        /\ row = [p \in Products |-> IF loaded[p] = None THEN None ELSE OldRow(loaded[p])]
        /\ bonusRow = row
        /\ attempts = {}

StoreTypeOK ==
    /\ text \in [Products -> Texts \cup {None}]
    /\ rates \in [Products -> Rates \cup {None}]
    /\ row \in [Products -> Row \cup {None}]
    /\ bonusRow \in [Products -> Row \cup {None}]
    /\ attempts \subseteq Attempt
=============================================================================
