----------------------------- MODULE RefreshBatch -----------------------------
(***************************************************************************)
(* The programs that fill the tables, run side by side: the refresh of an  *)
(* administrator's request or of scripts/sync_disclosure (sync, then       *)
(* structure), scripts/structure_bonuses (structure alone) and             *)
(* scripts/import_manual_conditions.  Nothing excludes two of them from    *)
(* running at once, in one process or in several.                          *)
(*                                                                         *)
(* Each step is one transaction or one read; whatever a batch remembers    *)
(* between two steps is in its local variables.  On SQLite, FOR UPDATE     *)
(* locks nothing and a transaction begins at its first write, so the check *)
(* of _replace_conditions, the read of the condition row by session.merge  *)
(* and the write of what differs from that read are three steps.           *)
(*                                                                         *)
(* The backup that precedes a refresh or an import reads the tables only   *)
(* and is not a step: where it fails the batch aborts before any write.    *)
(***************************************************************************)
EXTENDS ConditionStore, FiniteSets

CONSTANTS
    Batches,       \* slots in which a batch can run
    MaxPublishes,  \* bound: changes of the disclosure
    MaxAborts      \* bound: runs that end by an exception or a crash

VARIABLES
    upstream,   \* what the disclosure service publishes now
    published,  \* changes of the disclosure so far
    aborted,    \* aborted runs so far
    pc,         \* the step each batch is at
    received,   \* the disclosure a batch fetched
    listed,     \* the products a batch listed, with their conditions then
    todo,       \* products its current loop has still to visit
    pending,    \* pending_sources: products to put to the AI
    draft,      \* the condition record it is about to write
    seen,       \* the condition row session.merge read, None when there was none
    tally       \* _StructureTally

batch == <<pc, received, listed, todo, pending, draft, seen, tally>>
world == <<upstream, published, aborted>>
vars == <<store, world, batch>>

Steps == {"idle", "fetch", "save_products", "replace_rates", "list_outdated",
          "invalidate", "merge_pending", "write_pending", "synced",
          "structure", "checklist", "merge_checklist", "write_checklist",
          "ask", "check", "merge", "write", "returned",
          "import", "import_next", "merge_entry", "write_entry"}

\* The steps at which session.merge has read the row and nothing is written yet.
Flushing == {"write_pending", "write_checklist", "write", "write_entry"}

Draft == [product : Products, row : Row, withBonuses : BOOLEAN]

Tally == [scanned : Nat, structured : Nat, notStructurable : Nat, skipped : Nat]

Nothing == [p \in Products |-> None]
NoTally == [scanned |-> 0, structured |-> 0, notStructurable |-> 0, skipped |-> 0]

TypeOK ==
    /\ StoreTypeOK
    /\ upstream \in [Products -> Source \cup {None}]
    /\ published \in Nat
    /\ aborted \in Nat
    /\ pc \in [Batches -> Steps]
    /\ received \in [Batches -> [Products -> Source \cup {None}]]
    /\ listed \in [Batches -> [Products -> Listing \cup {None}]]
    /\ todo \in [Batches -> SUBSET Products]
    /\ pending \in [Batches -> SUBSET Products]
    /\ draft \in [Batches -> Draft \cup {None}]
    /\ seen \in [Batches -> Row \cup {None}]
    /\ tally \in [Batches -> Tally]

Init ==
    /\ StoreInit
    /\ upstream \in [Products -> Disclosures]
    /\ published = 0
    /\ aborted = 0
    /\ pc = [b \in Batches |-> "idle"]
    /\ received = [b \in Batches |-> Nothing]
    /\ listed = [b \in Batches |-> Nothing]
    /\ todo = [b \in Batches |-> {}]
    /\ pending = [b \in Batches |-> {}]
    /\ draft = [b \in Batches |-> None]
    /\ seen = [b \in Batches |-> None]
    /\ tally = [b \in Batches |-> NoTally]

-----------------------------------------------------------------------------
(* The disclosure, the operator and failures *)

Publish(p, s) ==
    /\ published < MaxPublishes
    /\ s # upstream[p]
    /\ published' = published + 1
    /\ upstream' = [upstream EXCEPT ![p] = s]
    /\ UNCHANGED <<store, aborted, batch>>

\* A batch forgets what an earlier run in its slot left in its variables.
Forget(b) ==
    /\ received' = [received EXCEPT ![b] = Nothing]
    /\ listed' = [listed EXCEPT ![b] = Nothing]
    /\ todo' = [todo EXCEPT ![b] = {}]
    /\ pending' = [pending EXCEPT ![b] = {}]
    /\ draft' = [draft EXCEPT ![b] = None]
    /\ seen' = [seen EXCEPT ![b] = None]
    /\ tally' = [tally EXCEPT ![b] = NoTally]

Start(b, first) ==
    /\ pc[b] \in {"idle", "returned"}
    /\ pc' = [pc EXCEPT ![b] = first]
    /\ Forget(b)
    /\ UNCHANGED <<store, world>>

StartRefresh(b) == Start(b, "fetch")
StartStructure(b) == Start(b, "structure")
StartImport(b) == Start(b, "import")

\* An exception at any step, or the end of the process: no transaction is open,
\* and nothing that committed is undone.
Abort(b) ==
    /\ pc[b] \notin {"idle", "returned"}
    /\ aborted < MaxAborts
    /\ aborted' = aborted + 1
    /\ pc' = [pc EXCEPT ![b] = "idle"]
    /\ Forget(b)
    /\ UNCHANGED <<store, upstream, published>>

-----------------------------------------------------------------------------
(* DisclosureSyncService.sync *)

Goto(b, from, to) == pc[b] = from /\ pc' = [pc EXCEPT ![b] = to]

Fetch(b) ==
    /\ Goto(b, "fetch", "save_products")
    /\ received' = [received EXCEPT ![b] = upstream]
    /\ UNCHANGED <<store, world, listed, todo, pending, draft, seen, tally>>

SaveProducts(b) ==
    /\ Goto(b, "save_products", "replace_rates")
    /\ SaveAll(received[b])
    /\ UNCHANGED <<world, received, listed, todo, pending, draft, seen, tally>>

ReplaceRates(b) ==
    /\ Goto(b, "replace_rates", "list_outdated")
    /\ ReplaceRateOptions(received[b])
    /\ received' = [received EXCEPT ![b] = Nothing]
    /\ UNCHANGED <<world, listed, todo, pending, draft, seen, tally>>

\* The products to reset are decided on the listing alone.
ListOutdated(b) ==
    /\ Goto(b, "list_outdated", "invalidate")
    /\ listed' = [listed EXCEPT ![b] = SourcesOf(ListEvery, OutdatedOf(ListEvery))]
    /\ todo' = [todo EXCEPT ![b] = OutdatedOf(ListEvery)]
    /\ UNCHANGED <<store, world, received, pending, draft, seen, tally>>

Visit(b, p) ==
    /\ p \in todo[b]
    /\ todo' = [todo EXCEPT ![b] = @ \ {p}]

Drafted(p, new, withBonuses) == [product |-> p, row |-> new, withBonuses |-> withBonuses]

Current(d) == CurrentRecord(d.product, d.row)

\* The products before the first that is written are left as they are.
CheckOutdated(b, p) ==
    LET d == Drafted(p, PendingRecord(listed[b][p].source), FALSE)
    IN  /\ pc[b] = "invalidate"
        /\ Visit(b, p)
        /\ IF Current(d)
             THEN /\ pc' = [pc EXCEPT ![b] = "merge_pending"]
                  /\ draft' = [draft EXCEPT ![b] = d]
             ELSE UNCHANGED <<pc, draft>>
        /\ UNCHANGED <<store, world, received, listed, pending, seen, tally>>

\* The SELECT of session.merge, of whatever kind of record.
MergeCondition(b) ==
    /\ \/ Goto(b, "merge_pending", "write_pending")
       \/ Goto(b, "merge_checklist", "write_checklist")
       \/ Goto(b, "merge", "write")
       \/ Goto(b, "merge_entry", "write_entry")
    /\ seen' = [seen EXCEPT ![b] = row[draft[b].product]]
    /\ UNCHANGED <<store, world, received, listed, todo, pending, draft, tally>>

Invalidate(b) ==
    /\ Goto(b, "write_pending", "synced")
    /\ InvalidateChanged(listed[b], draft[b].product, seen[b], todo[b])
    /\ listed' = [listed EXCEPT ![b] = Nothing]
    /\ todo' = [todo EXCEPT ![b] = {}]
    /\ draft' = [draft EXCEPT ![b] = None]
    /\ seen' = [seen EXCEPT ![b] = None]
    /\ UNCHANGED <<world, received, pending, tally>>

NothingOutdated(b) ==
    /\ Goto(b, "invalidate", "synced")
    /\ todo[b] = {}
    /\ listed' = [listed EXCEPT ![b] = Nothing]
    /\ UNCHANGED <<store, world, received, todo, pending, draft, seen, tally>>

-----------------------------------------------------------------------------
(* BonusStructureService.structure: the checklists *)

\* Seed questions and the question list are in a table no step here reads.
ListProducts(b) ==
    /\ pc[b] \in {"synced", "structure"}
    /\ pc' = [pc EXCEPT ![b] = "checklist"]
    /\ listed' = [listed EXCEPT ![b] = ListEvery]
    /\ todo' = [todo EXCEPT ![b] = {p \in Products : Stored(p)}]
    /\ pending' = [pending EXCEPT ![b] = {}]
    /\ tally' = [tally EXCEPT ![b] = NoTally]
    /\ UNCHANGED <<store, world, received, draft, seen>>

Scanned(t) == [t EXCEPT !.scanned = @ + 1]
Skipped(t) == [t EXCEPT !.skipped = @ + 1]
Structured(t) == [t EXCEPT !.structured = @ + 1]
NotStructurable(t) == [t EXCEPT !.notStructurable = @ + 1]

Settled(saving) == saving.row # None /\ CanSkip(saving.row, saving.source)

SkipProduct(b, p) ==
    /\ pc[b] = "checklist"
    /\ Visit(b, p)
    /\ Settled(listed[b][p])
    /\ tally' = [tally EXCEPT ![b] = Skipped(Scanned(@))]
    /\ UNCHANGED <<store, world, pc, received, listed, pending, draft, seen>>

CheckChecklist(b, p) ==
    LET d == Drafted(p, ChecklistRecord(listed[b][p].source), FALSE)
    IN  /\ pc[b] = "checklist"
        /\ Visit(b, p)
        /\ ~Settled(listed[b][p])
        /\ IF Current(d)
             THEN /\ pc' = [pc EXCEPT ![b] = "merge_checklist"]
                  /\ draft' = [draft EXCEPT ![b] = d]
                  /\ tally' = [tally EXCEPT ![b] = Scanned(@)]
             ELSE /\ tally' = [tally EXCEPT ![b] = NotStructurable(Scanned(@))]
                  /\ UNCHANGED <<pc, draft>>
        /\ UNCHANGED <<store, world, received, listed, pending, seen>>

WriteDraft(b) ==
    /\ ReplaceConditions(draft[b].product, seen[b], draft[b].row, draft[b].withBonuses)
    /\ draft' = [draft EXCEPT ![b] = None]
    /\ seen' = [seen EXCEPT ![b] = None]

WriteChecklist(b) ==
    /\ Goto(b, "write_checklist", "checklist")
    /\ WriteDraft(b)
    /\ pending' = [pending EXCEPT ![b] = @ \cup {draft[b].product}]
    /\ UNCHANGED <<world, received, listed, todo, tally>>

BeginAsking(b) ==
    /\ Goto(b, "checklist", "ask")
    /\ todo[b] = {}
    /\ listed' = [listed EXCEPT ![b] = SourcesOf(@, pending[b])]
    /\ todo' = [todo EXCEPT ![b] = pending[b]]
    /\ pending' = [pending EXCEPT ![b] = {}]
    /\ UNCHANGED <<store, world, received, draft, seen, tally>>

-----------------------------------------------------------------------------
(* BonusStructureService.structure: the AI *)

\* The answers that verify: a source without a join_member is never complete.
Outcomes(s) == {"incomplete", "failed"} \cup
               (IF s.text \in NoJoinMember THEN {} ELSE {"complete"})

Status(outcome) == IF outcome = "failed" THEN "FAILED" ELSE "VALIDATED"

\* _ask_ai logs the attempt before the record is written.  Compatibility rows
\* are made only from an extraction or a checklist that verifies, and only
\* from the bonuses an answer offers.
RecordAttempt(b, p) ==
    LET s == listed[b][p].source
    IN  /\ Goto(b, "ask", "check")
        /\ Visit(b, p)
        /\ \E outcome \in Outcomes(s), withBonuses \in BOOLEAN :
              /\ withBonuses => outcome = "complete" /\ s.text \in Offering
              /\ SaveConditionAttempt(p, s, Status(outcome))
              /\ draft' = [draft EXCEPT ![b] =
                             Drafted(p, ExtractedRecord(s, outcome = "complete"), withBonuses)]
        /\ UNCHANGED <<world, received, listed, pending, seen, tally>>

CheckSource(b) ==
    /\ pc[b] = "check"
    /\ IF Current(draft[b])
         THEN /\ pc' = [pc EXCEPT ![b] = "merge"]
              /\ UNCHANGED <<draft, tally>>
         ELSE /\ pc' = [pc EXCEPT ![b] = "ask"]
              /\ draft' = [draft EXCEPT ![b] = None]
              /\ tally' = [tally EXCEPT ![b] = NotStructurable(@)]
    /\ UNCHANGED <<store, world, received, listed, todo, pending, seen>>

\* A mutant of Counted: the else is missing.
CountedTwice(t, r) ==
    IF r.status = "NEEDS_REVIEW" THEN Structured(NotStructurable(t)) ELSE Structured(t)

Counted(t, r) ==
    IF r.status = "NEEDS_REVIEW" THEN NotStructurable(t) ELSE Structured(t)

WriteConditions(b) ==
    /\ Goto(b, "write", "ask")
    /\ WriteDraft(b)
    /\ tally' = [tally EXCEPT ![b] = Counted(@, draft[b].row)]
    /\ UNCHANGED <<world, received, listed, todo, pending>>

\* refresh() then clears its worker's caches: module WorkerCache.
Return(b) ==
    /\ Goto(b, "ask", "returned")
    /\ todo[b] = {}
    /\ listed' = [listed EXCEPT ![b] = Nothing]
    /\ UNCHANGED <<store, world, received, todo, pending, draft, seen, tally>>

-----------------------------------------------------------------------------
(* scripts/import_manual_conditions *)

\* The entries of the files: whoever wrote them wrote complete conditions for
\* the source the table held then, or verify_source and from_manual refuse.
ChooseEntries(b) ==
    \E entries \in SUBSET {p \in Products :
                             Stored(p) /\ ConditionSource(p).text \notin NoJoinMember} :
        /\ entries # {}
        /\ Goto(b, "import", "import_next")
        /\ listed' = [listed EXCEPT ![b] = SourcesOf(ListEvery, entries)]
        /\ todo' = [todo EXCEPT ![b] = entries]
        /\ UNCHANGED <<store, world, received, pending, draft, seen, tally>>

\* Without --apply, or when an entry is for another source: nothing is written.
NothingImported(b) ==
    /\ Goto(b, "import", "idle")
    /\ Forget(b)
    /\ UNCHANGED <<store, world>>

CheckEntry(b, p) ==
    \E withBonuses \in BOOLEAN :
        LET d == Drafted(p, ManualRecord(listed[b][p].source), withBonuses)
        IN  /\ Goto(b, "import_next", "merge_entry")
            /\ Visit(b, p)
            /\ withBonuses => d.row.source.text \in Offering
            /\ Current(d)
            /\ draft' = [draft EXCEPT ![b] = d]
            /\ UNCHANGED <<store, world, received, listed, pending, seen, tally>>

\* A source that changed since the listing ends the import: ValueError.
EntryRefused(b, p) ==
    /\ Goto(b, "import_next", "idle")
    /\ p \in todo[b]
    /\ ~Current(Drafted(p, ManualRecord(listed[b][p].source), FALSE))
    /\ Forget(b)
    /\ UNCHANGED <<store, world>>

WriteEntry(b) ==
    /\ Goto(b, "write_entry", "import_next")
    /\ WriteDraft(b)
    /\ UNCHANGED <<world, received, listed, todo, pending, tally>>

ImportDone(b) ==
    /\ Goto(b, "import_next", "idle")
    /\ todo[b] = {}
    /\ Forget(b)
    /\ UNCHANGED <<store, world>>

\* Another batch inserted the product's first condition row after merge had
\* found none: the exception ends the batch and its transaction is undone.
RowTaken(b) ==
    /\ pc[b] \in Flushing
    /\ Taken(draft[b].product, seen[b])
    /\ pc' = [pc EXCEPT ![b] = "idle"]
    /\ Forget(b)
    /\ UNCHANGED <<store, world>>

-----------------------------------------------------------------------------
Sync(b) ==
    \/ Fetch(b) \/ SaveProducts(b) \/ ReplaceRates(b) \/ ListOutdated(b)
    \/ \E p \in Products : CheckOutdated(b, p)
    \/ Invalidate(b) \/ NothingOutdated(b)

Structure(b) ==
    \/ ListProducts(b)
    \/ \E p \in Products : SkipProduct(b, p) \/ CheckChecklist(b, p) \/ RecordAttempt(b, p)
    \/ WriteChecklist(b) \/ BeginAsking(b)
    \/ CheckSource(b) \/ WriteConditions(b) \/ Return(b)

Import(b) ==
    \/ ChooseEntries(b) \/ NothingImported(b)
    \/ \E p \in Products : CheckEntry(b, p) \/ EntryRefused(b, p)
    \/ WriteEntry(b) \/ ImportDone(b)

Work(b) == Sync(b) \/ Structure(b) \/ Import(b) \/ MergeCondition(b) \/ RowTaken(b)

Next ==
    \/ \E p \in Products, s \in Disclosures \cup {None} : Publish(p, s)
    \/ \E b \in Batches : \/ StartRefresh(b) \/ StartStructure(b) \/ StartImport(b)
                          \/ Abort(b) \/ Work(b)

Spec == Init /\ [][Next]_vars

\* A batch that runs goes on: the event loop schedules it and the database, the
\* disclosure and the AI answer.  The administrator refreshes again and again.
Fairness ==
    \A b \in Batches : WF_vars(Work(b)) /\ SF_vars(StartRefresh(b))

FairSpec == Spec /\ Fairness
-----------------------------------------------------------------------------
(* Properties of any number of batches *)

\* Conditions of the AI are never in the table without the raw answer they
\* were made from in the attempt log, although the two are separate
\* transactions, the batch may stop between them, and another batch may turn
\* the row they are in into one of another source.
ConditionsLogged ==
    \A p \in Products :
        LET r == row[p]
        IN  r # None /\ r.schema = "current" /\ r.conditions.kind = "extracted" =>
                \E a \in attempts :
                    a.product = p /\ a.source = r.conditions.of /\ a.status = "VALIDATED"

\* The response accounts for every product once, those a concurrent load
\* changed under the batch included.
TallyAdds ==
    \A b \in Batches :
        LET t == tally[b]
        IN  pc[b] = "returned" => t.scanned = t.structured + t.notStructurable + t.skipped

\* A verified result for an unchanged source is replaced by a hand-written one
\* only: no rerun of a batch undoes a review.
ReviewedResultKept ==
    [][\A p \in Products :
          LET r == row[p]
          IN  r # None /\ r.conditions.kind \in {"extracted", "manual"}
              /\ Matches(r, ConditionSource(p))
              /\ row'[p] # r => row'[p].conditions.kind = "manual"]_vars

-----------------------------------------------------------------------------
(* Properties of batches that run one at a time *)

\* An AI result is never in the table without its raw answer in the attempt
\* log, although the two are separate transactions and the batch may stop
\* between them.
AttemptBeforeResult ==
    \A p \in Products :
        LET r == row[p]
        IN  r # None /\ r.schema = "current" /\ r.conditions.kind = "extracted" =>
                \E a \in attempts : a.product = p /\ a.source = r.source /\ a.status = "VALIDATED"

\* The compatibility rows in product_bonus are the ones of the condition row
\* beside them, or there are none: the two change in one transaction, and a
\* load deletes the rows without touching the condition.
BonusesFollowCondition ==
    \A p \in Products : bonusRow[p] # None => bonusRow[p] = row[p]

\* Compatibility rows never outlive the bonus text they were made from, where
\* the load stops between two of its transactions too.
NoStaleBonusText ==
    \A p \in Products :
        bonusRow[p] # None => BonusText[bonusRow[p].source.text] = BonusText[text[p]]

\* A finished sync leaves a condition row of the present source at every
\* product, those no longer listed and those an aborted load left behind included.
SyncLeavesNoStale ==
    (\E b \in Batches : pc[b] = "synced") =>
        \A p \in Products : Stored(p) =>
            /\ row[p] # None
            /\ row[p].schema = "current"
            /\ row[p].source = ConditionSource(p)

\* Something a user can read: a decided record of the product's present source.
Readable(p) ==
    /\ row[p] # None
    /\ row[p].schema = "current"
    /\ row[p].source = ConditionSource(p)
    /\ row[p].status # "PENDING"

\* While a batch waits for the AI every product shows a record of its present
\* source, and the answers never take it away again.
ReadableWhileAsking ==
    (\E b \in Batches : pc[b] \in {"ask", "check", "merge", "write", "returned"}) =>
        \A p \in Products : Stored(p) => Readable(p)

\* Once the disclosure stops changing, refreshes bring every published product
\* to a decided record of the published source, whatever was aborted before.
EventuallyCurrent ==
    <>[](\A p \in Products : upstream[p] # None =>
            Readable(p) /\ ConditionSource(p) = upstream[p])

\* After a structure run every product has been put to the AI with its present
\* source, unless its conditions were written by hand.
EveryProductAsked ==
    (\E b \in Batches : pc[b] = "returned") =>
        \A p \in Products : Stored(p) =>
            \/ row[p].conditions.kind = "manual"
            \/ \E a \in attempts : a.product = p /\ a.source = ConditionSource(p)
-----------------------------------------------------------------------------
(* What the batches keep true between their steps, and the proofs need *)

Writing == {"merge_pending", "write_pending", "merge_checklist", "write_checklist",
            "check", "merge", "write", "merge_entry", "write_entry"}

Looping == Writing \cup {"invalidate", "checklist", "ask", "import_next"}

FirstLoop == {"checklist", "merge_checklist", "write_checklist"}
SecondLoop == {"ask", "check", "merge", "write"}

\* The local variables a step reads are assigned when it reads them.
Assigned ==
    \A b \in Batches :
        /\ pc[b] \in Writing => draft[b] \in Draft /\ draft[b].row.schema = "current"
        /\ pc[b] \in Looping => \A p \in todo[b] : listed[b][p] \in Listing
        /\ pc[b] \in {"merge_pending", "write_pending"} =>
              /\ listed[b][draft[b].product] \in Listing
              /\ draft[b].row = PendingRecord(listed[b][draft[b].product].source)
        /\ pc[b] \in FirstLoop => \A p \in pending[b] : listed[b][p] \in Listing
        /\ pc[b] \in {"merge_checklist", "write_checklist"} =>
              listed[b][draft[b].product] \in Listing

\* A row that merge found stays, and one of an earlier release stays as it was
\* until a batch makes it current.
SeenRowStays ==
    \A b \in Batches :
        LET r == row[draft[b].product]
        IN  pc[b] \in Flushing /\ seen[b] # None =>
                r # None /\ (r.schema = "old" => r = seen[b])

\* Every draft an answer made has its attempt already.
DraftsLogged ==
    \A b \in Batches :
        LET d == draft[b]
        IN  pc[b] \in Writing /\ d.row.conditions.kind = "extracted" =>
                \E a \in attempts : /\ a.product = d.product
                                    /\ a.source = d.row.conditions.of
                                    /\ a.status = "VALIDATED"

\* A product is in one loop at most, and these loops end.
Apart(b) ==
    /\ pc[b] \in FirstLoop =>
          /\ IsFiniteSet(pending[b])
          /\ pending[b] \cap todo[b] = {}
    /\ pc[b] \in {"merge_checklist", "write_checklist"} =>
          draft[b].product \notin pending[b] \cup todo[b]
    /\ pc[b] \in SecondLoop => IsFiniteSet(todo[b])

LoopsApart == \A b \in Batches : Apart(b)

Counting == FirstLoop \cup SecondLoop \cup {"returned"}

\* Products scanned and not yet counted otherwise.
Waiting(b) ==
    IF pc[b] = "checklist" THEN Cardinality(pending[b])
    ELSE IF pc[b] \in FirstLoop THEN Cardinality(pending[b]) + 1
    ELSE IF pc[b] = "ask" THEN Cardinality(todo[b])
    ELSE IF pc[b] \in SecondLoop THEN Cardinality(todo[b]) + 1
    ELSE 0

Balanced(b) ==
    LET t == tally[b]
    IN  pc[b] \in Counting =>
            t.scanned = t.structured + t.notStructurable + t.skipped + Waiting(b)

TallyBalanced == \A b \in Batches : Balanced(b)
=============================================================================
