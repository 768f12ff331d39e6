-------------------------- MODULE RefreshTableProofs --------------------------
(***************************************************************************)
(* Batches that run one at a time: RefreshBatch with at most one slot, in  *)
(* which any sequence of batches runs, each of which may stop at any step. *)
(* They implement ConditionTable: every step of a batch is a step of the   *)
(* table or changes nothing a reader sees.  For every set of products and  *)
(* of sources.                                                             *)
(***************************************************************************)
EXTENDS RefreshTable, RefreshBatchProofs

-----------------------------------------------------------------------------
(* What a reader sees *)

\* A product that is not in the table shows nothing.
LEMMA NothingWithoutProduct ==
    ASSUME StoreTypeOK, NEW p \in Products, ~Stored(p)
    PROVE  /\ Shown(p) = "none"
           /\ SourceOf(p) = None
<1>1. row[p] # None => row[p].source.text \in Texts
  BY DEF StoreTypeOK, Row, Source
<1>2. ConditionSource(p).text \notin Texts
  BY NoneIsApart DEF Stored, ConditionSource
<1>3. ~Readable(p)
  BY <1>1, <1>2 DEF Readable
<1> QED
  BY <1>3 DEF Shown, SourceOf

\* A product in the table has a disclosure, and None is not one.
LEMMA ShownForDisclosure ==
    ASSUME StoreTypeOK, NEW p \in Products
    PROVE  /\ Shown(p) \in Table!Stages
           /\ SourceOf(p) \in Source \cup {None}
           /\ Stored(p) => SourceOf(p) = ConditionSource(p) /\ SourceOf(p) # None
<1>1. Shown(p) \in Table!Stages
  BY DEF Shown, Readable, StoreTypeOK, Row, Conditions, Kind, Table!Stages
<1>2. Stored(p) => ConditionSource(p) \in Source
  BY SourceOfStored
<1> QED
  BY <1>1, <1>2, NoneIsApart DEF SourceOf

\* An extraction that a step shows has its answer in the log.
LEMMA ExtractionGroundedNext ==
    ASSUME AttemptBeforeResult', NEW p \in Products,
           SourceOf(p)' # None, Shown(p)' = "extracted"
    PROVE  [product |-> p, source |-> SourceOf(p)'] \in Asked'
<1>1. (Readable(p) /\ row[p].conditions.kind = "extracted")'
  BY DEF Shown
<1>2. PICK a \in attempts' :
          a.product = p /\ a.source = row'[p].source /\ a.status = "VALIDATED"
  BY <1>1 DEF Readable, AttemptBeforeResult
<1>3. SourceOf(p)' = row'[p].source
  BY <1>1 DEF Readable, SourceOf
<1> QED
  BY <1>2, <1>3 DEF Asked

\* What is shown depends on the product's own row and disclosure.
LEMMA ShownUnchanged ==
    ASSUME StoreTypeOK, StoreTypeOK', NEW p \in Products,
           row'[p] = row[p], SourceOf(p)' = SourceOf(p)
    PROVE  Shown(p)' = Shown(p)
<1>1. CASE Stored(p) /\ Stored(p)'
  <2>1. ConditionSource(p)' = ConditionSource(p)
    BY <1>1 DEF SourceOf
  <2> QED
    BY <2>1 DEF Shown, Readable
<1>2. CASE ~Stored(p) /\ ~Stored(p)'
  <2>1. Shown(p) = "none"
    BY <1>2, NothingWithoutProduct
  <2>2. row'[p] # None => row'[p].source.text \in Texts
    BY DEF StoreTypeOK, Row, Source
  <2>3. ConditionSource(p)'.text \notin Texts
    BY <1>2, NoneIsApart DEF Stored, ConditionSource
  <2>4. Shown(p)' = "none"
    BY <2>2, <2>3 DEF Shown, Readable
  <2> QED
    BY <2>1, <2>4
<1>3. CASE ~(Stored(p) <=> Stored(p)')
  <2>1. Stored(p) => SourceOf(p) # None
    BY ShownForDisclosure
  <2>2. Stored(p)' => (SourceOf(p) # None)'
    <3>1. Stored(p)' => ConditionSource(p)' \in Source
      BY DEF StoreTypeOK, Stored, ConditionSource, Source
    <3> QED
      BY <3>1, NoneIsApart DEF SourceOf
  <2>3. (~Stored(p) => SourceOf(p) = None) /\ (~Stored(p)' => SourceOf(p)' = None)
    BY DEF SourceOf
  <2> QED
    BY <1>3, <2>1, <2>2, <2>3
<1> QED
  BY <1>1, <1>2, <1>3

-----------------------------------------------------------------------------
(* The steps *)

Inv == TypeInv /\ AttemptBeforeResult

TableVars == <<[p \in Products |-> SourceOf(p)], [p \in Products |-> Shown(p)], Asked>>

\* A product that was loaded once stays in the table.
LEMMA ProductsStay ==
    ASSUME TypeInv, TypeInv', LoadsOnly, [Next]_vars, NEW p \in Products, Stored(p)
    PROVE  Stored(p)'
<1>1. CASE UNCHANGED text
  BY <1>1 DEF Stored
<1>2. ASSUME NEW b \in Batches, SaveProducts(b) PROVE Stored(p)'
  <2>1. text'[p] = IF received[b][p] = None THEN text[p] ELSE received[b][p].text
    BY <1>2 DEF SaveProducts, SaveAll
  <2>2. received[b][p] # None => received[b][p].text \in Texts
    BY DEF TypeInv, Typed, TypeOK, Source
  <2> QED
    BY <2>1, <2>2, NoneIsApart DEF Stored
<1>3. ASSUME NEW b \in Batches, Sync(b) PROVE UNCHANGED text \/ SaveProducts(b)
  BY <1>3 DEF Sync, Fetch, ReplaceRates, ReplaceRateOptions, ListOutdated, CheckOutdated,
              Invalidate, InvalidateChanged, NothingOutdated, store
<1>4. ASSUME NEW b \in Batches, Structure(b) PROVE UNCHANGED text
  BY <1>4 DEF Structure, ListProducts, SkipProduct, CheckChecklist, RecordAttempt,
              SaveConditionAttempt, WriteChecklist, WriteDraft, ReplaceConditions, BeginAsking,
              CheckSource, WriteConditions, Return, store
<1>5. ASSUME NEW b \in Batches, Import(b) PROVE UNCHANGED text
  BY <1>5 DEF Import, ChooseEntries, NothingImported, CheckEntry, EntryRefused, WriteEntry,
              WriteDraft, ReplaceConditions, ImportDone, store
<1>6. ASSUME NEW b \in Batches,
             \/ StartRefresh(b) \/ StartStructure(b) \/ StartImport(b) \/ Abort(b)
             \/ MergeCondition(b) \/ RowTaken(b)
      PROVE  UNCHANGED text
  BY <1>6 DEF StartRefresh, StartStructure, StartImport, Start, Abort, MergeCondition,
              RowTaken, store
<1>7. ASSUME NEW q \in Products, NEW s \in Disclosures \cup {None}, Publish(q, s)
      PROVE  UNCHANGED text
  BY <1>7 DEF Publish, store
<1>8. UNCHANGED vars => UNCHANGED text
  BY DEF vars, store
<1> QED
  BY <1>1, <1>2, <1>3, <1>4, <1>5, <1>6, <1>7, <1>8 DEF Next, Work

\* A load.
LEMMA LoadStep ==
    ASSUME Inv, Inv', LoadsOnly, [Next]_vars
    PROVE  Table!Load
<1> USE DEF Inv, TypeInv, Typed, TypeOK
<1>1. /\ Asked' = Asked
      /\ \A p \in Products : row'[p] = row[p]
  BY DEF LoadsOnly, Asked
<1>2. \A p \in Products : SourceOf(p)' \in Source \cup {None} /\ Shown(p)' \in Table!Stages
  <2> TAKE p \in Products
  <2>1. (SourceOf(p) \in Source \cup {None} /\ Shown(p) \in Table!Stages)'
    BY ShownForDisclosure, PTL
  <2> QED
    BY <2>1 DEF Table!Stages
<1>3. ASSUME NEW p \in Products
      PROVE  IF SourceOf(p)' = SourceOf(p) THEN Shown(p)' = Shown(p)
             ELSE /\ SourceOf(p)' # None
                  /\ Shown(p)' = "extracted" =>
                         [product |-> p, source |-> SourceOf(p)'] \in Asked
  <2>1. CASE SourceOf(p)' = SourceOf(p)
    BY <1>1, <2>1, ShownUnchanged
  <2>2. CASE SourceOf(p)' # SourceOf(p)
    <3>1. SourceOf(p)' # None
      <4>1. Stored(p)' => SourceOf(p)' = ConditionSource(p)'
        BY DEF SourceOf
      <4>2. Stored(p)' => ConditionSource(p)' \in Source
        BY DEF StoreTypeOK, Stored, ConditionSource, Source
      <4>3. ~Stored(p) => SourceOf(p) = None
        BY DEF SourceOf
      <4>4. ~Stored(p)' => SourceOf(p)' = None
        BY DEF SourceOf
      <4>5. Stored(p) => Stored(p)'
        BY ProductsStay
      <4> QED
        BY <2>2, <4>1, <4>2, <4>3, <4>4, <4>5, NoneIsApart
    <3>2. Shown(p)' = "extracted" => [product |-> p, source |-> SourceOf(p)'] \in Asked'
      BY <3>1, ExtractionGroundedNext
    <3> QED
      BY <1>1, <2>2, <3>1, <3>2
  <2> QED
    BY <2>1, <2>2
<1> QED
  BY <1>1, <1>2, <1>3 DEF Table!Load, Table!Grounded

\* An answer is logged; a failure changes nothing a reader sees.
LEMMA AnswerStep ==
    ASSUME Inv, Inv', Logs
    PROVE  \/ \E p \in Products, disclosure \in Source : Table!Answer(p, disclosure)
           \/ UNCHANGED TableVars
<1> USE DEF Inv, TypeInv, Typed, TypeOK
<1>1. PICK p, s, status : SaveConditionAttempt(p, s, status)
  BY DEF Logs
<1> DEFINE a == [product |-> p, source |-> s, status |-> status]
<1>2. attempts' = attempts \cup {a} /\ UNCHANGED <<text, rates, row>>
  BY <1>1 DEF SaveConditionAttempt
<1>3. p \in Products /\ s \in Source
  <2>1. a \in Attempt
    BY <1>2 DEF StoreTypeOK
  <2> QED
    BY <2>1 DEF Attempt
<1>4. \A q \in Products : SourceOf(q)' = SourceOf(q) /\ Shown(q)' = Shown(q)
  BY <1>2 DEF SourceOf, Shown, Readable, Stored, ConditionSource
<1>5. CASE status = "VALIDATED"
  <2>1. {x \in attempts' : x.status = "VALIDATED"} =
            {x \in attempts : x.status = "VALIDATED"} \cup {a}
    BY <1>2, <1>5
  <2>2. a.product = p /\ a.source = s
    OBVIOUS
  <2>3. Asked' = Asked \cup {[product |-> p, source |-> s]}
    BY <2>1, <2>2 DEF Asked
  <2> QED
    BY <1>3, <1>4, <2>3 DEF Table!Answer
<1>6. CASE status # "VALIDATED"
  <2>1. Asked' = Asked
    BY <1>2, <1>6 DEF Asked
  <2> QED
    BY <1>4, <2>1 DEF TableVars
<1> QED
  BY <1>5, <1>6

-----------------------------------------------------------------------------
\* The first state of the store is a first state of the table.
LEMMA InitTable == Init => Table!Init
<1> SUFFICES ASSUME Init PROVE Table!Init
  OBVIOUS
<1>1. StoreTypeOK
  BY InitTypeInv DEF TypeInv, Typed, TypeOK
<1>2. PICK loaded \in [Products -> Disclosures \cup {None}] :
          row = [p \in Products |-> IF loaded[p] = None THEN None ELSE OldRow(loaded[p])]
  BY DEF Init, StoreInit
<1>3. \A p \in Products : Shown(p) = "none"
  BY <1>2 DEF Shown, Readable, OldRow
<1>4. \A p \in Products : SourceOf(p) \in Source \cup {None}
  BY <1>1, ShownForDisclosure
<1>5. Asked = {}
  BY DEF Init, StoreInit, Asked
<1> QED
  BY <1>3, <1>4, <1>5 DEF Table!Init

-----------------------------------------------------------------------------
\* No two batches run at once.
Alone == \A b, c \in Batches : b = c

(* What a lone batch keeps true between its steps *)

\* The product shows its disclosure text as a checklist.
Checklisted(p) == Stored(p) /\ row[p] = ChecklistRecord(ConditionSource(p))

\* The record of an answer that needs no review.
CompleteRecord(s) == Record(s, "EXTRACTED", Made("extracted", s))

SyncLoop == {"invalidate", "merge_pending", "write_pending"}

\* The row is about the product's present source, decided or not.
UpToDate(p) == row[p] # None /\ Matches(row[p], ConditionSource(p))

\* Nothing but the batch itself changes what it has listed, checked or read.
LocalsFresh(b) ==
    /\ pc[b] \in SyncLoop =>
          /\ \A p \in todo[b] : /\ Stored(p)
                                /\ ~UpToDate(p)
                                /\ listed[b][p].source = ConditionSource(p)
          /\ \A p \in Products : Stored(p) =>
                \/ p \in todo[b]
                \/ UpToDate(p)
                \/ pc[b] # "invalidate" /\ p = draft[b].product
    /\ pc[b] \in {"merge_pending", "write_pending"} =>
          /\ draft[b].product \notin todo[b]
          /\ Current(draft[b])
          /\ ~UpToDate(draft[b].product)
    /\ pc[b] \in FirstLoop =>
          /\ \A p \in todo[b] : Stored(p) /\ listed[b][p] = Saving(p)
          /\ \A p \in Products : Stored(p) =>
                \/ p \in todo[b]
                \/ Readable(p)
                \/ pc[b] # "checklist" /\ p = draft[b].product
          /\ \A p \in pending[b] : Checklisted(p)
    /\ pc[b] \in {"merge_checklist", "write_checklist"} =>
          /\ draft[b].product \notin todo[b]
          /\ Current(draft[b])
          /\ ~Readable(draft[b].product)
          /\ draft[b].row = ChecklistRecord(draft[b].row.source)
    /\ pc[b] \in SecondLoop => \A p \in todo[b] : Checklisted(p)
    /\ pc[b] \in {"check", "merge", "write"} =>
          /\ draft[b].product \notin todo[b]
          /\ Checklisted(draft[b].product)
          /\ LET s == draft[b].row.source
             IN  draft[b].row \in {CompleteRecord(s), ChecklistRecord(s)}
    /\ pc[b] \in {"merge", "write"} => Current(draft[b])
    /\ pc[b] \in {"merge_entry", "write_entry"} =>
          /\ Current(draft[b])
          /\ draft[b].row = ManualRecord(draft[b].row.source)
    /\ pc[b] \in Flushing => seen[b] = row[draft[b].product]

\* Conditions of the AI are the ones of the row's own source.
OwnConditions(r) ==
    r # None /\ r.schema = "current" /\ r.conditions.kind = "extracted" =>
        r.conditions.of = r.source

AloneInv ==
    /\ BonusesFollowCondition
    /\ NoStaleBonusText
    /\ SyncLeavesNoStale
    /\ ReadableWhileAsking
    /\ \A p \in Products : OwnConditions(row[p])
    /\ \A b \in Batches : LocalsFresh(b)

-----------------------------------------------------------------------------
(* Records *)

\* What the makers of records fill in.
LEMMA RecordFields ==
    ASSUME NEW s
    PROVE  /\ PendingRecord(s).source = s /\ PendingRecord(s).schema = "current"
           /\ ChecklistRecord(s).source = s /\ ChecklistRecord(s).schema = "current"
           /\ ChecklistRecord(s).status # "PENDING"
           /\ ManualRecord(s).source = s /\ ManualRecord(s).schema = "current"
           /\ ManualRecord(s).status # "PENDING"
           /\ CompleteRecord(s).source = s
           /\ CompleteRecord(s).schema = "current"
           /\ CompleteRecord(s).status # "PENDING"
BY DEF PendingRecord, ChecklistRecord, ManualRecord, CompleteRecord, Record

\* Conditions of the AI in these records are the ones of their source.
LEMMA RecordsOwn ==
    ASSUME NEW s, NEW r \in {PendingRecord(s), ChecklistRecord(s), CompleteRecord(s),
                             ManualRecord(s)}
    PROVE  OwnConditions(r)
BY DEF OwnConditions, PendingRecord, ChecklistRecord, CompleteRecord, ManualRecord, Record,
       Made, NoConditions

\* A merge that read what the table still holds writes the whole record.
LEMMA MergedAlone ==
    ASSUME NEW now \in Row \cup {None}, NEW new \in Row, NEW again \in BOOLEAN
    PROVE  Merged(now, now, new, again) = new
<1>1. new = [source |-> new.source, schema |-> new.schema, status |-> new.status,
             conditions |-> new.conditions]
  BY DEF Row
<1>2. /\ Column(now.source, now.source, new.source) = new.source
      /\ Column(now.schema, now.schema, new.schema) = new.schema
      /\ Column(now.status, now.status, new.status) = new.status
      /\ Column(now.conditions, now.conditions, new.conditions) = new.conditions
  BY DEF Column
<1>3. ConditionsColumn(now.conditions, now.conditions, new.conditions, again) = new.conditions
  BY <1>2 DEF ConditionsColumn
<1> QED
  BY <1>1, <1>2, <1>3 DEF Merged

\* A checklist of its present source is something to read.
LEMMA ChecklistReadable ==
    ASSUME StoreTypeOK, NEW p \in Products, Checklisted(p)
    PROVE  Readable(p)
<1>1. ChecklistRecord(ConditionSource(p)) # None
  BY SourceOfStored, RecordsAreRows, NoneIsApart DEF Checklisted
<1> QED
  BY <1>1, RecordFields DEF Checklisted, Readable

\* A listed product can be skipped exactly when it can be read.
LEMMA SettledReadable ==
    ASSUME StoreTypeOK, NEW p \in Products, Stored(p)
    PROVE  Settled(Saving(p)) <=> Readable(p)
<1>1. row[p] # None => row[p].status \in ConditionStatus
  BY DEF StoreTypeOK, Row
<1> QED
  BY <1>1 DEF Settled, Saving, CanSkip, Matches, Readable, ConditionStatus

-----------------------------------------------------------------------------
(* Steps of the one batch *)

\* With one batch, what holds of it holds of all.
LEMMA OneBatch ==
    ASSUME Alone, NEW b \in Batches, BonusesFollowCondition', NoStaleBonusText',
           \A p \in Products : OwnConditions(row'[p]), LocalsFresh(b)',
           pc'[b] = "synced" => \A p \in Products : Stored(p)' => UpToDate(p)',
           pc'[b] \in {"ask", "check", "merge", "write", "returned"} =>
              \A p \in Products : Stored(p)' => Readable(p)'
    PROVE  AloneInv'
<1>1. \A c \in Batches : c = b
  BY DEF Alone
<1>2. SyncLeavesNoStale'
  BY <1>1 DEF SyncLeavesNoStale, UpToDate, Matches
<1>3. ReadableWhileAsking'
  BY <1>1 DEF ReadableWhileAsking
<1>4. \A c \in Batches : LocalsFresh(c)'
  BY <1>1
<1>5. (\A p \in Products : OwnConditions(row[p]))'
  BY DEF OwnConditions
<1> QED
  BY <1>2, <1>3, <1>4, <1>5 DEF AloneInv

\* What is left where nothing in the tables has changed.
LEMMA TablesUnchanged ==
    ASSUME AloneInv, UNCHANGED <<text, rates, row, bonusRow>>
    PROVE  /\ BonusesFollowCondition'
           /\ NoStaleBonusText'
           /\ \A p \in Products : OwnConditions(row'[p])
           /\ \A p \in Products : /\ Stored(p)' = Stored(p)
                                  /\ ConditionSource(p)' = ConditionSource(p)
                                  /\ Saving(p)' = Saving(p)
                                  /\ UpToDate(p)' = UpToDate(p)
                                  /\ Readable(p)' = Readable(p)
                                  /\ Checklisted(p)' = Checklisted(p)
<1>1. BonusesFollowCondition' /\ NoStaleBonusText'
  BY DEF AloneInv, BonusesFollowCondition, NoStaleBonusText
<1>2. \A p \in Products : OwnConditions(row'[p])
  BY DEF AloneInv
<1> QED
  BY <1>1, <1>2 DEF Stored, ConditionSource, Saving, UpToDate, Readable, Checklisted

\* A batch that begins or ends: what it knew is of no use any more.
LEMMA RestartAlone ==
    ASSUME Alone, TypeInv, AloneInv, NEW b \in Batches,
           NEW step \in {"idle", "fetch", "structure", "import"},
           pc' = [pc EXCEPT ![b] = step], UNCHANGED <<text, rates, row, bonusRow>>
    PROVE  AloneInv'
<1>1. pc'[b] = step
  BY DEF TypeInv, Typed, TypeOK
<1>2. LocalsFresh(b)'
  BY <1>1 DEF LocalsFresh, SyncLoop, FirstLoop, SecondLoop, Flushing
<1> QED
  BY <1>1, <1>2, TablesUnchanged, OneBatch

\* The load: compatibility rows of another bonus text go with it.
LEMMA LoadAlone ==
    ASSUME Alone, TypeInv, AloneInv, NEW b \in Batches,
           Fetch(b) \/ SaveProducts(b) \/ ReplaceRates(b)
    PROVE  AloneInv'
<1> USE DEF TypeInv, Typed, TypeOK, Goto
<1>1. CASE Fetch(b)
  <2>1. pc'[b] = "save_products" /\ UNCHANGED <<text, rates, row, bonusRow>>
    BY <1>1 DEF Fetch, store
  <2>2. LocalsFresh(b)'
    BY <2>1 DEF LocalsFresh, SyncLoop, FirstLoop, SecondLoop, Flushing
  <2> QED
    BY <2>1, <2>2, TablesUnchanged, OneBatch
<1>2. CASE SaveProducts(b)
  <2>1. pc'[b] = "replace_rates" /\ SaveAll(received[b])
    BY <1>2 DEF SaveProducts
  <2>2. row' = row /\ \A p \in Products : bonusRow'[p] \in {None, bonusRow[p]}
    BY <2>1 DEF SaveAll
  <2>3. NoStaleBonusText'
    <3> SUFFICES ASSUME NEW p \in Products, bonusRow'[p] # None
                 PROVE  BonusText[bonusRow'[p].source.text] = BonusText[text'[p]]
      BY DEF NoStaleBonusText
    <3>1. bonusRow'[p] = bonusRow[p]
      BY <2>1 DEF SaveAll
    <3>2. BonusText[text'[p]] = BonusText[text[p]]
      BY <2>1 DEF SaveAll, BonusSourceChanged
    <3> QED
      BY <3>1, <3>2 DEF AloneInv, NoStaleBonusText
  <2>4. BonusesFollowCondition'
    BY <2>2 DEF AloneInv, BonusesFollowCondition
  <2>5. \A p \in Products : OwnConditions(row'[p])
    BY <2>2 DEF AloneInv
  <2>6. LocalsFresh(b)'
    BY <2>1 DEF LocalsFresh, SyncLoop, FirstLoop, SecondLoop, Flushing
  <2> QED
    BY <2>1, <2>3, <2>4, <2>5, <2>6, OneBatch
<1>3. CASE ReplaceRates(b)
  <2>1. pc'[b] = "list_outdated" /\ UNCHANGED <<text, row, bonusRow>>
    BY <1>3 DEF ReplaceRates, ReplaceRateOptions
  <2>2. NoStaleBonusText' /\ BonusesFollowCondition'
    BY <2>1 DEF AloneInv, NoStaleBonusText, BonusesFollowCondition
  <2>3. \A p \in Products : OwnConditions(row'[p])
    BY <2>1 DEF AloneInv
  <2>4. LocalsFresh(b)'
    BY <2>1 DEF LocalsFresh, SyncLoop, FirstLoop, SecondLoop, Flushing
  <2> QED
    BY <2>1, <2>2, <2>3, <2>4, OneBatch
<1> QED
  BY <1>1, <1>2, <1>3

\* What the transaction of a lone batch invalidates: all that is outdated.
LEMMA InvalidateEffect ==
    ASSUME TypeInv, AloneInv, NEW b \in Batches, pc[b] = "write_pending",
           InvalidateChanged(listed[b], draft[b].product, seen[b], todo[b])
    PROVE  /\ \A p \in todo[b] \cup {draft[b].product} :
                  /\ p \in Products
                  /\ Stored(p)
                  /\ ~UpToDate(p)
                  /\ row'[p] = PendingRecord(ConditionSource(p))
                  /\ bonusRow'[p] = None
           /\ \A p \in Products \ (todo[b] \cup {draft[b].product}) :
                  row'[p] = row[p] /\ bonusRow'[p] = bonusRow[p]
           /\ UNCHANGED <<text, rates, attempts>>
<1> DEFINE q == draft[b].product
           Pending(p) == PendingRecord(listed[b][p].source)
           rest == {p \in todo[b] : CurrentRecord(p, Pending(p))}
<1>1. /\ q \in Products /\ draft[b].row \in Row /\ todo[b] \subseteq Products
      /\ draft[b].row = Pending(q)
      /\ row[q] \in Row \cup {None}
  BY DEF TypeInv, Typed, TypeOK, StoreTypeOK, Assigned, Writing, Draft
<1>2. /\ q \notin todo[b]
      /\ Stored(q) /\ Matches(draft[b].row, ConditionSource(q))
      /\ ~UpToDate(q)
      /\ seen[b] = row[q]
      /\ \A p \in todo[b] : /\ Stored(p)
                            /\ ~UpToDate(p)
                            /\ listed[b][p].source = ConditionSource(p)
  BY DEF AloneInv, LocalsFresh, SyncLoop, Flushing, Current, CurrentRecord
<1>3. listed[b][q].source = ConditionSource(q)
  BY <1>1, <1>2, RecordFields DEF Matches
<1>4. rest = todo[b]
  BY <1>2, RecordFields DEF CurrentRecord, Matches
<1>5. Merged(row[q], seen[b], Pending(q), FALSE) = Pending(q)
  BY <1>1, <1>2, MergedAlone
<1>6. /\ row' = [p \in Products |->
                   IF p = q THEN Merged(row[p], seen[b], Pending(p), FALSE)
                   ELSE IF p \in rest THEN Pending(p) ELSE row[p]]
      /\ bonusRow' = [p \in Products |-> IF p \in rest \cup {q} THEN None ELSE bonusRow[p]]
      /\ UNCHANGED <<text, rates, attempts>>
  BY DEF InvalidateChanged
<1>7. /\ row'[q] = Pending(q) /\ bonusRow'[q] = None
      /\ \A p \in todo[b] : row'[p] = Pending(p) /\ bonusRow'[p] = None
      /\ \A p \in Products \ (todo[b] \cup {q}) : row'[p] = row[p] /\ bonusRow'[p] = bonusRow[p]
  <2> HIDE DEF Pending, rest
  <2> QED
    BY <1>1, <1>2, <1>4, <1>5, <1>6
<1>8. /\ \A p \in todo[b] : Pending(p) = PendingRecord(ConditionSource(p))
      /\ Pending(q) = PendingRecord(ConditionSource(q))
  BY <1>2, <1>3
<1> HIDE DEF Pending, rest
<1> QED
  BY <1>1, <1>2, <1>6, <1>7, <1>8

\* The invalidation: nothing outdated is left.
LEMMA InvalidateAlone ==
    ASSUME Alone, TypeInv, AloneInv, NEW b \in Batches, Invalidate(b)
    PROVE  AloneInv'
<1>1. /\ pc[b] = "write_pending" /\ pc'[b] = "synced"
      /\ InvalidateChanged(listed[b], draft[b].product, seen[b], todo[b])
  BY DEF Invalidate, Goto, TypeInv, Typed, TypeOK
<1> DEFINE reset == todo[b] \cup {draft[b].product}
<1>2. /\ \A p \in reset : /\ p \in Products
                          /\ Stored(p)
                          /\ row'[p] = PendingRecord(ConditionSource(p))
                          /\ bonusRow'[p] = None
      /\ \A p \in Products \ reset : row'[p] = row[p] /\ bonusRow'[p] = bonusRow[p]
      /\ \A p \in Products : text'[p] = text[p] /\ rates'[p] = rates[p]
  BY <1>1, InvalidateEffect
<1>3. \A p \in Products : /\ Stored(p)' = Stored(p)
                          /\ ConditionSource(p)' = ConditionSource(p)
  BY <1>2 DEF Stored, ConditionSource
<1>4. BonusesFollowCondition' /\ NoStaleBonusText'
  BY <1>2 DEF AloneInv, BonusesFollowCondition, NoStaleBonusText
<1>5. \A p \in Products : OwnConditions(row'[p])
  BY <1>2, RecordsOwn DEF AloneInv
<1>6. LocalsFresh(b)'
  BY <1>1 DEF LocalsFresh, SyncLoop, FirstLoop, SecondLoop, Flushing
<1>7. ASSUME NEW p \in Products, Stored(p)' PROVE UpToDate(p)'
  <2>1. CASE p \in reset
    <3>1. StoreTypeOK
      BY DEF TypeInv, Typed, TypeOK
    <3>2. PendingRecord(ConditionSource(p)) # None
      BY <1>2, <2>1, <3>1, SourceOfStored, RecordsAreRows, NoneIsApart
    <3> QED
      BY <1>2, <1>3, <2>1, <3>2, RecordFields DEF UpToDate, Matches
  <2>2. CASE p \notin reset
    <3>1. UpToDate(p)
      BY <1>1, <1>3, <1>7, <2>2 DEF AloneInv, LocalsFresh, SyncLoop
    <3> QED
      BY <1>2, <1>3, <2>2, <3>1 DEF UpToDate
  <2> QED
    BY <2>1, <2>2
<1> QED
  BY <1>1, <1>4, <1>5, <1>6, <1>7, OneBatch

\* The steps of a sync.
LEMMA SyncAlone ==
    ASSUME Alone, TypeInv, AloneInv, NEW b \in Batches, Sync(b)
    PROVE  AloneInv'
<1> USE DEF TypeInv, Typed, TypeOK, Goto
<1>1. CASE ListOutdated(b)
  <2>1. /\ pc'[b] = "invalidate" /\ UNCHANGED <<text, rates, row, bonusRow>>
        /\ listed'[b] = SourcesOf(ListEvery, OutdatedOf(ListEvery))
        /\ todo'[b] = OutdatedOf(ListEvery)
    BY <1>1 DEF ListOutdated, store
  <2>2. ASSUME NEW p \in todo'[b]
        PROVE  /\ p \in Products
               /\ Stored(p)
               /\ ~UpToDate(p)
               /\ listed'[b][p].source = ConditionSource(p)
    <3>1. p \in Products /\ Saving(p) # None /\ Outdated(Saving(p))
      BY <2>1, <2>2 DEF OutdatedOf, ListEvery
    <3>2. Stored(p) /\ Saving(p) = [source |-> ConditionSource(p), row |-> row[p]]
      BY <3>1 DEF Saving
    <3>3. listed'[b][p] = [source |-> Saving(p).source, row |-> None]
      BY <2>1, <2>2, <3>1 DEF SourcesOf, ListEvery
    <3> QED
      BY <3>1, <3>2, <3>3 DEF Outdated, UpToDate
  <2>3. ASSUME NEW p \in Products, Stored(p), p \notin todo'[b] PROVE UpToDate(p)
    <3>1. Saving(p) = [source |-> ConditionSource(p), row |-> row[p]]
      BY <2>3 DEF Saving
    <3>2. Saving(p) # None
      BY <2>3, <3>1, SourceOfStored, NoneIsApart DEF ListEvery
    <3>3. ~Outdated(Saving(p))
      BY <2>1, <2>3, <3>2 DEF OutdatedOf, ListEvery
    <3> QED
      BY <3>1, <3>3 DEF Outdated, UpToDate
  <2>4. LocalsFresh(b)'
    BY <2>1, <2>2, <2>3, TablesUnchanged
       DEF LocalsFresh, SyncLoop, FirstLoop, SecondLoop, Flushing
  <2> QED
    BY <2>1, <2>4, TablesUnchanged, OneBatch
<1>2. ASSUME NEW q \in Products, CheckOutdated(b, q) PROVE AloneInv'
  <2>1. PICK d : d = Drafted(q, PendingRecord(listed[b][q].source), FALSE)
    OBVIOUS
  <2>2. /\ pc[b] = "invalidate"
        /\ UNCHANGED <<text, rates, row, bonusRow>>
        /\ listed'[b] = listed[b]
        /\ q \in todo[b] /\ todo'[b] = todo[b] \ {q}
    BY <1>2 DEF CheckOutdated, Visit, store
  <2>3. d.product = q /\ d.row = PendingRecord(listed[b][q].source)
    BY <2>1 DEF Drafted
  <2>4. Stored(q) /\ ~UpToDate(q) /\ listed[b][q].source = ConditionSource(q)
    BY <2>2 DEF AloneInv, LocalsFresh, SyncLoop
  <2>5. Current(d)
    BY <2>3, <2>4, RecordFields DEF Current, CurrentRecord, Matches
  <2>6. pc'[b] = "merge_pending" /\ draft'[b] = d
    BY <1>2, <2>1, <2>5 DEF CheckOutdated
  <2>7. Current(d)'
    BY <2>2, <2>3, <2>5, TablesUnchanged DEF Current, CurrentRecord
  <2>8. \A p \in todo'[b] : /\ Stored(p)'
                            /\ ~UpToDate(p)'
                            /\ listed'[b][p].source = ConditionSource(p)'
    BY <2>2, TablesUnchanged DEF AloneInv, LocalsFresh, SyncLoop
  <2>9. \A p \in Products : Stored(p)' => p \in todo'[b] \/ UpToDate(p)' \/ p = q
    BY <2>2, TablesUnchanged DEF AloneInv, LocalsFresh, SyncLoop
  <2>10. LocalsFresh(b)'
    BY <2>2, <2>3, <2>4, <2>6, <2>7, <2>8, <2>9, TablesUnchanged
       DEF LocalsFresh, FirstLoop, SecondLoop, Flushing
  <2> QED
    BY <2>2, <2>6, <2>10, TablesUnchanged, OneBatch
<1>3. CASE NothingOutdated(b)
  <2>1. /\ pc[b] = "invalidate" /\ pc'[b] = "synced" /\ todo[b] = {}
        /\ UNCHANGED <<text, rates, row, bonusRow>>
    BY <1>3 DEF NothingOutdated, store
  <2>2. \A p \in Products : Stored(p)' => UpToDate(p)'
    BY <2>1, TablesUnchanged DEF AloneInv, LocalsFresh, SyncLoop
  <2>3. LocalsFresh(b)'
    BY <2>1 DEF LocalsFresh, SyncLoop, FirstLoop, SecondLoop, Flushing
  <2> QED
    BY <2>1, <2>2, <2>3, TablesUnchanged, OneBatch
<1> QED
  BY <1>1, <1>2, <1>3, LoadAlone, InvalidateAlone DEF Sync

\* The read of the row by session.merge.
LEMMA MergeAlone ==
    ASSUME Alone, TypeInv, AloneInv, NEW b \in Batches, MergeCondition(b)
    PROVE  AloneInv'
<1> USE DEF TypeInv, Typed, TypeOK, Goto
<1>1. PICK step \in {<<"merge_pending", "write_pending">>,
                     <<"merge_checklist", "write_checklist">>,
                     <<"merge", "write">>, <<"merge_entry", "write_entry">>} :
          pc[b] = step[1] /\ pc'[b] = step[2]
  BY DEF MergeCondition
<1>2. /\ UNCHANGED <<text, rates, row, bonusRow, listed, todo, pending, draft>>
      /\ seen'[b] = row[draft[b].product]
  BY DEF MergeCondition, store
<1>3. draft[b].product \in Products /\ todo[b] \subseteq Products /\ pending[b] \subseteq Products
  BY <1>1 DEF Assigned, Writing, Draft
<1>4. Current(draft[b])' = Current(draft[b])
  BY <1>2, <1>3, TablesUnchanged DEF Current, CurrentRecord
<1>5. LocalsFresh(b)
  BY DEF AloneInv
<1>6. LocalsFresh(b)'
  <2>1. CASE step[1] = "merge_pending"
    BY <1>1, <1>2, <1>3, <1>4, <1>5, <2>1, TablesUnchanged
       DEF LocalsFresh, SyncLoop, FirstLoop, SecondLoop, Flushing
  <2>2. CASE step[1] = "merge_checklist"
    BY <1>1, <1>2, <1>3, <1>4, <1>5, <2>2, TablesUnchanged
       DEF LocalsFresh, SyncLoop, FirstLoop, SecondLoop, Flushing
  <2>3. CASE step[1] = "merge"
    BY <1>1, <1>2, <1>3, <1>4, <1>5, <2>3, TablesUnchanged
       DEF LocalsFresh, SyncLoop, FirstLoop, SecondLoop, Flushing
  <2>4. CASE step[1] = "merge_entry"
    BY <1>1, <1>2, <1>3, <1>4, <1>5, <2>4, TablesUnchanged
       DEF LocalsFresh, SyncLoop, FirstLoop, SecondLoop, Flushing
  <2> QED
    BY <1>1, <2>1, <2>2, <2>3, <2>4
<1>7. pc'[b] \in {"ask", "check", "merge", "write", "returned"} =>
          \A p \in Products : Stored(p)' => Readable(p)'
  BY <1>1, <1>2, TablesUnchanged DEF AloneInv, ReadableWhileAsking
<1> QED
  BY <1>1, <1>2, <1>6, <1>7, TablesUnchanged, OneBatch

\* A draft of the present source keeps every product readable, with the
\* compatibility rows made from it or none.
LEMMA WriteAlone ==
    ASSUME TypeInv, AloneInv, NEW b \in Batches,
           pc[b] \in Flushing \ {"write_pending"}, WriteDraft(b),
           NEW q, q = draft[b].product
    PROVE  /\ BonusesFollowCondition'
           /\ NoStaleBonusText'
           /\ \A p \in Products : OwnConditions(row'[p])
           /\ q \in Products
           /\ Current(draft[b])
           /\ Readable(q)'
           /\ row'[q] = draft[b].row
           /\ attempts' = attempts
           /\ \A p \in Products : /\ Stored(p)' = Stored(p)
                                  /\ ConditionSource(p)' = ConditionSource(p)
           /\ \A p \in Products \ {q} : /\ row'[p] = row[p]
                                        /\ Saving(p)' = Saving(p)
                                        /\ Readable(p)' = Readable(p)
<1> USE DEF TypeInv, Typed, TypeOK
<1>1. /\ q \in Products
      /\ draft[b].row \in Row
      /\ draft[b].withBonuses \in BOOLEAN
      /\ row[q] \in Row \cup {None}
  BY DEF Assigned, Draft, Writing, Flushing, StoreTypeOK
<1>2. /\ Current(draft[b]) /\ seen[b] = row[q]
      /\ LET s == draft[b].row.source
         IN  draft[b].row \in {ChecklistRecord(s), CompleteRecord(s), ManualRecord(s)}
  BY DEF AloneInv, LocalsFresh, Flushing
<1>3. PICK value \in {Merged(row[q], seen[b], draft[b].row, TRUE),
                      Merged(row[q], seen[b], draft[b].row, FALSE)} :
          row' = [row EXCEPT ![q] = value]
  BY DEF WriteDraft, ReplaceConditions
<1>4. value = draft[b].row
  BY <1>1, <1>2, <1>3, MergedAlone
<1>5. /\ row' = [row EXCEPT ![q] = draft[b].row]
      /\ bonusRow'[q] \in {draft[b].row, None}
      /\ \A p \in Products \ {q} : bonusRow'[p] = bonusRow[p]
      /\ UNCHANGED <<text, rates, attempts>>
  BY <1>1, <1>3, <1>4 DEF WriteDraft, ReplaceConditions, StoreTypeOK
<1>6. row'[q] = draft[b].row /\ \A p \in Products \ {q} : row'[p] = row[p]
  BY <1>1, <1>5 DEF StoreTypeOK
<1>7. \A p \in Products : Stored(p)' = Stored(p) /\ ConditionSource(p)' = ConditionSource(p)
  BY <1>5 DEF Stored, ConditionSource
<1>8. draft[b].row.source = ConditionSource(q) /\ draft[b].row.schema = "current"
  BY <1>1, <1>2 DEF Current, CurrentRecord, Matches
<1>9. draft[b].row.status # "PENDING"
  BY <1>2, RecordFields
<1>10. Readable(q)'
  BY <1>1, <1>6, <1>7, <1>8, <1>9, NoneIsApart DEF Readable
<1>11. NoStaleBonusText'
  <2>1. draft[b].row.source.text = text[q]
    BY <1>8 DEF ConditionSource
  <2> QED
    BY <1>5, <2>1 DEF AloneInv, NoStaleBonusText
<1>12. BonusesFollowCondition'
  BY <1>5, <1>6 DEF AloneInv, BonusesFollowCondition
<1>13. \A p \in Products : OwnConditions(row'[p])
  <2>1. OwnConditions(draft[b].row)
    BY <1>2, RecordsOwn
  <2> QED
    BY <1>6, <2>1 DEF AloneInv
<1>14. \A p \in Products \ {q} : Saving(p)' = Saving(p) /\ Readable(p)' = Readable(p)
  BY <1>6, <1>7 DEF Saving, Readable
<1> QED
  BY <1>1, <1>2, <1>5, <1>6, <1>7, <1>10, <1>11, <1>12, <1>13, <1>14

\* Both phases of a structure run.
LEMMA StructureAlone ==
    ASSUME Alone, TypeInv, AloneInv, NEW b \in Batches, Structure(b)
    PROVE  AloneInv'
<1> USE DEF TypeInv, Typed, TypeOK, Goto
<1>1. CASE ListProducts(b)
  <2>1. /\ pc'[b] = "checklist" /\ UNCHANGED <<text, rates, row, bonusRow>>
        /\ listed'[b] = ListEvery
        /\ todo'[b] = {p \in Products : Stored(p)}
        /\ pending'[b] = {}
    BY <1>1 DEF ListProducts, store
  <2>2. /\ \A p \in Products : Stored(p)' => p \in todo'[b]
        /\ \A p \in todo'[b] : Stored(p)' /\ listed'[b][p] = Saving(p)'
    BY <2>1, TablesUnchanged DEF ListEvery
  <2>3. LocalsFresh(b)'
    BY <2>1, <2>2
       DEF LocalsFresh, SyncLoop, FirstLoop, SecondLoop, Flushing
  <2> QED
    BY <2>1, <2>3, TablesUnchanged, OneBatch
<1>2. ASSUME NEW q \in Products, SkipProduct(b, q) PROVE AloneInv'
  <2>1. /\ pc[b] = "checklist" /\ pc'[b] = "checklist"
        /\ UNCHANGED <<text, rates, row, bonusRow>>
        /\ listed'[b] = listed[b] /\ pending'[b] = pending[b]
        /\ q \in todo[b] /\ todo'[b] = todo[b] \ {q}
        /\ Settled(listed[b][q])
    BY <1>2 DEF SkipProduct, Visit, store
  <2>2. Readable(q)
    BY <2>1, SettledReadable DEF AloneInv, LocalsFresh, FirstLoop, SecondLoop
  <2>3. \A p \in Products : Stored(p)' => p \in todo'[b] \/ Readable(p)'
    BY <2>1, <2>2, TablesUnchanged DEF AloneInv, LocalsFresh, FirstLoop, SecondLoop
  <2>4. LocalsFresh(b)'
    BY <2>1, <2>3, TablesUnchanged
       DEF AloneInv, LocalsFresh, SyncLoop, FirstLoop, SecondLoop, Flushing
  <2> QED
    BY <2>1, <2>4, TablesUnchanged, OneBatch
<1>3. ASSUME NEW q \in Products, CheckChecklist(b, q) PROVE AloneInv'
  <2>1. PICK d : d = Drafted(q, ChecklistRecord(listed[b][q].source), FALSE)
    OBVIOUS
  <2>2. /\ pc[b] = "checklist"
        /\ UNCHANGED <<text, rates, row, bonusRow>>
        /\ listed'[b] = listed[b] /\ pending'[b] = pending[b]
        /\ q \in todo[b] /\ todo'[b] = todo[b] \ {q}
        /\ ~Settled(listed[b][q])
    BY <1>3 DEF CheckChecklist, Visit, store
  <2>3. d.product = q /\ d.row = ChecklistRecord(listed[b][q].source)
    BY <2>1 DEF Drafted
  <2>4. CASE Current(d)
    <3>1. pc'[b] = "merge_checklist" /\ draft'[b] = d
      BY <1>3, <2>1, <2>4 DEF CheckChecklist
    <3>2. Current(d)'
      BY <2>2, <2>3, <2>4, TablesUnchanged DEF Current, CurrentRecord
    <3>3. \A p \in Products : Stored(p)' => p \in todo'[b] \/ Readable(p)' \/ p = d.product
      BY <2>2, <2>3, TablesUnchanged DEF AloneInv, LocalsFresh, FirstLoop, SecondLoop
    <3>4. ~Readable(q)'
      BY <2>2, SettledReadable, TablesUnchanged DEF AloneInv, LocalsFresh, FirstLoop, SecondLoop
    <3>5. LocalsFresh(b)'
      BY <2>2, <2>3, <3>1, <3>2, <3>3, <3>4, RecordFields, TablesUnchanged
         DEF AloneInv, LocalsFresh, SyncLoop, FirstLoop, SecondLoop, Flushing
    <3> QED
      BY <3>1, <3>5, TablesUnchanged, <2>2, OneBatch
  <2>5. CASE ~Current(d)
    <3>1. Stored(q) /\ listed[b][q] = Saving(q)
      BY <2>2 DEF AloneInv, LocalsFresh, FirstLoop, SecondLoop
    <3>2. listed[b][q].source = ConditionSource(q)
      BY <3>1 DEF Saving
    <3> QED
      BY <2>3, <2>5, <3>1, <3>2, RecordFields DEF Current, CurrentRecord, Matches
  <2> QED
    BY <2>4, <2>5
<1>4. ASSUME NEW q \in Products, RecordAttempt(b, q) PROVE AloneInv'
  <2>1. PICK s : s = listed[b][q].source
    OBVIOUS
  <2>2. PICK outcome, withBonuses :
            draft'[b] = Drafted(q, ExtractedRecord(s, outcome = "complete"), withBonuses)
    BY <1>4, <2>1 DEF RecordAttempt
  <2>3. /\ pc[b] = "ask" /\ pc'[b] = "check"
        /\ UNCHANGED <<text, rates, row, bonusRow>>
        /\ q \in todo[b] /\ todo'[b] = todo[b] \ {q}
    BY <1>4 DEF RecordAttempt, Visit, SaveConditionAttempt
  <2>4. /\ draft'[b].product = q
        /\ draft'[b].row = ExtractedRecord(s, outcome = "complete")
    BY <2>2 DEF Drafted
  <2>5. LET source == draft'[b].row.source
        IN  draft'[b].row \in {CompleteRecord(source), ChecklistRecord(source)}
    <3>1. draft'[b].row \in {CompleteRecord(s), ChecklistRecord(s)}
      BY <2>4 DEF ExtractedRecord, CompleteRecord
    <3> QED
      BY <3>1, RecordFields
  <2>6. Checklisted(q)' /\ \A p \in todo'[b] : Checklisted(p)'
    BY <2>3, TablesUnchanged DEF AloneInv, LocalsFresh, FirstLoop, SecondLoop
  <2>7. LocalsFresh(b)'
    BY <2>3, <2>4, <2>5, <2>6
       DEF LocalsFresh, SyncLoop, FirstLoop, SecondLoop, Flushing
  <2>8. \A p \in Products : Stored(p)' => Readable(p)'
    BY <2>3, TablesUnchanged DEF AloneInv, ReadableWhileAsking
  <2> QED
    BY <2>3, <2>7, <2>8, TablesUnchanged, OneBatch
<1>5. CASE WriteChecklist(b)
  <2>1. /\ pc[b] = "write_checklist" /\ pc'[b] = "checklist"
        /\ WriteDraft(b)
        /\ listed'[b] = listed[b] /\ todo'[b] = todo[b]
        /\ pending'[b] = pending[b] \cup {draft[b].product}
    BY <1>5 DEF WriteChecklist
  <2>2. PICK q : q = draft[b].product
    OBVIOUS
  <2>3. /\ Current(draft[b])
        /\ draft[b].row = ChecklistRecord(draft[b].row.source)
    BY <2>1 DEF AloneInv, LocalsFresh
  <2>4. /\ BonusesFollowCondition'
        /\ NoStaleBonusText'
        /\ \A p \in Products : OwnConditions(row'[p])
        /\ q \in Products
        /\ Readable(q)'
        /\ row'[q] = draft[b].row
        /\ \A p \in Products : /\ Stored(p)' = Stored(p)
                               /\ ConditionSource(p)' = ConditionSource(p)
        /\ \A p \in Products \ {q} : /\ row'[p] = row[p]
                                     /\ Saving(p)' = Saving(p)
                                     /\ Readable(p)' = Readable(p)
    BY <2>1, <2>2, WriteAlone DEF Flushing
  <2>5. /\ \A p \in todo'[b] : Stored(p)' /\ listed'[b][p] = Saving(p)'
        /\ \A p \in Products : Stored(p)' => p \in todo'[b] \/ Readable(p)'
    <3>1. todo[b] \subseteq Products /\ q \notin todo[b]
      BY <2>1, <2>2 DEF AloneInv, LocalsFresh, FirstLoop, SecondLoop
    <3>2. \A p \in todo[b] : Stored(p) /\ listed[b][p] = Saving(p)
      BY <2>1 DEF AloneInv, LocalsFresh, FirstLoop, SecondLoop
    <3>3. \A p \in Products : Stored(p) => p \in todo[b] \/ Readable(p) \/ p = q
      BY <2>1, <2>2 DEF AloneInv, LocalsFresh, FirstLoop, SecondLoop
    <3> QED
      BY <2>1, <2>4, <3>1, <3>2, <3>3
  <2>6. Checklisted(q)'
    <3>1. Stored(q) /\ draft[b].row.source = ConditionSource(q)
      BY <2>2, <2>3 DEF Current, CurrentRecord, Matches
    <3> QED
      BY <2>3, <2>4, <3>1 DEF Checklisted
  <2>7. \A p \in pending'[b] : Checklisted(p)'
    BY <2>1, <2>2, <2>4, <2>6 DEF AloneInv, LocalsFresh, FirstLoop, SecondLoop, Checklisted
  <2>8. LocalsFresh(b)'
    BY <2>1, <2>5, <2>7
       DEF LocalsFresh, SyncLoop, FirstLoop, SecondLoop, Flushing
  <2> QED
    BY <2>1, <2>4, <2>8, OneBatch
<1>6. CASE BeginAsking(b)
  <2>1. /\ pc[b] = "checklist" /\ pc'[b] = "ask"
        /\ UNCHANGED <<text, rates, row, bonusRow>>
        /\ todo[b] = {} /\ todo'[b] = pending[b]
    BY <1>6 DEF BeginAsking, store
  <2>2. \A p \in Products : Stored(p)' => Readable(p)'
    BY <2>1, TablesUnchanged DEF AloneInv, LocalsFresh, FirstLoop, SecondLoop
  <2>3. \A p \in todo'[b] : Checklisted(p)'
    BY <2>1, TablesUnchanged DEF AloneInv, LocalsFresh, FirstLoop, SecondLoop
  <2>4. LocalsFresh(b)'
    BY <2>1, <2>3
       DEF LocalsFresh, SyncLoop, FirstLoop, SecondLoop, Flushing
  <2> QED
    BY <2>1, <2>2, <2>4, TablesUnchanged, OneBatch
<1>7. CASE CheckSource(b)
  <2>1. /\ pc[b] = "check" /\ UNCHANGED <<text, rates, row, bonusRow>>
        /\ todo'[b] = todo[b]
        /\ \/ pc'[b] = "merge" /\ Current(draft[b]) /\ draft' = draft
           \/ pc'[b] = "ask"
    BY <1>7 DEF CheckSource, store
  <2>2. \A p \in Products : Stored(p)' => Readable(p)'
    BY <2>1, TablesUnchanged DEF AloneInv, ReadableWhileAsking
  <2>3. draft[b].product \in Products
    BY <2>1 DEF Assigned, Writing, Draft
  <2>4. Current(draft[b]) /\ draft' = draft => Current(draft[b])'
    BY <2>1, <2>3, TablesUnchanged DEF Current, CurrentRecord
  <2>5. LocalsFresh(b)'
    BY <2>1, <2>3, <2>4, TablesUnchanged
       DEF AloneInv, LocalsFresh, SyncLoop, FirstLoop, SecondLoop, Flushing
  <2> QED
    BY <2>1, <2>2, <2>5, TablesUnchanged, OneBatch
<1>8. CASE WriteConditions(b)
  <2>1. /\ pc[b] = "write" /\ pc'[b] = "ask"
        /\ WriteDraft(b)
        /\ todo'[b] = todo[b]
    BY <1>8 DEF WriteConditions
  <2>2. PICK q : q = draft[b].product
    OBVIOUS
  <2>4. /\ BonusesFollowCondition'
        /\ NoStaleBonusText'
        /\ \A p \in Products : OwnConditions(row'[p])
        /\ q \in Products
        /\ Readable(q)'
        /\ \A p \in Products : /\ Stored(p)' = Stored(p)
                               /\ ConditionSource(p)' = ConditionSource(p)
        /\ \A p \in Products \ {q} : /\ row'[p] = row[p]
                                     /\ Readable(p)' = Readable(p)
    BY <2>1, <2>2, WriteAlone DEF Flushing
  <2>5. \A p \in Products : Stored(p)' => Readable(p)'
    BY <2>1, <2>4 DEF AloneInv, ReadableWhileAsking
  <2>6. \A p \in todo'[b] : Checklisted(p)'
    BY <2>1, <2>2, <2>4 DEF AloneInv, LocalsFresh, FirstLoop, SecondLoop, Checklisted
  <2>7. LocalsFresh(b)'
    BY <2>1, <2>6
       DEF LocalsFresh, SyncLoop, FirstLoop, SecondLoop, Flushing
  <2> QED
    BY <2>1, <2>4, <2>5, <2>7, OneBatch
<1>9. CASE Return(b)
  <2>1. /\ pc[b] = "ask" /\ pc'[b] = "returned"
        /\ UNCHANGED <<text, rates, row, bonusRow>>
    BY <1>9 DEF Return, store
  <2>2. \A p \in Products : Stored(p)' => Readable(p)'
    BY <2>1, TablesUnchanged DEF AloneInv, ReadableWhileAsking
  <2>3. LocalsFresh(b)'
    BY <2>1
       DEF LocalsFresh, SyncLoop, FirstLoop, SecondLoop, Flushing
  <2> QED
    BY <2>1, <2>2, <2>3, TablesUnchanged, OneBatch
<1> QED
  BY <1>1, <1>2, <1>3, <1>4, <1>5, <1>6, <1>7, <1>8, <1>9 DEF Structure

\* The import of conditions written by hand.
LEMMA ImportAlone ==
    ASSUME Alone, TypeInv, AloneInv, NEW b \in Batches, Import(b)
    PROVE  AloneInv'
<1> USE DEF TypeInv, Typed, TypeOK, Goto
<1>1. CASE ChooseEntries(b)
  <2>1. pc'[b] = "import_next" /\ UNCHANGED <<text, rates, row, bonusRow>>
    BY <1>1 DEF ChooseEntries, store
  <2>2. LocalsFresh(b)'
    BY <2>1
       DEF LocalsFresh, SyncLoop, FirstLoop, SecondLoop, Flushing
  <2> QED
    BY <2>1, <2>2, TablesUnchanged, OneBatch
<1>2. ASSUME NEW q \in Products, CheckEntry(b, q) PROVE AloneInv'
  <2>1. PICK withBonuses \in BOOLEAN :
            LET d == Drafted(q, ManualRecord(listed[b][q].source), withBonuses)
            IN  Current(d) /\ draft'[b] = d
    BY <1>2 DEF CheckEntry
  <2>2. pc'[b] = "merge_entry" /\ UNCHANGED <<text, rates, row, bonusRow>>
    BY <1>2 DEF CheckEntry, store
  <2>3. /\ draft'[b].product = q
        /\ draft'[b].row = ManualRecord(listed[b][q].source)
    BY <2>1 DEF Drafted
  <2>4. draft'[b].row = ManualRecord(draft'[b].row.source)
    BY <2>3, RecordFields
  <2>5. Current(draft[b])'
    BY <2>1, <2>2, <2>3, TablesUnchanged DEF Current, CurrentRecord, Drafted
  <2>6. LocalsFresh(b)'
    BY <2>2, <2>4, <2>5
       DEF LocalsFresh, SyncLoop, FirstLoop, SecondLoop, Flushing
  <2> QED
    BY <2>2, <2>6, TablesUnchanged, OneBatch
<1>3. CASE WriteEntry(b)
  <2>1. /\ pc[b] = "write_entry" /\ pc'[b] = "import_next"
        /\ WriteDraft(b)
    BY <1>3 DEF WriteEntry
  <2>2. /\ BonusesFollowCondition'
        /\ NoStaleBonusText'
        /\ \A p \in Products : OwnConditions(row'[p])
    BY <2>1, WriteAlone DEF Flushing
  <2>3. LocalsFresh(b)'
    BY <2>1 DEF LocalsFresh, SyncLoop, FirstLoop, SecondLoop, Flushing
  <2> QED
    BY <2>1, <2>2, <2>3, OneBatch
<1>4. CASE NothingImported(b) \/ ImportDone(b) \/ \E q \in Products : EntryRefused(b, q)
  BY <1>4, RestartAlone DEF NothingImported, ImportDone, EntryRefused, store
<1> QED
  BY <1>1, <1>2, <1>3, <1>4 DEF Import

\* Every step of a lone batch keeps the invariant.
LEMMA StepAlone ==
    ASSUME Alone, TypeInv, AloneInv, [Next]_vars
    PROVE  AloneInv'
<1>1. ASSUME UNCHANGED <<text, rates, row, bonusRow>>, UNCHANGED batch PROVE AloneInv'
  <2>1. \A b \in Batches : draft[b].product \in Products =>
            (Current(draft[b])' <=> Current(draft[b]))
    BY <1>1, TablesUnchanged DEF batch, Current, CurrentRecord
  <2>2. \A b \in Batches : pc[b] \in Writing => draft[b].product \in Products
    BY DEF TypeInv, Typed, Assigned, Draft
  <2>3. \A b \in Batches : todo[b] \subseteq Products /\ pending[b] \subseteq Products
    BY DEF TypeInv, Typed, TypeOK
  <2>4. ASSUME NEW b \in Batches PROVE LocalsFresh(b)'
    <3>1. LocalsFresh(b)
      BY DEF AloneInv
    <3> QED
      BY <1>1, <2>1, <2>2, <2>3, <3>1, TablesUnchanged
         DEF batch, LocalsFresh, Writing, SyncLoop, FirstLoop, SecondLoop, Flushing
  <2>5. SyncLeavesNoStale' /\ ReadableWhileAsking'
    BY <1>1, TablesUnchanged DEF AloneInv, batch, SyncLeavesNoStale, ReadableWhileAsking
  <2>6. (\A p \in Products : OwnConditions(row[p]))'
    BY <1>1, TablesUnchanged DEF OwnConditions
  <2> QED
    BY <1>1, <2>4, <2>5, <2>6, TablesUnchanged DEF AloneInv
<1>2. ASSUME NEW p \in Products, NEW s \in Disclosures \cup {None}, Publish(p, s)
      PROVE  AloneInv'
  BY <1>1, <1>2 DEF Publish, store
<1>3. UNCHANGED vars => AloneInv'
  BY <1>1 DEF vars, store
<1>4. ASSUME NEW b \in Batches,
             \/ StartRefresh(b) \/ StartStructure(b) \/ StartImport(b) \/ Abort(b)
             \/ RowTaken(b)
      PROVE  AloneInv'
  BY <1>4, RestartAlone DEF StartRefresh, StartStructure, StartImport, Start, Abort, RowTaken,
                            store
<1> QED
  BY <1>2, <1>3, <1>4, SyncAlone, StructureAlone, ImportAlone, MergeAlone DEF Next, Work

\* It holds before the first batch.
LEMMA InitAlone == Init => AloneInv
<1> SUFFICES ASSUME Init PROVE AloneInv
  OBVIOUS
<1>1. \A b \in Batches : pc[b] = "idle"
  BY DEF Init
<1>2. NoStaleBonusText /\ BonusesFollowCondition
  BY DEF Init, StoreInit, NoStaleBonusText, BonusesFollowCondition, OldRow
<1>3. \A p \in Products : OwnConditions(row[p])
  BY DEF Init, StoreInit, OwnConditions, OldRow
<1> QED
  BY <1>1, <1>2, <1>3 DEF AloneInv, LocalsFresh, SyncLeavesNoStale, ReadableWhileAsking,
                          SyncLoop, FirstLoop, SecondLoop, Flushing

-----------------------------------------------------------------------------
(* The invariants of batches that run one at a time *)

\* The invariant holds in every state.
LEMMA AloneInvariant == ASSUME Alone PROVE Spec => []AloneInv
<1>1. Init => AloneInv
  BY InitAlone
<1>2. TypeInv /\ AloneInv /\ [Next]_vars => AloneInv'
  BY StepAlone
<1>3. Spec => []TypeInv
  BY TypeCorrect, PTL DEF TypeInv, Typed
<1> QED
  BY <1>1, <1>2, <1>3, PTL DEF Spec

\* An AI result is never in the table without its raw answer in the log.
THEOREM AttemptsPrecedeResults == ASSUME Alone PROVE Spec => []AttemptBeforeResult
<1>1. AloneInv /\ ConditionsLogged => AttemptBeforeResult
  BY DEF AloneInv, ConditionsLogged, OwnConditions, AttemptBeforeResult
<1> QED
  BY <1>1, AloneInvariant, AttemptsLogged, PTL

\* The compatibility rows of a product are those of its condition row, or none.
THEOREM BonusesFollow == ASSUME Alone PROVE Spec => []BonusesFollowCondition
<1>1. AloneInv => BonusesFollowCondition
  BY DEF AloneInv
<1> QED
  BY <1>1, AloneInvariant, PTL

\* Compatibility rows never outlive the bonus text they were made from.
THEOREM BonusTextFresh == ASSUME Alone PROVE Spec => []NoStaleBonusText
<1>1. AloneInv => NoStaleBonusText
  BY DEF AloneInv
<1> QED
  BY <1>1, AloneInvariant, PTL

\* A finished sync leaves a condition row of the present source at every product.
THEOREM SyncComplete == ASSUME Alone PROVE Spec => []SyncLeavesNoStale
<1>1. AloneInv => SyncLeavesNoStale
  BY DEF AloneInv
<1> QED
  BY <1>1, AloneInvariant, PTL

\* While a batch waits for the AI, every product has something to read.
THEOREM AskingKeepsReadable == ASSUME Alone PROVE Spec => []ReadableWhileAsking
<1>1. AloneInv => ReadableWhileAsking
  BY DEF AloneInv
<1> QED
  BY <1>1, AloneInvariant, PTL

-----------------------------------------------------------------------------
(* What a reader sees of batches that run one at a time *)

\* What is invalidated could not be read before.
LEMMA InvalidatesNothingShown ==
    ASSUME Inv, Inv', AloneInv, Invalidates
    PROVE  UNCHANGED TableVars
<1> USE DEF Inv, TypeInv, Typed, TypeOK
<1>1. PICK b \in Batches :
          /\ pc[b] = "write_pending"
          /\ InvalidateChanged(listed[b], draft[b].product, seen[b], todo[b])
  BY DEF Invalidates
<1> DEFINE reset == todo[b] \cup {draft[b].product}
<1>2. /\ \A p \in reset : ~UpToDate(p) /\ row'[p] = PendingRecord(ConditionSource(p))
      /\ \A p \in Products \ reset : row'[p] = row[p]
      /\ UNCHANGED <<text, rates, attempts>>
  BY <1>1, InvalidateEffect
<1>3. Asked' = Asked /\ \A p \in Products : SourceOf(p)' = SourceOf(p)
  BY <1>2 DEF Asked, SourceOf, Stored, ConditionSource
<1>4. ASSUME NEW p \in Products PROVE Shown(p)' = Shown(p)
  <2>1. CASE p \notin reset
    BY <1>2, <1>3, <2>1, ShownUnchanged
  <2>2. CASE p \in reset
    <3>1. ~Readable(p)
      BY <1>2, <2>2 DEF UpToDate, Matches, Readable
    <3>2. row'[p] = PendingRecord(ConditionSource(p))
      BY <1>2, <2>2
    <3>3. PendingRecord(ConditionSource(p)).status = "PENDING"
      BY DEF PendingRecord, Record
    <3>4. ~Readable(p)'
      BY <3>2, <3>3 DEF Readable
    <3> QED
      BY <3>1, <3>4 DEF Shown
  <2> QED
    BY <2>1, <2>2
<1> QED
  BY <1>3, <1>4 DEF TableVars

\* A record that is written is worth more than what was shown, or the same.
LEMMA WriteAddsWorth ==
    ASSUME Inv, Inv', AloneInv, Writes
    PROVE  \/ \E p \in Products, stage \in Table!Stages :
                 Table!Write(p, stage) /\ Table!Worth[Shown(p)] < Table!Worth[stage]
           \/ UNCHANGED TableVars
<1> USE DEF Inv, TypeInv, Typed, TypeOK
<1>1. PICK b \in Batches : pc[b] \in Flushing \ {"write_pending"} /\ WriteDraft(b)
  BY DEF Writes
<1>2. PICK q : q = draft[b].product
  OBVIOUS
<1>3. /\ Current(draft[b])
      /\ q \in Products
      /\ Readable(q)'
      /\ row'[q] = draft[b].row
      /\ \A p \in Products : /\ Stored(p)' = Stored(p)
                             /\ ConditionSource(p)' = ConditionSource(p)
      /\ \A p \in Products \ {q} : row'[p] = row[p]
      /\ attempts' = attempts
  <2> HIDE DEF Inv, TypeOK
  <2> QED
    BY <1>1, <1>2, WriteAlone DEF Inv
<1>4. /\ q \in Products
      /\ Readable(q)'
      /\ row'[q] = draft[b].row
      /\ \A p \in Products : /\ Stored(p)' = Stored(p)
                             /\ ConditionSource(p)' = ConditionSource(p)
      /\ \A p \in Products \ {q} : row'[p] = row[p]
  BY <1>3
<1>5. Asked' = Asked
  BY <1>3 DEF Asked
<1>6. \A p \in Products : SourceOf(p)' = SourceOf(p)
  BY <1>4 DEF SourceOf
<1>7. \A p \in Products \ {q} : Shown(p)' = Shown(p)
  BY <1>4, <1>6, ShownUnchanged
<1>8. Stored(q)
  BY <1>2, <1>3 DEF Current, CurrentRecord
<1>9. SourceOf(q) # None /\ SourceOf(q)' # None
  BY <1>4, <1>6, <1>8, ShownForDisclosure
<1>10. PICK stage : stage = Shown(q)'
  OBVIOUS
<1>11. stage \in Table!Stages
  BY <1>4, <1>10 DEF Shown, Readable, StoreTypeOK, Row, Conditions, Kind, Table!Stages
<1>12. Table!Write(q, stage)
  <2>1. stage = "extracted" => [product |-> q, source |-> SourceOf(q)] \in Asked
    BY <1>4, <1>5, <1>6, <1>9, <1>10, ExtractionGroundedNext
  <2> QED
    BY <1>4, <1>5, <1>6, <1>7, <1>9, <1>10, <2>1 DEF Table!Write, Table!Grounded
<1>13. Table!Worth[Shown(q)] < Table!Worth[stage] \/ stage = Shown(q)
  <2>1. stage = IF draft[b].row.status = "NEEDS_REVIEW" THEN "review"
                ELSE draft[b].row.conditions.kind
    BY <1>4, <1>10 DEF Shown
  <2>2. CASE pc[b] = "write_checklist"
    <3>1. Shown(q) = "none"
      BY <1>2, <2>2 DEF AloneInv, LocalsFresh, Shown
    <3>2. draft[b].row.conditions.kind = "checklist"
      <4>1. draft[b].row = ChecklistRecord(draft[b].row.source)
        BY <2>2 DEF AloneInv, LocalsFresh
      <4> QED
        BY <4>1 DEF ChecklistRecord, Record, Made
    <3>3. stage \in {"review", "checklist"}
      BY <2>1, <3>2
    <3> QED
      BY <3>1, <3>3 DEF Table!Worth
  <2>3. CASE pc[b] = "write"
    <3>1. Checklisted(q) /\ draft[b].row.source = ConditionSource(q)
      BY <1>2, <1>3, <2>3 DEF AloneInv, LocalsFresh, Current, CurrentRecord, Matches
    <3>2. CASE draft[b].row = ChecklistRecord(draft[b].row.source)
      <4>1. row'[q] = row[q]
        BY <1>4, <3>1, <3>2 DEF Checklisted
      <4> QED
        BY <1>4, <1>6, <1>10, <4>1, ShownUnchanged
    <3>3. CASE draft[b].row = CompleteRecord(draft[b].row.source)
      <4>1. stage = "extracted"
        BY <2>1, <3>3 DEF CompleteRecord, Record, Made
      <4>2. row[q].conditions.kind = "checklist"
        BY <3>1 DEF Checklisted, ChecklistRecord, Record, Made
      <4>3. Shown(q) \in {"none", "review", "checklist"}
        BY <4>2 DEF Shown
      <4> QED
        BY <4>1, <4>3 DEF Table!Worth
    <3> QED
      BY <2>3, <3>2, <3>3 DEF AloneInv, LocalsFresh
  <2>4. CASE pc[b] = "write_entry"
    <3>1. draft[b].row = ManualRecord(draft[b].row.source)
      BY <2>4 DEF AloneInv, LocalsFresh
    <3>2. stage = "manual"
      BY <2>1, <3>1 DEF ManualRecord, Record, Made
    <3>3. Shown(q) \in Table!Stages
      BY <1>4, ShownForDisclosure
    <3> QED
      BY <3>2, <3>3 DEF Table!Worth, Table!Stages
  <2> QED
    BY <1>1, <2>2, <2>3, <2>4 DEF Flushing
<1>14. CASE stage = Shown(q)
  <2>1. \A p \in Products : Shown(p)' = Shown(p)
    BY <1>7, <1>10, <1>14
  <2> QED
    BY <1>5, <1>6, <2>1 DEF TableVars
<1> QED
  BY <1>4, <1>11, <1>12, <1>13, <1>14

\* Every step of a lone batch is a step of the table.
LEMMA StepTableAlone ==
    Inv /\ Inv' /\ AloneInv /\ [Next]_vars => [Table!Next]_(Table!vars)
<1> SUFFICES ASSUME Inv, Inv', AloneInv, [Next]_vars
             PROVE  Table!Next \/ UNCHANGED TableVars
  BY DEF TableVars, Table!vars
<1>1. CASE LoadsOnly
  BY <1>1, LoadStep DEF Table!Next
<1>2. CASE Invalidates
  BY <1>2, InvalidatesNothingShown
<1>3. CASE Writes
  BY <1>3, WriteAddsWorth DEF Table!Next
<1>4. CASE Logs
  BY <1>4, AnswerStep DEF Table!Next
<1> QED
  BY <1>1, <1>2, <1>3, <1>4, StoreSteps DEF Inv

\* Batches that run one at a time, stopped wherever they are, never take
\* conditions of an unchanged disclosure away from a reader nor replace them by
\* worse ones.
THEOREM TableImplementedAlone == ASSUME Alone PROVE Spec => ImplementsTableAlone
<1>1. Spec => []Inv
  BY TypeCorrect, AttemptsPrecedeResults, PTL DEF Inv, TypeInv, Typed
<1>2. Spec => []AloneInv
  BY AloneInvariant
<1> QED
  BY <1>1, <1>2, InitTable, StepTableAlone, PTL DEF Spec, ImplementsTableAlone, Table!Spec
=============================================================================
