------------------------- MODULE RefreshBatchProofs -------------------------
(***************************************************************************)
(* Theorems of RefreshBatch, for every set of products, of sources and of  *)
(* batches.                                                                *)
(***************************************************************************)
EXTENDS RefreshBatch, FiniteSetTheorems, TLAPS

-----------------------------------------------------------------------------
(* The records *)

\* The record makers of SavingCondition make rows.
LEMMA RecordsAreRows ==
    ASSUME NEW s \in Source
    PROVE  /\ PendingRecord(s) \in Row
           /\ ChecklistRecord(s) \in Row
           /\ ManualRecord(s) \in Row
           /\ OldRow(s) \in Row
           /\ \A complete \in BOOLEAN : ExtractedRecord(s, complete) \in Row
BY DEF PendingRecord, ChecklistRecord, ManualRecord, OldRow, ExtractedRecord,
       Record, Made, NoConditions, Row, Conditions, Kind, ConditionStatus

\* They make rows of the current schema.
LEMMA RecordsAreCurrent ==
    ASSUME NEW s
    PROVE  /\ PendingRecord(s).schema = "current"
           /\ ChecklistRecord(s).schema = "current"
           /\ ManualRecord(s).schema = "current"
           /\ \A complete \in BOOLEAN : ExtractedRecord(s, complete).schema = "current"
BY DEF PendingRecord, ChecklistRecord, ManualRecord, ExtractedRecord, Record

\* The record that only asks for another extraction holds no conditions.
LEMMA PendingIsEmpty ==
    ASSUME NEW s
    PROVE  /\ PendingRecord(s).conditions = NoConditions
           /\ NoConditions.kind = "none"
BY DEF PendingRecord, Record, NoConditions

\* The source of a stored product is a source, and its listing is one.
LEMMA SourceOfStored ==
    ASSUME StoreTypeOK, NEW p \in Products, Stored(p)
    PROVE  /\ ConditionSource(p) \in Source
           /\ ListEvery[p] \in Listing
BY DEF StoreTypeOK, Stored, ConditionSource, Source, ListEvery, Saving, Listing

\* list_every returns a listing for every product.
LEMMA ListEveryType ==
    ASSUME StoreTypeOK
    PROVE  ListEvery \in [Products -> Listing \cup {None}]
<1>1. SUFFICES ASSUME NEW p \in Products
               PROVE  Saving(p) \in Listing \cup {None}
  BY DEF ListEvery
<1>2. CASE Stored(p)
  BY <1>2, SourceOfStored DEF ListEvery
<1>3. CASE ~Stored(p)
  BY <1>3 DEF Saving
<1> QED
  BY <1>2, <1>3

\* What is kept of a listing is one.
LEMMA SourcesOfType ==
    ASSUME NEW list \in [Products -> Listing \cup {None}], NEW some \in SUBSET Products,
           \A p \in some : list[p] \in Listing
    PROVE  /\ SourcesOf(list, some) \in [Products -> Listing \cup {None}]
           /\ \A p \in some : /\ SourcesOf(list, some)[p] \in Listing
                              /\ SourcesOf(list, some)[p].source = list[p].source
<1>1. ASSUME NEW p \in some
      PROVE  /\ SourcesOf(list, some)[p] \in Listing
             /\ SourcesOf(list, some)[p].source = list[p].source
  <2>1. p \in Products /\ list[p].source \in Source
    BY DEF Listing
  <2>2. SourcesOf(list, some)[p] = [source |-> list[p].source, row |-> None]
    BY <2>1 DEF SourcesOf
  <2> QED
    BY <2>1, <2>2 DEF Listing
<1>2. ASSUME NEW p \in Products \ some PROVE SourcesOf(list, some)[p] = None
  BY DEF SourcesOf
<1>3. \A p \in Products : SourcesOf(list, some)[p] \in Listing \cup {None}
  BY <1>1, <1>2
<1>4. SourcesOf(list, some) \in [Products -> Listing \cup {None}]
  <2> DEFINE value(p) == IF p \in some THEN [source |-> list[p].source, row |-> None] ELSE None
  <2>1. \A p \in Products : value(p) = SourcesOf(list, some)[p]
    BY DEF SourcesOf
  <2>2. \A p \in Products : value(p) \in Listing \cup {None}
    BY <1>3, <2>1
  <2>3. SourcesOf(list, some) = [p \in Products |-> value(p)]
    BY DEF SourcesOf
  <2> HIDE DEF value
  <2> QED
    BY <2>2, <2>3
<1> QED
  BY <1>1, <1>4

\* The outdated products of a listing are listed.
LEMMA OutdatedOfType ==
    ASSUME NEW list \in [Products -> Listing \cup {None}]
    PROVE  /\ OutdatedOf(list) \in SUBSET Products
           /\ \A p \in OutdatedOf(list) : list[p] \in Listing
BY DEF OutdatedOf

\* A merge makes a row of the current schema of whatever was read, as long as
\* a row that was read is still there and one of an earlier release unchanged;
\* its conditions are the new ones or those of a row of the current schema,
\* unless there are none.
LEMMA MergedRow ==
    ASSUME NEW now \in Row \cup {None}, NEW was \in Row \cup {None},
           NEW new \in Row, NEW again \in BOOLEAN, new.schema = "current",
           was # None => now # None /\ (now.schema = "old" => now = was)
    PROVE  /\ Merged(now, was, new, again) \in Row
           /\ Merged(now, was, new, again).schema = "current"
           /\ \/ Merged(now, was, new, again).conditions = new.conditions
              \/ /\ now # None /\ now.schema = "current"
                 /\ Merged(now, was, new, again).conditions = now.conditions
<1> DEFINE m == Merged(now, was, new, again)
<1>1. CASE was = None
  BY <1>1 DEF Merged
<1>2. CASE was # None
  <2>1. now \in Row /\ was \in Row
    BY <1>2
  <2>2. m = [source |-> Column(now.source, was.source, new.source),
             schema |-> Column(now.schema, was.schema, new.schema),
             status |-> Column(now.status, was.status, new.status),
             conditions |-> ConditionsColumn(now.conditions, was.conditions,
                                             new.conditions, again)]
    BY <1>2 DEF Merged
  <2>3. /\ m.source \in {now.source, new.source}
        /\ m.schema = Column(now.schema, was.schema, new.schema)
        /\ m.status \in {now.status, new.status}
        /\ m.conditions = ConditionsColumn(now.conditions, was.conditions, new.conditions, again)
    BY <2>2 DEF Column
  <2>4. m.conditions \in {now.conditions, new.conditions}
    BY <2>3 DEF ConditionsColumn, Column
  <2>5. m.schema = "current"
    <3>1. now.schema \in {"current", "old"}
      BY <2>1 DEF Row
    <3> QED
      BY <2>3, <3>1, <1>2 DEF Column
  <2>6. m \in Row
    <3>1. /\ now.source \in Source /\ new.source \in Source
          /\ now.status \in ConditionStatus /\ new.status \in ConditionStatus
          /\ now.conditions \in Conditions /\ new.conditions \in Conditions
      BY <2>1 DEF Row
    <3> HIDE DEF m
    <3>2. m = [source |-> m.source, schema |-> m.schema, status |-> m.status,
               conditions |-> m.conditions]
      BY <2>2 DEF m
    <3> QED
      BY <2>3, <2>4, <2>5, <3>1, <3>2 DEF Row
  <2>7. now.schema = "old" => m.conditions = new.conditions
    BY <1>2, <2>3 DEF ConditionsColumn, Column
  <2>8. now.schema \in {"current", "old"}
    BY <2>1 DEF Row
  <2> QED
    BY <2>1, <2>4, <2>5, <2>6, <2>7, <2>8, NoneIsApart
<1> QED
  BY <1>1, <1>2

-----------------------------------------------------------------------------
(* The transactions keep the types of the tables *)

\* save_all.
LEMMA SaveAllType ==
    ASSUME StoreTypeOK, NEW load \in [Products -> Source \cup {None}], SaveAll(load)
    PROVE  StoreTypeOK'
<1>1. \A p \in Products : load[p] # None => load[p].text \in Texts
  BY DEF Source
<1> QED
  BY <1>1 DEF StoreTypeOK, SaveAll

\* replace_rate_options.
LEMMA ReplaceRateOptionsType ==
    ASSUME StoreTypeOK, NEW load \in [Products -> Source \cup {None}], ReplaceRateOptions(load)
    PROVE  StoreTypeOK'
<1>1. \A p \in Products : load[p] # None => load[p].rates \in Rates \cup {None}
  BY DEF Source
<1> QED
  BY <1>1 DEF StoreTypeOK, ReplaceRateOptions

\* A row that is or becomes one of the current schema, with the conditions
\* named or with those of such a row.
Becomes(p, conditions) ==
    /\ row'[p] \in Row
    /\ row'[p].schema = "current"
    /\ \/ row'[p].conditions = conditions
       \/ row[p] # None /\ row[p].schema = "current" /\ row'[p].conditions = row[p].conditions

\* The rows a transaction writes about p were read before and are still there.
StillThere(p, was) == was # None => row[p] # None /\ (row[p].schema = "old" => row[p] = was)

\* invalidate_changed_conditions.
LEMMA InvalidateChangedType ==
    ASSUME StoreTypeOK, NEW list \in [Products -> Listing \cup {None}], NEW p \in Products,
           NEW was \in Row \cup {None}, NEW after \in SUBSET Products, StillThere(p, was),
           \A q \in after \cup {p} : list[q] \in Listing,
           InvalidateChanged(list, p, was, after)
    PROVE  /\ StoreTypeOK'
           /\ \A q \in Products : row'[q] = row[q] \/ Becomes(q, NoConditions)
<1> DEFINE Pending(q) == PendingRecord(list[q].source)
           rest == {q \in after : CurrentRecord(q, Pending(q))}
<1>1. \A q \in after \cup {p} : /\ Pending(q) \in Row
                                 /\ Pending(q).schema = "current"
                                 /\ Pending(q).conditions = NoConditions
  <2>1. \A q \in after \cup {p} : list[q].source \in Source
    BY DEF Listing
  <2> QED
    BY <2>1, RecordsAreRows, RecordsAreCurrent, PendingIsEmpty
<1>2. /\ row' = [q \in Products |->
                    IF q = p THEN Merged(row[q], was, Pending(q), FALSE)
                    ELSE IF q \in rest THEN Pending(q) ELSE row[q]]
      /\ bonusRow' = [q \in Products |-> IF q \in rest \cup {p} THEN None ELSE bonusRow[q]]
      /\ UNCHANGED <<text, rates, attempts>>
  BY DEF InvalidateChanged
<1>3. /\ Merged(row[p], was, Pending(p), FALSE) \in Row
      /\ Merged(row[p], was, Pending(p), FALSE).schema = "current"
      /\ \/ Merged(row[p], was, Pending(p), FALSE).conditions = Pending(p).conditions
         \/ /\ row[p] # None /\ row[p].schema = "current"
            /\ Merged(row[p], was, Pending(p), FALSE).conditions = row[p].conditions
  <2>1. row[p] \in Row \cup {None}
    BY DEF StoreTypeOK
  <2>2. Pending(p) \in Row /\ Pending(p).schema = "current"
    BY <1>1
  <2> QED
    BY <2>1, <2>2, MergedRow DEF StillThere
<1> HIDE DEF Pending
<1>4. Becomes(p, NoConditions)
  BY <1>1, <1>2, <1>3 DEF Becomes
<1>5. \A q \in Products \ {p} : row'[q] = row[q] \/ Becomes(q, NoConditions)
  BY <1>1, <1>2 DEF Becomes
<1>6. row' \in [Products -> Row \cup {None}]
  BY <1>1, <1>2, <1>3 DEF StoreTypeOK
<1>7. bonusRow' \in [Products -> Row \cup {None}]
  BY <1>2 DEF StoreTypeOK
<1> QED
  BY <1>2, <1>4, <1>5, <1>6, <1>7 DEF StoreTypeOK

\* The writes of _replace_conditions.
LEMMA ReplaceConditionsType ==
    ASSUME StoreTypeOK, NEW p \in Products, NEW was \in Row \cup {None}, NEW new \in Row,
           NEW withBonuses \in BOOLEAN, new.schema = "current", StillThere(p, was),
           ReplaceConditions(p, was, new, withBonuses)
    PROVE  /\ StoreTypeOK'
           /\ \A q \in Products : row'[q] = row[q] \/ (q = p /\ Becomes(q, new.conditions))
<1> DEFINE Value(again) == Merged(row[p], was, new, again)
<1>1. PICK value \in {Value(TRUE), Value(FALSE)} : row' = [row EXCEPT ![p] = value]
  BY DEF ReplaceConditions
<1>2. row[p] \in Row \cup {None}
  BY DEF StoreTypeOK
<1>3. /\ value \in Row
      /\ value.schema = "current"
      /\ \/ value.conditions = new.conditions
         \/ row[p] # None /\ row[p].schema = "current" /\ value.conditions = row[p].conditions
  <2>1. CASE value = Value(TRUE)
    BY <1>2, <2>1, MergedRow DEF StillThere
  <2>2. CASE value = Value(FALSE)
    BY <1>2, <2>2, MergedRow DEF StillThere
  <2> QED
    BY <2>1, <2>2
<1> HIDE DEF Value
<1>4. row'[p] = value
  BY <1>1 DEF StoreTypeOK
<1>5. Becomes(p, new.conditions)
  BY <1>3, <1>4 DEF Becomes
<1>6. \A q \in Products \ {p} : row'[q] = row[q]
  BY <1>1 DEF StoreTypeOK
<1>7. row' \in [Products -> Row \cup {None}]
  BY <1>1, <1>3 DEF StoreTypeOK
<1>8. /\ bonusRow' \in [Products -> Row \cup {None}]
      /\ UNCHANGED <<text, rates, attempts>>
  BY DEF ReplaceConditions, StoreTypeOK
<1> QED
  BY <1>5, <1>6, <1>7, <1>8 DEF StoreTypeOK

\* save_condition_attempt.
LEMMA SaveConditionAttemptType ==
    ASSUME StoreTypeOK, NEW p \in Products, NEW s \in Source,
           NEW status \in {"VALIDATED", "FAILED"}, SaveConditionAttempt(p, s, status)
    PROVE  StoreTypeOK'
BY DEF StoreTypeOK, SaveConditionAttempt, Attempt
-----------------------------------------------------------------------------
(* Type correctness *)

Typed == TypeOK /\ Assigned

TypeInv == Typed /\ SeenRowStays

\* Whatever an earlier release left in the store is well typed.
LEMMA InitTypeInv == Init => TypeInv
<1> SUFFICES ASSUME Init PROVE TypeInv
  OBVIOUS
<1>1. StoreTypeOK
  <2>1. PICK loaded \in [Products -> Disclosures \cup {None}] :
            /\ text = [p \in Products |-> IF loaded[p] = None THEN None ELSE loaded[p].text]
            /\ rates = [p \in Products |-> IF loaded[p] = None THEN None ELSE loaded[p].rates]
            /\ row = [p \in Products |-> IF loaded[p] = None THEN None ELSE OldRow(loaded[p])]
            /\ bonusRow = row
            /\ attempts = {}
    BY DEF Init, StoreInit
  <2>2. \A p \in Products : loaded[p] # None => /\ loaded[p].text \in Texts
                                                /\ loaded[p].rates \in Rates \cup {None}
                                                /\ OldRow(loaded[p]) \in Row
    BY SourceAssumption, RecordsAreRows DEF Source
  <2> QED
    BY <2>1, <2>2 DEF StoreTypeOK
<1>2. upstream \in [Products -> Source \cup {None}]
  BY SourceAssumption DEF Init
<1>3. TypeOK
  BY <1>1, <1>2 DEF Init, TypeOK, Steps, Nothing, NoTally, Tally
<1>4. Assigned
  BY DEF Init, Assigned, Writing, Looping, FirstLoop
<1>5. SeenRowStays
  BY DEF Init, SeenRowStays, Flushing
<1> QED
  BY <1>3, <1>4, <1>5 DEF TypeInv, Typed

\* A batch that forgets its variables has variables of the right type.
LEMMA ForgetType ==
    ASSUME TypeOK, NEW b \in Batches, Forget(b)
    PROVE  /\ received' \in [Batches -> [Products -> Source \cup {None}]]
           /\ listed' \in [Batches -> [Products -> Listing \cup {None}]]
           /\ todo' \in [Batches -> SUBSET Products]
           /\ pending' \in [Batches -> SUBSET Products]
           /\ draft' \in [Batches -> Draft \cup {None}]
           /\ seen' \in [Batches -> Row \cup {None}]
           /\ tally' \in [Batches -> Tally]
BY DEF TypeOK, Forget, Nothing, NoTally, Tally

\* A run that starts, or ends in the step "idle".
LEMMA RestartTypeInv ==
    ASSUME TypeInv, NEW b \in Batches, NEW step \in Steps \ Looping,
           pc' = [pc EXCEPT ![b] = step], Forget(b), UNCHANGED <<store, upstream, published>>,
           aborted' \in Nat
    PROVE  Typed'
<1> USE DEF TypeInv, Typed
<1>1. StoreTypeOK'
  BY DEF TypeOK, StoreTypeOK, store
<1>2. TypeOK'
  BY <1>1, ForgetType DEF TypeOK
<1>3. Assigned'
  BY DEF TypeOK, Assigned, Forget, Writing, Looping, FirstLoop
<1> QED
  BY <1>2, <1>3

\* The draft of a listed product.
LEMMA ListedDraft ==
    ASSUME NEW p \in Products, NEW l \in Listing, NEW withBonuses \in BOOLEAN
    PROVE  /\ l.source \in Source
           /\ Drafted(p, PendingRecord(l.source), withBonuses) \in Draft
           /\ Drafted(p, ChecklistRecord(l.source), withBonuses) \in Draft
           /\ Drafted(p, ManualRecord(l.source), withBonuses) \in Draft
           /\ \A complete \in BOOLEAN :
                Drafted(p, ExtractedRecord(l.source, complete), withBonuses) \in Draft
BY RecordsAreRows DEF Listing, Draft, Drafted

\* The writes of a sync that found outdated products, at the first of them.
LEMMA InvalidateType ==
    ASSUME TypeInv, NEW b \in Batches, pc[b] = "write_pending",
           InvalidateChanged(listed[b], draft[b].product, seen[b], todo[b])
    PROVE  /\ StoreTypeOK'
           /\ \A q \in Products : row'[q] = row[q] \/ Becomes(q, NoConditions)
<1>1. /\ StoreTypeOK
      /\ listed[b] \in [Products -> Listing \cup {None}]
      /\ seen[b] \in Row \cup {None}
      /\ todo[b] \in SUBSET Products
  BY DEF TypeInv, Typed, TypeOK
<1>2. /\ draft[b].product \in Products
      /\ \A q \in todo[b] \cup {draft[b].product} : listed[b][q] \in Listing
  BY DEF TypeInv, Typed, Assigned, Writing, Looping, Draft
<1>3. StillThere(draft[b].product, seen[b])
  BY DEF TypeInv, SeenRowStays, StillThere, Flushing
<1> QED
  BY <1>1, <1>2, <1>3, InvalidateChangedType

\* What WriteDraft does to the types, at any step that writes.
LEMMA WriteDraftType ==
    ASSUME TypeInv, NEW b \in Batches, pc[b] \in Flushing, WriteDraft(b)
    PROVE  /\ StoreTypeOK'
           /\ draft' \in [Batches -> Draft \cup {None}]
           /\ seen' \in [Batches -> Row \cup {None}]
           /\ \A q \in Products : \/ row'[q] = row[q]
                                  \/ /\ q = draft[b].product
                                     /\ Becomes(q, draft[b].row.conditions)
<1>1. draft[b] \in Draft /\ draft[b].row.schema = "current"
  BY DEF TypeInv, Typed, Assigned, Writing, Flushing
<1>2. /\ draft[b].product \in Products
      /\ draft[b].row \in Row
      /\ draft[b].withBonuses \in BOOLEAN
  BY <1>1 DEF Draft
<1>3. StillThere(draft[b].product, seen[b])
  BY DEF TypeInv, SeenRowStays, StillThere
<1>4. /\ StoreTypeOK
      /\ seen[b] \in Row \cup {None}
      /\ draft \in [Batches -> Draft \cup {None}]
      /\ seen \in [Batches -> Row \cup {None}]
  BY DEF TypeInv, Typed, TypeOK
<1>5. /\ ReplaceConditions(draft[b].product, seen[b], draft[b].row, draft[b].withBonuses)
      /\ draft' = [draft EXCEPT ![b] = None]
      /\ seen' = [seen EXCEPT ![b] = None]
  BY DEF WriteDraft
<1>6. /\ StoreTypeOK'
      /\ \A q \in Products : \/ row'[q] = row[q]
                             \/ q = draft[b].product /\ Becomes(q, draft[b].row.conditions)
  BY <1>1, <1>2, <1>3, <1>4, <1>5, ReplaceConditionsType
<1> QED
  BY <1>4, <1>5, <1>6

\* The steps of a sync keep the types.
LEMMA SyncTypeInv ==
    ASSUME TypeInv, NEW b \in Batches, Sync(b)
    PROVE  Typed'
<1> USE DEF TypeInv, Typed, TypeOK, Goto
<1>1. CASE Fetch(b)
  <2>1. StoreTypeOK'
    BY <1>1 DEF Fetch, StoreTypeOK, store
  <2>2. TypeOK'
    BY <1>1, <2>1 DEF Fetch, world, Steps
  <2>3. Assigned'
    BY <1>1 DEF Fetch, Assigned, Writing, Looping, FirstLoop
  <2> QED
    BY <2>2, <2>3
<1>2. CASE SaveProducts(b)
  <2>1. StoreTypeOK'
    BY <1>2, SaveAllType DEF SaveProducts
  <2>2. TypeOK'
    BY <1>2, <2>1 DEF SaveProducts, world, Steps
  <2>3. Assigned'
    BY <1>2 DEF SaveProducts, Assigned, Writing, Looping, FirstLoop
  <2> QED
    BY <2>2, <2>3
<1>3. CASE ReplaceRates(b)
  <2>1. StoreTypeOK'
    BY <1>3, ReplaceRateOptionsType DEF ReplaceRates
  <2>2. TypeOK'
    BY <1>3, <2>1 DEF ReplaceRates, world, Steps, Nothing
  <2>3. Assigned'
    BY <1>3 DEF ReplaceRates, Assigned, Writing, Looping, FirstLoop
  <2> QED
    BY <2>2, <2>3
<1>4. CASE ListOutdated(b)
  <2>1. StoreTypeOK'
    BY <1>4 DEF ListOutdated, StoreTypeOK, store
  <2>2. /\ ListEvery \in [Products -> Listing \cup {None}]
        /\ OutdatedOf(ListEvery) \in SUBSET Products
        /\ \A p \in OutdatedOf(ListEvery) : ListEvery[p] \in Listing
    BY ListEveryType, OutdatedOfType
  <2>3. /\ SourcesOf(ListEvery, OutdatedOf(ListEvery)) \in [Products -> Listing \cup {None}]
        /\ \A p \in OutdatedOf(ListEvery) :
              SourcesOf(ListEvery, OutdatedOf(ListEvery))[p] \in Listing
    BY <2>2, SourcesOfType
  <2>4. TypeOK'
    BY <1>4, <2>1, <2>2, <2>3 DEF ListOutdated, world, Steps
  <2>5. Assigned'
    BY <1>4, <2>3 DEF ListOutdated, Assigned, Writing, Looping, FirstLoop
  <2> QED
    BY <2>4, <2>5
<1>5. ASSUME NEW p \in Products, CheckOutdated(b, p) PROVE Typed'
  <2> DEFINE d == Drafted(p, PendingRecord(listed[b][p].source), FALSE)
  <2>1. StoreTypeOK'
    BY <1>5 DEF CheckOutdated, StoreTypeOK, store
  <2>2. /\ listed[b][p] \in Listing
        /\ d \in Draft
        /\ d.product = p
        /\ d.row = PendingRecord(listed[b][p].source)
        /\ d.row.schema = "current"
    BY <1>5, ListedDraft, RecordsAreCurrent
       DEF CheckOutdated, Visit, Assigned, Looping, Drafted
  <2>3. CASE Current(d)
    <3>1. /\ draft' = [draft EXCEPT ![b] = d]
          /\ pc' = [pc EXCEPT ![b] = "merge_pending"]
      BY <1>5, <2>3 DEF CheckOutdated
    <3> HIDE DEF d
    <3>2. TypeOK'
      BY <1>5, <2>1, <2>2, <3>1 DEF CheckOutdated, Visit, world, Steps
    <3>3. Assigned'
      BY <1>5, <2>2, <3>1 DEF CheckOutdated, Visit, Assigned, Writing, Looping, FirstLoop
    <3> QED
      BY <3>2, <3>3
  <2>4. CASE ~Current(d)
    <3>1. UNCHANGED <<pc, draft>>
      BY <1>5, <2>4 DEF CheckOutdated
    <3>2. TypeOK'
      BY <1>5, <2>1, <3>1 DEF CheckOutdated, Visit, world
    <3>3. Assigned'
      BY <1>5, <3>1 DEF CheckOutdated, Visit, Assigned, Writing, Looping, FirstLoop
    <3> QED
      BY <3>2, <3>3
  <2> QED
    BY <2>3, <2>4
<1>6. CASE Invalidate(b)
  <2>1. StoreTypeOK'
    BY <1>6, InvalidateType DEF Invalidate
  <2>2. TypeOK'
    BY <1>6, <2>1 DEF Invalidate, world, Steps, Nothing
  <2>3. Assigned'
    BY <1>6 DEF Invalidate, Assigned, Writing, Looping, FirstLoop
  <2> QED
    BY <2>2, <2>3
<1>7. CASE NothingOutdated(b)
  <2>1. StoreTypeOK'
    BY <1>7 DEF NothingOutdated, StoreTypeOK, store
  <2>2. TypeOK'
    BY <1>7, <2>1 DEF NothingOutdated, world, Steps, Nothing
  <2>3. Assigned'
    BY <1>7 DEF NothingOutdated, Assigned, Writing, Looping, FirstLoop
  <2> QED
    BY <2>2, <2>3
<1> QED
  BY <1>1, <1>2, <1>3, <1>4, <1>5, <1>6, <1>7 DEF Sync

\* So does the read that session.merge begins with.
LEMMA MergeTypeInv ==
    ASSUME TypeInv, NEW b \in Batches, MergeCondition(b)
    PROVE  Typed'
<1> USE DEF TypeInv, Typed, TypeOK, Goto
<1>1. StoreTypeOK'
  BY DEF MergeCondition, StoreTypeOK, store
<1>2. draft[b].product \in Products
  BY DEF MergeCondition, Assigned, Writing, Draft
<1>3. row[draft[b].product] \in Row \cup {None}
  BY <1>2 DEF StoreTypeOK
<1>4. TypeOK'
  BY <1>1, <1>3 DEF MergeCondition, world, Steps
<1>5. Assigned'
  BY DEF MergeCondition, Assigned, Writing, Looping, FirstLoop
<1> QED
  BY <1>4, <1>5

\* What each count adds, and to which field.
LEMMA TallyCounts ==
    ASSUME NEW t \in Tally
    PROVE  /\ /\ Scanned(t) \in Tally
              /\ Scanned(t).scanned = t.scanned + 1
              /\ Scanned(t).skipped = t.skipped
              /\ Scanned(t).structured = t.structured
              /\ Scanned(t).notStructurable = t.notStructurable
           /\ /\ Skipped(t) \in Tally
              /\ Skipped(t).scanned = t.scanned
              /\ Skipped(t).skipped = t.skipped + 1
              /\ Skipped(t).structured = t.structured
              /\ Skipped(t).notStructurable = t.notStructurable
           /\ /\ Structured(t) \in Tally
              /\ Structured(t).scanned = t.scanned
              /\ Structured(t).skipped = t.skipped
              /\ Structured(t).structured = t.structured + 1
              /\ Structured(t).notStructurable = t.notStructurable
           /\ /\ NotStructurable(t) \in Tally
              /\ NotStructurable(t).scanned = t.scanned
              /\ NotStructurable(t).skipped = t.skipped
              /\ NotStructurable(t).structured = t.structured
              /\ NotStructurable(t).notStructurable = t.notStructurable + 1
BY DEF Scanned, Skipped, Structured, NotStructurable, Tally

\* What a visit of the first loop adds where it ends there.
LEMMA VisitCounts ==
    ASSUME NEW t \in Tally
    PROVE  /\ /\ Skipped(Scanned(t)).scanned = t.scanned + 1
              /\ Skipped(Scanned(t)).skipped = t.skipped + 1
              /\ Skipped(Scanned(t)).structured = t.structured
              /\ Skipped(Scanned(t)).notStructurable = t.notStructurable
           /\ /\ NotStructurable(Scanned(t)).scanned = t.scanned + 1
              /\ NotStructurable(Scanned(t)).skipped = t.skipped
              /\ NotStructurable(Scanned(t)).structured = t.structured
              /\ NotStructurable(Scanned(t)).notStructurable = t.notStructurable + 1
BY TallyCounts

\* What a write of the second loop adds.
LEMMA WriteCounts ==
    ASSUME NEW t \in Tally, NEW r
    PROVE  /\ Counted(t, r).scanned = t.scanned
           /\ Counted(t, r).skipped = t.skipped
           /\ Counted(t, r).structured + Counted(t, r).notStructurable
                = t.structured + t.notStructurable + 1
<1>1. t.structured \in Nat /\ t.notStructurable \in Nat
  BY DEF Tally
<1>2. CASE r.status = "NEEDS_REVIEW"
  <2>1. Counted(t, r) = NotStructurable(t)
    BY <1>2 DEF Counted
  <2>2. /\ NotStructurable(t).scanned = t.scanned
        /\ NotStructurable(t).skipped = t.skipped
        /\ NotStructurable(t).structured = t.structured
        /\ NotStructurable(t).notStructurable = t.notStructurable + 1
    BY TallyCounts
  <2> QED
    BY <1>1, <2>1, <2>2
<1>3. CASE r.status # "NEEDS_REVIEW"
  <2>1. Counted(t, r) = Structured(t)
    BY <1>3 DEF Counted
  <2>2. /\ Structured(t).scanned = t.scanned
        /\ Structured(t).skipped = t.skipped
        /\ Structured(t).structured = t.structured + 1
        /\ Structured(t).notStructurable = t.notStructurable
    BY TallyCounts
  <2> QED
    BY <1>1, <2>1, <2>2
<1> QED
  BY <1>2, <1>3

\* The steps of a structure run keep the types.
LEMMA StructureTypeInv ==
    ASSUME TypeInv, NEW b \in Batches, Structure(b)
    PROVE  Typed'
<1> USE DEF TypeInv, Typed, TypeOK, Goto
<1>1. CASE ListProducts(b)
  <2>1. StoreTypeOK'
    BY <1>1 DEF ListProducts, StoreTypeOK, store
  <2>2. TypeOK'
    BY <1>1, <2>1, ListEveryType DEF ListProducts, world, Steps, NoTally, Tally
  <2>3. \A p \in Products : Stored(p) => ListEvery[p] \in Listing
    BY SourceOfStored
  <2>4. Assigned'
    BY <1>1, <2>3 DEF ListProducts, Assigned, Writing, Looping, FirstLoop
  <2> QED
    BY <2>2, <2>4
<1>2. ASSUME NEW p \in Products, SkipProduct(b, p) PROVE Typed'
  <2>1. StoreTypeOK'
    BY <1>2 DEF SkipProduct, StoreTypeOK, store
  <2>2. TypeOK'
    BY <1>2, <2>1, TallyCounts DEF SkipProduct, Visit, world
  <2>3. Assigned'
    BY <1>2 DEF SkipProduct, Visit, Assigned, Writing, Looping, FirstLoop
  <2> QED
    BY <2>2, <2>3
<1>3. ASSUME NEW p \in Products, CheckChecklist(b, p) PROVE Typed'
  <2> DEFINE d == Drafted(p, ChecklistRecord(listed[b][p].source), FALSE)
  <2>1. StoreTypeOK'
    BY <1>3 DEF CheckChecklist, StoreTypeOK, store
  <2>2. /\ listed[b][p] \in Listing
        /\ d \in Draft
        /\ d.product = p
        /\ d.row.schema = "current"
    BY <1>3, ListedDraft, RecordsAreCurrent
       DEF CheckChecklist, Visit, Assigned, Looping, Drafted
  <2>3. CASE Current(d)
    <3>1. /\ tally' = [tally EXCEPT ![b] = Scanned(@)]
          /\ draft' = [draft EXCEPT ![b] = d]
          /\ pc' = [pc EXCEPT ![b] = "merge_checklist"]
      BY <1>3, <2>3 DEF CheckChecklist
    <3>2. tally' \in [Batches -> Tally]
      BY <3>1, TallyCounts
    <3>3. TypeOK'
      BY <1>3, <2>1, <2>2, <3>1, <3>2 DEF CheckChecklist, Visit, world, Steps
    <3>4. Assigned'
      BY <1>3, <2>2, <3>1 DEF CheckChecklist, Visit, Assigned, Writing, Looping, FirstLoop
    <3> QED
      BY <3>3, <3>4
  <2>4. CASE ~Current(d)
    <3>1. /\ tally' = [tally EXCEPT ![b] = NotStructurable(Scanned(@))]
          /\ UNCHANGED <<pc, draft>>
      BY <1>3, <2>4 DEF CheckChecklist
    <3>2. tally' \in [Batches -> Tally]
      BY <3>1, TallyCounts
    <3>3. TypeOK'
      BY <1>3, <2>1, <3>1, <3>2 DEF CheckChecklist, Visit, world
    <3>4. Assigned'
      BY <1>3, <3>1 DEF CheckChecklist, Visit, Assigned, Writing, Looping, FirstLoop
    <3> QED
      BY <3>3, <3>4
  <2> QED
    BY <2>3, <2>4
<1>4. ASSUME NEW p \in Products, RecordAttempt(b, p) PROVE Typed'
  <2> DEFINE s == listed[b][p].source
  <2>1. PICK outcome \in Outcomes(s), withBonuses \in BOOLEAN :
            /\ SaveConditionAttempt(p, s, Status(outcome))
            /\ draft' = [draft EXCEPT ![b] =
                           Drafted(p, ExtractedRecord(s, outcome = "complete"), withBonuses)]
    BY <1>4 DEF RecordAttempt
  <2>2. listed[b][p] \in Listing
    BY <1>4 DEF RecordAttempt, Visit, Assigned, Looping
  <2>3. /\ s \in Source
        /\ Drafted(p, ExtractedRecord(s, outcome = "complete"), withBonuses) \in Draft
        /\ Drafted(p, ExtractedRecord(s, outcome = "complete"), withBonuses).row.schema
             = "current"
    BY <2>2, ListedDraft, RecordsAreCurrent DEF Drafted
  <2>4. StoreTypeOK'
    BY <2>1, <2>3, SaveConditionAttemptType DEF Status
  <2>5. TypeOK'
    BY <1>4, <2>1, <2>3, <2>4 DEF RecordAttempt, Visit, world, Steps
  <2>6. Assigned'
    BY <1>4, <2>1, <2>3 DEF RecordAttempt, Visit, Assigned, Writing, Looping, FirstLoop
  <2> QED
    BY <2>5, <2>6
<1>5. CASE WriteChecklist(b)
  <2>1. /\ StoreTypeOK'
        /\ draft' \in [Batches -> Draft \cup {None}]
        /\ seen' \in [Batches -> Row \cup {None}]
    BY <1>5, WriteDraftType DEF WriteChecklist, Flushing
  <2>2. draft[b].product \in Products
    BY <1>5 DEF WriteChecklist, Assigned, Writing, Draft
  <2>3. TypeOK'
    BY <1>5, <2>1, <2>2 DEF WriteChecklist, world, Steps
  <2>4. Assigned'
    BY <1>5 DEF WriteChecklist, WriteDraft, Assigned, Writing, Looping, FirstLoop
  <2> QED
    BY <2>3, <2>4
<1>6. CASE BeginAsking(b)
  <2>1. StoreTypeOK'
    BY <1>6 DEF BeginAsking, StoreTypeOK, store
  <2>2. /\ SourcesOf(listed[b], pending[b]) \in [Products -> Listing \cup {None}]
        /\ \A p \in pending[b] : SourcesOf(listed[b], pending[b])[p] \in Listing
    <3>1. /\ listed[b] \in [Products -> Listing \cup {None}]
          /\ pending[b] \in SUBSET Products
      OBVIOUS
    <3>2. \A p \in pending[b] : listed[b][p] \in Listing
      BY <1>6 DEF BeginAsking, Assigned, FirstLoop
    <3> QED
      BY <3>1, <3>2, SourcesOfType
  <2>3. TypeOK'
    BY <1>6, <2>1, <2>2 DEF BeginAsking, world, Steps
  <2>4. Assigned'
    BY <1>6, <2>2 DEF BeginAsking, Assigned, Writing, Looping, FirstLoop
  <2> QED
    BY <2>3, <2>4
<1>7. CASE CheckSource(b)
  <2>1. StoreTypeOK'
    BY <1>7 DEF CheckSource, StoreTypeOK, store
  <2>2. TypeOK'
    <3>1. tally' \in [Batches -> Tally]
      BY <1>7, TallyCounts DEF CheckSource
    <3>2. /\ pc' \in [Batches -> Steps]
          /\ draft' \in [Batches -> Draft \cup {None}]
      BY <1>7 DEF CheckSource, Steps
    <3> QED
      BY <1>7, <2>1, <3>1, <3>2 DEF CheckSource, world
  <2>3. Assigned'
    BY <1>7 DEF CheckSource, Assigned, Writing, Looping, FirstLoop
  <2> QED
    BY <2>2, <2>3
<1>8. CASE WriteConditions(b)
  <2>1. /\ StoreTypeOK'
        /\ draft' \in [Batches -> Draft \cup {None}]
        /\ seen' \in [Batches -> Row \cup {None}]
    BY <1>8, WriteDraftType DEF WriteConditions, Flushing
  <2>2. \A t \in Tally : \A r : Counted(t, r) \in Tally
    BY TallyCounts DEF Counted
  <2>3. TypeOK'
    BY <1>8, <2>1, <2>2 DEF WriteConditions, world, Steps
  <2>4. Assigned'
    BY <1>8 DEF WriteConditions, WriteDraft, Assigned, Writing, Looping, FirstLoop
  <2> QED
    BY <2>3, <2>4
<1>9. CASE Return(b)
  <2>1. StoreTypeOK'
    BY <1>9 DEF Return, StoreTypeOK, store
  <2>2. TypeOK'
    BY <1>9, <2>1 DEF Return, world, Steps, Nothing
  <2>3. Assigned'
    BY <1>9 DEF Return, Assigned, Writing, Looping, FirstLoop
  <2> QED
    BY <2>2, <2>3
<1> QED
  BY <1>1, <1>2, <1>3, <1>4, <1>5, <1>6, <1>7, <1>8, <1>9 DEF Structure

\* So do the steps at which a batch ends before its work is done, or an import at all.
LEMMA EndTypeInv ==
    ASSUME TypeInv, NEW b \in Batches,
           \/ NothingImported(b) \/ ImportDone(b) \/ RowTaken(b)
           \/ \E p \in Products : EntryRefused(b, p)
    PROVE  Typed'
<1>1. /\ pc' = [pc EXCEPT ![b] = "idle"]
      /\ Forget(b)
      /\ UNCHANGED <<store, upstream, published, aborted>>
  BY DEF NothingImported, ImportDone, RowTaken, EntryRefused, Goto, world
<1>2. "idle" \in Steps \ Looping
  BY DEF Steps, Looping, Writing
<1>3. aborted' \in Nat
  BY <1>1 DEF TypeInv, Typed, TypeOK
<1> QED
  BY <1>1, <1>2, <1>3, RestartTypeInv

\* The steps of an import keep the types.
LEMMA ImportTypeInv ==
    ASSUME TypeInv, NEW b \in Batches, Import(b)
    PROVE  Typed'
<1> USE DEF TypeInv, Typed, TypeOK, Goto
<1>1. CASE ChooseEntries(b)
  <2>1. PICK entries \in SUBSET {p \in Products :
                                   Stored(p) /\ ConditionSource(p).text \notin NoJoinMember} :
            /\ todo' = [todo EXCEPT ![b] = entries]
            /\ listed' = [listed EXCEPT ![b] = SourcesOf(ListEvery, entries)]
    BY <1>1 DEF ChooseEntries
  <2>2. /\ pc' = [pc EXCEPT ![b] = "import_next"]
        /\ UNCHANGED <<store, world, received, pending, draft, seen, tally>>
        /\ pc[b] = "import"
    BY <1>1 DEF ChooseEntries
  <2>3. StoreTypeOK'
    BY <2>2 DEF StoreTypeOK, store
  <2>4. /\ SourcesOf(ListEvery, entries) \in [Products -> Listing \cup {None}]
        /\ \A p \in entries : SourcesOf(ListEvery, entries)[p] \in Listing
    <3>1. \A p \in Products : Stored(p) => ListEvery[p] \in Listing
      BY SourceOfStored
    <3>2. /\ entries \in SUBSET Products
          /\ \A p \in entries : ListEvery[p] \in Listing
      BY <2>1, <3>1
    <3> QED
      BY <3>2, ListEveryType, SourcesOfType
  <2>5. TypeOK'
    BY <2>1, <2>2, <2>3, <2>4 DEF world, Steps
  <2>6. Assigned'
    BY <2>1, <2>2, <2>4 DEF Assigned, Writing, Looping, FirstLoop
  <2> QED
    BY <2>5, <2>6
<1>2. ASSUME NEW p \in Products, CheckEntry(b, p) PROVE Typed'
  <2>1. PICK withBonuses \in BOOLEAN :
            draft' = [draft EXCEPT ![b] =
                        Drafted(p, ManualRecord(listed[b][p].source), withBonuses)]
    BY <1>2 DEF CheckEntry
  <2>2. /\ pc' = [pc EXCEPT ![b] = "merge_entry"]
        /\ pc[b] = "import_next"
        /\ Visit(b, p)
        /\ UNCHANGED <<store, world, received, listed, pending, seen, tally>>
    BY <1>2 DEF CheckEntry
  <2>3. StoreTypeOK'
    BY <2>2 DEF StoreTypeOK, store
  <2>4. listed[b][p] \in Listing
    BY <2>2 DEF Visit, Assigned, Looping
  <2>5. /\ Drafted(p, ManualRecord(listed[b][p].source), withBonuses) \in Draft
        /\ Drafted(p, ManualRecord(listed[b][p].source), withBonuses).row.schema = "current"
    BY <2>4, ListedDraft, RecordsAreCurrent DEF Drafted
  <2>6. TypeOK'
    BY <2>1, <2>2, <2>3, <2>5 DEF Visit, world, Steps
  <2>7. Assigned'
    BY <2>1, <2>2, <2>5 DEF Visit, Assigned, Writing, Looping, FirstLoop
  <2> QED
    BY <2>6, <2>7
<1>3. CASE WriteEntry(b)
  <2>1. /\ StoreTypeOK'
        /\ draft' \in [Batches -> Draft \cup {None}]
        /\ seen' \in [Batches -> Row \cup {None}]
    BY <1>3, WriteDraftType DEF WriteEntry, Flushing
  <2>2. TypeOK'
    BY <1>3, <2>1 DEF WriteEntry, world, Steps
  <2>3. Assigned'
    BY <1>3 DEF WriteEntry, WriteDraft, Assigned, Writing, Looping, FirstLoop
  <2> QED
    BY <2>2, <2>3
<1> QED
  BY <1>1, <1>2, <1>3, EndTypeInv DEF Import

\* So does every step.
LEMMA StepTyped == TypeInv /\ [Next]_vars => Typed'
<1> SUFFICES ASSUME TypeInv, [Next]_vars PROVE Typed'
  OBVIOUS
<1>1. ASSUME NEW p \in Products, NEW s \in Disclosures \cup {None}, Publish(p, s)
      PROVE  Typed'
  <2>1. s \in Source \cup {None}
    BY SourceAssumption
  <2>2. StoreTypeOK'
    BY <1>1 DEF TypeInv, Typed, TypeOK, StoreTypeOK, Publish, store
  <2>3. TypeOK'
    BY <1>1, <2>1, <2>2 DEF TypeInv, Typed, TypeOK, Publish, batch
  <2>4. Assigned'
    BY <1>1 DEF TypeInv, Typed, Assigned, Publish, batch
  <2> QED
    BY <2>3, <2>4 DEF Typed
<1>2. ASSUME NEW b \in Batches, StartRefresh(b) \/ StartStructure(b) \/ StartImport(b)
      PROVE  Typed'
  <2>1. PICK step \in {"fetch", "structure", "import"} :
            /\ pc' = [pc EXCEPT ![b] = step]
            /\ Forget(b)
            /\ UNCHANGED <<store, upstream, published, aborted>>
    BY <1>2 DEF StartRefresh, StartStructure, StartImport, Start, world
  <2>2. step \in Steps \ Looping
    BY DEF Steps, Looping, Writing
  <2>3. aborted' \in Nat
    BY <2>1 DEF TypeInv, Typed, TypeOK
  <2> QED
    BY <2>1, <2>2, <2>3, RestartTypeInv
<1>3. ASSUME NEW b \in Batches, Abort(b) PROVE Typed'
  <2>1. aborted' \in Nat
    BY <1>3 DEF Abort, TypeInv, Typed, TypeOK
  <2>2. /\ pc' = [pc EXCEPT ![b] = "idle"]
        /\ Forget(b)
        /\ UNCHANGED <<store, upstream, published>>
    BY <1>3 DEF Abort
  <2>3. "idle" \in Steps \ Looping
    BY DEF Steps, Looping, Writing
  <2> QED
    BY <2>1, <2>2, <2>3, RestartTypeInv
<1>4. ASSUME NEW b \in Batches, Work(b) PROVE Typed'
  BY <1>4, SyncTypeInv, StructureTypeInv, ImportTypeInv, MergeTypeInv, EndTypeInv DEF Work
<1>5. CASE UNCHANGED vars
  BY <1>5 DEF vars, store, world, batch, TypeInv, Typed, TypeOK, StoreTypeOK, Assigned
<1> QED
  BY <1>1, <1>2, <1>3, <1>4, <1>5 DEF Next

-----------------------------------------------------------------------------
(* What a step can do to the conditions *)

LoadsOnly == /\ UNCHANGED <<row, attempts>>
             /\ bonusRow' \in [Products -> Row \cup {None}]
             /\ \A p \in Products : bonusRow'[p] \in {None, bonusRow[p]}

Invalidates ==
    \E b \in Batches : /\ pc[b] = "write_pending"
                       /\ InvalidateChanged(listed[b], draft[b].product, seen[b], todo[b])

Writes == \E b \in Batches : pc[b] \in Flushing \ {"write_pending"} /\ WriteDraft(b)

Logs == \E p, s, status : SaveConditionAttempt(p, s, status)

\* A step runs one transaction of the store, or none.
LEMMA StoreSteps ==
    ASSUME TypeInv, [Next]_vars
    PROVE  LoadsOnly \/ Invalidates \/ Writes \/ Logs
<1> USE DEF TypeInv, Typed, TypeOK
<1>1. UNCHANGED store => LoadsOnly
  BY DEF store, LoadsOnly, StoreTypeOK
<1>2. ASSUME NEW b \in Batches, Sync(b)
      PROVE  LoadsOnly \/ Invalidates
  <2>1. CASE SaveProducts(b)
    BY <2>1 DEF SaveProducts, SaveAll, StoreTypeOK, LoadsOnly
  <2>2. CASE ReplaceRates(b)
    BY <2>2 DEF ReplaceRates, ReplaceRateOptions, StoreTypeOK, LoadsOnly
  <2>3. CASE Invalidate(b)
    BY <2>3 DEF Invalidate, Goto, Invalidates
  <2>4. CASE Fetch(b) \/ ListOutdated(b) \/ NothingOutdated(b)
    BY <2>4, <1>1 DEF Fetch, ListOutdated, NothingOutdated
  <2>5. ASSUME NEW p \in Products, CheckOutdated(b, p) PROVE LoadsOnly
    BY <2>5, <1>1 DEF CheckOutdated
  <2> QED
    BY <1>2, <2>1, <2>2, <2>3, <2>4, <2>5 DEF Sync
<1>3. ASSUME NEW b \in Batches, Structure(b)
      PROVE  UNCHANGED store \/ Writes \/ Logs
  <2>1. CASE WriteChecklist(b) \/ WriteConditions(b)
    BY <2>1 DEF WriteChecklist, WriteConditions, Goto, Flushing, Writes
  <2>2. ASSUME NEW p \in Products, RecordAttempt(b, p) PROVE Logs
    BY <2>2 DEF RecordAttempt, Logs
  <2>3. ASSUME NEW p \in Products, SkipProduct(b, p) \/ CheckChecklist(b, p)
        PROVE  UNCHANGED store
    BY <2>3 DEF SkipProduct, CheckChecklist
  <2>4. CASE ListProducts(b) \/ BeginAsking(b) \/ CheckSource(b) \/ Return(b)
    BY <2>4 DEF ListProducts, BeginAsking, CheckSource, Return
  <2> QED
    BY <1>3, <2>1, <2>2, <2>3, <2>4 DEF Structure
<1>4. ASSUME NEW b \in Batches, Import(b)
      PROVE  UNCHANGED store \/ Writes
  BY <1>4 DEF Import, ChooseEntries, NothingImported, CheckEntry, EntryRefused, WriteEntry,
              ImportDone, Goto, Flushing, Writes
<1>5. ASSUME NEW b \in Batches,
             \/ StartRefresh(b) \/ StartStructure(b) \/ StartImport(b) \/ Abort(b)
             \/ MergeCondition(b) \/ RowTaken(b)
      PROVE  UNCHANGED store
  BY <1>5 DEF StartRefresh, StartStructure, StartImport, Start, Abort, MergeCondition, RowTaken
<1>6. ASSUME NEW p \in Products, NEW s \in Disclosures \cup {None}, Publish(p, s)
      PROVE  UNCHANGED store
  BY <1>6 DEF Publish
<1>7. CASE UNCHANGED vars
  BY <1>1, <1>7 DEF vars
<1> QED
  BY <1>1, <1>2, <1>3, <1>4, <1>5, <1>6, <1>7 DEF Next, Work

\* A row that changes is the reset of a product, or has what some batch drafted
\* for it, but for the columns that its merge left as they were.
LEMMA RowSteps ==
    ASSUME TypeInv, [Next]_vars, NEW q \in Products
    PROVE  \/ row'[q] = row[q]
           \/ Becomes(q, NoConditions)
           \/ \E b \in Batches : /\ pc[b] \in Flushing
                               /\ q = draft[b].product
                               /\ Becomes(q, draft[b].row.conditions)
<1>1. CASE LoadsOnly
  BY <1>1 DEF LoadsOnly
<1>2. CASE Invalidates
  BY <1>2, InvalidateType DEF Invalidates
<1>3. CASE Writes
  BY <1>3, WriteDraftType DEF Writes
<1>4. CASE Logs
  BY <1>4 DEF Logs, SaveConditionAttempt
<1> QED
  BY <1>1, <1>2, <1>3, <1>4, StoreSteps

\* A row that is there stays there, and one of an earlier release stays as it
\* is or becomes current.
LEMMA RowsStay ==
    ASSUME TypeInv, [Next]_vars, NEW q \in Products
    PROVE  row'[q] = row[q] \/ (row'[q] # None /\ row'[q].schema = "current")
BY RowSteps, NoneIsApart DEF Becomes

\* What session.merge read it keeps until it writes.
LEMMA SeenSteps ==
    ASSUME TypeInv, [Next]_vars, NEW b \in Batches, pc'[b] \in Flushing
    PROVE  /\ draft'[b] = draft[b]
           /\ \/ pc[b] \in Flushing /\ seen'[b] = seen[b]
              \/ seen'[b] = row[draft[b].product] /\ UNCHANGED row
<1> USE DEF TypeInv, Typed, TypeOK, Goto
<1>1. ASSUME NEW c \in Batches, Sync(c)
      PROVE  pc[b] \in Flushing /\ draft'[b] = draft[b] /\ seen'[b] = seen[b]
  BY <1>1 DEF Sync, Fetch, SaveProducts, ReplaceRates, ListOutdated, CheckOutdated, Invalidate,
              NothingOutdated, Flushing
<1>2. ASSUME NEW c \in Batches, Structure(c)
      PROVE  pc[b] \in Flushing /\ draft'[b] = draft[b] /\ seen'[b] = seen[b]
  <2>1. ASSUME NEW p \in Products, SkipProduct(c, p) \/ CheckChecklist(c, p) \/ RecordAttempt(c, p)
        PROVE  pc[b] \in Flushing /\ draft'[b] = draft[b] /\ seen'[b] = seen[b]
    BY <2>1 DEF SkipProduct, CheckChecklist, RecordAttempt, Flushing
  <2>2. CASE WriteChecklist(c) \/ WriteConditions(c)
    BY <2>2 DEF WriteChecklist, WriteConditions, WriteDraft, Flushing
  <2>3. CASE ListProducts(c) \/ BeginAsking(c) \/ CheckSource(c) \/ Return(c)
    BY <2>3 DEF ListProducts, BeginAsking, CheckSource, Return, Flushing
  <2> QED
    BY <1>2, <2>1, <2>2, <2>3 DEF Structure
<1>3. ASSUME NEW c \in Batches, NEW step \in Steps \ Flushing,
             pc' = [pc EXCEPT ![c] = step], Forget(c)
      PROVE  pc[b] \in Flushing /\ draft'[b] = draft[b] /\ seen'[b] = seen[b]
  BY <1>3 DEF Forget
<1>4. ASSUME NEW c \in Batches,
             \/ StartRefresh(c) \/ StartStructure(c) \/ StartImport(c) \/ Abort(c)
             \/ NothingImported(c) \/ ImportDone(c) \/ RowTaken(c)
             \/ \E p \in Products : EntryRefused(c, p)
      PROVE  pc[b] \in Flushing /\ draft'[b] = draft[b] /\ seen'[b] = seen[b]
  <2>1. PICK step \in {"fetch", "structure", "import", "idle"} :
            pc' = [pc EXCEPT ![c] = step] /\ Forget(c)
    BY <1>4 DEF StartRefresh, StartStructure, StartImport, Start, Abort, NothingImported,
                ImportDone, RowTaken, EntryRefused
  <2>2. step \in Steps \ Flushing
    BY DEF Steps, Flushing
  <2> QED
    BY <1>3, <2>1, <2>2
<1>5. ASSUME NEW c \in Batches,
             ChooseEntries(c) \/ WriteEntry(c) \/ \E p \in Products : CheckEntry(c, p)
      PROVE  pc[b] \in Flushing /\ draft'[b] = draft[b] /\ seen'[b] = seen[b]
  BY <1>5 DEF ChooseEntries, WriteEntry, WriteDraft, CheckEntry, Flushing
<1>6. ASSUME NEW c \in Batches, MergeCondition(c)
      PROVE  /\ draft'[b] = draft[b]
             /\ \/ pc[b] \in Flushing /\ seen'[b] = seen[b]
                \/ seen'[b] = row[draft[b].product] /\ UNCHANGED row
  BY <1>6 DEF MergeCondition, store
<1>7. CASE UNCHANGED vars
  BY <1>7 DEF vars, batch
<1>8. ASSUME NEW p \in Products, NEW s \in Disclosures \cup {None}, Publish(p, s)
      PROVE  pc[b] \in Flushing /\ draft'[b] = draft[b] /\ seen'[b] = seen[b]
  BY <1>8 DEF Publish, batch
<1> QED
  BY <1>1, <1>2, <1>4, <1>5, <1>6, <1>7, <1>8 DEF Next, Work, Import

\* A row that merge read is still there when it writes.
LEMMA StepSeenRowStays == TypeInv /\ [Next]_vars => SeenRowStays'
<1> SUFFICES ASSUME TypeInv, [Next]_vars, NEW b \in Batches, pc'[b] \in Flushing,
                    seen'[b] # None
             PROVE  /\ row'[draft'[b].product] # None
                    /\ row'[draft'[b].product].schema = "old" => row'[draft'[b].product] = seen'[b]
  BY DEF SeenRowStays
<1> DEFINE p == draft[b].product
<1>1. draft'[b] = draft[b]
  BY SeenSteps
<1>2. CASE pc[b] \in Flushing /\ seen'[b] = seen[b]
  <2>1. p \in Products
    BY <1>2 DEF TypeInv, Typed, Assigned, Writing, Flushing, Draft
  <2>2. row[p] # None /\ (row[p].schema = "old" => row[p] = seen[b])
    BY <1>2 DEF TypeInv, SeenRowStays
  <2>3. row'[p] = row[p] \/ (row'[p] # None /\ row'[p].schema = "current")
    BY <2>1, RowsStay
  <2> QED
    BY <1>1, <1>2, <2>2, <2>3
<1>3. CASE seen'[b] = row[p] /\ UNCHANGED row
  BY <1>1, <1>3
<1> QED
  BY <1>2, <1>3, SeenSteps

\* Types and what was read stay as they are.
LEMMA StepTypeInv == TypeInv /\ [Next]_vars => TypeInv'
BY StepTyped, StepSeenRowStays DEF TypeInv

\* No interleaving of batches and aborts gives a variable a value outside its
\* type, or lets a step read a local variable before it is assigned.
THEOREM TypeCorrect == Spec => [](TypeOK /\ Assigned /\ SeenRowStays)
<1>1. Init => TypeInv
  BY InitTypeInv
<1>2. TypeInv /\ [Next]_vars => TypeInv'
  BY StepTypeInv
<1> QED
  BY <1>1, <1>2, PTL DEF Spec, TypeInv, Typed
-----------------------------------------------------------------------------
(* The attempt log *)

\* Attempts are only added.
LEMMA AttemptsGrow ==
    ASSUME TypeInv, [Next]_vars
    PROVE  attempts \subseteq attempts'
<1>1. LoadsOnly \/ Invalidates \/ Writes => attempts' = attempts
  BY DEF LoadsOnly, Invalidates, InvalidateChanged, Writes, WriteDraft, ReplaceConditions
<1>2. Logs => attempts \subseteq attempts'
  BY DEF Logs, SaveConditionAttempt
<1> QED
  BY <1>1, <1>2, StoreSteps

\* No step stores conditions of the AI without their attempt.
LEMMA StepConditionsLogged ==
    ASSUME TypeInv, ConditionsLogged, DraftsLogged, [Next]_vars
    PROVE  ConditionsLogged'
<1> SUFFICES ASSUME NEW p \in Products, row'[p] # None, row'[p].schema = "current",
                    row'[p].conditions.kind = "extracted"
             PROVE  \E a \in attempts' : /\ a.product = p
                                         /\ a.source = row'[p].conditions.of
                                         /\ a.status = "VALIDATED"
  BY DEF ConditionsLogged
<1> DEFINE Logged(conditions) ==
              \E a \in attempts : /\ a.product = p
                                  /\ a.source = conditions.of
                                  /\ a.status = "VALIDATED"
<1>1. attempts \subseteq attempts'
  BY AttemptsGrow
<1>2. row[p] # None /\ row[p].schema = "current" /\ row[p].conditions.kind = "extracted"
        => Logged(row[p].conditions)
  BY DEF ConditionsLogged
<1>3. Logged(row'[p].conditions)
  <2>1. CASE row'[p] = row[p]
    BY <1>2, <2>1
  <2>2. CASE Becomes(p, NoConditions)
    BY <1>2, <2>2, PendingIsEmpty DEF Becomes
  <2>3. ASSUME NEW b \in Batches, pc[b] \in Flushing, p = draft[b].product,
               Becomes(p, draft[b].row.conditions)
        PROVE  Logged(row'[p].conditions)
    <3>1. draft[b].row.conditions.kind = "extracted" => Logged(draft[b].row.conditions)
      BY <2>3 DEF DraftsLogged, Writing, Flushing
    <3> QED
      BY <1>2, <2>3, <3>1 DEF Becomes
  <2> QED
    BY <2>1, <2>2, <2>3, RowSteps
<1> QED
  BY <1>1, <1>3

\* A batch whose draft stays, or that has nothing to write, keeps its drafts logged.
LEMMA DraftsStayLogged ==
    ASSUME DraftsLogged, attempts \subseteq attempts',
           \A b \in Batches : pc'[b] \in Writing => pc[b] \in Writing /\ draft'[b] = draft[b]
    PROVE  DraftsLogged'
BY DEF DraftsLogged

\* A draft that no answer made needs no attempt.
LEMMA OtherDraftsLogged ==
    ASSUME DraftsLogged, attempts \subseteq attempts', NEW b \in Batches,
           draft'[b].row.conditions.kind # "extracted",
           \A c \in Batches \ {b} :
              pc'[c] \in Writing => pc[c] \in Writing /\ draft'[c] = draft[c]
    PROVE  DraftsLogged'
BY DEF DraftsLogged

\* The draft of an answer has its attempt in the log from its first step.
LEMMA StepDraftsLogged ==
    ASSUME TypeInv, DraftsLogged, [Next]_vars
    PROVE  DraftsLogged'
<1> USE AttemptsGrow DEF TypeInv, Typed, TypeOK, Goto
<1>1. ASSUME NEW b \in Batches, Sync(b) PROVE DraftsLogged'
  <2>1. ASSUME NEW p \in Products, CheckOutdated(b, p) PROVE DraftsLogged'
    <3> DEFINE d == Drafted(p, PendingRecord(listed[b][p].source), FALSE)
    <3>1. CASE Current(d)
      <4>1. /\ draft' = [draft EXCEPT ![b] = d]
            /\ pc' = [pc EXCEPT ![b] = "merge_pending"]
        BY <2>1, <3>1 DEF CheckOutdated
      <4>2. d.row.conditions.kind = "none"
        BY PendingIsEmpty DEF Drafted
      <4>3. draft'[b].row.conditions.kind # "extracted"
        BY <4>1, <4>2
      <4> QED
        BY <4>1, <4>3, OtherDraftsLogged
    <3>2. CASE ~Current(d)
      <4>1. UNCHANGED <<pc, draft>>
        BY <2>1, <3>2 DEF CheckOutdated
      <4> QED
        BY <4>1, DraftsStayLogged
    <3> QED
      BY <3>1, <3>2
  <2>2. CASE \/ Fetch(b) \/ SaveProducts(b) \/ ReplaceRates(b) \/ ListOutdated(b)
             \/ Invalidate(b) \/ NothingOutdated(b)
    BY <2>2, DraftsStayLogged
       DEF Fetch, SaveProducts, ReplaceRates, ListOutdated, Invalidate, NothingOutdated, Writing
  <2> QED
    BY <1>1, <2>1, <2>2 DEF Sync
<1>2. ASSUME NEW b \in Batches, NEW p \in Products, SkipProduct(b, p) PROVE DraftsLogged'
  BY <1>2, DraftsStayLogged DEF SkipProduct
<1>3. ASSUME NEW b \in Batches, NEW p \in Products, CheckChecklist(b, p) PROVE DraftsLogged'
  <2> DEFINE d == Drafted(p, ChecklistRecord(listed[b][p].source), FALSE)
  <2>1. CASE Current(d)
    <3>1. /\ draft' = [draft EXCEPT ![b] = d]
          /\ pc' = [pc EXCEPT ![b] = "merge_checklist"]
      BY <1>3, <2>1 DEF CheckChecklist
    <3>2. d.row.conditions.kind = "checklist"
      BY DEF Drafted, ChecklistRecord, Record, Made
    <3>3. draft'[b].row.conditions.kind # "extracted"
      BY <3>1, <3>2
    <3> QED
      BY <3>1, <3>3, OtherDraftsLogged
  <2>2. CASE ~Current(d)
    <3>1. UNCHANGED <<pc, draft>>
      BY <1>3, <2>2 DEF CheckChecklist
    <3> QED
      BY <3>1, DraftsStayLogged
  <2> QED
    BY <2>1, <2>2
<1>4. ASSUME NEW b \in Batches, NEW p \in Products, RecordAttempt(b, p) PROVE DraftsLogged'
  <2> DEFINE s == listed[b][p].source
  <2>1. PICK outcome \in Outcomes(s), withBonuses \in BOOLEAN :
            /\ SaveConditionAttempt(p, s, Status(outcome))
            /\ draft' = [draft EXCEPT ![b] =
                           Drafted(p, ExtractedRecord(s, outcome = "complete"), withBonuses)]
    BY <1>4 DEF RecordAttempt
  <2>2. pc' = [pc EXCEPT ![b] = "check"]
    BY <1>4 DEF RecordAttempt
  <2>3. CASE outcome = "complete"
    <3>1. [product |-> p, source |-> s, status |-> "VALIDATED"] \in attempts'
      BY <2>1, <2>3 DEF SaveConditionAttempt, Status
    <3>2. /\ draft'[b].product = p
          /\ draft'[b].row.conditions.of = s
      BY <2>1, <2>3 DEF Drafted, ExtractedRecord, Record, Made
    <3> QED
      BY <2>1, <2>2, <3>1, <3>2 DEF DraftsLogged
  <2>4. CASE outcome # "complete"
    <3>1. draft'[b].row.conditions.kind # "extracted"
      BY <2>1, <2>4 DEF Drafted, ExtractedRecord, ChecklistRecord, Record, Made
    <3> QED
      BY <2>1, <2>2, <3>1, OtherDraftsLogged
  <2> QED
    BY <2>3, <2>4
<1>5. ASSUME NEW b \in Batches,
             WriteChecklist(b) \/ WriteConditions(b) \/ WriteEntry(b)
      PROVE  DraftsLogged'
  BY <1>5, DraftsStayLogged DEF WriteChecklist, WriteConditions, WriteEntry, WriteDraft, Writing
<1>6. ASSUME NEW b \in Batches, ListProducts(b) \/ BeginAsking(b) \/ Return(b)
      PROVE  DraftsLogged'
  BY <1>6, DraftsStayLogged DEF ListProducts, BeginAsking, Return, Writing
<1>7. ASSUME NEW b \in Batches, CheckSource(b) PROVE DraftsLogged'
  BY <1>7, DraftsStayLogged DEF CheckSource, Writing
<1>8. ASSUME NEW b \in Batches, NEW p \in Products, CheckEntry(b, p) PROVE DraftsLogged'
  <2>1. PICK withBonuses \in BOOLEAN :
            draft' = [draft EXCEPT ![b] =
                        Drafted(p, ManualRecord(listed[b][p].source), withBonuses)]
    BY <1>8 DEF CheckEntry
  <2>2. pc' = [pc EXCEPT ![b] = "merge_entry"]
    BY <1>8 DEF CheckEntry
  <2>3. draft'[b].row.conditions.kind # "extracted"
    BY <2>1 DEF Drafted, ManualRecord, Record, Made
  <2> QED
    BY <2>1, <2>2, <2>3, OtherDraftsLogged
<1>9. ASSUME NEW b \in Batches, ChooseEntries(b) PROVE DraftsLogged'
  BY <1>9, DraftsStayLogged DEF ChooseEntries, Writing
<1>10. ASSUME NEW b \in Batches, NEW step \in Steps \ Looping,
              pc' = [pc EXCEPT ![b] = step], Forget(b)
       PROVE  DraftsLogged'
  BY <1>10, DraftsStayLogged DEF Forget, Writing, Looping
<1>11. ASSUME NEW b \in Batches,
              \/ StartRefresh(b) \/ StartStructure(b) \/ StartImport(b) \/ Abort(b)
              \/ NothingImported(b) \/ ImportDone(b) \/ RowTaken(b)
              \/ \E p \in Products : EntryRefused(b, p)
       PROVE  DraftsLogged'
  <2>1. PICK step \in {"fetch", "structure", "import", "idle"} :
            pc' = [pc EXCEPT ![b] = step] /\ Forget(b)
    BY <1>11 DEF StartRefresh, StartStructure, StartImport, Start, Abort, NothingImported,
                 ImportDone, RowTaken, EntryRefused
  <2>2. step \in Steps \ Looping
    BY DEF Steps, Looping, Writing
  <2> QED
    BY <1>10, <2>1, <2>2
<1>12. ASSUME NEW p \in Products, NEW s \in Disclosures \cup {None}, Publish(p, s)
       PROVE  DraftsLogged'
  BY <1>12, DraftsStayLogged DEF Publish, batch
<1>13. CASE UNCHANGED vars
  BY <1>13, DraftsStayLogged DEF vars, batch
<1>14. ASSUME NEW b \in Batches, MergeCondition(b) PROVE DraftsLogged'
  BY <1>14, DraftsStayLogged DEF MergeCondition, Writing
<1> QED
  BY <1>1, <1>2, <1>3, <1>4, <1>5, <1>6, <1>7, <1>8, <1>9, <1>11, <1>12, <1>13, <1>14
     DEF Next, Work, Structure, Import

\* Conditions of the AI in the table have their raw answer in the log, also
\* where the batch that logged it stopped, or another batch wrote between the
\* read and the write of a merge and left a row of parts of both.
THEOREM AttemptsLogged == Spec => []ConditionsLogged
<1> DEFINE I == ConditionsLogged /\ DraftsLogged
<1>1. Init => I
  <2> SUFFICES ASSUME Init PROVE I
    OBVIOUS
  <2>1. \A p \in Products : row[p] = None \/ row[p].schema = "old"
    <3>1. PICK loaded \in [Products -> Disclosures \cup {None}] :
              row = [p \in Products |-> IF loaded[p] = None THEN None ELSE OldRow(loaded[p])]
      BY DEF Init, StoreInit
    <3>2. \A s : OldRow(s).schema = "old"
      BY DEF OldRow
    <3> QED
      BY <3>1, <3>2
  <2>2. \A b \in Batches : pc[b] \notin Writing
    BY DEF Init, Writing
  <2> QED
    BY <2>1, <2>2 DEF ConditionsLogged, DraftsLogged
<1>2. TypeInv /\ I /\ [Next]_vars => I'
  BY StepConditionsLogged, StepDraftsLogged
<1>3. Spec => []TypeInv
  BY TypeCorrect DEF TypeInv, Typed
<1>4. I => ConditionsLogged
  OBVIOUS
<1> QED
  BY <1>1, <1>2, <1>3, <1>4, PTL DEF Spec
-----------------------------------------------------------------------------
(* The response of a structure run *)

TallyInv == LoopsApart /\ TallyBalanced

\* A step of one batch leaves the counts of the others alone.
LEMMA OneBatchCounts ==
    ASSUME TallyInv, NEW b \in Batches, Balanced(b)', Apart(b)',
           \A c \in Batches \ {b} :
              /\ pc'[c] = pc[c] /\ todo'[c] = todo[c] /\ pending'[c] = pending[c]
              /\ draft'[c] = draft[c] /\ tally'[c] = tally[c]
    PROVE  TallyInv'
BY DEF TallyInv, LoopsApart, TallyBalanced, Balanced, Apart, Waiting
\* A step that leaves every batch's counts alone.
LEMMA NoBatchCounts ==
    ASSUME TallyInv, UNCHANGED <<pc, todo, pending, draft, tally>>
    PROVE  TallyInv'
BY DEF TallyInv, LoopsApart, TallyBalanced, Balanced, Apart, Waiting

\* A batch outside the structure run has nothing to balance.
LEMMA OutsideCounts ==
    ASSUME TallyInv, NEW b \in Batches, pc'[b] \notin Counting,
           \A c \in Batches \ {b} :
              /\ pc'[c] = pc[c] /\ todo'[c] = todo[c] /\ pending'[c] = pending[c]
              /\ draft'[c] = draft[c] /\ tally'[c] = tally[c]
    PROVE  TallyInv'
BY OneBatchCounts DEF Counting, FirstLoop, SecondLoop, Balanced, Apart

\* The steps of a structure run keep the tally balanced.
LEMMA StructureTally ==
    ASSUME TypeInv, TallyInv, NEW b \in Batches, Structure(b)
    PROVE  TallyInv'
<1> USE DEF Goto, Counting, FirstLoop, SecondLoop
<1>0. /\ pc \in [Batches -> Steps]
      /\ todo \in [Batches -> SUBSET Products]
      /\ pending \in [Batches -> SUBSET Products]
      /\ draft \in [Batches -> Draft \cup {None}]
      /\ tally \in [Batches -> Tally]
  BY DEF TypeInv, Typed, TypeOK
<1>1. /\ Apart(b)
      /\ Balanced(b)
      /\ tally[b] \in Tally
  BY <1>0 DEF TallyInv, LoopsApart, TallyBalanced
<1>2. /\ tally[b].scanned \in Nat /\ tally[b].structured \in Nat
      /\ tally[b].notStructurable \in Nat /\ tally[b].skipped \in Nat
  BY <1>1 DEF Tally
<1>0a. /\ pc[b] \in FirstLoop => Cardinality(pending[b]) \in Nat
       /\ pc[b] \in SecondLoop => Cardinality(todo[b]) \in Nat
  <2>1. ASSUME pc[b] \in FirstLoop
        PROVE  Cardinality(pending[b]) \in Nat
    <3>1. IsFiniteSet(pending[b])
      BY <1>1, <2>1 DEF Apart
    <3> QED
      BY <3>1, FS_CardinalityType
  <2>2. ASSUME pc[b] \in SecondLoop
        PROVE  Cardinality(todo[b]) \in Nat
    <3>1. IsFiniteSet(todo[b])
      BY <1>1, <2>2 DEF Apart
    <3> QED
      BY <3>1, FS_CardinalityType
  <2> QED
    BY <2>1, <2>2
<1>0b. pc[b] \in Counting => tally[b].scanned = tally[b].structured + tally[b].notStructurable
                                                 + tally[b].skipped + Waiting(b)
  BY <1>1 DEF Balanced
<1>3. CASE ListProducts(b)
  <2>1. /\ pc'[b] = "checklist"
        /\ pending'[b] = {}
        /\ tally'[b] = NoTally
    BY <1>0, <1>3 DEF ListProducts
  <2>2. Apart(b)' /\ Balanced(b)'
    BY <1>0, <2>1, FS_EmptySet DEF Apart, Balanced, Waiting, NoTally
  <2> QED
    BY <1>0, <1>3, <2>2, OneBatchCounts DEF ListProducts
<1>4. ASSUME NEW p \in Products, SkipProduct(b, p) PROVE TallyInv'
  <2>1. /\ pc[b] = "checklist" /\ pc'[b] = "checklist"
        /\ pending'[b] = pending[b]
        /\ todo'[b] = todo[b] \ {p}
        /\ tally'[b] = Skipped(Scanned(tally[b]))
    BY <1>0, <1>4 DEF SkipProduct, Visit
  <2>2. Apart(b)'
    BY <1>0, <1>1, <2>1 DEF Apart
  <2>3. Balanced(b)'
    <3>1. /\ Waiting(b) = Cardinality(pending[b])
          /\ Waiting(b)' = Cardinality(pending[b])
          /\ Cardinality(pending[b]) \in Nat
      <4>1. Cardinality(pending[b]) \in Nat
        BY <1>0a, <2>1
      <4>2. Waiting(b) = Cardinality(pending[b])
        BY <2>1 DEF Waiting
      <4>3. Waiting(b)' = Cardinality(pending[b])
        BY <1>0, <2>1 DEF Waiting
      <4> QED
        BY <4>1, <4>2, <4>3
    <3>2. /\ tally'[b].scanned = tally[b].scanned + 1
          /\ tally'[b].skipped = tally[b].skipped + 1
          /\ tally'[b].structured = tally[b].structured
          /\ tally'[b].notStructurable = tally[b].notStructurable
      BY <1>1, <2>1, VisitCounts
    <3> QED
      BY <1>2, <1>0b, <2>1, <3>1, <3>2 DEF Balanced
  <2> QED
    BY <1>0, <1>4, <2>2, <2>3, OneBatchCounts DEF SkipProduct, Visit
<1>5. ASSUME NEW p \in Products, CheckChecklist(b, p) PROVE TallyInv'
  <2> DEFINE d == Drafted(p, ChecklistRecord(listed[b][p].source), FALSE)
  <2>1. /\ pc[b] = "checklist"
        /\ p \in todo[b]
        /\ pending' = pending
        /\ todo' = [todo EXCEPT ![b] = @ \ {p}]
    BY <1>0, <1>5 DEF CheckChecklist, Visit
  <2>2. CASE Current(d)
    <3>1. /\ pc' = [pc EXCEPT ![b] = "merge_checklist"]
          /\ draft' = [draft EXCEPT ![b] = d]
          /\ tally' = [tally EXCEPT ![b] = Scanned(@)]
      BY <1>0, <1>5, <2>2 DEF CheckChecklist
    <3>2. draft'[b].product = p
      BY <1>0, <3>1 DEF Drafted
    <3>3. Apart(b)'
      BY <1>0, <1>1, <2>1, <3>1, <3>2 DEF Apart
    <3>4. /\ Waiting(b) = Cardinality(pending[b])
          /\ Waiting(b)' = Cardinality(pending[b]) + 1
          /\ Cardinality(pending[b]) \in Nat
      <4>1. Cardinality(pending[b]) \in Nat
        BY <1>0a, <2>1
      <4>2. Waiting(b) = Cardinality(pending[b])
        BY <2>1 DEF Waiting
      <4>3. Waiting(b)' = Cardinality(pending[b]) + 1
        BY <1>0, <2>1, <3>1 DEF Waiting
      <4> QED
        BY <4>1, <4>2, <4>3
    <3>5. /\ tally'[b].scanned = tally[b].scanned + 1
          /\ tally'[b].skipped = tally[b].skipped
          /\ tally'[b].structured = tally[b].structured
          /\ tally'[b].notStructurable = tally[b].notStructurable
      BY <1>0, <1>1, <3>1, TallyCounts
    <3>6. Balanced(b)'
      BY <1>2, <1>0b, <2>1, <3>4, <3>5 DEF Balanced
    <3> QED
      BY <1>0, <2>1, <3>1, <3>3, <3>6, OneBatchCounts
  <2>3. CASE ~Current(d)
    <3>1. /\ UNCHANGED <<pc, draft>>
          /\ tally' = [tally EXCEPT ![b] = NotStructurable(Scanned(@))]
      BY <1>0, <1>5, <2>3 DEF CheckChecklist
    <3>2. Apart(b)'
      BY <1>0, <1>1, <2>1, <3>1 DEF Apart
    <3>3. /\ Waiting(b) = Cardinality(pending[b])
          /\ Waiting(b)' = Cardinality(pending[b])
          /\ Cardinality(pending[b]) \in Nat
      <4>1. Cardinality(pending[b]) \in Nat
        BY <1>0a, <2>1
      <4>2. Waiting(b) = Cardinality(pending[b])
        BY <2>1 DEF Waiting
      <4>3. Waiting(b)' = Cardinality(pending[b])
        BY <1>0, <2>1, <3>1 DEF Waiting
      <4> QED
        BY <4>1, <4>2, <4>3
    <3>4. /\ tally'[b].scanned = tally[b].scanned + 1
          /\ tally'[b].skipped = tally[b].skipped
          /\ tally'[b].structured = tally[b].structured
          /\ tally'[b].notStructurable = tally[b].notStructurable + 1
      BY <1>0, <1>1, <3>1, VisitCounts
    <3>5. Balanced(b)'
      BY <1>2, <1>0b, <2>1, <3>3, <3>4 DEF Balanced
    <3> QED
      BY <1>0, <2>1, <3>1, <3>2, <3>5, OneBatchCounts
  <2> QED
    BY <1>0, <2>2, <2>3
<1>6. CASE WriteChecklist(b)
  <2> DEFINE p == draft[b].product
  <2>1. /\ pc[b] = "write_checklist" /\ pc'[b] = "checklist"
        /\ pending'[b] = pending[b] \cup {p}
        /\ todo'[b] = todo[b]
        /\ tally'[b] = tally[b]
    BY <1>0, <1>6 DEF WriteChecklist
  <2>2. /\ IsFiniteSet(pending[b])
        /\ p \notin pending[b] \cup todo[b]
        /\ pending[b] \cap todo[b] = {}
    BY <1>0, <1>1, <2>1 DEF Apart
  <2>3. /\ IsFiniteSet(pending'[b])
        /\ Cardinality(pending'[b]) = Cardinality(pending[b]) + 1
    <3>1. /\ IsFiniteSet(pending[b] \cup {p})
          /\ Cardinality(pending[b] \cup {p}) = Cardinality(pending[b]) + 1
      BY <2>2, FS_AddElement
    <3> QED
      BY <2>1, <3>1
  <2>4. Apart(b)'
    BY <1>0, <2>1, <2>2, <2>3 DEF Apart
  <2>5. Balanced(b)'
    <3>1. /\ Waiting(b) = Cardinality(pending[b]) + 1
          /\ Waiting(b)' = Cardinality(pending'[b])
      BY <1>0, <2>1 DEF Waiting
    <3> QED
      BY <1>0, <1>1, <2>1, <2>3, <3>1 DEF Balanced
  <2> QED
    BY <1>0, <1>6, <2>4, <2>5, OneBatchCounts DEF WriteChecklist, WriteDraft
<1>7. CASE BeginAsking(b)
  <2>1. /\ pc[b] = "checklist" /\ pc'[b] = "ask"
        /\ todo'[b] = pending[b]
        /\ tally'[b] = tally[b]
    BY <1>0, <1>7 DEF BeginAsking
  <2>2. Apart(b)' /\ Balanced(b)'
    BY <1>0, <1>1, <2>1 DEF Apart, Balanced, Waiting
  <2> QED
    BY <1>0, <1>7, <2>2, OneBatchCounts DEF BeginAsking
<1>8. ASSUME NEW p \in Products, RecordAttempt(b, p) PROVE TallyInv'
  <2>1. /\ pc[b] = "ask" /\ pc' = [pc EXCEPT ![b] = "check"]
        /\ p \in todo[b] /\ todo' = [todo EXCEPT ![b] = @ \ {p}]
        /\ UNCHANGED <<pending, tally>>
    BY <1>0, <1>8 DEF RecordAttempt, Visit
  <2>2. \A c \in Batches \ {b} : draft'[c] = draft[c]
    BY <1>0, <1>8 DEF RecordAttempt
  <2>3. IsFiniteSet(todo[b])
    BY <1>0, <1>1, <2>1 DEF Apart
  <2>4. /\ IsFiniteSet(todo'[b])
        /\ Cardinality(todo'[b]) = Cardinality(todo[b]) - 1
    BY <1>0, <2>1, <2>3, FS_RemoveElement
  <2>5. Apart(b)'
    BY <1>0, <2>1, <2>4 DEF Apart
  <2>6. Balanced(b)'
    <3>1. Waiting(b) = Cardinality(todo[b])
      BY <2>1 DEF Waiting
    <3>2. Waiting(b)' = Cardinality(todo'[b]) + 1
      BY <1>0, <2>1 DEF Waiting
    <3>3. Cardinality(todo[b]) \in Nat
      BY <1>0a, <2>1
    <3> QED
      BY <1>0b, <2>1, <2>4, <3>1, <3>2, <3>3 DEF Balanced
  <2> QED
    BY <1>0, <2>1, <2>2, <2>5, <2>6, OneBatchCounts
<1>9. CASE CheckSource(b)
  <2>1. /\ pc[b] = "check"
        /\ UNCHANGED <<todo, pending>>
    BY <1>0, <1>9 DEF CheckSource
  <2>2. CASE Current(draft[b])
    <3>1. pc' = [pc EXCEPT ![b] = "merge"] /\ UNCHANGED <<draft, tally>>
      BY <1>0, <1>9, <2>2 DEF CheckSource
    <3>2. Apart(b)' /\ Balanced(b)'
      BY <1>0, <1>1, <2>1, <3>1 DEF Apart, Balanced, Waiting
    <3> QED
      BY <1>0, <2>1, <3>1, <3>2, OneBatchCounts
  <2>3. CASE ~Current(draft[b])
    <3>1. /\ pc' = [pc EXCEPT ![b] = "ask"]
          /\ draft' = [draft EXCEPT ![b] = None]
          /\ tally' = [tally EXCEPT ![b] = NotStructurable(@)]
      BY <1>0, <1>9, <2>3 DEF CheckSource
    <3>2. Apart(b)'
      BY <1>0, <1>1, <2>1, <3>1 DEF Apart
    <3>3. /\ Waiting(b) = Cardinality(todo[b]) + 1
          /\ Waiting(b)' = Cardinality(todo[b])
          /\ Cardinality(todo[b]) \in Nat
      <4>1. Cardinality(todo[b]) \in Nat
        BY <1>0a, <2>1
      <4>2. Waiting(b) = Cardinality(todo[b]) + 1
        BY <2>1 DEF Waiting
      <4>3. Waiting(b)' = Cardinality(todo[b])
        BY <1>0, <2>1, <3>1 DEF Waiting
      <4> QED
        BY <4>1, <4>2, <4>3
    <3>4. /\ tally'[b].scanned = tally[b].scanned
          /\ tally'[b].skipped = tally[b].skipped
          /\ tally'[b].structured = tally[b].structured
          /\ tally'[b].notStructurable = tally[b].notStructurable + 1
      BY <1>0, <1>1, <3>1, TallyCounts
    <3>5. Balanced(b)'
      BY <1>2, <1>0b, <2>1, <3>3, <3>4 DEF Balanced
    <3> QED
      BY <1>0, <2>1, <3>1, <3>2, <3>5, OneBatchCounts
  <2> QED
    BY <1>0, <2>2, <2>3
<1>10. CASE WriteConditions(b)
  <2>1. /\ pc[b] = "write" /\ pc'[b] = "ask"
        /\ todo'[b] = todo[b]
        /\ tally'[b] = Counted(tally[b], draft[b].row)
    BY <1>0, <1>10 DEF WriteConditions
  <2>2. Apart(b)'
    BY <1>0, <1>1, <2>1 DEF Apart
  <2>3. Balanced(b)'
    <3>1. /\ Waiting(b) = Cardinality(todo[b]) + 1
          /\ Waiting(b)' = Cardinality(todo[b])
          /\ Cardinality(todo[b]) \in Nat
      <4>1. Cardinality(todo[b]) \in Nat
        BY <1>0a, <2>1
      <4>2. Waiting(b) = Cardinality(todo[b]) + 1
        BY <2>1 DEF Waiting
      <4>3. Waiting(b)' = Cardinality(todo[b])
        BY <1>0, <2>1 DEF Waiting
      <4> QED
        BY <4>1, <4>2, <4>3
    <3>2. /\ tally'[b].structured \in Nat /\ tally'[b].notStructurable \in Nat
      BY <1>0, <1>1, <2>1, TallyCounts DEF Counted, Tally
    <3> QED
      BY <1>0, <1>1, <1>2, <2>1, <3>1, <3>2, WriteCounts DEF Balanced
  <2> QED
    BY <1>0, <1>10, <2>2, <2>3, OneBatchCounts DEF WriteConditions, WriteDraft
<1>11. CASE Return(b)
  <2>1. /\ pc[b] = "ask" /\ pc'[b] = "returned"
        /\ todo[b] = {}
        /\ tally'[b] = tally[b]
    BY <1>0, <1>11 DEF Return
  <2>2. Apart(b)' /\ Balanced(b)'
    BY <1>0, <1>1, <2>1, FS_EmptySet DEF Apart, Balanced, Waiting
  <2> QED
    BY <1>0, <1>11, <2>2, OneBatchCounts DEF Return
<1> QED
  BY <1>0, <1>3, <1>4, <1>5, <1>6, <1>7, <1>8, <1>9, <1>10, <1>11 DEF Structure

\* So does every step.
LEMMA StepTally == TypeInv /\ TallyInv /\ [Next]_vars => TallyInv'
<1> SUFFICES ASSUME TypeInv, TallyInv, [Next]_vars PROVE TallyInv'
  OBVIOUS
<1> USE DEF TypeInv, Typed, TypeOK, Goto, Counting, FirstLoop, SecondLoop
<1>1. ASSUME NEW b \in Batches, Sync(b) PROVE TallyInv'
  BY <1>1, OutsideCounts
     DEF Sync, Fetch, SaveProducts, ReplaceRates, ListOutdated, CheckOutdated, Visit,
         Invalidate, NothingOutdated
<1>2. ASSUME NEW b \in Batches, NEW step \in Steps \ Counting,
             pc' = [pc EXCEPT ![b] = step], Forget(b)
      PROVE  TallyInv'
  BY <1>2, OutsideCounts DEF Forget
<1>3. ASSUME NEW b \in Batches,
             \/ StartRefresh(b) \/ StartStructure(b) \/ StartImport(b) \/ Abort(b)
             \/ NothingImported(b) \/ ImportDone(b) \/ RowTaken(b)
             \/ \E p \in Products : EntryRefused(b, p)
      PROVE  TallyInv'
  <2>1. PICK step \in {"fetch", "structure", "import", "idle"} :
            pc' = [pc EXCEPT ![b] = step] /\ Forget(b)
    BY <1>3 DEF StartRefresh, StartStructure, StartImport, Start, Abort, NothingImported,
                ImportDone, RowTaken, EntryRefused
  <2>2. step \in Steps \ Counting
    BY DEF Steps
  <2> QED
    BY <1>2, <2>1, <2>2
<1>4. ASSUME NEW b \in Batches, ChooseEntries(b) \/ WriteEntry(b) PROVE TallyInv'
  BY <1>4, OutsideCounts DEF ChooseEntries, WriteEntry, WriteDraft
<1>5. ASSUME NEW b \in Batches, NEW p \in Products, CheckEntry(b, p) PROVE TallyInv'
  BY <1>5, OutsideCounts DEF CheckEntry, Visit
<1>6. ASSUME NEW b \in Batches, Structure(b) PROVE TallyInv'
  BY <1>6, StructureTally
<1>7. ASSUME NEW p \in Products, NEW s \in Disclosures \cup {None}, Publish(p, s)
      PROVE  TallyInv'
  BY <1>7, NoBatchCounts DEF Publish, batch
<1>8. CASE UNCHANGED vars
  BY <1>8, NoBatchCounts DEF vars, batch
<1>9. ASSUME NEW b \in Batches, MergeCondition(b) PROVE TallyInv'
  <2>1. UNCHANGED <<todo, pending, draft, tally>>
    BY <1>9 DEF MergeCondition
  <2>2. CASE pc[b] \in {"merge_pending", "merge_entry"}
    BY <1>9, <2>1, <2>2, OutsideCounts DEF MergeCondition
  <2>3. CASE pc[b] = "merge_checklist" /\ pc' = [pc EXCEPT ![b] = "write_checklist"]
    <3>1. Apart(b)' /\ Balanced(b)'
      BY <2>1, <2>3 DEF TallyInv, LoopsApart, TallyBalanced, Apart, Balanced, Waiting
    <3> QED
      BY <2>1, <2>3, <3>1, OneBatchCounts
  <2>4. CASE pc[b] = "merge" /\ pc' = [pc EXCEPT ![b] = "write"]
    <3>1. Apart(b)' /\ Balanced(b)'
      BY <2>1, <2>4 DEF TallyInv, LoopsApart, TallyBalanced, Apart, Balanced, Waiting
    <3> QED
      BY <2>1, <2>4, <3>1, OneBatchCounts
  <2> QED
    BY <1>9, <2>2, <2>3, <2>4 DEF MergeCondition
<1> QED
  BY <1>1, <1>3, <1>4, <1>5, <1>6, <1>7, <1>8, <1>9 DEF Next, Work, Import

\* A response counts every product it scanned exactly once, for any number of
\* products and whatever other batches do to them meanwhile.
THEOREM TallyAddsUp == Spec => []TallyAdds
<1>1. Init => TallyInv
  BY DEF Init, TallyInv, LoopsApart, TallyBalanced, Apart, Balanced, Counting, FirstLoop, SecondLoop
<1>2. TypeInv /\ TallyInv /\ [Next]_vars => TallyInv'
  BY StepTally
<1>3. Spec => []TypeInv
  BY TypeCorrect DEF TypeInv, Typed
<1>4. TypeInv /\ TallyInv => TallyAdds
  <2> SUFFICES ASSUME TypeInv, TallyInv, NEW b \in Batches, pc[b] = "returned"
               PROVE  LET t == tally[b]
                      IN  t.scanned = t.structured + t.notStructurable + t.skipped
    BY DEF TallyAdds
  <2>1. Waiting(b) = 0
    BY DEF Waiting, FirstLoop, SecondLoop
  <2>2. tally[b].structured + tally[b].notStructurable + tally[b].skipped \in Nat
    BY DEF TypeInv, Typed, TypeOK, Tally
  <2> QED
    BY <2>1, <2>2 DEF TallyInv, TallyBalanced, Balanced, Counting
<1> QED
  BY <1>1, <1>2, <1>3, <1>4, PTL DEF Spec
=============================================================================
