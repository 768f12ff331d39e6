-------------------------------- MODULE Intake --------------------------------
(***************************************************************************)
(* From the disclosure service to what a reader may judge by: the pages of *)
(* DisclosureClient, their conversion to rows, the checklist of every      *)
(* product, the answers of the AI and the conditions written by hand, and  *)
(* SavingCondition.read_verified.                                          *)
(*                                                                         *)
(* One refresh runs at a time and its transactions are not interleaved     *)
(* with others (that is RefreshBatch); here the contents of the texts, of  *)
(* the rates and of the answers matter.                                    *)
(***************************************************************************)
EXTENDS Extraction

CONSTANTS
    Products,      \* in the order of their ids
    Publications,  \* what the service may list: companies and products, in pages
    PageSize,      \* entries of a page
    Answers,       \* [Products -> what the AI may answer]
    Manual,        \* conditions written by hand
    NoneWords,     \* the sentence a disclosure sends for "no bonus text"
    MaxChanges,    \* bound on the changes of the disclosure
    NoRate,        \* a rate the disclosure leaves empty
    None           \* no conditions in a record

VARIABLES
    disclosed,  \* what the service lists now
    changes,    \* how often it has changed
    stage,      \* what the refresh does
    page,       \* page_no
    received,   \* the pages so far
    quiet,      \* the service has not changed since the refresh began
    banks,      \* bank rows
    saving,     \* product rows with their rate options, by product
    record,     \* product_condition rows, by product
    rows,       \* product_bonus rows
    attempt,    \* product_condition_attempt: the status of the latest row
    todo,       \* products still to be checklisted
    pending     \* pending_sources: what is put to the AI

world == <<disclosed, changes, quiet>>
fetch == <<page, received>>
tables == <<banks, saving, record, rows, attempt>>
vars == <<world, stage, fetch, tables, todo, pending>>

Product == ToSet(Products)

\* What a page, an answer and an entry written by hand are made of.
RatesKnown(options) ==
    IsList(options) /\ \A o \in ToSet(options) : {o.base, o.max} \subseteq Int \cup {NoRate}
BonusesKnown(x) ==
    IsList(x.bonuses) /\ \A b \in ToSet(x.bonuses) : IsList(b.condition.conditions)

ASSUME PagesAssumption ==
    /\ PageSize \in Nat \ {0} /\ MaxChanges \in Nat
    /\ IsList(Products)
    /\ \A listing \in Publications :
          /\ listing = [companies |-> listing.companies, products |-> listing.products]
          /\ IsList(listing.companies) /\ IsList(listing.products)
          /\ \A entry \in ToSet(listing.products) :
                entry.product \in Product /\ RatesKnown(entry.options)

ASSUME AnswersAssumption ==
    /\ \A p \in Product : \A raw \in Answers[p] : BonusesKnown(raw)
    /\ \A x \in Manual : BonusesKnown(x)

-----------------------------------------------------------------------------
(* DisclosureClient: pages *)

Nothing == [companies |-> <<>>, products |-> <<>>]

Entries(listing, n) ==
    SubSeq(listing, (n - 1) * PageSize + 1,
           IF n * PageSize < Len(listing) THEN n * PageSize ELSE Len(listing))

MaxPage(listing) == (Len(listing) + PageSize - 1) \div PageSize

\* A mutant of IsLast: the last page is not fetched.
IsLastBefore(n, listing) == n + 1 >= MaxPage(listing)

IsLast(n, listing) == n >= MaxPage(listing)

-----------------------------------------------------------------------------
(* SavingProduct.to_saving, SavingProductOption.to_rate_option *)

BonusText(raw) == IF raw.spcl_cnd = {NoneWords} THEN {} ELSE raw.spcl_cnd

ToRateOptions(options) ==
    Selected(options, {i \in DOMAIN options : options[i].base # NoRate /\ options[i].max # NoRate})

\* replace_rate_options: the options of every entry received for a product.
OptionsOf(p, entries) ==
    FlattenSeq([i \in DOMAIN entries |->
        IF entries[i].product = p THEN ToRateOptions(entries[i].options) ELSE <<>>])

\* save_all merges the entries one after another.
LastOf(p, entries) == entries[Max({i \in DOMAIN entries : entries[i].product = p})]

ToSaving(p, entries) ==
    LET raw == LastOf(p, entries)
    IN  [bank |-> raw.bank, join_member |-> raw.join_member, anyone |-> raw.anyone,
         spcl_cnd |-> BonusText(raw), etc_note |-> raw.etc_note,
         options |-> OptionsOf(p, entries)]

Listed(p, entries) == \E i \in DOMAIN entries : entries[i].product = p

\* max_bonus_point: the widest gap between base and best rate.
Gap(options) ==
    LET gaps == {options[i].max - options[i].base : i \in DOMAIN options}
    IN  IF gaps = {} THEN 0 ELSE Max(gaps)

ConditionSource(s) ==
    [join_member |-> s.join_member, anyone |-> s.anyone, spcl_cnd |-> s.spcl_cnd,
     etc_note |-> s.etc_note, gap |-> Gap(s.options)]

-----------------------------------------------------------------------------
(* SavingCondition *)

Record(source, status, body) == [source |-> source, status |-> status, body |-> body]

\* A mutant of Pending: a changed source is stored as a failure.
PendingFailed(source) == Record(source, "FAILED", None)

Pending(source) == Record(source, "PENDING", None)

\* from_checklist raises unless every text fits into an item and the checklist
\* of the source verifies.
ChecklistVerified(source) ==
    LET checklist == FromSourceChecklist(source)
    IN  Validated(checklist) /\ Verified(checklist, source)

FromChecklist(source) ==
    LET checklist == FromSourceChecklist(source)
    IN  Record(source, IF NeedsReview(checklist, source) THEN "NEEDS_REVIEW" ELSE "EXTRACTED", checklist)

\* A mutant of FromExtracted: the answer is stored, complete or not.
FromExtractedUnreviewed(source, extracted) == Record(source, "EXTRACTED", extracted)

FromExtracted(source, extracted) ==
    IF NeedsReview(extracted, source) THEN FromChecklist(source)
    ELSE Record(source, "EXTRACTED", extracted)

Matches(p) == p \in DOMAIN record /\ record[p].source = ConditionSource(saving[p])

CanSkip(p) == Matches(p) /\ record[p].status \in {"EXTRACTED", "NEEDS_REVIEW"}

\* read_verified() returns conditions, and not the status of the row.
Readable(p) ==
    /\ Matches(p)
    /\ record[p].status = "EXTRACTED"
    /\ Verified(record[p].body, record[p].source)
    /\ ~NeedsReview(record[p].body, record[p].source)

\* session.merge: rows whose key is in the table replace those of the table.
Merged(new, table) ==
    [k \in DOMAIN new \cup DOMAIN table |-> IF k \in DOMAIN new THEN new[k] ELSE table[k]]

\* save_conditions: dropped when the product has another source by now.
SaveConditions(p, new, bonuses) ==
    IF new.source = ConditionSource(saving[p])
      THEN record' = Merged([q \in {p} |-> new], record) /\ rows' = [rows EXCEPT ![p] = bonuses]
      ELSE UNCHANGED <<record, rows>>

-----------------------------------------------------------------------------
TypeOK ==
    /\ disclosed \in Publications
    /\ changes \in 0..MaxChanges
    /\ stage \in {"idle", "companies", "products", "load", "checklist", "ask", "aborted"}
    /\ page \in Nat
    /\ quiet \in BOOLEAN
    /\ DOMAIN saving \subseteq Product /\ DOMAIN record = DOMAIN saving /\ DOMAIN rows = Product
    /\ \A p \in Product : rows[p] # <<>> => p \in DOMAIN record
    /\ attempt \in [Product -> {"NONE", "VALIDATED", "FAILED"}]
    /\ \A p \in DOMAIN record : record[p].status \in {"PENDING", "EXTRACTED", "NEEDS_REVIEW"}

Init ==
    /\ disclosed \in Publications
    /\ changes = 0
    /\ stage = "idle"
    /\ page = 1
    /\ received = Nothing
    /\ quiet = TRUE
    /\ banks = {}
    /\ saving = <<>>
    /\ record = <<>>
    /\ rows = [p \in Product |-> <<>>]
    /\ attempt = [p \in Product |-> "NONE"]
    /\ todo = <<>>
    /\ pending = <<>>

-----------------------------------------------------------------------------
(* The steps *)

\* The service publishes something else, between any two requests.
Publish ==
    /\ changes < MaxChanges
    /\ disclosed' \in Publications \ {disclosed}
    /\ changes' = changes + 1
    /\ quiet' = FALSE
    /\ UNCHANGED <<stage, fetch, tables, todo, pending>>

StartSync ==
    /\ stage \in {"idle", "aborted"}
    /\ stage' = "companies"
    /\ page' = 1
    /\ received' = Nothing
    /\ quiet' = TRUE
    /\ UNCHANGED <<disclosed, changes, tables, todo, pending>>

StageAfter == [companies |-> "products", products |-> "load"]

\* _get_pages: one request; the page tells how many there are at that time.
FetchPage ==
    /\ stage \in {"companies", "products"}
    /\ LET listing == disclosed[stage]
       IN  /\ received' = [received EXCEPT ![stage] = @ \o Entries(listing, page)]
           /\ IF IsLast(page, listing)
                THEN page' = 1 /\ stage' = StageAfter[stage]
                ELSE page' = page + 1 /\ stage' = stage
    /\ UNCHANGED <<world, tables, todo, pending>>

\* Any failure of a request ends the refresh before it wrote anything.
FetchFails ==
    /\ stage \in {"companies", "products"}
    /\ stage' = "idle"
    /\ UNCHANGED <<world, fetch, tables, todo, pending>>

\* save_all of banks and products, replace_rate_options, and the condition
\* rows of the products whose source has changed, or that have none.
Load ==
    /\ stage = "load"
    /\ banks' = banks \cup ToSet(received.companies)
    /\ LET listed == {p \in Product : Listed(p, received.products)}
       IN  saving' = Merged([p \in listed |-> ToSaving(p, received.products)], saving)
    /\ LET outdated == {p \in DOMAIN saving' :
                          p \notin DOMAIN record \/ record[p].source # ConditionSource(saving'[p])}
           reworded == {p \in DOMAIN saving : saving'[p].spcl_cnd # saving[p].spcl_cnd}
       IN  /\ record' = Merged([p \in outdated |-> Pending(ConditionSource(saving'[p]))], record)
           /\ rows' = [p \in Product |-> IF p \in outdated \cup reworded THEN <<>> ELSE rows[p]]
    /\ stage' = "checklist"
    /\ todo' = Selected(Products, {i \in DOMAIN Products : Products[i] \in DOMAIN saving'})
    /\ UNCHANGED <<world, fetch, attempt, pending>>

\* The next product of _save_checklists.  from_checklist may raise, which
\* nothing catches: the products after this one have no turn.
Checklist ==
    /\ stage = "checklist"
    /\ todo # <<>>
    /\ LET p == Head(todo)
           source == ConditionSource(saving[p])
       IN  \/ /\ CanSkip(p)
              /\ todo' = Tail(todo)
              /\ UNCHANGED <<stage, record, rows, pending>>
           \/ /\ ~CanSkip(p)
              /\ ~ChecklistVerified(source)
              /\ stage' = "aborted"
              /\ todo' = <<>>
              /\ pending' = <<>>
              /\ UNCHANGED <<record, rows>>
           \/ /\ ~CanSkip(p)
              /\ ChecklistVerified(source)
              /\ SaveConditions(p, FromChecklist(source), <<>>)
              /\ todo' = Tail(todo)
              /\ pending' = Append(pending, [product |-> p, source |-> source])
              /\ UNCHANGED stage
    /\ UNCHANGED <<world, fetch, banks, saving, attempt>>

ChecklistsDone ==
    /\ stage = "checklist"
    /\ todo = <<>>
    /\ stage' = "ask"
    /\ UNCHANGED <<world, fetch, tables, todo, pending>>

\* The bonuses of the record as it reads back, in the former format.
CompatibilityRows(new) ==
    IF new.status = "EXTRACTED" THEN FromConditions(new.body) ELSE <<>>

\* _extract_one: an answer that is rejected is logged as a failure and leaves
\* the checklist of the source.
Ask ==
    /\ stage = "ask"
    /\ pending # <<>>
    /\ LET p == Head(pending).product
           source == Head(pending).source
       IN  \E raw \in Answers[p] :
              LET extracted == Parsed(raw, source)
                  new == IF extracted = Rejected THEN FromChecklist(source)
                         ELSE FromExtracted(source, extracted)
              IN  /\ attempt' = [attempt EXCEPT ![p] =
                                    IF extracted = Rejected THEN "FAILED" ELSE "VALIDATED"]
                  /\ SaveConditions(p, new, CompatibilityRows(new))
    /\ pending' = Tail(pending)
    /\ UNCHANGED <<world, stage, fetch, banks, saving, todo>>

\* The AI does not answer, or with something that is not such an object.
AskFails ==
    /\ stage = "ask"
    /\ pending # <<>>
    /\ LET p == Head(pending).product
       IN  /\ attempt' = [attempt EXCEPT ![p] = "FAILED"]
           /\ SaveConditions(p, FromChecklist(Head(pending).source), <<>>)
    /\ pending' = Tail(pending)
    /\ UNCHANGED <<world, stage, fetch, banks, saving, todo>>

RefreshDone ==
    /\ stage = "ask"
    /\ pending = <<>>
    /\ stage' = "idle"
    /\ UNCHANGED <<world, fetch, tables, todo, pending>>

\* import_conditions of one entry: validated like an answer, and refused when
\* it needs a review or was written about another source.
Import ==
    /\ \E p \in DOMAIN saving, x \in Manual :
          /\ Validated(x)
          /\ LET source == ConditionSource(saving[p])
             IN  /\ Verified(x, source)
                 /\ ~NeedsReview(x, source)
                 /\ SaveConditions(p, Record(source, "EXTRACTED", x), FromConditions(x))
    /\ UNCHANGED <<world, stage, fetch, banks, saving, attempt, todo, pending>>

Next ==
    \/ Publish
    \/ StartSync
    \/ FetchPage
    \/ FetchFails
    \/ Load
    \/ Checklist
    \/ ChecklistsDone
    \/ Ask
    \/ AskFails
    \/ RefreshDone
    \/ Import

Spec == Init /\ [][Next]_vars

-----------------------------------------------------------------------------
(* Properties *)

\* Conditions a reader may judge by leave no bonus out of sight: where the
\* disclosure names a bonus, or its rates leave room for one, there is a bonus
\* to be judged or an item on the checklist; and whoever may not join finds a
\* join condition there (misses_bonus_condition, misses_join_condition and the
\* status corrected by the source).
NothingLost ==
    \A p \in Product : Readable(p) =>
        LET x == record[p].body
            s == record[p].source
        IN  /\ ~DeclaresNoBonus(s.spcl_cnd) \/ s.gap > 0 => x.bonuses # <<>> \/ x.other_bonus # {}
            /\ ~s.anyone => x.eligibility.conditions # <<>> \/ s.join_member \in x.other_eligibility

\* Whatever was published, answered or imported in between, every condition
\* judged is a quotation of the disclosure as it is stored now, and all bonuses
\* together fit between some option's base and best rate.
JudgedFromSource ==
    \A p \in Product : Readable(p) =>
        LET x == record[p].body
            judged == Predicates(x.eligibility) \cup
                      UNION {Predicates(b.condition) : b \in ToSet(x.bonuses)}
            text == saving[p].join_member \cup saving[p].spcl_cnd \cup saving[p].etc_note
        IN  /\ \A c \in judged : c.quote.text # {} /\ c.quote.text \subseteq text
            /\ x.bonuses # <<>> => \E i \in DOMAIN saving[p].options :
                  TotalPoints(x) <= saving[p].options[i].max - saving[p].options[i].base

\* A record stored as EXTRACTED, by whichever way, reads back as conditions as
\* long as its source is the product's: a reader is never told that a stored
\* result "did not pass the verification" (Saving._extraction_failure_reason).
SavedReadable ==
    \A p \in Product :
        Matches(p) /\ record[p].status = "EXTRACTED" => Readable(p)

\* The only sources that have no checklist of their own, and so end a refresh
\* before any product was put to the AI, are those whose options all have a best
\* rate below the base rate and those with a text too long for an item: no
\* disclosure without bonus, join member or rate does, and no answer of the AI.
AbortsOnlyRefused ==
    stage = "aborted" =>
        \E p \in DOMAIN saving :
            \/ \A i \in DOMAIN saving[p].options :
                  saving[p].options[i].max < saving[p].options[i].base
            \/ ~Fits(saving[p].join_member) \/ ~Fits(saving[p].spcl_cnd)
            \/ ~Fits(saving[p].etc_note)

\* A disclosure that did not change during a refresh is stored whole: every
\* page, with all options that have rates, and every bank.  A product listed
\* once has no other options.
QuietFetchWhole ==
    stage \in {"checklist", "ask"} /\ quiet =>
        \A i \in DOMAIN disclosed.products :
            LET entry == disclosed.products[i]
                once == \A j \in DOMAIN disclosed.products :
                            disclosed.products[j].product = entry.product => j = i
                stored == saving[entry.product].options
                rated == ToRateOptions(entry.options)
            IN  /\ entry.product \in DOMAIN saving
                /\ ToSet(rated) \subseteq ToSet(stored)
                /\ once => stored = rated
                /\ entry.bank \in ToSet(disclosed.companies) => entry.bank \in banks

\* A row in the former format promises no more than the conditions: it stands
\* for a bonus whose whole condition is the one predicate of the row.
RowsPromiseNoMore ==
    \A p \in Product : \A i \in DOMAIN rows[p] :
        /\ Readable(p)
        /\ \E b \in ToSet(record[p].body.bonuses) :
              b.points = rows[p][i].points /\ Predicates(b.condition) = {rows[p][i].condition}

\* "What is shown as a checklist must come from the disclosure, too" (docstring
\* of _verify_checklists): the items about joining and about bonuses, but for
\* the fields no schema knows, which are kept as they are.
ChecklistFromSource ==
    \A p \in Product : Readable(p) =>
        LET x == record[p].body
        IN  /\ \A item \in x.other_eligibility \ {{StrayText}} :
                  ItemFrom(item, saving[p].join_member, saving[p].etc_note)
            /\ \A item \in x.other_bonus \ {{StrayText}} :
                  ItemFrom(item, saving[p].spcl_cnd, saving[p].etc_note)
=============================================================================
