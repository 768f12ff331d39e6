# navi-backend in TLA+

navi-backend recommends deposit and saving products. It loads the products,
their interest rates and the banks from the financial supervisor's disclosure
service, has an AI turn each product's disclosure text into structured
conditions, and interviews a user about these conditions, by questions or in a
conversation, until the best product is decided. This directory models the parts
of the program that carry state between steps and the rules they decide by,
checks them with TLC on small instances, and proves the most important
properties with TLAPS for every size of instance.

Every module is written from the code under `src/`; `PROJECT.json` names, for
each definition, the lines it stands for.

## The system

| Component | State it keeps | Operations | Modelled in |
|---|---|---|---|
| Condition store (`app/service/saving/saving.py`, `app/dao/saving.py`, `app/model/database/saving*.py`) | `product`, `rate_option`, `product_condition`, `product_bonus`, `product_condition_attempt` | `save_all`, `replace_rate_options`, `list_every`, `invalidate_changed_conditions`, `save_conditions`, `save_condition_attempt` | `ConditionStore`; what a reader is promised of it in `ConditionTable` |
| Disclosure sync (`disclosure_sync.py`) | what it fetched | `sync`: fetch, then banks, products, rates, and the invalidation of outdated conditions, each its own transaction | `RefreshBatch`, banks in `WorkerCache` |
| Structuring batch (`bonus_structure.py`) | its listing, `pending_sources`, the tally | `structure`: a checklist for every changed product, then one AI call a product, an attempt logged, the result saved | `RefreshBatch`; the contents of texts and answers in `Intake` |
| Refresh (`saving_refresh.py`, `scripts/sync_disclosure.py`, `scripts/structure_bonuses.py`) | none | backup, sync, structure, clear the caches | `RefreshBatch`, `WorkerCache` |
| Manual import (`scripts/import_manual_conditions.py`, `manual_conditions_vo.py`) | the verified entries | list, verify, write one by one | `RefreshBatch`, `Intake` |
| Worker caches (`infra/cache/*.py`) | `_cached`, `_cached_at` of each cache in each worker process | `get`, `store`, `clear`, `fresh` | `WorkerCache` |
| Catalogue (`saving_catalog.py`, `banks_vo.py`) | none | `catalog`: products, then banks, joined; `compare` | `WorkerCache`, `Comparison` |
| Disclosure client (`external/disclosure/*.py`) | the pages so far | `get_companies`, `get_saving_products`, page by page; the conversion to rows | `Intake`; one snapshot in `RefreshBatch` |
| Extraction and verification (`extracted_conditions_vo.py`, `external/llm/condition_*.py`) | none | an answer is normalised, validated, given the status the disclosure implies, verified, and is complete or needs a review | `Extraction`; its outcome in `RefreshBatch` |
| Compatibility bonuses (`app/model/database/saving_bonus.py`) | `product_bonus` | the bonuses the former format can express | `Extraction`, `Intake`; the rows as a whole in `ConditionStore` |
| Condition evaluation (`condition_group_vo.py`, `condition_predicate_vo.py`, `condition_answer_vo.py`) | none | three-valued `evaluate`, and `unanswered` | `Conditions` |
| Question flow (`service/question/*.py`, `saving_ranking_vo.py`) | the answers travel with each request | `next_step`: next question or ranking | `QuestionFlow`, `Interview` |
| Comparison and maturity estimate (`saving_option_comparison_vo.py`, `saving_eligibility_vo.py`, `maturity_estimate_vo.py`, `goal_amount_vo.py`) | none | eligibility, rate, estimate and the verdict on the goal, for every option | `Comparison` |
| Wish conversation (`service/wish/*.py`, `external/llm/wish_*.py`) | `user_wish`; the answers travel with each request | a turn with up to two AI calls; the ranking of the rules reordered by the AI | `WishTurn` |
| Question table, LLM client, admin LLM test, backup, schema initializer, homepage scripts, controllers | constants, or none, or a file | I/O | not modelled |

How they interact. A *refresh* (an administrator's request, or a script in a
process of its own) calls sync, then structure, then clears the caches of the
process it runs in. Sync and structure share nothing but the tables: structure
lists the products anew. The import script is a third writer of the condition
table. Requests of users read products, banks and questions through the caches
of the worker that serves them; no cache of another worker is ever told of a
refresh. A turn of the conversation calls the question flow on the answers given
before and the ones the AI read in the sentence, and asks for a ranking by the AI
when the flow has no question left.

What is hard here. No transaction spans two steps of a batch; nothing excludes
two batches from running at once; a batch judges by a listing that is minutes
old when an AI answer arrives; SQLite ignores `FOR UPDATE`, and the driver opens
a transaction at the first write only, so a check that precedes it is outside, and so
is the row that `session.merge` reads to find out which columns to update.
A batch may fail after any commit and nothing is undone. A cache awaits the
database between its look at the entry and its store. Whatever the AI says has
to be refused, corrected or shown as unverified, and what is stored is verified
again at each read. Server and client of an interview each merge answers by rules
of their own. `PROJECT.json` lists the hazards with the line each bites at, and
the properties about it.

## The modules

**`ConditionStore`** holds the five tables and one operator per transaction of
`SavingService`. The contents of the disclosure columns of a product are a value
of `Texts`, its rate options a value of `Rates`; `condition_source_hash` is a
hash of both, so equal hashes are equal sources. Contents can return (a text
changes and changes back), as they can in the program. `BonusText` gives the
part of a text that `bonus_source_hash` covers. A condition row has a source, a
schema version (current or older), a status and its `conditions_json`: nothing, a
checklist, an AI answer or a hand-written entry, and the source that was made from.
`Merged` is the row after `session.merge` and its flush: the columns in which the
record differs from the row that was read are updated, all others keep what another
batch may have written since. `bonusRow[p]` is
the condition row that the compatibility rows of `p` were generated from.
`FAILED`, the status of `SavingConditionStatus` that no code stores, is left out.
`StoreInit` is an empty database, or one that an earlier release filled.

**`RefreshBatch`** runs batches over that store. A slot of `Batches` is idle or
at a step of a refresh, of a structure run or of an import; whatever the Python
code keeps in a local variable between two awaits is in `received`, `listed`,
`todo`, `pending`, `draft` and `tally`, and `seen` is the row that `session.merge` has
read and not yet flushed. The three parts of a write, the comparison of the
source, the `SELECT` of `merge` and the flush with the rows of the former format,
are three steps between which another batch may commit.

| Action | Code |
|---|---|
| `Fetch`, `SaveProducts`, `ReplaceRates` | `DisclosureSyncService.sync` with `SavingService.save_all`, `replace_rate_options` |
| `ListOutdated`, `CheckOutdated`, `Invalidate`, `NothingOutdated` | `invalidate_changed_conditions`: the listing, the first product that is written, and the transaction its flush opens |
| `ListProducts`, after a sync or first | the head of `BonusStructureService.structure` |
| `SkipProduct`, `CheckChecklist`, `WriteChecklist` | `_save_checklists`: `can_skip`, and the check and the flush of `save_conditions` |
| `BeginAsking`, `RecordAttempt`, `CheckSource`, `WriteConditions`, `Return` | `_extract_one`: the answer and its attempt, then the check and the flush of `save_conditions` |
| `ChooseEntries`, `NothingImported`, `CheckEntry`, `EntryRefused`, `WriteEntry`, `ImportDone` | `scripts/import_manual_conditions.py`, with `save_conditions` for each entry |
| `MergeCondition` | the `SELECT` of `session.merge` in `merge_condition`, between the check and the flush of any of the four writers |
| `RowTaken` | the flush of an `INSERT` where another batch has inserted the row since: an integrity error ends the batch |
| `Publish` | the disclosure service changes what it publishes |
| `Abort` | an exception out of any step, or the end of the process |

**`ConditionTable`** says what these tables promise while batches run one at a time,
with nothing about batches, listings or transactions: each product has a
disclosure, a reader is shown something of it (nothing, a checklist, an incomplete
checklist, an extraction, a hand-written result), and the AI was asked about some
disclosures. What is shown changes by a load, which brings another disclosure, or
by a write about one product, which replaces what is shown by something of more
worth; an extraction may only be shown for the very disclosure the AI was asked
about. **`RefreshTable`** maps `RefreshBatch` to it: a reader is shown what
`Saving.verified_conditions` returns, nothing where the record is of another source,
of an older schema or pending; the AI was asked where the attempt log says so.
`ImplementsTableAlone` is the abstract specification under this mapping. Two batches
at once do not implement it, nor any weaker table that grounds what is shown: see
the mixed rows under "The runs".

**`WorkerCache`** has two cached tables, products and banks, in every worker, a
refresh that commits banks and then products and clears the caches of its own
process, and requests that read products and then banks. A table is known by
its version: refresh *k* commits banks *k* and products *k*, and products *k*
name a bank that banks *k* was the first to list. `Read` and `Store` are apart
because `get()` awaits the database between them. `Restart` is the end of a
worker process with what it was doing. `cacheEnabled` is the setting
`CACHE_ENABLED`, which is fixed for a behaviour.

**`Extraction`** is what becomes of one answer of the AI: `Normalised`
(`normalize_condition_response`, which restores numerals and truth values and
moves fields no schema knows to the checklists), `Validated` (the validators of
`ConditionPredicateVO` and `ConditionBonusVO`), `StatusFromSource` (the status
corrected by the disclosure), `Verified` (`verify`) and `NeedsReview`; also
`FromSourceChecklist`, the checklist made without the AI, and `FromConditions`,
the bonuses that the former format can express. A text is the set of its
sentences, so a quotation is a non-empty subset of it.

**`Lists`** holds the two operators on sequences that several modules share:
`Selected`, the elements at some indices in their order, and `InOrder`, the
elements of a set in the order of a relation. They stand in for `SelectSeq` and
`SortSeq`, which the provers do not expand.

**`Intake`** takes a disclosure all the way to what a reader may judge by.

| Action | Code |
|---|---|
| `StartSync`, `FetchPage`, `FetchFails` | `DisclosureClient._get_pages` for companies, then products: one request a page, each of which sees the disclosure as it then is |
| `Load` | `SavingProduct.to_saving`, `to_rate_option`, the transactions of a load |
| `Checklist`, `ChecklistsDone` | `_save_checklists`; `from_checklist` may raise, which ends the batch |
| `Ask`, `AskFails`, `RefreshDone` | `_extract_one` with `ConditionLlmParser.parse`, for any answer the instance has |
| `Import` | one entry of the import script |
| `Publish` | the disclosure changes between any two requests |

Here batches run one at a time and a load is one step; what interleaves with it is
the matter of `RefreshBatch`.

**`Conditions`** judges the join and bonus conditions. The conditions of all
products are one table of predicates and groups in which the parts of a group
come before it, so that `Evaluate` and `ToAsk` are recursive functions on the
table. A reply has a kind: unanswered, skipped, a number, a list of banks, or
another word. `Understood` says which replies the field of a predicate can read;
all others leave it `UNKNOWN`, and `ToAsk` (`unanswered`) names the keys of the
unknown predicates that have no reply yet. `Judgement` is the reference that
`Evaluate` is checked against: what every truth of the undecided predicates
would make of the condition.

**`QuestionFlow`** decides what a request gets, as a function of the catalogue and
the answers. **`Interview`** is `POST /api/v1/questions/next`, request after
request: its state is the catalogue that the cache returns, the answers the client
holds, and the last response. A request is one step: it gets the products once
and has no state that outlives it.

| Definition | Code |
|---|---|
| `Decide` | `QuestionFlowService.next_step`, `_decide` |
| `OpeningQuestion`, `SelectedTerms` | `StartingQuestions` |
| `Checked`, `EligibilityQuestion`, `Candidates` | `CandidateCollector.collect` |
| `Rate`, `PossibleRate`, `BonusQuestion` | `SavingRate`, `RateOption.rate_with` |
| `Ranking`, `RankingQuestion`, `Rows` | `SavingRankingVO.from_rates`, `next_answer`; `RankingStep` |
| `NextStep` | a request |
| `Answer`, `Revise` | the client sends all answers again, one more or one changed |
| `Refresh` | another table comes out of the cache between two requests |

**`Comparison`** extends `Interview` by `POST /api/v1/savings/compare`, which the
client may send with the same answers at any time and which keeps nothing:
`EligibilityStatus`, `AppliedRate`, `Estimate`, `Reach` and `Shortfall` of every
option are functions of the interview's state, and its properties relate them to
what the interview says.

**`WishTurn`** is `POST /api/v1/wishes`, turn after turn, over `QuestionFlow`. A turn
is a chain of steps, one for each await: `Parse` (the AI reads the sentence),
`SaveWish`, `DecideNext`, then `QuestionTurn` (the AI words the reply), or
`Collect` (the products are read again) and `RankTurn` (the AI ranks). `Say` and
`Press` are the client, `Fail` an error at any step, `Refresh` a replacement of
the catalogue between any two. What the AI may read or rank is a constant of the
instance that includes answers to questions nobody asks, numbers that are none,
repetitions, inventions and omissions. The server keeps nothing of a turn but the
row of the sentence; the client sends all its answers again, and both merge what
was read into them, each for itself (`Merge` and `Adopt`). There is no client under
`src/`: that it adopts the answers of a response in this way is an assumption.

`MCRefreshBatch`, `MCWorkerCache`, `MCInterview`, `MCWishTurn` and `MCIntake` give
the constants their values for TLC; the modules whose names end in `Proofs` hold
the theorems, and `ListFacts` the lemmas about numbers, sequences, folds and sums
that they share.

### What the models abstract

- A loop over products visits them in any order in `RefreshBatch`; the code's order
  is that of the product ids, which `Intake` keeps. Both phases of a structure run
  keep their order.
- `list_every` is one step: the code reads pages of 1000 products, of which the
  disclosure fills one, by a SELECT for the products and one each for their options,
  bonuses and conditions.
- `invalidate_changed_conditions` is one transaction, which on SQLite begins at its
  first write. The check, the `SELECT` of `merge` and the flush of the first
  product that is written are steps of their own; the products after it are
  checked, read and written inside the transaction that flush has opened, so they
  are part of its step. Products before it that fail the check write nothing.
- `save_all` and `replace_rate_options` are one step each. The reads that `save_all`
  does for its first product before its first write are part of it: two loads that
  overlap there are two loads one after the other.
- The source of a condition row is one value: `source_hash`, with the `source_json`
  that follows it. `review_reason` is left out: no step
  reads it.
- Compatibility rows are written for an extraction, or an entry, of a text in
  `Offering` only: other texts have no bonus the former format can hold.
- The seed questions that a structure run inserts, the number of created bonuses
  in its response and `homepage_url` are left out: no property is about them.
- The backup reads the database only; where it fails no step of the batch has
  happened, which is the abort of a batch at its first step.
- Rates and percentage points are integers, in hundredths of a percent, as the
  columns `Numeric(5, 2)` are. In `QuestionFlow` a product is excluded or usable;
  which record made it so is the matter of `ConditionStore`. Names of banks, titles,
  answer widgets and the explanatory fields of a result are left out. The banks of
  a request are read after its products, which `WorkerCache` is about.
- The client takes the term from the options of the question; everything else is
  free text, so `Replies` holds words and numbers that no condition understands.
- One refresh at a time in `WorkerCache`. Two interleaved refreshes add orders of
  commits, which `RefreshBatch` covers for the tables.
- In `Extraction` a text is a set of sentences, groups nest one deep, and the limits
  on the number of items are left out. Of the lengths only what ends a batch or
  refuses an answer is kept: `OverLong` are the texts longer than a quotation
  (`ConditionEvidenceVO`) and an item of a checklist (`OtherConditionVO`) may be, one
  set for both limits. The attempt in `Intake` is the status of the latest one.
- In `Comparison` compounding keeps `Fraction` parts of a won where the code keeps
  28 digits, and `MaxSafe` stands for 2^53 - 1, scaled down with the amounts. An
  amount of more than eighteen digits, which `AnsweredAmountVO` refuses, lies
  beyond both. Whether a product is paid into by the day or the week is given with
  the product; the code reads it from its name and notes.
- In `WishTurn` the wording of replies and the notice about policy savings are left
  out; they are appended to a response that is otherwise decided.

## The runs

| Run | Question | Result |
|---|---|---|
| `RefreshOne` | Batches one after the other, two products, one change of the disclosure, one crash at any step: `NoStaleBonusText` (no compatibility row survives the text it was made from), `SyncLeavesNoStale` (after a sync every product's condition row is about its present source), `ReadableWhileAsking` (no product is unreadable while the AI is asked), `AttemptBeforeResult` (an extraction has its answer in the log), `BonusesFollowCondition` (the compatibility rows are those of the condition row, or none), `ImplementsTableAlone` (what is shown for an unchanged disclosure is never taken back and only replaced by something of more worth) | holds |
| `RefreshTwo` | Two batches of any kind, step by step interleaved, `session.merge`'s read and flush included: `ConditionsLogged` (conditions of the AI are in the table only with the answer they were made from in the log, in rows that two batches mixed too), `TallyAdds` (a response counts each scanned product once) | holds |
| `RefreshLive` | Fair scheduling: `EventuallyCurrent` (after the last change, refreshes bring every product to a decided record of the published source) | holds |
| `CacheStale` | `StaleAtMost`: nothing is served `TTL` plus one load after it was superseded; `BankFoundUncached`: with the caches off a product of a response always finds its bank | holds |
| `Interview` | Every interview over three products, with an answer changed and the catalogue replaced on the way: `InterviewEnds` (the questions come to an end), `NeverAskedTwice`, `BoundsNarrow` (another answer never takes back a decided eligibility, and `rate` and `possible_rate` close in on each other), `JudgesExactly` (a condition is decided exactly when nothing unknown could turn it), `FirstPlaceFinal` (when the ranking is shown, no answer to a question that was not asked puts a better offer before the first). And every comparison asked for on the way: `ComparedAsRanked` (comparison and ranking agree on eligibility and rate), `EstimateHolds` (another answer never takes back a verdict on the goal), `EstimateWithinProduct` (an estimate keeps to the product's limit, its highest rate and exact integers) | holds |
| `Wish` | Every conversation of up to two sentences with an AI that misreads, invents, repeats, leaves out or fails: `AskedIsOpen` (server and client agree on what has been answered), `WishKept` (the row a response names holds what the response says), `EveryCandidateRankedOnce` (whatever order the AI returns), `ListsAgree` (the two rankings of a response, where both reads saw one catalogue), `ConversationEnds` | holds |
| `Intake` | Every disclosure, paging, answer and hand-written entry of the instance: `NothingLost` (a record a reader judges by leaves no bonus and no join condition out of sight), `JudgedFromSource` (every judged condition quotes the text as it is stored now, and the bonuses fit the rates), `SavedReadable` (what is stored as extracted reads back as long as its source is the product's), `AbortsOnlyRefused` (the two kinds of disclosure that end a refresh: rates that are all inverted, and a text too long for an item), `QuietFetchWhole` (a disclosure that stands still is stored whole), `RowsPromiseNoMore` (no row in the former format promises more than its condition) | holds |
| `ReviewOverwritten` | `ReviewedResultKept` when an import finishes while a structure run waits for the AI | violated |
| `NeverAsked` | `EveryProductAsked`: what a batch left unasked, a later one asks | violated |
| `CacheBank` | `BankFound` with the caches on | violated |
| `LeaderOvertaken` | `FirstPlaceFinal` when a product has two options of one term, and the one that is worse now has more to gain | violated |
| `Ungrounded` | `ChecklistFromSource`: what is shown as a checklist is text of the disclosure | violated |

The five violated properties are sentences of a comment, a document or a test
that the code does not keep in every order of steps or for every answer;
`findings` in `PROJECT.json` quotes each and says which steps lead there. In
short: a structure run overwrites a hand-written result imported while it waited;
a batch that stops between the checklists and the AI leaves products that
`can_skip` hides from every later batch; products and banks expire apart, so a
product may name a bank that is not in the cached banks, and the request fails;
`from_rates` drops an option that is worse by the answers so far before
`next_answer` looks for questions, so one that would come out first may never be
asked about; and `verify` looks at checklist items only where the bonus status is
`CHECKLIST`, so an invented join condition passes with any other. In run
`Interview` the second option of a term is worse in every respect, and there
`FirstPlaceFinal` holds: the two runs together say when the recommendation is
final.

Other places where the code and a text about it part, met while modelling. The
models follow the code, and no run is about the sentence:

- `app/dao/saving.py:74`: `session.merge` reads the condition row before a transaction
  is open, and the flush updates only the columns that differ from what was read.
  Two batches that overlap there leave a row with columns of both. When one has its
  checklist in the row and writes an extraction of the same source, the update is
  about `conditions_json` and the reason alone. If the other, on an old listing,
  has reset the row in between, the result is a `PENDING` row beside new compatibility
  rows. If it has loaded another disclosure and written its checklist, the result is
  a row with the hash of the new disclosure, `EXTRACTED`, and the extraction of the
  old one; `can_skip` then accepts that row in every later batch. A reader verifies
  the quotations of such a row against the new disclosure and may refuse it, or not.
  Lines 60 and 61 of `docs/product-condition-collection.md` say that conditions and
  compatibility rows are replaced in one transaction and that a result whose source
  has changed is discarded; `test/service/saving/test_condition_structure_integration.py:328`
  and `:546` test the second where the change comes before the check. All
  properties of what the rows say are therefore of batches that run one at a
  time; of two, `ConditionsLogged` and `TallyAdds` hold.
- `app/service/saving/saving.py:60`: a load that commits between the check and the
  write leaves a record of the former source in the table, by the same lines of that
  document. If the row is not a mixture, a reader compares the hash again and sees
  nothing.
- `infra/cache/saving_products.py:30`: a load that began before a refresh stores the
  old table after `clear()`, so the refresh is not seen at once as
  `app/service/saving/saving_refresh.py:82` has it. `StaleAtMost` bounds how long.
- `condition_answer_vo.py:99`: a text that is the name of no bank counts as the
  answer that the user has no bank, and may meet a condition; line 111 of
  `docs/product-condition-collection.md` says that a mistaken answer never counts as
  met.
- A field no schema knows inside a bonus becomes a checklist item, which makes the
  status `CHECKLIST`, which has `verify` look for the item in the disclosure. The
  whole answer is then refused, though `external/llm/condition_response.py:28` keeps
  such fields for display only. The example of
  `test/model/test_condition_response.py` passes since it does not correct the
  status first, as the parser does.
- `external/llm/condition_response.py:66`: join conditions may be missing, as the
  comment says, but the field itself is required by the model they are read into.
- `app/dto/response/saving_comparison.py:26` says that amounts are zero unless the
  status is `ESTIMATED`; `MONTHLY_LIMIT_EXCEEDED` carries amounts. Line 43 of that
  file says a shortfall is zero without a goal to compare with; it is the whole
  goal where there is no estimate and `goal_reach` is `NO_GOAL`.
- A ranking turn reads the catalogue twice. Across a replacement between the two
  the lists of one response differ, which is why `ListsAgree` is about turns in which
  both reads saw one catalogue; no text promises more.
- Companies and products are fetched apart (`disclosure_sync.py:46`): a disclosure
  that changes between the two may bring a product without its bank until the next
  refresh, which is why `QuietFetchWhole` is about a disclosure that stands still.

### Bounds

- Two products and one batch slot are enough for what a batch does to a product
  while it is busy with another one; the next batch reuses the slot, so
  sequences of batches are unbounded. Two slots and one product are enough for
  races about a row: two transactions of different products never touch the same one.
- Three texts: `old`, `new` (another bonus text) and `blank` (the bonus text of
  `old`, no join member, never complete). One rate set, or none. Where a disclosure
  changes in two parts, a load that stops between its transactions leaves a source
  that was never published.
- `MaxPublishes` and `MaxAborts` bound the changes of the disclosure and the
  crashes: up to two, since each of the hazards needs one of each. No other
  counter grows without a bound; the tally is bounded by the products. `RefreshTwo`
  has no abort: a batch that stops for good is one whose steps come no more, which
  the interleavings contain.
- `TTL = 2`, `MaxLoad = 1`: a load that takes as long as the clock can tell, in
  a TTL that is longer. `MaxTime = 4` lets an entry be superseded, expire and be
  loaded again. Two refreshes let a version be superseded twice.
- `MCInterview`: three products of two banks, or one that is paid into by the week.
  Their conditions hold fields of every type but `customer_type`, a nested group, an
  `any` group, an empty group, a predicate on the term and one on the monthly
  deposit under a limit, and a question two products share. Each key has a reply
  that meets, one that does not and, where a user may send one, a skip or a reply
  that is not understood. One answer is changed and the catalogue is replaced once
  (`MaxRevisions`, `MaxRefreshes`): each puts the interview back at any earlier
  point, from where it goes on as from any other. Monthly deposits lie at zero,
  under and over the limit; the three goals lie between what the base rate and what
  the highest rate of an option come to. The runs do not check deadlock, since an
  interview is over when the ranking is shown.
- `MCWishTurn`: two sentences (one to say something, one to contradict it), one
  failure, one replacement of the catalogue, five readings and four rankings, each
  with another kind of mistake. Lists hold two rows, and there are three products
  of two terms, so both lists can be full. A conversation is over when it has its
  ranking, so deadlock is not checked.
- `MCIntake`: the first product is published in seven forms (with bonuses; without; with
  room for one in the rates only; without join member; without rates; with inverted
  rates; with a text that is too long for an item) and gets some four hundred
  answers, of which each part is wrong in each way the code looks for. The second
  shares the refresh. Pages hold one entry, and the disclosure changes once, between any
  two requests.
- Symmetry is used for products, batches and requests, in runs without liveness.

### Fairness

`FairSpec` of `RefreshBatch` has weak fairness of each batch's own steps: the event
loop schedules a coroutine that can run, the database and the disclosure answer or
fail, and an AI call answers or fails. The client is built with `timeout=None`, so
the last of these is an assumption about the AI provider and not something the code
enforces. It has strong fairness of `StartRefresh`: an administrator, or a
scheduled script, refreshes again and again. Structure runs and imports, changes
of the disclosure and aborts have no fairness; the latter two are bounded, so they
stop.

In `Interview`, every request gets its response (written `[]<>(response #
Requested)`, which is weak fairness of `NextStep`, the one step that is then
possible), and a user who is asked answers (weak fairness of `Answer`): without
the second no interview need end. Changed answers and refreshes are bounded.

In `WishTurn`, every turn comes to its response or its error (`[]<>(turn = NoTurn)`,
again weak fairness of the one step that the turn is at), and the user goes on
pressing buttons (weak fairness of `Press`), which after an error is to try again.
The user need not say another sentence. Failures, sentences and replacements of
the catalogue are bounded; a turn whose AI calls fail for ever would not end the
conversation.

## The proofs

Each theorem with a property in this table is a theorem of `Spec`, for all finite or
infinite sets of products, of batches, of workers and of requests, and for all
texts, answers, conditions and catalogues, from the assumptions that the modules
name. TLC evaluates each of them on the instances it runs.

| Assumption | Says | Why the code justifies it |
|---|---|---|
| `ConditionStore!NoneIsApart`, `SourceAssumption` | the value for "no row" is not data; a text without a join member is never complete | `None` is no row in Python either; `needs_review` misses a join condition then |
| `WorkerCache!CacheAssumption` | times are natural numbers, a TTL is not zero | `CACHE_TTL_SECONDS` and `time.monotonic` |
| `Intake!PagesAssumption` | a listing is two lists, its entries name known products, a rate is a number or missing | the pydantic models of a page refuse everything else |
| `Intake!AnswersAssumption` | the bonuses of an answer or of an entry are a list, and so are the conditions of each | so they are in the model it is read into |
| `Conditions!ConditionAssumption` | the parts of a group come before it, `match` is `all` or `any` | a JSON value is a finite tree |
| `Interview!InterviewAssumption`, `WishTurn!WishAssumption` | the three first questions have keys, "no question" is none; a numeric reply is a number; a catalogue holds products as the tables do (`IsCatalog`): usable conditions are in the table, their bonuses are not negative, and their keys are among those the client keeps | the columns and `ConditionBonusVO` (`percentage_point`, `gt=0`); the client sends any key it was asked for |
| `Comparison!ComparisonAssumption`, `DisclosureAssumption` | amounts to save for are positive, rates and limits are not negative | `MonthlyLimitVO` refuses a negative limit and `AnsweredAmountVO` takes no amount below one; no bank discloses a negative rate. The columns would hold one, so that part is an assumption about the disclosure |

The theorems of `RefreshTableProofs` have the premise `Alone` too: there is at most one
batch at a time, in which any sequence of batches runs, each of which may stop at
any step. That premise is what the code needs and does not enforce; the run
`ReviewOverwritten` shows one thing that fails without it, and the mixed rows
described above are others.

| Theorem | States | Inductive invariant |
|---|---|---|
| `RefreshBatchProofs!TypeCorrect` | `TypeOK`, and every local variable a step reads has been assigned | `TypeOK /\ Assigned /\ SeenRowStays`: typing alone is not inductive, because a step may dereference `listed[b][p]` only where the program counter says that it was listed, and a flush may update single columns only where the row `merge` has seen is still there |
| `RefreshBatchProofs!AttemptsLogged` | `ConditionsLogged` | with `DraftsLogged`: the draft of an AI answer has its attempt in the log from the moment it exists, whatever is aborted in between; and with `SeenRowStays`: a flush that makes the row of an earlier release current has seen that very row, and so writes its conditions anew |
| `RefreshBatchProofs!TallyAddsUp` | `TallyAdds` | `LoopsApart /\ TallyBalanced`: what was scanned is what was counted plus what still waits in one of the two loops, and no product waits in both |
| `RefreshTableProofs!BonusesFollow` | `BonusesFollowCondition` | `AloneInv`, the same for the next five: with `LocalsFresh`, what a lone batch has listed, checked or read is still so. In particular the row `merge` saw is the row the flush meets, so that what is written is the whole record (`MergedAlone`). From the invalidation on, the listing is the table; each product is still to be visited, readable or has its checklist; a draft that passed the check is about the present source |
| `RefreshTableProofs!AttemptsPrecedeResults` | `AttemptBeforeResult` | `ConditionsLogged`, and `OwnConditions` of `AloneInv`: the conditions of a row were made from the row's own source |
| `RefreshTableProofs!BonusTextFresh` | `NoStaleBonusText` | `AloneInv` |
| `RefreshTableProofs!SyncComplete` | `SyncLeavesNoStale` | `AloneInv` |
| `RefreshTableProofs!AskingKeepsReadable` | `ReadableWhileAsking` | `AloneInv` |
| `RefreshTableProofs!TableImplementedAlone` | `ImplementsTableAlone` | `AloneInv` and `ConditionsLogged`, which make each extraction that is shown a grounded one. A record is reset only where nothing was shown, and each write is about a product that shows nothing or a checklist, or is a hand-written one, so it adds to what is shown or leaves it as it is; every other step changes nothing a reader is shown |
| `IntakeProofs!IntakeTypes` | `TypeOK` | `IntakeInv`, the same for the next five: what was fetched are entries of a disclosure (`FetchInv`), a stored product has the options that have rates (`SavingInv`) and a record, and one called extracted was accepted for the source it names (`RecordInv`); rows in the former format are those of an extracted record about the present source (`RowsInv`), and only sources whose own checklist verifies wait for the AI (`QueueInv`). Without the last, `Ask` could store nothing in place of a refused answer |
| `IntakeProofs!StoredIsReadable` | `SavedReadable` | `IntakeInv` |
| `IntakeProofs!NoBonusLost` | `NothingLost` | `IntakeInv`, and what `Verified` and `NeedsReview` together leave: with a bonus in the text or in the rates, a bonus or a checklist item is there whatever status the AI gave |
| `IntakeProofs!JudgedIsQuoted` | `JudgedFromSource` | `IntakeInv`, and a sum over the bonuses that are kept |
| `IntakeProofs!AbortsAreRefused` | `AbortsOnlyRefused` | `IntakeInv`; a checklist made of texts that fit is valid, and one fails the verification only by the bonus total, against the largest gap, which is one of its options' |
| `IntakeProofs!RowsKeepTheirWord` | `RowsPromiseNoMore` | `IntakeInv`; a bonus is translated only if it has one predicate in all |
| `IntakeProofs!QuietFetchesAreWhole` | `QuietFetchWhole` | `QuietInv`: while the service stands still, what was received is how its list begins |
| `InterviewProofs!InterviewTyped`, `AskedOnce` | `TypeOK`, `NeverAskedTwice` | `InterviewInv`: with the answers a function on the keys. `DecideSteps` says what one request comes to |
| `InterviewProofs!BoundsAlwaysNarrow`, `AlwaysJudgesExactly` | `BoundsNarrow`, `JudgesExactly` | `InterviewInv`; they hold of all answers, by `ConditionStaysDecided`, `RatesNarrow` and `ConditionJudgesExactly` |
| `InterviewProofs!AlwaysComparedAsRanked` | `ComparedAsRanked` | `InterviewInv`; for a product paid into by the day or week, a budget only adds to what the comparison judges by, so `RatesNarrow` applies again |
| `InterviewProofs!EstimateAlwaysWithinProduct`, `EstimateAlwaysHolds` | `EstimateWithinProduct`, `EstimateHolds` | `InterviewInv`; interest grows with the rate, month by month, and the applied rate lies between the base rate and the highest |
| `WishTurnProofs!WishesKept` | `WishKept` | `TurnKnowsWish`: from the commit of a sentence to the response, the row a turn names is in the table with what the turn read |
| `WishTurnProofs!WishTyped`, `AlwaysAskedIsOpen` | `TypeOK`, `AskedIsOpen` | `TalkInv`: at each step of a turn, the question decided on is open in `Merge(answers, reading)`. That the client's own merge (`Adopt`) then comes to the same answers is `AdoptMerges`, which is why the client may keep apart what server and AI say |
| `WishTurnProofs!RankedOnce` | `EveryCandidateRankedOnce`, an action property | `TalkInv`: the candidates of a turn are rows that fall in rate; `ReorderFacts`: the two loops of `_merge` place each of them, by its index, exactly once, and those of the second loop in the order they had |
| `WishTurnProofs!RankingsAlwaysAgree` | `ListsAgree`, an action property | `TalkInv` with `AgreeInv`: at `rank`, if the catalogue is still that of the decision, the rows of the step and the candidates are the first rows of two rankings over the same offers. `RankingsMatch` (from `RankingRanks`) says that both give a product and term that is certain to be open the same row, `TopsAgree` what is left after each list is cut |
| `WorkerCacheProofs!CacheTypeCorrect` | `TypeOK`, and products are never ahead of banks | `TypeOK /\ BanksFirstSaved`, which keeps the versions within their bound |
| `WorkerCacheProofs!StalenessBounded` | `StaleAtMost` | `EntriesRecent /\ LoadsRecent`: what a cache holds, and what a load in flight carries, was the committed version when it was read, at most `MaxLoad` before its time stamp |
| `WorkerCacheProofs!BankFoundDirect` | `BankFoundUncached` | `BanksKeepUp`: where the caches are off, at each step of a request the products it has read are no newer than the banks it can still read |

`QuestionFlowProofs` is about the rules themselves, with no state: for every table of
conditions, every catalogue and all answers.

| Theorem | Says |
|---|---|
| `GroupStaysDecided`, `GroupJudgesExactly` | a decided group keeps its result when more of its parts are decided; its result is exactly what follows from what is known of independent parts |
| `ConditionStaysDecided`, `ConditionJudgesExactly` | the same of a whole tree of groups and the answers its predicates read |
| `RatesNarrow` | with more answers `rate` does not fall, `possible_rate` does not rise, and the first does not exceed the second |
| `RankingRanks` | the deduplication and the stable sort of `SavingRankingVO.from_rates` keep of each product and term one option with the best rate, in falling order |
| `DecideSteps` | a request comes to a question without a reply, to the question for a term that is not offered any more, to rows, or to the error |

How induction over data is done. The induction theorems of the library take an
operator as a parameter, which the provers cannot instantiate. `ListFacts` derives
from `WFMin` and the finite-set theorems what can be stated of a set or a function
instead: a set of numbers that contains each number whose predecessors it contains
is everything up to `n` (`CountUp`, `CountAll`); a function defined from its earlier
values exists (`RecursionExists`); a fold is such a function (`FoldExists`,
`FoldSteps`). From these follow what `FoldLeftDomain`, `FlattenSeq`, `SumFunction`,
`Max`, `Selected` and `InOrder` return, which the theorems cite. `Evaluate` and
`ToAsk` are recursive functions on the table of conditions, so the proofs follow the
table upwards.

Only model-checked:

- `FirstPlaceFinal`, which is not true of every catalogue (`LeaderOvertaken` is the
  counterexample), only of those in which no option of a term is worse now and
  better later; that premise is about rates under answers not yet given, and the run
  `Interview` has it by its constants.
- `EventuallyCurrent`, `InterviewEnds` and `ConversationEnds`, which are liveness
  under fairness and need `ENABLED`, out of the prover's reach.
- The five violated properties.

## Plan

1. *Done:* the store and its batches, the caches, their invariants proved; the
   abstract condition table and its refinement by batches that run one at a time.
2. *Done:* `Conditions`, `QuestionFlow`, `Interview`, `Comparison`, `WishTurn`, and the
   theorems about them.
3. *Done:* `Extraction` and `Intake`, with the pages of the disclosure, and every
   invariant of theirs proved.
4. Left: a composition of `WorkerCache` with `Interview`, in which the catalogue of
   the next request comes from another worker; the premise under which
   `FirstPlaceFinal` holds, as a theorem about `Ranking`.

## Not modelled

HTTP controllers, DTOs, dependency wiring, logging and the exception handlers
translate between representations and keep no state. The LLM client is I/O: a
call answers or fails. The backup copies a file. The schema initializer runs once
under a write lock. The question table is filled with constants by an
insert-if-missing, and an interview reads only titles from it. The administrator's
LLM test stores nothing. The homepage, export and crawl scripts write nothing that
a condition depends on. Authentication is a header comparison.

To check: `tlc -config RefreshOne.cfg MCRefreshBatch`, likewise for the other
runs; `tlapm RefreshBatchProofs.tla`, and likewise for the other proof modules.
