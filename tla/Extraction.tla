------------------------------ MODULE Extraction ------------------------------
(***************************************************************************)
(* What the service accepts from the AI about one product: the answer is   *)
(* normalised (condition_response), validated (ConditionPredicateVO), its  *)
(* status is corrected by the disclosure and all of it is verified against *)
(* the disclosure (ExtractedConditionsVO).                                 *)
(*                                                                         *)
(* A text is the set of its sentences, so that a quotation is a non-empty  *)
(* subset of it.  Rates and percentage points are integers, in hundredths  *)
(* of a percent.                                                           *)
(***************************************************************************)
EXTENDS FiniteSets, Lists

CONSTANTS
    NoBonusWords,  \* the sentence of a disclosure that has no bonus
    StrayText,     \* the content of a field of the answer no schema knows
    OverLong,      \* texts longer than a quotation or an item may be
    Rejected       \* the answer fails to parse, to validate or to verify

NumberFields == {"age", "monthly_deposit", "saving_term", "principal",
                 "card_spend_at_product_bank", "performance_months"}
BankFields == {"salary_bank", "existing_bank", "card_bank", "payment_account_bank"}
BooleanFields == {"autopay", "mobile", "marketing", "other"}
Fields == NumberFields \cup BankFields \cup BooleanFields \cup {"customer_type"}

Statuses == {"NO_BONUS", "AVAILABLE", "CHECKLIST", "UNKNOWN"}
SourceFields == {"join_member", "spcl_cnd", "etc_note"}

MaxConditionAge == 120
MaxPoints == 1000

\* A JSON value.  A numeral is a text that spells an integer, a truth one that
\* spells a Boolean.
Value(type, value) == [type |-> type, value |-> value]
\* What an answer quotes: sentences of one of the three texts of the source.
Quote(field, text) == [field |-> field, text |-> text]
Group(match, conditions) == [match |-> match, conditions |-> conditions]
IsGroup(c) == "match" \in DOMAIN c
NoConditions == Group("all", <<>>)

ValueType(field) ==
    CASE field \in NumberFields -> "int"
      [] field \in BooleanFields -> "bool"
      [] OTHER -> "text"

TextOf(source, field) ==
    CASE field = "join_member" -> source.join_member
      [] field = "spcl_cnd" -> source.spcl_cnd
      [] field = "etc_note" -> source.etc_note

\* The texts of declares_no_bonus, and the empty one.
DeclaresNoBonus(text) == text \in {{}, {NoBonusWords}}

-----------------------------------------------------------------------------
(* condition_response: the answer is normalised *)

RestoredValue(field, v) ==
    CASE ValueType(field) = "int" /\ v.type = "numeral" -> Value("int", v.value)
      [] ValueType(field) = "bool" /\ v.type = "truth" -> Value("bool", v.value)
      [] OTHER -> v

RestoredPredicate(p) ==
    [p EXCEPT !.values = [i \in DOMAIN p.values |-> RestoredValue(p.field, p.values[i])]]

RestoredGroup(g) ==
    Group(g.match, [i \in DOMAIN g.conditions |->
        LET c == g.conditions[i]
        IN  IF IsGroup(c) THEN Group(c.match, [j \in DOMAIN c.conditions |-> RestoredPredicate(c.conditions[j])])
            ELSE RestoredPredicate(c)])

\* predicates(): nested groups are one deep here.
Predicates(g) ==
    UNION {IF IsGroup(c) THEN ToSet(c.conditions) ELSE {c} : c \in ToSet(g.conditions)}

HasEmptyPart(g) == \E c \in ToSet(g.conditions) : IsGroup(c) /\ c.conditions = <<>>

\* A predicate of a field the schema does not know and an empty nested group
\* or bonus condition cannot be dropped without changing what is judged.
Normalisable(raw) ==
    /\ \A g \in {raw.eligibility} \cup {b.condition : b \in ToSet(raw.bonuses)} :
          ~HasEmptyPart(g) /\ \A p \in Predicates(g) : p.field \in Fields
    /\ \A b \in ToSet(raw.bonuses) : b.condition.conditions # <<>>

\* Fields no schema knows are moved to the checklist their path belongs to.
Collected(raw, path) == IF path \in raw.stray THEN {{StrayText}} ELSE {}

Normalised(raw) ==
    [eligibility |-> RestoredGroup(raw.eligibility),
     bonuses |-> [i \in DOMAIN raw.bonuses |->
                    [points |-> raw.bonuses[i].points,
                     condition |-> RestoredGroup(raw.bonuses[i].condition)]],
     unresolved |-> raw.unresolved,
     status |-> raw.status,
     other |-> Collected(raw, "response"),
     other_eligibility |-> raw.other_eligibility \cup Collected(raw, "eligibility"),
     other_bonus |-> raw.other_bonus \cup Collected(raw, "bonuses")]

-----------------------------------------------------------------------------
(* ConditionPredicateVO and ConditionBonusVO: the answer is validated *)

ValidValue(field, v) ==
    /\ v.type = ValueType(field)
    /\ v.type = "int" => v.value >= 0 /\ (field = "age" => v.value <= MaxConditionAge)
    /\ field \in BankFields => v.value = "PRODUCT_BANK"
    /\ field = "customer_type" => v.value \in {"individual", "business"}

\* The max_length of ConditionEvidenceVO.source_text and OtherConditionVO.value.
Fits(text) == text \notin OverLong

ValidPredicate(p) ==
    /\ Len(p.values) = (IF p.operator = "between" THEN 2 ELSE 1)
    /\ p.field \notin NumberFields => p.operator \in {"eq", "ne"}
    /\ (p.field = "other") = p.asks
    /\ p.quote.field \in SourceFields /\ Fits(p.quote.text)
    /\ \A v \in ToSet(p.values) : ValidValue(p.field, v)
    /\ p.operator = "between" => p.values[1].value <= p.values[2].value

Validated(x) ==
    /\ x.status \in Statuses
    /\ \A quote \in x.unresolved : quote.field \in SourceFields /\ Fits(quote.text)
    /\ \A item \in x.other \cup x.other_eligibility \cup x.other_bonus : Fits(item)
    /\ \A p \in Predicates(x.eligibility) : ValidPredicate(p)
    /\ \A b \in ToSet(x.bonuses) :
          /\ b.points \in 1..MaxPoints
          /\ \A p \in Predicates(b.condition) : ValidPredicate(p)

-----------------------------------------------------------------------------
(* ExtractedConditionsVO: the answer is verified against the disclosure *)

TotalPoints(x) == SumFunction([i \in DOMAIN x.bonuses |-> x.bonuses[i].points])

NothingExtracted(x) == x.bonuses = <<>> /\ x.unresolved = {} /\ x.other_bonus = {}

StatusFromSource(x, source) ==
    IF NothingExtracted(x) /\ source.gap = 0 /\ DeclaresNoBonus(source.spcl_cnd) THEN "NO_BONUS"
    ELSE IF x.other_bonus # {} /\ x.unresolved = {} THEN "CHECKLIST"
    ELSE IF x.status = "AVAILABLE" /\ x.unresolved # {} THEN "UNKNOWN"
    ELSE x.status

StatusVerified(x, source) ==
    CASE x.status = "NO_BONUS" ->
            NothingExtracted(x) /\ source.gap <= 0 /\ DeclaresNoBonus(source.spcl_cnd)
      [] x.status = "AVAILABLE" -> x.bonuses # <<>> /\ x.unresolved = {}
      [] x.status = "CHECKLIST" -> x.other_bonus # {}
      [] OTHER -> TRUE

\* An item is copied from one of two texts.
ItemFrom(item, text, note) == item # {} /\ (item \subseteq text \/ item \subseteq note)

ChecklistsVerified(x, source) ==
    /\ \A item \in x.other_eligibility : ItemFrom(item, source.join_member, source.etc_note)
    /\ \A item \in x.other_bonus : ItemFrom(item, source.spcl_cnd, source.etc_note)

\* A mutant of Quoted: an empty quotation is in every text.
QuotedOrEmpty(quote, source) == quote.text \subseteq TextOf(source, quote.field)

Quoted(quote, source) == quote.text # {} /\ quote.text \subseteq TextOf(source, quote.field)

EvidenceVerified(x, source) ==
    /\ x.eligibility # Group("any", <<>>)
    /\ \A b \in ToSet(x.bonuses) : b.condition.conditions # <<>>
    /\ \A g \in {x.eligibility} \cup {b.condition : b \in ToSet(x.bonuses)} : ~HasEmptyPart(g)
    /\ \A p \in Predicates(x.eligibility) : Quoted(p.quote, source)
    /\ \A b \in ToSet(x.bonuses) : \A p \in Predicates(b.condition) : Quoted(p.quote, source)
    /\ \A quote \in x.unresolved : Quoted(quote, source)

\* verify(): the checklists are only looked at when they are the bonus answer.
Verified(x, source) ==
    /\ StatusVerified(x, source)
    /\ x.status = "CHECKLIST" => ChecklistsVerified(x, source)
    /\ EvidenceVerified(x, source)
    /\ TotalPoints(x) <= source.gap

MissesJoinCondition(x, source) ==
    /\ ~source.anyone
    /\ x.eligibility.conditions = <<>>
    /\ source.join_member \notin x.other_eligibility

MissesBonusCondition(x, source) ==
    /\ x.status = "UNKNOWN"
    /\ x.bonuses = <<>>
    /\ source.spcl_cnd # {} \/ source.gap > 0

\* A mutant of NeedsReview: an answer without bonus is complete.
NeedsReviewJoinOnly(x, source) ==
    x.unresolved # {} \/ MissesJoinCondition(x, source) \/ source.join_member = {}

NeedsReview(x, source) ==
    \/ x.unresolved # {}
    \/ MissesJoinCondition(x, source)
    \/ MissesBonusCondition(x, source)
    \/ source.join_member = {}

\* ConditionLlmParser.parse of an answer: the verified conditions.
Parsed(raw, source) ==
    LET received == Normalised(raw)
        extracted == [received EXCEPT !.status = StatusFromSource(received, source)]
    IN  IF Normalisable(raw) /\ Validated(received) /\ Verified(extracted, source)
          THEN extracted ELSE Rejected

\* A mutant of FromSourceChecklist: a source that declares no bonus has none.
ChecklistTrusting(source) ==
    [eligibility |-> NoConditions, bonuses |-> <<>>, unresolved |-> {}, other |-> {},
     other_eligibility |-> {source.join_member, source.etc_note} \ {{}},
     other_bonus |-> IF DeclaresNoBonus(source.spcl_cnd) THEN {} ELSE {source.spcl_cnd},
     status |-> IF DeclaresNoBonus(source.spcl_cnd) THEN "NO_BONUS" ELSE "CHECKLIST"]

\* The texts of the disclosure as they are.  The constructor of an item raises
\* for one that does not fit: the checklist is not Validated.
FromSourceChecklist(source) ==
    [eligibility |-> NoConditions, bonuses |-> <<>>, unresolved |-> {}, other |-> {},
     other_eligibility |-> {source.join_member, source.etc_note} \ {{}},
     other_bonus |-> IF DeclaresNoBonus(source.spcl_cnd) THEN {} ELSE {source.spcl_cnd},
     status |-> IF ~DeclaresNoBonus(source.spcl_cnd) THEN "CHECKLIST"
                ELSE IF source.gap = 0 THEN "NO_BONUS" ELSE "UNKNOWN"]

-----------------------------------------------------------------------------
(* SavingBonus: the rows in the former format *)

\* _judge_kind: the fields of each way to judge, and what they are compared with.
Translatable(p) ==
    \/ p.operator = "gte" /\ p.field \in {"age", "monthly_deposit", "principal", "performance_months"}
    \/ /\ p.operator = "eq"
       /\ \/ p.field \in {"salary_bank", "card_bank", "payment_account_bank"}
          \/ p.field \in {"autopay", "mobile", "marketing"} /\ p.values[1].value = TRUE

SinglePredicate(g) == Len(g.conditions) = 1 /\ ~IsGroup(g.conditions[1])

\* A mutant of FromConditions: the first part of a condition stands for it.
FromFirstPredicates(x) ==
    LET kept == Selected(x.bonuses, {i \in DOMAIN x.bonuses :
                    LET first == x.bonuses[i].condition.conditions[1]
                    IN  ~IsGroup(first) /\ Translatable(first)})
    IN  [i \in DOMAIN kept |-> [condition |-> kept[i].condition.conditions[1], points |-> kept[i].points]]

\* from_conditions: the seed questions have one for every way to judge.
FromConditions(x) ==
    LET kept == Selected(x.bonuses, {i \in DOMAIN x.bonuses :
                    LET condition == x.bonuses[i].condition
                    IN  SinglePredicate(condition) /\ Translatable(condition.conditions[1])})
    IN  [i \in DOMAIN kept |-> [condition |-> kept[i].condition.conditions[1], points |-> kept[i].points]]
=============================================================================
