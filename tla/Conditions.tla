------------------------------ MODULE Conditions ------------------------------
(***************************************************************************)
(* Join and bonus conditions, judged from the answers of a user            *)
(* (ConditionGroupVO, ConditionPredicateVO, ConditionAnswerVO).  A         *)
(* condition is ELIGIBLE, NOT_ELIGIBLE or, as long as an answer is         *)
(* missing, skipped or not understood, UNKNOWN.                            *)
(*                                                                         *)
(* The conditions of all products are the entries of one table, in which   *)
(* the parts of a group come before the group.                             *)
(***************************************************************************)
EXTENDS Lists

CONSTANTS
    Condition,  \* the table: a sequence of predicates and groups
    Keys,       \* answer keys that occur
    Unlimited   \* the monthly limit of a product that has none

NumberFields == {"age", "monthly_deposit", "saving_term", "principal",
                 "card_spend_at_product_bank", "performance_months"}
BankFields == {"salary_bank", "existing_bank", "card_bank", "payment_account_bank"}
BooleanFields == {"autopay", "mobile", "marketing", "other"}

MaxConditionAge == 120

\* What a user sends for a key.  A word is any text that is neither a number
\* of at most 18 digits nor a list of banks; a list may be empty ("no_bank").
Unanswered == [kind |-> "unanswered"]
Skipped == [kind |-> "skipped"]
Number(n) == [kind |-> "number", number |-> n]
Word(w) == [kind |-> "word", word |-> w]
BankList(banks) == [kind |-> "banks", banks |-> banks]

Group(match, conditions) == [match |-> match, conditions |-> conditions]
IsGroup(c) == "match" \in DOMAIN Condition[c]

ASSUME ConditionAssumption ==
    /\ Len(Condition) \in Nat /\ DOMAIN Condition = 1..Len(Condition)
    /\ \A c \in DOMAIN Condition :
          IsGroup(c) => /\ Condition[c].match \in {"all", "any"}
                        /\ Condition[c].conditions \in Seq(1..(c - 1))

-----------------------------------------------------------------------------
(* ConditionAnswerVO *)

\* The key of an other condition is the one the AI gave it.
Key(p, context) ==
    CASE p.field = "other" -> p.question
      [] p.field = "card_spend_at_product_bank" -> <<p.field, context.bank>>
      [] p.field = "monthly_deposit" -> <<"monthly">>
      [] p.field = "saving_term" -> <<"months">>
      [] OTHER -> <<p.field>>

\* The term is that of the rate option and not an answer.
Reply(p, answers, context) ==
    IF p.field = "saving_term" THEN Number(context.term) ELSE answers[Key(p, context)]

\* Any text is a list of banks, of which the product's is one or is not.
Understood(p, reply) ==
    \/ /\ p.field \in NumberFields
       /\ reply.kind = "number"
       /\ p.field = "age" => reply.number <= MaxConditionAge
    \/ p.field = "customer_type" /\ reply \in {Word("individual"), Word("business")}
    \/ p.field \in BankFields /\ reply.kind \notin {"unanswered", "skipped"}
    \/ p.field \in BooleanFields /\ reply \in {Word("yes"), Word("no")}

\* What a user pays a month into a product with a limit.
Planned(budget, limit) ==
    IF limit = Unlimited THEN budget ELSE IF budget <= limit THEN budget ELSE limit

NumberOf(p, reply, context) ==
    IF p.field = "monthly_deposit" THEN Planned(reply.number, context.limit) ELSE reply.number

Compare(operator, n, values) ==
    CASE operator = "eq" -> n = values[1]
      [] operator = "ne" -> n # values[1]
      [] operator = "gte" -> n >= values[1]
      [] operator = "lte" -> n <= values[1]
      [] operator = "between" -> values[1] <= n /\ n <= values[2]

\* The value of a bank condition is PRODUCT_BANK, that of a boolean yes or no.
Equal(p, reply, context) ==
    IF p.field \in BankFields
      THEN reply.kind = "banks" /\ context.bank \in reply.banks
      ELSE reply = Word(p.values[1])

Meets(p, reply, context) ==
    IF p.field \in NumberFields
      THEN Compare(p.operator, NumberOf(p, reply, context), p.values)
      ELSE (p.operator = "ne") # Equal(p, reply, context)

-----------------------------------------------------------------------------
(* ConditionPredicateVO and ConditionGroupVO *)

PredicateResult(p, answers, context) ==
    LET reply == Reply(p, answers, context)
    IN  IF ~Understood(p, reply) THEN "UNKNOWN"
        ELSE IF Meets(p, reply, context) THEN "ELIGIBLE"
        ELSE "NOT_ELIGIBLE"

\* A mutant of GroupResult: an any group with an open part stays open.
GroupResultOpenFirst(match, results) ==
    CASE match = "all" /\ "NOT_ELIGIBLE" \in results -> "NOT_ELIGIBLE"
      [] match = "any" /\ "ELIGIBLE" \in results /\ "UNKNOWN" \notin results -> "ELIGIBLE"
      [] OTHER -> IF "UNKNOWN" \in results THEN "UNKNOWN"
                  ELSE IF match = "all" THEN "ELIGIBLE" ELSE "NOT_ELIGIBLE"

\* A mutant of GroupResult: open parts of an all group do not count.
GroupResultOpenMet(match, results) ==
    CASE match = "all" -> IF "NOT_ELIGIBLE" \in results THEN "NOT_ELIGIBLE" ELSE "ELIGIBLE"
      [] match = "any" -> IF "ELIGIBLE" \in results THEN "ELIGIBLE"
                          ELSE IF "UNKNOWN" \in results THEN "UNKNOWN" ELSE "NOT_ELIGIBLE"

\* An empty all group is met, an empty any group is not.
GroupResult(match, results) ==
    LET decisive == IF match = "all" THEN "NOT_ELIGIBLE" ELSE "ELIGIBLE"
        otherwise == IF match = "all" THEN "ELIGIBLE" ELSE "NOT_ELIGIBLE"
    IN  IF decisive \in results THEN decisive
        ELSE IF "UNKNOWN" \in results THEN "UNKNOWN"
        ELSE otherwise

Evaluate(condition, answers, context) ==
    LET result[c \in DOMAIN Condition] ==
            IF IsGroup(c)
              THEN GroupResult(Condition[c].match, {result[d] : d \in ToSet(Condition[c].conditions)})
              ELSE PredicateResult(Condition[c], answers, context)
    IN  result[condition]

\* A mutant of PredicateToAsk: an answer that was not understood is asked for again.
AskAgain(p, answers, context) ==
    IF PredicateResult(p, answers, context) = "UNKNOWN" THEN <<Key(p, context)>> ELSE <<>>

\* A skipped or misunderstood answer leaves a predicate unknown for good.
PredicateToAsk(p, answers, context) ==
    IF /\ PredicateResult(p, answers, context) = "UNKNOWN"
       /\ answers[Key(p, context)] = Unanswered
      THEN <<Key(p, context)>>
      ELSE <<>>

\* unanswered(): the keys to ask for, in the order of the conditions.
ToAsk(condition, answers, context) ==
    LET keys[c \in DOMAIN Condition] ==
            IF ~IsGroup(c) THEN PredicateToAsk(Condition[c], answers, context)
            ELSE IF Evaluate(c, answers, context) # "UNKNOWN" THEN <<>>
            ELSE FlattenSeq([i \in DOMAIN Condition[c].conditions |-> keys[Condition[c].conditions[i]]])
    IN  keys[condition]

-----------------------------------------------------------------------------
(* A reference: conditions as propositions *)

\* facts: the predicates, among those no answer decides, that are really met.
Met(condition, facts, answers, context) ==
    LET met[c \in DOMAIN Condition] ==
            IF ~IsGroup(c)
              THEN CASE PredicateResult(Condition[c], answers, context) = "ELIGIBLE" -> TRUE
                     [] PredicateResult(Condition[c], answers, context) = "NOT_ELIGIBLE" -> FALSE
                     [] OTHER -> c \in facts
            ELSE IF Condition[c].match = "all"
              THEN \A i \in DOMAIN Condition[c].conditions : met[Condition[c].conditions[i]]
              ELSE \E i \in DOMAIN Condition[c].conditions : met[Condition[c].conditions[i]]
    IN  met[condition]

\* The predicates of a condition that no answer decides.
Undecided(condition, answers, context) ==
    LET open[c \in DOMAIN Condition] ==
            IF IsGroup(c)
              THEN UNION {open[d] : d \in ToSet(Condition[c].conditions)}
              ELSE {d \in {c} : PredicateResult(Condition[c], answers, context) = "UNKNOWN"}
    IN  open[condition]

\* What the facts that no answer decides leave possible.
Judgement(condition, answers, context) ==
    LET possible == {Met(condition, facts, answers, context) :
                        facts \in SUBSET Undecided(condition, answers, context)}
    IN  CASE possible = {TRUE} -> "ELIGIBLE"
          [] possible = {FALSE} -> "NOT_ELIGIBLE"
          [] OTHER -> "UNKNOWN"
=============================================================================
