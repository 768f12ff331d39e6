----------------------------- MODULE QuestionFlow -----------------------------
(***************************************************************************)
(* How the next question or the ranking follows from the catalogue and the *)
(* answers given (QuestionFlowService, StartingQuestions,                  *)
(* CandidateCollector, SavingRate, RankingStep, SavingRankingVO).          *)
(*                                                                         *)
(* A catalogue is a sequence of products.  Rates and percentage points are *)
(* integers, in hundredths of a percent.                                   *)
(***************************************************************************)
EXTENDS Conditions

CONSTANTS
    ResultSize,   \* _RESULT_SIZE
    NoKey         \* no question to ask

Months == <<"months">>
Monthly == <<"monthly">>
GoalAmount == <<"goal_amount">>

Unavailable == [status |-> "unavailable"]
\* The question for the term offers the terms of the catalogue.
Question(key, terms) == [status |-> "question", key |-> key, terms |-> terms]
Result(rows) == [status |-> "done", rows |-> rows]

\* A product with usable conditions has an eligibility condition and bonuses;
\* without (PENDING, FAILED or NEEDS_REVIEW) it is excluded.
IsUsable(product) == product.usable

\* What from_rates keeps of a candidate: one row a product and term.
Row == [product : Nat, term : Nat, rate : Int]

-----------------------------------------------------------------------------
(* StartingQuestions *)

Terms(products) ==
    UNION {{o.term : o \in ToSet(products[i].options)} : i \in DOMAIN products}

\* No answer, or a term nobody offers (any more).
NoTerms == {}

SelectedTerms(products, given) ==
    CASE given[Months] = Skipped -> Terms(products)
      [] given[Months].kind = "number" -> Terms(products) \cap {given[Months].number}
      [] OTHER -> NoTerms

\* A catalogue without products leaves no term to choose from, but a user to
\* whom every term is equal is not asked again.
TermsMissing(products, given) ==
    given[Months] # Skipped /\ SelectedTerms(products, given) = NoTerms

OpeningQuestion(products, given) ==
    IF TermsMissing(products, given) THEN Months
    ELSE IF given[Monthly] = Unanswered THEN Monthly
    ELSE IF given[GoalAmount] = Unanswered THEN GoalAmount
    ELSE NoKey

-----------------------------------------------------------------------------
(* CandidateCollector and SavingRate *)

Context(product, option) ==
    [bank |-> product.bank, term |-> option.term, limit |-> product.limit]

\* The answers that conditions ask for are among those that are kept.
WellKeyed(context) ==
    \A c \in DOMAIN Condition : ~IsGroup(c) => Key(Condition[c], context) \in Keys

\* What the tables hold of a product: terms and rates are numbers, and usable
\* conditions are in the table and pay no negative bonus (ConditionBonusVO).
IsProduct(product) ==
    /\ IsList(product.options)
    /\ \A o \in ToSet(product.options) : o.term \in Nat /\ o.base \in Int /\ o.max \in Int
    /\ IsUsable(product) =>
          /\ product.eligibility \in DOMAIN Condition
          /\ product.bonuses \in Seq([points : Nat, condition : DOMAIN Condition])
          /\ \A o \in ToSet(product.options) : WellKeyed(Context(product, o))

IsCatalog(products) == IsList(products) /\ \A product \in ToSet(products) : IsProduct(product)

OptionsInTerms(product, terms) ==
    Selected(product.options, {n \in DOMAIN product.options : product.options[n].term \in terms})

\* The options of usable products in the selected terms, product by product.
Checked(products, terms) ==
    LET Offers(i) ==
            LET chosen == IF IsUsable(products[i]) THEN OptionsInTerms(products[i], terms) ELSE <<>>
            IN  [n \in DOMAIN chosen |-> [product |-> i, option |-> chosen[n]]]
    IN  FlattenSeq([i \in DOMAIN products |-> Offers(i)])

Eligibility(products, offer, given) ==
    LET product == products[offer.product]
    IN  Evaluate(product.eligibility, given, Context(product, offer.option))

EligibilityToAsk(products, offer, given) ==
    LET product == products[offer.product]
    IN  ToAsk(product.eligibility, given, Context(product, offer.option))

\* The first offer whose eligibility an answer could settle ends the collection.
EligibilityQuestion(products, offers, given) ==
    LET asking == SelectInSeq(offers, LAMBDA f : EligibilityToAsk(products, f, given) # <<>>)
    IN  IF asking = 0 THEN NoKey ELSE Head(EligibilityToAsk(products, offers[asking], given))

Lower(a, b) == IF a <= b THEN a ELSE b

BonusResult(n, products, offer, given) ==
    LET product == products[offer.product]
    IN  Evaluate(product.bonuses[n].condition, given, Context(product, offer.option))

\* The points that the bonuses of an offer with a given result add up to.
Points(result, products, offer, given) ==
    LET bonuses == products[offer.product].bonuses
    IN  SumFunction([n \in DOMAIN bonuses |->
            IF BonusResult(n, products, offer, given) = result THEN bonuses[n].points ELSE 0])

Rate(products, offer, given) ==
    Lower(offer.option.base + Points("ELIGIBLE", products, offer, given), offer.option.max)

\* A mutant of PossibleRate: the first of the open bonuses only.
PossibleRateOfFirst(products, offer, given) ==
    LET bonuses == products[offer.product].bonuses
        open == {n \in DOMAIN bonuses : BonusResult(n, products, offer, given) = "UNKNOWN"}
    IN  Lower(Rate(products, offer, given) + (IF open = {} THEN 0 ELSE bonuses[Min(open)].points),
              offer.option.max)

PossibleRate(products, offer, given) ==
    Lower(Rate(products, offer, given) + Points("UNKNOWN", products, offer, given),
          offer.option.max)

\* first_unanswered(): the first key any open bonus has to ask for.
BonusQuestion(products, offer, given) ==
    LET product == products[offer.product]
        keys == FlattenSeq([n \in DOMAIN product.bonuses |->
                    ToAsk(product.bonuses[n].condition, given, Context(product, offer.option))])
    IN  IF keys = <<>> THEN NoKey ELSE Head(keys)

\* Offers are kept while their eligibility is certain.
Candidates(products, offers, given) ==
    Selected(offers, {n \in DOMAIN offers : Eligibility(products, offers[n], given) = "ELIGIBLE"})

-----------------------------------------------------------------------------
(* SavingRankingVO and RankingStep *)

SameSaving(f, g) == f.product = g.product /\ f.option.term = g.option.term

\* Of the candidates of one product and term the first with the highest rate
\* is kept, in the place of the first; sorted() keeps the order of equals.
Ranking(products, candidates, given) ==
    LET rate == [n \in DOMAIN candidates |-> Rate(products, candidates[n], given)]
        place == [n \in DOMAIN candidates |->
                    SelectInSeq(candidates, LAMBDA f : SameSaving(f, candidates[n]))]
        kept == {n \in DOMAIN candidates :
                    \A m \in DOMAIN candidates : place[m] = place[n] =>
                        rate[m] < rate[n] \/ (rate[m] = rate[n] /\ n <= m)}
        before == {two \in kept \X kept :
                    \/ rate[two[1]] > rate[two[2]]
                    \/ rate[two[1]] = rate[two[2]] /\ place[two[1]] < place[two[2]]}
        order == InOrder(kept, before)
    IN  [k \in DOMAIN order |-> candidates[order[k]]]

\* next_answer(): the question of the candidate that could overtake the leader
\* by most, the leader itself included.
RankingQuestion(products, ranking, given) ==
    LET gain == [k \in DOMAIN ranking |->
                    PossibleRate(products, ranking[k], given) - Rate(products, ranking[1], given)]
        open == {k \in DOMAIN ranking :
                    gain[k] > 0 /\ BonusQuestion(products, ranking[k], given) # NoKey}
        best == {k \in open : \A j \in open : gain[j] <= gain[k]}
    IN  IF open = {} THEN NoKey ELSE BonusQuestion(products, ranking[Min(best)], given)

RankedRow(products, offer, given) ==
    [product |-> offer.product, term |-> offer.option.term, rate |-> Rate(products, offer, given)]

Rows(products, ranking, given) ==
    [k \in 1..Lower(Len(ranking), ResultSize) |-> RankedRow(products, ranking[k], given)]

-----------------------------------------------------------------------------
(* QuestionFlowService *)

\* A mutant of Decide: the first candidate is asked about, question or not.
DecideUnasked(products, given) ==
    LET opening == OpeningQuestion(products, given)
        offers == Checked(products, SelectedTerms(products, given))
        eligibility == EligibilityQuestion(products, offers, given)
        ranking == Ranking(products, Candidates(products, offers, given), given)
    IN  IF opening # NoKey THEN Question(opening, Terms(products))
        ELSE IF eligibility # NoKey THEN Question(eligibility, {})
        ELSE IF offers = <<>> THEN Unavailable
        ELSE Question(RankingQuestion(products, ranking, given), {})

\* _decide
Decide(products, given) ==
    LET opening == OpeningQuestion(products, given)
        offers == Checked(products, SelectedTerms(products, given))
        eligibility == EligibilityQuestion(products, offers, given)
        ranking == Ranking(products, Candidates(products, offers, given), given)
        bonus == RankingQuestion(products, ranking, given)
    IN  IF opening # NoKey THEN Question(opening, Terms(products))
        ELSE IF eligibility # NoKey THEN Question(eligibility, {})
        ELSE IF offers = <<>> THEN Unavailable
        ELSE IF bonus # NoKey THEN Question(bonus, {})
        ELSE Result(Rows(products, ranking, given))
=============================================================================
