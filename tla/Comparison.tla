------------------------------ MODULE Comparison ------------------------------
(***************************************************************************)
(* POST /api/v1/savings/compare: what the answers given so far mean for    *)
(* every rate option of the catalogue, the eligibility, the rate and the   *)
(* money at maturity (SavingOptionComparisonVO, SavingEligibilityVO,       *)
(* MaturityEstimateVO, MonthlyDepositVO, GoalAmountVO).  It keeps nothing, *)
(* so it is a function of the catalogue and the answers of an interview.   *)
(*                                                                         *)
(* A product also says whether it is paid into by the day or the week      *)
(* (special) and whether it has terms a user must check (checklist); an    *)
(* option also says how interest is computed (calc).                       *)
(***************************************************************************)
EXTENDS Interview

CONSTANTS
    MaxSafe,    \* MAX_SAFE_JSON_INTEGER
    Fraction,   \* parts of a won that compounding keeps (28 digits in the code)
    Goals       \* amounts a user may save for

ASSUME ComparisonAssumption ==
    /\ MaxSafe \in Nat
    /\ Fraction \in Nat \ {0}
    /\ Goals \subseteq Nat \ {0}

\* No bank discloses a limit or a rate below zero; the code takes them as they
\* are.
ASSUME DisclosureAssumption ==
    \A products \in Catalogs : \A product \in ToSet(products) :
        /\ product.limit \in Nat \cup {Unlimited}
        /\ \A o \in ToSet(product.options) : o.base \in Nat /\ o.max \in Nat

Principal == <<"principal">>

-----------------------------------------------------------------------------
(* AnsweredAmountVO *)

\* A skipped and an empty answer count as none; zero is not an amount.
AnsweredAmount(reply) ==
    CASE reply \in {Unanswered, Skipped, Word("")} -> [status |-> "UNANSWERED", amount |-> 0]
      [] reply.kind = "number" /\ reply.number > 0 ->
            [status |-> "PROVIDED", amount |-> reply.number]
      [] OTHER -> [status |-> "INVALID", amount |-> 0]

Deposit(given) == AnsweredAmount(given[Monthly])

Exceeds(deposit, limit) ==
    deposit.status = "PROVIDED" /\ Planned(deposit.amount, limit) < deposit.amount

-----------------------------------------------------------------------------
(* SavingOptionComparisonVO and SavingEligibilityVO *)

\* A mutant of ConditionAnswers: the budget is taken for what is paid in at once.
ConditionAnswersAll(product, given) == given

\* A monthly budget says nothing of a product paid into by the day or the week.
ConditionAnswers(product, given) ==
    IF product.special
      THEN [k \in Keys |-> IF k \in {Monthly, Principal} THEN Unanswered ELSE given[k]]
      ELSE given

AppliedRate(products, offer, given) ==
    LET product == products[offer.product]
        judged == ConditionAnswers(product, given)
    IN  IF IsUsable(product) THEN Rate(products, offer, judged)
        ELSE Lower(offer.option.base, offer.option.max)

\* What a user has still to look at before joining.
NeedsConfirmation(products, offer, given) ==
    LET product == products[offer.product]
        deposit == Deposit(given)
    IN  \/ product.special
        \/ Eligibility(products, offer, ConditionAnswers(product, given)) = "UNKNOWN"
        \/ product.checklist
        \/ deposit.status = "INVALID"
        \/ deposit.status = "UNANSWERED" /\ product.limit # Unlimited

EligibilityStatus(products, offer, given) ==
    LET product == products[offer.product]
    IN  IF ~IsUsable(product) THEN "NEEDS_CONFIRMATION"
        ELSE IF Eligibility(products, offer, ConditionAnswers(product, given)) = "NOT_ELIGIBLE"
          THEN "NOT_ELIGIBLE"
        ELSE IF NeedsConfirmation(products, offer, given) THEN "NEEDS_CONFIRMATION"
        ELSE "ELIGIBLE"

-----------------------------------------------------------------------------
(* MaturityEstimateVO *)

\* Rates are hundredths of a percent a year.
MonthParts == 12 * 100 * 100

MonthInterest(amount, rate) == (amount * rate) \div MonthParts

\* Every month's deposit bears interest for the months that are left.
SimpleInterest(deposit, rate, months) ==
    (deposit * rate * months * (months + 1)) \div (2 * MonthParts)

WithInterest(amount, rate) == amount + MonthInterest(amount, rate)

CompoundInterest(deposit, rate, months) ==
    LET balance[m \in 0..months] ==
            IF m = 0 THEN 0 ELSE WithInterest(balance[m - 1] + deposit * Fraction, rate)
    IN  (balance[months] - deposit * months * Fraction) \div Fraction

Interest(deposit, option, rate) ==
    IF option.calc = "simple" THEN SimpleInterest(deposit, rate, option.term)
    ELSE CompoundInterest(deposit, rate, option.term)

Unestimated(status) == [status |-> status, deposit |-> 0, maturity |-> 0, atMaxRate |-> 0]

\* The reason not to compute, "none" without one; the first that applies.
BlockingReason(product, option, deposit, eligibility) ==
    CASE deposit.status = "UNANSWERED" -> "AMOUNT_REQUIRED"
      [] deposit.status = "INVALID" -> "INVALID_AMOUNT"
      [] OTHER ->
            IF deposit.amount > MaxSafe THEN "CHECK_REQUIRED"
            ELSE IF eligibility = "NOT_ELIGIBLE" THEN "INELIGIBLE"
            ELSE IF product.special \/ option.term <= 0 THEN "CHECK_REQUIRED"
            ELSE "none"

\* A mutant of Estimate: what goes beyond the limit is counted as saved.
EstimateUnlimited(product, option, deposit, rate, eligibility) ==
    LET blocking == BlockingReason(product, option, deposit, eligibility)
        principal == deposit.amount * option.term
        atMaxRate == principal + Interest(deposit.amount, option, option.max)
    IN  IF blocking # "none" THEN Unestimated(blocking)
        ELSE IF atMaxRate > MaxSafe THEN Unestimated("CHECK_REQUIRED")
        ELSE [status |-> IF Exceeds(deposit, product.limit) THEN "MONTHLY_LIMIT_EXCEEDED" ELSE "ESTIMATED",
              deposit |-> deposit.amount,
              maturity |-> principal + Interest(deposit.amount, option, rate),
              atMaxRate |-> atMaxRate]

\* Whoever plans more than the limit is shown what the limit comes to.
Estimate(product, option, deposit, rate, eligibility) ==
    LET blocking == BlockingReason(product, option, deposit, eligibility)
        monthly == Planned(deposit.amount, product.limit)
        principal == monthly * option.term
        atMaxRate == principal + Interest(monthly, option, option.max)
    IN  IF blocking # "none" THEN Unestimated(blocking)
        ELSE IF atMaxRate > MaxSafe THEN Unestimated("CHECK_REQUIRED")
        ELSE [status |-> IF Exceeds(deposit, product.limit) THEN "MONTHLY_LIMIT_EXCEEDED" ELSE "ESTIMATED",
              deposit |-> monthly,
              maturity |-> principal + Interest(monthly, option, rate),
              atMaxRate |-> atMaxRate]

-----------------------------------------------------------------------------
(* GoalAmountVO *)

\* A mutant of Reach: whoever is not there yet is told it cannot be done.
ReachWithoutMax(goal, estimate) ==
    IF goal.status # "PROVIDED" \/ estimate.maturity <= 0 THEN "NO_GOAL"
    ELSE IF estimate.maturity >= goal.amount THEN "REACHED"
    ELSE "SHORT"

Reach(goal, estimate) ==
    IF goal.status # "PROVIDED" \/ estimate.maturity <= 0 THEN "NO_GOAL"
    ELSE IF estimate.maturity >= goal.amount THEN "REACHED"
    ELSE IF estimate.atMaxRate >= goal.amount THEN "REACHED_AT_MAX_RATE"
    ELSE "SHORT"

\* Without an estimate the whole goal is missing.
Shortfall(goal, estimate) ==
    IF goal.status # "PROVIDED" \/ estimate.maturity >= goal.amount THEN 0
    ELSE goal.amount - estimate.maturity

-----------------------------------------------------------------------------
(* SavingCatalogService.compare *)

\* Every option of every product, in whatever term and with usable conditions
\* or without.
AllOffers(products) ==
    UNION {{[product |-> i, option |-> o] : o \in ToSet(products[i].options)} : i \in DOMAIN products}

Compared(products, offer, given) ==
    LET goal == AnsweredAmount(given[GoalAmount])
        rate == AppliedRate(products, offer, given)
        eligibility == EligibilityStatus(products, offer, given)
        estimate == Estimate(products[offer.product], offer.option, Deposit(given), rate, eligibility)
    IN  [offer |-> offer, rate |-> rate, eligibility |-> eligibility, estimate |-> estimate,
         reach |-> Reach(goal, estimate), shortfall |-> Shortfall(goal, estimate)]

Comparisons(products, given) == {Compared(products, offer, given) : offer \in AllOffers(products)}

-----------------------------------------------------------------------------
(* Properties *)

\* The two screens a user goes back and forth between agree.  For a product
\* paid into by the month the comparison applies the ranking's rate, and calls
\* eligible only whom the ranking could recommend it to.  For one paid into by
\* the day or week, where a monthly budget means nothing, it promises no more
\* than the ranking would with any budget.  And it never calls a user
\* ineligible for what the ranking recommends.
ComparedAsRanked ==
    response = Requested =>
        \A offer \in Offers(catalog) :
            LET compared == Compared(catalog, offer, answers)
                Budgets == {[answers EXCEPT ![Monthly] = reply] : reply \in Replies[Monthly]}
            IN  /\ Eligibility(catalog, offer, answers) = "ELIGIBLE" =>
                       compared.eligibility # "NOT_ELIGIBLE"
                /\ compared.eligibility = "ELIGIBLE" =>
                       Eligibility(catalog, offer, answers) = "ELIGIBLE"
                /\ IF catalog[offer.product].special
                     THEN \A given \in Budgets : compared.rate <= Rate(catalog, offer, given)
                     ELSE compared.rate = Rate(catalog, offer, answers)

\* From worst to best for a goal once it can be compared with.
ReachOrder == [SHORT |-> 1, REACHED_AT_MAX_RATE |-> 2, REACHED |-> 3]

\* A verdict about the goal is kept: whatever else the user answers makes the
\* user ineligible or leaves the estimate as high and the goal as near as it
\* was.  In particular a goal said to be out of reach at the highest rate stays
\* out of reach, and one said to be reached stays reached.
EstimateHolds ==
    response = Requested =>
        \A offer \in AllOffers(catalog), key \in Keys \ {Monthly, GoalAmount}, goal \in Goals :
            answers[key] = Unanswered =>
                \A reply \in Replies[key] :
                    LET given == [answers EXCEPT ![GoalAmount] = Number(goal)]
                        before == Compared(catalog, offer, given)
                        after == Compared(catalog, offer, [given EXCEPT ![key] = reply])
                    IN  \/ after.estimate.status = "INELIGIBLE"
                        \/ /\ after.estimate.status = before.estimate.status
                           /\ after.estimate.atMaxRate = before.estimate.atMaxRate
                           /\ after.estimate.maturity >= before.estimate.maturity
                           /\ after.shortfall <= before.shortfall
                           /\ before.reach # "NO_GOAL" => ReachOrder[after.reach] >= ReachOrder[before.reach]
                           /\ before.reach = "SHORT" => after.reach = "SHORT"

\* What is shown can be kept: nobody is shown more than the product's limit
\* lets in or its highest rate pays, and no amount is too large to be exact.
EstimateWithinProduct ==
    response = Requested =>
        \A compared \in Comparisons(catalog, answers) :
            LET estimate == compared.estimate
                option == compared.offer.option
                limit == catalog[compared.offer.product].limit
            IN  /\ Planned(estimate.deposit, limit) = estimate.deposit
                /\ estimate.deposit * option.term <= estimate.maturity
                /\ estimate.maturity <= estimate.atMaxRate
                /\ estimate.atMaxRate <= MaxSafe
                /\ estimate.deposit # 0 => compared.eligibility # "NOT_ELIGIBLE"
=============================================================================
