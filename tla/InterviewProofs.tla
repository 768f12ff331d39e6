--------------------------- MODULE InterviewProofs ---------------------------
(***************************************************************************)
(* Theorems of Interview and Comparison, for every table of conditions,    *)
(* every catalogue and whatever the user may answer.                       *)
(***************************************************************************)
EXTENDS Comparison, QuestionFlowProofs

-----------------------------------------------------------------------------
(* The interview *)

AnyReply == {Unanswered} \cup UNION {Replies[k] : k \in Keys}

\* The client has an answer, or none, for every key.
InterviewInv ==
    /\ TypeOK
    /\ answers \in [Keys -> AnyReply]
    /\ NeverAskedTwice

\* What is decided for the answers of the client is a response, and asks for
\* what it did not answer.
LEMMA NextStepInv == ASSUME InterviewInv, NextStep PROVE InterviewInv'
<1>1. /\ response' = Decide(catalog, answers)
      /\ UNCHANGED <<catalog, answers, revisions, refreshes>>
      /\ IsCatalog(catalog)
      /\ {Months, Monthly, GoalAmount} \subseteq Keys
      /\ ResultSize \in Nat
  BY InterviewAssumption DEF NextStep, InterviewInv, TypeOK
<1>2. CASE response' = Unavailable
  <2>1. response'.status = "unavailable"
    BY <1>2 DEF Unavailable
  <2> QED
    BY <1>1, <1>2, <2>1 DEF InterviewInv, TypeOK, NeverAskedTwice
<1>3. ASSUME NEW key \in Keys, NEW terms \in SUBSET Nat, response' = Question(key, terms),
             answers[key] = Unanswered \/ (/\ key = Months
                                           /\ terms = Terms(catalog)
                                           /\ TermsMissing(catalog, answers))
      PROVE  InterviewInv'
  <2>1. response'.status = "question" /\ response'.key = key /\ response'.terms = terms
    BY <1>3 DEF Question
  <2>2. TermsMissing(catalog, answers) =>
           answers[Months] \notin {Skipped} \cup {Number(t) : t \in Terms(catalog)}
    BY TermNotOffered
  <2>3. TypeOK'
    BY <1>1, <2>1 DEF InterviewInv, TypeOK
  <2>4. NeverAskedTwice'
    BY <1>1, <1>3, <2>1, <2>2 DEF NeverAskedTwice
  <2> QED
    BY <1>1, <2>3, <2>4 DEF InterviewInv
<1>4. ASSUME NEW rows \in Seq(Row), response' = Result(rows)
      PROVE  InterviewInv'
  <2>1. response'.status = "done" /\ response'.rows = rows
    BY <1>4 DEF Result
  <2> QED
    BY <1>1, <1>4, <2>1 DEF InterviewInv, TypeOK, NeverAskedTwice
<1> QED
  BY <1>1, <1>2, <1>3, <1>4, DecideSteps

\* An answer is one of those the user may give.
LEMMA AnswerTyped ==
    ASSUME InterviewInv, NEW key \in Keys, NEW reply \in Replies[key],
           answers' = [answers EXCEPT ![key] = reply]
    PROVE  /\ answers' \in [Keys -> AnyReply]
           /\ \A k \in Keys : answers'[k] = Unanswered \/ answers'[k] \in Replies[k]
<1>1. reply \in AnyReply
  BY DEF AnyReply
<1>2. answers \in [Keys -> AnyReply]
  BY DEF InterviewInv
<1> HIDE DEF AnyReply
<1>3. \A k \in Keys : answers'[k] = IF k = key THEN reply ELSE answers[k]
  BY <1>2
<1>4. answers' \in [Keys -> AnyReply]
  BY <1>1, <1>2
<1> QED
  BY <1>3, <1>4 DEF InterviewInv, TypeOK

\* No request, answer, change of an answer or refresh breaks the invariant.
LEMMA StepInterviewInv == InterviewInv /\ [Next]_vars => InterviewInv'
<1> SUFFICES ASSUME InterviewInv, [Next]_vars PROVE InterviewInv'
  OBVIOUS
<1>1. CASE NextStep
  BY <1>1, NextStepInv
<1>2. CASE Answer
  <2>1. PICK key \in Keys : response.key = key
    <3>1. response.status = "question"
      BY <1>2 DEF Answer
    <3>2. response # Requested /\ response # Unavailable /\ response.status # "done"
      BY <3>1 DEF Requested, Unavailable
    <3> QED
      BY <3>2 DEF InterviewInv, TypeOK
  <2>2. PICK reply \in Replies[key] : answers' = [answers EXCEPT ![key] = reply]
    BY <1>2, <2>1 DEF Answer
  <2>3. response' = Requested /\ UNCHANGED <<catalog, revisions, refreshes>>
    BY <1>2 DEF Answer
  <2>4. /\ answers' \in [Keys -> AnyReply]
        /\ \A k \in Keys : answers'[k] = Unanswered \/ answers'[k] \in Replies[k]
    BY <2>2, AnswerTyped
  <2>5. TypeOK'
    BY <2>3, <2>4 DEF InterviewInv, TypeOK
  <2>6. NeverAskedTwice'
    BY <2>3 DEF NeverAskedTwice, Requested
  <2> QED
    BY <2>4, <2>5, <2>6 DEF InterviewInv
<1>3. ASSUME NEW key \in Keys, Revise(key) PROVE InterviewInv'
  <2>1. PICK reply \in Replies[key] : answers' = [answers EXCEPT ![key] = reply]
    BY <1>3 DEF Revise
  <2>2. /\ response' = Requested /\ UNCHANGED <<catalog, refreshes>>
        /\ revisions < MaxRevisions /\ revisions' = revisions + 1
    BY <1>3 DEF Revise
  <2>3. /\ answers' \in [Keys -> AnyReply]
        /\ \A k \in Keys : answers'[k] = Unanswered \/ answers'[k] \in Replies[k]
    BY <2>1, AnswerTyped
  <2>4. revisions' \in 0..MaxRevisions
    BY <2>2, InterviewAssumption DEF InterviewInv, TypeOK
  <2>5. TypeOK'
    BY <2>2, <2>3, <2>4 DEF InterviewInv, TypeOK
  <2>6. NeverAskedTwice'
    BY <2>2 DEF NeverAskedTwice, Requested
  <2> QED
    BY <2>3, <2>5, <2>6 DEF InterviewInv
<1>4. CASE Refresh
  <2>1. /\ refreshes < MaxRefreshes /\ refreshes' = refreshes + 1
        /\ catalog' \in Catalogs
        /\ UNCHANGED <<answers, response, revisions>>
    BY <1>4 DEF Refresh
  <2>2. refreshes' \in 0..MaxRefreshes
    BY <2>1, InterviewAssumption DEF InterviewInv, TypeOK
  <2> QED
    BY <2>1, <2>2 DEF InterviewInv, TypeOK, NeverAskedTwice
<1>5. CASE UNCHANGED vars
  BY <1>5 DEF vars, InterviewInv, TypeOK, NeverAskedTwice
<1> QED
  BY <1>1, <1>2, <1>3, <1>4, <1>5 DEF Next

\* It holds before the first request.
LEMMA InitInterviewInv == Init => InterviewInv
<1> SUFFICES ASSUME Init PROVE InterviewInv
  OBVIOUS
<1>1. answers = [k \in Keys |-> Unanswered] /\ response = Requested
  BY DEF Init
<1>2. answers \in [Keys -> AnyReply]
  BY <1>1 DEF AnyReply
<1>3. 0 \in 0..MaxRevisions /\ 0 \in 0..MaxRefreshes
  BY InterviewAssumption
<1> QED
  BY <1>1, <1>2, <1>3 DEF Init, InterviewInv, TypeOK, NeverAskedTwice, Requested

\* The invariant holds in every state of every interview.
LEMMA InterviewInvariant == Spec => []InterviewInv
BY InitInterviewInv, StepInterviewInv, PTL DEF Spec

\* Every response is a question about a known key, a ranking of rows or the
\* notice that there is nothing to rank.
THEOREM InterviewTyped == Spec => []TypeOK
<1>1. InterviewInv => TypeOK
  BY DEF InterviewInv
<1> QED
  BY <1>1, InterviewInvariant, PTL

\* No question is asked again once it has an answer, whatever was answered,
\* changed or refreshed before; but for a term that is not offered any more.
THEOREM AskedOnce == Spec => []NeverAskedTwice
<1>1. InterviewInv => NeverAskedTwice
  BY DEF InterviewInv
<1> QED
  BY <1>1, InterviewInvariant, PTL

-----------------------------------------------------------------------------
(* What more answers do *)

\* An offer of the catalogue is one of a usable product.
LEMMA OffersOfCatalog ==
    ASSUME InterviewInv, NEW offer \in Offers(catalog)
    PROVE  IsCatalog(catalog) /\ offer \in OfferOf(catalog, Terms(catalog))
<1>1. IsCatalog(catalog)
  BY InterviewAssumption DEF InterviewInv, TypeOK
<1>2. Checked(catalog, Terms(catalog)) \in Seq(OfferOf(catalog, Terms(catalog)))
  BY <1>1, CheckedOffers
<1> QED
  BY <1>1, <1>2 DEF Offers, ToSet

\* An answer to what had none takes nothing back.
LEMMA AnswerExtends ==
    ASSUME NEW given, NEW S, given \in [Keys -> S], NEW key \in Keys, given[key] = Unanswered, NEW reply
    PROVE  Extends([given EXCEPT ![key] = reply], given)
BY DEF Extends

\* Another answer never takes back what the earlier ones decided, and the
\* rate and the possible rate of every offer close in on each other.
THEOREM BoundsAlwaysNarrow == Spec => []BoundsNarrow
<1>1. InterviewInv => BoundsNarrow
  <2> SUFFICES ASSUME InterviewInv,
                      NEW offer \in Offers(catalog), NEW key \in Keys, answers[key] = Unanswered,
                      NEW reply \in Replies[key]
               PROVE  LET more == [answers EXCEPT ![key] = reply]
                          before == Eligibility(catalog, offer, answers)
                      IN  /\ before # "UNKNOWN" => Eligibility(catalog, offer, more) = before
                          /\ Rate(catalog, offer, answers) <= Rate(catalog, offer, more)
                          /\ Rate(catalog, offer, more) <= PossibleRate(catalog, offer, more)
                          /\ PossibleRate(catalog, offer, more) <= PossibleRate(catalog, offer, answers)
    BY DEF BoundsNarrow
  <2>1. PICK more : more = [answers EXCEPT ![key] = reply]
    OBVIOUS
  <2>2. Extends(more, answers)
    BY <2>1, AnswerExtends DEF InterviewInv
  <2>3. IsCatalog(catalog) /\ offer \in OfferOf(catalog, Terms(catalog))
    BY OffersOfCatalog
  <2>4. Eligibility(catalog, offer, answers) # "UNKNOWN" =>
           Eligibility(catalog, offer, more) = Eligibility(catalog, offer, answers)
    BY <2>2, <2>3, EligibilityFacts
  <2>5. /\ Rate(catalog, offer, answers) <= Rate(catalog, offer, more)
        /\ Rate(catalog, offer, more) <= PossibleRate(catalog, offer, more)
        /\ PossibleRate(catalog, offer, more) <= PossibleRate(catalog, offer, answers)
    BY <2>2, <2>3, RatesNarrow
  <2> QED
    BY <2>1, <2>4, <2>5
<1> QED
  BY <1>1, InterviewInvariant, PTL

\* The conditions of every offer are decided as soon as the answers decide them
\* and only then, however they are nested.
THEOREM AlwaysJudgesExactly == Spec => []JudgesExactly
<1>1. InterviewInv => JudgesExactly
  <2> SUFFICES ASSUME InterviewInv, NEW offer \in Offers(catalog)
               PROVE  LET product == catalog[offer.product]
                          context == Context(product, offer.option)
                      IN  \A c \in {product.eligibility} \cup {b.condition : b \in ToSet(product.bonuses)} :
                              Evaluate(c, answers, context) = Judgement(c, answers, context)
    BY DEF JudgesExactly
  <2>1. PICK product : product = catalog[offer.product]
    OBVIOUS
  <2>2. PICK context : context = Context(product, offer.option)
    OBVIOUS
  <2>3. IsCatalog(catalog) /\ offer \in OfferOf(catalog, Terms(catalog))
    BY OffersOfCatalog
  <2>4. /\ product.eligibility \in DOMAIN Condition
        /\ product.bonuses \in Seq([points : Nat, condition : DOMAIN Condition])
    BY <2>1, <2>3, OfferFacts
  <2>5. \A b \in ToSet(product.bonuses) : b.condition \in DOMAIN Condition
    <3>1. PICK S : S = [points : Nat, condition : DOMAIN Condition]
      OBVIOUS
    <3>2. PICK bonuses : bonuses = product.bonuses
      OBVIOUS
    <3>3. bonuses \in Seq(S)
      BY <2>4, <3>1, <3>2
    <3>4. \A b \in ToSet(bonuses) : b \in S
      BY <3>3 DEF ToSet
    <3> QED
      BY <3>1, <3>2, <3>4
  <2>6. \A c \in {product.eligibility} \cup {b.condition : b \in ToSet(product.bonuses)} :
           c \in DOMAIN Condition
    BY <2>4, <2>5
  <2>7. \A c \in {product.eligibility} \cup {b.condition : b \in ToSet(product.bonuses)} :
           Evaluate(c, answers, context) = Judgement(c, answers, context)
    BY <2>6, ConditionJudgesExactly
  <2> QED
    BY <2>1, <2>2, <2>7
<1> QED
  BY <1>1, InterviewInvariant, PTL

-----------------------------------------------------------------------------
(* Interest *)

\* The balances of an account month by month, with a payment every month.
Grows(balance, paid, rate, months) ==
    /\ balance \in [0..months -> Nat]
    /\ balance[0] = 0
    /\ \A m \in 1..months : balance[m] = WithInterest(balance[m - 1] + paid, rate)

\* The provers do not see the number, which some of them would count up to.
LEMMA MonthPartsTyped == MonthParts \in Nat \ {0} /\ 2 * MonthParts \in Nat \ {0}
BY SMT DEF MonthParts

\* More money at a higher rate bears more interest ...
LEMMA MonthInterestGrows ==
    ASSUME NEW x \in Nat, NEW y \in Nat, NEW low \in Nat, NEW high \in Nat, x <= y, low <= high
    PROVE  /\ MonthInterest(x, low) \in Nat /\ MonthInterest(y, high) \in Nat
           /\ MonthInterest(x, low) <= MonthInterest(y, high)
<1>1. x * low \in Nat /\ y * high \in Nat /\ x * low <= y * high
  BY TimesGrows
<1>2. /\ (x * low) \div MonthParts \in Nat /\ (y * high) \div MonthParts \in Nat
      /\ (x * low) \div MonthParts <= (y * high) \div MonthParts
  BY <1>1, DivGrows, MonthPartsTyped
<1> QED
  BY <1>2, Zenon DEF MonthInterest

\* ... and is still more after a month.
LEMMA WithInterestGrows ==
    ASSUME NEW x \in Nat, NEW y \in Nat, NEW low \in Nat, NEW high \in Nat, x <= y, low <= high
    PROVE  /\ WithInterest(x, low) \in Nat /\ WithInterest(y, high) \in Nat
           /\ x <= WithInterest(x, low)
           /\ WithInterest(x, low) <= WithInterest(y, high)
<1>1. /\ MonthInterest(x, low) \in Nat /\ MonthInterest(y, high) \in Nat
      /\ MonthInterest(x, low) <= MonthInterest(y, high)
  BY MonthInterestGrows
<1> QED
  BY <1>1 DEF WithInterest

\* A payment.
LEMMA PaidTyped ==
    ASSUME NEW deposit \in Nat, NEW months \in Nat
    PROVE  deposit * Fraction \in Nat /\ deposit * months * Fraction = months * (deposit * Fraction)
BY ComparisonAssumption

Compounds(balance, deposit, rate, months) ==
    CompoundInterest(deposit, rate, months) = (balance[months] - deposit * months * Fraction) \div Fraction

\* Interest is compounded along such balances (MaturityEstimateVO._compound_interest).
LEMMA CompoundSteps ==
    ASSUME NEW deposit \in Nat, NEW rate \in Nat, NEW months \in Nat,
           NEW paid \in Nat, paid = deposit * Fraction
    PROVE  \E balance : Grows(balance, paid, rate, months) /\ Compounds(balance, deposit, rate, months)
<1> DEFINE Body(balance) ==
               [m \in 0..months |->
                   IF m = 0 THEN 0 ELSE WithInterest(balance[m - 1] + deposit * Fraction, rate)]
           Balance0 == CHOOSE balance : balance = Body(balance)
           Value(m, balance) == IF m = 0 THEN 0 ELSE WithInterest(balance[m - 1] + paid, rate)
<1>1. \A b \in Nat : WithInterest(b + paid, rate) \in Nat
  <2> SUFFICES ASSUME NEW b \in Nat PROVE WithInterest(b + paid, rate) \in Nat
    OBVIOUS
  <2>1. PICK x \in Nat : x = b + paid
    OBVIOUS
  <2>2. x <= x /\ rate <= rate
    OBVIOUS
  <2> QED
    BY <2>1, <2>2, WithInterestGrows
<1>2. \A balance : Body(balance) = [m \in 0..months |-> Value(m, balance)]
  OBVIOUS
<1>3. PICK F : F = [m \in 1..months |-> [b \in Nat |-> WithInterest(b + paid, rate)]]
  OBVIOUS
<1>4. F \in Steps(Nat, months)
  BY <1>1, <1>3 DEF Steps
<1>5. PICK h : IsRun(h, Nat, 0, months, F)
  BY <1>4, RunExists
<1>6. /\ h \in [0..months -> Nat]
      /\ h[0] = 0
      /\ \A m \in 1..months : h[m] = WithInterest(h[m - 1] + paid, rate)
  <2>1. h \in [0..months -> Nat] /\ h[0] = 0 /\ \A m \in 1..months : h[m] = F[m][h[m - 1]]
    BY <1>5 DEF IsRun
  <2>2. \A m \in 1..months : h[m - 1] \in Nat
    BY <2>1
  <2> QED
    BY <1>3, <2>1, <2>2
<1>7. h = [m \in 0..months |-> Value(m, h)]
  BY <1>6
<1>8. Balance0 = Body(Balance0)
  <2>1. h = Body(h)
    <3> HIDE DEF Body, Value
    <3> QED
      BY <1>2, <1>7
  <2> HIDE DEF Body
  <2> QED
    BY <2>1
<1>9. CompoundInterest(deposit, rate, months) =
         (Balance0[months] - deposit * months * Fraction) \div Fraction
  BY DEF CompoundInterest
<1> HIDE DEF Balance0
<1>10. \A m \in 0..months : Balance0[m] = Value(m, Balance0)
  <2> HIDE DEF Body, Value
  <2> QED
    BY <1>2, <1>8
<1> HIDE DEF Body
<1>11. Balance0[0] = 0 /\ \A m \in 1..months : Balance0[m] = WithInterest(Balance0[m - 1] + paid, rate)
  BY <1>10
<1>12. \A m \in 0..months : Balance0[m] = h[m]
  <2> DEFINE P == {m \in 0..months : Balance0[m] = h[m]}
  <2>1. 0 \in P
    BY <1>6, <1>11
  <2>2. \A m \in 1..months : m - 1 \in P => m \in P
    BY <1>6, <1>11
  <2>3. 0..months \subseteq P
    <3> HIDE DEF P
    <3> QED
      BY <2>1, <2>2, CountUp
  <2> QED
    BY <2>3
<1>13. Grows(h, paid, rate, months)
  BY <1>6 DEF Grows
<1>14. Balance0[months] = h[months]
  BY <1>12
<1>15. Compounds(h, deposit, rate, months)
  BY <1>9, <1>14, Zenon DEF Compounds
<1> QED
  BY <1>13, <1>15, Zenon

\* At a higher rate every balance is as high, and never lower than what was
\* paid in.
LEMMA BalancesGrow ==
    ASSUME NEW paid \in Nat, NEW months \in Nat,
           NEW low \in Nat, NEW high \in Nat, low <= high,
           NEW b, Grows(b, paid, low, months), NEW c, Grows(c, paid, high, months)
    PROVE  /\ b[months] \in Nat /\ c[months] \in Nat
           /\ months * paid <= b[months]
           /\ b[months] <= c[months]
<1> DEFINE P == {m \in 0..months : m * paid <= b[m] /\ b[m] <= c[m]}
<1>1. /\ b \in [0..months -> Nat] /\ c \in [0..months -> Nat]
      /\ b[0] = 0 /\ c[0] = 0
      /\ \A m \in 1..months : b[m] = WithInterest(b[m - 1] + paid, low)
      /\ \A m \in 1..months : c[m] = WithInterest(c[m - 1] + paid, high)
  BY DEF Grows
<1>2. 0 \in P
  BY <1>1
<1>3. ASSUME NEW m \in 1..months, m - 1 \in P PROVE m \in P
  <2>1. PICK x \in Nat, y \in Nat : x = b[m - 1] /\ y = c[m - 1] /\ x <= y /\ (m - 1) * paid <= x
    BY <1>1, <1>3
  <2>2. x + paid \in Nat /\ y + paid \in Nat /\ x + paid <= y + paid
    BY <2>1
  <2>3. /\ x + paid <= WithInterest(x + paid, low)
        /\ WithInterest(x + paid, low) \in Nat
        /\ WithInterest(x + paid, low) <= WithInterest(y + paid, high)
    BY <2>2, WithInterestGrows
  <2>4. b[m] = WithInterest(x + paid, low) /\ c[m] = WithInterest(y + paid, high)
    BY <1>1, <2>1
  <2>5. x + paid <= b[m] /\ b[m] <= c[m] /\ b[m] \in Nat
    BY <2>3, <2>4
  <2>6. m * paid <= x + paid
    <3>1. m * paid = (m - 1) * paid + paid /\ (m - 1) * paid \in Nat
      OBVIOUS
    <3> QED
      BY <2>1, <3>1
  <2>7. m * paid \in Nat
    OBVIOUS
  <2>8. m * paid <= b[m]
    BY <2>2, <2>5, <2>6, <2>7
  <2> QED
    BY <2>5, <2>8
<1>4. 0..months \subseteq P
  <2> HIDE DEF P
  <2> QED
    BY <1>2, <1>3, CountUp
<1>5. months \in P
  BY <1>4
<1> QED
  BY <1>1, <1>5

\* Interest is not negative, and a higher rate pays no less.
LEMMA InterestGrows ==
    ASSUME NEW deposit \in Nat, NEW option, option.term \in Nat,
           NEW low \in Nat, NEW high \in Nat, low <= high
    PROVE  /\ Interest(deposit, option, low) \in Nat
           /\ Interest(deposit, option, high) \in Nat
           /\ Interest(deposit, option, low) <= Interest(deposit, option, high)
<1>1. PICK months \in Nat : months = option.term
  OBVIOUS
<1>2. CASE option.calc = "simple"
  <2>1. deposit * low \in Nat /\ deposit * high \in Nat /\ deposit * low <= deposit * high
    BY TimesGrows
  <2>2. PICK x \in Nat, y \in Nat : x = deposit * low /\ y = deposit * high /\ x <= y
    BY <2>1
  <2>3. PICK z \in Nat, w \in Nat : z = x * months /\ w = y * months /\ z <= w
    BY <2>2, TimesGrows
  <2>4. PICK u \in Nat, v \in Nat : u = z * (months + 1) /\ v = w * (months + 1) /\ u <= v
    BY <2>3, TimesGrows
  <2>5. u \div (2 * MonthParts) \in Nat /\ v \div (2 * MonthParts) \in Nat /\ u \div (2 * MonthParts) <= v \div (2 * MonthParts)
    BY <2>4, DivGrows, MonthPartsTyped
  <2>6. Interest(deposit, option, low) = u \div (2 * MonthParts) /\ Interest(deposit, option, high) = v \div (2 * MonthParts)
    BY <1>1, <1>2, <2>2, <2>3, <2>4, Zenon DEF Interest, SimpleInterest
  <2> QED
    BY <2>5, <2>6
<1>3. CASE option.calc # "simple"
  <2>1. PICK paid \in Nat : paid = deposit * Fraction
    BY PaidTyped
  <2>2. PICK b : Grows(b, paid, low, months) /\ Compounds(b, deposit, low, months)
    BY <2>1, CompoundSteps, Zenon
  <2>3. PICK c : Grows(c, paid, high, months) /\ Compounds(c, deposit, high, months)
    BY <2>1, CompoundSteps, Zenon
  <2>4. /\ b[months] \in Nat /\ c[months] \in Nat
        /\ months * paid <= b[months]
        /\ b[months] <= c[months]
    BY <2>2, <2>3, BalancesGrow
  <2>5. PICK all \in Nat : all = months * paid
    OBVIOUS
  <2>6. deposit * months * Fraction = all
    BY <2>1, <2>5, PaidTyped
  <2>7. PICK x \in Nat, y \in Nat : x = b[months] - all /\ y = c[months] - all /\ x <= y
    BY <2>4, <2>5
  <2>8. x \div Fraction \in Nat /\ y \div Fraction \in Nat /\ x \div Fraction <= y \div Fraction
    BY <2>7, DivGrows, ComparisonAssumption
  <2>9. /\ Interest(deposit, option, low) = CompoundInterest(deposit, low, months)
        /\ Interest(deposit, option, high) = CompoundInterest(deposit, high, months)
    BY <1>1, <1>3, Zenon DEF Interest
  <2>10. /\ Interest(deposit, option, low) = x \div Fraction
         /\ Interest(deposit, option, high) = y \div Fraction
    BY <2>2, <2>3, <2>6, <2>7, <2>9, Zenon DEF Compounds
  <2> QED
    BY <2>8, <2>10, Zenon
<1> QED
  BY <1>2, <1>3

-----------------------------------------------------------------------------
(* The comparison *)

\* The offers of the comparison are those of the catalogue, usable or not.
LEMMA AllOfferFacts ==
    ASSUME NEW products \in Catalogs, NEW offer \in AllOffers(products)
    PROVE  /\ IsCatalog(products)
           /\ offer.option.term \in Nat /\ offer.option.base \in Nat /\ offer.option.max \in Nat
           /\ products[offer.product].limit \in Nat \cup {Unlimited}
           /\ IsUsable(products[offer.product]) => offer \in OfferOf(products, Terms(products))
<1> PICK i \in DOMAIN products : offer \in {[product |-> i, option |-> o] : o \in ToSet(products[i].options)}
  BY DEF AllOffers
<1>1. PICK o \in ToSet(products[i].options) : offer = [product |-> i, option |-> o]
  OBVIOUS
<1>2. offer.product = i /\ offer.option = o
  BY <1>1
<1>3. IsCatalog(products)
  BY InterviewAssumption
<1>4. products[i] \in ToSet(products)
  BY DEF ToSet
<1>5. /\ o.term \in Nat
      /\ o.base \in Nat /\ o.max \in Nat
      /\ products[i].limit \in Nat \cup {Unlimited}
  BY <1>3, <1>4, DisclosureAssumption DEF IsCatalog, IsProduct
<1>6. o.term \in Terms(products)
  BY DEF Terms
<1>7. IsUsable(products[i]) => offer \in OfferOf(products, Terms(products))
  BY <1>1, <1>2, <1>6 DEF OfferOf
<1> QED
  BY <1>2, <1>3, <1>5, <1>7

\* Leaving out the budget takes nothing but the budget.
LEMMA ConditionAnswersExtended ==
    ASSUME NEW product, NEW given, NEW more, Extends(more, given)
    PROVE  /\ Extends(given, ConditionAnswers(product, given))
           /\ Extends(ConditionAnswers(product, more), ConditionAnswers(product, given))
BY DEF Extends, ConditionAnswers

\* What is said of the eligibility is no more than the conditions say.
LEMMA EligibilityStatusFacts ==
    ASSUME NEW products, NEW offer, NEW given,
           NEW judged, judged = ConditionAnswers(products[offer.product], given)
    PROVE  /\ EligibilityStatus(products, offer, given) = "NOT_ELIGIBLE" <=>
                 /\ IsUsable(products[offer.product])
                 /\ Eligibility(products, offer, judged) = "NOT_ELIGIBLE"
           /\ EligibilityStatus(products, offer, given) = "ELIGIBLE" =>
                 /\ Eligibility(products, offer, judged) # "NOT_ELIGIBLE"
                 /\ Eligibility(products, offer, judged) # "UNKNOWN"
<1>1. Eligibility(products, offer, judged) = "UNKNOWN" => NeedsConfirmation(products, offer, given)
  BY Zenon DEF NeedsConfirmation
<1>2. EligibilityStatus(products, offer, given) =
         IF ~IsUsable(products[offer.product]) THEN "NEEDS_CONFIRMATION"
         ELSE IF Eligibility(products, offer, judged) = "NOT_ELIGIBLE" THEN "NOT_ELIGIBLE"
         ELSE IF NeedsConfirmation(products, offer, given) THEN "NEEDS_CONFIRMATION"
         ELSE "ELIGIBLE"
  BY Zenon DEF EligibilityStatus
<1>3. CASE ~IsUsable(products[offer.product])
  <2>1. EligibilityStatus(products, offer, given) = "NEEDS_CONFIRMATION"
    BY <1>2, <1>3, Zenon
  <2> QED
    BY <1>3, <2>1
<1>4. CASE IsUsable(products[offer.product]) /\ Eligibility(products, offer, judged) = "NOT_ELIGIBLE"
  <2>1. EligibilityStatus(products, offer, given) = "NOT_ELIGIBLE"
    BY <1>2, <1>4, Zenon
  <2> QED
    BY <1>4, <2>1
<1>5. CASE IsUsable(products[offer.product]) /\ Eligibility(products, offer, judged) # "NOT_ELIGIBLE"
  <2>1. CASE NeedsConfirmation(products, offer, given)
    <3>1. EligibilityStatus(products, offer, given) = "NEEDS_CONFIRMATION"
      BY <1>2, <1>5, <2>1, Zenon
    <3> QED
      BY <1>5, <3>1
  <2>2. CASE ~NeedsConfirmation(products, offer, given)
    <3>1. EligibilityStatus(products, offer, given) = "ELIGIBLE"
      BY <1>2, <1>5, <2>2, Zenon
    <3>2. Eligibility(products, offer, judged) # "UNKNOWN"
      BY <1>1, <2>2, Zenon
    <3> QED
      BY <1>5, <3>1, <3>2
  <2> QED
    BY <2>1, <2>2
<1> QED
  BY <1>3, <1>4, <1>5

\* The parts of what is shown of an offer.
LEMMA ComparedParts ==
    ASSUME NEW products, NEW offer, NEW given
    PROVE  LET compared == Compared(products, offer, given)
           IN  /\ compared.offer = offer
               /\ compared.rate = AppliedRate(products, offer, given)
               /\ compared.eligibility = EligibilityStatus(products, offer, given)
               /\ compared.estimate = Estimate(products[offer.product], offer.option, Deposit(given),
                                               AppliedRate(products, offer, given),
                                               EligibilityStatus(products, offer, given))
               /\ compared.reach = Reach(AnsweredAmount(given[GoalAmount]), compared.estimate)
               /\ compared.shortfall = Shortfall(AnsweredAmount(given[GoalAmount]), compared.estimate)
BY DEF Compared

\* The comparison of an offer and its ranking do not contradict each other.
THEOREM AlwaysComparedAsRanked == Spec => []ComparedAsRanked
<1>1. InterviewInv => ComparedAsRanked
  <2> SUFFICES ASSUME InterviewInv, NEW offer \in Offers(catalog)
               PROVE  LET compared == Compared(catalog, offer, answers)
                          Budgets == {[answers EXCEPT ![Monthly] = reply] : reply \in Replies[Monthly]}
                      IN  /\ Eligibility(catalog, offer, answers) = "ELIGIBLE" =>
                                 compared.eligibility # "NOT_ELIGIBLE"
                          /\ compared.eligibility = "ELIGIBLE" =>
                                 Eligibility(catalog, offer, answers) = "ELIGIBLE"
                          /\ IF catalog[offer.product].special
                               THEN \A given \in Budgets : compared.rate <= Rate(catalog, offer, given)
                               ELSE compared.rate = Rate(catalog, offer, answers)
    BY DEF ComparedAsRanked
  <2>1. IsCatalog(catalog) /\ offer \in OfferOf(catalog, Terms(catalog))
    BY OffersOfCatalog
  <2>2. IsUsable(catalog[offer.product])
    BY <2>1 DEF OfferOf
  <2>3. PICK product : product = catalog[offer.product]
    OBVIOUS
  <2>4. PICK judged : judged = ConditionAnswers(product, answers)
    OBVIOUS
  <2>5. Extends(answers, answers)
    BY DEF Extends
  <2>6. Extends(answers, judged)
    BY <2>4, <2>5, ConditionAnswersExtended
  <2>7. /\ Eligibility(catalog, offer, judged) \in Results
        /\ Eligibility(catalog, offer, judged) # "UNKNOWN" =>
              Eligibility(catalog, offer, answers) = Eligibility(catalog, offer, judged)
    BY <2>1, <2>6, EligibilityFacts
  <2>8. PICK compared : compared = Compared(catalog, offer, answers)
    OBVIOUS
  <2>9. /\ compared.eligibility = EligibilityStatus(catalog, offer, answers)
        /\ compared.rate = AppliedRate(catalog, offer, answers)
    BY <2>8, ComparedParts
  <2>10. judged = ConditionAnswers(catalog[offer.product], answers)
    BY <2>3, <2>4
  <2>11. /\ compared.eligibility = "NOT_ELIGIBLE" => Eligibility(catalog, offer, judged) = "NOT_ELIGIBLE"
         /\ compared.eligibility = "ELIGIBLE" =>
               /\ Eligibility(catalog, offer, judged) # "NOT_ELIGIBLE"
               /\ Eligibility(catalog, offer, judged) # "UNKNOWN"
    BY <2>9, <2>10, EligibilityStatusFacts
  <2>12. compared.rate = Rate(catalog, offer, judged)
    BY <2>2, <2>9, <2>10, Zenon DEF AppliedRate
  <2>13. ASSUME ~product.special PROVE compared.rate = Rate(catalog, offer, answers)
    <3>1. judged = answers
      BY <2>4, <2>13, Zenon DEF ConditionAnswers
    <3> QED
      BY <2>12, <3>1
  <2>14. ASSUME product.special, NEW reply \in Replies[Monthly]
         PROVE  compared.rate <= Rate(catalog, offer, [answers EXCEPT ![Monthly] = reply])
    <3>1. PICK given : given = [answers EXCEPT ![Monthly] = reply]
      OBVIOUS
    <3>2. judged = [k \in Keys |-> IF k \in {Monthly, Principal} THEN Unanswered ELSE answers[k]]
      BY <2>4, <2>14, Zenon DEF ConditionAnswers
    <3>3. Extends(given, judged)
      BY <3>1, <3>2 DEF Extends, InterviewInv
    <3>4. Rate(catalog, offer, judged) <= Rate(catalog, offer, given)
      BY <2>1, <3>3, RatesNarrow
    <3> QED
      BY <2>12, <3>1, <3>4
  <2>15. /\ Eligibility(catalog, offer, answers) = "ELIGIBLE" => compared.eligibility # "NOT_ELIGIBLE"
         /\ compared.eligibility = "ELIGIBLE" => Eligibility(catalog, offer, answers) = "ELIGIBLE"
    BY <2>7, <2>11 DEF Results
  <2> QED
    BY <2>3, <2>8, <2>13, <2>14, <2>15
<1> QED
  BY <1>1, InterviewInvariant, PTL

\* An amount that was answered is a number.
LEMMA AnsweredAmountTyped ==
    ASSUME NEW reply, reply.kind = "number" => reply.number \in Nat
    PROVE  AnsweredAmount(reply).amount \in Nat
BY DEF AnsweredAmount

\* What a user pays in a month is within the limit, and no more than planned.
LEMMA PlannedFacts ==
    ASSUME NEW amount \in Nat, NEW limit \in Nat \cup {Unlimited}
    PROVE  /\ Planned(amount, limit) \in Nat
           /\ Planned(Planned(amount, limit), limit) = Planned(amount, limit)
           /\ Planned(0, limit) = 0
BY DEF Planned

\* The status of an estimate, whatever is paid.
EstimateStatus(product, option, deposit, eligibility) ==
    LET blocking == BlockingReason(product, option, deposit, eligibility)
        monthly == Planned(deposit.amount, product.limit)
    IN  IF blocking # "none" THEN blocking
        ELSE IF monthly * option.term + Interest(monthly, option, option.max) > MaxSafe THEN "CHECK_REQUIRED"
        ELSE IF Exceeds(deposit, product.limit) THEN "MONTHLY_LIMIT_EXCEEDED" ELSE "ESTIMATED"

Statuses == {"ESTIMATED", "MONTHLY_LIMIT_EXCEEDED"}

Estimated(estimate, status, monthly, option, rate) ==
    /\ estimate.status = status
    /\ status \notin Statuses =>
          estimate.deposit = 0 /\ estimate.maturity = 0 /\ estimate.atMaxRate = 0
    /\ status \in Statuses =>
          /\ estimate.deposit = monthly
          /\ estimate.maturity = monthly * option.term + Interest(monthly, option, rate)
          /\ estimate.atMaxRate = monthly * option.term + Interest(monthly, option, option.max)
          /\ estimate.atMaxRate <= MaxSafe

\* An estimate at some rate: either none, or what is paid in and what it bears.
LEMMA EstimateParts ==
    ASSUME NEW product, NEW option, NEW deposit, NEW rate, NEW eligibility,
           NEW monthly \in Nat, monthly = Planned(deposit.amount, product.limit),
           option.term \in Nat, option.max \in Nat, rate \in Nat, rate <= option.max
    PROVE  /\ Estimated(Estimate(product, option, deposit, rate, eligibility),
                        EstimateStatus(product, option, deposit, eligibility),
                        monthly, option, rate)
           /\ EstimateStatus(product, option, deposit, eligibility) \in Statuses =>
                 BlockingReason(product, option, deposit, eligibility) = "none"
<1>1. PICK blocking : blocking = BlockingReason(product, option, deposit, eligibility)
  OBVIOUS
<1>2. blocking \notin Statuses
  BY <1>1 DEF BlockingReason, Statuses
<1>3. PICK paid \in Nat : paid = monthly * option.term
  OBVIOUS
<1>4. PICK low \in Nat, high \in Nat :
         low = Interest(monthly, option, rate) /\ high = Interest(monthly, option, option.max)
  BY InterestGrows
<1>5. PICK exceeds : exceeds = Exceeds(deposit, product.limit)
  OBVIOUS
<1>6. Estimate(product, option, deposit, rate, eligibility) =
         IF blocking # "none" THEN Unestimated(blocking)
         ELSE IF paid + high > MaxSafe THEN Unestimated("CHECK_REQUIRED")
         ELSE [status |-> IF Exceeds(deposit, product.limit) THEN "MONTHLY_LIMIT_EXCEEDED" ELSE "ESTIMATED",
               deposit |-> monthly, maturity |-> paid + low, atMaxRate |-> paid + high]
  BY <1>1, <1>3, <1>4, Zenon DEF Estimate
<1>7. EstimateStatus(product, option, deposit, eligibility) =
         IF blocking # "none" THEN blocking
         ELSE IF paid + high > MaxSafe THEN "CHECK_REQUIRED"
         ELSE IF Exceeds(deposit, product.limit) THEN "MONTHLY_LIMIT_EXCEEDED" ELSE "ESTIMATED"
  BY <1>1, <1>3, <1>4, Zenon DEF EstimateStatus
<1>8. CASE blocking # "none"
  BY <1>2, <1>6, <1>7, <1>8 DEF Estimated, Unestimated
<1>9. CASE blocking = "none" /\ paid + high > MaxSafe
  BY <1>6, <1>7, <1>9 DEF Estimated, Unestimated, Statuses
<1>10. CASE blocking = "none" /\ ~(paid + high > MaxSafe)
  BY <1>1, <1>3, <1>4, <1>6, <1>7, <1>10, ComparisonAssumption DEF Estimated, Statuses
<1> QED
  BY <1>8, <1>9, <1>10

\* The rate that is applied is one the product pays.
LEMMA AppliedRateFacts ==
    ASSUME NEW products \in Catalogs, NEW offer \in AllOffers(products), NEW given
    PROVE  AppliedRate(products, offer, given) \in Nat /\ AppliedRate(products, offer, given) <= offer.option.max
<1>1. /\ IsCatalog(products)
      /\ offer.option.base \in Nat /\ offer.option.max \in Nat
      /\ IsUsable(products[offer.product]) => offer \in OfferOf(products, Terms(products))
  BY AllOfferFacts
<1>2. PICK judged : judged = ConditionAnswers(products[offer.product], given)
  OBVIOUS
<1>3. CASE IsUsable(products[offer.product])
  <2>1. AppliedRate(products, offer, given) = Rate(products, offer, judged)
    BY <1>2, <1>3, Zenon DEF AppliedRate
  <2>2. PICK points \in Nat : points = Points("ELIGIBLE", products, offer, judged)
    BY <1>1, <1>3, PointsFacts
  <2>3. Rate(products, offer, judged) = Lower(offer.option.base + points, offer.option.max)
    BY <2>2 DEF Rate
  <2> QED
    BY <1>1, <2>1, <2>3 DEF Lower
<1>4. CASE ~IsUsable(products[offer.product])
  <2>1. AppliedRate(products, offer, given) = Lower(offer.option.base, offer.option.max)
    BY <1>4, Zenon DEF AppliedRate
  <2> QED
    BY <1>1, <2>1 DEF Lower
<1> QED
  BY <1>3, <1>4

\* A reply that the client sends has a number where it says so.
LEMMA AnswersTyped ==
    ASSUME InterviewInv, NEW key \in Keys
    PROVE  answers[key].kind = "number" => answers[key].number \in Nat
<1>1. answers[key] = Unanswered \/ answers[key] \in Replies[key]
  BY DEF InterviewInv, TypeOK
<1> QED
  BY <1>1, InterviewAssumption DEF Unanswered

\* Nobody is shown more than the product's limit lets in or its highest rate
\* pays, and no amount is too large to be exact.
THEOREM EstimateAlwaysWithinProduct == Spec => []EstimateWithinProduct
<1>1. InterviewInv => EstimateWithinProduct
  <2> SUFFICES ASSUME InterviewInv, NEW compared \in Comparisons(catalog, answers)
               PROVE  LET estimate == compared.estimate
                          option == compared.offer.option
                          limit == catalog[compared.offer.product].limit
                      IN  /\ Planned(estimate.deposit, limit) = estimate.deposit
                          /\ estimate.deposit * option.term <= estimate.maturity
                          /\ estimate.maturity <= estimate.atMaxRate
                          /\ estimate.atMaxRate <= MaxSafe
                          /\ estimate.deposit # 0 => compared.eligibility # "NOT_ELIGIBLE"
    BY DEF EstimateWithinProduct
  <2> PICK offer \in AllOffers(catalog) : compared = Compared(catalog, offer, answers)
    BY DEF Comparisons
  <2>1. catalog \in Catalogs
    BY DEF InterviewInv, TypeOK
  <2>2. PICK product : product = catalog[offer.product]
    OBVIOUS
  <2>3. PICK option : option = offer.option
    OBVIOUS
  <2>4. /\ option.term \in Nat /\ option.max \in Nat
        /\ product.limit \in Nat \cup {Unlimited}
    BY <2>1, <2>2, <2>3, AllOfferFacts
  <2>5. PICK deposit : deposit = Deposit(answers)
    OBVIOUS
  <2>6. deposit.amount \in Nat
    BY <2>5, AnswersTyped, AnsweredAmountTyped, InterviewAssumption DEF Deposit
  <2>7. PICK rate \in Nat : rate = AppliedRate(catalog, offer, answers) /\ rate <= option.max
    BY <2>1, <2>3, AppliedRateFacts
  <2>8. PICK eligibility : eligibility = EligibilityStatus(catalog, offer, answers)
    OBVIOUS
  <2>9. PICK estimate : estimate = Estimate(product, option, deposit, rate, eligibility)
    OBVIOUS
  <2>10. compared.offer = offer /\ compared.estimate = estimate /\ compared.eligibility = eligibility
    BY <2>2, <2>3, <2>5, <2>7, <2>8, <2>9, ComparedParts
  <2>11. PICK monthly \in Nat : monthly = Planned(deposit.amount, product.limit)
    BY <2>4, <2>6, PlannedFacts
  <2>12. PICK status : status = EstimateStatus(product, option, deposit, eligibility)
    OBVIOUS
  <2>13. /\ Estimated(estimate, status, monthly, option, rate)
         /\ status \in Statuses => BlockingReason(product, option, deposit, eligibility) = "none"
    BY <2>4, <2>7, <2>9, <2>11, <2>12, EstimateParts
  <2>14. PICK low \in Nat, high \in Nat :
           /\ low = Interest(monthly, option, rate)
           /\ high = Interest(monthly, option, option.max)
           /\ low <= high
    BY <2>4, <2>7, InterestGrows
  <2>15. monthly * option.term \in Nat /\ 0 * option.term = 0
    BY <2>4
  <2>16. Planned(monthly, product.limit) = monthly /\ Planned(0, product.limit) = 0
    BY <2>4, <2>6, <2>11, PlannedFacts
  <2>17. BlockingReason(product, option, deposit, eligibility) = "none" => eligibility # "NOT_ELIGIBLE"
    BY DEF BlockingReason
  <2>18. /\ Planned(estimate.deposit, product.limit) = estimate.deposit
         /\ estimate.deposit * option.term <= estimate.maturity
         /\ estimate.maturity <= estimate.atMaxRate
         /\ estimate.atMaxRate <= MaxSafe
         /\ estimate.deposit # 0 => eligibility # "NOT_ELIGIBLE"
    <3>1. CASE status \in Statuses
      BY <2>13, <2>14, <2>15, <2>16, <2>17, <3>1 DEF Estimated
    <3>2. CASE status \notin Statuses
      BY <2>13, <2>15, <2>16, <3>2, ComparisonAssumption DEF Estimated
    <3> QED
      BY <3>1, <3>2
  <2> QED
    BY <2>2, <2>3, <2>10, <2>18
<1> QED
  BY <1>1, InterviewInvariant, PTL

\* At a higher rate there is as much at maturity.
LEMMA EstimateGrows ==
    ASSUME NEW option, option.term \in Nat, option.max \in Nat, NEW monthly \in Nat,
           NEW low \in Nat, NEW high \in Nat, low <= high, high <= option.max,
           NEW status, NEW before, Estimated(before, status, monthly, option, low),
           NEW after, Estimated(after, status, monthly, option, high)
    PROVE  /\ after.status = before.status
           /\ after.atMaxRate = before.atMaxRate
           /\ before.maturity \in Nat /\ after.maturity \in Nat /\ before.atMaxRate \in Nat
           /\ before.maturity <= after.maturity
           /\ after.maturity <= after.atMaxRate
<1>1. PICK paid \in Nat : paid = monthly * option.term
  OBVIOUS
<1>2. PICK x \in Nat, y \in Nat :
         x = Interest(monthly, option, low) /\ y = Interest(monthly, option, high) /\ x <= y
  BY InterestGrows
<1>3. PICK z \in Nat : z = Interest(monthly, option, option.max) /\ y <= z
  BY <1>2, InterestGrows
<1>4. CASE status \in Statuses
  <2>1. /\ before.maturity = paid + x /\ before.atMaxRate = paid + z /\ before.status = status
        /\ after.maturity = paid + y /\ after.atMaxRate = paid + z /\ after.status = status
    BY <1>1, <1>2, <1>3, <1>4, Zenon DEF Estimated
  <2> QED
    BY <1>2, <1>3, <2>1
<1>5. CASE status \notin Statuses
  <2>1. /\ before.maturity = 0 /\ before.atMaxRate = 0 /\ before.status = status
        /\ after.maturity = 0 /\ after.atMaxRate = 0 /\ after.status = status
    BY <1>5, Zenon DEF Estimated
  <2> QED
    BY <2>1
<1> QED
  BY <1>4, <1>5

\* What is kept of a goal when there is more at maturity.
LEMMA GoalHolds ==
    ASSUME NEW goal, goal.amount \in Nat, NEW before, NEW after,
           after.atMaxRate = before.atMaxRate,
           before.maturity \in Nat, after.maturity \in Nat, before.atMaxRate \in Nat,
           before.maturity <= after.maturity, after.maturity <= after.atMaxRate
    PROVE  /\ Shortfall(goal, after) <= Shortfall(goal, before)
           /\ Reach(goal, before) # "NO_GOAL" =>
                 ReachOrder[Reach(goal, after)] >= ReachOrder[Reach(goal, before)]
           /\ Reach(goal, before) = "SHORT" => Reach(goal, after) = "SHORT"
<1>1. Shortfall(goal, after) <= Shortfall(goal, before)
  BY DEF Shortfall
<1>2. /\ ReachOrder["SHORT"] = 1 /\ ReachOrder["REACHED_AT_MAX_RATE"] = 2 /\ ReachOrder["REACHED"] = 3
  BY DEF ReachOrder
<1>3. CASE Reach(goal, before) = "NO_GOAL"
  BY <1>1, <1>3
<1>4. CASE Reach(goal, before) = "REACHED"
  <2>1. Reach(goal, after) = "REACHED"
    BY <1>4 DEF Reach
  <2> QED
    BY <1>1, <1>2, <1>4, <2>1
<1>5. CASE Reach(goal, before) = "REACHED_AT_MAX_RATE"
  <2>1. Reach(goal, after) \in {"REACHED", "REACHED_AT_MAX_RATE"}
    BY <1>5 DEF Reach
  <2> QED
    BY <1>1, <1>2, <1>5, <2>1
<1>6. CASE Reach(goal, before) = "SHORT"
  <2>1. Reach(goal, after) = "SHORT"
    BY <1>6 DEF Reach
  <2> QED
    BY <1>1, <1>2, <1>6, <2>1
<1> QED
  BY <1>3, <1>4, <1>5, <1>6 DEF Reach

\* Whoever is found ineligible stays so, and the rate that is applied only
\* grows.
LEMMA AppliedRateGrows ==
    ASSUME NEW products \in Catalogs, NEW offer \in AllOffers(products),
           NEW given, NEW more, Extends(more, given)
    PROVE  /\ AppliedRate(products, offer, given) <= AppliedRate(products, offer, more)
           /\ EligibilityStatus(products, offer, given) = "NOT_ELIGIBLE" =>
                 EligibilityStatus(products, offer, more) = "NOT_ELIGIBLE"
<1>1. /\ IsCatalog(products)
      /\ offer.option.base \in Nat /\ offer.option.max \in Nat
      /\ IsUsable(products[offer.product]) => offer \in OfferOf(products, Terms(products))
  BY AllOfferFacts
<1>2. PICK product : product = products[offer.product]
  OBVIOUS
<1>3. PICK judged, further :
         judged = ConditionAnswers(product, given) /\ further = ConditionAnswers(product, more)
  OBVIOUS
<1>4. Extends(further, judged)
  BY <1>3, ConditionAnswersExtended
<1>5. /\ judged = ConditionAnswers(products[offer.product], given)
      /\ further = ConditionAnswers(products[offer.product], more)
  BY <1>2, <1>3
<1>6. /\ EligibilityStatus(products, offer, given) = "NOT_ELIGIBLE" <=>
            IsUsable(product) /\ Eligibility(products, offer, judged) = "NOT_ELIGIBLE"
      /\ EligibilityStatus(products, offer, more) = "NOT_ELIGIBLE" <=>
            IsUsable(product) /\ Eligibility(products, offer, further) = "NOT_ELIGIBLE"
  BY <1>2, <1>5, EligibilityStatusFacts
<1>7. CASE IsUsable(product)
  <2>1. offer \in OfferOf(products, Terms(products))
    BY <1>1, <1>2, <1>7
  <2>2. Rate(products, offer, judged) <= Rate(products, offer, further)
    BY <1>1, <1>4, <2>1, RatesNarrow
  <2>3. Eligibility(products, offer, judged) # "UNKNOWN" =>
           Eligibility(products, offer, further) = Eligibility(products, offer, judged)
    BY <1>1, <1>4, <2>1, EligibilityFacts
  <2>4. /\ AppliedRate(products, offer, given) = Rate(products, offer, judged)
        /\ AppliedRate(products, offer, more) = Rate(products, offer, further)
    BY <1>2, <1>3, <1>7, Zenon DEF AppliedRate
  <2> QED
    BY <1>6, <2>2, <2>3, <2>4
<1>8. CASE ~IsUsable(product)
  <2>1. AppliedRate(products, offer, given) = AppliedRate(products, offer, more)
    BY <1>2, <1>8, Zenon DEF AppliedRate
  <2>2. AppliedRate(products, offer, given) \in Nat
    BY AppliedRateFacts
  <2> QED
    BY <1>6, <1>8, <2>1, <2>2
<1> QED
  BY <1>7, <1>8

\* Whatever else the user answers makes the user ineligible or leaves the
\* estimate as high and the goal as near as it was.
THEOREM EstimateAlwaysHolds == Spec => []EstimateHolds
<1>1. InterviewInv => EstimateHolds
  <2> SUFFICES ASSUME InterviewInv,
                      NEW offer \in AllOffers(catalog), NEW key \in Keys \ {Monthly, GoalAmount},
                      NEW sum \in Goals, answers[key] = Unanswered, NEW reply \in Replies[key]
               PROVE  LET given == [answers EXCEPT ![GoalAmount] = Number(sum)]
                          before == Compared(catalog, offer, given)
                          after == Compared(catalog, offer, [given EXCEPT ![key] = reply])
                      IN  \/ after.estimate.status = "INELIGIBLE"
                          \/ /\ after.estimate.status = before.estimate.status
                             /\ after.estimate.atMaxRate = before.estimate.atMaxRate
                             /\ after.estimate.maturity >= before.estimate.maturity
                             /\ after.shortfall <= before.shortfall
                             /\ before.reach # "NO_GOAL" => ReachOrder[after.reach] >= ReachOrder[before.reach]
                             /\ before.reach = "SHORT" => after.reach = "SHORT"
    BY DEF EstimateHolds
  <2>1. PICK given : given = [answers EXCEPT ![GoalAmount] = Number(sum)]
    OBVIOUS
  <2>2. PICK more : more = [given EXCEPT ![key] = reply]
    OBVIOUS
  <2>3. /\ given[key] = Unanswered
        /\ more[Monthly] = given[Monthly] /\ more[GoalAmount] = given[GoalAmount]
        /\ given[Monthly] = answers[Monthly] /\ given[GoalAmount] = Number(sum)
        /\ Extends(more, given)
    <3>1. answers \in [Keys -> AnyReply]
      BY DEF InterviewInv
    <3>2. {Monthly, GoalAmount} \subseteq Keys /\ Monthly # GoalAmount
      BY InterviewAssumption DEF Monthly, GoalAmount
    <3>3. given[key] = Unanswered
      BY <2>1, <3>1
    <3>4. \A k \in Keys : given[k] = IF k = GoalAmount THEN Number(sum) ELSE answers[k]
      BY <2>1, <3>1
    <3>5. \A k \in Keys : more[k] = IF k = key THEN reply ELSE given[k]
      BY <2>1, <2>2, <3>1
    <3>6. Extends(more, given)
      BY <3>3, <3>5 DEF Extends
    <3> QED
      BY <3>2, <3>3, <3>4, <3>5, <3>6
  <2>4. catalog \in Catalogs
    BY DEF InterviewInv, TypeOK
  <2>5. PICK product, option : product = catalog[offer.product] /\ option = offer.option
    OBVIOUS
  <2>6. /\ option.term \in Nat /\ option.max \in Nat
        /\ product.limit \in Nat \cup {Unlimited}
    BY <2>4, <2>5, AllOfferFacts
  <2>7. PICK deposit : deposit = Deposit(given) /\ deposit = Deposit(more)
    BY <2>3 DEF Deposit
  <2>8. PICK goal : goal = AnsweredAmount(given[GoalAmount]) /\ goal = AnsweredAmount(more[GoalAmount])
    BY <2>3
  <2>9. goal.amount \in Nat
    <3>1. Number(sum).number \in Nat
      BY ComparisonAssumption DEF Number
    <3> QED
      BY <2>3, <2>8, <3>1, AnsweredAmountTyped
  <2>10. PICK monthly \in Nat : monthly = Planned(deposit.amount, product.limit)
    <3>1. answers[Monthly].kind = "number" => answers[Monthly].number \in Nat
      BY AnswersTyped, InterviewAssumption
    <3>2. deposit.amount \in Nat
      BY <2>3, <2>7, <3>1, AnsweredAmountTyped DEF Deposit
    <3> QED
      BY <2>6, <3>2, PlannedFacts
  <2>11. PICK low \in Nat, high \in Nat :
           /\ low = AppliedRate(catalog, offer, given) /\ high = AppliedRate(catalog, offer, more)
           /\ low <= high /\ high <= option.max /\ low <= option.max
    <3>1. /\ AppliedRate(catalog, offer, given) \in Nat /\ AppliedRate(catalog, offer, given) <= offer.option.max
          /\ AppliedRate(catalog, offer, more) \in Nat /\ AppliedRate(catalog, offer, more) <= offer.option.max
      BY <2>4, AppliedRateFacts
    <3>2. AppliedRate(catalog, offer, given) <= AppliedRate(catalog, offer, more)
      BY <2>3, <2>4, AppliedRateGrows
    <3> QED
      BY <2>5, <3>1, <3>2
  <2>12. PICK first, second :
           /\ first = EligibilityStatus(catalog, offer, given)
           /\ second = EligibilityStatus(catalog, offer, more)
    OBVIOUS
  <2>13. first = "NOT_ELIGIBLE" => second = "NOT_ELIGIBLE"
    BY <2>3, <2>4, <2>12, AppliedRateGrows
  <2>14. PICK before, after :
           /\ before = Estimate(product, option, deposit, low, first)
           /\ after = Estimate(product, option, deposit, high, second)
    OBVIOUS
  <2>15. PICK old, new :
           /\ old = EstimateStatus(product, option, deposit, first)
           /\ new = EstimateStatus(product, option, deposit, second)
    OBVIOUS
  <2>16. new = old \/ new = "INELIGIBLE"
    <3>1. \/ BlockingReason(product, option, deposit, second) = BlockingReason(product, option, deposit, first)
          \/ BlockingReason(product, option, deposit, second) = "INELIGIBLE"
      BY <2>13 DEF BlockingReason
    <3> QED
      BY <2>15, <3>1, Zenon DEF EstimateStatus
  <2>17. Estimated(before, old, monthly, option, low) /\ Estimated(after, new, monthly, option, high)
    BY <2>6, <2>10, <2>11, <2>14, <2>15, EstimateParts
  <2>18. PICK x, y : x = Compared(catalog, offer, given) /\ y = Compared(catalog, offer, more)
    OBVIOUS
  <2>19. /\ x.estimate = before /\ x.reach = Reach(goal, before) /\ x.shortfall = Shortfall(goal, before)
         /\ y.estimate = after /\ y.reach = Reach(goal, after) /\ y.shortfall = Shortfall(goal, after)
    <3>1. /\ x.estimate = Estimate(catalog[offer.product], offer.option, Deposit(given),
                                   AppliedRate(catalog, offer, given),
                                   EligibilityStatus(catalog, offer, given))
          /\ x.reach = Reach(AnsweredAmount(given[GoalAmount]), x.estimate)
          /\ x.shortfall = Shortfall(AnsweredAmount(given[GoalAmount]), x.estimate)
      BY <2>18, ComparedParts
    <3>2. /\ y.estimate = Estimate(catalog[offer.product], offer.option, Deposit(more),
                                   AppliedRate(catalog, offer, more),
                                   EligibilityStatus(catalog, offer, more))
          /\ y.reach = Reach(AnsweredAmount(more[GoalAmount]), y.estimate)
          /\ y.shortfall = Shortfall(AnsweredAmount(more[GoalAmount]), y.estimate)
      BY <2>18, ComparedParts
    <3>3. x.estimate = before /\ y.estimate = after
      BY <2>5, <2>7, <2>11, <2>12, <2>14, <3>1, <3>2
    <3> QED
      BY <2>8, <3>1, <3>2, <3>3
  <2>20. CASE new = "INELIGIBLE"
    <3>1. after.status = "INELIGIBLE"
      BY <2>17, <2>20 DEF Estimated
    <3> QED
      BY <2>1, <2>2, <2>18, <2>19, <3>1
  <2>21. CASE new = old
    <3>1. /\ after.status = before.status
          /\ after.atMaxRate = before.atMaxRate
          /\ before.maturity \in Nat /\ after.maturity \in Nat /\ before.atMaxRate \in Nat
          /\ before.maturity <= after.maturity
          /\ after.maturity <= after.atMaxRate
      BY <2>6, <2>11, <2>17, <2>21, EstimateGrows
    <3>2. /\ Shortfall(goal, after) <= Shortfall(goal, before)
          /\ Reach(goal, before) # "NO_GOAL" =>
                ReachOrder[Reach(goal, after)] >= ReachOrder[Reach(goal, before)]
          /\ Reach(goal, before) = "SHORT" => Reach(goal, after) = "SHORT"
      BY <2>9, <3>1, GoalHolds
    <3> QED
      BY <2>1, <2>2, <2>18, <2>19, <3>1, <3>2
  <2> QED
    BY <2>16, <2>20, <2>21
<1> QED
  BY <1>1, InterviewInvariant, PTL
=============================================================================
