----------------------------- MODULE MCInterview -----------------------------
(***************************************************************************)
(* Interview with three products of two banks.  Between them their         *)
(* conditions hold number, bank and yes-or-no fields, both group kinds, a  *)
(* nested and an empty group, a term and a monthly deposit; one is paid    *)
(* into by the week, and interest is computed in both ways.                *)
(***************************************************************************)
EXTENDS Comparison, TLC

CONSTANTS bankA, bankB

Age == <<"age">>
Salary == <<"salary_bank">>
Autopay == <<"autopay">>
CardA == <<"card_spend_at_product_bank", bankA>>
CardB == <<"card_spend_at_product_bank", bankB>>
Loan == <<"loan">>

MCKeys == {Months, Monthly, GoalAmount, Age, Salary, Autopay, CardA, CardB, Loan}

MCReplies ==
    [k \in MCKeys |->
        CASE k = Months -> {Number(12), Number(24), Skipped}
          [] k = Monthly -> {Number(0), Number(1000), Number(5000), Skipped}
          [] k = GoalAmount -> {Skipped}
          [] k = Age -> {Number(18), Number(30), Number(130), Skipped}
          [] k = Salary -> {BankList({bankA}), BankList({}), Skipped}
          [] k = Autopay -> {Word("yes"), Word("no"), Word("?")}
          [] k = CardA -> {Number(0), Number(30)}
          [] k = CardB -> {Number(30)}
          [] k = Loan -> {Word("yes"), Word("no")}]

Predicate(field, operator, values) ==
    [field |-> field, operator |-> operator, values |-> values]

LoanPredicate == [field |-> "other", operator |-> "ne", values |-> <<"yes">>, question |-> Loan]

MCCondition ==
    << Predicate("age", "between", <<19, 34>>),
       Group("all", <<1>>),
       Predicate("salary_bank", "eq", <<"PRODUCT_BANK">>),
       Predicate("autopay", "eq", <<"yes">>),
       Group("any", <<3, 4>>),
       Predicate("card_spend_at_product_bank", "gte", <<30>>),
       Group("all", <<5, 6>>),
       LoanPredicate,
       Predicate("salary_bank", "ne", <<"PRODUCT_BANK">>),
       Group("any", <<8, 9>>),
       Predicate("saving_term", "lte", <<12>>),
       Predicate("monthly_deposit", "lte", <<1500>>),
       Group("all", <<11, 12>>),
       Group("all", <<>>),
       Group("any", <<8, 12>>) >>

Option(term, base, max) == [term |-> term, base |-> base, max |-> max, calc |-> "simple"]
Compound(option) == [option EXCEPT !.calc = "compound"]
Bonus(points, condition) == [points |-> points, condition |-> condition]

Savings == [bank |-> bankA, limit |-> Unlimited, usable |-> TRUE, eligibility |-> 2,
            special |-> FALSE, checklist |-> FALSE,
            bonuses |-> <<Bonus(10, 7), Bonus(5, 10)>>,
            options |-> <<Compound(Option(12, 30, 45)), Option(24, 32, 40)>>]

\* Two ways of paying in for the same term, the second worse in every respect.
Deposits == [bank |-> bankB, limit |-> 2000, usable |-> TRUE, eligibility |-> 14,
             special |-> FALSE, checklist |-> FALSE,
             bonuses |-> <<Bonus(12, 10), Bonus(2, 13)>>,
             options |-> <<Option(12, 41, 44), Option(12, 30, 44)>>]

\* Its conditions are still to be extracted.
Pending == [bank |-> bankB, limit |-> 2000, usable |-> FALSE, eligibility |-> 14,
            special |-> FALSE, checklist |-> FALSE,
            bonuses |-> <<>>, options |-> <<Option(24, 90, 90)>>]

\* Paid into by the week; who joins must not have a loan or must save little.
Weekly == [Deposits EXCEPT !.special = TRUE, !.checklist = TRUE, !.eligibility = 15,
                           !.options = <<Option(12, 38, 60)>>]

MCCatalogs == {<<Savings, Deposits, Pending>>, <<Weekly>>, <<Pending>>}

\* The same term again, with less to begin with and more to gain.
Crossing == [Deposits EXCEPT !.options = <<Option(12, 33, 35), Option(12, 30, 44)>>]
Plain == [Savings EXCEPT !.bonuses = <<>>, !.eligibility = 14, !.options = <<Option(12, 40, 40)>>]

MCGoals == {12025, 24055, 60120}

MCCrossing == {<<Crossing, Plain>>}
=============================================================================
