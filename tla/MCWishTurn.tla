------------------------------ MODULE MCWishTurn ------------------------------
(***************************************************************************)
(* WishTurn with up to three products of two terms, of which one has an    *)
(* age condition and one a bonus for automatic payment.                    *)
(***************************************************************************)
EXTENDS WishTurn, TLC

CONSTANTS bankA, bankB

Age == <<"age">>
Autopay == <<"autopay">>
Invented == <<"invented">>

MCKeys == {Months, Monthly, GoalAmount, Age, Autopay}

MCReplies ==
    [k \in MCKeys |->
        CASE k = Months -> {Number(12), Number(24), Skipped}
          [] k \in {Monthly, GoalAmount} -> {Number(10)}
          [] k = Age -> {Number(18), Number(30), Skipped}
          [] k = Autopay -> {Word("yes"), Skipped}]

MCNumeric == {Months, Monthly, GoalAmount, Age}

MCReadings ==
    {<<>>,
     <<Read(Months, Number(7)), Read(Monthly, Number(10)), Read(Invented, Word("yes"))>>,
     <<Read(Months, Number(12)), Read(Months, Number(24)), Read(GoalAmount, Number(10))>>,
     <<Read(Age, Word("?")), Read(Autopay, Word("?"))>>,
     <<Read(Age, Number(130)), Read(Autopay, Word("yes"))>>}

MCNamings == {<<>>, <<1, 1>>, <<2, 0, 1>>, <<3, 2>>}

Predicate(field, operator, values) ==
    [field |-> field, operator |-> operator, values |-> values]

MCCondition ==
    << Predicate("age", "between", <<19, 34>>),
       Predicate("autopay", "eq", <<"yes">>),
       Group("all", <<>>) >>

Option(term, base, max) == [term |-> term, base |-> base, max |-> max]
Bonus(points, condition) == [points |-> points, condition |-> condition]

Young == [bank |-> bankA, limit |-> Unlimited, usable |-> TRUE, eligibility |-> 1,
          bonuses |-> <<>>, options |-> <<Option(12, 50, 50), Option(24, 48, 48)>>]
Auto == [bank |-> bankB, limit |-> 20, usable |-> TRUE, eligibility |-> 3,
         bonuses |-> <<Bonus(9, 2)>>, options |-> <<Option(12, 40, 49)>>]
Plain == [bank |-> bankB, limit |-> 20, usable |-> TRUE, eligibility |-> 3,
          bonuses |-> <<>>, options |-> <<Option(12, 41, 41), Option(24, 42, 42)>>]

MCCatalogs == {<<Young, Auto, Plain>>, <<Auto>>, <<[Plain EXCEPT !.usable = FALSE]>>}
=============================================================================
