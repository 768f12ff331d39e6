------------------------------- MODULE MCIntake -------------------------------
(***************************************************************************)
(* Intake on a small instance: two products on two pages.  The first one   *)
(* is published in many forms and gets answers of every kind, the second   *)
(* only shares the refresh with it.                                        *)
(***************************************************************************)
EXTENDS Intake

CONSTANTS p1, p2, b1, b2, adult, payroll, autopay, unit, pages, invented

\* The sentences of pages alone are more than an item holds.
MCOverLong == {{pages}}

MCProducts == <<p1, p2>>

Option(base, max) == [base |-> base, max |-> max]

Raw(product, bank, join, anyone, spcl, options) ==
    [product |-> product, bank |-> bank, join_member |-> join, anyone |-> anyone,
     spcl_cnd |-> spcl, etc_note |-> {unit}, options |-> options]

Wide == <<Option(250, 250), Option(200, 300), Option(200, NoRate)>>
Even == <<Option(200, 200)>>

\* With bonuses; without, in the two ways a disclosure says so; with a gap but
\* no text; without join member; without a rate; with inverted rates; with a
\* text too long for a checklist.
First == {Raw(p1, b1, {adult}, FALSE, {payroll, autopay}, Wide),
          Raw(p1, b1, {adult}, TRUE, {NoBonusWords}, Even),
          Raw(p1, b1, {adult}, TRUE, {NoneWords}, Wide),
          Raw(p1, b1, {}, FALSE, {payroll}, Wide),
          Raw(p1, b1, {adult}, FALSE, {payroll}, <<Option(200, NoRate)>>),
          Raw(p1, b1, {adult}, TRUE, {NoneWords}, <<Option(300, 200)>>),
          [Raw(p1, b1, {adult}, TRUE, {NoneWords}, Even) EXCEPT !.etc_note = {pages}]}
Bonused == Raw(p1, b1, {adult}, FALSE, {payroll, autopay}, Wide)
Second == Raw(p2, b2, {adult}, TRUE, {NoneWords}, Even)

MCPublications ==
    {[companies |-> <<b1, b2>>, products |-> <<f, Second>>] : f \in First} \cup
    {[companies |-> <<b1>>, products |-> <<Bonused>>],
     [companies |-> <<b1>>, products |-> <<Bonused, [Bonused EXCEPT !.options = Even]>>],
     [companies |-> <<b2, b1>>, products |-> <<Second, Bonused>>]}

Predicate(field, operator, values, from, text) ==
    [field |-> field, operator |-> operator, values |-> values, asks |-> FALSE,
     quote |-> Quote(from, text)]

Adult == Predicate("age", "gte", <<Value("int", 19)>>, "join_member", {adult})
Payroll == Predicate("salary_bank", "eq", <<Value("text", "PRODUCT_BANK")>>, "spcl_cnd", {payroll})
Autopay == Predicate("autopay", "eq", <<Value("truth", TRUE)>>, "spcl_cnd", {autopay})

One(p) == Group("all", <<p>>)
Bonus(points, condition) == [points |-> points, condition |-> condition]

Eligibilities ==
    {NoConditions, Group("any", <<>>), One(Adult), Group("all", <<Adult, One(Autopay)>>),
     One([Adult EXCEPT !.quote = Quote("join_member", {invented})]),
     One([Adult EXCEPT !.quote = Quote("join_member", {})]),
     One([Adult EXCEPT !.quote = Quote("join_ways", {adult})]),
     One([Adult EXCEPT !.field = "residence"]),
     One([Adult EXCEPT !.values = <<Value("numeral", 19)>>]),
     One([Adult EXCEPT !.values = <<Value("int", 121)>>])}

Bonuses ==
    {<<>>, <<Bonus(60, One(Payroll))>>, <<Bonus(60, One(Payroll)), Bonus(60, One(Autopay))>>,
     <<Bonus(40, One(Payroll)), Bonus(60, One(Autopay))>>,
     <<Bonus(60, Group("all", <<Payroll, Autopay>>))>>, <<Bonus(60, NoConditions)>>,
     <<Bonus(60, Group("all", <<Payroll, Group("any", <<Autopay, Adult>>)>>))>>,
     <<Bonus(60, One([Payroll EXCEPT !.quote = Quote("spcl_cnd", {invented})]))>>,
     <<Bonus(60, One([Payroll EXCEPT !.quote = Quote("spcl_cnd", {})]))>>}

Few == {<<>>, <<Bonus(60, One(Payroll))>>}

Answer(eligibility, bonuses, unresolved, status, other_eligibility, other_bonus, stray) ==
    [eligibility |-> eligibility, bonuses |-> bonuses, unresolved |-> unresolved,
     status |-> status, other_eligibility |-> other_eligibility,
     other_bonus |-> other_bonus, stray |-> stray]

MCAnswers ==
    (p1 :> {Answer(e, b, {}, s, {}, {}, {}) :
              e \in Eligibilities, b \in Few, s \in Statuses \cup {"PARTLY"}} \cup
           {Answer(One(Adult), b, u, s, {}, {}, {}) :
              b \in Bonuses, u \in {{}, {Quote("spcl_cnd", {autopay})}}, s \in Statuses} \cup
           {Answer(e, b, {}, s, i, j, t) :
              e \in {NoConditions, One(Adult)}, b \in Few, s \in {"AVAILABLE", "UNKNOWN"},
              i \in {{}, {{adult}}, {{invented}}}, j \in {{}, {{payroll}}, {{invented}}},
              t \in {{}, {"eligibility"}, {"bonuses"}, {"response"}}}) @@
    (p2 :> {Answer(NoConditions, <<>>, {}, "NO_BONUS", {}, {}, {})})

Conditions(eligibility, bonuses, other_eligibility, other_bonus, status) ==
    [eligibility |-> eligibility, bonuses |-> bonuses, unresolved |-> {}, other |-> {},
     other_eligibility |-> other_eligibility, other_bonus |-> other_bonus, status |-> status]

MCManual ==
    {Conditions(One(Adult), <<Bonus(50, One(Payroll))>>, {}, {{autopay}}, "CHECKLIST"),
     Conditions(NoConditions, <<>>, {{adult}}, {}, "NO_BONUS")}
=============================================================================
