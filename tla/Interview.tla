------------------------------- MODULE Interview -------------------------------
(***************************************************************************)
(* POST /api/v1/questions/next, request after request.  The server keeps   *)
(* nothing: the client sends all answers so far and receives the next      *)
(* question or the ranking.  Between two requests the client may change an *)
(* answer it gave, and the cached catalogue may be replaced by a refreshed *)
(* one.                                                                    *)
(***************************************************************************)
EXTENDS QuestionFlow

CONSTANTS
    Catalogs,     \* product lists the source may return, in their order
    Replies,      \* [Keys -> what the user may answer]
    MaxRevisions, \* bound: answers changed
    MaxRefreshes  \* bound: replacements of the catalogue

\* The first questions are among those of the client, and a number it sends is
\* one of digits.
ASSUME InterviewAssumption ==
    /\ {Months, Monthly, GoalAmount} \subseteq Keys
    /\ \A k \in Keys : \A reply \in Replies[k] : reply.kind = "number" => reply.number \in Nat
    /\ \A products \in Catalogs : IsCatalog(products)
    /\ {ResultSize, MaxRevisions, MaxRefreshes} \subseteq Nat

VARIABLES
    catalog,    \* what SavingProductsSource.get returns: a sequence of products
    answers,    \* the answers the client sends: [Keys -> reply or Unanswered]
    response,   \* the last response, or "requested" while there is none
    revisions,  \* answers changed so far
    refreshes   \* replacements so far

vars == <<catalog, answers, response, revisions, refreshes>>

Requested == [status |-> "requested"]

TypeOK ==
    /\ catalog \in Catalogs
    /\ \A k \in Keys : answers[k] = Unanswered \/ answers[k] \in Replies[k]
    /\ \/ response \in {Requested, Unavailable}
       \/ /\ response.status = "question"
          /\ response.key \in Keys
          /\ response.terms \subseteq Nat
       \/ response.status = "done" /\ response.rows \in Seq(Row)
    /\ revisions \in 0..MaxRevisions
    /\ refreshes \in 0..MaxRefreshes

Init ==
    /\ catalog \in Catalogs
    /\ answers = [k \in Keys |-> Unanswered]
    /\ response = Requested
    /\ revisions = 0
    /\ refreshes = 0

-----------------------------------------------------------------------------
NextStep ==
    /\ response = Requested
    /\ response' = Decide(catalog, answers)
    /\ UNCHANGED <<catalog, answers, revisions, refreshes>>

\* The term is chosen from the options of the question; the others are typed.
Answer ==
    /\ response.status = "question"
    /\ \E reply \in Replies[response.key] :
          /\ response.key = Months =>
                reply \in {Skipped} \cup {Number(t) : t \in response.terms}
          /\ answers' = [answers EXCEPT ![response.key] = reply]
    /\ response' = Requested
    /\ UNCHANGED <<catalog, revisions, refreshes>>

Revise(key) ==
    /\ response # Requested
    /\ revisions < MaxRevisions
    /\ answers[key] # Unanswered
    /\ revisions' = revisions + 1
    /\ \E reply \in Replies[key] \ {answers[key]} : answers' = [answers EXCEPT ![key] = reply]
    /\ response' = Requested
    /\ UNCHANGED <<catalog, refreshes>>

\* The cache is replaced; a client with a result is not told.
Refresh ==
    /\ refreshes < MaxRefreshes
    /\ refreshes' = refreshes + 1
    /\ \E products \in Catalogs \ {catalog} : catalog' = products
    /\ UNCHANGED <<answers, response, revisions>>

Next ==
    \/ NextStep
    \/ Answer
    \/ \E key \in Keys : Revise(key)
    \/ Refresh

Spec == Init /\ [][Next]_vars

\* Every request gets its response, which is weak fairness of NextStep, and
\* the user goes on answering.
FairSpec == Spec /\ []<>(response # Requested) /\ WF_vars(Answer)

-----------------------------------------------------------------------------
(* Properties *)

Ended == response.status \in {"done", "unavailable"}

\* The interview ends: no chain of questions goes on for ever, whatever is
\* skipped, misunderstood, changed or refreshed on the way.
InterviewEnds == <>[]Ended

\* A question is not asked again once it has an answer, be it one that was not
\* understood.  Only a term that is not offered is asked for again.
NeverAskedTwice ==
    response.status = "question" /\ answers[response.key] # Unanswered =>
        /\ response.key = Months
        /\ answers[Months] \notin {Skipped} \cup {Number(t) : t \in response.terms}

Offers(products) == ToSet(Checked(products, Terms(products)))

\* Another answer never takes back what the earlier ones decided: eligibility
\* that is settled stays so, and the rate and the possible rate of every offer
\* close in on each other.  The ranking asks no further because of this.
BoundsNarrow ==
    response = Requested =>
        \A offer \in Offers(catalog), key \in Keys : answers[key] = Unanswered =>
            \A reply \in Replies[key] :
                LET more == [answers EXCEPT ![key] = reply]
                    before == Eligibility(catalog, offer, answers)
                IN  /\ before # "UNKNOWN" => Eligibility(catalog, offer, more) = before
                    /\ Rate(catalog, offer, answers) <= Rate(catalog, offer, more)
                    /\ Rate(catalog, offer, more) <= PossibleRate(catalog, offer, more)
                    /\ PossibleRate(catalog, offer, more) <= PossibleRate(catalog, offer, answers)

\* What the user could have answered by the end, with these answers given.
Completions(given) ==
    FoldSet(LAMBDA key, some : UNION {{[a EXCEPT ![key] = reply] : reply \in Replies[key]} : a \in some},
            {given}, {key \in Keys : given[key] = Unanswered})

\* Once the ranking is shown, no answer to a question that was not asked puts a
\* better offer before the user than the first place.
FirstPlaceFinal ==
    [][response = Requested /\ response'.status = "done" =>
        LET offers == Checked(catalog, SelectedTerms(catalog, answers))
        IN  \A all \in Completions(answers) :
                \A offer \in ToSet(Candidates(catalog, offers, all)) :
                    /\ response'.rows # <<>>
                    /\ Rate(catalog, offer, all) <= response'.rows[1].rate]_vars

\* A condition is decided as soon as the answers decide it, and only then:
\* exactly when no facts about the open predicates could turn it.
JudgesExactly ==
    response = Requested =>
        \A offer \in Offers(catalog) :
            LET product == catalog[offer.product]
                context == Context(product, offer.option)
            IN  \A c \in {product.eligibility} \cup {b.condition : b \in ToSet(product.bonuses)} :
                    Evaluate(c, answers, context) = Judgement(c, answers, context)
=============================================================================
