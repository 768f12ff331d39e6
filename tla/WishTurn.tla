------------------------------- MODULE WishTurn -------------------------------
(***************************************************************************)
(* POST /api/v1/wishes, turn after turn: the user writes a sentence or     *)
(* presses a button, and the server answers with the next question or with *)
(* a ranking the AI ordered for the user's situation                       *)
(* (WishStructureService, WishRankingService, WishLlmParser,               *)
(* WishLlmRanker).                                                         *)
(*                                                                         *)
(* A turn is a chain of steps with an await between any two, in which a    *)
(* refresh may replace the catalogue and an AI call or the process may     *)
(* fail.  The server keeps nothing of a turn but the row of the sentence:  *)
(* the client sends all its answers again.                                 *)
(***************************************************************************)
EXTENDS QuestionFlow

CONSTANTS
    Catalogs,       \* product lists the source may return
    Replies,        \* [Keys -> what a button or field of the question may send]
    Readings,       \* answers the AI may read in a sentence: sequences of Read
    Codes,          \* codes of the questions the AI is told of
    NumericCodes,   \* those that are answered by a number
    Namings,        \* rankings the AI may return: sequences of places, 0 an invented product
    CandidateSize,  \* _CANDIDATE_SIZE
    MaxMessages,    \* bound: sentences
    MaxFailures,    \* bound: turns that fail
    MaxRefreshes,   \* bound: replacements of the catalogue
    None            \* no sentence, no row

Kinds == {"unanswered", "skipped", "number", "word", "banks"}

\* The first questions are among those of the client; a field for a number
\* sends digits, what the AI reads in a sentence may be anything.
ASSUME WishAssumption ==
    /\ {Months, Monthly, GoalAmount} \subseteq Keys /\ NoKey \notin Keys
    /\ \A k \in Keys : \A reply \in Replies[k] :
          reply.kind \in (IF k \in NumericCodes THEN {"skipped", "number"} ELSE Kinds)
    /\ \A reading \in Readings :
          IsList(reading) /\ \A r \in ToSet(reading) : r.reply.kind \in Kinds
    /\ \A naming \in Namings : IsList(naming)
    /\ \A products \in Catalogs : IsCatalog(products)
    /\ {ResultSize, CandidateSize, MaxMessages, MaxFailures, MaxRefreshes} \subseteq Nat

VARIABLES
    catalog,    \* what SavingProductsSource.get returns
    refreshes,  \* replacements so far
    answers,    \* the answers the client holds: [Keys -> reply or Unanswered]
    messages,   \* sentences sent so far
    response,   \* the last response the client received
    turn,       \* the turn the server works on
    wishes,     \* the rows of user_wish: what was read in each sentence
    failures    \* failed turns so far

world == <<catalog, refreshes>>
client == <<answers, messages, response>>
vars == <<world, client, turn, wishes, failures>>

Read(code, reply) == [code |-> code, reply |-> reply]

\* reading: what a sentence was structured to, None in a turn without one.
\* asOf: the replacements when the step was decided.
Turn(at, reading, wish, step, candidates, asOf) ==
    [at |-> at, reading |-> reading, wish |-> wish, step |-> step,
     candidates |-> candidates, asOf |-> asOf]

NoAnswers == [k \in Keys |-> Unanswered]

NoStep == [status |-> "none"]
NoTurn == Turn("idle", None, None, NoStep, <<>>, 0)

Response(next, ranked, reading, wish) ==
    [next |-> next, ranked |-> ranked, reading |-> reading, wish |-> wish]

NoResponse == Response(NoStep, <<>>, None, None)

Numeric(reply) == reply.kind = "number"

\* Answers to numeric questions are numbers, also those that were read in a
\* sentence; the rest of the flow never looks at them again.
TypeOK ==
    /\ catalog \in Catalogs
    /\ refreshes \in 0..MaxRefreshes
    /\ \A k \in Keys : answers[k].kind \in Kinds
    /\ \A k \in Keys \cap NumericCodes :
          answers[k].kind \in {"unanswered", "skipped"} \/ Numeric(answers[k])
    /\ messages \in 0..MaxMessages
    /\ turn.at \in {"idle", "parse", "save", "decide", "reply", "collect", "rank"}
    /\ response.ranked \in Seq(Row)
    /\ Len(wishes) <= messages
    /\ failures \in 0..MaxFailures

Init ==
    /\ catalog \in Catalogs
    /\ refreshes = 0
    /\ answers = NoAnswers
    /\ messages = 0
    /\ response = NoResponse
    /\ turn = NoTurn
    /\ wishes = <<>>
    /\ failures = 0

-----------------------------------------------------------------------------
(* The client *)

\* A turn with a new sentence.
Say ==
    /\ turn = NoTurn
    /\ messages < MaxMessages
    /\ messages' = messages + 1
    /\ turn' = [turn EXCEPT !.at = "parse"]
    /\ UNCHANGED <<world, answers, response, wishes, failures>>

\* A turn without one: the question is answered by its button or field, or the
\* conversation is opened, or tried again after an error.
Press ==
    /\ turn = NoTurn
    /\ \/ /\ response.next.status = "question"
          /\ LET key == response.next.key
             IN  \E reply \in Replies[key] :
                    /\ key = Months =>
                          reply \in {Skipped} \cup {Number(t) : t \in response.next.terms}
                    /\ answers' = [answers EXCEPT ![key] = reply]
       \/ /\ response.next.status = "none"
          /\ UNCHANGED answers
    /\ turn' = [turn EXCEPT !.at = "decide"]
    /\ UNCHANGED <<world, messages, response, wishes, failures>>

-----------------------------------------------------------------------------
(* WishLlmParser.parse *)

\* keep_known: an answer to a question nobody asks goes to the unmapped items.
KeepKnown(reading) == Selected(reading, {n \in DOMAIN reading : reading[n].code \in Codes})

\* A mutant of KeepNumeric: the answer is kept as it was read.
KeepAnyValue(reading) == reading

\* keep_numeric: an answer that makes no number is dropped.
KeepNumeric(reading) ==
    Selected(reading, {n \in DOMAIN reading :
                          reading[n].code \notin NumericCodes \/ Numeric(reading[n].reply)})

Parse ==
    /\ turn.at = "parse"
    /\ \E reading \in Readings :
          turn' = [turn EXCEPT !.at = "save", !.reading = KeepNumeric(KeepKnown(reading))]
    /\ UNCHANGED <<world, client, wishes, failures>>

-----------------------------------------------------------------------------
(* WishStructureService.structure *)

\* A mutant of SaveWish: the number is taken before the row has one.
SaveWishUnflushed ==
    /\ turn.at = "save"
    /\ wishes' = Append(wishes, turn.reading)
    /\ turn' = [turn EXCEPT !.at = "decide", !.wish = Len(wishes)]
    /\ UNCHANGED <<world, client, failures>>

\* The row is committed before anything is decided about it.
SaveWish ==
    /\ turn.at = "save"
    /\ wishes' = Append(wishes, turn.reading)
    /\ turn' = [turn EXCEPT !.at = "decide", !.wish = Len(wishes) + 1]
    /\ UNCHANGED <<world, client, failures>>

\* The last of the answers read for each of the codes, over the prior ones.
ReadInto(codes, prior, reading) ==
    FoldLeft(LAMBDA given, r : IF r.code \in codes THEN [given EXCEPT ![r.code] = r.reply] ELSE given,
             prior, IF reading = None THEN <<>> ELSE reading)

\* A mutant of Merge: what was read last wins.
MergeReadingWins(prior, reading) == ReadInto(Keys, prior, reading)

\* What was read counts unless the client had an answer.
Merge(prior, reading) ==
    LET read == ReadInto(Keys, NoAnswers, reading)
    IN  [key \in Keys |-> IF prior[key] = Unanswered THEN read[key] ELSE prior[key]]

\* The client adds what was read in its sentence to the answers it holds, and
\* keeps the ones it has.
Adopt(reading) == ReadInto({key \in Keys : answers[key] = Unanswered}, answers, reading)

Respond(ranked) ==
    /\ response' = Response(turn.step, ranked, turn.reading, turn.wish)
    /\ answers' = Adopt(turn.reading)
    /\ turn' = NoTurn
    /\ UNCHANGED <<world, messages, wishes, failures>>

\* Nothing that can be compared is an error and not a step.
DecideNext ==
    /\ turn.at = "decide"
    /\ \E step \in {Decide(catalog, Merge(answers, turn.reading))} :
          \/ /\ step = Unavailable
             /\ response' = Response(Unavailable, <<>>, None, None)
             /\ turn' = NoTurn
          \/ /\ step # Unavailable
             /\ turn' = [turn EXCEPT !.at = IF step.status = "question" THEN "reply" ELSE "collect",
                                     !.step = step, !.asOf = refreshes]
             /\ UNCHANGED response
    /\ UNCHANGED <<world, answers, messages, wishes, failures>>

\* The AI words the reply to a sentence; a button turn waits for nothing.
QuestionTurn ==
    /\ turn.at = "reply"
    /\ Respond(<<>>)

\* An AI call, the database or the process fails: the client receives an error,
\* tries again with the answers it holds, and a wish that was saved remains.
Fail ==
    /\ turn # NoTurn
    /\ failures < MaxFailures
    /\ failures' = failures + 1
    /\ response' = NoResponse
    /\ turn' = NoTurn
    /\ UNCHANGED <<world, answers, messages, wishes>>

-----------------------------------------------------------------------------
(* WishRankingService *)

\* A term that is not offered any more compares every term.
RankedTerms(products, given) ==
    LET chosen == IF Numeric(given[Months]) THEN {given[Months].number} ELSE {}
    IN  IF chosen # {} /\ chosen \subseteq Terms(products) THEN chosen ELSE Terms(products)

\* A mutant of Joinable: eligibility is not looked at again.
JoinableAll(products, offers, given) == offers

\* Only what is certainly out of reach is left out.
Joinable(products, offers, given) ==
    Selected(offers, {n \in DOMAIN offers : Eligibility(products, offers[n], given) # "NOT_ELIGIBLE"})

CandidateRows(products, given) ==
    LET offers == Checked(products, RankedTerms(products, given))
        ranking == Ranking(products, Joinable(products, offers, given), given)
    IN  [k \in 1..Lower(Len(ranking), CandidateSize) |-> RankedRow(products, ranking[k], given)]

\* The products are read again; without a candidate no AI is asked.
Collect ==
    /\ turn.at = "collect"
    /\ \E candidates \in {CandidateRows(catalog, Merge(answers, turn.reading))} :
          \/ candidates = <<>> /\ Respond(<<>>)
          \/ /\ candidates # <<>>
             /\ turn' = [turn EXCEPT !.at = "rank", !.candidates = candidates]
             /\ UNCHANGED <<world, client, wishes, failures>>

\* A mutant of Reorder: a product may be named twice.
ReorderRepeating(candidates, naming) ==
    LET named == SelectSeq(naming, LAMBDA n : n \in DOMAIN candidates)
        missed == Selected([n \in DOMAIN candidates |-> n], DOMAIN candidates \ ToSet(named))
    IN  [k \in DOMAIN (named \o missed) |-> candidates[(named \o missed)[k]]]

\* _merge: products the AI invented or repeats are dropped, those it left out
\* follow in the order of their rates.
Reorder(candidates, naming) ==
    LET named == FoldLeft(LAMBDA seen, n : IF n \in DOMAIN candidates /\ n \notin ToSet(seen)
                                             THEN Append(seen, n) ELSE seen,
                          <<>>, naming)
        missed == Selected([n \in DOMAIN candidates |-> n], DOMAIN candidates \ ToSet(named))
        order == named \o missed
    IN  [k \in DOMAIN order |-> candidates[order[k]]]

\* Whatever goes wrong while the AI ranks, the result of the rules is sent.
RankTurn ==
    /\ turn.at = "rank"
    /\ \/ \E naming \in Namings : Respond(Reorder(turn.candidates, naming))
       \/ Respond(<<>>)

-----------------------------------------------------------------------------
Refresh ==
    /\ refreshes < MaxRefreshes
    /\ refreshes' = refreshes + 1
    /\ \E products \in Catalogs \ {catalog} : catalog' = products
    /\ UNCHANGED <<client, turn, wishes, failures>>

Serve == Parse \/ SaveWish \/ DecideNext \/ QuestionTurn \/ Collect \/ RankTurn

Next == Say \/ Press \/ Serve \/ Fail \/ Refresh

Spec == Init /\ [][Next]_vars

\* Every turn gets its response or its error, which is weak fairness of Serve,
\* and a user who has said what there is to say goes on pressing buttons.
FairSpec == Spec /\ []<>(turn = NoTurn) /\ WF_vars(Press)

-----------------------------------------------------------------------------
(* Properties *)

\* Whatever order the AI returns, with products it invents, repeats or leaves
\* out: every candidate is ranked exactly once, with the rate of the rules, and
\* those the AI did not name come last, the best rate first.
EveryCandidateRankedOnce ==
    [][turn.at = "rank" /\ turn'.at = "idle" /\ response'.ranked # <<>> /\ failures' = failures =>
        LET ranked == response'.ranked
        IN  /\ Len(ranked) = Len(turn.candidates)
            /\ ToSet(ranked) = ToSet(turn.candidates)
            /\ \E named \in 0..Len(ranked) :
                  \A i, j \in (named + 1)..Len(ranked) : i < j => ranked[i].rate >= ranked[j].rate]_vars

\* Where both reads saw the same catalogue the two lists of a response agree: a
\* row of the rules is in the list of the AI, unless that is full with products
\* at least as good, and what the list of the AI has more is open to join.
ListsAgree ==
    [][turn.at = "rank" /\ turn'.at = "idle" /\ response'.ranked # <<>> /\ turn.asOf = refreshes
        /\ failures' = failures =>
        LET ranked == ToSet(response'.ranked)
            rows == ToSet(response'.next.rows)
        IN  /\ \A row \in rows : row \in ranked \/
                  Cardinality({r \in ranked : r.rate >= row.rate}) = CandidateSize
            /\ \A r \in ranked \ rows :
                  \/ Len(response'.next.rows) = ResultSize
                  \/ \E offer \in ToSet(Checked(catalog, {r.term})) :
                        /\ offer.product = r.product
                        /\ Eligibility(catalog, offer, answers') = "UNKNOWN"]_vars

\* The question a response asks is open in the answers the client holds after
\* it, those that were read in its sentence included: server and client never
\* part over what has been answered.
AskedIsOpen ==
    turn = NoTurn /\ response.next.status = "question" =>
        \/ answers[response.next.key] = Unanswered
        \/ /\ response.next.key = Months
           /\ answers[Months] \notin {Skipped} \cup {Number(t) : t \in response.next.terms}

\* A sentence a response answers is in the table with what the response says
\* was read in it, also when turns failed between.
WishKept ==
    response.wish # None =>
        response.wish \in DOMAIN wishes /\ wishes[response.wish] = response.reading

\* The conversation comes to its ranking (or to the error that there is nothing
\* to compare), whatever the AI reads, however often it fails or ranks badly.
ConversationEnds == <>[](turn = NoTurn /\ response.next.status \in {"done", "unavailable"})
=============================================================================
