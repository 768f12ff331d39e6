---------------------------- MODULE WishTurnProofs ----------------------------
(***************************************************************************)
(* Theorems of WishTurn, for every catalogue, every reading and ranking of *)
(* the AI and any number of sentences, failures and refreshes.             *)
(***************************************************************************)
EXTENDS WishTurn, QuestionFlowProofs

-----------------------------------------------------------------------------
(* The row of a sentence *)

\* What may be left of an answer of the AI about a sentence.
Kept == {KeepNumeric(KeepKnown(reading)) : reading \in Readings}

\* Between the commit of the sentence and the response the row does not change
\* any more, and what the turn knows of it is what the row says.
TurnKnowsWish ==
    /\ turn = Turn(turn.at, turn.reading, turn.wish, turn.step, turn.candidates, turn.asOf)
    /\ wishes \in Seq(Kept)
    /\ turn.at = "save" => turn.reading \in Kept
    /\ turn.at \in {"parse", "save"} => turn.wish = None
    /\ turn.wish # None => turn.wish \in DOMAIN wishes /\ wishes[turn.wish] = turn.reading

WishInv == TurnKnowsWish /\ WishKept

\* The response names the row and the reading of its turn.
LEMMA RespondKeeps ==
    ASSUME WishInv, NEW ranked, Respond(ranked)
    PROVE  WishInv'
<1>1. response'.wish = turn.wish /\ response'.reading = turn.reading
  BY DEF Respond, Response
<1>2. turn' = NoTurn /\ wishes' = wishes
  BY DEF Respond
<1>3. TurnKnowsWish'
  BY <1>2 DEF WishInv, TurnKnowsWish, NoTurn, Turn
<1>4. WishKept'
  BY <1>1, <1>2 DEF WishInv, TurnKnowsWish, WishKept
<1> QED
  BY <1>3, <1>4 DEF WishInv

\* Every step keeps this.
LEMMA StepWishInv == WishInv /\ [Next]_vars => WishInv'
<1> SUFFICES ASSUME WishInv, [Next]_vars PROVE WishInv'
  OBVIOUS
<1> USE DEF WishInv, TurnKnowsWish, WishKept, Turn
<1>1. CASE Say
  BY <1>1 DEF Say, NoTurn
<1>2. CASE Press
  <2>1. turn = NoTurn /\ turn' = [turn EXCEPT !.at = "decide"] /\ UNCHANGED <<response, wishes>>
    BY <1>2 DEF Press
  <2> QED
    BY <2>1 DEF NoTurn
<1>3. CASE Parse
  <2>1. PICK reading \in Kept : turn' = [turn EXCEPT !.at = "save", !.reading = reading]
    BY <1>3 DEF Parse, Kept
  <2>2. turn.at = "parse" /\ UNCHANGED <<response, wishes>>
    BY <1>3 DEF Parse, client
  <2> QED
    BY <2>1, <2>2
<1>4. CASE SaveWish
  <2>1. /\ turn.at = "save" /\ response' = response
        /\ wishes' = Append(wishes, turn.reading)
        /\ turn' = [turn EXCEPT !.at = "decide", !.wish = Len(wishes) + 1]
    BY <1>4 DEF SaveWish, client
  <2>2. turn.reading \in Kept
    BY <2>1
  <2>3. /\ wishes' \in Seq(Kept)
        /\ Len(wishes) + 1 \in DOMAIN wishes'
        /\ wishes'[Len(wishes) + 1] = turn.reading
        /\ \A n \in DOMAIN wishes : n \in DOMAIN wishes' /\ wishes'[n] = wishes[n]
    BY <2>1, <2>2
  <2> QED
    BY <2>1, <2>2, <2>3
<1>5. CASE DecideNext
  <2>1. turn.at = "decide" /\ wishes' = wishes
    BY <1>5 DEF DecideNext
  <2>2. CASE turn' = NoTurn /\ response' = Response(Unavailable, <<>>, None, None)
    BY <2>1, <2>2 DEF NoTurn, Response
  <2>3. ASSUME NEW next \in {"reply", "collect"}, NEW step, response' = response,
               turn' = [turn EXCEPT !.at = next, !.step = step, !.asOf = refreshes]
        PROVE  WishInv'
    BY <2>1, <2>3
  <2> QED
    BY <1>5, <2>2, <2>3 DEF DecideNext
<1>6. CASE QuestionTurn
  BY <1>6, RespondKeeps DEF QuestionTurn
<1>7. CASE Collect
  <2>1. PICK candidates : candidates = CandidateRows(catalog, Merge(answers, turn.reading))
    OBVIOUS
  <2>2. CASE Respond(<<>>)
    BY <2>2, RespondKeeps
  <2>3. CASE /\ turn' = [turn EXCEPT !.at = "rank", !.candidates = candidates]
             /\ UNCHANGED <<world, client, wishes, failures>>
    BY <2>3 DEF client
  <2> QED
    BY <1>7, <2>1, <2>2, <2>3 DEF Collect
<1>8. CASE RankTurn
  BY <1>8, RespondKeeps DEF RankTurn
<1>9. CASE Fail
  BY <1>9 DEF Fail, NoTurn, NoResponse, Response
<1>10. CASE Refresh
  BY <1>10 DEF Refresh, client
<1>11. CASE UNCHANGED vars
  BY <1>11 DEF vars, client
<1> QED
  BY <1>1, <1>2, <1>3, <1>4, <1>5, <1>6, <1>7, <1>8, <1>9, <1>10, <1>11 DEF Next, Serve

\* The row of a turn and the response to it say the same in every state.
LEMMA WishInvariant == Spec => []WishInv
<1>1. Init => WishInv
  BY DEF Init, WishInv, TurnKnowsWish, WishKept, NoTurn, Turn, NoResponse, Response
<1> QED
  BY <1>1, StepWishInv, PTL DEF Spec

\* A response that gives a number for a sentence gives that of a row which says
\* what the response says was read, however many turns failed before.
THEOREM WishesKept == Spec => []WishKept
<1>1. WishInv => WishKept
  BY DEF WishInv
<1> QED
  BY <1>1, WishInvariant, PTL

-----------------------------------------------------------------------------
(* What was read in a sentence *)

\* The answers that can occur.
RepliesRead(reading) == {r.reply : r \in ToSet(reading)}
AnyAnswer ==
    {Unanswered} \cup (UNION {Replies[k] : k \in Keys})
        \cup (UNION {RepliesRead(reading) : reading \in Readings})

\* What a turn knows of its sentence: answers of a kind that the flow can use.
Heard(reading) ==
    reading = None \/ /\ IsList(reading)
                      /\ \A r \in ToSet(reading) :
                            /\ r.reply \in AnyAnswer
                            /\ r.reply.kind \in Kinds
                            /\ r.code \in NumericCodes => Numeric(r.reply)

HeardAs(items, n, reading) ==
    /\ items = (IF reading = None THEN <<>> ELSE reading)
    /\ DOMAIN items = 1..n
    /\ \A m \in 1..n : /\ items[m].reply \in AnyAnswer
                       /\ items[m].reply.kind \in Kinds
                       /\ items[m].code \in NumericCodes => Numeric(items[m].reply)

\* Its answers, one by one.
LEMMA HeardItems ==
    ASSUME NEW reading, Heard(reading)
    PROVE  \E n \in Nat : \E items : HeardAs(items, n, reading)
<1>1. CASE reading = None
  <2>1. PICK items : items = <<>>
    OBVIOUS
  <2>2. DOMAIN items = 1..0 /\ 0 \in Nat
    BY <2>1
  <2>3. HeardAs(items, 0, reading)
    BY <1>1, <2>1, <2>2 DEF HeardAs
  <2> QED
    BY <2>2, <2>3
<1>2. CASE reading # None
  <2>1. IsList(reading) /\ \A r \in ToSet(reading) : /\ r.reply \in AnyAnswer
                                                     /\ r.reply.kind \in Kinds
                                                     /\ r.code \in NumericCodes => Numeric(r.reply)
    BY <1>2 DEF Heard
  <2>2. PICK n \in Nat : DOMAIN reading = 1..n
    BY <2>1 DEF IsList
  <2>3. \A m \in 1..n : reading[m] \in ToSet(reading)
    BY <2>2 DEF ToSet
  <2>4. HeardAs(reading, n, reading)
    BY <1>2, <2>1, <2>2, <2>3 DEF HeardAs
  <2> QED
    BY <2>4
<1> QED
  BY <1>1, <1>2

\* It goes through the answers that were read, and takes those for the codes.
Reads(given, codes, prior, items, n) ==
    /\ given \in [0..n -> [Keys -> AnyAnswer]]
    /\ given[0] = prior
    /\ \A m \in 1..n :
          given[m] = IF items[m].code \in codes
                       THEN [given[m - 1] EXCEPT ![items[m].code] = items[m].reply] ELSE given[m - 1]

\* ReadInto goes through the reading once.
LEMMA ReadIntoSteps ==
    ASSUME NEW codes, codes \subseteq Keys, NEW prior \in [Keys -> AnyAnswer],
           NEW reading, NEW n \in Nat, NEW items, HeardAs(items, n, reading)
    PROVE  \E given : /\ Reads(given, codes, prior, items, n)
                      /\ given[n] = ReadInto(codes, prior, reading)
<1> DEFINE Step(given, r) == IF r.code \in codes THEN [given EXCEPT ![r.code] = r.reply] ELSE given
           Body(iter) ==
               [s \in SUBSET DOMAIN items |->
                   IF s = {} THEN prior ELSE Step(iter[s \ {Max(s)}], items[Max(s)])]
           Iter == CHOOSE iter : iter = Body(iter)
<1> HIDE DEF AnyAnswer, Kinds
<1>0. /\ items = (IF reading = None THEN <<>> ELSE reading)
      /\ DOMAIN items = 1..n
      /\ \A m \in 1..n : items[m].reply \in AnyAnswer
  BY DEF HeardAs
<1>1. ReadInto(codes, prior, reading) = Iter[DOMAIN items]
  BY <1>0 DEF ReadInto, FoldLeft, MapThenFoldSet
<1>2. PICK A : A = [Keys -> AnyAnswer]
  OBVIOUS
<1> DEFINE F == [m \in 1..n |-> [given \in A |-> Step(given, items[m])]]
<1>3. F \in Steps(A, n) /\ prior \in A
  <2>1. ASSUME NEW m \in 1..n, NEW given \in A PROVE Step(given, items[m]) \in A
    BY <1>0, <1>2
  <2> QED
    BY <1>2, <2>1 DEF Steps
<1>4. PICK f : IsFold(f, A, prior, n, F)
  <2> HIDE DEF F
  <2> QED
    BY <1>3, FoldExists
<1>5. ASSUME NEW s \in SUBSET (1..n), s # {}, NEW given \in A
      PROVE  Step(given, items[Max(s)]) = F[Max(s)][given]
  BY <1>0, <1>4, <1>5 DEF IsFold
<1>6. f = Body(f)
  BY <1>0, <1>4, <1>5 DEF IsFold
<1>7. Iter = Body(Iter)
  <2> HIDE DEF Body
  <2> QED
    BY <1>6
<1> HIDE DEF Iter
<1>8. Iter[{}] = prior
  BY <1>0, <1>7
<1>9. ASSUME NEW s \in SUBSET (1..n), s # {}, Iter[s \ {Max(s)}] \in A
      PROVE  Iter[s] = F[Max(s)][Iter[s \ {Max(s)}]]
  <2>1. Iter[s] = Step(Iter[s \ {Max(s)}], items[Max(s)])
    BY <1>0, <1>7, <1>9
  <2> HIDE DEF F, Step
  <2> QED
    BY <1>5, <1>9, <2>1
<1>10. PICK given : IsRun(given, A, prior, n, F) /\ given[n] = Iter[1..n]
  <2> HIDE DEF F
  <2>1. Solves(Iter, A, prior, n, F)
    BY <1>8, <1>9 DEF Solves
  <2> QED
    BY <1>3, <2>1, FoldSteps
<1>11. \A m \in 1..n : given[m] = Step(given[m - 1], items[m])
  <2>1. \A m \in 1..n : m - 1 \in 0..n
    OBVIOUS
  <2> QED
    BY <1>10, <2>1 DEF IsRun
<1> HIDE DEF F
<1>12. Reads(given, codes, prior, items, n)
  BY <1>2, <1>10, <1>11 DEF IsRun, Reads
<1> QED
  BY <1>0, <1>1, <1>10, <1>12

\* What is left of a reading after the AI's answer was checked.
LEMMA KeptHeard ==
    ASSUME NEW reading \in Readings
    PROVE  Heard(KeepNumeric(KeepKnown(reading)))
<1>1. PICK S : S = ToSet(reading)
  OBVIOUS
<1>2. reading \in Seq(S) /\ \A r \in S : r.reply \in AnyAnswer /\ r.reply.kind \in Kinds
  <2>1. IsList(reading) /\ \A r \in S : r.reply.kind \in Kinds
    BY <1>1, WishAssumption
  <2>2. \A r \in S : r.reply \in AnyAnswer
    <3>1. \A r \in S : r.reply \in RepliesRead(reading)
      BY <1>1 DEF RepliesRead
    <3>2. RepliesRead(reading) \subseteq AnyAnswer
      BY DEF AnyAnswer
    <3> QED
      BY <3>1, <3>2
  <2> QED
    BY <1>1, <2>1, <2>2 DEF IsList
<1>3. PICK known : known = KeepKnown(reading)
  OBVIOUS
<1>4. known \in Seq(S)
  <2>1. PICK I : I = {n \in DOMAIN reading : reading[n].code \in Codes}
    OBVIOUS
  <2>2. Selected(reading, I) \in Seq(S)
    BY <1>2, <2>1, SelectedProperties
  <2> QED
    BY <1>3, <2>1, <2>2 DEF KeepKnown
<1>5. PICK I : I = {n \in DOMAIN known : known[n].code \notin NumericCodes \/ Numeric(known[n].reply)}
  OBVIOUS
<1>6. PICK kept : kept = Selected(known, I) /\ kept = KeepNumeric(known)
  BY <1>5 DEF KeepNumeric
<1>7. kept \in Seq(S) /\ \E at : Keeps(at, kept, known, I)
  BY <1>4, <1>5, <1>6, SelectedProperties
<1>8. \A r \in ToSet(kept) : r \in S /\ (r.code \in NumericCodes => Numeric(r.reply))
  <2>1. PICK at : Keeps(at, kept, known, I)
    BY <1>7
  <2>2. \A k \in 1..Len(kept) : kept[k] \in S /\ (kept[k].code \in NumericCodes => Numeric(kept[k].reply))
    BY <1>5, <1>7, <2>1 DEF Keeps
  <2> QED
    BY <1>7, <2>2 DEF ToSet
<1>9. IsList(kept)
  <2>1. PICK n \in Nat : n = Len(kept) /\ DOMAIN kept = 1..n
    BY <1>7
  <2>2. kept = [k \in 1..n |-> kept[k]] /\ \A k \in 1..n : kept[k] \in ToSet(kept)
    BY <1>7, <2>1 DEF ToSet
  <2> QED
    BY <2>1, <2>2 DEF IsList
<1> HIDE DEF AnyAnswer, Kinds
<1> QED
  BY <1>2, <1>3, <1>6, <1>8, <1>9 DEF Heard

\* Nothing but answers that were there or were read for a code is taken.
LEMMA ReadIntoTyped ==
    ASSUME NEW reading, Heard(reading), NEW codes, codes \subseteq Keys, NEW prior \in [Keys -> AnyAnswer],
           \A k \in Keys : /\ prior[k].kind \in Kinds
                           /\ k \in NumericCodes => prior[k].kind \in {"unanswered", "skipped", "number"}
    PROVE  /\ ReadInto(codes, prior, reading) \in [Keys -> AnyAnswer]
           /\ \A k \in Keys :
                 /\ ReadInto(codes, prior, reading)[k].kind \in Kinds
                 /\ k \in NumericCodes =>
                       ReadInto(codes, prior, reading)[k].kind \in {"unanswered", "skipped", "number"}
<1> DEFINE Fits(k, reply) == /\ reply.kind \in Kinds
                             /\ k \in NumericCodes => reply.kind \in {"unanswered", "skipped", "number"}
<1> HIDE DEF AnyAnswer, Kinds
<1> PICK n \in Nat : \E items : HeardAs(items, n, reading)
  BY HeardItems
<1>1. PICK items : HeardAs(items, n, reading)
  OBVIOUS
<1>2. PICK given : Reads(given, codes, prior, items, n) /\ given[n] = ReadInto(codes, prior, reading)
  BY <1>1, ReadIntoSteps
<1>3. /\ given \in [0..n -> [Keys -> AnyAnswer]]
      /\ given[0] = prior
      /\ \A m \in 1..n :
            given[m] = IF items[m].code \in codes
                         THEN [given[m - 1] EXCEPT ![items[m].code] = items[m].reply] ELSE given[m - 1]
  BY <1>2 DEF Reads
<1>4. \A m \in 1..n : Fits(items[m].code, items[m].reply)
  BY <1>1 DEF HeardAs, Numeric
<1>5. \A k \in Keys : Fits(k, prior[k])
  OBVIOUS
<1> HIDE DEF Fits
<1> DEFINE P == {m \in 0..n : \A k \in Keys : Fits(k, given[m][k])}
<1>6. 0 \in P
  BY <1>3, <1>5
<1>7. ASSUME NEW m \in 1..n, m - 1 \in P PROVE m \in P
  <2>1. given[m - 1] \in [Keys -> AnyAnswer] /\ given[m] \in [Keys -> AnyAnswer]
    BY <1>3
  <2>2. \A k \in Keys : given[m][k] = given[m - 1][k] \/ (k = items[m].code /\ given[m][k] = items[m].reply)
    BY <1>3, <2>1
  <2>3. \A k \in Keys : Fits(k, given[m - 1][k])
    BY <1>7
  <2>4. \A k \in Keys : Fits(k, given[m][k])
    BY <1>4, <2>2, <2>3
  <2> QED
    BY <2>4
<1>8. n \in P
  <2>1. 0..n \subseteq P
    <3> HIDE DEF P
    <3> QED
      BY <1>6, <1>7, CountUp
  <2> QED
    BY <2>1
<1>9. \A k \in Keys : Fits(k, ReadInto(codes, prior, reading)[k])
  BY <1>2, <1>8
<1>10. ReadInto(codes, prior, reading) \in [Keys -> AnyAnswer]
  BY <1>2, <1>3
<1> QED
  BY <1>9, <1>10 DEF Fits

\* What is taken for a code depends on nothing but the reading and what was
\* there for the code, and what is not asked for stays.
LEMMA ReadIntoAgrees ==
    ASSUME NEW reading, Heard(reading), NEW k \in Keys,
           NEW codes, codes \subseteq Keys, NEW prior \in [Keys -> AnyAnswer],
           NEW others, others \subseteq Keys, NEW before \in [Keys -> AnyAnswer],
           k \in codes, k \in others => prior[k] = before[k]
    PROVE  /\ k \in others => ReadInto(codes, prior, reading)[k] = ReadInto(others, before, reading)[k]
           /\ k \notin others => ReadInto(others, before, reading)[k] = before[k]
<1> HIDE DEF AnyAnswer, Kinds
<1> PICK n \in Nat : \E items : HeardAs(items, n, reading)
  BY HeardItems
<1>1. PICK items : HeardAs(items, n, reading)
  OBVIOUS
<1>2. PICK given : Reads(given, codes, prior, items, n) /\ given[n] = ReadInto(codes, prior, reading)
  BY <1>1, ReadIntoSteps
<1>3. PICK more : Reads(more, others, before, items, n) /\ more[n] = ReadInto(others, before, reading)
  BY <1>1, ReadIntoSteps
<1> DEFINE P == {m \in 0..n : /\ k \in others => given[m][k] = more[m][k]
                              /\ k \notin others => more[m][k] = before[k]}
<1>4. /\ given \in [0..n -> [Keys -> AnyAnswer]] /\ more \in [0..n -> [Keys -> AnyAnswer]]
      /\ given[0] = prior /\ more[0] = before
      /\ \A m \in 1..n :
            /\ given[m] = IF items[m].code \in codes
                            THEN [given[m - 1] EXCEPT ![items[m].code] = items[m].reply] ELSE given[m - 1]
            /\ more[m] = IF items[m].code \in others
                           THEN [more[m - 1] EXCEPT ![items[m].code] = items[m].reply] ELSE more[m - 1]
  BY <1>2, <1>3 DEF Reads
<1>5. 0 \in P
  BY <1>4
<1>6. ASSUME NEW m \in 1..n, m - 1 \in P PROVE m \in P
  <2>1. given[m - 1] \in [Keys -> AnyAnswer] /\ more[m - 1] \in [Keys -> AnyAnswer]
    BY <1>4
  <2>2. given[m][k] = IF items[m].code = k THEN items[m].reply ELSE given[m - 1][k]
    BY <1>4, <2>1
  <2>3. more[m][k] = IF items[m].code = k /\ k \in others THEN items[m].reply ELSE more[m - 1][k]
    BY <1>4, <2>1
  <2> QED
    BY <1>6, <2>2, <2>3
<1>7. 0..n \subseteq P
  <2> HIDE DEF P
  <2> QED
    BY <1>5, <1>6, CountUp
<1>8. n \in P
  BY <1>7
<1> QED
  BY <1>2, <1>3, <1>8

\* The client takes over from a response what the server added to its answers:
\* both then have the same.
LEMMA AdoptMerges ==
    ASSUME NEW reading, Heard(reading), answers \in [Keys -> AnyAnswer]
    PROVE  Adopt(reading) = Merge(answers, reading)
<1> HIDE DEF AnyAnswer, Kinds
<1>1. PICK open : open = {key \in Keys : answers[key] = Unanswered}
  OBVIOUS
<1>2. PICK read : read = ReadInto(Keys, NoAnswers, reading)
  OBVIOUS
<1>3. PICK adopted : adopted = ReadInto(open, answers, reading)
  OBVIOUS
<1>4. Unanswered \in AnyAnswer
  BY DEF AnyAnswer
<1>5. NoAnswers \in [Keys -> AnyAnswer] /\ \A k \in Keys : NoAnswers[k] = Unanswered
  BY <1>4 DEF NoAnswers
<1>6. ASSUME NEW k \in Keys
      PROVE  adopted[k] = IF answers[k] = Unanswered THEN read[k] ELSE answers[k]
  <2>1. k \in open => NoAnswers[k] = answers[k]
    BY <1>1, <1>5
  <2>2. open \subseteq Keys /\ Keys \subseteq Keys
    BY <1>1
  <2>3. /\ k \in open => read[k] = adopted[k]
        /\ k \notin open => adopted[k] = answers[k]
    BY <1>2, <1>3, <1>5, <2>1, <2>2, ReadIntoAgrees
  <2> QED
    BY <1>1, <2>3
<1>7. adopted \in [Keys -> AnyAnswer]
  <2> PICK n \in Nat : \E items : HeardAs(items, n, reading)
    BY HeardItems
  <2>1. PICK items : HeardAs(items, n, reading)
    OBVIOUS
  <2>2. open \subseteq Keys
    BY <1>1
  <2>3. PICK given : Reads(given, open, answers, items, n) /\ given[n] = adopted
    BY <1>3, <2>1, <2>2, ReadIntoSteps
  <2> QED
    BY <2>3 DEF Reads
<1>8. adopted = [key \in Keys |-> IF answers[key] = Unanswered THEN read[key] ELSE answers[key]]
  BY <1>6, <1>7
<1>9. Adopt(reading) = adopted
  BY <1>1, <1>3 DEF Adopt
<1>10. Merge(answers, reading) = [key \in Keys |-> IF answers[key] = Unanswered THEN read[key] ELSE answers[key]]
  BY <1>2 DEF Merge
<1> QED
  BY <1>8, <1>9, <1>10

-----------------------------------------------------------------------------
(* The ranking of the AI *)

\* Without repetition.
Distinct(order) == \A k, l \in DOMAIN order : order[k] = order[l] => k = l

\* It goes through the naming, and takes each candidate where it is named first.
Names(named, n, naming, len) ==
    /\ named \in [0..len -> Seq(1..n)]
    /\ named[0] = <<>>
    /\ \A m \in 1..len :
          named[m] = IF naming[m] \in 1..n /\ naming[m] \notin ToSet(named[m - 1])
                       THEN Append(named[m - 1], naming[m]) ELSE named[m - 1]

Named(places, naming) ==
    FoldLeft(LAMBDA seen, x : IF x \in places /\ x \notin ToSet(seen) THEN Append(seen, x) ELSE seen,
             <<>>, naming)

\* What is named is taken in one pass.
LEMMA NamedSteps ==
    ASSUME NEW n \in Nat, NEW naming, NEW len \in Nat, DOMAIN naming = 1..len
    PROVE  \E named : Names(named, n, naming, len) /\ named[len] = Named(1..n, naming)
<1> DEFINE Step(seen, x) == IF x \in 1..n /\ x \notin ToSet(seen) THEN Append(seen, x) ELSE seen
           Body(iter) ==
               [s \in SUBSET DOMAIN naming |->
                   IF s = {} THEN <<>> ELSE Step(iter[s \ {Max(s)}], naming[Max(s)])]
           Iter == CHOOSE iter : iter = Body(iter)
<1>1. Named(1..n, naming) = Iter[DOMAIN naming]
  BY DEF Named, FoldLeft, MapThenFoldSet
<1>2. PICK A : A = Seq(1..n)
  OBVIOUS
<1>0. PICK base : base = <<>>
  OBVIOUS
<1> DEFINE F == [m \in 1..len |-> [seen \in A |-> Step(seen, naming[m])]]
<1>3. F \in Steps(A, len) /\ base \in A
  <2>1. ASSUME NEW m \in 1..len, NEW seen \in A PROVE Step(seen, naming[m]) \in A
    <3>1. seen \in Seq(1..n)
      BY <1>2
    <3>2. CASE naming[m] \in 1..n
      <4>1. Append(seen, naming[m]) \in Seq(1..n)
        BY <3>1, <3>2
      <4> QED
        BY <1>2, <4>1
    <3>3. CASE naming[m] \notin 1..n
      BY <3>3
    <3> QED
      BY <3>2, <3>3
  <2> QED
    BY <1>0, <1>2, <2>1 DEF Steps
<1>4. PICK f : IsFold(f, A, base, len, F)
  <2> HIDE DEF F
  <2> QED
    BY <1>3, FoldExists
<1>5. ASSUME NEW s \in SUBSET (1..len), s # {}, NEW seen \in A
      PROVE  Step(seen, naming[Max(s)]) = F[Max(s)][seen]
  <2> HIDE DEF Step
  <2> QED
    BY <1>4, <1>5 DEF IsFold
<1>6. f = Body(f)
  <2> HIDE DEF F, Step
  <2> QED
    BY <1>0, <1>4, <1>5 DEF IsFold
<1>7. Iter = Body(Iter)
  <2> HIDE DEF Body
  <2> QED
    BY <1>6
<1> HIDE DEF Iter
<1>8. Iter[{}] = base
  BY <1>0, <1>7
<1>9. ASSUME NEW s \in SUBSET (1..len), s # {}, Iter[s \ {Max(s)}] \in A
      PROVE  Iter[s] = F[Max(s)][Iter[s \ {Max(s)}]]
  <2>1. Iter[s] = Step(Iter[s \ {Max(s)}], naming[Max(s)])
    BY <1>7, <1>9
  <2> HIDE DEF F, Step
  <2> QED
    BY <1>5, <1>9, <2>1
<1>10. PICK named : IsRun(named, A, base, len, F) /\ named[len] = Iter[1..len]
  <2> HIDE DEF F
  <2>1. Solves(Iter, A, base, len, F)
    BY <1>8, <1>9 DEF Solves
  <2> QED
    BY <1>3, <2>1, FoldSteps
<1>11. \A m \in 1..len : named[m] = Step(named[m - 1], naming[m])
  <2>1. \A m \in 1..len : m - 1 \in 0..len
    OBVIOUS
  <2> HIDE DEF Step
  <2> QED
    BY <1>10, <2>1 DEF IsRun
<1> HIDE DEF F
<1>12. Names(named, n, naming, len)
  BY <1>0, <1>2, <1>10, <1>11 DEF IsRun, Names
<1> QED
  BY <1>1, <1>10, <1>12

\* Nothing is taken twice.
LEMMA NamedDistinct ==
    ASSUME NEW n \in Nat, NEW naming, NEW len \in Nat, DOMAIN naming = 1..len
    PROVE  Named(1..n, naming) \in Seq(1..n) /\ Distinct(Named(1..n, naming))
<1>1. PICK named : Names(named, n, naming, len) /\ named[len] = Named(1..n, naming)
  BY NamedSteps
<1>2. /\ named \in [0..len -> Seq(1..n)]
      /\ named[0] = <<>>
      /\ \A m \in 1..len :
            named[m] = IF naming[m] \in 1..n /\ naming[m] \notin ToSet(named[m - 1])
                         THEN Append(named[m - 1], naming[m]) ELSE named[m - 1]
  BY <1>1 DEF Names
<1> DEFINE P == {m \in 0..len : Distinct(named[m])}
<1>3. 0 \in P
  BY <1>2 DEF Distinct
<1>4. ASSUME NEW m \in 1..len, m - 1 \in P PROVE m \in P
  <2>1. PICK seen \in Seq(1..n) : seen = named[m - 1]
    BY <1>2
  <2>2. Distinct(seen)
    BY <1>4, <2>1
  <2>3. CASE named[m] = seen
    BY <2>2, <2>3
  <2>4. CASE naming[m] \in 1..n /\ naming[m] \notin ToSet(seen) /\ named[m] = Append(seen, naming[m])
    <3>1. PICK x \in 1..n : x = naming[m]
      BY <2>4
    <3>2. \A k \in 1..Len(seen) : seen[k] # x
      BY <2>4, <3>1 DEF ToSet
    <3>3. PICK more : more = Append(seen, x)
      OBVIOUS
    <3>4. /\ DOMAIN more = 1..(Len(seen) + 1)
          /\ \A k \in 1..Len(seen) : more[k] = seen[k]
          /\ more[Len(seen) + 1] = x
      BY <3>3
    <3>5. Distinct(more)
      BY <2>2, <3>2, <3>4 DEF Distinct
    <3>6. Distinct(named[m])
      BY <2>4, <3>1, <3>3, <3>5
    <3> QED
      BY <3>6
  <2> QED
    BY <1>2, <2>1, <2>3, <2>4
<1>5. 0..len \subseteq P
  <2> HIDE DEF P
  <2> QED
    BY <1>3, <1>4, CountUp
<1>6. len \in P
  BY <1>5
<1> QED
  BY <1>1, <1>2, <1>6

\* The best rate first.
Falling(rows) == \A i, j \in DOMAIN rows : i < j => rows[i].rate >= rows[j].rate

\* Every row of candidates once, in an order that falls after the first rows.
Reorders(ranked, candidates) ==
    /\ ranked \in Seq(Row)
    /\ Len(ranked) = Len(candidates)
    /\ ToSet(ranked) = ToSet(candidates)
    /\ \E named \in 0..Len(ranked) :
          \A i, j \in (named + 1)..Len(ranked) : i < j => ranked[i].rate >= ranked[j].rate

Completes(order, named, n) ==
    order = named \o Selected([k \in 1..n |-> k], (1..n) \ ToSet(named))

IsOrder(order, a, n) ==
    /\ order \in Seq(1..n)
    /\ Len(order) = n
    /\ a <= n
    /\ \A x \in 1..n : \E k \in 1..n : order[k] = x
    /\ \A i, j \in (a + 1)..n : i < j => order[i] < order[j]

\* The places that a naming takes, and after them those it leaves out in their
\* order, are all the places.
LEMMA PlacesOnce ==
    ASSUME NEW n \in Nat, NEW named, named \in Seq(1..n), Distinct(named),
           NEW order, Completes(order, named, n)
    PROVE  \E a \in Nat : IsOrder(order, a, n)
<1>1. PICK all : all = [k \in 1..n |-> k]
  OBVIOUS
<1>2. PICK I : I = (1..n) \ ToSet(named)
  OBVIOUS
<1>3. all \in Seq(1..n) /\ I \subseteq DOMAIN all
  BY <1>1, <1>2
<1>4. PICK missed : missed = Selected(all, I) /\ order = named \o missed
  BY <1>1, <1>2 DEF Completes
<1>5. missed \in Seq(1..n) /\ \E at : Keeps(at, missed, all, I)
  BY <1>3, <1>4, SelectedProperties
<1>6. PICK a \in Nat, b \in Nat : a = Len(named) /\ b = Len(missed)
  BY <1>5
<1>7. /\ \A k \in 1..b : missed[k] \in I
      /\ \A k, l \in 1..b : k < l => missed[k] < missed[l]
      /\ \A x \in I : \E k \in 1..b : missed[k] = x
  <2>1. PICK at : Keeps(at, missed, all, I)
    BY <1>5
  <2>2. /\ at \in [1..b -> I]
        /\ \A k \in 1..b : missed[k] = all[at[k]]
        /\ \A k, l \in 1..b : k < l => at[k] < at[l]
        /\ \A x \in I : \E k \in 1..b : at[k] = x
    BY <1>6, <2>1 DEF Keeps
  <2>3. \A k \in 1..b : missed[k] = at[k]
    BY <1>1, <1>2, <2>2
  <2> QED
    BY <2>2, <2>3
<1>8. /\ order \in Seq(1..n)
      /\ Len(order) = a + b
      /\ \A k \in 1..a : order[k] = named[k]
      /\ \A k \in 1..b : order[a + k] = missed[k]
  BY <1>4, <1>5, <1>6
<1>9. \A x \in 1..n : \E k \in 1..(a + b) : order[k] = x
  <2> SUFFICES ASSUME NEW x \in 1..n PROVE \E k \in 1..(a + b) : order[k] = x
    OBVIOUS
  <2>1. CASE x \in ToSet(named)
    <3>1. PICK k \in 1..a : named[k] = x
      BY <1>6, <2>1 DEF ToSet
    <3>2. k \in 1..(a + b) /\ order[k] = x
      BY <1>8, <3>1
    <3> QED
      BY <3>2
  <2>2. CASE x \notin ToSet(named)
    <3>1. PICK k \in 1..b : missed[k] = x
      BY <1>2, <1>7, <2>2
    <3>2. a + k \in 1..(a + b) /\ order[a + k] = x
      BY <1>8, <3>1
    <3> QED
      BY <3>2
  <2> QED
    BY <2>1, <2>2
<1>10. \A k, l \in 1..(a + b) : order[k] = order[l] => k = l
  <2> SUFFICES ASSUME NEW k \in 1..(a + b), NEW l \in 1..(a + b), order[k] = order[l], k < l PROVE FALSE
    <3>1. \A k, l \in 1..(a + b) : k < l => order[k] # order[l]
      OBVIOUS
    <3> QED
      BY <3>1
  <2>1. CASE l <= a
    <3>1. k \in 1..a /\ l \in 1..a
      BY <2>1
    <3>2. named[k] = named[l] /\ k \in DOMAIN named /\ l \in DOMAIN named
      BY <1>6, <1>8, <3>1
    <3> QED
      BY <3>1, <3>2 DEF Distinct
  <2>2. CASE a < k
    <3>1. PICK x \in 1..b, y \in 1..b : k = a + x /\ l = a + y /\ x < y
      <4>1. k - a \in 1..b /\ l - a \in 1..b /\ k = a + (k - a) /\ l = a + (l - a) /\ k - a < l - a
        BY <2>2
      <4> QED
        BY <4>1
    <3>2. missed[x] = missed[y] /\ missed[x] < missed[y]
      BY <1>7, <1>8, <3>1
    <3>3. missed[x] \in 1..n /\ missed[y] \in 1..n
      BY <1>2, <1>7
    <3> QED
      BY <3>2, <3>3
  <2>3. CASE k <= a /\ a < l
    <3>1. PICK y \in 1..b : l = a + y
      <4>1. l - a \in 1..b /\ l = a + (l - a)
        BY <2>3
      <4> QED
        BY <4>1
    <3>2. k \in 1..a /\ named[k] = missed[y]
      BY <1>8, <2>3, <3>1
    <3>3. k \in DOMAIN named
      BY <1>6, <3>2
    <3>4. named[k] \in ToSet(named)
      BY <3>3 DEF ToSet
    <3> QED
      BY <1>2, <1>7, <3>2, <3>4
  <2> QED
    BY <2>1, <2>2, <2>3
<1>11. a + b = n
  <2>1. order \in Bijection(1..(a + b), 1..n)
    <3>1. order \in [1..(a + b) -> 1..n]
      BY <1>8
    <3> QED
      BY <1>9, <1>10, <3>1 DEF Bijection, Injection, Surjection, IsInjective
  <2>2. /\ IsFiniteSet(1..n) /\ Cardinality(1..n) = n
        /\ IsFiniteSet(1..(a + b)) /\ Cardinality(1..(a + b)) = a + b
    <3>1. a + b \in Nat
      OBVIOUS
    <3>2. Cardinality(1..(a + b)) = a + b /\ IsFiniteSet(1..(a + b))
      BY <3>1, FS_CountingElements, FS_Interval
    <3> QED
      BY <3>2, FS_Interval
  <2>3. Cardinality(1..(a + b)) = Cardinality(1..n)
    BY <2>1, <2>2, FS_Bijection DEF ExistsBijection
  <2> QED
    BY <2>2, <2>3
<1>12. ASSUME NEW i \in (a + 1)..n, NEW j \in (a + 1)..n, i < j PROVE order[i] < order[j]
  <2>1. PICK x \in 1..b, y \in 1..b : i = a + x /\ j = a + y /\ x < y
    <3>1. i - a \in 1..b /\ j - a \in 1..b /\ i = a + (i - a) /\ j = a + (j - a) /\ i - a < j - a
      BY <1>11, <1>12
    <3> QED
      BY <3>1
  <2> QED
    BY <1>7, <1>8, <2>1
<1>13. IsOrder(order, a, n)
  BY <1>8, <1>9, <1>11, <1>12 DEF IsOrder
<1> QED
  BY <1>13

\* Whatever the AI returns, the rules' candidates are ranked, each once.
LEMMA ReorderFacts ==
    ASSUME NEW candidates \in Seq(Row), Falling(candidates), NEW naming, IsList(naming)
    PROVE  Reorders(Reorder(candidates, naming), candidates)
<1>1. PICK n \in Nat : n = Len(candidates) /\ DOMAIN candidates = 1..n
  OBVIOUS
<1>2. PICK len \in Nat : DOMAIN naming = 1..len
  BY DEF IsList
<1>3. PICK named : named = Named(1..n, naming)
  OBVIOUS
<1>4. named \in Seq(1..n) /\ Distinct(named)
  BY <1>2, <1>3, NamedDistinct
<1>5. PICK missed : missed = Selected([k \in 1..n |-> k], (1..n) \ ToSet(named))
  OBVIOUS
<1>6. PICK order : order = named \o missed /\ Completes(order, named, n)
  BY <1>5 DEF Completes
<1>7. PICK a \in Nat : IsOrder(order, a, n)
  BY <1>4, <1>6, PlacesOnce
<1>8. PICK ranked : ranked = Reorder(candidates, naming)
  OBVIOUS
<1>9. ranked = [k \in DOMAIN order |-> candidates[order[k]]]
  <2>1. Named(1..n, naming) = Named(DOMAIN candidates, naming)
    BY <1>1
  <2>2. Reorder(candidates, naming) =
           LET all == Named(DOMAIN candidates, naming)
               left == Selected([k \in DOMAIN candidates |-> k], DOMAIN candidates \ ToSet(all))
           IN  [k \in DOMAIN (all \o left) |-> candidates[(all \o left)[k]]]
    BY Zenon DEF Reorder, Named
  <2> HIDE DEF Named
  <2> QED
    BY <1>1, <1>3, <1>5, <1>6, <1>8, <2>1, <2>2
<1>10. DOMAIN order = 1..n /\ \A k \in 1..n : order[k] \in 1..n
  BY <1>7 DEF IsOrder
<1>11. PICK R : R = Row
  OBVIOUS
<1>12. \A k \in 1..n : candidates[k] \in R
  BY <1>1, <1>11
<1>13. ranked \in Seq(R) /\ Len(ranked) = n /\ DOMAIN ranked = 1..n
  BY <1>9, <1>10, <1>12
<1>14. ToSet(ranked) = ToSet(candidates)
  <2>1. ASSUME NEW r \in ToSet(ranked) PROVE r \in ToSet(candidates)
    BY <1>1, <1>9, <1>10 DEF ToSet
  <2>2. ASSUME NEW r \in ToSet(candidates) PROVE r \in ToSet(ranked)
    <3>1. PICK x \in 1..n : r = candidates[x]
      BY <1>1 DEF ToSet
    <3>2. PICK k \in 1..n : order[k] = x
      BY <1>7 DEF IsOrder
    <3>3. ranked[k] = r
      BY <1>9, <1>10, <3>1, <3>2
    <3> QED
      BY <1>13, <3>3 DEF ToSet
  <2> QED
    BY <2>1, <2>2
<1>15. ASSUME NEW i \in (a + 1)..n, NEW j \in (a + 1)..n, i < j
       PROVE  ranked[i].rate >= ranked[j].rate
  <2>1. i \in 1..n /\ j \in 1..n
    BY <1>15
  <2>2. order[i] < order[j] /\ order[i] \in 1..n /\ order[j] \in 1..n
    BY <1>7, <1>10, <1>15, <2>1 DEF IsOrder
  <2>3. candidates[order[i]].rate >= candidates[order[j]].rate
    BY <1>1, <2>2 DEF Falling
  <2> QED
    BY <1>9, <1>10, <2>1, <2>3
<1>16. a \in 0..Len(ranked) /\ Len(ranked) = Len(candidates)
  BY <1>1, <1>7, <1>13 DEF IsOrder
<1> QED
  BY <1>8, <1>11, <1>13, <1>14, <1>15, <1>16 DEF Reorders

-----------------------------------------------------------------------------
(* A turn *)

\* A question that is asked is open in the answers given.
Asks(step, given) ==
    step.status = "question" =>
        /\ step.key \in Keys
        /\ \/ given[step.key] = Unanswered
           \/ /\ step.key = Months
              /\ given[Months] \notin {Skipped} \cup {Number(t) : t \in step.terms}

\* What is known of the answers of the client.
ClientInv ==
    /\ answers \in [Keys -> AnyAnswer]
    /\ \A k \in Keys : /\ answers[k].kind \in Kinds
                       /\ k \in NumericCodes => answers[k].kind \in {"unanswered", "skipped", "number"}
    /\ response.next.status = "question" => response.next.key \in Keys
    /\ response.ranked \in Seq(Row)
    /\ turn = NoTurn => Asks(response.next, answers)

\* What is known of the turn.  Until it decides it has no step, and from then
\* on the answers it decided for are those that the client will hold.
TurnInv ==
    /\ turn = Turn(turn.at, turn.reading, turn.wish, turn.step, turn.candidates, turn.asOf)
    /\ turn.at \in {"idle", "parse", "save", "decide", "reply", "collect", "rank"}
    /\ Heard(turn.reading)
    /\ turn.at \notin {"reply", "collect", "rank"} => turn.step = NoStep
    /\ Asks(turn.step, Merge(answers, turn.reading))
    /\ turn.candidates \in Seq(Row) /\ Falling(turn.candidates)

\* What is known of the counters and the rows.
CountInv ==
    /\ catalog \in Catalogs
    /\ refreshes \in 0..MaxRefreshes
    /\ messages \in 0..MaxMessages
    /\ failures \in 0..MaxFailures
    /\ Len(wishes) <= messages
    /\ turn.at \in {"parse", "save"} => Len(wishes) < messages

TalkInv == WishInv /\ ClientInv /\ TurnInv /\ CountInv

\* The invariant says what is to be shown of every state.
LEMMA TalkInvMeans == ASSUME TalkInv PROVE TypeOK /\ AskedIsOpen
<1>1. \A k \in Keys : /\ answers[k].kind \in Kinds
                      /\ k \in NumericCodes => answers[k].kind \in {"unanswered", "skipped", "number"}
  BY DEF TalkInv, ClientInv
<1>2. \A k \in Keys \cap NumericCodes : answers[k].kind \in {"unanswered", "skipped"} \/ Numeric(answers[k])
  BY <1>1 DEF Numeric
<1>3. /\ response.ranked \in Seq(Row)
      /\ turn.at \in {"idle", "parse", "save", "decide", "reply", "collect", "rank"}
  BY DEF TalkInv, ClientInv, TurnInv
<1>4. TypeOK
  BY <1>1, <1>2, <1>3 DEF TalkInv, CountInv, TypeOK
<1>5. AskedIsOpen
  BY DEF TalkInv, ClientInv, Asks, AskedIsOpen
<1> QED
  BY <1>4, <1>5

\* The server decides for all that is known of the user; without a question it
\* has a ranking.
LEMMA DecideAsks ==
    ASSUME NEW products \in Catalogs, NEW given
    PROVE  /\ Asks(Decide(products, given), given)
           /\ Decide(products, given).status \in {"question", "done", "unavailable"}
<1>1. IsCatalog(products) /\ {Months, Monthly, GoalAmount} \subseteq Keys /\ ResultSize \in Nat
  BY WishAssumption
<1>2. CASE Decide(products, given) = Unavailable
  BY <1>2 DEF Unavailable, Asks
<1>3. ASSUME NEW key \in Keys, NEW terms \in SUBSET Nat, Decide(products, given) = Question(key, terms),
             given[key] = Unanswered \/ (/\ key = Months
                                         /\ terms = Terms(products)
                                         /\ TermsMissing(products, given))
      PROVE  Asks(Decide(products, given), given) /\ Decide(products, given).status = "question"
  <2>1. /\ Decide(products, given).status = "question"
        /\ Decide(products, given).key = key
        /\ Decide(products, given).terms = terms
    BY <1>3 DEF Question
  <2>2. TermsMissing(products, given) =>
           given[Months] \notin {Skipped} \cup {Number(t) : t \in Terms(products)}
    BY TermNotOffered
  <2> QED
    BY <1>3, <2>1, <2>2 DEF Asks
<1>4. ASSUME NEW rows \in Seq(Row), Decide(products, given) = Result(rows)
      PROVE  Asks(Decide(products, given), given) /\ Decide(products, given).status = "done"
  BY <1>4 DEF Result, Asks
<1> QED
  BY <1>1, <1>2, <1>3, <1>4, DecideSteps

\* The candidates are rows, the best rate first.
LEMMA CandidateRowsFall ==
    ASSUME NEW products \in Catalogs, NEW given
    PROVE  CandidateRows(products, given) \in Seq(Row) /\ Falling(CandidateRows(products, given))
<1>1. IsCatalog(products) /\ CandidateSize \in Nat
  BY WishAssumption
<1>2. PICK terms : terms = RankedTerms(products, given)
  OBVIOUS
<1>3. PICK O : O = OfferOf(products, terms)
  OBVIOUS
<1>4. PICK offers : offers = Checked(products, terms)
  OBVIOUS
<1>5. offers \in Seq(O)
  BY <1>1, <1>3, <1>4, CheckedOffers
<1>6. PICK I : I = {n \in DOMAIN offers : Eligibility(products, offers[n], given) # "NOT_ELIGIBLE"}
  OBVIOUS
<1>7. PICK joinable : joinable = Selected(offers, I) /\ joinable = Joinable(products, offers, given)
  BY <1>6 DEF Joinable
<1>8. joinable \in Seq(O)
  BY <1>5, <1>6, <1>7, SelectedProperties
<1>9. PICK ranking : ranking = Ranking(products, joinable, given)
  OBVIOUS
<1>10. ranking \in Seq(OfferOf(products, terms)) /\ Ranks(ranking, products, joinable, given)
  BY <1>1, <1>3, <1>8, <1>9, RankingRanks
<1>11. PICK rows : rows = [k \in 1..Lower(Len(ranking), CandidateSize) |-> RankedRow(products, ranking[k], given)]
  OBVIOUS
<1>12. rows = CandidateRows(products, given)
  BY <1>2, <1>4, <1>7, <1>9, <1>11 DEF CandidateRows
<1>13. PICK n \in Nat : n = Lower(Len(ranking), CandidateSize)
  BY <1>1, <1>10, RowsTyped
<1>14. rows \in Seq(Row)
  BY <1>1, <1>10, <1>11, RowsTyped
<1>15. DOMAIN rows = 1..n /\ \A k \in 1..n : rows[k].rate = Rate(products, ranking[k], given)
  BY <1>11, <1>13 DEF RankedRow
<1>16. 1..n \subseteq DOMAIN ranking
  BY <1>1, <1>10, <1>13 DEF Lower
<1>17. \A k, l \in DOMAIN ranking : k < l =>
          Rate(products, ranking[k], given) >= Rate(products, ranking[l], given)
  BY <1>10 DEF Ranks
<1>18. Falling(rows)
  BY <1>15, <1>16, <1>17 DEF Falling
<1> QED
  BY <1>12, <1>14, <1>18

\* Between two turns there is nothing to know.
LEMMA NoTurnKnown ==
    ASSUME turn' = NoTurn
    PROVE  TurnInv'
<1>1. Heard(None)
  BY DEF Heard
<1>2. PICK R : R = Row
  OBVIOUS
<1>3. <<>> \in Seq(R) /\ Falling(<<>>)
  BY DEF Falling
<1>4. NoTurn = Turn("idle", None, None, NoStep, <<>>, 0)
  BY DEF NoTurn
<1>5. NoStep.status # "question"
  BY DEF NoStep
<1>6. /\ turn'.at = "idle" /\ turn'.reading = None /\ turn'.step = NoStep /\ turn'.candidates = <<>>
      /\ turn' = Turn(turn'.at, turn'.reading, turn'.wish, turn'.step, turn'.candidates, turn'.asOf)
  BY <1>4 DEF Turn
<1> QED
  BY <1>1, <1>2, <1>3, <1>5, <1>6 DEF TurnInv, Asks

\* A response brings the client to what was decided for, and no further.
LEMMA RespondTalks ==
    ASSUME TalkInv, NEW ranked \in Seq(Row), Respond(ranked)
    PROVE  ClientInv' /\ TurnInv' /\ CountInv'
<1>1. /\ response'.next = turn.step /\ response'.ranked = ranked
      /\ answers' = Adopt(turn.reading)
      /\ turn' = NoTurn
      /\ UNCHANGED <<catalog, refreshes, messages, wishes, failures>>
  BY DEF Respond, Response, world
<1>2. /\ Heard(turn.reading)
      /\ answers \in [Keys -> AnyAnswer]
      /\ \A k \in Keys : /\ answers[k].kind \in Kinds
                         /\ k \in NumericCodes => answers[k].kind \in {"unanswered", "skipped", "number"}
      /\ Asks(turn.step, Merge(answers, turn.reading))
  BY DEF TalkInv, ClientInv, TurnInv
<1>3. answers' = Merge(answers, turn.reading)
  BY <1>1, <1>2, AdoptMerges
<1>4. PICK open : open = {key \in Keys : answers[key] = Unanswered} /\ open \subseteq Keys
  OBVIOUS
<1>5. PICK reading : reading = turn.reading
  OBVIOUS
<1>6. PICK adopted : adopted = ReadInto(open, answers, reading)
  OBVIOUS
<1>7. /\ adopted \in [Keys -> AnyAnswer]
      /\ \A k \in Keys : /\ adopted[k].kind \in Kinds
                         /\ k \in NumericCodes => adopted[k].kind \in {"unanswered", "skipped", "number"}
  <2> HIDE DEF AnyAnswer, Kinds
  <2> QED
    BY <1>2, <1>4, <1>5, <1>6, ReadIntoTyped
<1>8. answers' = adopted
  BY <1>1, <1>4, <1>5, <1>6 DEF Adopt
<1>9. Asks(response'.next, answers')
  BY <1>1, <1>2, <1>3
<1>10. response'.next.status = "question" => response'.next.key \in Keys
  BY <1>9 DEF Asks
<1>11. ClientInv'
  BY <1>1, <1>7, <1>8, <1>9, <1>10 DEF ClientInv
<1>12. TurnInv'
  BY <1>1, NoTurnKnown
<1>13. CountInv'
  BY <1>1 DEF TalkInv, CountInv, NoTurn, Turn
<1> QED
  BY <1>11, <1>12, <1>13

\* The client begins a turn.
LEMMA SayTalks == ASSUME TalkInv, Say PROVE ClientInv' /\ TurnInv' /\ CountInv'
<1>1. /\ turn = NoTurn /\ messages < MaxMessages /\ messages' = messages + 1
      /\ turn' = [turn EXCEPT !.at = "parse"]
      /\ UNCHANGED <<catalog, refreshes, answers, response, wishes, failures>>
  BY DEF Say, world
<1>2. turn' = Turn("parse", None, None, NoStep, <<>>, 0)
  BY <1>1 DEF NoTurn, Turn
<1>3. turn' # NoTurn
  BY <1>2 DEF NoTurn, Turn
<1>4. ClientInv'
  BY <1>1, <1>3 DEF TalkInv, ClientInv
<1>5. /\ turn'.at = "parse" /\ turn'.reading = None /\ turn'.step = NoStep /\ turn'.candidates = <<>>
      /\ turn' = Turn(turn'.at, turn'.reading, turn'.wish, turn'.step, turn'.candidates, turn'.asOf)
  BY <1>2 DEF Turn
<1>6. <<>> \in Seq(Row) /\ Falling(<<>>)
  BY DEF Falling
<1>7. Heard(None) /\ NoStep.status # "question"
  BY DEF Heard, NoStep
<1>8. TurnInv'
  BY <1>5, <1>6, <1>7 DEF TurnInv, Asks
<1>9. CountInv'
  <2>1. /\ catalog \in Catalogs /\ refreshes \in 0..MaxRefreshes /\ messages \in 0..MaxMessages
        /\ failures \in 0..MaxFailures /\ Len(wishes) <= messages
    BY DEF TalkInv, CountInv
  <2>2. messages' \in 0..MaxMessages
    BY <1>1, <2>1, WishAssumption
  <2>3. Len(wishes) \in Nat
    BY DEF TalkInv, WishInv, TurnKnowsWish
  <2>4. Len(wishes') < messages'
    BY <1>1, <2>1, <2>3
  <2> QED
    BY <1>1, <2>1, <2>2, <2>4 DEF CountInv
<1> QED
  BY <1>4, <1>8, <1>9

\* A button sends one of its answers.
LEMMA PressTalks == ASSUME TalkInv, Press PROVE ClientInv' /\ TurnInv' /\ CountInv'
<1>1. /\ turn = NoTurn
      /\ turn' = [turn EXCEPT !.at = "decide"]
      /\ UNCHANGED <<catalog, refreshes, messages, response, wishes, failures>>
  BY DEF Press, world
<1>2. turn' = Turn("decide", None, None, NoStep, <<>>, 0)
  BY <1>1 DEF NoTurn, Turn
<1>3. turn' # NoTurn
  BY <1>2 DEF NoTurn, Turn
<1>4. answers \in [Keys -> AnyAnswer] /\ \A k \in Keys :
         /\ answers[k].kind \in Kinds
         /\ k \in NumericCodes => answers[k].kind \in {"unanswered", "skipped", "number"}
  BY DEF TalkInv, ClientInv
<1>5. answers' \in [Keys -> AnyAnswer] /\ \A k \in Keys :
         /\ answers'[k].kind \in Kinds
         /\ k \in NumericCodes => answers'[k].kind \in {"unanswered", "skipped", "number"}
  <2>1. CASE answers' = answers
    BY <1>4, <2>1
  <2>2. CASE /\ response.next.status = "question"
             /\ \E reply \in Replies[response.next.key] :
                   answers' = [answers EXCEPT ![response.next.key] = reply]
    <3>1. PICK key \in Keys : key = response.next.key
      BY <2>2 DEF TalkInv, ClientInv
    <3>2. PICK reply \in Replies[key] : answers' = [answers EXCEPT ![key] = reply]
      BY <2>2, <3>1
    <3>3. reply \in AnyAnswer
      BY DEF AnyAnswer
    <3>4. reply.kind \in Kinds /\ (key \in NumericCodes => reply.kind \in {"skipped", "number"})
      BY WishAssumption DEF Kinds
    <3> HIDE DEF AnyAnswer, Kinds
    <3>5. \A k \in Keys : answers'[k] = IF k = key THEN reply ELSE answers[k]
      BY <1>4, <3>2
    <3>6. answers' \in [Keys -> AnyAnswer]
      BY <1>4, <3>2, <3>3
    <3> QED
      BY <1>4, <3>4, <3>5, <3>6
  <2> QED
    BY <2>1, <2>2 DEF Press
<1>6. ClientInv'
  BY <1>1, <1>3, <1>5 DEF TalkInv, ClientInv
<1>7. /\ turn'.at = "decide" /\ turn'.reading = None /\ turn'.step = NoStep /\ turn'.candidates = <<>>
      /\ turn' = Turn(turn'.at, turn'.reading, turn'.wish, turn'.step, turn'.candidates, turn'.asOf)
  BY <1>2 DEF Turn
<1>8. <<>> \in Seq(Row) /\ Falling(<<>>)
  BY DEF Falling
<1>9. Heard(None) /\ NoStep.status # "question"
  BY DEF Heard, NoStep
<1>10. TurnInv'
  BY <1>7, <1>8, <1>9 DEF TurnInv, Asks
<1>11. CountInv'
  BY <1>1, <1>7 DEF TalkInv, CountInv
<1> QED
  BY <1>6, <1>10, <1>11

\* The steps of the server that respond nothing.
LEMMA ServeTalks ==
    ASSUME TalkInv, Parse \/ SaveWish
    PROVE  ClientInv' /\ TurnInv' /\ CountInv'
<1>1. /\ turn = Turn(turn.at, turn.reading, turn.wish, turn.step, turn.candidates, turn.asOf)
      /\ turn.at \in {"idle", "parse", "save", "decide", "reply", "collect", "rank"}
      /\ Heard(turn.reading)
      /\ turn.at \notin {"reply", "collect", "rank"} => turn.step = NoStep
      /\ turn.candidates \in Seq(Row) /\ Falling(turn.candidates)
  BY DEF TalkInv, TurnInv
<1>2. UNCHANGED <<catalog, refreshes, answers, messages, response, failures>>
  BY DEF Parse, SaveWish, world, client
<1>3. NoStep.status # "question"
  BY DEF NoStep
<1>4. CASE Parse
  <2>1. PICK reading : /\ Heard(reading)
                       /\ turn' = [turn EXCEPT !.at = "save", !.reading = reading]
    BY <1>4, KeptHeard DEF Parse
  <2>2. turn.at = "parse" /\ wishes' = wishes
    BY <1>4 DEF Parse
  <2>3. /\ turn' = Turn("save", reading, turn.wish, turn.step, turn.candidates, turn.asOf)
        /\ turn.step = NoStep
    BY <1>1, <2>1, <2>2 DEF Turn
  <2>4. /\ turn'.at = "save" /\ turn'.reading = reading /\ turn'.step = NoStep
        /\ turn'.candidates = turn.candidates
        /\ turn' = Turn(turn'.at, turn'.reading, turn'.wish, turn'.step, turn'.candidates, turn'.asOf)
    BY <2>3 DEF Turn
  <2>5. turn' # NoTurn
    BY <2>4 DEF NoTurn, Turn
  <2>6. ClientInv'
    BY <1>2, <2>5 DEF TalkInv, ClientInv
  <2>7. TurnInv'
    BY <1>1, <1>3, <2>1, <2>4 DEF TurnInv, Asks
  <2>8. CountInv'
    BY <1>2, <2>2, <2>4 DEF TalkInv, CountInv
  <2> QED
    BY <2>6, <2>7, <2>8
<1>5. CASE SaveWish
  <2>1. /\ turn.at = "save"
        /\ wishes' = Append(wishes, turn.reading)
        /\ turn' = [turn EXCEPT !.at = "decide", !.wish = Len(wishes) + 1]
    BY <1>5 DEF SaveWish
  <2>2. /\ turn' = Turn("decide", turn.reading, Len(wishes) + 1, turn.step, turn.candidates, turn.asOf)
        /\ turn.step = NoStep
    BY <1>1, <2>1 DEF Turn
  <2>3. /\ turn'.at = "decide" /\ turn'.reading = turn.reading /\ turn'.step = NoStep
        /\ turn'.candidates = turn.candidates
        /\ turn' = Turn(turn'.at, turn'.reading, turn'.wish, turn'.step, turn'.candidates, turn'.asOf)
    BY <2>2 DEF Turn
  <2>4. turn' # NoTurn
    BY <2>3 DEF NoTurn, Turn
  <2>5. ClientInv'
    BY <1>2, <2>4 DEF TalkInv, ClientInv
  <2>6. TurnInv'
    BY <1>1, <1>3, <2>3 DEF TurnInv, Asks
  <2>7. Len(wishes') = Len(wishes) + 1 /\ Len(wishes) \in Nat
    BY <2>1 DEF TalkInv, WishInv, TurnKnowsWish
  <2>8. CountInv'
    BY <1>2, <2>1, <2>3, <2>7 DEF TalkInv, CountInv
  <2> QED
    BY <2>5, <2>6, <2>8
<1> QED
  BY <1>4, <1>5

\* What is asked is decided for the answers of the turn.
LEMMA DecideTalks == ASSUME TalkInv, DecideNext PROVE ClientInv' /\ TurnInv' /\ CountInv'
<1>1. /\ turn = Turn(turn.at, turn.reading, turn.wish, turn.step, turn.candidates, turn.asOf)
      /\ Heard(turn.reading)
      /\ turn.candidates \in Seq(Row) /\ Falling(turn.candidates)
  BY DEF TalkInv, TurnInv
<1>2. turn.at = "decide" /\ UNCHANGED <<catalog, refreshes, answers, messages, wishes, failures>>
  BY DEF DecideNext, world
<1>3. PICK given : given = Merge(answers, turn.reading)
  OBVIOUS
<1>4. PICK step : step = Decide(catalog, given)
  OBVIOUS
<1>5. Asks(step, given)
  <2>1. catalog \in Catalogs
    BY DEF TalkInv, CountInv
  <2> QED
    BY <1>4, <2>1, DecideAsks
<1>6. CASE turn' = NoTurn /\ response' = Response(Unavailable, <<>>, None, None)
  <2>1. response'.next.status = "unavailable" /\ response'.ranked = <<>>
    BY <1>6 DEF Response, Unavailable
  <2>2. Asks(response'.next, answers')
    BY <2>1 DEF Asks
  <2>3. ClientInv'
    BY <1>2, <2>1, <2>2 DEF TalkInv, ClientInv
  <2>4. TurnInv'
    BY <1>6, NoTurnKnown
  <2>5. CountInv'
    BY <1>2, <1>6 DEF TalkInv, CountInv, NoTurn, Turn
  <2> QED
    BY <2>3, <2>4, <2>5
<1>7. ASSUME NEW next \in {"reply", "collect"}, response' = response,
             turn' = [turn EXCEPT !.at = next, !.step = step, !.asOf = refreshes]
      PROVE  ClientInv' /\ TurnInv' /\ CountInv'
  <2>1. turn' = Turn(next, turn.reading, turn.wish, step, turn.candidates, refreshes)
    BY <1>1, <1>7 DEF Turn
  <2>2. /\ turn'.at = next /\ turn'.reading = turn.reading /\ turn'.step = step
        /\ turn'.candidates = turn.candidates
        /\ turn' = Turn(turn'.at, turn'.reading, turn'.wish, turn'.step, turn'.candidates, turn'.asOf)
    BY <2>1 DEF Turn
  <2>3. turn' # NoTurn
    BY <2>2 DEF NoTurn, Turn
  <2>4. ClientInv'
    BY <1>2, <1>7, <2>3 DEF TalkInv, ClientInv
  <2>5. Merge(answers, turn.reading)' = given
    BY <1>2, <1>3, <2>2
  <2>6. TurnInv'
    BY <1>1, <1>5, <2>2, <2>5 DEF TurnInv
  <2>7. CountInv'
    BY <1>2, <2>2 DEF TalkInv, CountInv
  <2> QED
    BY <2>4, <2>6, <2>7
<1>8. \/ turn' = NoTurn /\ response' = Response(Unavailable, <<>>, None, None)
      \/ /\ response' = response
         /\ \E next \in {"reply", "collect"} :
               turn' = [turn EXCEPT !.at = next, !.step = step, !.asOf = refreshes]
  BY <1>3, <1>4 DEF DecideNext
<1> QED
  BY <1>6, <1>7, <1>8

\* The candidates are ranked before the AI is asked.
LEMMA CollectTalks == ASSUME TalkInv, Collect PROVE ClientInv' /\ TurnInv' /\ CountInv'
<1>1. PICK candidates : candidates = CandidateRows(catalog, Merge(answers, turn.reading))
  OBVIOUS
<1>2. candidates \in Seq(Row) /\ Falling(candidates)
  <2>1. catalog \in Catalogs
    BY DEF TalkInv, CountInv
  <2> QED
    BY <1>1, <2>1, CandidateRowsFall
<1>3. CASE Respond(<<>>)
  <2>1. <<>> \in Seq(Row)
    OBVIOUS
  <2> QED
    BY <1>3, <2>1, RespondTalks
<1>4. CASE /\ turn' = [turn EXCEPT !.at = "rank", !.candidates = candidates]
           /\ UNCHANGED <<world, client, wishes, failures>>
  <2>1. /\ turn = Turn(turn.at, turn.reading, turn.wish, turn.step, turn.candidates, turn.asOf)
        /\ Heard(turn.reading)
        /\ Asks(turn.step, Merge(answers, turn.reading))
    BY DEF TalkInv, TurnInv
  <2>2. UNCHANGED <<catalog, refreshes, answers, messages, response, wishes, failures>>
    BY <1>4 DEF world, client
  <2>3. turn' = Turn("rank", turn.reading, turn.wish, turn.step, candidates, turn.asOf)
    BY <1>4, <2>1 DEF Turn
  <2>4. /\ turn'.at = "rank" /\ turn'.reading = turn.reading /\ turn'.step = turn.step
        /\ turn'.candidates = candidates
        /\ turn' = Turn(turn'.at, turn'.reading, turn'.wish, turn'.step, turn'.candidates, turn'.asOf)
    BY <2>3 DEF Turn
  <2>5. turn' # NoTurn
    BY <2>4 DEF NoTurn, Turn
  <2>6. ClientInv'
    BY <2>2, <2>5 DEF TalkInv, ClientInv
  <2>7. Merge(answers, turn.reading)' = Merge(answers, turn.reading)
    BY <2>2, <2>4
  <2>8. TurnInv'
    BY <1>2, <2>1, <2>4, <2>7 DEF TurnInv
  <2>9. CountInv'
    BY <2>2, <2>4 DEF TalkInv, CountInv
  <2> QED
    BY <2>6, <2>8, <2>9
<1> QED
  BY <1>1, <1>3, <1>4 DEF Collect

\* The ranking of the AI is one of rows, and so is none.
LEMMA RankTalks == ASSUME TalkInv, RankTurn PROVE ClientInv' /\ TurnInv' /\ CountInv'
<1>1. turn.candidates \in Seq(Row) /\ Falling(turn.candidates)
  BY DEF TalkInv, TurnInv
<1>2. ASSUME NEW naming \in Namings, Respond(Reorder(turn.candidates, naming))
      PROVE  ClientInv' /\ TurnInv' /\ CountInv'
  <2>1. IsList(naming)
    BY WishAssumption
  <2>2. PICK ranked : ranked = Reorder(turn.candidates, naming)
    OBVIOUS
  <2>3. Reorders(ranked, turn.candidates)
    BY <1>1, <2>1, <2>2, ReorderFacts
  <2>4. ranked \in Seq(Row)
    BY <2>3 DEF Reorders
  <2>5. Respond(ranked)
    BY <1>2, <2>2
  <2> QED
    BY <2>4, <2>5, RespondTalks
<1>3. CASE Respond(<<>>)
  <2>1. <<>> \in Seq(Row)
    OBVIOUS
  <2> QED
    BY <1>3, <2>1, RespondTalks
<1> QED
  BY <1>2, <1>3 DEF RankTurn

\* A turn that fails leaves nothing but the error.
LEMMA FailTalks == ASSUME TalkInv, Fail PROVE ClientInv' /\ TurnInv' /\ CountInv'
<1>1. /\ failures < MaxFailures /\ failures' = failures + 1
      /\ response' = NoResponse /\ turn' = NoTurn
      /\ UNCHANGED <<catalog, refreshes, answers, messages, wishes>>
  BY DEF Fail, world
<1>2. response'.next.status = "none" /\ response'.ranked = <<>>
  BY <1>1 DEF NoResponse, Response, NoStep
<1>3. Asks(response'.next, answers')
  BY <1>2 DEF Asks
<1>4. ClientInv'
  BY <1>1, <1>2, <1>3 DEF TalkInv, ClientInv
<1>5. TurnInv'
  BY <1>1, NoTurnKnown
<1>6. failures' \in 0..MaxFailures
  BY <1>1, WishAssumption DEF TalkInv, CountInv
<1>7. CountInv'
  BY <1>1, <1>6 DEF TalkInv, CountInv, NoTurn, Turn
<1> QED
  BY <1>4, <1>5, <1>7

\* A refresh changes neither the turn nor what the client has.
LEMMA RefreshTalks ==
    ASSUME TalkInv, Refresh \/ UNCHANGED vars
    PROVE  ClientInv' /\ TurnInv' /\ CountInv'
<1>1. UNCHANGED <<answers, messages, response, turn, wishes, failures>>
  BY DEF Refresh, vars, client
<1>2. ClientInv'
  BY <1>1 DEF TalkInv, ClientInv
<1>3. Merge(answers, turn.reading)' = Merge(answers, turn.reading)
  BY <1>1
<1>4. TurnInv'
  BY <1>1, <1>3 DEF TalkInv, TurnInv
<1>5. catalog' \in Catalogs /\ refreshes' \in 0..MaxRefreshes
  BY WishAssumption DEF Refresh, vars, world, TalkInv, CountInv
<1>6. CountInv'
  BY <1>1, <1>5 DEF TalkInv, CountInv
<1> QED
  BY <1>2, <1>4, <1>6

\* Every step keeps what is known.
LEMMA StepTalkInv == TalkInv /\ [Next]_vars => TalkInv'
<1> SUFFICES ASSUME TalkInv, [Next]_vars PROVE TalkInv'
  OBVIOUS
<1>1. WishInv'
  BY StepWishInv DEF TalkInv
<1>2. QuestionTurn => ClientInv' /\ TurnInv' /\ CountInv'
  <2>1. <<>> \in Seq(Row)
    OBVIOUS
  <2> QED
    BY <2>1, RespondTalks DEF QuestionTurn
<1>3. ClientInv' /\ TurnInv' /\ CountInv'
  BY <1>2, SayTalks, PressTalks, ServeTalks, DecideTalks, CollectTalks, RankTalks, FailTalks,
     RefreshTalks DEF Next, Serve
<1> QED
  BY <1>1, <1>3 DEF TalkInv

\* So it holds in every state.
LEMMA TalkInvariant == Spec => []TalkInv
<1>1. Init => TalkInv
  <2> SUFFICES ASSUME Init PROVE TalkInv
    OBVIOUS
  <2>1. WishInv
    BY DEF Init, WishInv, TurnKnowsWish, WishKept, NoTurn, Turn, NoResponse, Response
  <2>2. answers = [k \in Keys |-> Unanswered] /\ Unanswered \in AnyAnswer /\ Unanswered.kind = "unanswered"
    BY DEF Init, NoAnswers, AnyAnswer, Unanswered
  <2>3. response.next = NoStep /\ response.ranked = <<>> /\ NoStep.status = "none"
    BY DEF Init, NoResponse, Response, NoStep
  <2>4. ClientInv
    BY <2>2, <2>3 DEF ClientInv, Asks, Kinds
  <2>5. /\ turn.at = "idle" /\ turn.reading = None /\ turn.step = NoStep /\ turn.candidates = <<>>
        /\ turn = Turn(turn.at, turn.reading, turn.wish, turn.step, turn.candidates, turn.asOf)
    BY DEF Init, NoTurn, Turn
  <2>6. <<>> \in Seq(Row) /\ Falling(<<>>)
    BY DEF Falling
  <2>7. TurnInv
    BY <2>3, <2>5, <2>6 DEF TurnInv, Asks, Heard
  <2>8. 0 \in 0..MaxRefreshes /\ 0 \in 0..MaxMessages /\ 0 \in 0..MaxFailures /\ Len(<<>>) <= 0
    BY WishAssumption
  <2>9. CountInv
    BY <2>5, <2>8 DEF Init, CountInv
  <2> QED
    BY <2>1, <2>4, <2>7, <2>9 DEF TalkInv
<1> QED
  BY <1>1, StepTalkInv, PTL DEF Spec

\* Answers to numeric questions are numbers in every state, also those that
\* the AI read in a sentence.
THEOREM WishTyped == Spec => []TypeOK
BY TalkInvariant, TalkInvMeans, PTL

\* Server and client never part over what has been answered: a question is open
\* in the answers that the client holds after the response that asks it.
THEOREM AlwaysAskedIsOpen == Spec => []AskedIsOpen
BY TalkInvariant, TalkInvMeans, PTL

\* A response with a ranking of the AI comes from a naming of the candidates.
LEMMA RankedResponse ==
    ASSUME TalkInv, [Next]_vars, turn.at = "rank", turn'.at = "idle", failures' = failures,
           response'.ranked # <<>>
    PROVE  /\ Reorders(response'.ranked, turn.candidates)
           /\ Respond(response'.ranked)
<1>1. turn # NoTurn /\ turn' # turn
  BY DEF NoTurn, Turn
<1>2. ~Fail
  BY DEF TalkInv, CountInv, Fail
<1>3. ~Parse /\ ~SaveWish /\ ~DecideNext /\ ~QuestionTurn /\ ~Collect
  BY DEF Parse, SaveWish, DecideNext, QuestionTurn, Collect
<1>4. RankTurn
  BY <1>1, <1>2, <1>3 DEF Next, Serve, Say, Press, Refresh, vars
<1>5. PICK naming \in Namings : Respond(Reorder(turn.candidates, naming))
  <2>1. ~Respond(<<>>)
    BY DEF Respond, Response
  <2> QED
    BY <1>4, <2>1 DEF RankTurn
<1>6. response'.ranked = Reorder(turn.candidates, naming)
  BY <1>5 DEF Respond, Response
<1>7. IsList(naming)
  BY WishAssumption
<1>8. turn.candidates \in Seq(Row) /\ Falling(turn.candidates)
  BY DEF TalkInv, TurnInv
<1> QED
  BY <1>5, <1>6, <1>7, <1>8, ReorderFacts

\* Whatever order the AI returns, every candidate of the rules is ranked exactly
\* once, and those that the AI did not name come last, the best rate first.
THEOREM RankedOnce == Spec => EveryCandidateRankedOnce
<1>1. ASSUME TalkInv, [Next]_vars, turn.at = "rank", turn'.at = "idle", failures' = failures,
             response'.ranked # <<>>
      PROVE  LET ranked == response'.ranked
             IN  /\ Len(ranked) = Len(turn.candidates)
                 /\ ToSet(ranked) = ToSet(turn.candidates)
                 /\ \E named \in 0..Len(ranked) :
                       \A i, j \in (named + 1)..Len(ranked) : i < j => ranked[i].rate >= ranked[j].rate
  BY <1>1, RankedResponse DEF Reorders
<1>2. TalkInv /\ [Next]_vars =>
         [turn.at = "rank" /\ turn'.at = "idle" /\ response'.ranked # <<>> /\ failures' = failures =>
            LET ranked == response'.ranked
            IN  /\ Len(ranked) = Len(turn.candidates)
                /\ ToSet(ranked) = ToSet(turn.candidates)
                /\ \E named \in 0..Len(ranked) :
                      \A i, j \in (named + 1)..Len(ranked) : i < j => ranked[i].rate >= ranked[j].rate]_vars
  BY <1>1
<1> QED
  BY <1>2, TalkInvariant, PTL DEF Spec, EveryCandidateRankedOnce

-----------------------------------------------------------------------------
(* The two rankings of a response *)

\* Eligibility is judged by product and term.
LEMMA SameSavingJoins ==
    ASSUME NEW products, NEW given, NEW f, NEW g, SameSaving(f, g)
    PROVE  Eligibility(products, f, given) = Eligibility(products, g, given)
BY DEF SameSaving, Eligibility, Context

\* Two rankings that know of each other's entries give a product and term the
\* same row.
LEMMA SameRow ==
    ASSUME NEW products, IsCatalog(products), NEW terms, NEW given,
           NEW some \in Seq(OfferOf(products, terms)), NEW others \in Seq(OfferOf(products, terms)),
           NEW A \in Seq(OfferOf(products, terms)), Ranks(A, products, some, given),
           NEW B \in Seq(OfferOf(products, terms)), Ranks(B, products, others, given),
           NEW k \in DOMAIN A, NEW l \in DOMAIN B, SameSaving(A[k], B[l]),
           A[k] \in ToSet(others), B[l] \in ToSet(some)
    PROVE  RankedRow(products, A[k], given) = RankedRow(products, B[l], given)
<1>1. Rate(products, A[k], given) <= Rate(products, B[l], given)
  <2>1. PICK n \in DOMAIN others : others[n] = A[k]
    BY DEF ToSet
  <2>2. PICK j \in DOMAIN B : SameSaving(B[j], A[k]) /\ Rate(products, A[k], given) <= Rate(products, B[j], given)
    BY <2>1 DEF Ranks
  <2>3. SameSaving(B[j], B[l])
    BY <2>2 DEF SameSaving
  <2>4. j = l
    BY <2>3 DEF Ranks
  <2> QED
    BY <2>2, <2>4
<1>2. Rate(products, B[l], given) <= Rate(products, A[k], given)
  <2>1. PICK n \in DOMAIN some : some[n] = B[l]
    BY DEF ToSet
  <2>2. PICK j \in DOMAIN A : SameSaving(A[j], B[l]) /\ Rate(products, B[l], given) <= Rate(products, A[j], given)
    BY <2>1 DEF Ranks
  <2>3. SameSaving(A[j], A[k])
    BY <2>2 DEF SameSaving
  <2>4. j = k
    BY <2>3 DEF Ranks
  <2> QED
    BY <2>2, <2>4
<1>3. Rate(products, A[k], given) \in Int /\ Rate(products, B[l], given) \in Int
  <2>1. A[k] \in OfferOf(products, terms) /\ B[l] \in OfferOf(products, terms)
    OBVIOUS
  <2> QED
    BY <2>1, RateFacts
<1>4. Rate(products, A[k], given) = Rate(products, B[l], given)
  BY <1>1, <1>2, <1>3
<1> QED
  BY <1>4 DEF RankedRow, SameSaving

\* The products that are ranked are those whose join condition may be met.
LEMMA JoinableFacts ==
    ASSUME NEW products, IsCatalog(products), NEW terms, NEW given,
           NEW offers \in Seq(OfferOf(products, terms))
    PROVE  /\ Joinable(products, offers, given) \in Seq(OfferOf(products, terms))
           /\ \A f \in ToSet(Joinable(products, offers, given)) :
                 f \in ToSet(offers) /\ Eligibility(products, f, given) # "NOT_ELIGIBLE"
           /\ \A f \in ToSet(offers) : Eligibility(products, f, given) # "NOT_ELIGIBLE" =>
                 f \in ToSet(Joinable(products, offers, given))
<1>1. PICK indices : indices = {n \in DOMAIN offers : Eligibility(products, offers[n], given) # "NOT_ELIGIBLE"}
  OBVIOUS
<1>2. PICK joinable : joinable = Selected(offers, indices)
  OBVIOUS
<1>3. Joinable(products, offers, given) = joinable
  BY <1>1, <1>2 DEF Joinable
<1>4. indices \subseteq DOMAIN offers
  BY <1>1
<1>5. joinable \in Seq(OfferOf(products, terms))
  BY <1>2, <1>4, SelectedProperties
<1>6. PICK at : Keeps(at, joinable, offers, indices)
  BY <1>2, <1>4, SelectedProperties
<1>7. DOMAIN joinable = 1..Len(joinable)
  BY <1>5
<1>8. ASSUME NEW f \in ToSet(joinable)
      PROVE  f \in ToSet(offers) /\ Eligibility(products, f, given) # "NOT_ELIGIBLE"
  <2>1. PICK k \in 1..Len(joinable) : f = joinable[k]
    BY <1>7, <1>8 DEF ToSet
  <2>2. at[k] \in indices /\ f = offers[at[k]]
    BY <1>6, <2>1 DEF Keeps
  <2> QED
    BY <1>1, <2>2 DEF ToSet
<1>9. ASSUME NEW f \in ToSet(offers), Eligibility(products, f, given) # "NOT_ELIGIBLE"
      PROVE  f \in ToSet(joinable)
  <2>1. PICK n \in indices : f = offers[n]
    BY <1>1, <1>9 DEF ToSet
  <2>2. PICK k \in 1..Len(joinable) : at[k] = n
    BY <1>6, <2>1 DEF Keeps
  <2>3. joinable[k] = f
    BY <1>6, <2>1, <2>2 DEF Keeps
  <2> QED
    BY <1>7, <2>2, <2>3 DEF ToSet
<1> QED
  BY <1>3, <1>5, <1>8, <1>9

\* What the collected products and the ranked ones have in common.
RowsMatch(A, B, products, given) ==
    /\ \A k \in DOMAIN A : \E l \in DOMAIN B :
          RankedRow(products, A[k], given) = RankedRow(products, B[l], given)
    /\ \A l \in DOMAIN B : \/ Eligibility(products, B[l], given) = "UNKNOWN"
                           \/ \E k \in DOMAIN A :
                                 RankedRow(products, A[k], given) = RankedRow(products, B[l], given)

\* The ranking of the certain products is within that of the possible ones,
\* and what that has more is open to join.
LEMMA RankingsMatch ==
    ASSUME NEW products, IsCatalog(products), NEW terms, NEW given,
           NEW offers \in Seq(OfferOf(products, terms)),
           NEW some, some = Candidates(products, offers, given),
           NEW others, others = Joinable(products, offers, given),
           NEW A \in Seq(OfferOf(products, terms)), Ranks(A, products, some, given),
           NEW B \in Seq(OfferOf(products, terms)), Ranks(B, products, others, given)
    PROVE  RowsMatch(A, B, products, given)
<1>1. /\ some \in Seq(OfferOf(products, terms))
      /\ \A f \in ToSet(some) : f \in ToSet(offers) /\ Eligibility(products, f, given) = "ELIGIBLE"
      /\ \A f \in ToSet(offers) : Eligibility(products, f, given) = "ELIGIBLE" => f \in ToSet(some)
  BY CandidateFacts
<1>2. /\ others \in Seq(OfferOf(products, terms))
      /\ \A f \in ToSet(others) : f \in ToSet(offers) /\ Eligibility(products, f, given) # "NOT_ELIGIBLE"
      /\ \A f \in ToSet(offers) : Eligibility(products, f, given) # "NOT_ELIGIBLE" => f \in ToSet(others)
  BY JoinableFacts
<1>3. ASSUME NEW k \in DOMAIN A
      PROVE  \E l \in DOMAIN B : RankedRow(products, A[k], given) = RankedRow(products, B[l], given)
  <2>1. A[k] \in ToSet(some)
    BY DEF Ranks
  <2>2. A[k] \in ToSet(others) /\ Eligibility(products, A[k], given) = "ELIGIBLE"
    BY <1>1, <1>2, <2>1
  <2>3. PICK n \in DOMAIN others : others[n] = A[k]
    BY <2>2 DEF ToSet
  <2>4. PICK l \in DOMAIN B : SameSaving(B[l], A[k])
    BY <2>3 DEF Ranks
  <2>5. SameSaving(A[k], B[l])
    BY <2>4 DEF SameSaving
  <2>6. Eligibility(products, B[l], given) = "ELIGIBLE"
    BY <2>2, <2>4, SameSavingJoins
  <2>7. B[l] \in ToSet(others)
    BY DEF Ranks
  <2>8. B[l] \in ToSet(some)
    BY <1>1, <1>2, <2>6, <2>7
  <2> QED
    BY <1>1, <1>2, <2>2, <2>5, <2>8, SameRow
<1>4. ASSUME NEW l \in DOMAIN B, Eligibility(products, B[l], given) # "UNKNOWN"
      PROVE  \E k \in DOMAIN A : RankedRow(products, A[k], given) = RankedRow(products, B[l], given)
  <2>1. B[l] \in ToSet(others) /\ B[l] \in OfferOf(products, terms)
    BY DEF Ranks
  <2>2. Eligibility(products, B[l], given) \in Results
    <3>1. Extends(given, given)
      BY DEF Extends
    <3> QED
      BY <2>1, <3>1, EligibilityFacts
  <2>3. Eligibility(products, B[l], given) = "ELIGIBLE"
    BY <1>2, <1>4, <2>1, <2>2 DEF Results
  <2>4. B[l] \in ToSet(some)
    BY <1>1, <1>2, <2>1, <2>3
  <2>5. PICK n \in DOMAIN some : some[n] = B[l]
    BY <2>4 DEF ToSet
  <2>6. PICK k \in DOMAIN A : SameSaving(A[k], B[l])
    BY <2>5 DEF Ranks
  <2>7. A[k] \in ToSet(some)
    BY DEF Ranks
  <2>8. A[k] \in ToSet(others)
    BY <1>1, <1>2, <2>7
  <2> QED
    BY <1>1, <1>2, <2>4, <2>6, <2>8, SameRow
<1> QED
  BY <1>3, <1>4 DEF RowsMatch

\* A list without repetition has as many elements as places.
LEMMA DistinctCount ==
    ASSUME NEW S, NEW list \in Seq(S), Distinct(list)
    PROVE  Cardinality(ToSet(list)) = Len(list)
<1>1. PICK n \in Nat : n = Len(list) /\ DOMAIN list = 1..n
  OBVIOUS
<1>2. list \in [1..n -> ToSet(list)] /\ \A x \in ToSet(list) : \E k \in 1..n : list[k] = x
  BY <1>1 DEF ToSet
<1>3. list \in Bijection(1..n, ToSet(list))
  BY <1>1, <1>2 DEF Bijection, Injection, Surjection, Distinct, IsInjective
<1>4. ExistsBijection(1..n, ToSet(list))
  BY <1>3 DEF ExistsBijection
<1> QED
  BY <1>1, <1>4, FS_CountingElements

\* The first rows of a ranking.
Top(ranking, limit, products, given) ==
    [k \in 1..Lower(Len(ranking), limit) |-> RankedRow(products, ranking[k], given)]

IsTop(rows, n, ranking, limit, products, given) ==
    /\ n \in Nat /\ n <= Len(ranking) /\ n <= limit
    /\ n < Len(ranking) => n = limit
    /\ rows \in Seq(Row)
    /\ Len(rows) = n
    /\ \A k \in 1..n : k \in DOMAIN ranking /\ rows[k] = RankedRow(products, ranking[k], given)

\* They are rows, as many as the limit allows.
LEMMA TopFacts ==
    ASSUME NEW products, IsCatalog(products), NEW terms, NEW given, NEW limit \in Nat,
           NEW ranking \in Seq(OfferOf(products, terms)),
           NEW rows, rows = Top(ranking, limit, products, given)
    PROVE  \E n \in Nat : IsTop(rows, n, ranking, limit, products, given)
<1>1. PICK n \in Nat : n = Lower(Len(ranking), limit)
  BY RowsTyped
<1>2. PICK m \in Nat : m = Len(ranking) /\ DOMAIN ranking = 1..m
  OBVIOUS
<1>3. n <= m /\ n <= limit /\ (n < m => n = limit)
  BY <1>1, <1>2 DEF Lower
<1>4. rows \in Seq(Row)
  BY RowsTyped DEF Top
<1>5. DOMAIN rows = 1..n /\ \A k \in 1..n : rows[k] = RankedRow(products, ranking[k], given)
  BY <1>1 DEF Top
<1>6. Len(rows) = n
  BY <1>4, <1>5
<1>7. 1..n \subseteq DOMAIN ranking
  BY <1>2, <1>3
<1> QED
  BY <1>2, <1>3, <1>4, <1>5, <1>6, <1>7 DEF IsTop

\* The two lists of a response, for answers that both were made for.
Agree(rows, candidates, products, given) ==
    /\ \A row \in ToSet(rows) : row \in ToSet(candidates) \/
          Cardinality({r \in ToSet(candidates) : r.rate >= row.rate}) = CandidateSize
    /\ \A r \in ToSet(candidates) \ ToSet(rows) :
          \/ Len(rows) = ResultSize
          \/ \E offer \in ToSet(Checked(products, {r.term})) :
                /\ offer.product = r.product
                /\ Eligibility(products, offer, given) = "UNKNOWN"

\* Two rankings that match agree in their first rows.
LEMMA TopsAgree ==
    ASSUME NEW products, IsCatalog(products), NEW terms, NEW given,
           ResultSize \in Nat, CandidateSize \in Nat,
           NEW A \in Seq(OfferOf(products, terms)),
           NEW B \in Seq(OfferOf(products, terms)), NEW others, Ranks(B, products, others, given),
           RowsMatch(A, B, products, given),
           NEW rows, rows = Top(A, ResultSize, products, given),
           NEW candidates, candidates = Top(B, CandidateSize, products, given)
    PROVE  Agree(rows, candidates, products, given)
<1>1. PICK n \in Nat : IsTop(rows, n, A, ResultSize, products, given)
  BY TopFacts
<1>2. PICK m \in Nat : IsTop(candidates, m, B, CandidateSize, products, given)
  BY TopFacts
<1>3. DOMAIN rows = 1..n /\ DOMAIN candidates = 1..m /\ Len(rows) = n
  BY <1>1, <1>2 DEF IsTop
<1>4. Len(A) \in Nat /\ DOMAIN A = 1..Len(A) /\ Len(B) \in Nat /\ DOMAIN B = 1..Len(B)
  OBVIOUS
<1>5. Distinct(candidates)
  <2>1. ASSUME NEW k \in 1..m, NEW l \in 1..m, candidates[k] = candidates[l] PROVE k = l
    <3>1. /\ k \in DOMAIN B /\ l \in DOMAIN B
          /\ RankedRow(products, B[k], given) = RankedRow(products, B[l], given)
      BY <1>2, <2>1 DEF IsTop
    <3>2. SameSaving(B[k], B[l])
      BY <3>1 DEF RankedRow, SameSaving
    <3> QED
      BY <3>1, <3>2 DEF Ranks
  <2> QED
    BY <1>3, <2>1 DEF Distinct
<1>6. ASSUME NEW row \in ToSet(rows), row \notin ToSet(candidates)
      PROVE  Cardinality({r \in ToSet(candidates) : r.rate >= row.rate}) = CandidateSize
  <2>1. PICK k \in 1..n : row = rows[k]
    BY <1>3 DEF ToSet
  <2>2. k \in DOMAIN A /\ row = RankedRow(products, A[k], given)
    BY <1>1, <2>1 DEF IsTop
  <2>3. PICK l \in DOMAIN B : row = RankedRow(products, B[l], given)
    BY <2>2 DEF RowsMatch
  <2>4. l \notin 1..m
    <3>1. ASSUME l \in 1..m PROVE FALSE
      <4>1. candidates[l] = row
        BY <1>2, <2>3, <3>1 DEF IsTop
      <4> QED
        BY <1>3, <1>6, <3>1, <4>1 DEF ToSet
    <3> QED
      BY <3>1
  <2>5. m < l /\ m = CandidateSize
    BY <1>2, <1>4, <2>4 DEF IsTop
  <2>6. ASSUME NEW r \in ToSet(candidates) PROVE r.rate >= row.rate
    <3>1. PICK j \in 1..m : r = candidates[j]
      BY <1>3 DEF ToSet
    <3>2. j \in DOMAIN B /\ r = RankedRow(products, B[j], given)
      BY <1>2, <3>1 DEF IsTop
    <3>3. j < l
      BY <1>4, <2>5, <3>1
    <3>4. Rate(products, B[l], given) <= Rate(products, B[j], given)
      BY <3>2, <3>3 DEF Ranks
    <3>5. Rate(products, B[j], given) \in Int /\ Rate(products, B[l], given) \in Int
      <4>1. B[j] \in OfferOf(products, terms) /\ B[l] \in OfferOf(products, terms)
        BY <3>2
      <4> QED
        BY <4>1, RateFacts
    <3>6. r.rate = Rate(products, B[j], given) /\ row.rate = Rate(products, B[l], given)
      BY <2>3, <3>2 DEF RankedRow
    <3> QED
      BY <3>4, <3>5, <3>6
  <2>7. {r \in ToSet(candidates) : r.rate >= row.rate} = ToSet(candidates)
    BY <2>6
  <2>8. Cardinality(ToSet(candidates)) = Len(candidates)
    <3>1. PICK R : R = Row
      OBVIOUS
    <3>2. candidates \in Seq(R)
      BY <1>2, <3>1 DEF IsTop
    <3> QED
      BY <1>5, <3>2, DistinctCount
  <2>9. Len(candidates) = m
    BY <1>2 DEF IsTop
  <2> QED
    BY <2>5, <2>7, <2>8, <2>9
<1>7. ASSUME NEW r \in ToSet(candidates), r \notin ToSet(rows), Len(rows) # ResultSize
      PROVE  \E offer \in ToSet(Checked(products, {r.term})) :
                /\ offer.product = r.product
                /\ Eligibility(products, offer, given) = "UNKNOWN"
  <2>1. PICK l \in 1..m : r = candidates[l]
    BY <1>3 DEF ToSet
  <2>2. l \in DOMAIN B /\ r = RankedRow(products, B[l], given)
    BY <1>2, <2>1 DEF IsTop
  <2>3. n = Len(A)
    <3>1. PICK a \in Nat : a = Len(A)
      OBVIOUS
    <3>2. n <= a /\ (n < a => n = ResultSize)
      BY <1>1, <3>1 DEF IsTop
    <3>3. n # ResultSize
      BY <1>3, <1>7
    <3>4. n = a
      BY <3>2, <3>3
    <3> QED
      BY <3>1, <3>4
  <2>4. ~\E k \in DOMAIN A : RankedRow(products, A[k], given) = RankedRow(products, B[l], given)
    <3>1. ASSUME NEW k \in DOMAIN A, RankedRow(products, A[k], given) = RankedRow(products, B[l], given)
          PROVE  FALSE
      <4>1. k \in 1..n
        BY <1>4, <2>3
      <4>2. rows[k] = r
        BY <1>1, <2>2, <3>1, <4>1 DEF IsTop
      <4> QED
        BY <1>3, <1>7, <4>1, <4>2 DEF ToSet
    <3> QED
      BY <3>1
  <2>5. Eligibility(products, B[l], given) = "UNKNOWN"
    BY <2>2, <2>4 DEF RowsMatch
  <2>6. r.product = B[l].product /\ r.term = B[l].option.term
    BY <2>2 DEF RankedRow
  <2>7. B[l] \in OfferOf(products, {r.term})
    <3>1. B[l] \in OfferOf(products, terms)
      BY <2>2
    <3> QED
      BY <2>6, <3>1 DEF OfferOf
  <2>8. PICK checked : checked = ToSet(Checked(products, {r.term}))
    OBVIOUS
  <2>9. B[l] \in checked
    BY <2>7, <2>8, CheckedOffers
  <2> QED
    BY <2>5, <2>6, <2>8, <2>9
<1> QED
  BY <1>6, <1>7 DEF Agree

\* With a step that is a ranking there is a term to rank in: the chosen one, or
\* every term for a user who skipped the question.
LEMMA RankedTermsSelected ==
    ASSUME NEW products, NEW given, ~TermsMissing(products, given)
    PROVE  RankedTerms(products, given) = SelectedTerms(products, given)
<1>1. CASE given[Months] = Skipped
  <2>1. ~Numeric(given[Months])
    BY <1>1 DEF Numeric, Skipped
  <2> QED
    BY <1>1, <2>1 DEF RankedTerms, SelectedTerms, Skipped
<1>2. CASE given[Months] # Skipped
  <2>1. SelectedTerms(products, given) # {}
    BY <1>2 DEF TermsMissing, NoTerms
  <2>2. given[Months].kind = "number"
    BY <1>2, <2>1 DEF SelectedTerms, NoTerms
  <2>3. SelectedTerms(products, given) = Terms(products) \cap {given[Months].number}
    BY <1>2, <2>2 DEF SelectedTerms
  <2>4. given[Months].number \in Terms(products)
    BY <2>1, <2>3
  <2> QED
    BY <2>2, <2>3, <2>4 DEF RankedTerms, Numeric
<1> QED
  BY <1>1, <1>2

\* The rankings of one catalogue for one set of answers agree.
LEMMA RankingsAgree ==
    ASSUME NEW products \in Catalogs, NEW given,
           NEW step, step = Decide(products, given), step.status = "done",
           NEW candidates, candidates = CandidateRows(products, given)
    PROVE  Agree(step.rows, candidates, products, given)
<1>1. IsCatalog(products) /\ ResultSize \in Nat /\ CandidateSize \in Nat
  BY WishAssumption
<1>2. PICK terms : terms = SelectedTerms(products, given)
  OBVIOUS
<1>3. PICK offers : offers = Checked(products, terms)
  OBVIOUS
<1>4. offers \in Seq(OfferOf(products, terms))
  BY <1>1, <1>3, CheckedOffers
<1>5. PICK some : some = Candidates(products, offers, given)
  OBVIOUS
<1>6. PICK others : others = Joinable(products, offers, given)
  OBVIOUS
<1>7. some \in Seq(OfferOf(products, terms)) /\ others \in Seq(OfferOf(products, terms))
  BY <1>1, <1>4, <1>5, <1>6, CandidateFacts, JoinableFacts
<1>8. PICK A : A = Ranking(products, some, given)
  OBVIOUS
<1>9. PICK B : B = Ranking(products, others, given)
  OBVIOUS
<1>10. A \in Seq(OfferOf(products, terms)) /\ Ranks(A, products, some, given)
  BY <1>1, <1>7, <1>8, RankingRanks
<1>11. B \in Seq(OfferOf(products, terms)) /\ Ranks(B, products, others, given)
  BY <1>1, <1>7, <1>9, RankingRanks
<1>12. RowsMatch(A, B, products, given)
  BY <1>1, <1>4, <1>5, <1>6, <1>10, <1>11, RankingsMatch
<1>13. ~TermsMissing(products, given) /\ step.rows = Top(A, ResultSize, products, given)
  <2>1. PICK opening : opening = OpeningQuestion(products, given)
    OBVIOUS
  <2>2. PICK eligibility : eligibility = EligibilityQuestion(products, offers, given)
    OBVIOUS
  <2>3. PICK bonus : bonus = RankingQuestion(products, A, given)
    OBVIOUS
  <2>4. PICK rows : rows = Rows(products, A, given)
    OBVIOUS
  <2>5. step = IF opening # NoKey THEN Question(opening, Terms(products))
               ELSE IF eligibility # NoKey THEN Question(eligibility, {})
               ELSE IF offers = <<>> THEN Unavailable
               ELSE IF bonus # NoKey THEN Question(bonus, {})
               ELSE Result(rows)
    BY <1>2, <1>3, <1>5, <1>8, <2>1, <2>2, <2>3, <2>4 DEF Decide
  <2>6. opening = NoKey /\ step = Result(rows)
    BY <2>5 DEF Question, Unavailable
  <2>7. step.rows = rows
    BY <2>6 DEF Result
  <2>8. rows = Top(A, ResultSize, products, given)
    BY <2>4 DEF Rows, Top
  <2>9. ~TermsMissing(products, given)
    BY <2>1, <2>6, WishAssumption DEF OpeningQuestion
  <2> QED
    BY <2>7, <2>8, <2>9
<1>14. candidates = Top(B, CandidateSize, products, given)
  <2>1. RankedTerms(products, given) = terms
    BY <1>2, <1>13, RankedTermsSelected
  <2> QED
    BY <1>3, <1>6, <1>9, <2>1 DEF CandidateRows, Top
<1> QED
  BY <1>1, <1>10, <1>11, <1>12, <1>13, <1>14, TopsAgree

\* What the two rankings of a turn are made of, as long as the catalogue has not
\* been replaced between the two reads.
AgreeInv ==
    /\ turn.at \in {"collect", "rank"} => turn.asOf \in 0..refreshes
    /\ turn.at = "collect" /\ turn.asOf = refreshes =>
          /\ turn.step = Decide(catalog, Merge(answers, turn.reading))
          /\ turn.step.status = "done"
    /\ turn.at = "rank" /\ turn.asOf = refreshes =>
          Agree(turn.step.rows, turn.candidates, catalog, Merge(answers, turn.reading))

\* Each step keeps that: the first ranking is decided on the catalogue of its
\* number of replacements, the second made of the present one.
LEMMA StepAgreeInv == TalkInv /\ AgreeInv /\ [Next]_vars => AgreeInv'
<1> SUFFICES ASSUME TalkInv, AgreeInv, [Next]_vars PROVE AgreeInv'
  OBVIOUS
<1>1. /\ turn = Turn(turn.at, turn.reading, turn.wish, turn.step, turn.candidates, turn.asOf)
      /\ catalog \in Catalogs /\ refreshes \in Nat
  BY WishAssumption DEF TalkInv, TurnInv, CountInv
<1>2. turn'.at \notin {"collect", "rank"} => AgreeInv'
  BY DEF AgreeInv
<1>3. NoTurn.at = "idle"
  BY DEF NoTurn, Turn
<1>4. CASE Say \/ Press \/ Parse \/ SaveWish
  <2>1. turn' = NoTurn \/ turn'.at \in {"parse", "decide", "save"}
    BY <1>1, <1>4 DEF Say, Press, Parse, SaveWish, Turn
  <2> QED
    BY <1>2, <1>3, <2>1
<1>5. CASE QuestionTurn \/ RankTurn \/ Fail
  <2>1. turn' = NoTurn
    BY <1>5 DEF QuestionTurn, RankTurn, Fail, Respond
  <2> QED
    BY <1>2, <1>3, <2>1
<1>6. CASE DecideNext
  <2>1. PICK given : given = Merge(answers, turn.reading)
    OBVIOUS
  <2>2. PICK step : step = Decide(catalog, given)
    OBVIOUS
  <2>3. UNCHANGED <<catalog, refreshes, answers>>
    BY <1>6 DEF DecideNext, world
  <2>4. step.status \in {"question", "done", "unavailable"}
    BY <1>1, <2>2, DecideAsks
  <2>5. \/ turn' = NoTurn
        \/ /\ step # Unavailable
           /\ turn' = [turn EXCEPT !.at = IF step.status = "question" THEN "reply" ELSE "collect",
                                   !.step = step, !.asOf = refreshes]
    BY <1>6, <2>1, <2>2 DEF DecideNext
  <2>6. CASE /\ step.status = "done"
             /\ turn' = Turn("collect", turn.reading, turn.wish, step, turn.candidates, refreshes)
    <3>1. turn'.at = "collect" /\ turn'.asOf = refreshes /\ turn'.step = step /\ turn'.reading = turn.reading
      BY <2>6 DEF Turn
    <3>2. Merge(answers, turn.reading)' = given
      BY <2>1, <2>3, <3>1
    <3>3. turn'.step = Decide(catalog', given)
      BY <2>2, <2>3, <3>1
    <3> QED
      BY <1>1, <2>3, <2>6, <3>1, <3>2, <3>3 DEF AgreeInv
  <2>7. CASE turn'.at = "reply"
    BY <1>2, <2>7
  <2>8. step.status = "unavailable" => step = Unavailable
    BY <1>1, <2>2, WishAssumption, DecideSteps DEF Question, Result
  <2>9. \/ turn' = NoTurn
        \/ turn'.at = "reply"
        \/ /\ step.status = "done"
           /\ turn' = Turn("collect", turn.reading, turn.wish, step, turn.candidates, refreshes)
    BY <1>1, <2>4, <2>5, <2>8 DEF Turn
  <2> QED
    BY <1>2, <1>3, <2>6, <2>7, <2>9
<1>7. CASE Collect
  <2>1. PICK given : given = Merge(answers, turn.reading)
    OBVIOUS
  <2>2. PICK candidates : candidates = CandidateRows(catalog, given)
    OBVIOUS
  <2>3. \/ turn' = NoTurn
        \/ /\ turn.at = "collect"
           /\ turn' = [turn EXCEPT !.at = "rank", !.candidates = candidates]
           /\ UNCHANGED <<catalog, refreshes, answers>>
    BY <1>7, <2>1, <2>2 DEF Collect, Respond, world, client
  <2>4. CASE /\ turn.at = "collect"
             /\ turn' = Turn("rank", turn.reading, turn.wish, turn.step, candidates, turn.asOf)
             /\ UNCHANGED <<catalog, refreshes, answers>>
    <3>1. /\ turn'.at = "rank" /\ turn'.asOf = turn.asOf /\ turn'.step = turn.step
          /\ turn'.candidates = candidates /\ turn'.reading = turn.reading
      BY <2>4 DEF Turn
    <3>2. Merge(answers, turn.reading)' = given
      BY <2>1, <2>4, <3>1
    <3>3. turn.asOf \in 0..refreshes
      BY <2>4 DEF AgreeInv
    <3>4. PICK step : step = turn.step
      OBVIOUS
    <3>5. turn.asOf = refreshes => Agree(step.rows, candidates, catalog, given)
      <4> SUFFICES ASSUME turn.asOf = refreshes PROVE Agree(step.rows, candidates, catalog, given)
        OBVIOUS
      <4>1. step = Decide(catalog, given) /\ step.status = "done"
        BY <2>1, <2>4, <3>4 DEF AgreeInv
      <4> QED
        BY <1>1, <2>2, <4>1, RankingsAgree
    <3> QED
      BY <2>4, <3>1, <3>2, <3>3, <3>4, <3>5 DEF AgreeInv
  <2> QED
    BY <1>1, <1>2, <1>3, <2>3, <2>4 DEF Turn
<1>8. CASE Refresh
  <2>1. refreshes' = refreshes + 1 /\ turn' = turn
    BY <1>8 DEF Refresh
  <2>2. turn.at \in {"collect", "rank"} => turn.asOf \in 0..refreshes' /\ turn.asOf # refreshes'
    BY <1>1, <2>1 DEF AgreeInv
  <2> QED
    BY <2>1, <2>2 DEF AgreeInv
<1>9. CASE UNCHANGED vars
  <2>1. UNCHANGED <<catalog, refreshes, answers, turn>>
    BY <1>9 DEF vars, world, client
  <2>2. Merge(answers, turn.reading)' = Merge(answers, turn.reading)
    BY <2>1
  <2> QED
    BY <2>1, <2>2 DEF AgreeInv
<1> QED
  BY <1>4, <1>5, <1>6, <1>7, <1>8, <1>9 DEF Next, Serve

\* So it holds in every state.
LEMMA AgreeInvariant == Spec => [](TalkInv /\ AgreeInv)
<1>1. Init => AgreeInv
  BY DEF Init, AgreeInv, NoTurn, Turn
<1> QED
  BY <1>1, TalkInvariant, StepAgreeInv, PTL DEF Spec

\* Where both reads of a turn saw one catalogue, the ranking of the rules and
\* that of the AI agree: a row of the first is in the second unless that is full
\* with products at least as good, and what the second has more is open to join
\* or did not fit in the first.
THEOREM RankingsAlwaysAgree == Spec => ListsAgree
<1>1. ASSUME TalkInv, AgreeInv, [Next]_vars, turn.at = "rank", turn'.at = "idle",
             response'.ranked # <<>>, turn.asOf = refreshes, failures' = failures
      PROVE  LET ranked == ToSet(response'.ranked)
                 rows == ToSet(response'.next.rows)
             IN  /\ \A row \in rows : row \in ranked \/
                       Cardinality({r \in ranked : r.rate >= row.rate}) = CandidateSize
                 /\ \A r \in ranked \ rows :
                       \/ Len(response'.next.rows) = ResultSize
                       \/ \E offer \in ToSet(Checked(catalog, {r.term})) :
                             /\ offer.product = r.product
                             /\ Eligibility(catalog, offer, answers') = "UNKNOWN"
  <2>1. Reorders(response'.ranked, turn.candidates) /\ Respond(response'.ranked)
    BY <1>1, RankedResponse
  <2>2. ToSet(response'.ranked) = ToSet(turn.candidates)
    BY <2>1 DEF Reorders
  <2>3. response'.next = turn.step
    BY <2>1 DEF Respond, Response
  <2>4. answers' = Merge(answers, turn.reading)
    <3>1. answers' = Adopt(turn.reading)
      BY <2>1 DEF Respond
    <3>2. Heard(turn.reading) /\ answers \in [Keys -> AnyAnswer]
      BY <1>1 DEF TalkInv, TurnInv, ClientInv
    <3> QED
      BY <3>1, <3>2, AdoptMerges
  <2>5. Agree(turn.step.rows, turn.candidates, catalog, answers')
    BY <1>1, <2>4 DEF AgreeInv
  <2> QED
    BY <2>2, <2>3, <2>5 DEF Agree
<1>2. TalkInv /\ AgreeInv /\ [Next]_vars =>
         [turn.at = "rank" /\ turn'.at = "idle" /\ response'.ranked # <<>> /\ turn.asOf = refreshes
           /\ failures' = failures =>
            LET ranked == ToSet(response'.ranked)
                rows == ToSet(response'.next.rows)
            IN  /\ \A row \in rows : row \in ranked \/
                      Cardinality({r \in ranked : r.rate >= row.rate}) = CandidateSize
                /\ \A r \in ranked \ rows :
                      \/ Len(response'.next.rows) = ResultSize
                      \/ \E offer \in ToSet(Checked(catalog, {r.term})) :
                            /\ offer.product = r.product
                            /\ Eligibility(catalog, offer, answers') = "UNKNOWN"]_vars
  BY <1>1
<1> QED
  BY <1>2, AgreeInvariant, PTL DEF Spec, ListsAgree
=============================================================================
