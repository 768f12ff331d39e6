-------------------------- MODULE QuestionFlowProofs --------------------------
(***************************************************************************)
(* Facts about the conditions of all products and about what QuestionFlow  *)
(* makes of them, for every table of conditions, every catalogue and all   *)
(* answers: the steps from predicates to groups, to eligibility and rates, *)
(* and to the question that is asked.                                      *)
(***************************************************************************)
EXTENDS QuestionFlow, ListFacts

-----------------------------------------------------------------------------
(* Groups *)

Results == {"ELIGIBLE", "NOT_ELIGIBLE", "UNKNOWN"}
Matches == {"all", "any"}

\* The results of the parts of a group.
ResultsOf(parts, result) == {result[i] : i \in parts}

\* later decides what earlier decided, and possibly more.
Refines(later, earlier, parts) ==
    \A i \in parts : earlier[i] # "UNKNOWN" => later[i] = earlier[i]

\* What is known of a part of which the truth is one of possible.
Known(possible) ==
    IF possible = {TRUE} THEN "ELIGIBLE"
    ELSE IF possible = {FALSE} THEN "NOT_ELIGIBLE"
    ELSE "UNKNOWN"

Holds(match, parts, truth) ==
    IF match = "all" THEN \A i \in parts : truth[i] = TRUE ELSE \E i \in parts : truth[i] = TRUE

-----------------------------------------------------------------------------

\* A group that is decided stays decided, whatever the answers to come make of
\* the parts that are open (ConditionGroupVO._all_result, _any_result).
THEOREM GroupStaysDecided ==
    ASSUME NEW match \in Matches, NEW parts,
           NEW earlier \in [parts -> Results], NEW later \in [parts -> Results],
           Refines(later, earlier, parts),
           GroupResult(match, ResultsOf(parts, earlier)) # "UNKNOWN"
    PROVE  GroupResult(match, ResultsOf(parts, later))
             = GroupResult(match, ResultsOf(parts, earlier))
<1> DEFINE decisive == IF match = "all" THEN "NOT_ELIGIBLE" ELSE "ELIGIBLE"
           otherwise == IF match = "all" THEN "ELIGIBLE" ELSE "NOT_ELIGIBLE"
<1>1. decisive # "UNKNOWN" /\ otherwise # "UNKNOWN" /\ decisive # otherwise
  OBVIOUS
<1>2. CASE decisive \in ResultsOf(parts, earlier)
  <2>1. PICK i \in parts : earlier[i] = decisive
    BY <1>2 DEF ResultsOf
  <2>2. later[i] = decisive
    BY <1>1, <2>1 DEF Refines
  <2>3. decisive \in ResultsOf(parts, later)
    BY <2>2 DEF ResultsOf
  <2>4. QED
    BY <1>2, <2>3 DEF GroupResult
<1>3. CASE decisive \notin ResultsOf(parts, earlier)
  <2>1. "UNKNOWN" \notin ResultsOf(parts, earlier)
    BY <1>3 DEF GroupResult
  <2>2. \A i \in parts : earlier[i] # "UNKNOWN" /\ earlier[i] # decisive
    BY <1>3, <2>1 DEF ResultsOf
  <2>3. \A i \in parts : later[i] = earlier[i]
    BY <2>2 DEF Refines
  <2>4. ResultsOf(parts, later) = ResultsOf(parts, earlier)
    BY <2>3 DEF ResultsOf
  <2>5. QED
    BY <2>4
<1>4. QED
  BY <1>2, <1>3

-----------------------------------------------------------------------------

\* What is known of a group is exactly what is known of its parts, as long as
\* the parts can turn out independently of one another: UNKNOWN means that the
\* group may still be met and may still fail, and every other result that no
\* answer can turn it (ConditionGroupVO.evaluate).
THEOREM GroupJudgesExactly ==
    ASSUME NEW match \in Matches, NEW parts,
           NEW possible \in [parts -> (SUBSET BOOLEAN) \ {{}}]
    PROVE  LET result == [i \in parts |-> Known(possible[i])]
               truths == {truth \in [parts -> BOOLEAN] : \A i \in parts : truth[i] \in possible[i]}
           IN  GroupResult(match, ResultsOf(parts, result))
                 = Known({Holds(match, parts, truth) : truth \in truths})
<1> DEFINE result == [i \in parts |-> Known(possible[i])]
           truths == {truth \in [parts -> BOOLEAN] : \A i \in parts : truth[i] \in possible[i]}
           holding == {Holds(match, parts, truth) : truth \in truths}
           decisive == match = "any"
           deciding == IF match = "all" THEN "NOT_ELIGIBLE" ELSE "ELIGIBLE"
           otherwise == IF match = "all" THEN "ELIGIBLE" ELSE "NOT_ELIGIBLE"
           \* The outcomes in which as many, and as few, parts as can be decide.
           most == [i \in parts |-> IF decisive \in possible[i] THEN decisive ELSE ~decisive]
           least == [i \in parts |-> IF (~decisive) \in possible[i] THEN ~decisive ELSE decisive]
<1>1. \A i \in parts : possible[i] \in {{TRUE}, {FALSE}, {TRUE, FALSE}}
  <2>1. \A i \in parts : possible[i] \subseteq BOOLEAN /\ possible[i] # {}
    OBVIOUS
  <2>2. \A s : s \subseteq BOOLEAN /\ s # {} => s \in {{TRUE}, {FALSE}, {TRUE, FALSE}}
    OBVIOUS
  <2>3. QED
    BY <2>1, <2>2
<1>2. most \in truths /\ least \in truths
  BY <1>1
<1>3. \A truth \in truths :
        Holds(match, parts, truth) = IF \E i \in parts : truth[i] = decisive THEN decisive ELSE ~decisive
  BY DEF Holds, Matches
<1>4. \A v : (\A truth \in truths : Holds(match, parts, truth) = v) => holding = {v}
  <2> HIDE DEF truths
  <2>1. SUFFICES ASSUME NEW v, \A truth \in truths : Holds(match, parts, truth) = v
                 PROVE  holding = {v}
    OBVIOUS
  <2>2. \A h \in holding : h = v
    BY <2>1
  <2>3. v \in holding
    BY <1>2, <2>1
  <2>4. QED
    BY <2>2, <2>3
<1>5. Known({decisive}) = deciding /\ Known({~decisive}) = otherwise
  BY DEF Known, Matches
<1>6. CASE \E i \in parts : possible[i] = {decisive}
  <2>1. PICK i \in parts : possible[i] = {decisive}
    BY <1>6
  <2>2. deciding \in ResultsOf(parts, result)
    BY <1>5, <2>1 DEF ResultsOf
  <2>3. \A truth \in truths : Holds(match, parts, truth) = decisive
    BY <1>3, <2>1
  <2>4. holding = {decisive}
    BY <1>4, <2>3
  <2>5. QED
    BY <1>5, <2>2, <2>4 DEF GroupResult
<1>7. CASE \A i \in parts : possible[i] = {~decisive}
  <2>1. ResultsOf(parts, result) \subseteq {otherwise}
    BY <1>5, <1>7 DEF ResultsOf
  <2>2. GroupResult(match, ResultsOf(parts, result)) = otherwise
    BY <2>1 DEF GroupResult
  <2>3. \A truth \in truths : Holds(match, parts, truth) = ~decisive
    BY <1>3, <1>7
  <2>4. holding = {~decisive}
    BY <1>4, <2>3
  <2>5. QED
    BY <1>5, <2>2, <2>4
<1>8. CASE /\ \A i \in parts : possible[i] # {decisive}
           /\ \E i \in parts : possible[i] # {~decisive}
  <2>1. PICK i \in parts : possible[i] = {TRUE, FALSE}
    BY <1>1, <1>8
  <2>2. "UNKNOWN" \in ResultsOf(parts, result)
    BY <2>1 DEF ResultsOf, Known
  <2>3. deciding \notin ResultsOf(parts, result)
    BY <1>1, <1>8 DEF ResultsOf, Known, Matches
  <2>4. GroupResult(match, ResultsOf(parts, result)) = "UNKNOWN"
    BY <2>2, <2>3 DEF GroupResult
  <2>5. most[i] = decisive
    BY <2>1
  <2>6. Holds(match, parts, most) = decisive
    BY <1>2, <1>3, <2>5
  <2>7. \A j \in parts : least[j] # decisive
    <3>1. \A j \in parts : (~decisive) \in possible[j]
      BY <1>1, <1>8
    <3>2. QED
      BY <3>1
  <2>8. Holds(match, parts, least) = ~decisive
    BY <1>2, <1>3, <2>7
  <2>9. decisive \in holding /\ (~decisive) \in holding
    BY <1>2, <2>6, <2>8
  <2>10. Known(holding) = "UNKNOWN"
    BY <2>9 DEF Known
  <2>11. QED
    BY <2>4, <2>10
<1>9. QED
  BY <1>6, <1>7, <1>8

-----------------------------------------------------------------------------
(* Conditions *)

\* The parts of a group come before it.
LEMMA PartsBefore ==
    ASSUME NEW c \in DOMAIN Condition, IsGroup(c)
    PROVE  /\ ToSet(Condition[c].conditions) \subseteq 1..(c - 1)
           /\ ToSet(Condition[c].conditions) \subseteq DOMAIN Condition
           /\ Condition[c].conditions \in Seq(DOMAIN Condition)
           /\ Condition[c].match \in Matches
<1>1. /\ Condition[c].conditions \in Seq(1..(c - 1))
      /\ Condition[c].match \in Matches
      /\ c \in 1..Len(Condition) /\ Len(Condition) \in Nat /\ DOMAIN Condition = 1..Len(Condition)
  BY ConditionAssumption DEF Matches
<1>2. 1..(c - 1) \subseteq DOMAIN Condition
  BY <1>1
<1>3. ToSet(Condition[c].conditions) \subseteq 1..(c - 1)
  BY <1>1 DEF ToSet
<1> QED
  BY <1>1, <1>2, <1>3

\* Whatever holds of a condition as soon as it holds of its parts holds of all.
LEMMA ByParts ==
    ASSUME NEW P,
           \A c \in DOMAIN Condition :
              (IsGroup(c) => ToSet(Condition[c].conditions) \subseteq P) => c \in P
    PROVE  DOMAIN Condition \subseteq P
<1>1. PICK n \in Nat : DOMAIN Condition = 1..n
  BY ConditionAssumption
<1>2. ASSUME NEW m \in 1..n, \A k \in 1..(m - 1) : k \in P PROVE m \in P
  <2>1. IsGroup(m) => ToSet(Condition[m].conditions) \subseteq P
    BY <1>1, <1>2, PartsBefore
  <2> QED
    BY <1>1, <2>1
<1> QED
  BY <1>1, <1>2, CountAll

PartsOf(c) == ToSet(Condition[c].conditions)
PartResults(c, answers, context) == [d \in PartsOf(c) |-> Evaluate(d, answers, context)]

\* A condition is judged by its parts, a predicate by its answer.
LEMMA EvaluateSteps ==
    ASSUME NEW answers, NEW context, NEW c \in DOMAIN Condition
    PROVE  /\ Evaluate(c, answers, context) \in Results
           /\ IsGroup(c) =>
                 Evaluate(c, answers, context) =
                   GroupResult(Condition[c].match, ResultsOf(PartsOf(c), PartResults(c, answers, context)))
           /\ ~IsGroup(c) => Evaluate(c, answers, context) = PredicateResult(Condition[c], answers, context)
<1> DEFINE Body(result) ==
               [b \in DOMAIN Condition |->
                   IF IsGroup(b)
                     THEN GroupResult(Condition[b].match, {result[d] : d \in ToSet(Condition[b].conditions)})
                     ELSE PredicateResult(Condition[b], answers, context)]
           Result0 == CHOOSE result : result = Body(result)
           Parts(b) == ToSet(Condition[b].conditions)
<1>1. \A b : Evaluate(b, answers, context) = Result0[b]
  BY DEF Evaluate
<1>2. PICK n \in Nat : DOMAIN Condition = 1..n
  BY ConditionAssumption
<1>3. \A match, results : GroupResult(match, results) \in Results
  BY DEF GroupResult, Results
<1>4. \A p : PredicateResult(p, answers, context) \in Results
  BY DEF PredicateResult, Results
<1>11. PICK Step :
          Step = [b \in DOMAIN Condition |->
                     [g \in [1..(b - 1) -> Results] |->
                         IF IsGroup(b) THEN GroupResult(Condition[b].match, {g[d] : d \in Parts(b)})
                         ELSE PredicateResult(Condition[b], answers, context)]]
  OBVIOUS
<1>5. StepsUp(Step, n, Results)
  BY <1>2, <1>3, <1>4, <1>11 DEF StepsUp
<1>6. PICK f : FollowsSteps(f, Step, n, Results)
  BY <1>5, RecursionExists
<1>7. f = Body(f)
  <2>1. ASSUME NEW b \in 1..n PROVE f[b] = Body(f)[b]
    <3>1. PICK g : g = UpTo(f, b - 1)
      OBVIOUS
    <3>2. g \in [1..(b - 1) -> Results]
      BY <1>2, <1>6, <3>1 DEF UpTo, FollowsSteps
    <3>3. f[b] = Step[b][g]
      BY <1>6, <3>1 DEF FollowsSteps
    <3>4. IsGroup(b) => {g[d] : d \in Parts(b)} = {f[d] : d \in Parts(b)}
      BY <1>2, <3>1, PartsBefore DEF UpTo
    <3> QED
      BY <1>2, <1>11, <3>2, <3>3, <3>4
  <2> QED
    BY <1>2, <1>6, <2>1 DEF FollowsSteps
<1>8. Result0 = Body(Result0)
  <2> HIDE DEF Body
  <2> QED
    BY <1>7
<1>9. Result0[c] = Body(Result0)[c]
  <2> HIDE DEF Body, Result0
  <2> QED
    BY <1>8
<1> HIDE DEF Result0
<1>10. Result0[c] \in Results
  BY <1>3, <1>4, <1>9
<1>12. ResultsOf(PartsOf(c), PartResults(c, answers, context)) = {Result0[d] : d \in Parts(c)}
  BY <1>1 DEF ResultsOf, PartsOf, PartResults
<1> QED
  BY <1>1, <1>9, <1>10, <1>12

\* What is asked for a group is what is asked for its parts, as long as it is open.
LEMMA ToAskSteps ==
    ASSUME NEW answers, NEW context, NEW K,
           \A b \in DOMAIN Condition : ~IsGroup(b) =>
              PredicateToAsk(Condition[b], answers, context) \in Seq(K)
    PROVE  \A c \in DOMAIN Condition :
              /\ ToAsk(c, answers, context) \in Seq(K)
              /\ ToAsk(c, answers, context) =
                    IF ~IsGroup(c) THEN PredicateToAsk(Condition[c], answers, context)
                    ELSE IF Evaluate(c, answers, context) # "UNKNOWN" THEN <<>>
                    ELSE FlattenSeq([i \in DOMAIN Condition[c].conditions |->
                                        ToAsk(Condition[c].conditions[i], answers, context)])
<1> DEFINE Parts(b) == Condition[b].conditions
           Body(keys) ==
               [c \in DOMAIN Condition |->
                   IF ~IsGroup(c) THEN PredicateToAsk(Condition[c], answers, context)
                   ELSE IF Evaluate(c, answers, context) # "UNKNOWN" THEN <<>>
                   ELSE FlattenSeq([i \in DOMAIN Condition[c].conditions |-> keys[Condition[c].conditions[i]]])]
           Keys0 == CHOOSE keys : keys = Body(keys)
<1>1. \A b : ToAsk(b, answers, context) = Keys0[b]
  BY DEF ToAsk
<1>2. PICK n \in Nat : DOMAIN Condition = 1..n
  BY ConditionAssumption
<1>3. PICK Step :
          Step = [b \in DOMAIN Condition |->
                     [g \in [1..(b - 1) -> Seq(K)] |->
                         IF ~IsGroup(b) THEN PredicateToAsk(Condition[b], answers, context)
                         ELSE IF Evaluate(b, answers, context) # "UNKNOWN" THEN <<>>
                         ELSE FlattenSeq([i \in DOMAIN Parts(b) |-> g[Parts(b)[i]]])]]
  OBVIOUS
<1>4. ASSUME NEW b \in 1..n, IsGroup(b), NEW g,
             \A d \in ToSet(Parts(b)) : g[d] \in Seq(K)
      PROVE  FlattenSeq([i \in DOMAIN Parts(b) |-> g[Parts(b)[i]]]) \in Seq(K)
  <2>1. PICK m \in Nat : DOMAIN Parts(b) = 1..m /\ \A i \in 1..m : Parts(b)[i] \in ToSet(Parts(b))
    BY <1>2, <1>4, PartsBefore DEF ToSet
  <2>2. PICK seqs : seqs = [i \in DOMAIN Parts(b) |-> g[Parts(b)[i]]]
    OBVIOUS
  <2>3. seqs \in Seq(Seq(K))
    BY <1>4, <2>1, <2>2
  <2> QED
    BY <2>2, <2>3, FlattenProperties
<1>5. StepsUp(Step, n, Seq(K))
  <2>1. ASSUME NEW b \in 1..n PROVE Step[b] \in [[1..(b - 1) -> Seq(K)] -> Seq(K)]
    <3> DEFINE Value(g) == IF ~IsGroup(b) THEN PredicateToAsk(Condition[b], answers, context)
                           ELSE IF Evaluate(b, answers, context) # "UNKNOWN" THEN <<>>
                           ELSE FlattenSeq([i \in DOMAIN Parts(b) |-> g[Parts(b)[i]]])
    <3>1. Step[b] = [g \in [1..(b - 1) -> Seq(K)] |-> Value(g)]
      BY <1>2, <1>3
    <3>2. ASSUME NEW g \in [1..(b - 1) -> Seq(K)] PROVE Value(g) \in Seq(K)
      <4>1. CASE ~IsGroup(b)
        <5>1. Value(g) = PredicateToAsk(Condition[b], answers, context)
          BY <4>1
        <5> HIDE DEF Value
        <5> QED
          BY <1>2, <4>1, <5>1
      <4>2. CASE IsGroup(b) /\ Evaluate(b, answers, context) # "UNKNOWN"
        <5>1. Value(g) = <<>>
          BY <4>2
        <5>2. <<>> \in Seq(K)
          OBVIOUS
        <5> HIDE DEF Value
        <5> QED
          BY <5>1, <5>2
      <4>3. CASE IsGroup(b) /\ Evaluate(b, answers, context) = "UNKNOWN"
        <5>1. Value(g) = FlattenSeq([i \in DOMAIN Parts(b) |-> g[Parts(b)[i]]])
          BY <4>3
        <5>2. \A d \in ToSet(Parts(b)) : g[d] \in Seq(K)
          BY <1>2, <4>3, PartsBefore
        <5> HIDE DEF Parts, Value
        <5> QED
          BY <1>4, <4>3, <5>1, <5>2
      <4> HIDE DEF Value
      <4> QED
        BY <4>1, <4>2, <4>3
    <3> HIDE DEF Value
    <3> QED
      BY <3>1, <3>2
  <2> QED
    BY <2>1 DEF StepsUp
<1>6. PICK f : FollowsSteps(f, Step, n, Seq(K))
  BY <1>5, RecursionExists
<1>7. f = Body(f)
  <2>1. ASSUME NEW b \in 1..n PROVE f[b] = Body(f)[b]
    <3>1. PICK g : g = UpTo(f, b - 1)
      OBVIOUS
    <3>2. g \in [1..(b - 1) -> Seq(K)]
      BY <1>2, <1>6, <3>1 DEF UpTo, FollowsSteps
    <3>3. f[b] = Step[b][g]
      BY <1>6, <3>1 DEF FollowsSteps
    <3>4. IsGroup(b) => [i \in DOMAIN Parts(b) |-> g[Parts(b)[i]]] = [i \in DOMAIN Parts(b) |-> f[Parts(b)[i]]]
      BY <1>2, <3>1, PartsBefore DEF UpTo, ToSet
    <3> QED
      BY <1>2, <1>3, <3>2, <3>3, <3>4
  <2> QED
    BY <1>2, <1>6, <2>1 DEF FollowsSteps
<1>8. Keys0 = Body(Keys0)
  <2> HIDE DEF Body
  <2> QED
    BY <1>7
<1>9. \A c \in DOMAIN Condition : Keys0[c] = Body(Keys0)[c]
  <2> HIDE DEF Body, Keys0
  <2> QED
    BY <1>8
<1> HIDE DEF Keys0
<1>10. \A c \in DOMAIN Condition : Keys0[c] \in Seq(K)
  <2> DEFINE P == {c \in DOMAIN Condition : Keys0[c] \in Seq(K)}
  <2>1. ASSUME NEW c \in DOMAIN Condition, IsGroup(c) => ToSet(Parts(c)) \subseteq P
        PROVE  c \in P
    <3>1. CASE IsGroup(c) /\ Evaluate(c, answers, context) = "UNKNOWN"
      <4>1. Keys0[c] = FlattenSeq([i \in DOMAIN Parts(c) |-> Keys0[Parts(c)[i]]])
        BY <1>9, <3>1
      <4>2. \A d \in ToSet(Parts(c)) : Keys0[d] \in Seq(K)
        BY <2>1, <3>1
      <4>3. Keys0[c] \in Seq(K)
        <5> HIDE DEF Parts
        <5> QED
          BY <1>2, <1>4, <3>1, <4>1, <4>2
      <4> QED
        BY <4>3
    <3>2. CASE ~IsGroup(c)
      <4>1. Keys0[c] = PredicateToAsk(Condition[c], answers, context)
        BY <1>9, <3>2
      <4> HIDE DEF Body
      <4> QED
        BY <3>2, <4>1
    <3>3. CASE IsGroup(c) /\ Evaluate(c, answers, context) # "UNKNOWN"
      <4>1. Keys0[c] = <<>>
        BY <1>9, <3>3
      <4>2. <<>> \in Seq(K)
        OBVIOUS
      <4> HIDE DEF Body
      <4> QED
        BY <4>1, <4>2
    <3> HIDE DEF Body, P
    <3> QED
      BY <3>1, <3>2, <3>3
  <2> HIDE DEF P
  <2>2. DOMAIN Condition \subseteq P
    BY <2>1, ByParts
  <2> QED
    BY <2>2 DEF P
<1> QED
  BY <1>1, <1>9, <1>10

-----------------------------------------------------------------------------
(* Conditions as propositions *)

\* A group is met by its parts, a predicate by its answer or by a fact.
LEMMA MetSteps ==
    ASSUME NEW facts, NEW answers, NEW context
    PROVE  \A c \in DOMAIN Condition :
              /\ Met(c, facts, answers, context) \in BOOLEAN
              /\ ~IsGroup(c) =>
                    (Met(c, facts, answers, context) <=>
                       CASE PredicateResult(Condition[c], answers, context) = "ELIGIBLE" -> TRUE
                         [] PredicateResult(Condition[c], answers, context) = "NOT_ELIGIBLE" -> FALSE
                         [] OTHER -> c \in facts)
              /\ IsGroup(c) /\ Condition[c].match = "all" =>
                    (Met(c, facts, answers, context) <=>
                       \A d \in ToSet(Condition[c].conditions) : Met(d, facts, answers, context))
              /\ IsGroup(c) /\ Condition[c].match # "all" =>
                    (Met(c, facts, answers, context) <=>
                       \E d \in ToSet(Condition[c].conditions) : Met(d, facts, answers, context))
<1> DEFINE Value(c, met) ==
               IF ~IsGroup(c)
                 THEN CASE PredicateResult(Condition[c], answers, context) = "ELIGIBLE" -> TRUE
                        [] PredicateResult(Condition[c], answers, context) = "NOT_ELIGIBLE" -> FALSE
                        [] OTHER -> c \in facts
               ELSE IF Condition[c].match = "all"
                 THEN \A i \in DOMAIN Condition[c].conditions : met[Condition[c].conditions[i]]
                 ELSE \E i \in DOMAIN Condition[c].conditions : met[Condition[c].conditions[i]]
           Body(met) == [c \in DOMAIN Condition |-> Value(c, met)]
           Met0 == CHOOSE met : met = Body(met)
<1>1. \A b : Met(b, facts, answers, context) = Met0[b]
  BY DEF Met
<1>2. PICK n \in Nat : DOMAIN Condition = 1..n
  BY ConditionAssumption
<1>3. PICK Step : Step = [b \in DOMAIN Condition |-> [g \in [1..(b - 1) -> BOOLEAN] |-> Value(b, g)]]
  OBVIOUS
<1>4. ASSUME NEW b \in DOMAIN Condition, NEW met PROVE Value(b, met) \in BOOLEAN
  <2>1. CASE ~IsGroup(b)
    <3>1. CASE PredicateResult(Condition[b], answers, context) = "ELIGIBLE"
      BY <2>1, <3>1
    <3>2. CASE PredicateResult(Condition[b], answers, context) = "NOT_ELIGIBLE"
      BY <2>1, <3>2
    <3>3. CASE /\ PredicateResult(Condition[b], answers, context) # "ELIGIBLE"
               /\ PredicateResult(Condition[b], answers, context) # "NOT_ELIGIBLE"
      BY <2>1, <3>3
    <3> QED
      BY <3>1, <3>2, <3>3
  <2>2. CASE IsGroup(b) /\ Condition[b].match = "all"
    BY <2>2
  <2>3. CASE IsGroup(b) /\ Condition[b].match # "all"
    BY <2>3
  <2> QED
    BY <2>1, <2>2, <2>3
<1>5. StepsUp(Step, n, BOOLEAN)
  <2> HIDE DEF Value
  <2>1. ASSUME NEW b \in 1..n PROVE Step[b] \in [[1..(b - 1) -> BOOLEAN] -> BOOLEAN]
    <3>1. Step[b] = [g \in [1..(b - 1) -> BOOLEAN] |-> Value(b, g)]
      BY <1>2, <1>3
    <3> QED
      BY <1>2, <1>4, <3>1
  <2> QED
    BY <2>1 DEF StepsUp
<1>6. PICK f : FollowsSteps(f, Step, n, BOOLEAN)
  BY <1>5, RecursionExists
<1>7. f = Body(f)
  <2>1. ASSUME NEW b \in 1..n PROVE f[b] = Value(b, f)
    <3>1. PICK g : g = UpTo(f, b - 1)
      OBVIOUS
    <3>2. g \in [1..(b - 1) -> BOOLEAN]
      BY <1>2, <1>6, <3>1 DEF UpTo, FollowsSteps
    <3>3. f[b] = Value(b, g)
      <4> HIDE DEF Value
      <4> QED
        BY <1>2, <1>3, <1>6, <3>1, <3>2 DEF FollowsSteps
    <3>4. IsGroup(b) => \A i \in DOMAIN Condition[b].conditions :
                            g[Condition[b].conditions[i]] = f[Condition[b].conditions[i]]
      BY <1>2, <3>1, PartsBefore DEF UpTo, ToSet
    <3>5. Value(b, g) = Value(b, f)
      BY <3>4, Zenon
    <3> QED
      BY <3>3, <3>5
  <2> HIDE DEF Value
  <2> QED
    BY <1>2, <1>6, <2>1 DEF FollowsSteps
<1>8. Met0 = Body(Met0)
  <2> HIDE DEF Body
  <2> QED
    BY <1>7
<1>9. \A c \in DOMAIN Condition : Met0[c] = Value(c, Met0)
  <2> HIDE DEF Met0, Value
  <2> QED
    BY <1>8
<1> HIDE DEF Met0
<1>10. \A c \in DOMAIN Condition : Met(c, facts, answers, context) = Value(c, Met0)
  <2> HIDE DEF Value
  <2> QED
    BY <1>1, <1>9
<1>11. \A c \in DOMAIN Condition : Met(c, facts, answers, context) \in BOOLEAN
  <2> HIDE DEF Value
  <2> QED
    BY <1>4, <1>10
<1>12. ASSUME NEW c \in DOMAIN Condition, ~IsGroup(c)
       PROVE  Met(c, facts, answers, context) <=>
                 CASE PredicateResult(Condition[c], answers, context) = "ELIGIBLE" -> TRUE
                   [] PredicateResult(Condition[c], answers, context) = "NOT_ELIGIBLE" -> FALSE
                   [] OTHER -> c \in facts
  BY <1>10, <1>12, Zenon
<1>13. ASSUME NEW c \in DOMAIN Condition, IsGroup(c), Condition[c].match = "all"
       PROVE  Met(c, facts, answers, context) <=>
                 \A d \in ToSet(Condition[c].conditions) : Met(d, facts, answers, context)
  <2>1. Met(c, facts, answers, context) = \A i \in DOMAIN Condition[c].conditions : Met0[Condition[c].conditions[i]]
    BY <1>10, <1>13, Zenon
  <2> HIDE DEF Value
  <2> QED
    BY <1>1, <2>1, Zenon DEF ToSet
<1>14. ASSUME NEW c \in DOMAIN Condition, IsGroup(c), Condition[c].match # "all"
       PROVE  Met(c, facts, answers, context) <=>
                 \E d \in ToSet(Condition[c].conditions) : Met(d, facts, answers, context)
  <2>1. Met(c, facts, answers, context) = \E i \in DOMAIN Condition[c].conditions : Met0[Condition[c].conditions[i]]
    BY <1>10, <1>14, Zenon
  <2> HIDE DEF Value
  <2> QED
    BY <1>1, <2>1, Zenon DEF ToSet
<1> HIDE DEF Value
<1> QED
  BY <1>11, <1>12, <1>13, <1>14, Zenon

\* What is open in a group is open in a part, and what is open in a predicate
\* is the predicate itself.
LEMMA UndecidedSteps ==
    ASSUME NEW answers, NEW context
    PROVE  \A c \in DOMAIN Condition :
              /\ ~IsGroup(c) =>
                    Undecided(c, answers, context) =
                       {d \in {c} : PredicateResult(Condition[c], answers, context) = "UNKNOWN"}
              /\ IsGroup(c) =>
                    Undecided(c, answers, context) =
                       UNION {Undecided(d, answers, context) : d \in ToSet(Condition[c].conditions)}
<1> DEFINE Value(c, open) ==
               IF IsGroup(c)
                 THEN UNION {open[d] : d \in ToSet(Condition[c].conditions)}
                 ELSE {d \in {c} : PredicateResult(Condition[c], answers, context) = "UNKNOWN"}
           Body(open) == [c \in DOMAIN Condition |-> Value(c, open)]
           Open0 == CHOOSE open : open = Body(open)
<1>1. \A b : Undecided(b, answers, context) = Open0[b]
  BY DEF Undecided
<1>2. PICK n \in Nat : DOMAIN Condition = 1..n
  BY ConditionAssumption
<1>3. PICK D : D = SUBSET DOMAIN Condition
  OBVIOUS
<1>4. PICK Step : Step = [b \in DOMAIN Condition |-> [g \in [1..(b - 1) -> D] |-> Value(b, g)]]
  OBVIOUS
<1>5. StepsUp(Step, n, D)
  <2>1. ASSUME NEW b \in 1..n PROVE Step[b] \in [[1..(b - 1) -> D] -> D]
    <3>1. Step[b] = [g \in [1..(b - 1) -> D] |-> Value(b, g)]
      <4> HIDE DEF Value
      <4> QED
        BY <1>2, <1>4
    <3>2. ASSUME NEW g \in [1..(b - 1) -> D] PROVE Value(b, g) \in D
      <4>1. CASE IsGroup(b)
        <5>1. \A d \in ToSet(Condition[b].conditions) : d \in 1..(b - 1)
          BY <1>2, <4>1, PartsBefore
        <5>2. \A d \in ToSet(Condition[b].conditions) : g[d] \subseteq DOMAIN Condition
          BY <1>3, <5>1
        <5> QED
          BY <1>3, <4>1, <5>2
      <4>2. CASE ~IsGroup(b)
        BY <1>2, <1>3, <4>2
      <4> QED
        BY <4>1, <4>2
    <3> HIDE DEF Value
    <3> QED
      BY <3>1, <3>2
  <2> QED
    BY <2>1 DEF StepsUp
<1>6. PICK f : FollowsSteps(f, Step, n, D)
  BY <1>5, RecursionExists
<1>7. f = Body(f)
  <2>1. ASSUME NEW b \in 1..n PROVE f[b] = Value(b, f)
    <3>1. PICK g : g = UpTo(f, b - 1)
      OBVIOUS
    <3>2. g \in [1..(b - 1) -> D]
      BY <1>2, <1>6, <3>1 DEF UpTo, FollowsSteps
    <3>3. f[b] = Value(b, g)
      <4> HIDE DEF Value
      <4> QED
        BY <1>2, <1>4, <1>6, <3>1, <3>2 DEF FollowsSteps
    <3>4. IsGroup(b) => {g[d] : d \in ToSet(Condition[b].conditions)} = {f[d] : d \in ToSet(Condition[b].conditions)}
      BY <1>2, <3>1, PartsBefore DEF UpTo
    <3>5. Value(b, g) = Value(b, f)
      BY <3>4
    <3> QED
      BY <3>3, <3>5
  <2> HIDE DEF Value
  <2> QED
    BY <1>2, <1>6, <2>1 DEF FollowsSteps
<1>8. Open0 = Body(Open0)
  <2> HIDE DEF Body
  <2> QED
    BY <1>7
<1>9. \A c \in DOMAIN Condition : Open0[c] = Value(c, Open0)
  <2> HIDE DEF Open0, Value
  <2> QED
    BY <1>8
<1> HIDE DEF Open0
<1>10. ASSUME NEW c \in DOMAIN Condition, ~IsGroup(c)
       PROVE  Undecided(c, answers, context) =
                 {d \in {c} : PredicateResult(Condition[c], answers, context) = "UNKNOWN"}
  BY <1>1, <1>9, <1>10
<1>11. ASSUME NEW c \in DOMAIN Condition, IsGroup(c)
       PROVE  Undecided(c, answers, context) =
                 UNION {Undecided(d, answers, context) : d \in ToSet(Condition[c].conditions)}
  <2>1. {Undecided(d, answers, context) : d \in ToSet(Condition[c].conditions)}
          = {Open0[d] : d \in ToSet(Condition[c].conditions)}
    BY <1>1
  <2>2. Undecided(c, answers, context) = UNION {Open0[d] : d \in ToSet(Condition[c].conditions)}
    BY <1>1, <1>9, <1>11
  <2> QED
    BY <2>1, <2>2
<1> HIDE DEF Value
<1> QED
  BY <1>10, <1>11, Zenon

\* By its parts, every condition is monotone in the facts, so that what is open
\* can be met and can fail.
LEMMA JudgedByParts ==
    ASSUME NEW answers, NEW context, NEW c \in DOMAIN Condition
    PROVE  /\ Evaluate(c, answers, context) = "ELIGIBLE" =>
                 \A facts : Met(c, facts, answers, context)
           /\ Evaluate(c, answers, context) = "NOT_ELIGIBLE" =>
                 \A facts : ~Met(c, facts, answers, context)
           /\ Evaluate(c, answers, context) = "UNKNOWN" =>
                 /\ ~Met(c, {}, answers, context)
                 /\ \A facts : Undecided(c, answers, context) \subseteq facts =>
                        Met(c, facts, answers, context)
<1> DEFINE E(b) == Evaluate(b, answers, context)
           M(b, facts) == Met(b, facts, answers, context)
           U(b) == Undecided(b, answers, context)
           Parts(b) == ToSet(Condition[b].conditions)
           Sure(b) ==
              /\ E(b) = "ELIGIBLE" => \A facts : M(b, facts)
              /\ E(b) = "NOT_ELIGIBLE" => \A facts : ~M(b, facts)
              /\ E(b) = "UNKNOWN" => ~M(b, {}) /\ \A facts : U(b) \subseteq facts => M(b, facts)
           P == {b \in DOMAIN Condition : Sure(b)}
<1>1. ASSUME NEW b \in DOMAIN Condition, IsGroup(b) => Parts(b) \subseteq P PROVE b \in P
  <2>1. CASE ~IsGroup(b)
    <3>1. /\ E(b) = PredicateResult(Condition[b], answers, context)
          /\ U(b) = {d \in {b} : PredicateResult(Condition[b], answers, context) = "UNKNOWN"}
      <4>1. E(b) = PredicateResult(Condition[b], answers, context)
        BY <2>1, EvaluateSteps
      <4>2. U(b) = {d \in {b} : PredicateResult(Condition[b], answers, context) = "UNKNOWN"}
        BY <2>1, UndecidedSteps
      <4> HIDE DEF E, U
      <4> QED
        BY <4>1, <4>2
    <3>2. \A facts :
             M(b, facts) <=> CASE E(b) = "ELIGIBLE" -> TRUE
                               [] E(b) = "NOT_ELIGIBLE" -> FALSE
                               [] OTHER -> b \in facts
      BY <2>1, <3>1, MetSteps
    <3>3. \A facts : /\ E(b) = "ELIGIBLE" => M(b, facts)
                     /\ E(b) = "NOT_ELIGIBLE" => ~M(b, facts)
                     /\ E(b) = "UNKNOWN" => (M(b, facts) <=> b \in facts)
      BY <3>2
    <3>4. E(b) = "UNKNOWN" => U(b) = {b}
      BY <3>1
    <3> HIDE DEF E, M, U
    <3> QED
      BY <3>3, <3>4
  <2>2. CASE IsGroup(b)
    <3>1. /\ Condition[b].match \in Matches
          /\ \A d \in Parts(b) : d \in DOMAIN Condition /\ Sure(d)
      <4> HIDE DEF Sure
      <4> QED
        BY <1>1, <2>2, PartsBefore
    <3>2. E(b) = GroupResult(Condition[b].match, {E(d) : d \in Parts(b)})
      <4>1. E(b) = GroupResult(Condition[b].match, ResultsOf(PartsOf(b), PartResults(b, answers, context)))
        BY <2>2, EvaluateSteps
      <4>2. ResultsOf(PartsOf(b), PartResults(b, answers, context)) = {E(d) : d \in Parts(b)}
        BY DEF ResultsOf, PartsOf, PartResults
      <4> HIDE DEF E, Parts
      <4> QED
        BY <4>1, <4>2
    <3>3. U(b) = UNION {U(d) : d \in Parts(b)}
      BY <2>2, UndecidedSteps
    <3>4. \A d \in Parts(b) : E(d) \in Results
      BY <3>1, EvaluateSteps
    <3>5. CASE Condition[b].match = "all"
      <4>1. \A facts : M(b, facts) <=> \A d \in Parts(b) : M(d, facts)
        BY <2>2, <3>5, MetSteps
      <4>2. /\ E(b) = "NOT_ELIGIBLE" => \E d \in Parts(b) : E(d) = "NOT_ELIGIBLE"
            /\ E(b) = "UNKNOWN" => /\ \E d \in Parts(b) : E(d) = "UNKNOWN"
                                   /\ \A d \in Parts(b) : E(d) # "NOT_ELIGIBLE"
            /\ E(b) = "ELIGIBLE" => \A d \in Parts(b) : E(d) = "ELIGIBLE"
        <5> HIDE DEF E, Parts
        <5> QED
          BY <3>2, <3>4, <3>5 DEF GroupResult, Results
      <4> HIDE DEF E, M, U, Parts
      <4> QED
        BY <3>1, <3>3, <3>4, <4>1, <4>2 DEF Results
    <3>6. CASE Condition[b].match = "any"
      <4>1. \A facts : M(b, facts) <=> \E d \in Parts(b) : M(d, facts)
        BY <2>2, <3>6, MetSteps
      <4>2. /\ E(b) = "ELIGIBLE" => \E d \in Parts(b) : E(d) = "ELIGIBLE"
            /\ E(b) = "UNKNOWN" => /\ \E d \in Parts(b) : E(d) = "UNKNOWN"
                                   /\ \A d \in Parts(b) : E(d) # "ELIGIBLE"
            /\ E(b) = "NOT_ELIGIBLE" => \A d \in Parts(b) : E(d) = "NOT_ELIGIBLE"
        <5> HIDE DEF E, Parts
        <5> QED
          BY <3>2, <3>4, <3>6 DEF GroupResult, Results
      <4> HIDE DEF E, M, U, Parts
      <4> QED
        BY <3>1, <3>3, <3>4, <4>1, <4>2 DEF Results
    <3> QED
      BY <3>1, <3>5, <3>6 DEF Matches
  <2> QED
    BY <2>1, <2>2
<1>2. DOMAIN Condition \subseteq P
  <2> HIDE DEF P
  <2> QED
    BY <1>1, ByParts
<1>3. Sure(c)
  <2> HIDE DEF Sure
  <2> QED
    BY <1>2
<1> QED
  BY <1>3

\* A condition is decided exactly when no facts about the predicates that are
\* still open could turn it (ConditionGroupVO.evaluate): whatever the nesting
\* of its groups.
THEOREM ConditionJudgesExactly ==
    ASSUME NEW answers, NEW context, NEW c \in DOMAIN Condition
    PROVE  Evaluate(c, answers, context) = Judgement(c, answers, context)
<1> DEFINE E == Evaluate(c, answers, context)
           M(facts) == Met(c, facts, answers, context)
           open == Undecided(c, answers, context)
           possible == {M(facts) : facts \in SUBSET open}
<1>1. /\ E \in Results
      /\ \A facts : M(facts) \in BOOLEAN
      /\ E = "ELIGIBLE" => \A facts : M(facts)
      /\ E = "NOT_ELIGIBLE" => \A facts : ~M(facts)
      /\ E = "UNKNOWN" => ~M({}) /\ M(open)
  <2>1. E \in Results
    BY EvaluateSteps, Zenon
  <2>2. \A facts : M(facts) \in BOOLEAN
    BY MetSteps, Zenon
  <2>3. /\ E = "ELIGIBLE" => \A facts : M(facts)
        /\ E = "NOT_ELIGIBLE" => \A facts : ~M(facts)
        /\ E = "UNKNOWN" => ~M({}) /\ M(open)
    BY JudgedByParts, Zenon
  <2> HIDE DEF E, M, open
  <2> QED
    BY <2>1, <2>2, <2>3
<1>2. Judgement(c, answers, context) =
         CASE possible = {TRUE} -> "ELIGIBLE" [] possible = {FALSE} -> "NOT_ELIGIBLE" [] OTHER -> "UNKNOWN"
  BY DEF Judgement
<1>3. {} \in SUBSET open /\ open \in SUBSET open
  OBVIOUS
<1> HIDE DEF E, M, open
<1>4. CASE E = "ELIGIBLE"
  <2>1. \A facts : M(facts) = TRUE
    BY <1>1, <1>4, Zenon
  <2>2. possible = {TRUE}
    BY <1>3, <2>1, Zenon
  <2> QED
    BY <1>2, <1>4, <2>2 DEF E
<1>5. CASE E = "NOT_ELIGIBLE"
  <2>1. \A facts : M(facts) = FALSE
    BY <1>1, <1>5, Zenon
  <2>2. possible = {FALSE}
    BY <1>3, <2>1, Zenon
  <2>3. {FALSE} # {TRUE}
    OBVIOUS
  <2> QED
    BY <1>2, <1>5, <2>2, <2>3 DEF E
<1>6. CASE E = "UNKNOWN"
  <2>1. M({}) = FALSE /\ M(open) = TRUE
    BY <1>1, <1>6, Zenon
  <2>2. FALSE \in possible /\ TRUE \in possible
    BY <1>3, <2>1, Zenon
  <2>3. possible # {TRUE} /\ possible # {FALSE}
    BY <2>2
  <2> HIDE DEF possible
  <2> QED
    BY <1>2, <1>6, <2>3 DEF E
<1> QED
  BY <1>1, <1>4, <1>5, <1>6 DEF Results, E

-----------------------------------------------------------------------------
(* More answers *)

\* What was answered stays answered like that.
Extends(more, given) == \A k \in Keys : given[k] # Unanswered => more[k] = given[k]

\* A missing answer decides nothing.
LEMMA UnansweredOpen ==
    ASSUME NEW p, NEW reply, reply = Unanswered
    PROVE  ~Understood(p, reply)
<1>1. /\ reply.kind = "unanswered"
      /\ reply \notin {Word("individual"), Word("business"), Word("yes"), Word("no")}
  <2>1. reply.kind = "unanswered"
    BY DEF Unanswered
  <2>2. \A w : Word(w).kind = "word"
    BY DEF Word
  <2> QED
    BY <2>1, <2>2
<1> QED
  BY <1>1 DEF Understood

\* A predicate that an answer decided is decided the same with more answers.
LEMMA PredicateStays ==
    ASSUME NEW p, NEW context, Key(p, context) \in Keys,
           NEW given, NEW more, Extends(more, given),
           PredicateResult(p, given, context) # "UNKNOWN"
    PROVE  PredicateResult(p, more, context) = PredicateResult(p, given, context)
<1>1. Understood(p, Reply(p, given, context))
  BY DEF PredicateResult
<1>2. Reply(p, more, context) = Reply(p, given, context)
  <2>1. CASE p.field = "saving_term"
    BY <2>1 DEF Reply
  <2>2. CASE p.field # "saving_term"
    <3>1. given[Key(p, context)] # Unanswered
      BY <1>1, <2>2, UnansweredOpen DEF Reply
    <3> QED
      BY <2>2, <3>1 DEF Reply, Extends
  <2> QED
    BY <2>1, <2>2
<1> QED
  BY <1>2 DEF PredicateResult

\* So is every condition (ConditionGroupVO.evaluate): the questions that are
\* left cannot take back what the earlier ones settled.
THEOREM ConditionStaysDecided ==
    ASSUME NEW context, WellKeyed(context), NEW given, NEW more, Extends(more, given),
           NEW c \in DOMAIN Condition, Evaluate(c, given, context) # "UNKNOWN"
    PROVE  Evaluate(c, more, context) = Evaluate(c, given, context)
<1> DEFINE P == {b \in DOMAIN Condition :
                    Evaluate(b, given, context) # "UNKNOWN" =>
                       Evaluate(b, more, context) = Evaluate(b, given, context)}
<1>1. ASSUME NEW b \in DOMAIN Condition, IsGroup(b) => PartsOf(b) \subseteq P PROVE b \in P
  <2>1. SUFFICES ASSUME Evaluate(b, given, context) # "UNKNOWN"
                 PROVE  Evaluate(b, more, context) = Evaluate(b, given, context)
    OBVIOUS
  <2>2. CASE ~IsGroup(b)
    <3>1. /\ Evaluate(b, given, context) = PredicateResult(Condition[b], given, context)
          /\ Evaluate(b, more, context) = PredicateResult(Condition[b], more, context)
      BY <2>2, EvaluateSteps
    <3>2. Key(Condition[b], context) \in Keys
      BY <2>2 DEF WellKeyed
    <3> QED
      BY <2>1, <3>1, <3>2, PredicateStays
  <2>3. CASE IsGroup(b)
    <3>1. PICK match : match = Condition[b].match
      OBVIOUS
    <3>2. match \in Matches /\ PartsOf(b) \subseteq DOMAIN Condition
      BY <2>3, <3>1, PartsBefore DEF PartsOf
    <3>3. PICK earlier : earlier = PartResults(b, given, context)
      OBVIOUS
    <3>4. PICK later : later = PartResults(b, more, context)
      OBVIOUS
    <3>5. /\ Evaluate(b, given, context) = GroupResult(match, ResultsOf(PartsOf(b), earlier))
          /\ Evaluate(b, more, context) = GroupResult(match, ResultsOf(PartsOf(b), later))
      BY <2>3, <3>1, <3>3, <3>4, EvaluateSteps
    <3>6. \A d \in PartsOf(b) : Evaluate(d, given, context) \in Results /\ Evaluate(d, more, context) \in Results
      BY <3>2, EvaluateSteps
    <3>7. earlier \in [PartsOf(b) -> Results] /\ later \in [PartsOf(b) -> Results]
      BY <3>3, <3>4, <3>6 DEF PartResults
    <3>8. Refines(later, earlier, PartsOf(b))
      BY <1>1, <2>3, <3>3, <3>4 DEF Refines, PartResults
    <3> QED
      BY <2>1, <3>2, <3>5, <3>7, <3>8, GroupStaysDecided
  <2> QED
    BY <2>2, <2>3
<1>2. DOMAIN Condition \subseteq P
  <2> HIDE DEF P
  <2> QED
    BY <1>1, ByParts DEF PartsOf
<1> QED
  BY <1>2

\* What is open for want of an answer.
Open(given) == {k \in Keys : given[k] = Unanswered}

\* Only what has no answer is asked for.
LEMMA ToAskOpen ==
    ASSUME NEW context, WellKeyed(context), NEW given, NEW c \in DOMAIN Condition
    PROVE  ToAsk(c, given, context) \in Seq(Open(given))
<1>1. ASSUME NEW b \in DOMAIN Condition, ~IsGroup(b)
      PROVE  PredicateToAsk(Condition[b], given, context) \in Seq(Open(given))
  <2>1. PICK k : k = Key(Condition[b], context)
    OBVIOUS
  <2>2. k \in Keys
    BY <1>1, <2>1 DEF WellKeyed
  <2>3. CASE PredicateToAsk(Condition[b], given, context) = <<>>
    BY <2>3
  <2>4. CASE PredicateToAsk(Condition[b], given, context) # <<>>
    <3>1. given[k] = Unanswered /\ PredicateToAsk(Condition[b], given, context) = <<k>>
      BY <2>1, <2>4 DEF PredicateToAsk
    <3>2. k \in Open(given)
      BY <2>2, <3>1 DEF Open
    <3>3. <<k>> \in Seq(Open(given))
      BY <3>2
    <3> QED
      BY <3>1, <3>3
  <2> QED
    BY <2>3, <2>4
<1> QED
  BY <1>1, ToAskSteps

-----------------------------------------------------------------------------
(* Offers *)

\* The options of usable products that may be looked at.
OfferOf(products, terms) ==
    {f \in [product : DOMAIN products, option : UNION {ToSet(products[i].options) : i \in DOMAIN products}] :
        /\ f.option \in ToSet(products[f.product].options)
        /\ IsUsable(products[f.product])
        /\ f.option.term \in terms}

\* Those and no others are checked (CandidateCollector.collect).
LEMMA CheckedOffers ==
    ASSUME NEW products, IsCatalog(products), NEW terms
    PROVE  /\ Checked(products, terms) \in Seq(OfferOf(products, terms))
           /\ \A f \in OfferOf(products, terms) : f \in ToSet(Checked(products, terms))
<1> DEFINE Chosen(i) == IF IsUsable(products[i]) THEN OptionsInTerms(products[i], terms) ELSE <<>>
           List(i) == [n \in DOMAIN Chosen(i) |-> [product |-> i, option |-> Chosen(i)[n]]]
           lists == [i \in DOMAIN products |-> List(i)]
<1>1. PICK m \in Nat : DOMAIN products = 1..m
  BY DEF IsCatalog, IsList
<1>2. ASSUME NEW i \in DOMAIN products
      PROVE  /\ List(i) \in Seq(OfferOf(products, terms))
             /\ \A f \in OfferOf(products, terms) :
                   f.product = i => \E j \in 1..Len(List(i)) : List(i)[j] = f
  <2>1. CASE ~IsUsable(products[i])
    <3>1. Chosen(i) = <<>>
      BY <2>1
    <3>2. List(i) = <<>>
      <4> HIDE DEF Chosen
      <4> QED
        BY <3>1
    <3>3. <<>> \in Seq(OfferOf(products, terms))
      OBVIOUS
    <3>4. \A f \in OfferOf(products, terms) : f.product # i
      BY <2>1 DEF OfferOf
    <3> HIDE DEF List
    <3> QED
      BY <3>2, <3>3, <3>4
  <2>2. CASE IsUsable(products[i])
    <3>1. PICK options : options = products[i].options
      OBVIOUS
    <3>2. PICK inTerms : inTerms = {n \in DOMAIN options : options[n].term \in terms}
      OBVIOUS
    <3>3. options \in Seq(ToSet(options)) /\ inTerms \subseteq DOMAIN options
      BY <3>1, <3>2, <1>1 DEF IsCatalog, IsProduct, IsList, ToSet
    <3>4. PICK chosen : chosen = Selected(options, inTerms)
      OBVIOUS
    <3>5. chosen \in Seq(ToSet(options))
      BY <3>3, <3>4, SelectedProperties
    <3>6. PICK at : Keeps(at, chosen, options, inTerms)
      BY <3>3, <3>4, SelectedProperties
    <3>7. \A n \in DOMAIN chosen : chosen[n] \in ToSet(options) /\ chosen[n].term \in terms
      BY <3>2, <3>5, <3>6 DEF Keeps
    <3>8. Chosen(i) = chosen
      BY <2>2, <3>1, <3>2, <3>4 DEF OptionsInTerms
    <3>9. \A n \in DOMAIN chosen : [product |-> i, option |-> chosen[n]] \in OfferOf(products, terms)
      BY <2>2, <3>1, <3>7 DEF OfferOf
    <3>10. List(i) = [n \in DOMAIN chosen |-> [product |-> i, option |-> chosen[n]]]
      <4> HIDE DEF Chosen
      <4> QED
        BY <3>8
    <3>11. PICK list : list = List(i) /\ list = [n \in DOMAIN chosen |-> [product |-> i, option |-> chosen[n]]]
      <4> HIDE DEF List
      <4> QED
        BY <3>10
    <3>12. list \in Seq(OfferOf(products, terms)) /\ DOMAIN chosen = 1..Len(list)
      BY <3>5, <3>9, <3>11
    <3>13. ASSUME NEW f \in OfferOf(products, terms), f.product = i
           PROVE  \E j \in 1..Len(list) : list[j] = f
      <4>1. f = [product |-> i, option |-> f.option] /\ f.option \in ToSet(options) /\ f.option.term \in terms
        BY <3>1, <3>13 DEF OfferOf
      <4>2. PICK n \in inTerms : options[n] = f.option
        BY <3>2, <4>1 DEF ToSet
      <4>3. PICK j \in 1..Len(chosen) : chosen[j] = f.option
        BY <3>6, <4>2 DEF Keeps
      <4>4. j \in DOMAIN chosen
        BY <3>5, <4>3
      <4> QED
        BY <3>11, <3>12, <4>1, <4>3, <4>4
    <3> HIDE DEF List
    <3> QED
      BY <3>11, <3>12, <3>13
  <2> QED
    BY <2>1, <2>2
<1>3. PICK all : all = lists
  OBVIOUS
<1>4. all \in Seq(Seq(OfferOf(products, terms)))
  <2> HIDE DEF List
  <2> QED
    BY <1>1, <1>2, <1>3
<1>5. PICK checked : checked = FlattenSeq(all)
  OBVIOUS
<1>6. checked = Checked(products, terms)
  BY <1>3, <1>5 DEF Checked
<1>7. checked \in Seq(OfferOf(products, terms)) /\ Gathers(checked, all, Len(all))
  BY <1>4, <1>5, FlattenProperties
<1>8. ASSUME NEW f \in OfferOf(products, terms) PROVE f \in ToSet(checked)
  <2>1. f.product \in DOMAIN products /\ DOMAIN products = 1..Len(all)
    <3>1. f.product \in DOMAIN products
      BY DEF OfferOf
    <3>2. DOMAIN all = DOMAIN products
      BY <1>3
    <3> QED
      BY <1>4, <3>1, <3>2
  <2>2. all[f.product] = List(f.product)
    BY <1>3, <2>1
  <2>3. PICK j \in 1..Len(all[f.product]) : all[f.product][j] = f
    <3> HIDE DEF List
    <3> QED
      BY <1>2, <2>1, <2>2
  <2>4. PICK k \in 1..Len(checked) : checked[k] = f
    <3>1. PICK i \in 1..Len(all) : i = f.product
      BY <2>1
    <3>2. j \in 1..Len(all[i]) /\ all[i][j] = f
      BY <2>3, <3>1
    <3>3. \E k \in 1..Len(checked) : checked[k] = all[i][j]
      BY <1>7, <3>1, <3>2 DEF Gathers
    <3> QED
      BY <3>2, <3>3
  <2> QED
    BY <1>7, <2>4 DEF ToSet
<1> QED
  BY <1>6, <1>7, <1>8

\* What the conditions of an offer refer to.
LEMMA OfferFacts ==
    ASSUME NEW products, IsCatalog(products), NEW terms, NEW f \in OfferOf(products, terms)
    PROVE  /\ f.product \in Nat
           /\ f.product \in DOMAIN products
           /\ f.option.term \in Nat /\ f.option.base \in Int /\ f.option.max \in Int
           /\ products[f.product].eligibility \in DOMAIN Condition
           /\ products[f.product].bonuses \in Seq([points : Nat, condition : DOMAIN Condition])
           /\ WellKeyed(Context(products[f.product], f.option))
<1>1. /\ f.product \in DOMAIN products
      /\ f.option \in ToSet(products[f.product].options)
      /\ IsUsable(products[f.product])
  BY DEF OfferOf
<1>2. DOMAIN products \subseteq Nat /\ IsProduct(products[f.product])
  BY <1>1 DEF IsCatalog, IsList, ToSet
<1> QED
  BY <1>1, <1>2 DEF IsProduct

\* The eligibility of an offer is a result, and stays once it is decided.
LEMMA EligibilityFacts ==
    ASSUME NEW products, IsCatalog(products), NEW terms, NEW f \in OfferOf(products, terms),
           NEW given, NEW more, Extends(more, given)
    PROVE  /\ Eligibility(products, f, given) \in Results
           /\ EligibilityToAsk(products, f, given) \in Seq(Open(given))
           /\ Eligibility(products, f, given) # "UNKNOWN" =>
                 Eligibility(products, f, more) = Eligibility(products, f, given)
<1>1. PICK context : context = Context(products[f.product], f.option)
  OBVIOUS
<1>2. PICK c : c = products[f.product].eligibility
  OBVIOUS
<1>3. WellKeyed(context) /\ c \in DOMAIN Condition
  BY <1>1, <1>2, OfferFacts
<1>4. /\ Eligibility(products, f, given) = Evaluate(c, given, context)
      /\ Eligibility(products, f, more) = Evaluate(c, more, context)
      /\ EligibilityToAsk(products, f, given) = ToAsk(c, given, context)
  BY <1>1, <1>2 DEF Eligibility, EligibilityToAsk
<1>5. Evaluate(c, given, context) \in Results
  BY <1>3, EvaluateSteps
<1>6. ToAsk(c, given, context) \in Seq(Open(given))
  BY <1>3, ToAskOpen
<1>7. Evaluate(c, given, context) # "UNKNOWN" => Evaluate(c, more, context) = Evaluate(c, given, context)
  BY <1>3, ConditionStaysDecided
<1> QED
  BY <1>4, <1>5, <1>6, <1>7

\* So do the results of its bonuses.
LEMMA BonusFacts ==
    ASSUME NEW products, IsCatalog(products), NEW terms, NEW f \in OfferOf(products, terms),
           NEW given, NEW more, Extends(more, given), NEW n \in DOMAIN products[f.product].bonuses
    PROVE  /\ products[f.product].bonuses[n].points \in Nat
           /\ BonusResult(n, products, f, given) \in Results
           /\ BonusResult(n, products, f, given) # "UNKNOWN" =>
                 BonusResult(n, products, f, more) = BonusResult(n, products, f, given)
<1>1. PICK context : context = Context(products[f.product], f.option)
  OBVIOUS
<1>2. PICK bonuses : bonuses = products[f.product].bonuses
  OBVIOUS
<1>3. WellKeyed(context) /\ bonuses \in Seq([points : Nat, condition : DOMAIN Condition])
  BY <1>1, <1>2, OfferFacts
<1>4. PICK c : c = bonuses[n].condition
  OBVIOUS
<1>5. c \in DOMAIN Condition /\ bonuses[n].points \in Nat
  <2>1. bonuses[n] \in [points : Nat, condition : DOMAIN Condition]
    <3> HIDE DEF WellKeyed
    <3>1. PICK S : S = [points : Nat, condition : DOMAIN Condition]
      OBVIOUS
    <3>2. bonuses \in Seq(S) /\ n \in DOMAIN bonuses
      BY <1>2, <1>3, <3>1
    <3>3. bonuses[n] \in S
      BY <3>2
    <3> QED
      BY <3>1, <3>3
  <2> QED
    BY <1>4, <2>1
<1>6. /\ BonusResult(n, products, f, given) = Evaluate(c, given, context)
      /\ BonusResult(n, products, f, more) = Evaluate(c, more, context)
  BY <1>1, <1>2, <1>4 DEF BonusResult
<1>7. Evaluate(c, given, context) \in Results
  BY <1>5, EvaluateSteps
<1>8. Evaluate(c, given, context) # "UNKNOWN" => Evaluate(c, more, context) = Evaluate(c, given, context)
  BY <1>3, <1>5, ConditionStaysDecided
<1> QED
  BY <1>2, <1>5, <1>6, <1>7, <1>8

-----------------------------------------------------------------------------
(* Rates *)

\* The points of the bonuses with a result, bonus by bonus.
PointsWith(result, products, f, given) ==
    [n \in DOMAIN products[f.product].bonuses |->
        IF BonusResult(n, products, f, given) = result THEN products[f.product].bonuses[n].points ELSE 0]

\* The points of an offer's bonuses are natural numbers.
LEMMA PointsFacts ==
    ASSUME NEW products, IsCatalog(products), NEW terms, NEW f \in OfferOf(products, terms),
           NEW given, NEW result
    PROVE  /\ Len(products[f.product].bonuses) \in Nat
           /\ PointsWith(result, products, f, given) \in [1..Len(products[f.product].bonuses) -> Nat]
           /\ Points(result, products, f, given) = SumFunction(PointsWith(result, products, f, given))
           /\ Points(result, products, f, given) \in Nat
<1>1. PICK bonuses : bonuses = products[f.product].bonuses
  OBVIOUS
<1>2. bonuses \in Seq([points : Nat, condition : DOMAIN Condition])
  BY <1>1, OfferFacts
<1>3. PICK m \in Nat : m = Len(bonuses) /\ DOMAIN bonuses = 1..m
  BY <1>2
<1>4. Extends(given, given)
  BY DEF Extends
<1>5. \A n \in 1..m : bonuses[n].points \in Nat
  BY <1>1, <1>3, <1>4, BonusFacts
<1>6. PICK fun : fun = PointsWith(result, products, f, given)
  OBVIOUS
<1>7. fun \in [1..m -> Nat]
  BY <1>1, <1>3, <1>5, <1>6 DEF PointsWith
<1>8. Points(result, products, f, given) = SumFunction(fun)
  BY <1>6 DEF Points, PointsWith
<1>9. PICK none : none = [n \in 1..m |-> 0]
  OBVIOUS
<1>10. SumFunction(none) = 0
  <2>1. PICK h : Sums(h, none, m) /\ h[m] = SumFunction(none)
    BY <1>9, SumSteps
  <2> DEFINE P == {k \in 0..m : h[k] = 0}
  <2>2. 0 \in P
    BY <2>1 DEF Sums
  <2>3. ASSUME NEW k \in 1..m, k - 1 \in P PROVE k \in P
    BY <1>9, <2>1, <2>3 DEF Sums
  <2>4. 0..m \subseteq P
    <3> HIDE DEF P
    <3> QED
      BY <2>2, <2>3, CountUp
  <2> QED
    BY <2>1, <2>4
<1>11. SumFunction(fun) \in Int /\ SumFunction(none) <= SumFunction(fun)
  <2>1. none \in [1..m -> Int] /\ fun \in [1..m -> Int]
    BY <1>7, <1>9
  <2>2. \A i \in 1..m : none[i] <= fun[i]
    BY <1>7, <1>9
  <2>3. \A i \in 1..m : fun[i] <= fun[i]
    BY <1>7
  <2> QED
    BY <2>1, <2>2, <2>3, SumProperties
<1> QED
  BY <1>1, <1>3, <1>6, <1>7, <1>8, <1>10, <1>11

\* With more answers, the points that are certain can only grow, and those
\* that are still possible can only shrink.
LEMMA PointsNarrow ==
    ASSUME NEW products, IsCatalog(products), NEW terms, NEW f \in OfferOf(products, terms),
           NEW given, NEW more, Extends(more, given)
    PROVE  /\ Points("ELIGIBLE", products, f, given) <= Points("ELIGIBLE", products, f, more)
           /\ Points("ELIGIBLE", products, f, more) + Points("UNKNOWN", products, f, more)
                <= Points("ELIGIBLE", products, f, given) + Points("UNKNOWN", products, f, given)
<1>1. PICK m : m = Len(products[f.product].bonuses)
  OBVIOUS
<1>2. PICK e : e = PointsWith("ELIGIBLE", products, f, given)
  OBVIOUS
<1>3. PICK u : u = PointsWith("UNKNOWN", products, f, given)
  OBVIOUS
<1>4. PICK em : em = PointsWith("ELIGIBLE", products, f, more)
  OBVIOUS
<1>5. PICK um : um = PointsWith("UNKNOWN", products, f, more)
  OBVIOUS
<1>6. /\ m \in Nat /\ DOMAIN products[f.product].bonuses = 1..m
      /\ e \in [1..m -> Nat] /\ u \in [1..m -> Nat] /\ em \in [1..m -> Nat] /\ um \in [1..m -> Nat]
  <2>1. m \in Nat
    BY <1>1, PointsFacts
  <2>2. DOMAIN products[f.product].bonuses = 1..m
    <3>1. products[f.product].bonuses \in Seq([points : Nat, condition : DOMAIN Condition])
      BY OfferFacts
    <3> QED
      BY <1>1, <3>1
  <2>3. e \in [1..m -> Nat]
    BY <1>1, <1>2, PointsFacts
  <2>4. u \in [1..m -> Nat]
    BY <1>1, <1>3, PointsFacts
  <2>5. em \in [1..m -> Nat]
    BY <1>1, <1>4, PointsFacts
  <2>6. um \in [1..m -> Nat]
    BY <1>1, <1>5, PointsFacts
  <2> QED
    BY <2>1, <2>2, <2>3, <2>4, <2>5, <2>6
<1>7. ASSUME NEW n \in 1..m PROVE e[n] <= em[n] /\ em[n] + um[n] <= e[n] + u[n]
  <2>1. PICK p : p = products[f.product].bonuses[n].points
    OBVIOUS
  <2>2. PICK r : r = BonusResult(n, products, f, given)
    OBVIOUS
  <2>3. PICK rm : rm = BonusResult(n, products, f, more)
    OBVIOUS
  <2>4. p \in Nat /\ r \in Results /\ (r # "UNKNOWN" => rm = r)
    BY <1>6, <1>7, <2>1, <2>2, <2>3, BonusFacts
  <2>5. /\ e[n] = IF r = "ELIGIBLE" THEN p ELSE 0
        /\ u[n] = IF r = "UNKNOWN" THEN p ELSE 0
        /\ em[n] = IF rm = "ELIGIBLE" THEN p ELSE 0
        /\ um[n] = IF rm = "UNKNOWN" THEN p ELSE 0
    BY <1>2, <1>3, <1>4, <1>5, <1>6, <2>1, <2>2, <2>3 DEF PointsWith
  <2> QED
    BY <2>4, <2>5 DEF Results
<1>8. PICK both : both = [n \in 1..m |-> e[n] + u[n]]
  OBVIOUS
<1>9. PICK bothm : bothm = [n \in 1..m |-> em[n] + um[n]]
  OBVIOUS
<1>10. /\ e \in [1..m -> Int] /\ u \in [1..m -> Int] /\ em \in [1..m -> Int] /\ um \in [1..m -> Int]
  BY <1>6
<1>11. both \in [1..m -> Int] /\ SumFunction(both) = SumFunction(e) + SumFunction(u)
  <2>1. both \in [1..m -> Int] /\ \A i \in 1..m : both[i] = e[i] + u[i]
    BY <1>8, <1>10
  <2> QED
    BY <1>6, <1>10, <2>1, SumAdds
<1>12. bothm \in [1..m -> Int] /\ SumFunction(bothm) = SumFunction(em) + SumFunction(um)
  <2>1. bothm \in [1..m -> Int] /\ \A i \in 1..m : bothm[i] = em[i] + um[i]
    BY <1>9, <1>10
  <2> QED
    BY <1>6, <1>10, <2>1, SumAdds
<1>13. SumFunction(e) <= SumFunction(em)
  <2>1. \A n \in 1..m : e[n] <= em[n]
    BY <1>7
  <2> QED
    BY <1>6, <1>10, <2>1, SumProperties
<1>14. SumFunction(bothm) <= SumFunction(both)
  <2>1. \A n \in 1..m : bothm[n] <= both[n]
    BY <1>6, <1>7, <1>8, <1>9
  <2> QED
    BY <1>6, <1>11, <1>12, <2>1, SumProperties
<1>15. /\ Points("ELIGIBLE", products, f, given) = SumFunction(e)
       /\ Points("UNKNOWN", products, f, given) = SumFunction(u)
       /\ Points("ELIGIBLE", products, f, more) = SumFunction(em)
       /\ Points("UNKNOWN", products, f, more) = SumFunction(um)
  BY <1>2, <1>3, <1>4, <1>5, PointsFacts
<1> QED
  BY <1>11, <1>12, <1>13, <1>14, <1>15

\* A rate is a number and no more than the highest; a possible rate is no less.
LEMMA RateFacts ==
    ASSUME NEW products, IsCatalog(products), NEW terms, NEW f \in OfferOf(products, terms), NEW given
    PROVE  /\ Rate(products, f, given) \in Int /\ PossibleRate(products, f, given) \in Int
           /\ Rate(products, f, given) <= f.option.max
           /\ Rate(products, f, given) <= PossibleRate(products, f, given)
           /\ f.option.base <= f.option.max => f.option.base <= Rate(products, f, given)
<1>1. /\ Points("ELIGIBLE", products, f, given) \in Nat
      /\ Points("UNKNOWN", products, f, given) \in Nat
      /\ f.option.base \in Int /\ f.option.max \in Int
  BY PointsFacts, OfferFacts
<1> QED
  BY <1>1 DEF Rate, PossibleRate, Lower

\* With more answers the rate and the possible rate close in on each other.
THEOREM RatesNarrow ==
    ASSUME NEW products, IsCatalog(products), NEW terms, NEW f \in OfferOf(products, terms),
           NEW given, NEW more, Extends(more, given)
    PROVE  /\ Rate(products, f, given) <= Rate(products, f, more)
           /\ Rate(products, f, more) <= PossibleRate(products, f, more)
           /\ PossibleRate(products, f, more) <= PossibleRate(products, f, given)
<1>1. PICK e \in Nat : e = Points("ELIGIBLE", products, f, given)
  BY PointsFacts
<1>2. PICK u \in Nat : u = Points("UNKNOWN", products, f, given)
  BY PointsFacts
<1>3. PICK em \in Nat : em = Points("ELIGIBLE", products, f, more)
  BY PointsFacts
<1>4. PICK um \in Nat : um = Points("UNKNOWN", products, f, more)
  BY PointsFacts
<1>5. e <= em /\ em + um <= e + u
  BY <1>1, <1>2, <1>3, <1>4, PointsNarrow
<1>6. PICK base \in Int, max \in Int : base = f.option.base /\ max = f.option.max
  BY OfferFacts
<1>7. /\ Rate(products, f, given) = Lower(base + e, max)
      /\ Rate(products, f, more) = Lower(base + em, max)
      /\ PossibleRate(products, f, given) = Lower(Lower(base + e, max) + u, max)
      /\ PossibleRate(products, f, more) = Lower(Lower(base + em, max) + um, max)
  BY <1>1, <1>2, <1>3, <1>4, <1>6 DEF Rate, PossibleRate
<1> QED
  BY <1>5, <1>7 DEF Lower

-----------------------------------------------------------------------------
(* The ranking *)

\* A ranking has candidates only, one a product and term and none worse than
\* any other of these, and the best first.
Ranks(ranking, products, candidates, given) ==
    /\ \A k \in DOMAIN ranking : ranking[k] \in ToSet(candidates)
    /\ \A n \in DOMAIN candidates : \E k \in DOMAIN ranking :
          /\ SameSaving(ranking[k], candidates[n])
          /\ Rate(products, candidates[n], given) <= Rate(products, ranking[k], given)
    /\ \A k, l \in DOMAIN ranking : k # l => ~SameSaving(ranking[k], ranking[l])
    /\ \A k, l \in DOMAIN ranking :
          k < l => Rate(products, ranking[l], given) <= Rate(products, ranking[k], given)

\* That is what the deduplication and the stable sort of SavingRankingVO come to.
THEOREM RankingRanks ==
    ASSUME NEW products, IsCatalog(products), NEW terms, NEW given,
           NEW candidates \in Seq(OfferOf(products, terms))
    PROVE  /\ Ranking(products, candidates, given) \in Seq(OfferOf(products, terms))
           /\ Ranks(Ranking(products, candidates, given), products, candidates, given)
<1> DEFINE Same(f, n) == SameSaving(f, candidates[n])
<1>1. PICK m \in Nat : m = Len(candidates) /\ DOMAIN candidates = 1..m
  OBVIOUS
<1>2. PICK rate : rate = [n \in DOMAIN candidates |-> Rate(products, candidates[n], given)]
  OBVIOUS
<1>3. PICK place : place = [n \in DOMAIN candidates |-> SelectInSeq(candidates, LAMBDA f : SameSaving(f, candidates[n]))]
  OBVIOUS
<1>4. PICK kept : kept = {n \in DOMAIN candidates :
                            \A j \in DOMAIN candidates : place[j] = place[n] =>
                                rate[j] < rate[n] \/ (rate[j] = rate[n] /\ n <= j)}
  OBVIOUS
<1>5. PICK before : before = {two \in kept \X kept :
                                \/ rate[two[1]] > rate[two[2]]
                                \/ rate[two[1]] = rate[two[2]] /\ place[two[1]] < place[two[2]]}
  OBVIOUS
<1>6. PICK order : order = InOrder(kept, before)
  OBVIOUS
<1>7. PICK ranking : ranking = [k \in DOMAIN order |-> candidates[order[k]]]
  OBVIOUS
<1>8. Ranking(products, candidates, given) = ranking
  BY <1>2, <1>3, <1>4, <1>5, <1>6, <1>7 DEF Ranking
<1>9. rate \in [1..m -> Int]
  <2>1. \A n \in 1..m : candidates[n] \in OfferOf(products, terms)
    BY <1>1
  <2>2. \A n \in 1..m : Rate(products, candidates[n], given) \in Int
    BY <2>1, RateFacts
  <2> QED
    BY <1>1, <1>2, <2>2
<1>10. ASSUME NEW n \in 1..m
       PROVE  /\ place[n] \in 1..m
              /\ SameSaving(candidates[place[n]], candidates[n])
              /\ \A i \in 1..m : SameSaving(candidates[i], candidates[n]) => place[n] <= i
  <2>1. PICK I : I = {i \in 1..Len(candidates) : SameSaving(candidates[i], candidates[n])}
    OBVIOUS
  <2>2. place[n] = IF I # {} THEN Min(I) ELSE 0
    BY <1>1, <1>3, <2>1 DEF SelectInSeq
  <2>3. n \in I /\ I \subseteq Nat
    BY <1>1, <2>1 DEF SameSaving
  <2>4. Min(I) \in I /\ \A y \in I : Min(I) <= y
    BY <2>3, MinProperties
  <2> QED
    BY <1>1, <2>1, <2>2, <2>3, <2>4
<1>11. \A n, j \in 1..m : place[n] = place[j] <=> SameSaving(candidates[n], candidates[j])
  <2> SUFFICES ASSUME NEW n \in 1..m, NEW j \in 1..m
               PROVE  place[n] = place[j] <=> SameSaving(candidates[n], candidates[j])
    OBVIOUS
  <2>1. /\ place[n] \in 1..m /\ SameSaving(candidates[place[n]], candidates[n])
        /\ \A i \in 1..m : SameSaving(candidates[i], candidates[n]) => place[n] <= i
    BY <1>10
  <2>2. /\ place[j] \in 1..m /\ SameSaving(candidates[place[j]], candidates[j])
        /\ \A i \in 1..m : SameSaving(candidates[i], candidates[j]) => place[j] <= i
    BY <1>10
  <2>3. ASSUME place[n] = place[j] PROVE SameSaving(candidates[n], candidates[j])
    BY <2>1, <2>2, <2>3 DEF SameSaving
  <2>4. ASSUME SameSaving(candidates[n], candidates[j]) PROVE place[n] = place[j]
    <3>1. SameSaving(candidates[place[n]], candidates[j]) /\ SameSaving(candidates[place[j]], candidates[n])
      BY <2>1, <2>2, <2>4 DEF SameSaving
    <3> QED
      BY <2>1, <2>2, <3>1
  <2> QED
    BY <2>3, <2>4
<1>12. /\ kept \subseteq 1..m
       /\ \A x, y \in kept : place[x] = place[y] => x = y
  <2>1. kept \subseteq 1..m
    BY <1>1, <1>4
  <2>2. ASSUME NEW x \in kept, NEW y \in kept, place[x] = place[y] PROVE x = y
    <3>1. rate[x] < rate[y] \/ (rate[x] = rate[y] /\ y <= x)
      BY <1>4, <2>2
    <3>2. rate[y] < rate[x] \/ (rate[x] = rate[y] /\ x <= y)
      BY <1>4, <2>2
    <3>3. rate[x] \in Int /\ rate[y] \in Int /\ x \in Int /\ y \in Int
      BY <1>9, <2>1
    <3> QED
      BY <3>1, <3>2, <3>3
  <2> QED
    BY <2>1, <2>2
<1>13. ASSUME NEW n \in 1..m
       PROVE  \E k \in kept : place[k] = place[n] /\ rate[n] <= rate[k]
  <2>1. PICK same : same = {i \in 1..m : place[i] = place[n]}
    OBVIOUS
  <2>2. PICK rates : rates = {rate[i] : i \in same}
    OBVIOUS
  <2>3. IsFiniteSet(same)
    <3>1. IsFiniteSet(1..m)
      BY FS_Interval
    <3> QED
      BY <2>1, <3>1, FS_Subset
  <2>4. IsFiniteSet(rates) /\ rates \subseteq Int /\ rates # {}
    <3>1. [i \in same |-> rate[i]] \in Surjection(same, rates)
      BY <2>2 DEF Surjection
    <3>2. IsFiniteSet(rates)
      BY <2>3, <3>1, FS_Surjection
    <3>3. n \in same
      BY <2>1
    <3> QED
      BY <1>9, <2>1, <2>2, <3>2, <3>3
  <2>5. Max(rates) \in rates /\ \A r \in rates : Max(rates) >= r
    BY <2>4, MaxProperties
  <2>6. PICK best : best = {i \in same : rate[i] = Max(rates)}
    OBVIOUS
  <2>7. best \subseteq Nat /\ best # {}
    <3>1. PICK i \in same : rate[i] = Max(rates)
      BY <2>2, <2>5
    <3>2. i \in best
      BY <2>6, <3>1
    <3>3. best \subseteq Nat
      BY <2>1, <2>6
    <3> QED
      BY <3>2, <3>3
  <2>8. PICK k \in best : \A j \in best : k <= j
    BY <2>7, LeastNumber
  <2>9. \A j \in same : rate[j] \in Int /\ rate[k] \in Int /\ rate[j] <= rate[k]
    BY <1>9, <2>1, <2>2, <2>5, <2>6
  <2>10. \A j \in 1..m : place[j] = place[k] => rate[j] < rate[k] \/ (rate[j] = rate[k] /\ k <= j)
    <3>1. \A j \in 1..m : place[j] = place[k] => j \in same
      BY <2>1, <2>6
    <3>2. \A j \in same : rate[j] = rate[k] => k <= j
      BY <2>6, <2>8
    <3> QED
      BY <2>9, <3>1, <3>2
  <2>11. k \in kept
    BY <1>1, <1>4, <2>1, <2>6, <2>10
  <2> QED
    BY <2>1, <2>6, <2>9, <2>11
<1>14. Orders(before, kept)
  <2>1. \A x \in kept : rate[x] \in Int /\ place[x] \in Int
    BY <1>9, <1>10, <1>12
  <2>2. \A x, y \in kept : <<x, y>> \in before <=>
           rate[x] > rate[y] \/ (rate[x] = rate[y] /\ place[x] < place[y])
    BY <1>5
  <2>3. \A x, y \in kept : <<x, y>> \in before => <<y, x>> \notin before
    BY <2>1, <2>2
  <2>4. \A x, y, z \in kept : <<x, y>> \in before /\ <<y, z>> \in before => <<x, z>> \in before
    BY <2>1, <2>2
  <2>5. \A x, y \in kept : x # y => <<x, y>> \in before \/ <<y, x>> \in before
    BY <1>12, <2>1, <2>2
  <2> QED
    BY <2>3, <2>4, <2>5 DEF Orders
<1>15. IsFiniteSet(kept)
  <2>1. IsFiniteSet(1..m)
    BY FS_Interval
  <2> QED
    BY <1>12, <2>1, FS_Subset
<1>16. PICK size \in Nat : size = Cardinality(kept)
  BY <1>15, FS_CardinalityType
<1>17. /\ order \in [1..size -> kept]
       /\ \A x \in kept : \E k \in 1..size : order[k] = x
       /\ \A k, l \in 1..size : k < l => <<order[k], order[l]>> \in before
  BY <1>6, <1>14, <1>15, <1>16, InOrderProperties
<1>18. /\ DOMAIN ranking = 1..size
       /\ \A k \in 1..size : order[k] \in kept /\ order[k] \in 1..m /\ ranking[k] = candidates[order[k]]
  BY <1>7, <1>12, <1>17
<1>19. ranking \in Seq(OfferOf(products, terms))
  <2>1. \A n \in 1..m : candidates[n] \in OfferOf(products, terms)
    BY <1>1
  <2>2. ranking \in [1..size -> OfferOf(products, terms)]
    BY <1>7, <1>18, <2>1
  <2> QED
    BY <2>2
<1>20. \A n \in 1..m : rate[n] = Rate(products, candidates[n], given)
  BY <1>1, <1>2
<1>21. \A k \in 1..size : Rate(products, ranking[k], given) = rate[order[k]]
  BY <1>18, <1>20
<1>22. \A k \in DOMAIN ranking : ranking[k] \in ToSet(candidates)
  BY <1>1, <1>18 DEF ToSet
<1>23. ASSUME NEW n \in DOMAIN candidates
       PROVE  \E k \in DOMAIN ranking :
                 /\ SameSaving(ranking[k], candidates[n])
                 /\ Rate(products, candidates[n], given) <= Rate(products, ranking[k], given)
  <2>1. PICK x \in kept : place[x] = place[n] /\ rate[n] <= rate[x]
    BY <1>1, <1>13
  <2>2. PICK k \in 1..size : order[k] = x
    BY <1>17
  <2>3. SameSaving(ranking[k], candidates[n])
    BY <1>1, <1>11, <1>18, <2>1, <2>2
  <2>4. Rate(products, candidates[n], given) <= Rate(products, ranking[k], given)
    BY <1>1, <1>20, <1>21, <2>1, <2>2
  <2> QED
    BY <1>18, <2>3, <2>4
<1>24. ASSUME NEW k \in DOMAIN ranking, NEW l \in DOMAIN ranking, k < l
       PROVE  /\ ~SameSaving(ranking[k], ranking[l]) /\ ~SameSaving(ranking[l], ranking[k])
              /\ Rate(products, ranking[l], given) <= Rate(products, ranking[k], given)
  <2>1. PICK x \in kept : x = order[k] /\ ranking[k] = candidates[x]
    BY <1>18
  <2>2. PICK y \in kept : y = order[l] /\ ranking[l] = candidates[y]
    BY <1>18
  <2>3. <<x, y>> \in before
    BY <1>17, <1>18, <1>24, <2>1, <2>2
  <2>4. rate[x] > rate[y] \/ (rate[x] = rate[y] /\ place[x] < place[y])
    BY <1>5, <2>3
  <2>5. rate[x] \in Int /\ rate[y] \in Int /\ place[x] \in Int /\ place[y] \in Int /\ x \in 1..m /\ y \in 1..m
    BY <1>9, <1>10, <1>12
  <2>6. x # y /\ place[x] # place[y]
    BY <1>12, <2>4, <2>5
  <2>7. ~SameSaving(ranking[k], ranking[l]) /\ ~SameSaving(ranking[l], ranking[k])
    BY <1>11, <2>1, <2>2, <2>5, <2>6
  <2>8. Rate(products, ranking[l], given) <= Rate(products, ranking[k], given)
    BY <1>18, <1>21, <2>1, <2>2, <2>4, <2>5
  <2> QED
    BY <2>7, <2>8
<1>25. \A k, l \in DOMAIN ranking : k # l => k < l \/ l < k
  BY <1>18
<1>26. Ranks(ranking, products, candidates, given)
  <2>1. \A k, l \in DOMAIN ranking : k # l => ~SameSaving(ranking[k], ranking[l])
    BY <1>24, <1>25
  <2>2. \A k, l \in DOMAIN ranking :
          k < l => Rate(products, ranking[l], given) <= Rate(products, ranking[k], given)
    BY <1>24
  <2> QED
    BY <1>22, <1>23, <2>1, <2>2 DEF Ranks
<1> QED
  BY <1>8, <1>19, <1>26

-----------------------------------------------------------------------------
(* The next step *)

\* The candidates are the offers whose eligibility is certain.
LEMMA CandidateFacts ==
    ASSUME NEW products, IsCatalog(products), NEW terms, NEW given,
           NEW offers \in Seq(OfferOf(products, terms))
    PROVE  /\ Candidates(products, offers, given) \in Seq(OfferOf(products, terms))
           /\ \A f \in ToSet(Candidates(products, offers, given)) :
                 f \in ToSet(offers) /\ Eligibility(products, f, given) = "ELIGIBLE"
           /\ \A f \in ToSet(offers) : Eligibility(products, f, given) = "ELIGIBLE" =>
                 f \in ToSet(Candidates(products, offers, given))
<1>1. PICK indices : indices = {n \in DOMAIN offers : Eligibility(products, offers[n], given) = "ELIGIBLE"}
  OBVIOUS
<1>2. PICK candidates : candidates = Selected(offers, indices)
  OBVIOUS
<1>3. Candidates(products, offers, given) = candidates
  BY <1>1, <1>2 DEF Candidates
<1>4. indices \subseteq DOMAIN offers
  BY <1>1
<1>5. candidates \in Seq(OfferOf(products, terms))
  BY <1>2, <1>4, SelectedProperties
<1>6. PICK at : Keeps(at, candidates, offers, indices)
  BY <1>2, <1>4, SelectedProperties
<1>7. DOMAIN candidates = 1..Len(candidates)
  BY <1>5
<1>8. ASSUME NEW f \in ToSet(candidates)
      PROVE  f \in ToSet(offers) /\ Eligibility(products, f, given) = "ELIGIBLE"
  <2>1. PICK k \in 1..Len(candidates) : f = candidates[k]
    BY <1>7, <1>8 DEF ToSet
  <2>2. at[k] \in indices /\ f = offers[at[k]]
    BY <1>6, <2>1 DEF Keeps
  <2> QED
    BY <1>1, <2>2 DEF ToSet
<1>9. ASSUME NEW f \in ToSet(offers), Eligibility(products, f, given) = "ELIGIBLE"
      PROVE  f \in ToSet(candidates)
  <2>1. PICK n \in indices : f = offers[n]
    BY <1>1, <1>9 DEF ToSet
  <2>2. PICK k \in 1..Len(candidates) : at[k] = n
    BY <1>6, <2>1 DEF Keeps
  <2>3. candidates[k] = f
    BY <1>6, <2>1, <2>2 DEF Keeps
  <2> QED
    BY <1>7, <2>2, <2>3 DEF ToSet
<1> QED
  BY <1>3, <1>5, <1>8, <1>9

\* A question about eligibility has no answer yet.
LEMMA EligibilityQuestionOpen ==
    ASSUME NEW products, IsCatalog(products), NEW terms, NEW given,
           NEW offers \in Seq(OfferOf(products, terms))
    PROVE  EligibilityQuestion(products, offers, given) \in Open(given) \cup {NoKey}
<1>1. PICK I : I = {i \in 1..Len(offers) : EligibilityToAsk(products, offers[i], given) # <<>>}
  OBVIOUS
<1>2. PICK asking : asking = SelectInSeq(offers, LAMBDA f : EligibilityToAsk(products, f, given) # <<>>)
  OBVIOUS
<1>3. asking = IF I # {} THEN Min(I) ELSE 0
  BY <1>1, <1>2 DEF SelectInSeq
<1>4. EligibilityQuestion(products, offers, given) =
        IF asking = 0 THEN NoKey ELSE Head(EligibilityToAsk(products, offers[asking], given))
  BY <1>2 DEF EligibilityQuestion
<1>5. CASE I = {}
  BY <1>3, <1>4, <1>5
<1>6. CASE I # {}
  <2>1. I \subseteq Nat
    BY <1>1
  <2>2. asking \in I
    BY <1>3, <1>6, <2>1, MinProperties
  <2>3. offers[asking] \in OfferOf(products, terms)
    BY <1>1, <2>2
  <2>4. PICK keys : keys = EligibilityToAsk(products, offers[asking], given)
    OBVIOUS
  <2>5. Extends(given, given)
    BY DEF Extends
  <2>6. keys \in Seq(Open(given)) /\ keys # <<>>
    BY <1>1, <2>2, <2>3, <2>4, <2>5, EligibilityFacts
  <2>7. Head(keys) \in Open(given)
    BY <2>6
  <2> QED
    BY <1>4, <2>4, <2>7
<1> QED
  BY <1>5, <1>6

\* Neither has one about a bonus.
LEMMA BonusQuestionOpen ==
    ASSUME NEW products, IsCatalog(products), NEW terms, NEW f \in OfferOf(products, terms), NEW given
    PROVE  BonusQuestion(products, f, given) \in Open(given) \cup {NoKey}
<1>1. PICK context : context = Context(products[f.product], f.option)
  OBVIOUS
<1>2. PICK bonuses : bonuses = products[f.product].bonuses
  OBVIOUS
<1>3. WellKeyed(context) /\ bonuses \in Seq([points : Nat, condition : DOMAIN Condition])
  BY <1>1, <1>2, OfferFacts
<1>4. PICK lists : lists = [n \in DOMAIN bonuses |-> ToAsk(bonuses[n].condition, given, context)]
  OBVIOUS
<1>5. PICK keys : keys = FlattenSeq(lists)
  OBVIOUS
<1>6. BonusQuestion(products, f, given) = IF keys = <<>> THEN NoKey ELSE Head(keys)
  BY <1>1, <1>2, <1>4, <1>5 DEF BonusQuestion
<1>7. lists \in Seq(Seq(Open(given)))
  <2>1. PICK m \in Nat : DOMAIN bonuses = 1..m
    BY <1>3
  <2>2. Extends(given, given)
    BY DEF Extends
  <2>3. ASSUME NEW n \in 1..m PROVE ToAsk(bonuses[n].condition, given, context) \in Seq(Open(given))
    <3>1. PICK S : S = [points : Nat, condition : DOMAIN Condition]
      OBVIOUS
    <3>2. bonuses[n] \in S
      <4>1. bonuses \in Seq(S)
        BY <1>3, <3>1
      <4> QED
        BY <2>1, <4>1
    <3>3. bonuses[n].condition \in DOMAIN Condition
      BY <3>1, <3>2
    <3> QED
      BY <1>3, <3>3, ToAskOpen
  <2>4. PICK K : K = Seq(Open(given))
    OBVIOUS
  <2>5. lists \in [1..m -> K]
    BY <1>4, <2>1, <2>3, <2>4
  <2>6. lists \in Seq(K)
    BY <2>5
  <2> QED
    BY <2>4, <2>6
<1>8. keys \in Seq(Open(given))
  BY <1>5, <1>7, FlattenProperties
<1>9. keys # <<>> => Head(keys) \in Open(given)
  BY <1>8
<1> QED
  BY <1>6, <1>9

\* So the ranking asks for what has no answer, if it asks (RankingStep).
LEMMA RankingQuestionOpen ==
    ASSUME NEW products, IsCatalog(products), NEW terms, NEW given,
           NEW ranking \in Seq(OfferOf(products, terms))
    PROVE  RankingQuestion(products, ranking, given) \in Open(given) \cup {NoKey}
<1>1. PICK m \in Nat : m = Len(ranking) /\ DOMAIN ranking = 1..m
  OBVIOUS
<1>2. PICK gain : gain = [k \in DOMAIN ranking |->
                            PossibleRate(products, ranking[k], given) - Rate(products, ranking[1], given)]
  OBVIOUS
<1>3. PICK open : open = {k \in DOMAIN ranking :
                            gain[k] > 0 /\ BonusQuestion(products, ranking[k], given) # NoKey}
  OBVIOUS
<1>4. PICK best : best = {k \in open : \A j \in open : gain[j] <= gain[k]}
  OBVIOUS
<1>5. RankingQuestion(products, ranking, given) =
         IF open = {} THEN NoKey ELSE BonusQuestion(products, ranking[Min(best)], given)
  BY <1>2, <1>3, <1>4 DEF RankingQuestion
<1>6. ASSUME open # {} PROVE BonusQuestion(products, ranking[Min(best)], given) \in Open(given) \cup {NoKey}
  <2>1. open \subseteq 1..m
    BY <1>1, <1>3
  <2>2. \A k \in 1..m : gain[k] \in Int
    <3> SUFFICES ASSUME NEW k \in 1..m PROVE gain[k] \in Int
      OBVIOUS
    <3>1. 1 \in 1..m
      OBVIOUS
    <3>2. ranking[k] \in OfferOf(products, terms) /\ ranking[1] \in OfferOf(products, terms)
      BY <1>1, <3>1
    <3>3. PossibleRate(products, ranking[k], given) \in Int
      BY <3>2, RateFacts
    <3>4. Rate(products, ranking[1], given) \in Int
      BY <3>2, RateFacts
    <3> QED
      BY <1>1, <1>2, <3>3, <3>4
  <2>3. PICK gains : gains = {gain[k] : k \in open}
    OBVIOUS
  <2>4. IsFiniteSet(gains) /\ gains \subseteq Int /\ gains # {}
    <3>1. IsFiniteSet(1..m)
      BY FS_Interval
    <3>2. IsFiniteSet(open)
      BY <2>1, <3>1, FS_Subset
    <3>3. [k \in open |-> gain[k]] \in Surjection(open, gains)
      BY <2>3 DEF Surjection
    <3>4. IsFiniteSet(gains)
      BY <3>2, <3>3, FS_Surjection
    <3> QED
      BY <1>6, <2>1, <2>2, <2>3, <3>4
  <2>5. Max(gains) \in gains /\ \A g \in gains : Max(gains) >= g
    BY <2>4, MaxProperties
  <2>6. PICK k \in open : gain[k] = Max(gains)
    BY <2>3, <2>5
  <2>7. k \in best
    BY <1>4, <2>1, <2>2, <2>3, <2>5, <2>6
  <2>8. best \subseteq 1..m /\ best \subseteq Nat /\ best # {}
    <3>1. best \subseteq open
      BY <1>4
    <3> QED
      BY <2>1, <2>7, <3>1
  <2>9. Min(best) \in best
    BY <2>8, MinProperties
  <2>10. ranking[Min(best)] \in OfferOf(products, terms)
    <3>1. PICK b : b = Min(best)
      OBVIOUS
    <3>2. b \in 1..m
      BY <2>8, <2>9, <3>1
    <3>3. ranking[b] \in OfferOf(products, terms)
      BY <1>1, <3>2
    <3> QED
      BY <3>1, <3>3
  <2> QED
    BY <2>10, BonusQuestionOpen
<1> QED
  BY <1>5, <1>6

\* The rows of a ranking.
LEMMA RowsTyped ==
    ASSUME NEW products, IsCatalog(products), NEW terms, NEW given, NEW limit \in Nat,
           NEW ranking \in Seq(OfferOf(products, terms))
    PROVE  /\ [k \in 1..Lower(Len(ranking), limit) |-> RankedRow(products, ranking[k], given)] \in Seq(Row)
           /\ Lower(Len(ranking), limit) \in Nat
<1>1. PICK m \in Nat : m = Len(ranking) /\ DOMAIN ranking = 1..m
  OBVIOUS
<1>2. PICK n \in Nat : n = Lower(Len(ranking), limit) /\ n <= m
  BY <1>1 DEF Lower
<1>3. ASSUME NEW k \in 1..n PROVE RankedRow(products, ranking[k], given) \in Row
  <2>1. ranking[k] \in OfferOf(products, terms)
    BY <1>1, <1>2
  <2>2. ranking[k].product \in Nat /\ ranking[k].option.term \in Nat
    BY <2>1, OfferFacts
  <2>3. Rate(products, ranking[k], given) \in Int
    BY <2>1, RateFacts
  <2> QED
    BY <2>2, <2>3 DEF RankedRow, Row
<1>4. PICK S : S = Row
  OBVIOUS
<1>5. [k \in 1..n |-> RankedRow(products, ranking[k], given)] \in Seq(S)
  BY <1>3, <1>4
<1> QED
  BY <1>2, <1>4, <1>5

\* The terms that are offered are numbers.
LEMMA TermsTyped ==
    ASSUME NEW products, IsCatalog(products)
    PROVE  Terms(products) \subseteq Nat
BY DEF Terms, IsCatalog, IsProduct, ToSet

\* A term that counts as missing is not skipped and not offered.
LEMMA TermNotOffered ==
    ASSUME NEW products, NEW given, TermsMissing(products, given)
    PROVE  given[Months] \notin {Skipped} \cup {Number(t) : t \in Terms(products)}
<1>1. given[Months] # Skipped /\ SelectedTerms(products, given) = {}
  BY DEF TermsMissing, NoTerms
<1>2. ASSUME NEW t \in Terms(products), given[Months] = Number(t) PROVE FALSE
  <2>1. given[Months].kind = "number" /\ given[Months].number = t
    BY <1>2 DEF Number
  <2>2. SelectedTerms(products, given) = Terms(products) \cap {t}
    BY <1>1, <2>1 DEF SelectedTerms
  <2> QED
    BY <1>1, <1>2, <2>2
<1> QED
  BY <1>1, <1>2

\* The next step of an interview is a question that has no answer yet, or that
\* for the term when the chosen one is not offered any more; or a ranking; or
\* the notice that there is nothing to rank (QuestionFlowService._decide).
THEOREM DecideSteps ==
    ASSUME NEW products, IsCatalog(products), NEW given, {Months, Monthly, GoalAmount} \subseteq Keys,
           ResultSize \in Nat
    PROVE  \/ Decide(products, given) = Unavailable
           \/ \E key \in Keys, terms \in SUBSET Nat :
                 /\ Decide(products, given) = Question(key, terms)
                 /\ given[key] = Unanswered \/ (/\ key = Months
                                                /\ terms = Terms(products)
                                                /\ TermsMissing(products, given))
           \/ \E rows \in Seq(Row) : Decide(products, given) = Result(rows)
<1>1. PICK terms : terms = SelectedTerms(products, given)
  OBVIOUS
<1>2. PICK offers : offers = Checked(products, terms)
  OBVIOUS
<1>3. offers \in Seq(OfferOf(products, terms))
  BY <1>2, CheckedOffers
<1>4. PICK candidates : candidates = Candidates(products, offers, given)
  OBVIOUS
<1>5. candidates \in Seq(OfferOf(products, terms))
  BY <1>3, <1>4, CandidateFacts
<1>6. PICK ranking : ranking = Ranking(products, candidates, given)
  OBVIOUS
<1>7. ranking \in Seq(OfferOf(products, terms))
  BY <1>5, <1>6, RankingRanks
<1>8. PICK opening : opening = OpeningQuestion(products, given)
  OBVIOUS
<1>9. PICK eligibility : eligibility = EligibilityQuestion(products, offers, given)
  OBVIOUS
<1>10. PICK bonus : bonus = RankingQuestion(products, ranking, given)
  OBVIOUS
<1>11. Decide(products, given) =
          IF opening # NoKey THEN Question(opening, Terms(products))
          ELSE IF eligibility # NoKey THEN Question(eligibility, {})
          ELSE IF offers = <<>> THEN Unavailable
          ELSE IF bonus # NoKey THEN Question(bonus, {})
          ELSE Result(Rows(products, ranking, given))
  BY <1>1, <1>2, <1>4, <1>6, <1>8, <1>9, <1>10 DEF Decide
<1>12. CASE opening # NoKey
  <2>1. opening \in Keys /\ (given[opening] = Unanswered \/ (opening = Months /\ TermsMissing(products, given)))
    BY <1>8, <1>12 DEF OpeningQuestion
  <2>2. Terms(products) \in SUBSET Nat
    BY TermsTyped
  <2> QED
    BY <1>11, <1>12, <2>1, <2>2
<1>13. CASE opening = NoKey /\ eligibility # NoKey
  <2>1. eligibility \in Open(given)
    BY <1>3, <1>9, <1>13, EligibilityQuestionOpen
  <2>2. {} \in SUBSET Nat
    OBVIOUS
  <2> QED
    BY <1>11, <1>13, <2>1, <2>2 DEF Open
<1>14. CASE opening = NoKey /\ eligibility = NoKey /\ offers = <<>>
  BY <1>11, <1>14
<1>15. CASE opening = NoKey /\ eligibility = NoKey /\ offers # <<>> /\ bonus # NoKey
  <2>1. bonus \in Open(given)
    BY <1>7, <1>10, <1>15, RankingQuestionOpen
  <2>2. {} \in SUBSET Nat
    OBVIOUS
  <2> QED
    BY <1>11, <1>15, <2>1, <2>2 DEF Open
<1>16. CASE opening = NoKey /\ eligibility = NoKey /\ offers # <<>> /\ bonus = NoKey
  <2>1. Rows(products, ranking, given) \in Seq(Row)
    BY <1>7, RowsTyped DEF Rows
  <2> QED
    BY <1>11, <1>16, <2>1
<1> QED
  BY <1>12, <1>13, <1>14, <1>15, <1>16

=============================================================================
