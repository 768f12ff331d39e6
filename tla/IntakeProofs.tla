----------------------------- MODULE IntakeProofs -----------------------------
(***************************************************************************)
(* Theorems of Intake, for every set of products, of publications, of      *)
(* answers and of conditions written by hand.                              *)
(***************************************************************************)
EXTENDS Intake, ListFacts, SequenceTheorems

-----------------------------------------------------------------------------
(* Lists *)

\* What a list consists of, index by index.
LEMMA ListElements ==
    ASSUME NEW seq, IsList(seq)
    PROVE  /\ Len(seq) \in Nat /\ DOMAIN seq = 1..Len(seq)
           /\ \A i \in DOMAIN seq : seq[i] \in ToSet(seq)
           /\ \A y \in ToSet(seq) : \E i \in DOMAIN seq : y = seq[i]
BY DEF IsList, ToSet

\* A function on 1..n is a list.
LEMMA ListMade ==
    ASSUME NEW seq, NEW n \in Nat, NEW S, seq \in [1..n -> S]
    PROVE  IsList(seq) /\ seq \in Seq(S)
<1>1. \A i \in 1..n : seq[i] \in ToSet(seq)
  BY DEF ToSet
<1> QED
  BY <1>1 DEF IsList

\* A sequence over S is a list of elements of S.
LEMMA ListOf ==
    ASSUME NEW S, NEW seq \in Seq(S)
    PROVE  IsList(seq) /\ ToSet(seq) \subseteq S
<1>1. PICK n \in Nat : n = Len(seq) /\ seq \in [1..n -> S]
  OBVIOUS
<1>2. IsList(seq)
  BY <1>1, ListMade
<1> QED
  BY <1>1, <1>2 DEF ToSet

-----------------------------------------------------------------------------
(* Points and rates *)

\* The points of bonuses add up to something, those of none to nothing.
LEMMA PointsAddUp ==
    ASSUME NEW x, IsList(x.bonuses), \A b \in ToSet(x.bonuses) : b.points \in 1..MaxPoints
    PROVE  /\ TotalPoints(x) \in Int
           /\ x.bonuses # <<>> => TotalPoints(x) > 0
           /\ x.bonuses = <<>> => TotalPoints(x) = 0
<1>1. PICK n \in Nat : n = Len(x.bonuses) /\ DOMAIN x.bonuses = 1..n
  BY ListElements
<1>2. PICK fun : fun = [i \in 1..n |-> x.bonuses[i].points]
  OBVIOUS
<1>3. fun \in [1..n -> Nat \ {0}] /\ fun \in [1..n -> Int]
  <2>1. \A i \in 1..n : x.bonuses[i].points \in 1..MaxPoints
    BY <1>1, ListElements
  <2>2. \A i \in 1..n : x.bonuses[i].points \in Nat \ {0}
    <3>1. 1..MaxPoints \subseteq Nat \ {0}
      BY DEF MaxPoints
    <3> QED
      BY <2>1, <3>1
  <2>3. fun \in [1..n -> Nat \ {0}]
    BY <1>2, <2>2
  <2> QED
    BY <2>3
<1>4. TotalPoints(x) = SumFunction(fun)
  BY <1>1, <1>2 DEF TotalPoints
<1>5. SumFunction(fun) \in Int /\ (n = 0 => SumFunction(fun) = 0)
  <2>1. \A i \in 1..n : fun[i] <= fun[i]
    BY <1>3
  <2> QED
    BY <1>3, <2>1, SumProperties
<1>6. SumFunction(fun) >= n
  BY <1>3, SumPositive
<1>7. x.bonuses = <<>> <=> n = 0
  BY <1>1 DEF IsList
<1> QED
  BY <1>4, <1>5, <1>6, <1>7

\* Options as they are stored.
Rated(options) == IsList(options) /\ \A o \in ToSet(options) : {o.base, o.max} \subseteq Int

\* The gap is that of one of the options, and none is wider.
LEMMA GapProperties ==
    ASSUME NEW options, Rated(options)
    PROVE  /\ Gap(options) \in Int
           /\ options = <<>> => Gap(options) = 0
           /\ options # <<>> =>
                 \E i \in DOMAIN options : Gap(options) = options[i].max - options[i].base
           /\ options # <<>> =>
                 \A i \in DOMAIN options : options[i].max - options[i].base <= Gap(options)
<1>1. PICK n \in Nat : n = Len(options) /\ DOMAIN options = 1..n
  BY ListElements DEF Rated
<1>2. PICK f : f = [i \in 1..n |-> options[i].max - options[i].base]
  OBVIOUS
<1>3. f \in [1..n -> Int]
  <2>1. \A i \in 1..n : options[i].max \in Int /\ options[i].base \in Int
    BY <1>1, ListElements DEF Rated
  <2> QED
    BY <1>2, <2>1
<1>4. PICK gaps : gaps = {options[i].max - options[i].base : i \in DOMAIN options}
  OBVIOUS
<1>5. gaps = {f[i] : i \in 1..n}
  BY <1>1, <1>2, <1>4
<1>6. Gap(options) = IF gaps = {} THEN 0 ELSE Max(gaps)
  BY <1>4 DEF Gap
<1>7. CASE n = 0
  <2>1. options = <<>> /\ gaps = {}
    BY <1>1, <1>5, <1>7 DEF Rated, IsList
  <2> QED
    BY <1>6, <2>1
<1>8. CASE n # 0
  <2>1. options # <<>> /\ gaps # {}
    BY <1>1, <1>5, <1>8
  <2>2. /\ Max(gaps) \in Int
        /\ \E i \in 1..n : Max(gaps) = f[i]
        /\ \A i \in 1..n : f[i] <= Max(gaps)
    <3>1. n \in Nat \ {0}
      BY <1>8
    <3> QED
      BY <1>3, <1>5, <3>1, GreatestValue
  <2> QED
    BY <1>1, <1>2, <1>6, <2>1, <2>2
<1> QED
  BY <1>7, <1>8

\* Options without a rate are left out.
LEMMA OptionsRated ==
    ASSUME NEW options, RatesKnown(options)
    PROVE  Rated(ToRateOptions(options)) /\ ToSet(ToRateOptions(options)) \subseteq ToSet(options)
<1>1. PICK kept : kept = {i \in DOMAIN options : options[i].base # NoRate /\ options[i].max # NoRate}
  OBVIOUS
<1>2. PICK S : S = ToSet(options)
  OBVIOUS
<1>3. options \in Seq(S) /\ kept \subseteq DOMAIN options
  BY <1>1, <1>2 DEF RatesKnown, IsList
<1>4. PICK list, at : /\ list = ToRateOptions(options) /\ list \in Seq(S)
                      /\ Keeps(at, list, options, kept)
  <2>1. Selected(options, kept) \in Seq(S) /\ \E at : Keeps(at, Selected(options, kept), options, kept)
    BY <1>3, SelectedProperties
  <2> QED
    BY <1>1, <2>1 DEF ToRateOptions
<1>5. IsList(list) /\ ToSet(list) \subseteq S
  BY <1>4, ListOf
<1>6. ASSUME NEW o \in ToSet(list) PROVE {o.base, o.max} \subseteq Int
  <2>1. PICK k \in 1..Len(list) : o = list[k]
    BY <1>5, ListElements
  <2>2. at[k] \in kept /\ o = options[at[k]]
    BY <1>4, <2>1 DEF Keeps
  <2>3. o.base # NoRate /\ o.max # NoRate
    BY <1>1, <2>2
  <2>4. {o.base, o.max} \subseteq Int \cup {NoRate}
    BY <1>2, <1>5 DEF RatesKnown
  <2> QED
    BY <2>3, <2>4
<1> QED
  BY <1>2, <1>4, <1>5, <1>6 DEF Rated

\* The options of a product are those of all entries received for it.
LEMMA OptionsGathered ==
    ASSUME NEW p, NEW entries, IsList(entries),
           \A entry \in ToSet(entries) : RatesKnown(entry.options)
    PROVE  /\ Rated(OptionsOf(p, entries))
           /\ \A i \in DOMAIN entries : entries[i].product = p =>
                 LET rated == ToRateOptions(entries[i].options)
                 IN  /\ ToSet(rated) \subseteq ToSet(OptionsOf(p, entries))
                     /\ (\A j \in DOMAIN entries : entries[j].product = p => j = i) =>
                           OptionsOf(p, entries) = rated
<1>1. PICK n \in Nat : n = Len(entries) /\ DOMAIN entries = 1..n
  BY ListElements
<1>2. PICK seqs : seqs = [i \in 1..n |-> IF entries[i].product = p
                                          THEN ToRateOptions(entries[i].options) ELSE <<>>]
  OBVIOUS
<1>3. OptionsOf(p, entries) = FlattenSeq(seqs)
  BY <1>1, <1>2 DEF OptionsOf
<1>4. PICK S : S = UNION {ToSet(seqs[i]) : i \in 1..n}
  OBVIOUS
<1>5. \A i \in 1..n : Rated(seqs[i])
  <2>1. \A i \in 1..n : RatesKnown(entries[i].options)
    BY <1>1, ListElements
  <2>2. Rated(<<>>)
    <3>1. <<>> \in Seq({}) /\ ToSet(<<>>) = {}
      BY DEF ToSet
    <3> QED
      BY <3>1 DEF Rated, IsList
  <2> QED
    BY <1>2, <2>1, <2>2, OptionsRated
<1>6. \A o \in S : {o.base, o.max} \subseteq Int
  BY <1>4, <1>5 DEF Rated
<1>7. \A i \in 1..n : seqs[i] \in Seq(S)
  <2> SUFFICES ASSUME NEW i \in 1..n PROVE seqs[i] \in Seq(S)
    OBVIOUS
  <2>1. PICK one : one = ToSet(seqs[i])
    OBVIOUS
  <2>2. seqs[i] \in Seq(one) /\ one \subseteq S
    BY <1>4, <1>5, <2>1 DEF Rated, IsList
  <2> QED
    BY <2>2
<1>8. seqs \in Seq(Seq(S)) /\ Len(seqs) = n
  BY <1>2, <1>7
<1>9. PICK all : all = FlattenSeq(seqs) /\ all \in Seq(S) /\ Gathers(all, seqs, n)
  BY <1>8, FlattenProperties
<1>10. IsList(all) /\ ToSet(all) \subseteq S
  BY <1>9, ListOf
<1>11. Rated(all)
  BY <1>6, <1>10 DEF Rated
<1>12. ASSUME NEW i \in 1..n, entries[i].product = p
       PROVE  /\ ToSet(seqs[i]) \subseteq ToSet(all)
              /\ (\A j \in 1..n : entries[j].product = p => j = i) => all = seqs[i]
  <2>1. ASSUME NEW o \in ToSet(seqs[i]) PROVE o \in ToSet(all)
    <3>1. PICK j \in 1..Len(seqs[i]) : o = seqs[i][j]
      BY <1>5, ListElements DEF Rated
    <3>2. PICK k \in 1..Len(all) : all[k] = seqs[i][j]
      BY <1>9 DEF Gathers
    <3> QED
      BY <1>10, <3>1, <3>2, ListElements
  <2>2. ASSUME \A j \in 1..n : entries[j].product = p => j = i
        PROVE  all = seqs[i]
    <3>1. \A j \in 1..Len(seqs) : j # i => seqs[j] = <<>>
      BY <1>2, <1>8, <2>2
    <3>2. i \in 1..Len(seqs)
      BY <1>8
    <3> QED
      BY <1>8, <1>9, <3>1, <3>2, FlattenOnly
  <2> QED
    BY <2>1, <2>2
<1>13. \A i \in 1..n : entries[i].product = p => seqs[i] = ToRateOptions(entries[i].options)
  BY <1>2
<1> QED
  BY <1>1, <1>3, <1>9, <1>11, <1>12, <1>13

-----------------------------------------------------------------------------
(* What is accepted *)

\* Conditions a reader may judge by, as far as their record goes.
Accepted(x, source) ==
    /\ Verified(x, source)
    /\ ~NeedsReview(x, source)
    /\ Validated(x)
    /\ BonusesKnown(x)

Decided(r) == r.status = "EXTRACTED" => Accepted(r.body, r.source)

\* A source that no refresh can make a checklist of.
Refused(product) ==
    \/ \A i \in DOMAIN product.options : product.options[i].max < product.options[i].base
    \/ ~Fits(product.join_member) \/ ~Fits(product.spcl_cnd) \/ ~Fits(product.etc_note)

\* The checklist of a source has no condition to judge, and is valid where its
\* texts fit.
LEMMA ChecklistValid ==
    ASSUME NEW source
    PROVE  /\ BonusesKnown(FromSourceChecklist(source))
           /\ Fits(source.join_member) /\ Fits(source.spcl_cnd) /\ Fits(source.etc_note) =>
                 Validated(FromSourceChecklist(source))
<1>1. PICK x : x = FromSourceChecklist(source)
  OBVIOUS
<1>2. /\ x.bonuses = <<>> /\ x.unresolved = {} /\ x.eligibility = [match |-> "all", conditions |-> <<>>]
      /\ x.status \in Statuses
      /\ x.other = {}
      /\ x.other_eligibility \subseteq {source.join_member, source.etc_note}
      /\ x.other_bonus \subseteq {source.spcl_cnd}
  BY <1>1 DEF FromSourceChecklist, NoConditions, Group, Statuses
<1>3. ToSet(<<>>) = {} /\ <<>> \in Seq({})
  BY DEF ToSet
<1>4. Predicates(x.eligibility) = {}
  BY <1>2, <1>3 DEF Predicates
<1> QED
  BY <1>1, <1>2, <1>3, <1>4 DEF Validated, BonusesKnown, IsList

\* It is stored as decided only where it reads back.
LEMMA ChecklistDecided ==
    ASSUME NEW source, ChecklistVerified(source)
    PROVE  /\ Decided(FromChecklist(source))
           /\ FromChecklist(source).source = source
           /\ FromChecklist(source).status \in {"EXTRACTED", "NEEDS_REVIEW"}
<1>1. PICK checklist : checklist = FromSourceChecklist(source)
  OBVIOUS
<1>2. Verified(checklist, source) /\ Validated(checklist) /\ BonusesKnown(checklist)
  BY <1>1, ChecklistValid DEF ChecklistVerified
<1>3. FromChecklist(source) =
          Record(source, IF NeedsReview(checklist, source) THEN "NEEDS_REVIEW" ELSE "EXTRACTED", checklist)
  BY <1>1 DEF FromChecklist
<1>4. CASE NeedsReview(checklist, source)
  BY <1>3, <1>4 DEF Record, Decided
<1>5. CASE ~NeedsReview(checklist, source)
  BY <1>2, <1>3, <1>5 DEF Record, Decided, Accepted
<1> QED
  BY <1>4, <1>5

\* So is an answer that was accepted.
LEMMA AnswerDecided ==
    ASSUME NEW source, NEW x, Verified(x, source), Validated(x), BonusesKnown(x),
           ChecklistVerified(source)
    PROVE  /\ Decided(FromExtracted(source, x))
           /\ FromExtracted(source, x).source = source
           /\ FromExtracted(source, x).status \in {"EXTRACTED", "NEEDS_REVIEW"}
<1>1. CASE NeedsReview(x, source)
  BY <1>1, ChecklistDecided DEF FromExtracted
<1>2. CASE ~NeedsReview(x, source)
  BY <1>2 DEF FromExtracted, Record, Decided, Accepted
<1> QED
  BY <1>1, <1>2

\* An answer that is not rejected is valid and verifies, whatever status the AI
\* gave it.
LEMMA ParsedVerifies ==
    ASSUME NEW raw, BonusesKnown(raw), NEW source, Parsed(raw, source) # Rejected
    PROVE  LET x == Parsed(raw, source)
           IN  Verified(x, source) /\ Validated(x) /\ BonusesKnown(x)
<1>1. PICK answer : answer = Normalised(raw)
  OBVIOUS
<1>2. PICK x : x = [answer EXCEPT !.status = StatusFromSource(answer, source)]
  OBVIOUS
<1>3. Parsed(raw, source) = x /\ Validated(answer) /\ Verified(x, source)
  BY <1>1, <1>2 DEF Parsed
<1>4. /\ x.eligibility = answer.eligibility /\ x.bonuses = answer.bonuses
      /\ x.unresolved = answer.unresolved
      /\ x.other = answer.other
      /\ x.other_eligibility = answer.other_eligibility /\ x.other_bonus = answer.other_bonus
      /\ x.status = StatusFromSource(answer, source)
  BY <1>1, <1>2 DEF Normalised
<1>5. x.status \in Statuses
  <2>1. answer.status \in Statuses
    BY <1>3 DEF Validated
  <2> QED
    BY <1>4, <2>1 DEF StatusFromSource, Statuses
<1>6. Validated(x)
  BY <1>3, <1>4, <1>5 DEF Validated
<1>7. BonusesKnown(answer)
  <2>1. PICK n \in Nat : n = Len(raw.bonuses) /\ DOMAIN raw.bonuses = 1..n
    BY ListElements DEF BonusesKnown
  <2>2. PICK bonuses : bonuses = [i \in 1..n |-> [points |-> raw.bonuses[i].points,
                                     condition |-> RestoredGroup(raw.bonuses[i].condition)]]
    OBVIOUS
  <2>3. answer.bonuses = bonuses
    BY <1>1, <2>1, <2>2 DEF Normalised
  <2>4. IsList(bonuses)
    <3>1. bonuses \in [1..n -> {bonuses[i] : i \in 1..n}]
      BY <2>2
    <3> QED
      BY <3>1, ListMade
  <2>5. ASSUME NEW i \in 1..n PROVE IsList(bonuses[i].condition.conditions)
    <3>1. PICK g : g = raw.bonuses[i].condition
      OBVIOUS
    <3>2. IsList(g.conditions)
      BY <2>1, <3>1, ListElements DEF BonusesKnown
    <3>3. PICK m \in Nat : m = Len(g.conditions) /\ DOMAIN g.conditions = 1..m
      BY <3>2, ListElements
    <3>4. PICK list : list = RestoredGroup(g).conditions
      OBVIOUS
    <3>5. list \in [1..m -> {list[k] : k \in 1..m}]
      BY <3>3, <3>4 DEF RestoredGroup, Group
    <3>6. IsList(list)
      BY <3>5, ListMade
    <3> QED
      BY <2>2, <3>1, <3>4, <3>6
  <2>6. \A b \in ToSet(bonuses) : IsList(b.condition.conditions)
    <3>1. DOMAIN bonuses = 1..n
      BY <2>2
    <3> QED
      BY <2>4, <2>5, <3>1, ListElements
  <2> QED
    BY <2>3, <2>4, <2>6 DEF BonusesKnown
<1>8. BonusesKnown(x)
  BY <1>4, <1>7 DEF BonusesKnown
<1> QED
  BY <1>3, <1>6, <1>8

\* Whatever the status, a bonus the disclosure names is judged or listed.
LEMMA AcceptedLosesNothing ==
    ASSUME NEW x, NEW source, Accepted(x, source), source.gap \in Int
    PROVE  /\ ~DeclaresNoBonus(source.spcl_cnd) \/ source.gap > 0 =>
                 x.bonuses # <<>> \/ x.other_bonus # {}
           /\ ~source.anyone => x.eligibility.conditions # <<>>
                                \/ source.join_member \in x.other_eligibility
<1>1. x.status \in Statuses /\ StatusVerified(x, source)
      /\ ~MissesBonusCondition(x, source) /\ ~MissesJoinCondition(x, source)
  BY DEF Accepted, Validated, Verified, NeedsReview
<1>2. CASE x.status = "NO_BONUS"
  BY <1>1, <1>2 DEF StatusVerified, MissesJoinCondition
<1>3. CASE x.status = "AVAILABLE"
  BY <1>1, <1>3 DEF StatusVerified, MissesJoinCondition
<1>4. CASE x.status = "CHECKLIST"
  BY <1>1, <1>4 DEF StatusVerified, MissesJoinCondition
<1>5. CASE x.status = "UNKNOWN"
  BY <1>1, <1>5 DEF MissesBonusCondition, MissesJoinCondition, DeclaresNoBonus
<1> QED
  BY <1>1, <1>2, <1>3, <1>4, <1>5 DEF Statuses

\* What is judged is quoted, and all bonuses fit into one of the options.
LEMMA AcceptedQuotes ==
    ASSUME NEW x, NEW product, Rated(product.options), Accepted(x, ConditionSource(product))
    PROVE  LET judged == Predicates(x.eligibility) \cup
                         UNION {Predicates(b.condition) : b \in ToSet(x.bonuses)}
               text == product.join_member \cup product.spcl_cnd \cup product.etc_note
           IN  /\ \A c \in judged : c.quote.text # {} /\ c.quote.text \subseteq text
               /\ x.bonuses # <<>> => \E i \in DOMAIN product.options :
                     TotalPoints(x) <= product.options[i].max - product.options[i].base
<1>1. PICK source : source = ConditionSource(product)
  OBVIOUS
<1>2. /\ source.join_member = product.join_member /\ source.spcl_cnd = product.spcl_cnd
      /\ source.etc_note = product.etc_note /\ source.gap = Gap(product.options)
  BY <1>1 DEF ConditionSource
<1>3. EvidenceVerified(x, source) /\ TotalPoints(x) <= source.gap /\ Validated(x) /\ IsList(x.bonuses)
  BY <1>1 DEF Accepted, Verified, BonusesKnown
<1>4. ASSUME NEW quote, Quoted(quote, source), quote.field \in SourceFields
      PROVE  /\ quote.text # {}
             /\ quote.text \subseteq product.join_member \cup product.spcl_cnd \cup product.etc_note
  <2>1. quote.text # {} /\ quote.text \subseteq TextOf(source, quote.field)
    BY <1>4 DEF Quoted
  <2>2. CASE quote.field = "join_member"
    BY <1>2, <2>1, <2>2 DEF TextOf
  <2>3. CASE quote.field = "spcl_cnd"
    BY <1>2, <2>1, <2>3 DEF TextOf
  <2>4. CASE quote.field = "etc_note"
    BY <1>2, <2>1, <2>4 DEF TextOf
  <2> QED
    BY <1>4, <2>2, <2>3, <2>4 DEF SourceFields
<1>5. \A c \in Predicates(x.eligibility) : Quoted(c.quote, source) /\ c.quote.field \in SourceFields
  BY <1>3 DEF EvidenceVerified, Validated, ValidPredicate
<1>6. \A b \in ToSet(x.bonuses) : \A c \in Predicates(b.condition) :
          Quoted(c.quote, source) /\ c.quote.field \in SourceFields
  BY <1>3 DEF EvidenceVerified, Validated, ValidPredicate
<1>7. ASSUME x.bonuses # <<>>
      PROVE  \E i \in DOMAIN product.options :
                TotalPoints(x) <= product.options[i].max - product.options[i].base
  <2>1. \A b \in ToSet(x.bonuses) : b.points \in 1..MaxPoints
    BY <1>3 DEF Validated
  <2>2. TotalPoints(x) \in Int /\ TotalPoints(x) > 0
    BY <1>3, <1>7, <2>1, PointsAddUp
  <2>3. /\ source.gap \in Int
        /\ product.options = <<>> => source.gap = 0
        /\ product.options # <<>> => \E i \in DOMAIN product.options :
              source.gap = product.options[i].max - product.options[i].base
    BY <1>2, GapProperties
  <2>4. product.options # <<>>
    BY <1>3, <2>2, <2>3
  <2> QED
    BY <1>3, <2>3, <2>4
<1> QED
  BY <1>4, <1>5, <1>6, <1>7

\* The checklist of a source fails for nothing but its rates and the length of
\* its texts.
LEMMA ChecklistFailsRefused ==
    ASSUME NEW product, Rated(product.options), ~ChecklistVerified(ConditionSource(product))
    PROVE  Refused(product)
<1> SUFFICES ASSUME Fits(product.join_member), Fits(product.spcl_cnd), Fits(product.etc_note)
             PROVE  \A i \in DOMAIN product.options :
                        product.options[i].max < product.options[i].base
  BY DEF Refused
<1>1. PICK source : source = ConditionSource(product)
  OBVIOUS
<1>2. PICK x : x = FromSourceChecklist(source)
  OBVIOUS
<1>3. /\ x.bonuses = <<>> /\ x.unresolved = {} /\ x.eligibility = [match |-> "all", conditions |-> <<>>]
      /\ x.other_eligibility = {source.join_member, source.etc_note} \ {{}}
      /\ x.other_bonus = IF DeclaresNoBonus(source.spcl_cnd) THEN {} ELSE {source.spcl_cnd}
      /\ x.status = IF ~DeclaresNoBonus(source.spcl_cnd) THEN "CHECKLIST"
                    ELSE IF source.gap = 0 THEN "NO_BONUS" ELSE "UNKNOWN"
  BY <1>2 DEF FromSourceChecklist, NoConditions, Group
<1>4. source.gap = Gap(product.options) /\ source.gap \in Int
  BY <1>1, GapProperties DEF ConditionSource
<1>5. ToSet(<<>>) = {} /\ IsList(<<>>)
  <2>1. ToSet(<<>>) = {} /\ <<>> \in Seq({})
    BY DEF ToSet
  <2> QED
    BY <2>1 DEF IsList
<1>6. EvidenceVerified(x, source)
  <2>1. Predicates(x.eligibility) = {} /\ ~HasEmptyPart(x.eligibility)
    BY <1>3, <1>5 DEF Predicates, HasEmptyPart
  <2>2. x.eligibility # Group("any", <<>>)
    BY <1>3 DEF Group
  <2> QED
    BY <1>3, <1>5, <2>1, <2>2 DEF EvidenceVerified
<1>7. TotalPoints(x) = 0
  BY <1>3, <1>5, PointsAddUp
<1>8. ASSUME source.gap >= 0 PROVE FALSE
  <2>1. StatusVerified(x, source)
    BY <1>3, <1>4 DEF StatusVerified, NothingExtracted
  <2>2. x.status = "CHECKLIST" => ChecklistsVerified(x, source)
    <3>1. source.spcl_cnd \in x.other_bonus => source.spcl_cnd # {}
      BY <1>3 DEF DeclaresNoBonus
    <3> QED
      BY <1>3, <3>1 DEF ChecklistsVerified, ItemFrom
  <2>3. TotalPoints(x) <= source.gap
    BY <1>4, <1>7, <1>8
  <2>4. Verified(x, source)
    BY <1>6, <2>1, <2>2, <2>3 DEF Verified
  <2>5. Validated(x)
    BY <1>1, <1>2, ChecklistValid DEF ConditionSource
  <2> QED
    BY <1>1, <1>2, <2>4, <2>5 DEF ChecklistVerified
<1>9. \A i \in DOMAIN product.options : product.options[i].max - product.options[i].base < 0
  BY <1>4, <1>8, GapProperties, ListElements DEF Rated
<1> QED
  BY <1>9, ListElements DEF Rated

\* A row is made of a bonus with one condition.
LEMMA RowsFollow ==
    ASSUME NEW x, BonusesKnown(x), NEW i \in DOMAIN FromConditions(x)
    PROVE  \E b \in ToSet(x.bonuses) :
              /\ b.points = FromConditions(x)[i].points
              /\ Predicates(b.condition) = {FromConditions(x)[i].condition}
<1>1. PICK S : S = ToSet(x.bonuses)
  OBVIOUS
<1>2. PICK single : single = {j \in DOMAIN x.bonuses :
                        LET condition == x.bonuses[j].condition
                        IN  SinglePredicate(condition) /\ Translatable(condition.conditions[1])}
  OBVIOUS
<1>3. x.bonuses \in Seq(S) /\ single \subseteq DOMAIN x.bonuses
  BY <1>1, <1>2 DEF BonusesKnown, IsList
<1>4. PICK list, at : /\ list = Selected(x.bonuses, single) /\ list \in Seq(S)
                      /\ Keeps(at, list, x.bonuses, single)
  BY <1>3, SelectedProperties
<1>5. FromConditions(x) = [j \in DOMAIN list |-> [condition |-> list[j].condition.conditions[1],
                                                   points |-> list[j].points]]
  BY <1>2, <1>4 DEF FromConditions
<1>6. i \in 1..Len(list)
  BY <1>4, <1>5
<1>7. at[i] \in single /\ list[i] = x.bonuses[at[i]]
  BY <1>4, <1>6 DEF Keeps
<1>8. PICK b \in S : b = list[i]
  BY <1>1, <1>3, <1>7, ListElements DEF BonusesKnown
<1>9. SinglePredicate(b.condition) /\ IsList(b.condition.conditions)
  BY <1>1, <1>2, <1>7, <1>8 DEF BonusesKnown
<1>10. ToSet(b.condition.conditions) = {b.condition.conditions[1]}
  <2>1. DOMAIN b.condition.conditions = 1..1
    BY <1>9, ListElements DEF SinglePredicate
  <2> QED
    BY <2>1 DEF ToSet
<1>11. Predicates(b.condition) = {b.condition.conditions[1]}
  BY <1>9, <1>10 DEF Predicates, SinglePredicate
<1>12. /\ FromConditions(x)[i].points = b.points
       /\ FromConditions(x)[i].condition = b.condition.conditions[1]
  BY <1>4, <1>5, <1>6, <1>8
<1> QED
  BY <1>1, <1>8, <1>11, <1>12

-----------------------------------------------------------------------------
(* The invariant *)

Company == UNION {ToSet(listing.companies) : listing \in Publications}
Entry == UNION {ToSet(listing.products) : listing \in Publications}

\* The refresh, and what it has received.
FetchInv ==
    /\ disclosed \in Publications
    /\ changes \in 0..MaxChanges
    /\ stage \in {"idle", "companies", "products", "load", "checklist", "ask", "aborted"}
    /\ page \in Nat \ {0}
    /\ quiet \in BOOLEAN
    /\ received.companies \in Seq(Company)
    /\ received.products \in Seq(Entry)
    /\ DOMAIN received = {"companies", "products"}

\* Products have the options that have rates.
SavingInv ==
    /\ DOMAIN saving \subseteq Product
    /\ \A p \in DOMAIN saving : Rated(saving[p].options)
    /\ stage = "aborted" => \E p \in DOMAIN saving : Refused(saving[p])

\* Every product has a record, and one that is called extracted is accepted.
RecordInv ==
    /\ DOMAIN record = DOMAIN saving
    /\ \A p \in DOMAIN record :
          Decided(record[p]) /\ record[p].status \in {"PENDING", "EXTRACTED", "NEEDS_REVIEW"}

\* Rows in the former format are those of a record about the stored product.
RowsInv ==
    /\ DOMAIN rows = Product
    /\ \A p \in Product : rows[p] # <<>> =>
          /\ Matches(p)
          /\ record[p].status = "EXTRACTED"
          /\ rows[p] = FromConditions(record[p].body)

\* What is checklisted and put to the AI are products of the table, the latter
\* with a checklist to fall back to.
QueueInv ==
    /\ todo \in Seq(DOMAIN saving)
    /\ \E asked : /\ pending \in Seq(asked)
                  /\ \A a \in asked : a.product \in DOMAIN saving /\ ChecklistVerified(a.source)
    /\ attempt \in [Product -> {"NONE", "VALIDATED", "FAILED"}]

IntakeInv == FetchInv /\ SavingInv /\ RecordInv /\ RowsInv /\ QueueInv

\* What the pages consist of.
LEMMA Published ==
    ASSUME NEW listing \in Publications
    PROVE  /\ listing = [companies |-> listing.companies, products |-> listing.products]
           /\ listing.companies \in Seq(Company) /\ listing.products \in Seq(Entry)
<1>1. /\ listing = [companies |-> listing.companies, products |-> listing.products]
      /\ IsList(listing.companies) /\ IsList(listing.products)
  BY PagesAssumption
<1>2. PICK C, E : C = ToSet(listing.companies) /\ E = ToSet(listing.products)
  OBVIOUS
<1>3. C \subseteq Company /\ E \subseteq Entry
  BY <1>2 DEF Company, Entry
<1>4. listing.companies \in Seq(C) /\ listing.products \in Seq(E)
  BY <1>1, <1>2 DEF IsList
<1> QED
  BY <1>1, <1>3, <1>4

\* An entry of the disclosure names a known product and has known rates.
LEMMA EntryKnown == \A entry \in Entry : entry.product \in Product /\ RatesKnown(entry.options)
BY PagesAssumption DEF Entry

\* A page is a part of the listing.
LEMMA EntriesListed ==
    ASSUME NEW S, NEW listing \in Seq(S), NEW n \in Nat \ {0}
    PROVE  /\ Entries(listing, n) \in Seq(S)
           /\ LET first == (n - 1) * PageSize
                  last == IF n * PageSize < Len(listing) THEN n * PageSize ELSE Len(listing)
              IN  /\ first \in Nat /\ last \in 0..Len(listing)
                  /\ Entries(listing, n) = SubSeq(listing, first + 1, last)
                  /\ IsLast(n, listing) <=> n * PageSize >= Len(listing)
<1>1. PICK size \in Nat \ {0} : size = PageSize
  BY PagesAssumption
<1>2. PICK len \in Nat : len = Len(listing)
  OBVIOUS
<1>3. PICK first \in Nat : first = (n - 1) * size
  OBVIOUS
<1>4. n * size \in Nat
  OBVIOUS
<1>5. PICK last \in 0..len : last = IF n * size < len THEN n * size ELSE len
  BY <1>4
<1>6. Entries(listing, n) = SubSeq(listing, first + 1, last)
  BY <1>1, <1>2, <1>3, <1>5 DEF Entries
<1>7. SubSeq(listing, first + 1, last) \in Seq(S)
  BY <1>2, <1>3, <1>5
<1>8. IsLast(n, listing) <=> n * size >= len
  <2>1. PICK pages \in Int : pages = (len + size - 1) \div size
    OBVIOUS
  <2>2. size * pages <= len + size - 1 /\ len + size - 1 < size * (pages + 1)
    BY <2>1
  <2>3. n >= pages => n * size >= pages * size
    OBVIOUS
  <2>4. n < pages => (n + 1) * size <= pages * size
    OBVIOUS
  <2>5. n >= pages <=> n * size >= len
    BY <2>2, <2>3, <2>4
  <2> QED
    BY <1>1, <1>2, <2>1, <2>5 DEF IsLast, MaxPage
<1> QED
  BY <1>1, <1>2, <1>3, <1>5, <1>6, <1>7, <1>8

\* save_conditions.
LEMMA SaveKeeps ==
    ASSUME RecordInv, RowsInv, DOMAIN saving \subseteq Product, saving' = saving,
           NEW p \in DOMAIN saving, NEW new, NEW bonuses, Decided(new),
           new.status \in {"EXTRACTED", "NEEDS_REVIEW"},
           bonuses # <<>> => new.status = "EXTRACTED" /\ bonuses = FromConditions(new.body),
           SaveConditions(p, new, bonuses)
    PROVE  RecordInv' /\ RowsInv'
<1>1. CASE UNCHANGED <<record, rows>>
  BY <1>1 DEF RecordInv, RowsInv, Matches
<1>2. CASE /\ new.source = ConditionSource(saving[p])
           /\ record' = Merged([q \in {p} |-> new], record)
           /\ rows' = [rows EXCEPT ![p] = bonuses]
  <2>1. /\ DOMAIN record' = DOMAIN record /\ record'[p] = new
        /\ \A q \in DOMAIN record : q # p => record'[q] = record[q]
    BY <1>2 DEF Merged, RecordInv
  <2>2. RecordInv'
    BY <2>1 DEF RecordInv
  <2>3. /\ DOMAIN rows' = Product /\ rows'[p] = bonuses
        /\ \A q \in Product : q # p => rows'[q] = rows[q]
    BY <1>2 DEF RowsInv
  <2>4. ASSUME NEW q \in Product, rows'[q] # <<>>
        PROVE  /\ Matches(q)'
               /\ record'[q].status = "EXTRACTED"
               /\ rows'[q] = FromConditions(record'[q].body)
    <3>1. CASE q = p
      BY <1>2, <2>1, <2>3, <2>4, <3>1 DEF Matches, RecordInv
    <3>2. CASE q # p
      BY <2>1, <2>3, <2>4, <3>2 DEF Matches, RowsInv
    <3> QED
      BY <3>1, <3>2
  <2> QED
    BY <2>2, <2>3, <2>4 DEF RowsInv
<1> QED
  BY <1>1, <1>2 DEF SaveConditions

\* The steps that leave the tables alone.
LEMMA QuietStep ==
    ASSUME IntakeInv, UNCHANGED <<tables, todo, pending>>, stage' # "aborted" \/ stage' = stage,
           FetchInv'
    PROVE  IntakeInv'
<1>1. /\ saving' = saving /\ record' = record /\ rows' = rows /\ attempt' = attempt
      /\ todo' = todo /\ pending' = pending
  BY DEF tables
<1> QED
  BY <1>1 DEF IntakeInv, SavingInv, RecordInv, RowsInv, QueueInv, Matches

\* Loading a whole listing stores it and queues what the AI is to read.
LEMMA LoadKeeps == ASSUME IntakeInv, Load PROVE IntakeInv'
<1>1. PICK entries \in Seq(Entry) : entries = received.products
  BY DEF IntakeInv, FetchInv
<1>2. PICK listed : listed = {p \in Product : Listed(p, entries)}
  OBVIOUS
<1>3. saving' = Merged([p \in listed |-> ToSaving(p, entries)], saving)
  BY <1>1, <1>2 DEF Load
<1>4. /\ DOMAIN saving' = listed \cup DOMAIN saving
      /\ \A p \in listed : saving'[p] = ToSaving(p, entries)
      /\ \A p \in DOMAIN saving \ listed : saving'[p] = saving[p]
  BY <1>3 DEF Merged
<1>5. FetchInv'
  BY DEF IntakeInv, FetchInv, Load, world, fetch
<1>6. SavingInv'
  <2>1. IsList(entries) /\ \A entry \in ToSet(entries) : RatesKnown(entry.options)
    <3>1. IsList(entries) /\ ToSet(entries) \subseteq Entry
      BY <1>1, ListOf
    <3> QED
      BY <3>1, EntryKnown
  <2>2. \A p \in listed : Rated(saving'[p].options)
    <3>1. \A p : Rated(OptionsOf(p, entries))
      BY <2>1, OptionsGathered
    <3>2. \A p : ToSaving(p, entries).options = OptionsOf(p, entries)
      BY DEF ToSaving
    <3> QED
      BY <1>4, <3>1, <3>2
  <2>3. \A p \in DOMAIN saving : Rated(saving[p].options)
    BY DEF IntakeInv, SavingInv
  <2>4. DOMAIN saving' \subseteq Product
    BY <1>2, <1>4 DEF IntakeInv, SavingInv
  <2>5. stage' # "aborted"
    BY DEF Load
  <2> QED
    BY <1>4, <2>2, <2>3, <2>4, <2>5 DEF SavingInv
<1>7. PICK outdated : outdated = {p \in DOMAIN saving' :
          p \notin DOMAIN record \/ record[p].source # ConditionSource(saving'[p])}
  OBVIOUS
<1>8. /\ record' = Merged([p \in outdated |-> Pending(ConditionSource(saving'[p]))], record)
      /\ DOMAIN rows' = Product
      /\ \A p \in Product : rows'[p] = <<>> \/ (p \notin outdated /\ rows'[p] = rows[p])
  BY <1>7 DEF Load
<1>9. /\ DOMAIN record' = DOMAIN saving'
      /\ \A p \in outdated : record'[p] = Pending(ConditionSource(saving'[p]))
      /\ \A p \in DOMAIN record \ outdated : record'[p] = record[p]
  <2>1. DOMAIN record \subseteq DOMAIN saving'
    BY <1>4 DEF IntakeInv, RecordInv
  <2> QED
    BY <1>7, <1>8, <2>1 DEF Merged
<1>10. RecordInv'
  <2>1. \A source : Decided(Pending(source)) /\ Pending(source).status = "PENDING"
    BY DEF Pending, Record, Decided
  <2>2. DOMAIN record' = outdated \cup (DOMAIN record \ outdated)
    <3>1. DOMAIN record \subseteq DOMAIN saving' /\ outdated \subseteq DOMAIN saving'
      BY <1>4, <1>7 DEF IntakeInv, RecordInv
    <3>2. DOMAIN saving' \ outdated \subseteq DOMAIN record
      BY <1>7
    <3> QED
      BY <1>9, <3>1, <3>2
  <2> QED
    BY <1>9, <2>1, <2>2 DEF IntakeInv, RecordInv
<1>11. RowsInv'
  <2>1. ASSUME NEW p \in Product, rows'[p] # <<>>
        PROVE  /\ Matches(p)'
               /\ record'[p].status = "EXTRACTED"
               /\ rows'[p] = FromConditions(record'[p].body)
    <3>1. p \notin outdated /\ rows'[p] = rows[p]
      BY <1>8, <2>1
    <3>2. /\ p \in DOMAIN record /\ record[p].status = "EXTRACTED"
          /\ rows[p] = FromConditions(record[p].body)
      BY <2>1, <3>1 DEF IntakeInv, RowsInv, Matches
    <3>3. record'[p] = record[p] /\ p \in DOMAIN record'
      BY <1>4, <1>9, <3>1, <3>2 DEF IntakeInv, RecordInv
    <3>4. record[p].source = ConditionSource(saving'[p])
      BY <1>7, <1>9, <3>1, <3>2, <3>3
    <3> QED
      BY <3>1, <3>2, <3>3, <3>4 DEF Matches
  <2> QED
    BY <1>8, <2>1 DEF RowsInv
<1>12. QueueInv'
  <2>1. PICK stored : stored = DOMAIN saving'
    OBVIOUS
  <2>2. todo' \in Seq(stored)
    <3>1. PICK kept : kept = {i \in DOMAIN Products : Products[i] \in stored}
      OBVIOUS
    <3>2. Products \in Seq(Product) /\ kept \subseteq DOMAIN Products
      BY <3>1, PagesAssumption DEF Product, IsList
    <3>3. PICK list, at : /\ list = Selected(Products, kept) /\ list \in Seq(Product)
                          /\ Keeps(at, list, Products, kept)
      BY <3>2, SelectedProperties
    <3>4. \A k \in 1..Len(list) : list[k] \in stored
      BY <3>1, <3>3 DEF Keeps
    <3>5. list \in Seq(stored)
      BY <3>3, <3>4
    <3>6. todo' = list
      BY <2>1, <3>1, <3>3 DEF Load
    <3> QED
      BY <3>5, <3>6
  <2>3. PICK asked : /\ pending \in Seq(asked)
                     /\ \A a \in asked : a.product \in DOMAIN saving /\ ChecklistVerified(a.source)
    BY DEF IntakeInv, QueueInv
  <2>4. \A a \in asked : a.product \in DOMAIN saving'
    BY <1>4, <2>3
  <2>5. attempt' = attempt /\ pending' = pending
    BY DEF Load
  <2> QED
    BY <2>1, <2>2, <2>3, <2>4, <2>5 DEF IntakeInv, QueueInv
<1> QED
  BY <1>5, <1>6, <1>10, <1>11, <1>12 DEF IntakeInv

\* Only a product whose own checklist verifies is left to be asked about.
LEMMA ChecklistKeeps == ASSUME IntakeInv, Checklist PROVE IntakeInv'
<1>1. FetchInv'
  BY DEF IntakeInv, FetchInv, Checklist, world, fetch
<1>2. /\ todo # <<>> /\ todo \in Seq(DOMAIN saving) /\ saving' = saving /\ attempt' = attempt
      /\ stage = "checklist"
  BY DEF Checklist, IntakeInv, QueueInv
<1>3. PICK p \in DOMAIN saving : p = Head(todo)
  BY <1>2
<1>4. Tail(todo) \in Seq(DOMAIN saving) /\ <<>> \in Seq(DOMAIN saving)
  BY <1>2
<1>5. PICK source : source = ConditionSource(saving[p])
  OBVIOUS
<1>6. PICK asked : /\ pending \in Seq(asked)
                   /\ \A a \in asked : a.product \in DOMAIN saving /\ ChecklistVerified(a.source)
  BY DEF IntakeInv, QueueInv
<1>7. CASE todo' = Tail(todo) /\ UNCHANGED <<stage, record, rows, pending>>
  <2>1. SavingInv' /\ RecordInv' /\ RowsInv'
    BY <1>2, <1>7 DEF IntakeInv, SavingInv, RecordInv, RowsInv, Matches
  <2>2. QueueInv'
    BY <1>2, <1>4, <1>6, <1>7 DEF IntakeInv, QueueInv
  <2> QED
    BY <1>1, <2>1, <2>2 DEF IntakeInv
<1>8. CASE /\ ~ChecklistVerified(source) /\ stage' = "aborted" /\ todo' = <<>> /\ pending' = <<>>
           /\ UNCHANGED <<record, rows>>
  <2>1. Refused(saving[p])
    BY <1>3, <1>5, <1>8, ChecklistFailsRefused DEF IntakeInv, SavingInv
  <2>2. SavingInv'
    BY <1>2, <1>3, <2>1 DEF IntakeInv, SavingInv
  <2>3. RecordInv' /\ RowsInv'
    BY <1>2, <1>8 DEF IntakeInv, RecordInv, RowsInv, Matches
  <2>4. \E none : /\ pending' \in Seq(none)
                  /\ \A a \in none : a.product \in DOMAIN saving' /\ ChecklistVerified(a.source)
    <3>1. pending' \in Seq({})
      BY <1>8
    <3> QED
      BY <3>1
  <2>5. todo' \in Seq(DOMAIN saving')
    BY <1>2, <1>4, <1>8
  <2>6. QueueInv'
    BY <1>2, <2>4, <2>5 DEF IntakeInv, QueueInv
  <2> QED
    BY <1>1, <2>2, <2>3, <2>6 DEF IntakeInv
<1>9. CASE /\ ChecklistVerified(source) /\ SaveConditions(p, FromChecklist(source), <<>>)
           /\ todo' = Tail(todo) /\ pending' = Append(pending, [product |-> p, source |-> source])
           /\ UNCHANGED stage
  <2>1. SavingInv'
    BY <1>2, <1>9 DEF IntakeInv, SavingInv
  <2>2. RecordInv' /\ RowsInv'
    <3>1. PICK new : new = FromChecklist(source)
      OBVIOUS
    <3>2. Decided(new) /\ new.status \in {"EXTRACTED", "NEEDS_REVIEW"}
      BY <1>9, <3>1, ChecklistDecided
    <3>3. SaveConditions(p, new, <<>>)
      BY <1>9, <3>1
    <3>4. RecordInv /\ RowsInv /\ DOMAIN saving \subseteq Product
      BY DEF IntakeInv, SavingInv
    <3> QED
      BY <1>2, <3>2, <3>3, <3>4, SaveKeeps
  <2>3. PICK entry : entry = [product |-> p, source |-> source]
    OBVIOUS
  <2>4. pending' \in Seq(asked \cup {entry})
    <3>1. pending \in Seq(asked \cup {entry})
      BY <1>6
    <3> QED
      BY <1>9, <2>3, <3>1
  <2>5. \A a \in asked \cup {entry} : a.product \in DOMAIN saving' /\ ChecklistVerified(a.source)
    BY <1>2, <1>6, <1>9, <2>3
  <2>6. QueueInv'
    BY <1>2, <1>4, <1>9, <2>4, <2>5 DEF IntakeInv, QueueInv
  <2> QED
    BY <1>1, <2>1, <2>2, <2>6 DEF IntakeInv
<1> QED
  BY <1>3, <1>5, <1>7, <1>8, <1>9 DEF Checklist

\* An answer of the AI is stored with the source it was asked about.
LEMMA AskKeeps == ASSUME IntakeInv, Ask \/ AskFails PROVE IntakeInv'
<1>1. FetchInv' /\ SavingInv' /\ saving' = saving
  BY DEF IntakeInv, FetchInv, SavingInv, Ask, AskFails, world, fetch
<1>2. pending # <<>> /\ pending' = Tail(pending) /\ todo' = todo
  BY DEF Ask, AskFails
<1>3. PICK asked : /\ pending \in Seq(asked)
                   /\ \A a \in asked : a.product \in DOMAIN saving /\ ChecklistVerified(a.source)
  BY DEF IntakeInv, QueueInv
<1>4. pending' \in Seq(asked) /\ Head(pending) \in asked
  BY <1>2, <1>3
<1>5. PICK p, source : /\ p \in DOMAIN saving
                       /\ p = Head(pending).product
                       /\ source = Head(pending).source
                       /\ ChecklistVerified(source)
  BY <1>3, <1>4
<1>6. \E new, bonuses : /\ Decided(new)
                        /\ new.status \in {"EXTRACTED", "NEEDS_REVIEW"}
                        /\ bonuses # <<>> => new.status = "EXTRACTED" /\ bonuses = FromConditions(new.body)
                        /\ SaveConditions(p, new, bonuses)
  <2>1. CASE Ask
    <3>1. PICK raw \in Answers[p] :
              LET extracted == Parsed(raw, source)
                  new == IF extracted = Rejected THEN FromChecklist(source)
                         ELSE FromExtracted(source, extracted)
              IN  SaveConditions(p, new, CompatibilityRows(new))
      BY <1>5, <2>1 DEF Ask
    <3>2. PICK new : new = IF Parsed(raw, source) = Rejected THEN FromChecklist(source)
                           ELSE FromExtracted(source, Parsed(raw, source))
      OBVIOUS
    <3>3. Decided(new) /\ new.status \in {"EXTRACTED", "NEEDS_REVIEW"}
      <4>1. CASE Parsed(raw, source) = Rejected
        BY <1>5, <3>2, <4>1, ChecklistDecided
      <4>2. CASE Parsed(raw, source) # Rejected
        <5>1. BonusesKnown(raw)
          BY <1>5, AnswersAssumption DEF IntakeInv, SavingInv
        <5> QED
          BY <1>5, <3>2, <4>2, <5>1, ParsedVerifies, AnswerDecided
      <4> QED
        BY <4>1, <4>2
    <3>4. SaveConditions(p, new, CompatibilityRows(new))
      BY <3>1, <3>2
    <3> QED
      BY <3>3, <3>4 DEF CompatibilityRows
  <2>2. CASE AskFails
    <3>1. SaveConditions(p, FromChecklist(source), <<>>)
      BY <1>5, <2>2 DEF AskFails
    <3> QED
      BY <1>5, <3>1, ChecklistDecided
  <2> QED
    BY <2>1, <2>2
<1>7. RecordInv' /\ RowsInv'
  <2>1. RecordInv /\ RowsInv /\ DOMAIN saving \subseteq Product
    BY DEF IntakeInv, SavingInv
  <2> QED
    BY <1>1, <1>5, <1>6, <2>1, SaveKeeps
<1>8. attempt' \in [Product -> {"NONE", "VALIDATED", "FAILED"}]
  <2>1. \E status \in {"VALIDATED", "FAILED"} : attempt' = [attempt EXCEPT ![p] = status]
    BY <1>5 DEF Ask, AskFails
  <2> QED
    BY <2>1 DEF IntakeInv, QueueInv
<1>9. QueueInv'
  BY <1>1, <1>2, <1>3, <1>4, <1>8 DEF IntakeInv, QueueInv
<1> QED
  BY <1>1, <1>7, <1>9 DEF IntakeInv

\* An entry written by hand is stored with the source it was verified against.
LEMMA ImportKeeps == ASSUME IntakeInv, Import PROVE IntakeInv'
<1>1. FetchInv' /\ SavingInv' /\ QueueInv' /\ saving' = saving
  BY DEF IntakeInv, FetchInv, SavingInv, QueueInv, Import, world, fetch
<1>2. PICK p \in DOMAIN saving, x \in Manual :
          LET source == ConditionSource(saving[p])
          IN  /\ Validated(x)
              /\ Verified(x, source)
              /\ ~NeedsReview(x, source)
              /\ SaveConditions(p, Record(source, "EXTRACTED", x), FromConditions(x))
  BY DEF Import
<1>3. PICK new : new = Record(ConditionSource(saving[p]), "EXTRACTED", x)
  OBVIOUS
<1>4. Decided(new) /\ new.status = "EXTRACTED" /\ new.body = x
  BY <1>2, <1>3, AnswersAssumption DEF Record, Decided, Accepted
<1>5. SaveConditions(p, new, FromConditions(x))
  BY <1>2, <1>3
<1>6. RecordInv /\ RowsInv /\ DOMAIN saving \subseteq Product
  BY DEF IntakeInv, SavingInv
<1>7. RecordInv' /\ RowsInv'
  BY <1>1, <1>4, <1>5, <1>6, SaveKeeps
<1> QED
  BY <1>1, <1>7 DEF IntakeInv

\* A page that arrives, the last one included, adds to what was received.
LEMMA FetchKeeps == ASSUME IntakeInv, FetchPage PROVE IntakeInv'
<1>1. PICK listing : listing = disclosed[stage]
  OBVIOUS
<1>2. stage \in {"companies", "products"}
  BY DEF FetchPage
<1>3. page \in Nat \ {0}
  BY DEF IntakeInv, FetchInv
<1>4. /\ received' = [received EXCEPT ![stage] = @ \o Entries(listing, page)]
      /\ page' \in {1, page + 1}
      /\ stage' \in {"companies", "products", "load"}
  BY <1>1, <1>2 DEF FetchPage, StageAfter
<1>5. received'.companies \in Seq(Company) /\ received'.products \in Seq(Entry)
      /\ DOMAIN received' = {"companies", "products"}
  <2>1. disclosed \in Publications
    BY DEF IntakeInv, FetchInv
  <2>2. CASE stage = "companies"
    <3>1. listing \in Seq(Company)
      BY <1>1, <2>1, <2>2, Published
    <3>2. Entries(listing, page) \in Seq(Company)
      BY <1>3, <3>1, EntriesListed
    <3> QED
      BY <1>4, <2>2, <3>2 DEF IntakeInv, FetchInv
  <2>3. CASE stage = "products"
    <3>1. listing \in Seq(Entry)
      BY <1>1, <2>1, <2>3, Published
    <3>2. Entries(listing, page) \in Seq(Entry)
      BY <1>3, <3>1, EntriesListed
    <3> QED
      BY <1>4, <2>3, <3>2 DEF IntakeInv, FetchInv
  <2> QED
    BY <1>2, <2>2, <2>3
<1>6. UNCHANGED <<disclosed, changes, quiet, tables, todo, pending>>
  BY DEF FetchPage, world
<1>7. FetchInv'
  BY <1>3, <1>4, <1>5, <1>6 DEF IntakeInv, FetchInv
<1> QED
  BY <1>4, <1>6, <1>7, QuietStep

\* Every step keeps the invariant.
LEMMA StepIntakeInv == IntakeInv /\ [Next]_vars => IntakeInv'
<1> SUFFICES ASSUME IntakeInv, [Next]_vars PROVE IntakeInv'
  OBVIOUS
<1>1. CASE Publish
  <2>1. FetchInv'
    <3>1. changes' \in 0..MaxChanges
      BY <1>1, PagesAssumption DEF Publish, IntakeInv, FetchInv
    <3> QED
      BY <1>1, <3>1 DEF Publish, IntakeInv, FetchInv, fetch
  <2> QED
    BY <1>1, <2>1, QuietStep DEF Publish
<1>2. CASE StartSync
  <2>1. <<>> \in Seq(Company) /\ <<>> \in Seq(Entry)
    OBVIOUS
  <2>2. FetchInv'
    BY <1>2, <2>1 DEF StartSync, IntakeInv, FetchInv, Nothing
  <2> QED
    BY <1>2, <2>2, QuietStep DEF StartSync
<1>3. CASE FetchPage
  BY <1>3, FetchKeeps
<1>4. CASE FetchFails \/ ChecklistsDone \/ RefreshDone
  <2>1. FetchInv'
    BY <1>4 DEF FetchFails, ChecklistsDone, RefreshDone, IntakeInv, FetchInv, fetch, world
  <2> QED
    BY <1>4, <2>1, QuietStep DEF FetchFails, ChecklistsDone, RefreshDone
<1>5. CASE UNCHANGED vars
  <2>1. FetchInv'
    BY <1>5 DEF vars, IntakeInv, FetchInv, fetch, world
  <2> QED
    BY <1>5, <2>1, QuietStep DEF vars
<1> QED
  BY <1>1, <1>2, <1>3, <1>4, <1>5, LoadKeeps, ChecklistKeeps, AskKeeps, ImportKeeps DEF Next

\* The empty tables satisfy the invariant.
LEMMA InitIntakeInv == Init => IntakeInv
<1> SUFFICES ASSUME Init PROVE IntakeInv
  OBVIOUS
<1>1. /\ disclosed \in Publications /\ changes = 0 /\ stage = "idle" /\ page = 1 /\ received = Nothing
      /\ quiet = TRUE /\ saving = <<>> /\ record = <<>> /\ rows = [p \in Product |-> <<>>]
      /\ attempt = [p \in Product |-> "NONE"] /\ todo = <<>> /\ pending = <<>>
  BY DEF Init
<1>2. <<>> \in Seq(Company) /\ <<>> \in Seq(Entry) /\ DOMAIN <<>> = {} /\ <<>> \in Seq({})
  OBVIOUS
<1>3. FetchInv
  BY <1>1, <1>2, PagesAssumption DEF FetchInv, Nothing
<1>4. SavingInv /\ RecordInv
  BY <1>1, <1>2 DEF SavingInv, RecordInv
<1>5. RowsInv
  BY <1>1 DEF RowsInv
<1>6. QueueInv
  <2>1. todo \in Seq(DOMAIN saving)
    BY <1>1, <1>2
  <2>2. \E asked : /\ pending \in Seq(asked)
                   /\ \A a \in asked : a.product \in DOMAIN saving /\ ChecklistVerified(a.source)
    BY <1>1, <1>2
  <2> QED
    BY <1>1, <2>1, <2>2 DEF QueueInv
<1> QED
  BY <1>3, <1>4, <1>5, <1>6 DEF IntakeInv

\* The invariant holds of every behaviour.
LEMMA IntakeInvHolds == Spec => []IntakeInv
BY InitIntakeInv, StepIntakeInv, PTL DEF Spec

-----------------------------------------------------------------------------
(* The theorems *)

\* Every variable keeps its type, every product of the table has a record, and
\* rows in the former format belong to such products only.
THEOREM IntakeTypes == Spec => []TypeOK
<1>1. IntakeInv => TypeOK
  BY DEF IntakeInv, FetchInv, SavingInv, RecordInv, RowsInv, QueueInv, TypeOK, Matches
<1> QED
  BY <1>1, IntakeInvHolds, PTL

\* What a reader can judge by was accepted, for the source the product has now.
LEMMA ReadableAccepted ==
    ASSUME IntakeInv, NEW p \in Product, Readable(p)
    PROVE  /\ p \in DOMAIN saving
           /\ Rated(saving[p].options)
           /\ record[p].source = ConditionSource(saving[p])
           /\ Accepted(record[p].body, ConditionSource(saving[p]))
BY DEF IntakeInv, SavingInv, RecordInv, Readable, Matches, Decided

\* What is stored as extracted, by an answer, a checklist or by hand, is never
\* found wanting when it is read.
THEOREM StoredIsReadable == Spec => []SavedReadable
<1>1. IntakeInv => SavedReadable
  BY DEF IntakeInv, RecordInv, SavedReadable, Matches, Readable, Decided, Accepted
<1> QED
  BY <1>1, IntakeInvHolds, PTL

\* No bonus the disclosure names or its rates leave room for is out of sight,
\* and neither is a restriction on who may join.
THEOREM NoBonusLost == Spec => []NothingLost
<1>1. IntakeInv => NothingLost
  <2> SUFFICES ASSUME IntakeInv, NEW p \in Product, Readable(p)
               PROVE  LET x == record[p].body
                          s == record[p].source
                      IN  /\ ~DeclaresNoBonus(s.spcl_cnd) \/ s.gap > 0 =>
                                x.bonuses # <<>> \/ x.other_bonus # {}
                          /\ ~s.anyone => x.eligibility.conditions # <<>>
                                          \/ s.join_member \in x.other_eligibility
    BY DEF NothingLost
  <2>1. record[p].source.gap \in Int
    <3>1. Rated(saving[p].options) /\ record[p].source.gap = Gap(saving[p].options)
      <4>1. Rated(saving[p].options) /\ record[p].source = ConditionSource(saving[p])
        BY ReadableAccepted
      <4> QED
        BY <4>1 DEF ConditionSource
    <3>2. PICK options : options = saving[p].options
      OBVIOUS
    <3>3. Gap(options) \in Int
      BY <3>1, <3>2, GapProperties
    <3> QED
      BY <3>1, <3>2, <3>3
  <2>2. Accepted(record[p].body, record[p].source)
    BY ReadableAccepted
  <2> QED
    BY <2>1, <2>2, AcceptedLosesNothing
<1> QED
  BY <1>1, IntakeInvHolds, PTL

\* Every condition that is judged is quoted from the disclosure as it is stored
\* now, and all bonuses fit between the rates of one option.
THEOREM JudgedIsQuoted == Spec => []JudgedFromSource
<1>1. IntakeInv => JudgedFromSource
  <2> SUFFICES ASSUME IntakeInv PROVE JudgedFromSource
    OBVIOUS
  <2>1. \A p \in Product : Readable(p) =>
            /\ Rated(saving[p].options)
            /\ Accepted(record[p].body, ConditionSource(saving[p]))
    BY ReadableAccepted
  <2> QED
    BY <2>1, AcceptedQuotes DEF JudgedFromSource
<1> QED
  BY <1>1, IntakeInvHolds, PTL

\* A source that has no checklist, which ends a refresh, has inverted rates only
\* or a text too long for an item.
THEOREM AbortsAreRefused == Spec => []AbortsOnlyRefused
<1>1. IntakeInv => AbortsOnlyRefused
  BY DEF IntakeInv, SavingInv, Refused, AbortsOnlyRefused
<1> QED
  BY <1>1, IntakeInvHolds, PTL

\* A row in the former format stands for a bonus whose condition it says whole.
THEOREM RowsKeepTheirWord == Spec => []RowsPromiseNoMore
<1>1. IntakeInv => RowsPromiseNoMore
  <2> SUFFICES ASSUME IntakeInv, NEW p \in Product, NEW i \in DOMAIN rows[p]
               PROVE  /\ Readable(p)
                      /\ \E b \in ToSet(record[p].body.bonuses) :
                            /\ b.points = rows[p][i].points
                            /\ Predicates(b.condition) = {rows[p][i].condition}
    BY DEF RowsPromiseNoMore
  <2>1. rows[p] # <<>>
    OBVIOUS
  <2>2. /\ Matches(p) /\ record[p].status = "EXTRACTED"
        /\ rows[p] = FromConditions(record[p].body)
    BY <2>1 DEF IntakeInv, RowsInv
  <2>3. Accepted(record[p].body, record[p].source)
    BY <2>2 DEF IntakeInv, RecordInv, Matches, Decided
  <2>4. Readable(p)
    BY <2>2, <2>3 DEF Readable, Accepted
  <2> QED
    BY <2>2, <2>3, <2>4, RowsFollow DEF Accepted
<1> QED
  BY <1>1, IntakeInvHolds, PTL

-----------------------------------------------------------------------------
(* A fetch of a disclosure that does not change *)

\* The pages so far are the beginning of the listing.
Begun(list, listing) ==
    LET fetched == (page - 1) * PageSize
    IN  fetched <= Len(listing) /\ list = SubSeq(listing, 1, fetched)

QuietInv ==
    quiet =>
        /\ stage = "companies" => Begun(received.companies, disclosed.companies)
                                  /\ received.products = <<>>
        /\ stage = "products" => Begun(received.products, disclosed.products)
        /\ stage \in {"products", "load"} => received.companies = disclosed.companies
        /\ stage = "load" => received.products = disclosed.products
        /\ QuietFetchWhole

\* One page more.
LEMMA PageAdded ==
    ASSUME NEW S, NEW listing \in Seq(S), page \in Nat \ {0}, NEW list, Begun(list, listing)
    PROVE  LET more == list \o Entries(listing, page)
           IN  /\ IsLast(page, listing) => more = listing
               /\ ~IsLast(page, listing) =>
                     /\ page * PageSize <= Len(listing)
                     /\ more = SubSeq(listing, 1, page * PageSize)
<1>1. PICK len \in Nat, first \in Nat, next \in Nat :
          /\ len = Len(listing) /\ first = (page - 1) * PageSize /\ next = page * PageSize
          /\ first <= next
  <2>1. PICK size \in Nat : size = PageSize
    BY PagesAssumption
  <2>2. (page - 1) * size \in Nat /\ page * size \in Nat /\ (page - 1) * size <= page * size
    OBVIOUS
  <2> QED
    BY <2>1, <2>2
<1>2. first <= len /\ list = SubSeq(listing, 1, first)
  BY <1>1 DEF Begun
<1>3. PICK last \in 0..len : last = IF next < len THEN next ELSE len
  BY <1>1
<1>4. Entries(listing, page) = SubSeq(listing, first + 1, last) /\ (IsLast(page, listing) <=> next >= len)
  BY <1>1, <1>3, EntriesListed
<1>5. list \o SubSeq(listing, first + 1, last) = SubSeq(listing, 1, last)
  <2>1. PICK one : one = 1
    OBVIOUS
  <2>2. one \in 1..(Len(listing) + 1) /\ first \in (one - 1)..Len(listing) /\ last \in first..Len(listing)
    BY <1>1, <1>2, <1>3, <2>1
  <2>3. SubSeq(listing, one, first) \o SubSeq(listing, first + 1, last) = SubSeq(listing, one, last)
    BY <2>2, ConcatAdjacentSubSeq
  <2> QED
    BY <1>2, <2>1, <2>3
<1>6. SubSeq(listing, 1, len) = listing
  BY <1>1, SubSeqFull
<1>7. CASE next >= len
  <2>1. last = len /\ IsLast(page, listing)
    BY <1>1, <1>3, <1>4, <1>7
  <2> QED
    BY <1>4, <1>5, <1>6, <2>1
<1>8. CASE next < len
  <2>1. last = next /\ ~IsLast(page, listing)
    BY <1>1, <1>3, <1>4, <1>8
  <2>2. list \o Entries(listing, page) = SubSeq(listing, 1, next)
    BY <1>4, <1>5, <2>1, Zenon
  <2>3. page * PageSize <= Len(listing)
    BY <1>1, <1>8
  <2> QED
    BY <1>1, <2>1, <2>2, <2>3, Zenon
<1> QED
  BY <1>1, <1>7, <1>8

\* A listing received whole is stored whole.
LEMMA LoadWhole ==
    ASSUME IntakeInv, Load, received.companies = disclosed.companies,
           received.products = disclosed.products
    PROVE  QuietFetchWhole'
<1>1. PICK entries \in Seq(Entry) : entries = disclosed.products /\ entries = received.products
  BY DEF IntakeInv, FetchInv
<1>2. /\ disclosed'.products = entries /\ disclosed'.companies = disclosed.companies
      /\ ToSet(disclosed.companies) \subseteq banks'
  BY <1>1 DEF Load, world
<1>3. PICK listed : listed = {p \in Product : Listed(p, entries)}
  OBVIOUS
<1>4. saving' = Merged([p \in listed |-> ToSaving(p, entries)], saving)
  BY <1>1, <1>3 DEF Load
<1>5. \A p \in listed : p \in DOMAIN saving' /\ saving'[p].options = OptionsOf(p, entries)
  BY <1>4 DEF Merged, ToSaving
<1>6. IsList(entries) /\ \A entry \in ToSet(entries) : RatesKnown(entry.options) /\ entry.product \in Product
  <2>1. IsList(entries) /\ ToSet(entries) \subseteq Entry
    BY <1>1, ListOf
  <2> QED
    BY <2>1, EntryKnown
<1>7. ASSUME NEW i \in DOMAIN entries
      PROVE  LET p == entries[i].product
                 once == \A j \in DOMAIN entries : entries[j].product = p => j = i
                 stored == saving'[p].options
                 rated == ToRateOptions(entries[i].options)
             IN  /\ p \in DOMAIN saving'
                 /\ ToSet(rated) \subseteq ToSet(stored)
                 /\ once => stored = rated
  <2>1. PICK p : p = entries[i].product
    OBVIOUS
  <2>2. p \in listed
    BY <1>3, <1>6, <2>1, ListElements DEF Listed
  <2>3. LET rated == ToRateOptions(entries[i].options)
        IN  /\ ToSet(rated) \subseteq ToSet(OptionsOf(p, entries))
            /\ (\A j \in DOMAIN entries : entries[j].product = p => j = i) =>
                  OptionsOf(p, entries) = rated
    BY <1>6, <2>1, OptionsGathered
  <2> QED
    BY <1>5, <2>1, <2>2, <2>3
<1> QED
  BY <1>2, <1>7 DEF QuietFetchWhole

\* Where no table of products is written, what was whole remains so.
LEMMA WholeKept ==
    ASSUME QuietFetchWhole, UNCHANGED <<disclosed, banks, saving>>, quiet' = quiet,
           stage' \in {"checklist", "ask"} => stage \in {"checklist", "ask"}
    PROVE  QuietFetchWhole'
BY DEF QuietFetchWhole

\* While the disclosure stays as it is, what was received is a part of it.
LEMMA FetchQuiet == ASSUME IntakeInv, QuietInv, quiet, FetchPage PROVE QuietInv'
<1>1. /\ stage \in {"companies", "products"} /\ page \in Nat \ {0} /\ disclosed \in Publications
      /\ DOMAIN received = {"companies", "products"}
      /\ UNCHANGED <<disclosed, quiet>>
  BY DEF FetchPage, world, IntakeInv, FetchInv
<1>2. PICK listing : listing = disclosed[stage]
  OBVIOUS
<1>3. /\ received' = [received EXCEPT ![stage] = @ \o Entries(listing, page)]
      /\ IF IsLast(page, listing) THEN page' = 1 /\ stage' = StageAfter[stage]
                                  ELSE page' = page + 1 /\ stage' = stage
  BY <1>2 DEF FetchPage
<1>4. QuietFetchWhole'
  <2>1. stage' \in {"companies", "products", "load"}
    BY <1>1, <1>3 DEF StageAfter
  <2> QED
    BY <2>1 DEF QuietFetchWhole
<1>5. CASE stage = "companies"
  <2>1. PICK list : list = received.companies /\ Begun(list, listing) /\ received.products = <<>>
    BY <1>2, <1>5 DEF QuietInv
  <2>2. listing \in Seq(Company) /\ disclosed'.companies = listing
    BY <1>1, <1>2, <1>5, Published
  <2>3. received'.companies = list \o Entries(listing, page) /\ received'.products = <<>>
    BY <1>1, <1>3, <1>5, <2>1
  <2>4. CASE IsLast(page, listing)
    <3>1. received'.companies = listing /\ stage' = "products" /\ page' = 1
      BY <1>1, <1>3, <1>5, <2>1, <2>2, <2>3, <2>4, PageAdded DEF StageAfter
    <3>2. Begun(<<>>, disclosed.products)'
      <4>1. disclosed.products \in Seq(Entry)
        BY <1>1, Published
      <4>2. PICK size \in Nat : size = PageSize
        BY PagesAssumption
      <4>3. (page' - 1) * size = 0
        BY <3>1, <4>2
      <4>4. SubSeq(disclosed.products, 1, 0) = <<>>
        BY <4>1
      <4> QED
        BY <1>1, <4>1, <4>2, <4>3, <4>4 DEF Begun
    <3> QED
      BY <1>4, <2>2, <2>3, <3>1, <3>2 DEF QuietInv
  <2>5. CASE ~IsLast(page, listing)
    <3>1. stage' = "companies" /\ page' = page + 1
      BY <1>3, <1>5, <2>5
    <3>2. page * PageSize <= Len(listing) /\ received'.companies = SubSeq(listing, 1, page * PageSize)
      BY <1>1, <2>1, <2>2, <2>3, <2>5, PageAdded
    <3>3. (page' - 1) * PageSize = page * PageSize
      BY <1>1, <3>1
    <3>4. Begun(received.companies, disclosed.companies)'
      BY <2>2, <3>2, <3>3 DEF Begun
    <3> QED
      BY <1>4, <2>3, <3>1, <3>4 DEF QuietInv
  <2> QED
    BY <2>4, <2>5
<1>6. CASE stage = "products"
  <2>1. PICK list : list = received.products /\ Begun(list, listing)
                    /\ received.companies = disclosed.companies
    BY <1>2, <1>6 DEF QuietInv
  <2>2. listing \in Seq(Entry) /\ disclosed'.products = listing
    BY <1>1, <1>2, <1>6, Published
  <2>3. received'.products = list \o Entries(listing, page)
        /\ received'.companies = disclosed'.companies
    BY <1>1, <1>3, <1>6, <2>1
  <2>4. CASE IsLast(page, listing)
    <3>1. received'.products = listing /\ stage' = "load"
      BY <1>1, <1>3, <1>6, <2>1, <2>2, <2>3, <2>4, PageAdded DEF StageAfter
    <3> QED
      BY <1>4, <2>2, <2>3, <3>1 DEF QuietInv
  <2>5. CASE ~IsLast(page, listing)
    <3>1. stage' = "products" /\ page' = page + 1
      BY <1>3, <1>6, <2>5
    <3>2. page * PageSize <= Len(listing) /\ received'.products = SubSeq(listing, 1, page * PageSize)
      BY <1>1, <2>1, <2>2, <2>3, <2>5, PageAdded
    <3>3. (page' - 1) * PageSize = page * PageSize
      BY <1>1, <3>1
    <3>4. Begun(received.products, disclosed.products)'
      BY <2>2, <3>2, <3>3 DEF Begun
    <3> QED
      BY <1>4, <2>3, <3>1, <3>4 DEF QuietInv
  <2> QED
    BY <2>4, <2>5
<1> QED
  BY <1>1, <1>5, <1>6

\* Every step keeps what is known of an undisturbed fetch.
LEMMA StepQuietInv == IntakeInv /\ QuietInv /\ [Next]_vars => QuietInv'
<1> SUFFICES ASSUME IntakeInv, QuietInv, [Next]_vars PROVE QuietInv'
  OBVIOUS
<1>1. CASE Publish
  BY <1>1 DEF Publish, QuietInv
<1>2. CASE StartSync
  <2>1. /\ stage' = "companies" /\ page' = 1 /\ received' = Nothing /\ disclosed' = disclosed
        /\ disclosed.companies \in Seq(Company)
    BY <1>2, Published DEF StartSync, IntakeInv, FetchInv
  <2>2. PICK size \in Nat : size = PageSize
    BY PagesAssumption
  <2>3. (page' - 1) * size = 0
    BY <2>1, <2>2
  <2>4. SubSeq(disclosed.companies, 1, 0) = <<>>
    BY <2>1
  <2>5. Begun(received.companies, disclosed.companies)' /\ received'.products = <<>>
    BY <2>1, <2>2, <2>3, <2>4 DEF Begun, Nothing
  <2>6. QuietFetchWhole'
    BY <2>1 DEF QuietFetchWhole
  <2> QED
    BY <2>1, <2>5, <2>6 DEF QuietInv
<1>3. CASE FetchPage
  <2>1. CASE quiet
    BY <1>3, <2>1, FetchQuiet
  <2>2. CASE ~quiet
    BY <1>3, <2>2 DEF FetchPage, world, QuietInv
  <2> QED
    BY <2>1, <2>2
<1>4. CASE Load
  <2>1. stage = "load" /\ stage' = "checklist" /\ quiet' = quiet
    BY <1>4 DEF Load, world
  <2>2. quiet => QuietFetchWhole'
    BY <1>4, <2>1, LoadWhole DEF QuietInv
  <2> QED
    BY <2>1, <2>2 DEF QuietInv
<1>5. CASE FetchFails \/ Checklist \/ ChecklistsDone \/ Ask \/ AskFails \/ RefreshDone
  <2>1. /\ UNCHANGED <<disclosed, banks, saving, quiet>>
        /\ stage' \notin {"companies", "products", "load"}
        /\ stage' \in {"checklist", "ask"} => stage \in {"checklist", "ask"}
    BY <1>5 DEF FetchFails, Checklist, ChecklistsDone, Ask, AskFails, RefreshDone, world, tables
  <2> QED
    BY <2>1, WholeKept DEF QuietInv
<1>6. CASE Import \/ UNCHANGED vars
  <2>1. UNCHANGED <<disclosed, banks, saving, quiet, stage, page, received>>
    BY <1>6 DEF Import, vars, world, fetch, tables
  <2> QED
    BY <2>1, WholeKept DEF QuietInv, Begun
<1> QED
  BY <1>1, <1>2, <1>3, <1>4, <1>5, <1>6 DEF Next

\* A disclosure that does not change while it is fetched is stored whole.
THEOREM QuietFetchesAreWhole == Spec => []QuietFetchWhole
<1>1. Init => QuietInv
  BY DEF Init, QuietInv, QuietFetchWhole
<1>2. QuietInv => QuietFetchWhole
  BY DEF QuietInv, QuietFetchWhole
<1> QED
  BY <1>1, <1>2, IntakeInvHolds, StepQuietInv, PTL DEF Spec
=============================================================================
