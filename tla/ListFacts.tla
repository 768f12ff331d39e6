------------------------------- MODULE ListFacts -------------------------------
(***************************************************************************)
(* Facts about numbers, finite sets and sequences that the proofs of the   *)
(* other modules need.  The induction theorems of the library take an      *)
(* operator as a parameter, which no prover here can instantiate.  What    *)
(* follows is stated about sets and functions instead, so that it can be   *)
(* cited: induction up to a number, maxima, and what a fold from the left  *)
(* computes.                                                               *)
(***************************************************************************)
EXTENDS Lists, FiniteSetTheorems, TLAPS

-----------------------------------------------------------------------------
(* Numbers *)

\* Every non-empty set of natural numbers has a least element.
LEMMA LeastNumber ==
    ASSUME NEW T, T \subseteq Nat, T # {}
    PROVE  \E x \in T : \A y \in T : x <= y
<1> DEFINE below == {0..n : n \in T}
<1>1. below \subseteq FiniteSubsetsOf(Nat)
  <2>1. \A n \in T : IsFiniteSet(0..n) /\ 0..n \in SUBSET Nat
    BY FS_Interval
  <2> QED
    BY <2>1 DEF FiniteSubsetsOf
<1>2. below # {}
  OBVIOUS
<1>3. PICK m \in below : \A s \in below : <<s, m>> \notin StrictSubsetOrdering(Nat)
  BY <1>1, <1>2, FS_StrictSubsetOrderingWellFounded, WFMin
<1>4. PICK x \in T : m = 0..x
  OBVIOUS
<1>5. ASSUME NEW y \in T, y < x PROVE FALSE
  <2>1. 0..y \subseteq 0..x /\ 0..y # 0..x /\ 0..y \in SUBSET Nat /\ 0..x \in SUBSET Nat
    BY <1>5
  <2>2. <<0..y, m>> \in StrictSubsetOrdering(Nat)
    BY <1>4, <2>1 DEF StrictSubsetOrdering
  <2> QED
    BY <1>3, <2>2
<1> QED
  BY <1>5

\* Induction up to n, for a set of numbers.
LEMMA CountUp ==
    ASSUME NEW n \in Nat, NEW P, 0 \in P, \A m \in 1..n : m - 1 \in P => m \in P
    PROVE  0..n \subseteq P
<1> SUFFICES ASSUME 0..n \ P # {} PROVE FALSE
  OBVIOUS
<1>1. PICK x \in 0..n \ P : \A y \in 0..n \ P : x <= y
  <2>1. 0..n \ P \subseteq Nat
    OBVIOUS
  <2> QED
    BY <2>1, LeastNumber
<1>2. x \in 1..n /\ x - 1 \in 0..n
  BY <1>1
<1>3. x - 1 \in P
  BY <1>1, <1>2
<1> QED
  BY <1>1, <1>2, <1>3

\* The same for the parts of a structure that come before it.
LEMMA CountAll ==
    ASSUME NEW n \in Nat, NEW P, \A m \in 1..n : (\A k \in 1..(m - 1) : k \in P) => m \in P
    PROVE  1..n \subseteq P
<1> SUFFICES ASSUME 1..n \ P # {} PROVE FALSE
  OBVIOUS
<1>1. PICK x \in 1..n \ P : \A y \in 1..n \ P : x <= y
  <2>1. 1..n \ P \subseteq Nat
    OBVIOUS
  <2> QED
    BY <2>1, LeastNumber
<1>2. \A k \in 1..(x - 1) : k \in P
  BY <1>1
<1> QED
  BY <1>1, <1>2

\* A product of natural numbers grows with what is multiplied.
LEMMA TimesGrows ==
    ASSUME NEW a \in Nat, NEW b \in Nat, NEW c \in Nat, NEW d \in Nat, a <= b, c <= d
    PROVE  a * c \in Nat /\ b * d \in Nat /\ a * c <= b * d
<1>1. PICK x \in Nat, y \in Nat : b = a + x /\ d = c + y
  <2>1. b - a \in Nat /\ d - c \in Nat /\ b = a + (b - a) /\ d = c + (d - c)
    OBVIOUS
  <2> QED
    BY <2>1
<1>2. b * d = a * c + a * y + x * c + x * y
  BY <1>1
<1>3. a * c \in Nat /\ a * y \in Nat /\ x * c \in Nat /\ x * y \in Nat
  BY <1>1
<1> QED
  BY <1>2, <1>3

\* The same for quotients.
LEMMA DivGrows ==
    ASSUME NEW a \in Nat, NEW b \in Nat, NEW n \in Nat \ {0}, a <= b
    PROVE  a \div n \in Nat /\ b \div n \in Nat /\ a \div n <= b \div n
OBVIOUS

-----------------------------------------------------------------------------
(* Finite sets of numbers *)

\* A finite set of numbers has a greatest one.
LEMMA MaxProperties ==
    ASSUME NEW S, S \subseteq Int, IsFiniteSet(S), S # {}
    PROVE  Max(S) \in S /\ \A y \in S : Max(S) >= y
<1> DEFINE Bounded(s) == \E x \in s : \A y \in s : x >= y
           bad == {s \in SUBSET S : s # {} /\ ~Bounded(s)}
<1>1. bad \subseteq FiniteSubsetsOf(S)
  BY FS_Subset DEF FiniteSubsetsOf
<1>2. ASSUME bad # {} PROVE FALSE
  <2>1. PICK s \in bad : \A t \in bad : <<t, s>> \notin StrictSubsetOrdering(S)
    <3> HIDE DEF bad
    <3> QED
      BY <1>1, <1>2, FS_StrictSubsetOrderingWellFounded, WFMin
  <2>2. PICK x \in s : TRUE
    OBVIOUS
  <2>3. <<s \ {x}, s>> \in StrictSubsetOrdering(S)
    BY <2>2 DEF StrictSubsetOrdering
  <2>4. s \ {x} = {} \/ Bounded(s \ {x})
    BY <2>1, <2>3
  <2>5. CASE s \ {x} = {}
    BY <2>2, <2>5
  <2>6. CASE Bounded(s \ {x})
    <3>1. PICK y \in s \ {x} : \A z \in s \ {x} : y >= z
      BY <2>6
    <3>2. x \in Int /\ y \in Int /\ s \subseteq Int
      BY <2>2, <3>1
    <3>3. CASE x >= y
      <4>1. \A z \in s : x >= z
        BY <3>1, <3>2, <3>3
      <4> QED
        BY <2>1, <2>2, <4>1
    <3>4. CASE y >= x
      <4>1. \A z \in s : y >= z
        BY <3>1, <3>2, <3>4
      <4> QED
        BY <2>1, <3>1, <4>1
    <3> QED
      BY <3>2, <3>3, <3>4
  <2> QED
    BY <2>4, <2>5, <2>6
<1>3. Bounded(S)
  BY <1>2
<1> QED
  BY <1>3 DEF Max

\* So does a function on the first numbers have a greatest value.
LEMMA GreatestValue ==
    ASSUME NEW n \in Nat \ {0}, NEW f \in [1..n -> Int], NEW S, S = {f[i] : i \in 1..n}
    PROVE  /\ Max(S) \in Int
           /\ \E i \in 1..n : Max(S) = f[i]
           /\ \A i \in 1..n : f[i] <= Max(S)
<1>1. IsFiniteSet(S)
  <2>1. IsFiniteSet(1..n)
    BY FS_Interval
  <2>2. f \in Surjection(1..n, S)
    BY DEF Surjection
  <2> QED
    BY <2>1, <2>2, FS_Surjection
<1>2. S \subseteq Int /\ S # {}
  <2>1. 1 \in 1..n
    OBVIOUS
  <2> QED
    BY <2>1
<1>3. Max(S) \in S /\ \A y \in S : Max(S) >= y
  BY <1>1, <1>2, MaxProperties
<1>4. Max(S) \in Int
  BY <1>2, <1>3
<1>5. \A i \in 1..n : f[i] \in S /\ f[i] \in Int
  OBVIOUS
<1>6. \A i \in 1..n : f[i] <= Max(S)
  BY <1>3, <1>4, <1>5
<1> QED
  BY <1>3, <1>4, <1>6

\* A set of natural numbers has a least one.
LEMMA MinProperties ==
    ASSUME NEW S, S \subseteq Nat, S # {}
    PROVE  Min(S) \in S /\ \A y \in S : Min(S) <= y
<1>1. \E x \in S : \A y \in S : x <= y
  BY LeastNumber
<1> QED
  BY <1>1 DEF Min

-----------------------------------------------------------------------------
(* Folds *)

\* What a fold from the left does at each index to the result so far ...
Steps(A, n) == [1..n -> [A -> A]]

\* ... what MapThenFoldSet defines from it by recursion over sets of indices ...
Solves(iter, A, base, n, F) ==
    /\ iter[{}] = base
    /\ \A s \in SUBSET (1..n) : s # {} /\ iter[s \ {Max(s)}] \in A =>
           iter[s] = F[Max(s)][iter[s \ {Max(s)}]]

IsFold(f, A, base, n, F) ==
    /\ f \in [SUBSET (1..n) -> A]
    /\ \A s \in SUBSET (1..n) :
          /\ s # {} => Max(s) \in s
          /\ f[s] = IF s = {} THEN base ELSE F[Max(s)][f[s \ {Max(s)}]]

\* ... and the results it goes through.
IsRun(h, A, base, n, F) ==
    /\ h \in [0..n -> A]
    /\ h[0] = base
    /\ \A m \in 1..n : h[m] = F[m][h[m - 1]]

\* There is such a function ...
LEMMA FoldExists ==
    ASSUME NEW A, NEW base \in A, NEW n \in Nat, NEW F \in Steps(A, n)
    PROVE  \E f : IsFold(f, A, base, n, F)
<1>0. F \in [1..n -> [A -> A]]
  BY DEF Steps
<1> DEFINE Folds(f, m) ==
        \A s \in SUBSET (1..m) :
            f[s] = IF s = {} THEN base ELSE F[Max(s)][f[s \ {Max(s)}]]
           P == {m \in 0..n : \E f \in [SUBSET (1..m) -> A] : Folds(f, m)}
<1>1. 0 \in P
  <2> DEFINE f == [s \in SUBSET (1..0) |-> base]
  <2>1. \A s \in SUBSET (1..0) : s = {}
    OBVIOUS
  <2>2. f \in [SUBSET (1..0) -> A] /\ Folds(f, 0)
    BY <2>1
  <2>3. \E h \in [SUBSET (1..0) -> A] : Folds(h, 0)
    <3> HIDE DEF f, Folds
    <3> QED
      BY <2>2
  <2>4. 0 \in 0..n
    OBVIOUS
  <2> HIDE DEF f, Folds
  <2> QED
    BY <2>3, <2>4
<1>2. ASSUME NEW m \in 1..n, m - 1 \in P PROVE m \in P
  <2>1. PICK g \in [SUBSET (1..(m - 1)) -> A] : Folds(g, m - 1)
    BY <1>2
  <2> DEFINE f == [s \in SUBSET (1..m) |-> IF m \in s THEN F[m][g[s \ {m}]] ELSE g[s]]
  <2>2. \A s \in SUBSET (1..m) : m \in s => /\ s \ {m} \in SUBSET (1..(m - 1))
                                           /\ Max(s) = m
    <3> SUFFICES ASSUME NEW s \in SUBSET (1..m), m \in s
                 PROVE  s \ {m} \in SUBSET (1..(m - 1)) /\ Max(s) = m
      OBVIOUS
    <3>1. s \ {m} \in SUBSET (1..(m - 1))
      OBVIOUS
    <3>2. s \subseteq Int
      OBVIOUS
    <3>3. IsFiniteSet(s)
      <4>1. IsFiniteSet(1..m)
        BY FS_Interval
      <4> QED
        BY <4>1, FS_Subset
    <3>4. Max(s) \in s /\ Max(s) >= m
      BY <3>2, <3>3, MaxProperties
    <3>5. Max(s) \in 1..m
      BY <3>4
    <3>6. Max(s) = m
      BY <3>4, <3>5
    <3> QED
      BY <3>1, <3>6
  <2>3. \A s \in SUBSET (1..m) : m \notin s => s \in SUBSET (1..(m - 1))
    OBVIOUS
  <2>4. f \in [SUBSET (1..m) -> A]
    BY <1>0, <2>2, <2>3
  <2>5. Folds(f, m)
    <3> SUFFICES ASSUME NEW s \in SUBSET (1..m)
                 PROVE  f[s] = IF s = {} THEN base ELSE F[Max(s)][f[s \ {Max(s)}]]
      OBVIOUS
    <3>1. CASE m \in s
      <4>1. f[s] = F[m][g[s \ {m}]]
        BY <3>1
      <4>2. f[s \ {m}] = g[s \ {m}]
        OBVIOUS
      <4> QED
        BY <2>2, <3>1, <4>1, <4>2
    <3>2. CASE m \notin s
      <4>1. f[s] = g[s]
        BY <3>2
      <4>2. f[s \ {Max(s)}] = g[s \ {Max(s)}]
        BY <3>2
      <4>3. g[s] = IF s = {} THEN base ELSE F[Max(s)][g[s \ {Max(s)}]]
        BY <2>1, <2>3, <3>2
      <4> QED
        BY <4>1, <4>2, <4>3
    <3> QED
      BY <3>1, <3>2
  <2> HIDE DEF f, Folds
  <2> QED
    BY <2>4, <2>5
<1>3. n \in P
  <2>1. n \in 0..n
    OBVIOUS
  <2>2. 0..n \subseteq P
    <3> HIDE DEF P
    <3> QED
      BY <1>1, <1>2, CountUp
  <2> HIDE DEF P
  <2> QED
    BY <2>1, <2>2
<1>4. \A s \in SUBSET (1..n) : s # {} => Max(s) \in s
  <2>1. IsFiniteSet(1..n) /\ 1..n \subseteq Int
    BY FS_Interval
  <2> QED
    BY <2>1, FS_Subset, MaxProperties
<1> QED
  BY <1>3, <1>4 DEF IsFold

\* ... and whatever solves these equations goes through the elements one after
\* another.
LEMMA FirstNumbers ==
    ASSUME NEW n \in Nat, NEW m \in 1..n
    PROVE  /\ 1..m \in SUBSET (1..n)
           /\ 1..m # {}
           /\ Max(1..m) = m
           /\ (1..m) \ {m} = 1..(m - 1)
<1>1. 1..m \subseteq Int /\ IsFiniteSet(1..m) /\ 1..m # {}
  <2>1. m \in 1..m /\ m \in Int
    OBVIOUS
  <2>2. IsFiniteSet(1..m)
    BY <2>1, FS_Interval
  <2> QED
    BY <2>1, <2>2
<1>2. Max(1..m) \in 1..m /\ Max(1..m) >= m
  <2>1. m \in 1..m
    OBVIOUS
  <2> QED
    BY <1>1, <2>1, MaxProperties
<1>3. Max(1..m) = m
  BY <1>2
<1>4. (1..m) \ {m} = 1..(m - 1)
  OBVIOUS
<1>5. 1..m \in SUBSET (1..n)
  OBVIOUS
<1> QED
  BY <1>1, <1>3, <1>4, <1>5

\* The set recursion of MapThenFoldSet, followed along 1..n, is a fold one
\* element at a time.
LEMMA FoldSteps ==
    ASSUME NEW A, NEW base \in A, NEW n \in Nat, NEW F \in Steps(A, n),
           NEW iter, Solves(iter, A, base, n, F)
    PROVE  \E h : IsRun(h, A, base, n, F) /\ h[n] = iter[1..n]
<1>0. /\ F \in [1..n -> [A -> A]]
      /\ iter[{}] = base
      /\ \A s \in SUBSET (1..n) : s # {} /\ iter[s \ {Max(s)}] \in A =>
            iter[s] = F[Max(s)][iter[s \ {Max(s)}]]
  BY DEF Steps, Solves
<1> DEFINE h == [m \in 0..n |-> iter[1..m]]
           P == {m \in 0..n : h[m] \in A}
<1>1. h[0] = base
  <2>1. 1..0 = {}
    OBVIOUS
  <2> QED
    BY <1>0, <2>1
<1>2. ASSUME NEW m \in 1..n, m - 1 \in P PROVE m \in P /\ h[m] = F[m][h[m - 1]]
  <2>1. h[m - 1] \in A /\ h[m - 1] = iter[1..(m - 1)]
    BY <1>2
  <2>2. /\ 1..m \in SUBSET (1..n) /\ 1..m # {}
        /\ Max(1..m) = m /\ (1..m) \ {m} = 1..(m - 1)
    BY FirstNumbers
  <2>3. h[m] = iter[1..m]
    OBVIOUS
  <2>4. iter[1..m] = F[m][iter[1..(m - 1)]]
    BY <1>0, <2>1, <2>2
  <2>5. h[m] \in A
    BY <1>0, <2>1, <2>3, <2>4
  <2> QED
    BY <2>1, <2>3, <2>4, <2>5
<1>3. 0..n \subseteq P
  <2>1. 0 \in P
    BY <1>1
  <2> HIDE DEF P
  <2> QED
    BY <1>2, <2>1, CountUp
<1>4. h \in [0..n -> A]
  BY <1>3
<1>5. \A m \in 1..n : h[m] = F[m][h[m - 1]]
  <2>1. \A m \in 1..n : m - 1 \in 0..n
    OBVIOUS
  <2> HIDE DEF P, h
  <2> QED
    BY <1>2, <1>3, <2>1
<1>6. h[n] = iter[1..n]
  OBVIOUS
<1> HIDE DEF h
<1> QED
  BY <1>1, <1>4, <1>5, <1>6 DEF IsRun

\* So there are such results.
LEMMA RunExists ==
    ASSUME NEW A, NEW base \in A, NEW n \in Nat, NEW F \in Steps(A, n)
    PROVE  \E h : IsRun(h, A, base, n, F)
<1>1. PICK f : IsFold(f, A, base, n, F)
  BY FoldExists
<1>2. Solves(f, A, base, n, F)
  BY <1>1 DEF IsFold, Solves
<1> QED
  BY <1>2, FoldSteps

-----------------------------------------------------------------------------
(* Selected *)

\* It goes through the sequence and keeps what it is told to keep.
KeepsUp(kept, S, seq, I, n) ==
    /\ kept \in [0..n -> Seq(S)]
    /\ kept[0] = <<>>
    /\ \A m \in 1..n :
          kept[m] = IF m \in I THEN Append(kept[m - 1], seq[m]) ELSE kept[m - 1]

\* Selected goes through the list once, and keeps what has a chosen index.
LEMMA SelectedSteps ==
    ASSUME NEW S, NEW seq \in Seq(S), NEW I
    PROVE  \E kept : KeepsUp(kept, S, seq, I, Len(seq)) /\ kept[Len(seq)] = Selected(seq, I)
<1> DEFINE index == [i \in DOMAIN seq |-> i]
           Step(kept, i) == IF i \in I THEN Append(kept, seq[i]) ELSE kept
           Body(iter) ==
               [s \in SUBSET DOMAIN index |->
                   IF s = {} THEN <<>> ELSE Step(iter[s \ {Max(s)}], index[Max(s)])]
           Iter == CHOOSE iter : iter = Body(iter)
<1>1. Selected(seq, I) = Iter[DOMAIN index]
  BY DEF Selected, FoldLeftDomain, FoldLeft, MapThenFoldSet
<1>2. PICK n \in Nat : n = Len(seq)
  OBVIOUS
<1>3. DOMAIN index = 1..n /\ \A i \in 1..n : index[i] = i /\ seq[i] \in S
  BY <1>2
<1>4. PICK A : A = Seq(S)
  OBVIOUS
<1>5. PICK base : base = <<>>
  OBVIOUS
<1> DEFINE F == [i \in 1..n |-> [kept \in A |-> Step(kept, i)]]
<1>6. F \in Steps(A, n) /\ base \in A
  BY <1>3, <1>4, <1>5 DEF Steps
<1>7. PICK f : IsFold(f, A, base, n, F)
  <2> HIDE DEF F
  <2> QED
    BY <1>6, FoldExists
<1>8. ASSUME NEW s \in SUBSET (1..n), s # {}, NEW kept \in A
      PROVE  Step(kept, index[Max(s)]) = F[Max(s)][kept]
  BY <1>3, <1>7, <1>8 DEF IsFold
<1>9. f = Body(f)
  BY <1>3, <1>5, <1>7, <1>8 DEF IsFold
<1>10. Iter = Body(Iter)
  <2> HIDE DEF Body
  <2> QED
    BY <1>9
<1> HIDE DEF Iter
<1>11. Iter[{}] = base
  BY <1>3, <1>5, <1>10
<1>12. ASSUME NEW s \in SUBSET (1..n), s # {}, Iter[s \ {Max(s)}] \in A
       PROVE  Iter[s] = F[Max(s)][Iter[s \ {Max(s)}]]
  <2>1. Iter[s] = Step(Iter[s \ {Max(s)}], index[Max(s)])
    BY <1>3, <1>10, <1>12
  <2> HIDE DEF F, Step
  <2> QED
    BY <1>8, <1>12, <2>1
<1>13. PICK kept : IsRun(kept, A, base, n, F) /\ kept[n] = Iter[1..n]
  <2> HIDE DEF F
  <2>1. Solves(Iter, A, base, n, F)
    BY <1>11, <1>12 DEF Solves
  <2> QED
    BY <1>6, <2>1, FoldSteps
<1>14. \A m \in 1..n : kept[m] = Step(kept[m - 1], m)
  <2>1. \A m \in 1..n : m - 1 \in 0..n
    OBVIOUS
  <2> QED
    BY <1>13, <2>1 DEF IsRun
<1> HIDE DEF F
<1> QED
  BY <1>1, <1>2, <1>3, <1>4, <1>5, <1>13, <1>14 DEF IsRun, KeepsUp

\* list consists of the elements of seq at the indices, in their order.
Keeps(at, list, seq, indices) ==
    /\ at \in [1..Len(list) -> indices]
    /\ \A k \in 1..Len(list) : list[k] = seq[at[k]]
    /\ \A k, l \in 1..Len(list) : k < l => at[k] < at[l]
    /\ \A i \in indices : \E k \in 1..Len(list) : at[k] = i

\* What keeps the elements at J keeps, with one more appended, those at J and
\* at its greater index.
LEMMA KeepsAppend ==
    ASSUME NEW S, NEW seq, NEW J, NEW at, NEW list \in Seq(S), Keeps(at, list, seq, J),
           NEW m \in Nat, seq[m] \in S, J \subseteq 1..(m - 1)
    PROVE  \E more : Keeps(more, Append(list, seq[m]), seq, J \cup {m})
<1>1. PICK len \in Nat : len = Len(list)
  OBVIOUS
<1>2. /\ at \in [1..len -> J]
      /\ \A k \in 1..len : list[k] = seq[at[k]]
      /\ \A k, l \in 1..len : k < l => at[k] < at[l]
      /\ \A i \in J : \E k \in 1..len : at[k] = i
  BY <1>1 DEF Keeps
<1>3. PICK more : more = [k \in 1..(len + 1) |-> IF k = len + 1 THEN m ELSE at[k]]
  OBVIOUS
<1>4. /\ more \in [1..(len + 1) -> J \cup {m}]
      /\ \A k \in 1..len : more[k] = at[k]
      /\ more[len + 1] = m
  BY <1>2, <1>3
<1>5. PICK longer : longer = Append(list, seq[m])
  OBVIOUS
<1>6. /\ Len(longer) = len + 1
      /\ \A k \in 1..len : longer[k] = list[k]
      /\ longer[len + 1] = seq[m]
  BY <1>1, <1>5
<1>7. \A k \in 1..(len + 1) : k \in 1..len \/ k = len + 1
  OBVIOUS
<1>8. \A k \in 1..len : at[k] < m
  <2>1. \A i \in J : i < m
    OBVIOUS
  <2> QED
    BY <1>2, <2>1
<1>9. \A k \in 1..(len + 1) : longer[k] = seq[more[k]]
  BY <1>2, <1>4, <1>6, <1>7
<1>10. \A k, l \in 1..(len + 1) : k < l => more[k] < more[l]
  <2> SUFFICES ASSUME NEW k \in 1..(len + 1), NEW l \in 1..(len + 1), k < l
               PROVE  more[k] < more[l]
    OBVIOUS
  <2>1. k \in 1..len
    OBVIOUS
  <2>2. CASE l \in 1..len
    BY <1>2, <1>4, <2>1, <2>2
  <2>3. CASE l = len + 1
    BY <1>4, <1>8, <2>1, <2>3
  <2> QED
    BY <1>7, <2>2, <2>3
<1>11. \A i \in J \cup {m} : \E k \in 1..(len + 1) : more[k] = i
  <2> SUFFICES ASSUME NEW i \in J \cup {m} PROVE \E k \in 1..(len + 1) : more[k] = i
    OBVIOUS
  <2>1. CASE i = m
    <3>1. len + 1 \in 1..(len + 1)
      OBVIOUS
    <3> QED
      BY <1>4, <2>1, <3>1
  <2>2. CASE i \in J
    <3>1. PICK k \in 1..len : at[k] = i
      BY <1>2, <2>2
    <3>2. k \in 1..(len + 1) /\ more[k] = i
      BY <1>4, <3>1
    <3> QED
      BY <3>2
  <2> QED
    BY <2>1, <2>2
<1> QED
  BY <1>4, <1>5, <1>6, <1>9, <1>10, <1>11 DEF Keeps

\* The elements of Selected(seq, I) are those of seq at the indices of I, each
\* once and in their order.
LEMMA SelectedProperties ==
    ASSUME NEW S, NEW seq \in Seq(S), NEW I, I \subseteq DOMAIN seq
    PROVE  /\ Selected(seq, I) \in Seq(S)
           /\ \E at : Keeps(at, Selected(seq, I), seq, I)
<1>1. PICK n \in Nat : n = Len(seq) /\ DOMAIN seq = 1..n /\ \A m \in 1..n : seq[m] \in S
  OBVIOUS
<1>2. PICK kept : KeepsUp(kept, S, seq, I, n) /\ kept[n] = Selected(seq, I)
  BY <1>1, SelectedSteps
<1> DEFINE P == {m \in 0..n : \E at : Keeps(at, kept[m], seq, I \cap (1..m))}
<1>3. 0 \in P
  <2>1. I \cap (1..0) = {} /\ 0 \in 0..n /\ kept[0] = <<>>
    BY <1>2 DEF KeepsUp
  <2>2. Keeps([k \in {} |-> 0], <<>>, seq, {})
    BY DEF Keeps
  <2> QED
    BY <2>1, <2>2
<1>4. ASSUME NEW m \in 1..n, m - 1 \in P PROVE m \in P
  <2>1. PICK at : Keeps(at, kept[m - 1], seq, I \cap (1..(m - 1)))
    BY <1>4
  <2>2. /\ kept[m] = IF m \in I THEN Append(kept[m - 1], seq[m]) ELSE kept[m - 1]
        /\ kept[m - 1] \in Seq(S)
    <3>1. m - 1 \in 0..n
      OBVIOUS
    <3> QED
      BY <1>2, <3>1 DEF KeepsUp
  <2>3. CASE m \notin I
    <3>1. I \cap (1..m) = I \cap (1..(m - 1)) /\ kept[m] = kept[m - 1] /\ m \in 0..n
      BY <2>2, <2>3
    <3> QED
      BY <2>1, <3>1
  <2>4. CASE m \in I
    <3>1. PICK J : J = I \cap (1..(m - 1))
      OBVIOUS
    <3>2. I \cap (1..m) = J \cup {m} /\ J \subseteq 1..(m - 1) /\ m \in Nat /\ m \in 0..n
      BY <2>4, <3>1
    <3>3. PICK list \in Seq(S) : list = kept[m - 1] /\ Keeps(at, list, seq, J)
      BY <2>1, <2>2, <3>1
    <3>4. PICK longer : longer = Append(list, seq[m]) /\ longer = kept[m]
      BY <2>2, <2>4, <3>3
    <3>5. \E more : Keeps(more, longer, seq, J \cup {m})
      <4>1. seq[m] \in S
        BY <1>1
      <4>2. \E more : Keeps(more, Append(list, seq[m]), seq, J \cup {m})
        <5>1. m \in Nat
          OBVIOUS
        <5>2. J \subseteq 1..(m - 1)
          BY <3>2
        <5>3. Keeps(at, list, seq, J)
          BY <3>3
        <5> HIDE DEF P
        <5> QED
          BY <4>1, <5>1, <5>2, <5>3, KeepsAppend
      <4> QED
        BY <3>4, <4>2
    <3> QED
      BY <3>2, <3>4, <3>5
  <2> QED
    BY <2>3, <2>4
<1>5. n \in P
  <2>1. n \in 0..n
    OBVIOUS
  <2>2. 0..n \subseteq P
    <3> HIDE DEF P
    <3> QED
      BY <1>3, <1>4, CountUp
  <2> HIDE DEF P
  <2> QED
    BY <2>1, <2>2
<1>6. I \cap (1..n) = I /\ kept[n] \in Seq(S)
  BY <1>1, <1>2 DEF KeepsUp
<1> QED
  BY <1>2, <1>5, <1>6

-----------------------------------------------------------------------------
(* FlattenSeq *)

\* What FlattenSeq defines by recursion.
Flattens(g, seqs, n) ==
    \A i \in 1..n : g[i] = IF i = 1 THEN seqs[i] ELSE g[i - 1] \o seqs[i]

\* FlattenSeq appends one list after the other.
LEMMA FlattenSteps ==
    ASSUME NEW S, NEW seqs \in Seq(Seq(S)), seqs # <<>>
    PROVE  \E g \in [1..Len(seqs) -> Seq(S)] :
              Flattens(g, seqs, Len(seqs)) /\ g[Len(seqs)] = FlattenSeq(seqs)
<1>1. PICK n \in Nat : n = Len(seqs)
  OBVIOUS
<1>2. n # 0 /\ \A i \in 1..n : seqs[i] \in Seq(S)
  BY <1>1
<1>3. PICK A : A = Seq(S)
  OBVIOUS
<1>4. \A a, b \in A : a \o b \in A
  BY <1>3
<1> DEFINE P == {m \in 0..n : \E g \in [1..m -> A] : Flattens(g, seqs, m)}
<1>5. 0 \in P
  <2>1. [i \in 1..0 |-> <<>>] \in [1..0 -> A] /\ Flattens([i \in 1..0 |-> <<>>], seqs, 0)
    BY DEF Flattens
  <2>2. \E g \in [1..0 -> A] : Flattens(g, seqs, 0)
    BY <2>1
  <2>3. 0 \in 0..n
    OBVIOUS
  <2> QED
    BY <2>2, <2>3
<1>6. ASSUME NEW m \in 1..n, m - 1 \in P PROVE m \in P
  <2>1. PICK g \in [1..(m - 1) -> A] : Flattens(g, seqs, m - 1)
    BY <1>6
  <2>2. PICK last \in A : last = IF m = 1 THEN seqs[m] ELSE g[m - 1] \o seqs[m]
    <3>1. m # 1 => g[m - 1] \in A
      OBVIOUS
    <3> QED
      BY <1>2, <1>3, <1>4, <3>1
  <2>3. PICK h : h = [i \in 1..m |-> IF i = m THEN last ELSE g[i]]
    OBVIOUS
  <2>4. h \in [1..m -> A]
    BY <2>3
  <2>5. Flattens(h, seqs, m)
    <3> SUFFICES ASSUME NEW i \in 1..m
                 PROVE  h[i] = IF i = 1 THEN seqs[i] ELSE h[i - 1] \o seqs[i]
      BY DEF Flattens
    <3>1. CASE i = m
      <4>1. m # 1 => h[m - 1] = g[m - 1]
        BY <2>3
      <4> QED
        BY <2>2, <2>3, <3>1, <4>1
    <3>2. CASE i # m
      <4>1. i \in 1..(m - 1) /\ h[i] = g[i] /\ (i # 1 => h[i - 1] = g[i - 1])
        BY <2>3, <3>2
      <4>2. g[i] = IF i = 1 THEN seqs[i] ELSE g[i - 1] \o seqs[i]
        BY <2>1, <4>1 DEF Flattens
      <4> QED
        BY <4>1, <4>2
    <3> QED
      BY <3>1, <3>2
  <2> QED
    BY <2>4, <2>5
<1>7. PICK f \in [1..n -> A] : Flattens(f, seqs, n)
  <2>1. n \in 0..n
    OBVIOUS
  <2>2. 0..n \subseteq P
    <3> HIDE DEF P
    <3> QED
      BY <1>5, <1>6, CountUp
  <2> QED
    BY <2>1, <2>2
<1> DEFINE Body(flatten) ==
        [i \in 1..Len(seqs) |-> IF i = 1 THEN seqs[i] ELSE flatten[i - 1] \o seqs[i]]
           Flat == CHOOSE flatten : flatten = Body(flatten)
<1>8. FlattenSeq(seqs) = Flat[n]
  BY <1>1, <1>2 DEF FlattenSeq
<1>9. f = Body(f)
  BY <1>1, <1>7 DEF Flattens
<1>10. Flat = Body(Flat)
  <2> HIDE DEF Body
  <2> QED
    BY <1>9
<1> HIDE DEF Flat
<1>11. Flattens(Flat, seqs, n)
  BY <1>1, <1>10 DEF Flattens
<1> DEFINE Q == {0} \cup {m \in 1..n : Flat[m] \in A}
<1>12. ASSUME NEW m \in 1..n, m - 1 \in Q PROVE m \in Q
  <2>1. Flat[m] = IF m = 1 THEN seqs[m] ELSE Flat[m - 1] \o seqs[m]
    BY <1>11 DEF Flattens
  <2>2. m # 1 => Flat[m - 1] \in A
    BY <1>12
  <2>3. Flat[m] \in A
    BY <1>2, <1>3, <1>4, <2>1, <2>2
  <2> QED
    BY <2>3
<1>13. 0..n \subseteq Q
  <2>1. 0 \in Q
    OBVIOUS
  <2> HIDE DEF Q
  <2> QED
    BY <1>12, <2>1, CountUp
<1>14. Flat \in [1..n -> A]
  <2>1. \A m \in 1..n : Flat[m] \in A
    BY <1>13
  <2> QED
    BY <1>1, <1>10, <2>1
<1> QED
  BY <1>1, <1>3, <1>8, <1>11, <1>14

\* list has the elements of the first m sequences, and no others.
Gathers(list, seqs, m) ==
    /\ \A k \in 1..Len(list) : \E i \in 1..m : \E j \in 1..Len(seqs[i]) : list[k] = seqs[i][j]
    /\ \A i \in 1..m : \A j \in 1..Len(seqs[i]) : \E k \in 1..Len(list) : list[k] = seqs[i][j]

\* A list that gathers m - 1 lists gathers m with the next one appended.
LEMMA GathersMore ==
    ASSUME NEW S, NEW seqs, NEW m \in Nat \ {0}, NEW list \in Seq(S), NEW last \in Seq(S),
           last = seqs[m], Gathers(list, seqs, m - 1)
    PROVE  Gathers(list \o last, seqs, m)
<1>1. PICK all : all = list \o last
  OBVIOUS
<1>2. PICK a \in Nat, b \in Nat : a = Len(list) /\ b = Len(last)
  OBVIOUS
<1>3. /\ Len(all) = a + b
      /\ \A k \in 1..a : all[k] = list[k]
      /\ \A k \in 1..b : all[a + k] = last[k]
  BY <1>1, <1>2
<1>4. \A k \in 1..(a + b) : k \in 1..a \/ (k - a \in 1..b /\ k = a + (k - a))
  OBVIOUS
<1>5. /\ \A k \in 1..a : \E i \in 1..(m - 1) : \E j \in 1..Len(seqs[i]) : list[k] = seqs[i][j]
      /\ \A i \in 1..(m - 1) : \A j \in 1..Len(seqs[i]) : \E k \in 1..a : list[k] = seqs[i][j]
  BY <1>2 DEF Gathers
<1>6. \A i \in 1..m : i \in 1..(m - 1) \/ i = m
  OBVIOUS
<1>7. ASSUME NEW k \in 1..(a + b)
      PROVE  \E i \in 1..m : \E j \in 1..Len(seqs[i]) : all[k] = seqs[i][j]
  <2>1. CASE k \in 1..a
    <3>1. PICK i \in 1..(m - 1) : \E j \in 1..Len(seqs[i]) : list[k] = seqs[i][j]
      BY <1>5, <2>1
    <3>2. i \in 1..m /\ all[k] = list[k]
      BY <1>3, <2>1
    <3> QED
      BY <3>1, <3>2
  <2>2. CASE k - a \in 1..b
    <3>1. all[k] = last[k - a]
      <4>1. all[a + (k - a)] = last[k - a]
        BY <1>3, <2>2
      <4>2. a + (k - a) = k
        OBVIOUS
      <4> QED
        BY <4>1, <4>2
    <3>2. m \in 1..m /\ k - a \in 1..Len(seqs[m])
      BY <1>2, <2>2
    <3> QED
      BY <3>1, <3>2
  <2> QED
    BY <1>4, <2>1, <2>2
<1>8. ASSUME NEW i \in 1..m, NEW j \in 1..Len(seqs[i])
      PROVE  \E k \in 1..(a + b) : all[k] = seqs[i][j]
  <2>1. CASE i \in 1..(m - 1)
    <3>1. PICK k \in 1..a : list[k] = seqs[i][j]
      BY <1>5, <2>1
    <3>2. k \in 1..(a + b) /\ all[k] = seqs[i][j]
      BY <1>3, <3>1
    <3> QED
      BY <3>2
  <2>2. CASE i = m
    <3>1. j \in 1..b /\ seqs[i][j] = last[j]
      BY <1>2, <2>2
    <3>2. a + j \in 1..(a + b) /\ all[a + j] = seqs[i][j]
      BY <1>3, <3>1
    <3> QED
      BY <3>2
  <2> QED
    BY <1>6, <2>1, <2>2
<1>9. Gathers(all, seqs, m)
  BY <1>3, <1>7, <1>8 DEF Gathers
<1> QED
  BY <1>1, <1>9

\* FlattenSeq(seqs) has the elements of all lists of seqs and no others.
LEMMA FlattenProperties ==
    ASSUME NEW S, NEW seqs \in Seq(Seq(S))
    PROVE  FlattenSeq(seqs) \in Seq(S) /\ Gathers(FlattenSeq(seqs), seqs, Len(seqs))
<1>1. CASE seqs = <<>>
  <2>1. FlattenSeq(seqs) = <<>> /\ Len(seqs) = 0
    BY <1>1 DEF FlattenSeq
  <2>2. Gathers(<<>>, seqs, 0)
    BY DEF Gathers
  <2>3. <<>> \in Seq(S)
    OBVIOUS
  <2> QED
    BY <2>1, <2>2, <2>3
<1>2. CASE seqs # <<>>
  <2>1. PICK n \in Nat : n = Len(seqs)
    OBVIOUS
  <2>2. n # 0 /\ \A i \in 1..n : seqs[i] \in Seq(S)
    BY <1>2, <2>1
  <2>3. PICK g \in [1..n -> Seq(S)] : Flattens(g, seqs, n) /\ g[n] = FlattenSeq(seqs)
    BY <1>2, <2>1, FlattenSteps
  <2> DEFINE P == {0} \cup {m \in 1..n : Gathers(g[m], seqs, m)}
  <2>4. ASSUME NEW m \in 1..n, m - 1 \in P PROVE m \in P
    <3>1. g[m] = IF m = 1 THEN seqs[m] ELSE g[m - 1] \o seqs[m]
      BY <2>3 DEF Flattens
    <3>2. seqs[m] \in Seq(S)
      BY <2>2
    <3>3. CASE m = 1
      <4>1. \A i \in 1..1 : i = 1
        OBVIOUS
      <4>2. Gathers(g[m], seqs, m)
        BY <3>1, <3>3, <4>1 DEF Gathers
      <4> QED
        BY <4>2
    <3>4. CASE m # 1
      <4>1. Gathers(g[m - 1], seqs, m - 1) /\ g[m - 1] \in Seq(S) /\ m \in Nat \ {0}
        BY <2>4, <3>4
      <4>2. PICK list \in Seq(S) : list = g[m - 1]
        BY <4>1
      <4>3. PICK last \in Seq(S) : last = seqs[m]
        BY <3>2
      <4>4. Gathers(list, seqs, m - 1)
        BY <4>1, <4>2
      <4>5. Gathers(list \o last, seqs, m)
        <5>1. m \in Nat \ {0}
          BY <4>1
        <5> HIDE DEF P
        <5> QED
          BY <4>3, <4>4, <5>1, GathersMore
      <4>6. g[m] = list \o last
        BY <3>1, <3>4, <4>2, <4>3
      <4> QED
        BY <4>5, <4>6
    <3> QED
      BY <3>3, <3>4
  <2>5. n \in P
    <3>1. n \in 0..n /\ 0 \in P
      OBVIOUS
    <3>2. 0..n \subseteq P
      <4> HIDE DEF P
      <4> QED
        BY <2>4, <3>1, CountUp
    <3> HIDE DEF P
    <3> QED
      BY <3>1, <3>2
  <2>6. Gathers(g[n], seqs, n) /\ g[n] \in Seq(S)
    BY <2>2, <2>5
  <2> QED
    BY <2>1, <2>3, <2>6
<1> QED
  BY <1>1, <1>2

\* Of sequences that are all empty but one, that one remains.
LEMMA FlattenOnly ==
    ASSUME NEW S, NEW seqs \in Seq(Seq(S)), NEW only \in 1..Len(seqs),
           \A i \in 1..Len(seqs) : i # only => seqs[i] = <<>>
    PROVE  FlattenSeq(seqs) = seqs[only]
<1>1. PICK n \in Nat : n = Len(seqs)
  OBVIOUS
<1>2. n # 0 /\ only \in 1..n /\ seqs # <<>> /\ seqs[only] \in Seq(S)
  BY <1>1
<1>3. PICK g \in [1..n -> Seq(S)] : Flattens(g, seqs, n) /\ g[n] = FlattenSeq(seqs)
  BY <1>1, <1>2, FlattenSteps
<1> DEFINE P == {0} \cup {m \in 1..n : g[m] = IF m < only THEN <<>> ELSE seqs[only]}
<1>4. ASSUME NEW m \in 1..n, m - 1 \in P PROVE m \in P
  <2>1. g[m] = IF m = 1 THEN seqs[m] ELSE g[m - 1] \o seqs[m]
    BY <1>3 DEF Flattens
  <2>2. CASE m = only
    <3>1. m # 1 => g[m - 1] = <<>>
      BY <1>4, <2>2
    <3>2. <<>> \o seqs[only] = seqs[only]
      BY <1>2
    <3>3. CASE m = 1
      BY <2>1, <2>2, <3>3
    <3>4. CASE m # 1
      <4>1. g[m] = g[m - 1] \o seqs[m] /\ g[m - 1] = <<>> /\ seqs[m] = seqs[only]
        BY <2>1, <2>2, <3>1, <3>4
      <4>2. g[m] = seqs[only]
        BY <3>2, <4>1, Zenon
      <4> QED
        BY <2>2, <4>2
    <3> QED
      BY <2>2, <3>3, <3>4
  <2>3. CASE m # only
    <3>1. seqs[m] = <<>>
      BY <1>1, <2>3
    <3>2. m # 1 => g[m - 1] \in Seq(S)
      OBVIOUS
    <3>3. g[m] = IF m = 1 THEN <<>> ELSE g[m - 1]
      BY <2>1, <3>1, <3>2
    <3> QED
      BY <1>2, <1>4, <2>3, <3>3
  <2> QED
    BY <2>2, <2>3
<1>5. 0..n \subseteq P
  <2>1. 0 \in P
    OBVIOUS
  <2> HIDE DEF P
  <2> QED
    BY <1>4, <2>1, CountUp
<1>6. n \in 1..n
  BY <1>2
<1> QED
  BY <1>1, <1>3, <1>5, <1>6

-----------------------------------------------------------------------------
(* SumFunction *)

\* The sums over all sets of indices up to m, whichever index is taken first.
Adds(f, fun, m) ==
    /\ f \in [SUBSET (1..m) -> Int]
    /\ f[{}] = 0
    /\ \A s \in SUBSET (1..m) : \A x \in s : f[s] = fun[x] + f[s \ {x}]

\* A sum over the subsets of 1..(m-1) extends to the subsets of 1..m.
LEMMA AddsMore ==
    ASSUME NEW m \in Nat \ {0}, NEW fun, fun[m] \in Int, \A i \in 1..(m - 1) : fun[i] \in Int,
           NEW f, Adds(f, fun, m - 1)
    PROVE  \E g : Adds(g, fun, m)
<1>1. /\ f \in [SUBSET (1..(m - 1)) -> Int]
      /\ f[{}] = 0
      /\ \A s \in SUBSET (1..(m - 1)) : \A x \in s : f[s] = fun[x] + f[s \ {x}]
  BY DEF Adds
<1>2. PICK g : g = [s \in SUBSET (1..m) |-> IF m \in s THEN fun[m] + f[s \ {m}] ELSE f[s]]
  OBVIOUS
<1>3. /\ \A s \in SUBSET (1..m) : s \ {m} \in SUBSET (1..(m - 1))
      /\ \A s \in SUBSET (1..m) : m \notin s => s \in SUBSET (1..(m - 1))
  OBVIOUS
<1>4. g \in [SUBSET (1..m) -> Int]
  <2> SUFFICES ASSUME NEW s \in SUBSET (1..m)
               PROVE  (IF m \in s THEN fun[m] + f[s \ {m}] ELSE f[s]) \in Int
    BY <1>2
  <2>1. CASE m \in s
    <3>1. f[s \ {m}] \in Int
      BY <1>1, <1>3
    <3> QED
      BY <2>1, <3>1
  <2>2. CASE m \notin s
    BY <1>1, <1>3, <2>2
  <2> QED
    BY <2>1, <2>2
<1>5. g[{}] = 0
  <2>1. {} \in SUBSET (1..m)
    OBVIOUS
  <2> QED
    BY <1>1, <1>2, <2>1
<1>6. ASSUME NEW s \in SUBSET (1..m), NEW x \in s
      PROVE  g[s] = fun[x] + g[s \ {x}]
  <2>1. s \ {x} \in SUBSET (1..m)
    OBVIOUS
  <2>2. CASE x = m
    <3>1. g[s] = fun[m] + f[s \ {m}] /\ g[s \ {m}] = f[s \ {m}]
      BY <1>2, <2>1, <2>2
    <3> QED
      BY <2>2, <3>1
  <2>3. CASE x # m /\ m \in s
    <3>1. PICK t \in SUBSET (1..(m - 1)) : t = s \ {m}
      BY <1>3
    <3>2. x \in t /\ (s \ {x}) \ {m} = t \ {x} /\ t \ {x} \in SUBSET (1..(m - 1))
      BY <2>3, <3>1
    <3>3. g[s] = fun[m] + f[t]
      BY <1>2, <2>3, <3>1
    <3>4. g[s \ {x}] = fun[m] + f[t \ {x}]
      <4>1. m \in s \ {x}
        BY <2>3
      <4> QED
        BY <1>2, <2>1, <3>2, <4>1
    <3>5. f[t] = fun[x] + f[t \ {x}]
      BY <1>1, <3>2
    <3>6. fun[x] \in Int /\ f[t \ {x}] \in Int
      BY <1>1, <3>2
    <3> QED
      BY <3>3, <3>4, <3>5, <3>6
  <2>4. CASE m \notin s
    <3>1. g[s] = f[s] /\ g[s \ {x}] = f[s \ {x}]
      BY <1>2, <2>1, <2>4
    <3> QED
      BY <1>1, <1>3, <2>4, <3>1
  <2> QED
    BY <2>2, <2>3, <2>4
<1>7. Adds(g, fun, m)
  BY <1>4, <1>5, <1>6 DEF Adds
<1> QED
  BY <1>7

\* The sum is taken over the numbers one after another.
Sums(h, fun, n) ==
    /\ h \in [0..n -> Int]
    /\ h[0] = 0
    /\ \A m \in 1..n : h[m] = h[m - 1] + fun[m]

\* SumFunction adds one value after the other.
LEMMA SumSteps ==
    ASSUME NEW n \in Nat, NEW fun \in [1..n -> Int]
    PROVE  \E h : Sums(h, fun, n) /\ h[n] = SumFunction(fun)
<1> DEFINE P == {m \in 0..n : \E f : Adds(f, fun, m)}
<1>1. 0 \in P
  <2>1. PICK f : f = [s \in SUBSET (1..0) |-> 0]
    OBVIOUS
  <2>2. 1..0 = {}
    OBVIOUS
  <2>3. Adds(f, fun, 0)
    BY <2>1, <2>2 DEF Adds
  <2>4. 0 \in 0..n
    OBVIOUS
  <2> QED
    BY <2>3, <2>4
<1>2. ASSUME NEW m \in 1..n, m - 1 \in P PROVE m \in P
  <2>1. PICK f : Adds(f, fun, m - 1)
    BY <1>2
  <2>2. m \in Nat \ {0} /\ fun[m] \in Int /\ \A i \in 1..(m - 1) : fun[i] \in Int
    OBVIOUS
  <2>3. \E g : Adds(g, fun, m)
    <3> HIDE DEF P
    <3> QED
      BY <2>1, <2>2, AddsMore
  <2> QED
    BY <2>3
<1>3. PICK f : Adds(f, fun, n)
  <2>1. n \in 0..n
    OBVIOUS
  <2>2. 0..n \subseteq P
    <3> HIDE DEF P
    <3> QED
      BY <1>1, <1>2, CountUp
  <2> QED
    BY <2>1, <2>2
<1> DEFINE Body(iter) ==
        [s \in SUBSET DOMAIN fun |->
            IF s = {} THEN 0 ELSE fun[CHOOSE x \in s : TRUE] + iter[s \ {CHOOSE x \in s : TRUE}]]
           Iter == CHOOSE iter : iter = Body(iter)
<1>4. SumFunction(fun) = Iter[1..n]
  BY DEF SumFunction, SumFunctionOnSet, FoldFunctionOnSet, MapThenFoldSet
<1>5. \A s : s # {} => (CHOOSE x \in s : TRUE) \in s
  OBVIOUS
<1>6. f = Body(f)
  BY <1>3, <1>5 DEF Adds
<1>7. Iter = Body(Iter)
  <2> HIDE DEF Body
  <2> QED
    BY <1>6
<1> HIDE DEF Iter
<1> DEFINE bad == {s \in SUBSET (1..n) : Iter[s] # f[s]}
<1>8. bad = {}
  <2> SUFFICES ASSUME bad # {} PROVE FALSE
    OBVIOUS
  <2>1. bad \subseteq FiniteSubsetsOf(1..n)
    <3>1. IsFiniteSet(1..n)
      BY FS_Interval
    <3> QED
      BY <3>1, FS_Subset DEF FiniteSubsetsOf
  <2>2. PICK s \in bad : \A t \in bad : <<t, s>> \notin StrictSubsetOrdering(1..n)
    <3> HIDE DEF bad
    <3> QED
      BY <2>1, FS_StrictSubsetOrderingWellFounded, WFMin
  <2>3. s # {}
    BY <1>3, <1>7 DEF Adds
  <2>4. PICK x \in s : x = CHOOSE y \in s : TRUE
    BY <2>3
  <2>5. s \ {x} \notin bad
    BY <2>2 DEF StrictSubsetOrdering
  <2>6. Iter[s] = fun[x] + Iter[s \ {x}]
    BY <1>7, <2>3, <2>4
  <2>7. f[s] = fun[x] + f[s \ {x}]
    BY <1>3 DEF Adds
  <2> QED
    BY <2>5, <2>6, <2>7
<1>9. PICK h : h = [m \in 0..n |-> f[1..m]]
  OBVIOUS
<1>10. h \in [0..n -> Int] /\ h[0] = 0
  <2>1. 1..0 = {} /\ \A m \in 0..n : 1..m \in SUBSET (1..n)
    OBVIOUS
  <2> QED
    BY <1>3, <1>9, <2>1 DEF Adds
<1>11. ASSUME NEW m \in 1..n PROVE h[m] = h[m - 1] + fun[m]
  <2>1. /\ 1..m \in SUBSET (1..n) /\ m \in 1..m /\ (1..m) \ {m} = 1..(m - 1)
        /\ m \in 0..n /\ m - 1 \in 0..n
    OBVIOUS
  <2>2. f[1..m] = fun[m] + f[1..(m - 1)]
    <3>1. PICK s \in SUBSET (1..n) : s = 1..m
      BY <2>1
    <3>2. m \in s /\ s \ {m} = 1..(m - 1)
      BY <2>1, <3>1
    <3>3. f[s] = fun[m] + f[s \ {m}]
      BY <1>3, <3>2 DEF Adds
    <3> QED
      BY <3>1, <3>2, <3>3
  <2> QED
    BY <1>9, <1>10, <2>1, <2>2
<1>12. h[n] = Iter[1..n]
  BY <1>8, <1>9
<1> QED
  BY <1>4, <1>10, <1>11, <1>12 DEF Sums

\* One more value of a sum.
LEMMA SumNext ==
    ASSUME NEW n \in Nat, NEW fun \in [1..n -> Int], NEW h, Sums(h, fun, n), NEW m \in 1..n
    PROVE  h[m - 1] \in Int /\ fun[m] \in Int /\ h[m] = h[m - 1] + fun[m]
<1>1. m - 1 \in 0..n /\ m \in 0..n
  OBVIOUS
<1> QED
  BY <1>1 DEF Sums

\* The sum of two sums is that of the sums of their terms.
LEMMA SumAdds ==
    ASSUME NEW n \in Nat, NEW a \in [1..n -> Int], NEW b \in [1..n -> Int],
           NEW both \in [1..n -> Int], \A i \in 1..n : both[i] = a[i] + b[i]
    PROVE  SumFunction(both) = SumFunction(a) + SumFunction(b)
<1>1. both \in [1..n -> Int]
  OBVIOUS
<1>2. PICK p : Sums(p, a, n) /\ p[n] = SumFunction(a)
  BY SumSteps
<1>3. PICK q : Sums(q, b, n) /\ q[n] = SumFunction(b)
  BY SumSteps
<1>4. PICK r : Sums(r, both, n) /\ r[n] = SumFunction(both)
  BY <1>1, SumSteps
<1>9. \A m \in 1..n : \E i, j, k, l, t, u \in Int :
          /\ p[m - 1] = i /\ a[m] = j /\ p[m] = i + j
          /\ q[m - 1] = k /\ b[m] = l /\ q[m] = k + l
          /\ r[m - 1] = t /\ both[m] = u /\ r[m] = t + u
  <2> SUFFICES ASSUME NEW m \in 1..n
               PROVE  \E i, j, k, l, t, u \in Int :
                         /\ p[m - 1] = i /\ a[m] = j /\ p[m] = i + j
                         /\ q[m - 1] = k /\ b[m] = l /\ q[m] = k + l
                         /\ r[m - 1] = t /\ both[m] = u /\ r[m] = t + u
    OBVIOUS
  <2>1. p[m - 1] \in Int /\ a[m] \in Int /\ p[m] = p[m - 1] + a[m]
    BY <1>2, SumNext
  <2>2. q[m - 1] \in Int /\ b[m] \in Int /\ q[m] = q[m - 1] + b[m]
    BY <1>3, SumNext
  <2>3. r[m - 1] \in Int /\ both[m] \in Int /\ r[m] = r[m - 1] + both[m]
    BY <1>1, <1>4, SumNext
  <2> QED
    BY <2>1, <2>2, <2>3
<1> DEFINE P == {m \in 0..n : r[m] = p[m] + q[m]}
<1>5. 0 \in P
  BY <1>2, <1>3, <1>4 DEF Sums
<1>6. ASSUME NEW m \in 1..n, m - 1 \in P PROVE m \in P
  <2>1. PICK i, j, k, l, t, u \in Int :
          /\ p[m - 1] = i /\ a[m] = j /\ p[m] = i + j
          /\ q[m - 1] = k /\ b[m] = l /\ q[m] = k + l
          /\ r[m - 1] = t /\ both[m] = u /\ r[m] = t + u
    BY <1>9
  <2>4. t = i + k
    BY <1>6, <2>1
  <2>5. u = j + l
    BY <2>1
  <2>6. r[m] = p[m] + q[m]
    BY <2>1, <2>4, <2>5
  <2> QED
    BY <2>6
<1>7. 0..n \subseteq P
  <2> HIDE DEF P
  <2> QED
    BY <1>5, <1>6, CountUp
<1>8. n \in 0..n
  OBVIOUS
<1> QED
  BY <1>1, <1>2, <1>3, <1>4, <1>7, <1>8

\* A sum is a number, and no more than the sum of numbers that are not less.
LEMMA SumProperties ==
    ASSUME NEW n \in Nat, NEW fun \in [1..n -> Int], NEW more \in [1..n -> Int],
           \A i \in 1..n : fun[i] <= more[i]
    PROVE  /\ SumFunction(fun) \in Int
           /\ SumFunction(fun) <= SumFunction(more)
           /\ n = 0 => SumFunction(fun) = 0
<1>1. PICK h : Sums(h, fun, n) /\ h[n] = SumFunction(fun)
  BY SumSteps
<1>2. PICK g : Sums(g, more, n) /\ g[n] = SumFunction(more)
  BY SumSteps
<1> DEFINE P == {m \in 0..n : h[m] <= g[m]}
<1>3. 0 \in P
  BY <1>1, <1>2 DEF Sums
<1>4. ASSUME NEW m \in 1..n, m - 1 \in P PROVE m \in P
  <2>1. m - 1 \in 0..n /\ m \in 0..n /\ fun[m] <= more[m] /\ fun[m] \in Int /\ more[m] \in Int
    OBVIOUS
  <2>2. h[m - 1] \in Int /\ h[m] = h[m - 1] + fun[m]
    BY <1>1, <2>1 DEF Sums
  <2>3. g[m - 1] \in Int /\ g[m] = g[m - 1] + more[m]
    BY <1>2, <2>1 DEF Sums
  <2>4. h[m - 1] <= g[m - 1]
    BY <1>4
  <2> QED
    BY <2>1, <2>2, <2>3, <2>4
<1>5. 0..n \subseteq P
  <2> HIDE DEF P
  <2> QED
    BY <1>3, <1>4, CountUp
<1>6. n \in 0..n
  OBVIOUS
<1>7. h[n] <= g[n]
  BY <1>5, <1>6
<1>8. h[n] \in Int /\ (n = 0 => h[n] = 0)
  BY <1>1, <1>6 DEF Sums
<1> QED
  BY <1>1, <1>2, <1>7, <1>8

\* A sum of positive numbers is positive.
LEMMA SumPositive ==
    ASSUME NEW n \in Nat, NEW fun \in [1..n -> Nat \ {0}]
    PROVE  SumFunction(fun) >= n
<1>1. fun \in [1..n -> Int]
  OBVIOUS
<1>2. PICK h : Sums(h, fun, n) /\ h[n] = SumFunction(fun)
  BY <1>1, SumSteps
<1> DEFINE P == {m \in 0..n : h[m] >= m}
<1>3. 0 \in P
  BY <1>2 DEF Sums
<1>4. ASSUME NEW m \in 1..n, m - 1 \in P PROVE m \in P
  <2>1. m - 1 \in 0..n /\ m \in 0..n /\ fun[m] >= 1 /\ fun[m] \in Int
    OBVIOUS
  <2>2. h[m - 1] \in Int /\ h[m] = h[m - 1] + fun[m]
    BY <1>2, <2>1 DEF Sums
  <2>3. h[m - 1] >= m - 1
    BY <1>4
  <2> QED
    BY <2>1, <2>2, <2>3
<1>5. 0..n \subseteq P
  <2> HIDE DEF P
  <2> QED
    BY <1>3, <1>4, CountUp
<1>6. n \in 0..n
  OBVIOUS
<1> QED
  BY <1>2, <1>5, <1>6

-----------------------------------------------------------------------------
(* Recursive functions and orders *)

\* The values of f before some number.
UpTo(f, m) == [d \in 1..m |-> f[d]]

\* Step[c] says what a value of D is made of, given the c - 1 values before it.
StepsUp(Step, n, D) == \A c \in 1..n : Step[c] \in [[1..(c - 1) -> D] -> D]

\* All values of f are made that way.
FollowsSteps(f, Step, n, D) ==
    f \in [1..n -> D] /\ \A c \in 1..n : f[c] = Step[c][UpTo(f, c - 1)]

\* A function on 1..n can be defined by saying what each value is made of those
\* before it.
LEMMA RecursionExists ==
    ASSUME NEW n \in Nat, NEW D, NEW Step, StepsUp(Step, n, D)
    PROVE  \E f : FollowsSteps(f, Step, n, D)
<1> USE DEF StepsUp, FollowsSteps
<1> DEFINE Follows(f, m) ==
               /\ f \in [1..m -> D]
               /\ \A c \in 1..m : f[c] = Step[c][UpTo(f, c - 1)]
           P == {m \in 0..n : \E f : Follows(f, m)}
<1>1. 0 \in P
  <2>1. PICK f : f = [c \in 1..0 |-> c]
    OBVIOUS
  <2>2. Follows(f, 0)
    BY <2>1
  <2> HIDE DEF Follows
  <2> QED
    BY <2>2
<1>2. ASSUME NEW m \in 1..n, m - 1 \in P PROVE m \in P
  <2>1. PICK g : Follows(g, m - 1)
    BY <1>2
  <2>2. g \in [1..(m - 1) -> D] /\ Step[m][g] \in D
    BY <2>1
  <2>3. PICK f : f = [c \in 1..m |-> IF c = m THEN Step[m][g] ELSE g[c]]
    OBVIOUS
  <2>4. f \in [1..m -> D]
    BY <2>2, <2>3
  <2>5. ASSUME NEW c \in 1..m PROVE f[c] = Step[c][UpTo(f, c - 1)]
    <3>1. UpTo(f, c - 1) = UpTo(g, c - 1)
      BY <2>3 DEF UpTo
    <3>2. CASE c = m
      <4>1. UpTo(g, c - 1) = g
        BY <2>2, <3>2 DEF UpTo
      <4> QED
        BY <2>3, <3>1, <3>2, <4>1
    <3>3. CASE c # m
      <4>1. c \in 1..(m - 1) /\ f[c] = g[c]
        BY <2>3, <3>3
      <4>2. g[c] = Step[c][UpTo(g, c - 1)]
        BY <2>1, <4>1
      <4> QED
        BY <3>1, <4>1, <4>2
    <3> QED
      BY <3>2, <3>3
  <2>6. Follows(f, m)
    BY <2>4, <2>5
  <2> HIDE DEF Follows
  <2> QED
    BY <2>6
<1>3. 0..n \subseteq P
  <2> HIDE DEF P
  <2> QED
    BY <1>1, <1>2, CountUp
<1>4. n \in P
  <2> HIDE DEF P
  <2> QED
    BY <1>3
<1> QED
  BY <1>4

\* before is a strict order of the elements of S.
Orders(before, S) ==
    /\ \A x, y \in S : <<x, y>> \in before => <<y, x>> \notin before
    /\ \A x, y, z \in S : <<x, y>> \in before /\ <<y, z>> \in before => <<x, z>> \in before
    /\ \A x, y \in S : x # y => <<x, y>> \in before \/ <<y, x>> \in before

\* InOrder goes through all elements, and through each before those that come
\* after it.
LEMMA InOrderProperties ==
    ASSUME NEW S, IsFiniteSet(S), NEW before, Orders(before, S)
    PROVE  /\ Cardinality(S) \in Nat
           /\ InOrder(S, before) \in [1..Cardinality(S) -> S]
           /\ \A x \in S : \E k \in 1..Cardinality(S) : InOrder(S, before)[k] = x
           /\ \A k, l \in 1..Cardinality(S) :
                 k < l => <<InOrder(S, before)[k], InOrder(S, before)[l]>> \in before
<1>1. PICK n \in Nat : n = Cardinality(S)
  BY FS_CardinalityType
<1> DEFINE Below(x) == {y \in S : <<y, x>> \in before}
<1>2. \A x \in S : IsFiniteSet(Below(x)) /\ Cardinality(Below(x)) \in Nat
  <2> SUFFICES ASSUME NEW x \in S PROVE IsFiniteSet(Below(x)) /\ Cardinality(Below(x)) \in Nat
    OBVIOUS
  <2>1. Below(x) \in SUBSET S
    OBVIOUS
  <2> HIDE DEF Below
  <2>2. IsFiniteSet(Below(x))
    BY <2>1, FS_Subset
  <2> QED
    BY <2>2, FS_CardinalityType
<1>3. \A x \in S : Cardinality(Below(x)) \in 0..(n - 1)
  <2> SUFFICES ASSUME NEW x \in S PROVE Cardinality(Below(x)) < n
    BY <1>2
  <2>1. Below(x) \in SUBSET S /\ Below(x) # S
    BY DEF Orders
  <2> HIDE DEF Below
  <2>2. Cardinality(Below(x)) <= Cardinality(S) /\ Cardinality(S) # Cardinality(Below(x))
    BY <2>1, FS_Subset
  <2> QED
    BY <1>1, <1>2, <2>2
<1>4. \A x, y \in S : <<x, y>> \in before => Cardinality(Below(x)) < Cardinality(Below(y))
  <2> SUFFICES ASSUME NEW x \in S, NEW y \in S, <<x, y>> \in before
               PROVE  Cardinality(Below(x)) < Cardinality(Below(y))
    OBVIOUS
  <2>1. Below(x) \in SUBSET Below(y) /\ Below(x) # Below(y)
    BY DEF Orders
  <2>2. IsFiniteSet(Below(y))
    BY <1>2
  <2>3. Cardinality(Below(x)) \in Nat /\ Cardinality(Below(y)) \in Nat
    BY <1>2
  <2> HIDE DEF Below
  <2>4. Cardinality(Below(x)) <= Cardinality(Below(y)) /\ Cardinality(Below(y)) # Cardinality(Below(x))
    BY <2>1, <2>2, FS_Subset
  <2> QED
    BY <2>3, <2>4
<1>5. PICK place : place = [x \in S |-> Cardinality(Below(x)) + 1]
  OBVIOUS
<1> HIDE DEF Below
<1>6. place \in [S -> 1..n]
  BY <1>3, <1>5
<1>7. \A x, y \in S : <<x, y>> \in before => place[x] < place[y]
  BY <1>2, <1>4, <1>5
<1>8. \A x, y \in S : x # y => place[x] # place[y]
  <2> SUFFICES ASSUME NEW x \in S, NEW y \in S, x # y PROVE place[x] # place[y]
    OBVIOUS
  <2>1. <<x, y>> \in before \/ <<y, x>> \in before
    BY DEF Orders
  <2>2. place[x] \in Int /\ place[y] \in Int
    BY <1>6
  <2>3. place[x] < place[y] \/ place[y] < place[x]
    BY <1>7, <2>1
  <2> QED
    BY <2>2, <2>3
<1>9. \A k \in 1..n : \E x \in S : place[x] = k
  <2>1. place \in Injection(S, 1..n)
    BY <1>6, <1>8 DEF Injection, IsInjective
  <2>2. IsFiniteSet(1..n) /\ Cardinality(1..n) = n
    <3>1. 1 \in Int /\ n \in Int
      OBVIOUS
    <3>2. IsFiniteSet(1..n) /\ Cardinality(1..n) = IF 1 > n THEN 0 ELSE n - 1 + 1
      BY <3>1, FS_Interval
    <3> QED
      BY <3>2
  <2>3. place \in Surjection(S, 1..n)
    BY <1>1, <2>1, <2>2, FS_Injection
  <2> QED
    BY <2>3 DEF Surjection
<1>10. PICK order : order = [k \in 1..n |-> CHOOSE x \in S : place[x] = k]
  OBVIOUS
<1>11. \A k \in 1..n : order[k] \in S /\ place[order[k]] = k
  BY <1>9, <1>10
<1>12. InOrder(S, before) = order
  <2>1. InOrder(S, before) = [k \in 1..n |-> CHOOSE x \in S : Cardinality(Below(x)) = k - 1]
    BY <1>1 DEF InOrder, Below
  <2>2. \A k \in 1..n : \A x \in S : Cardinality(Below(x)) = k - 1 <=> place[x] = k
    BY <1>2, <1>5
  <2>3. \A k \in 1..n : (CHOOSE x \in S : Cardinality(Below(x)) = k - 1) = (CHOOSE x \in S : place[x] = k)
    BY <2>2
  <2> QED
    BY <1>10, <2>1, <2>3
<1>13. order \in [1..n -> S]
  BY <1>10, <1>11
<1>14. \A x \in S : \E k \in 1..n : order[k] = x
  <2> SUFFICES ASSUME NEW x \in S PROVE \E k \in 1..n : order[k] = x
    OBVIOUS
  <2>1. place[x] \in 1..n
    BY <1>6
  <2> QED
    BY <1>8, <1>11, <2>1
<1>15. \A k, l \in 1..n : k < l => <<order[k], order[l]>> \in before
  <2> SUFFICES ASSUME NEW k \in 1..n, NEW l \in 1..n, k < l PROVE <<order[k], order[l]>> \in before
    OBVIOUS
  <2>1. order[k] \in S /\ order[l] \in S /\ place[order[k]] = k /\ place[order[l]] = l
    BY <1>11
  <2>2. order[k] # order[l]
    BY <2>1
  <2>3. <<order[l], order[k]>> \notin before
    BY <1>7, <2>1
  <2> QED
    BY <2>1, <2>2, <2>3 DEF Orders
<1> QED
  BY <1>1, <1>12, <1>13, <1>14, <1>15
=============================================================================
