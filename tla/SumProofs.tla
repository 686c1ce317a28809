----------------------------- MODULE SumProofs -----------------------------
(***************************************************************************)
(* Induction, and with it what SumOver computes for every finite set.      *)
(*                                                                         *)
(* The induction theorems of the library have a predicate as parameter,    *)
(* which the provers cannot instantiate.  That the strict subsets of a     *)
(* finite set are well-founded has none: every induction here looks at a   *)
(* minimal member of the set of counterexamples.                           *)
(***************************************************************************)
EXTENDS Sums, Sequences, FiniteSetTheorems, TLAPS

\* A set of subsets of a finite set has a minimal member.
LEMMA MinimalSubset ==
    ASSUME NEW S, IsFiniteSet(S), NEW B, B \subseteq SUBSET S, B # {}
    PROVE  \E T \in B : \A U \in B : ~ (U \subseteq T /\ U # T)
<1>1. FiniteSubsetsOf(S) = SUBSET S BY FS_FiniteSubsetsOfFinite
<1>2. IsWellFoundedOn(StrictSubsetOrdering(S), SUBSET S)
  BY <1>1, FS_StrictSubsetOrderingWellFounded
<1>3. PICK T \in B : \A U \in B : ~ (<<U, T>> \in StrictSubsetOrdering(S))
  BY <1>2, WFMin
<1> QED BY <1>3 DEF StrictSubsetOrdering

\* Induction over the natural numbers, for a set instead of a predicate.
LEMMA NatSetInduction ==
    ASSUME NEW T, 0 \in T, \A n \in Nat : n \in T => n + 1 \in T
    PROVE  \A n \in Nat : n \in T
<1> SUFFICES ASSUME NEW m \in Nat, m \notin T PROVE FALSE OBVIOUS
<1> DEFINE M == 0 .. m
           B == {I \in SUBSET M : \E k \in 0 .. m : k \notin T /\ I = 0 .. k}
<1>1. IsFiniteSet(M) BY FS_Interval
<1>2. B \subseteq SUBSET M /\ B # {}
  <2>1. 0 .. m \in B OBVIOUS
  <2> QED BY <2>1
<1>3. \E I \in B : \A U \in B : ~ (U \subseteq I /\ U # I)
  <2> HIDE DEF B, M
  <2> QED BY <1>1, <1>2, MinimalSubset
<1>4. PICK I \in B : \A U \in B : ~ (U \subseteq I /\ U # I) BY <1>3
<1>5. PICK k \in 0 .. m : k \notin T /\ I = 0 .. k BY <1>4
<1>6. k # 0 /\ k - 1 \in Nat /\ k - 1 \in 0 .. m /\ (k - 1) + 1 = k BY <1>5
<1>7. k - 1 \notin T BY <1>5, <1>6
<1>8. 0 .. (k - 1) \in B BY <1>6, <1>7
<1>9. k \in I /\ k \notin 0 .. (k - 1) /\ 0 .. (k - 1) \subseteq I BY <1>5
<1> QED BY <1>4, <1>8, <1>9

-----------------------------------------------------------------------------
(* The recursive function behind SumOver.                                  *)

Pick(s) == CHOOSE x \in s : TRUE

\* One step of the recursion.
Step(f, g, s) == IF s = {} THEN 0 ELSE f[Pick(s)] + g[s \ {Pick(s)}]

\* g solves the recursion on the subsets of S.
Solves(f, g, S) == \A s \in SUBSET S : g[s] = Step(f, g, s)

\* A non-empty set of indices has a largest one.
LEMMA MaxIndex ==
    ASSUME NEW n \in Nat, NEW S \in SUBSET (1 .. n), S # {}
    PROVE  Max(S) \in S /\ \A y \in S : y <= Max(S)
<1> DEFINE top(s) == \E x \in s : \A y \in s : y <= x
           T == {m \in Nat : \A s \in SUBSET (1 .. m) : s # {} => top(s)}
<1>1. 0 \in T
  <2>1. \A s \in SUBSET (1 .. 0) : s = {} OBVIOUS
  <2> QED BY <2>1
<1>2. ASSUME NEW m \in Nat, m \in T PROVE m + 1 \in T
  <2> SUFFICES ASSUME NEW s \in SUBSET (1 .. m + 1), s # {} PROVE top(s)
    OBVIOUS
  <2>1. CASE m + 1 \in s
    BY <2>1
  <2>2. CASE m + 1 \notin s
    <3>1. s \in SUBSET (1 .. m)
      BY <2>2
    <3> QED BY <1>2, <3>1
  <2> QED BY <2>1, <2>2
<1>3. \A m \in Nat : m \in T
  <2> HIDE DEF T
  <2> QED BY <1>1, <1>2, NatSetInduction
<1>4. PICK x \in S : \A y \in S : y <= x
  BY <1>3
<1> QED BY <1>4 DEF Max

\* A non-empty finite set without the picked element is smaller by one.
LEMMA PickSmaller ==
    ASSUME NEW S, IsFiniteSet(S), NEW s \in SUBSET S, s # {}
    PROVE  /\ Pick(s) \in s /\ Pick(s) \in S /\ s \ {Pick(s)} \in SUBSET S
           /\ Cardinality(s) \in Nat /\ Cardinality(s \ {Pick(s)}) = Cardinality(s) - 1
<1>1. Pick(s) \in s BY DEF Pick
<1>2. IsFiniteSet(s) BY FS_Subset
<1> QED BY <1>1, <1>2, FS_CardinalityType, FS_RemoveElement

\* The recursion has a solution.
LEMMA SolutionExists ==
    ASSUME NEW S, IsFiniteSet(S), NEW f, \A x \in S : f[x] \in Int
    PROVE  \E g \in [SUBSET S -> Int] : Solves(f, g, S)
<1> DEFINE upTo(g, n) == \A s \in SUBSET S : Cardinality(s) <= n => g[s] = Step(f, g, s)
           T == {n \in Nat : \E g \in [SUBSET S -> Int] : upTo(g, n)}
<1>1. \A s \in SUBSET S : IsFiniteSet(s) /\ Cardinality(s) \in Nat
  BY FS_Subset, FS_CardinalityType
<1>2. 0 \in T
  <2> DEFINE g == [s \in SUBSET S |-> 0]
  <2>1. g \in [SUBSET S -> Int] OBVIOUS
  <2>2. upTo(g, 0)
    <3> SUFFICES ASSUME NEW s \in SUBSET S, Cardinality(s) <= 0 PROVE g[s] = Step(f, g, s)
      OBVIOUS
    <3>1. s = {} BY <1>1, FS_EmptySet
    <3> QED BY <3>1 DEF Step
  <2> QED BY <2>1, <2>2
<1>3. ASSUME NEW n \in Nat, n \in T PROVE n + 1 \in T
  <2>1. PICK g \in [SUBSET S -> Int] : upTo(g, n) BY <1>3
  <2> DEFINE h == [s \in SUBSET S |-> IF Cardinality(s) <= n THEN g[s] ELSE Step(f, g, s)]
  <2>2. ASSUME NEW s \in SUBSET S PROVE Step(f, g, s) \in Int
    <3>1. CASE s = {} BY <3>1 DEF Step
    <3>2. CASE s # {}
      <4>1. Pick(s) \in S /\ s \ {Pick(s)} \in SUBSET S BY <3>2, PickSmaller
      <4>2. f[Pick(s)] \in Int /\ g[s \ {Pick(s)}] \in Int BY <4>1
      <4> QED BY <3>2, <4>2 DEF Step
    <3> QED BY <3>1, <3>2
  <2>3. h \in [SUBSET S -> Int] BY <2>2
  <2>4. upTo(h, n + 1)
    <3> SUFFICES ASSUME NEW s \in SUBSET S, Cardinality(s) <= n + 1 PROVE h[s] = Step(f, h, s)
      OBVIOUS
    <3>1. h[s] = Step(f, g, s) BY <2>1
    <3>2. s # {} => h[s \ {Pick(s)}] = g[s \ {Pick(s)}]
      BY <1>1, PickSmaller
    <3> QED BY <3>1, <3>2 DEF Step
  <2> HIDE DEF h, upTo
  <2>5. \E k \in [SUBSET S -> Int] : upTo(k, n + 1) BY <2>3, <2>4
  <2> QED BY <2>5
<1>4. \A n \in Nat : n \in T
  <2> HIDE DEF T
  <2> QED BY <1>2, <1>3, NatSetInduction
<1>5. Cardinality(S) \in T BY <1>1, <1>4
<1>6. PICK g \in [SUBSET S -> Int] : upTo(g, Cardinality(S)) BY <1>5
<1>7. \A s \in SUBSET S : Cardinality(s) <= Cardinality(S) BY FS_Subset
<1> QED BY <1>6, <1>7 DEF Solves

\* ... and only one.
LEMMA SolutionUnique ==
    ASSUME NEW S, IsFiniteSet(S), NEW f, NEW g, \A x \in S : f[x] = g[x],
           NEW h, NEW k, Solves(f, h, S), Solves(g, k, S)
    PROVE  \A s \in SUBSET S : h[s] = k[s]
<1> DEFINE Bad == {s \in SUBSET S : h[s] # k[s]}
<1> SUFFICES ASSUME Bad # {} PROVE FALSE OBVIOUS
<1>1. \E s \in Bad : \A U \in Bad : ~ (U \subseteq s /\ U # s)
  <2>1. Bad \subseteq SUBSET S OBVIOUS
  <2> HIDE DEF Bad
  <2> QED BY <2>1, MinimalSubset
<1>2. PICK s \in Bad : \A U \in Bad : ~ (U \subseteq s /\ U # s) BY <1>1
<1>3. s # {} BY <1>2 DEF Step, Solves
<1>4. Pick(s) \in s /\ Pick(s) \in S BY <1>2, <1>3, PickSmaller
<1>5. h[s \ {Pick(s)}] = k[s \ {Pick(s)}] BY <1>2, <1>4
<1> QED BY <1>2, <1>3, <1>4, <1>5 DEF Step, Solves

\* SumOver is the solution at S.
LEMMA SumSolution ==
    ASSUME NEW S, IsFiniteSet(S), NEW f, NEW g \in [SUBSET S -> Int], Solves(f, g, S)
    PROVE  SumOver(f, S) = g[S]
<1> DEFINE Eq(h) == h = [s \in SUBSET S |-> Step(f, h, s)]
           iter == CHOOSE h : Eq(h)
<1>1. SumOver(f, S) = iter[S]
  BY DEF SumOver, MapThenSumSet, MapThenFoldSet, Step, Pick
<1>2. Eq(g) BY DEF Solves
<1>3. Eq(iter)
  <2> HIDE DEF Eq
  <2> QED BY <1>2
<1>4. Solves(f, iter, S)
  <2> HIDE DEF iter
  <2> QED BY <1>3, Zenon DEF Solves
<1> HIDE DEF iter
<1> QED BY <1>1, <1>4, SolutionUnique
-----------------------------------------------------------------------------
(* What SumOver computes.                                                  *)

\* The empty sum.
LEMMA SumEmpty == ASSUME NEW f PROVE SumOver(f, {}) = 0
<1>1. IsFiniteSet({}) BY FS_EmptySet
<1>2. PICK g \in [SUBSET {} -> Int] : Solves(f, g, {}) BY <1>1, SolutionExists
<1>3. SumOver(f, {}) = g[{}] BY <1>1, <1>2, SumSolution
<1> QED BY <1>2, <1>3 DEF Solves, Step

\* Only the values on S matter.
LEMMA SumCong ==
    ASSUME NEW S, IsFiniteSet(S), NEW f, NEW g,
           \A x \in S : f[x] \in Int /\ f[x] = g[x]
    PROVE  SumOver(f, S) = SumOver(g, S)
<1>1. PICK h \in [SUBSET S -> Int] : Solves(f, h, S) BY SolutionExists
<1>2. PICK k \in [SUBSET S -> Int] : Solves(g, k, S) BY SolutionExists
<1>3. SumOver(f, S) = h[S] /\ SumOver(g, S) = k[S] BY <1>1, <1>2, SumSolution
<1>4. h[S] = k[S] BY <1>1, <1>2, SolutionUnique
<1> QED BY <1>3, <1>4

\* One function gives the sums over all subsets; it depends on no order.
Sums(f, g, S) == Solves(f, g, S) /\ \A T \in SUBSET S : SumOver(f, T) = g[T]

\* A sum over subsets is a loop over the whole set.
LEMMA SumSubsets ==
    ASSUME NEW S, IsFiniteSet(S), NEW f, \A x \in S : f[x] \in Int
    PROVE  \E g \in [SUBSET S -> Int] : Sums(f, g, S)
<1>1. PICK g \in [SUBSET S -> Int] : Solves(f, g, S) BY SolutionExists
<1>2. ASSUME NEW T \in SUBSET S PROVE SumOver(f, T) = g[T]
  <2>1. IsFiniteSet(T) BY FS_Subset
  <2>2. PICK h \in [SUBSET T -> Int] : Solves(f, h, T)
    <3>1. \A x \in T : f[x] \in Int OBVIOUS
    <3> QED BY <2>1, <3>1, SolutionExists
  <2>3. Solves(f, g, T) BY <1>1 DEF Solves
  <2>4. h[T] = g[T] BY <2>1, <2>2, <2>3, SolutionUnique
  <2> QED BY <2>1, <2>2, <2>4, SumSolution
<1> QED BY <1>1, <1>2 DEF Sums

\* Any element may be taken out first.
LEMMA SumRemove ==
    ASSUME NEW S, IsFiniteSet(S), NEW f, \A x \in S : f[x] \in Int, NEW y \in S
    PROVE  /\ SumOver(f, S) \in Int /\ SumOver(f, S \ {y}) \in Int
           /\ SumOver(f, S) = f[y] + SumOver(f, S \ {y})
<1>1. PICK g \in [SUBSET S -> Int] : Sums(f, g, S) BY SumSubsets
<1> DEFINE Bad == {s \in SUBSET S : \E x \in s : g[s] # f[x] + g[s \ {x}]}
<1>2. Bad = {}
  <2> SUFFICES ASSUME Bad # {} PROVE FALSE OBVIOUS
  <2>1. \E s \in Bad : \A U \in Bad : ~ (U \subseteq s /\ U # s)
    <3>1. Bad \subseteq SUBSET S OBVIOUS
    <3> HIDE DEF Bad
    <3> QED BY <3>1, MinimalSubset
  <2>2. PICK s \in Bad : \A U \in Bad : ~ (U \subseteq s /\ U # s) BY <2>1
  <2>3. PICK x \in s : g[s] # f[x] + g[s \ {x}] BY <2>2
  <2> DEFINE p == Pick(s)
  <2>4. p \in s /\ p \in S /\ x \in S /\ s \in SUBSET S
    BY <2>2, <2>3, PickSmaller
  <2>5. g[s] = f[p] + g[s \ {p}] BY <1>1, <2>3, <2>4 DEF Sums, Solves, Step
  <2> HIDE DEF p
  <2>6. p # x BY <2>3, <2>5
  <2>7. s \ {p} \notin Bad /\ s \ {x} \notin Bad BY <2>2, <2>3, <2>4
  <2>8. g[s \ {p}] = f[x] + g[(s \ {p}) \ {x}] BY <2>4, <2>6, <2>7
  <2>9. g[s \ {x}] = f[p] + g[(s \ {x}) \ {p}] BY <2>4, <2>6, <2>7
  <2>10. (s \ {p}) \ {x} = (s \ {x}) \ {p} OBVIOUS
  <2>11. f[x] \in Int /\ f[p] \in Int /\ g[(s \ {p}) \ {x}] \in Int BY <2>4
  <2> DEFINE u == g[(s \ {p}) \ {x}]
  <2>12. g[s] = f[p] + (f[x] + u) BY <2>5, <2>8
  <2>13. f[x] + g[s \ {x}] = f[x] + (f[p] + u) BY <2>9, <2>10
  <2> HIDE DEF u
  <2>14. u \in Int BY <2>11 DEF u
  <2> QED BY ONLY <2>3, <2>11, <2>12, <2>13, <2>14
<1>3. g[S] = f[y] + g[S \ {y}] BY <1>2
<1>4. S \in SUBSET S /\ S \ {y} \in SUBSET S OBVIOUS
<1> QED BY <1>1, <1>3, <1>4 DEF Sums

\* A sum of integers is an integer, a sum of naturals a natural.
LEMMA SumType ==
    ASSUME NEW S, IsFiniteSet(S), NEW f, \A x \in S : f[x] \in Int
    PROVE  /\ SumOver(f, S) \in Int
           /\ (\A x \in S : f[x] \in Nat) => SumOver(f, S) \in Nat
<1>1. PICK g \in [SUBSET S -> Int] : Sums(f, g, S) BY SumSubsets
<1>2. ASSUME \A x \in S : f[x] \in Nat PROVE g[S] \in Nat
  <2> DEFINE Bad == {s \in SUBSET S : g[s] \notin Nat}
  <2> SUFFICES ASSUME Bad # {} PROVE FALSE OBVIOUS
  <2>1. \E s \in Bad : \A U \in Bad : ~ (U \subseteq s /\ U # s)
    <3>1. Bad \subseteq SUBSET S OBVIOUS
    <3> HIDE DEF Bad
    <3> QED BY <3>1, MinimalSubset
  <2>2. PICK s \in Bad : \A U \in Bad : ~ (U \subseteq s /\ U # s) BY <2>1
  <2>3. s # {}
    <3>1. g[{}] = 0 BY <1>1 DEF Sums, Solves, Step
    <3>2. g[s] \notin Nat BY <2>2
    <3>3. g[{}] \in Nat BY <3>1
    <3> QED BY <3>2, <3>3, Zenon
  <2>4. Pick(s) \in s /\ Pick(s) \in S BY <2>2, <2>3, PickSmaller
  <2>5. g[s \ {Pick(s)}] \in Nat BY <2>2, <2>4
  <2>6. g[s] = f[Pick(s)] + g[s \ {Pick(s)}] BY <1>1, <2>2, <2>3 DEF Sums, Solves, Step
  <2> QED BY <1>2, <2>2, <2>4, <2>5, <2>6
<1>3. S \in SUBSET S OBVIOUS
<1> QED BY <1>1, <1>2, <1>3 DEF Sums

\* One more element.
LEMMA SumAdd ==
    ASSUME NEW S, IsFiniteSet(S), NEW y, y \notin S, NEW f,
           \A x \in S \cup {y} : f[x] \in Int
    PROVE  /\ IsFiniteSet(S \cup {y})
           /\ SumOver(f, S \cup {y}) = f[y] + SumOver(f, S)
<1>1. IsFiniteSet(S \cup {y}) BY FS_AddElement
<1>2. (S \cup {y}) \ {y} = S OBVIOUS
<1>3. y \in S \cup {y} OBVIOUS
<1> QED BY <1>1, <1>2, <1>3, SumRemove

\* The sum over two disjoint sets.
LEMMA SumDisjoint ==
    ASSUME NEW A, IsFiniteSet(A), NEW B, IsFiniteSet(B), A \cap B = {},
           NEW f, \A x \in A \cup B : f[x] \in Int
    PROVE  SumOver(f, A \cup B) = SumOver(f, A) + SumOver(f, B)
<1> DEFINE Bad == {T \in SUBSET B : SumOver(f, A \cup T) # SumOver(f, A) + SumOver(f, T)}
<1>1. ASSUME Bad # {} PROVE FALSE
  <2>1. \E T \in Bad : \A U \in Bad : ~ (U \subseteq T /\ U # T)
    <3>1. Bad \subseteq SUBSET B OBVIOUS
    <3> HIDE DEF Bad
    <3> QED BY <1>1, <3>1, MinimalSubset
  <2>2. PICK T \in Bad : \A U \in Bad : ~ (U \subseteq T /\ U # T) BY <2>1
  <2>3. SumOver(f, A) \in Int BY SumType
  <2>4. T # {}
    <3>1. A \cup {} = A OBVIOUS
    <3>2. SumOver(f, A \cup {}) = SumOver(f, A) + SumOver(f, {}) BY <2>3, <3>1, SumEmpty
    <3> QED BY <2>2, <3>2
  <2>5. PICK y \in T : TRUE BY <2>4
  <2>6. T \ {y} \notin Bad BY <2>2, <2>5
  <2>7. T \in SUBSET B /\ IsFiniteSet(T) /\ IsFiniteSet(A \cup T) BY <2>2, FS_Subset, FS_Union
  <2>8. SumOver(f, A \cup (T \ {y})) = SumOver(f, A) + SumOver(f, T \ {y})
    BY <2>2, <2>6, <2>7
  <2>9. (A \cup T) \ {y} = A \cup (T \ {y}) BY <2>5, <2>7
  <2>10. /\ SumOver(f, T) = f[y] + SumOver(f, T \ {y})
         /\ SumOver(f, T \ {y}) \in Int
    <3>1. \A x \in T : f[x] \in Int BY <2>7
    <3> QED BY <2>5, <2>7, <3>1, SumRemove
  <2>11. SumOver(f, A \cup T) = f[y] + SumOver(f, (A \cup T) \ {y})
    <3>1. y \in A \cup T /\ \A x \in A \cup T : f[x] \in Int BY <2>5, <2>7
    <3> QED BY <2>7, <3>1, SumRemove
  <2>12. f[y] \in Int BY <2>5, <2>7
  <2>13. SumOver(f, A \cup T) = SumOver(f, A) + SumOver(f, T)
    <3> DEFINE a == SumOver(f, A)
               b == SumOver(f, T \ {y})
    <3>1. SumOver(f, A \cup T) = f[y] + (a + b) BY <2>8, <2>9, <2>11
    <3>2. SumOver(f, T) = f[y] + b BY <2>10
    <3>3. a \in Int /\ b \in Int BY <2>3, <2>10
    <3> HIDE DEF a, b
    <3>4. SumOver(f, A \cup T) = a + SumOver(f, T) BY ONLY <2>12, <3>1, <3>2, <3>3
    <3> QED BY <3>4 DEF a
  <2> QED BY <2>2, <2>13
<1> QED BY <1>1

\* A sum of zeros.
LEMMA SumZero ==
    ASSUME NEW S, IsFiniteSet(S), NEW f, \A x \in S : f[x] = 0
    PROVE  SumOver(f, S) = 0
<1>1. PICK g \in [SUBSET S -> Int] : Sums(f, g, S)
  <2>1. \A x \in S : f[x] \in Int OBVIOUS
  <2> QED BY <2>1, SumSubsets
<1> DEFINE Bad == {s \in SUBSET S : g[s] # 0}
<1>2. ASSUME Bad # {} PROVE FALSE
  <2>1. \E s \in Bad : \A U \in Bad : ~ (U \subseteq s /\ U # s)
    <3>1. Bad \subseteq SUBSET S OBVIOUS
    <3> HIDE DEF Bad
    <3> QED BY <1>2, <3>1, MinimalSubset
  <2>2. PICK s \in Bad : \A U \in Bad : ~ (U \subseteq s /\ U # s) BY <2>1
  <2>3. s # {}
    <3>1. g[{}] = 0 BY <1>1 DEF Sums, Solves, Step
    <3>2. g[s] # 0 BY <2>2
    <3> QED BY <3>1, <3>2, Zenon
  <2>4. Pick(s) \in s /\ Pick(s) \in S BY <2>2, <2>3, PickSmaller
  <2>5. g[s \ {Pick(s)}] = 0 BY <2>2, <2>4
  <2>6. g[s] = f[Pick(s)] + g[s \ {Pick(s)}] BY <1>1, <2>2, <2>3 DEF Sums, Solves, Step
  <2>7. g[s] = 0 BY <2>4, <2>5, <2>6
  <2> QED BY <2>2, <2>7
<1>3. S \in SUBSET S OBVIOUS
<1> QED BY <1>1, <1>2, <1>3 DEF Sums

\* What is zero may be left out.
LEMMA SumSupport ==
    ASSUME NEW B, IsFiniteSet(B), NEW A, A \subseteq B, NEW f, \A x \in B : f[x] \in Int,
           \A x \in B \ A : f[x] = 0
    PROVE  SumOver(f, A) = SumOver(f, B)
<1>1. IsFiniteSet(A) /\ IsFiniteSet(B \ A) BY FS_Subset
<1>2. A \cap (B \ A) = {} /\ A \cup (B \ A) = B OBVIOUS
<1>3. SumOver(f, B \ A) = 0 BY <1>1, SumZero
<1>4. SumOver(f, A) \in Int BY <1>1, SumType
<1>5. SumOver(f, A \cup (B \ A)) = SumOver(f, A) + SumOver(f, B \ A)
  BY <1>1, <1>2, SumDisjoint
<1>6. SumOver(f, B) = SumOver(f, A) + 0 BY <1>2, <1>3, <1>5
<1> QED BY ONLY <1>4, <1>6

\* One value changes.
LEMMA SumUpdate ==
    ASSUME NEW S, IsFiniteSet(S), NEW f, NEW g, NEW y \in S,
           \A x \in S : f[x] \in Int /\ g[x] \in Int, \A x \in S \ {y} : f[x] = g[x]
    PROVE  /\ SumOver(f, S) \in Int /\ SumOver(g, S) \in Int
           /\ SumOver(g, S) = SumOver(f, S) - f[y] + g[y]
<1>1. IsFiniteSet(S \ {y}) BY FS_Subset
<1>2. /\ SumOver(f, S) \in Int /\ SumOver(f, S \ {y}) \in Int
      /\ SumOver(f, S) = f[y] + SumOver(f, S \ {y})
  BY SumRemove
<1>3. /\ SumOver(g, S) \in Int /\ SumOver(g, S \ {y}) \in Int
      /\ SumOver(g, S) = g[y] + SumOver(g, S \ {y})
  BY SumRemove
<1>4. SumOver(f, S \ {y}) = SumOver(g, S \ {y}) BY <1>1, SumCong
<1>5. f[y] \in Int /\ g[y] \in Int OBVIOUS
<1> QED BY ONLY <1>2, <1>3, <1>4, <1>5

\* A member of a sum of naturals is at most the sum.
LEMMA SumMember ==
    ASSUME NEW S, IsFiniteSet(S), NEW f, \A x \in S : f[x] \in Nat, NEW y \in S
    PROVE  SumOver(f, S) \in Nat /\ f[y] <= SumOver(f, S)
<1>1. IsFiniteSet(S \ {y}) BY FS_Subset
<1>2. SumOver(f, S \ {y}) \in Nat /\ SumOver(f, S) \in Nat BY <1>1, SumType
<1>3. SumOver(f, S) = f[y] + SumOver(f, S \ {y}) BY SumRemove
<1> QED BY <1>2, <1>3

\* A sum grows with its terms.
LEMMA SumMono ==
    ASSUME NEW S, IsFiniteSet(S), NEW f, NEW g,
           \A x \in S : f[x] \in Int /\ g[x] \in Int /\ f[x] <= g[x]
    PROVE  SumOver(f, S) \in Int /\ SumOver(g, S) \in Int /\ SumOver(f, S) <= SumOver(g, S)
<1>1. PICK h \in [SUBSET S -> Int] : Sums(f, h, S) BY SumSubsets
<1>2. PICK k \in [SUBSET S -> Int] : Sums(g, k, S) BY SumSubsets
<1>3. h[S] <= k[S]
  <2> DEFINE Bad == {s \in SUBSET S : ~ (h[s] <= k[s])}
  <2> SUFFICES ASSUME Bad # {} PROVE FALSE OBVIOUS
  <2>1. \E s \in Bad : \A U \in Bad : ~ (U \subseteq s /\ U # s)
    <3>1. Bad \subseteq SUBSET S OBVIOUS
    <3> HIDE DEF Bad
    <3> QED BY <3>1, MinimalSubset
  <2>2. PICK s \in Bad : \A U \in Bad : ~ (U \subseteq s /\ U # s) BY <2>1
  <2>3. s # {}
    <3>1. h[{}] = 0 /\ k[{}] = 0 BY <1>1, <1>2 DEF Sums, Solves, Step
    <3>2. ~ (h[s] <= k[s]) BY <2>2
    <3>3. h[{}] <= k[{}] BY <3>1
    <3> QED BY <3>2, <3>3, Zenon
  <2> DEFINE p == Pick(s)
             u == s \ {p}
  <2>4. p \in s /\ p \in S BY <2>2, <2>3, PickSmaller
  <2>5. h[u] <= k[u] BY <2>2, <2>4
  <2>6. h[s] = f[p] + h[u] /\ k[s] = g[p] + k[u]
    BY <1>1, <1>2, <2>2, <2>3 DEF Sums, Solves, Step
  <2>7. h[u] \in Int /\ k[u] \in Int /\ ~ (h[s] <= k[s]) BY <2>2
  <2>8. f[p] \in Int /\ g[p] \in Int /\ f[p] <= g[p] BY <2>4
  <2> HIDE DEF p, u
  <2> QED BY <2>5, <2>6, <2>7, <2>8
<1>4. S \in SUBSET S OBVIOUS
<1> QED BY <1>1, <1>2, <1>3, <1>4 DEF Sums

-----------------------------------------------------------------------------
(* Sequences of numbers.                                                   *)

\* A number is appended.
LEMMA SumAppend ==
    ASSUME NEW s \in Seq(Int), NEW n \in Int
    PROVE  /\ SumOver(s, DOMAIN s) \in Int
           /\ SumOver(Append(s, n), DOMAIN Append(s, n)) = SumOver(s, DOMAIN s) + n
<1> DEFINE m == Len(s)
           t == Append(s, n)
           D == 1 .. m
<1>1. m \in Nat /\ DOMAIN s = D /\ DOMAIN t = D \cup {m + 1} /\ m + 1 \notin D
  OBVIOUS
<1>2. /\ t[m + 1] = n /\ \A k \in D : s[k] \in Int /\ s[k] = t[k]
      /\ \A k \in D \cup {m + 1} : t[k] \in Int
  OBVIOUS
<1>3. IsFiniteSet(D) BY <1>1, FS_Interval
<1> HIDE DEF m, t, D
<1>4. SumOver(t, D \cup {m + 1}) = t[m + 1] + SumOver(t, D) BY <1>1, <1>2, <1>3, SumAdd
<1>5. SumOver(s, D) = SumOver(t, D) BY <1>2, <1>3, SumCong
<1>6. SumOver(s, D) \in Int BY <1>2, <1>3, SumType
<1>7. SumOver(t, D \cup {m + 1}) = SumOver(s, D) + n BY <1>2, <1>4, <1>5, <1>6
<1> QED BY <1>1, <1>6, <1>7 DEF t

\* The indices may be shifted.
LEMMA SumShift ==
    ASSUME NEW n \in Nat, NEW p \in Nat, NEW f, NEW g,
           \A k \in 1 .. n : f[p + k] \in Int /\ g[k] = f[p + k]
    PROVE  SumOver(g, 1 .. n) = SumOver(f, (p + 1) .. (p + n))
<1> DEFINE a(m) == 1 .. m
           b(m) == (p + 1) .. (p + m)
           T == {m \in Nat : m <= n => SumOver(g, a(m)) = SumOver(f, b(m))}
<1>1. 0 \in T
  <2>1. a(0) = {} /\ b(0) = {} OBVIOUS
  <2> HIDE DEF a, b
  <2>2. SumOver(g, a(0)) = SumOver(f, b(0)) BY <2>1, SumEmpty
  <2> QED BY <2>2
<1>2. ASSUME NEW m \in Nat, m \in T PROVE m + 1 \in T
  <2> SUFFICES ASSUME m + 1 <= n PROVE SumOver(g, a(m + 1)) = SumOver(f, b(m + 1))
    OBVIOUS
  <2> DEFINE l == p + (m + 1)
  <2>1. /\ a(m + 1) = a(m) \cup {m + 1} /\ m + 1 \notin a(m)
        /\ b(m + 1) = b(m) \cup {l} /\ l \notin b(m)
    OBVIOUS
  <2>2. IsFiniteSet(a(m)) /\ IsFiniteSet(b(m)) BY FS_Interval
  <2>3. \A k \in a(m) \cup {m + 1} : g[k] \in Int OBVIOUS
  <2>4. \A k \in b(m) \cup {l} : f[k] \in Int
    <3>1. ASSUME NEW k \in b(m) \cup {l} PROVE f[k] \in Int
      <4>1. k - p \in 1 .. n /\ p + (k - p) = k OBVIOUS
      <4> QED BY <4>1
    <3> QED BY <3>1
  <2>5. m <= n /\ m + 1 \in 1 .. n OBVIOUS
  <2>6. g[m + 1] = f[l] /\ f[l] \in Int BY <2>5
  <2>7. SumOver(g, a(m)) = SumOver(f, b(m)) BY <1>2, <2>5
  <2> HIDE DEF a, b, l
  <2>8. SumOver(g, a(m) \cup {m + 1}) = g[m + 1] + SumOver(g, a(m))
    BY <2>1, <2>2, <2>3, SumAdd
  <2>9. SumOver(f, b(m) \cup {l}) = f[l] + SumOver(f, b(m))
    BY <2>1, <2>2, <2>4, SumAdd
  <2> QED BY <2>1, <2>6, <2>7, <2>8, <2>9
<1>3. \A m \in Nat : m \in T
  <2> HIDE DEF T
  <2> QED BY <1>1, <1>2, NatSetInduction
<1> QED BY <1>3

\* The first number is taken off.
LEMMA SumTail ==
    ASSUME NEW s \in Seq(Int), s # << >>
    PROVE  /\ SumOver(s, DOMAIN s) \in Int /\ SumOver(Tail(s), DOMAIN Tail(s)) \in Int
           /\ Head(s) \in Int
           /\ SumOver(s, DOMAIN s) = Head(s) + SumOver(Tail(s), DOMAIN Tail(s))
<1> DEFINE n == Len(s) - 1
           t == Tail(s)
           D == 1 .. (n + 1)
           E == 2 .. (n + 1)
<1>1. /\ n \in Nat /\ DOMAIN s = D /\ DOMAIN t = 1 .. n /\ 1 \in D /\ D \ {1} = E
      /\ Head(s) = s[1]
  OBVIOUS
<1>2. /\ \A k \in D : s[k] \in Int
      /\ \A k \in 1 .. n : s[1 + k] \in Int /\ t[k] = s[1 + k]
  OBVIOUS
<1>3. IsFiniteSet(D) BY <1>1, FS_Interval
<1> HIDE DEF D
<1>4. SumOver(t, 1 .. n) = SumOver(s, E)
  <2>1. E = (1 + 1) .. (1 + n) /\ 1 \in Nat OBVIOUS
  <2> HIDE DEF n, t, E
  <2>2. SumOver(t, 1 .. n) = SumOver(s, (1 + 1) .. (1 + n)) BY <1>1, <1>2, <2>1, SumShift
  <2> QED BY <2>1, <2>2
<1> HIDE DEF n, t, E
<1>5. /\ SumOver(s, D) \in Int /\ SumOver(s, D \ {1}) \in Int
      /\ SumOver(s, D) = s[1] + SumOver(s, D \ {1})
  <2>1. 1 \in D BY <1>1
  <2> QED BY ONLY <1>2, <1>3, <2>1, SumRemove
<1>6. s[1] \in Int BY <1>1, <1>2
<1> QED BY <1>1, <1>4, <1>5, <1>6 DEF t

\* One sequence follows another.
LEMMA SumConcat ==
    ASSUME NEW s \in Seq(Int), NEW t \in Seq(Int)
    PROVE  /\ SumOver(s, DOMAIN s) \in Int /\ SumOver(t, DOMAIN t) \in Int
           /\ SumOver(s \o t, DOMAIN (s \o t)) = SumOver(s, DOMAIN s) + SumOver(t, DOMAIN t)
<1> DEFINE m == Len(s)
           n == Len(t)
           r == s \o t
           A == 1 .. m
           B == (m + 1) .. (m + n)
<1>1. /\ m \in Nat /\ n \in Nat /\ DOMAIN s = A /\ DOMAIN t = 1 .. n
      /\ DOMAIN r = A \cup B /\ A \cap B = {}
  OBVIOUS
<1>2. /\ \A k \in A : s[k] \in Int /\ s[k] = r[k]
      /\ \A k \in 1 .. n : t[k] \in Int /\ r[m + k] \in Int /\ t[k] = r[m + k]
      /\ \A k \in A \cup B : r[k] \in Int
  OBVIOUS
<1>3. IsFiniteSet(A) /\ IsFiniteSet(B) /\ IsFiniteSet(1 .. n) BY <1>1, FS_Interval
<1> HIDE DEF A, r
<1>4. SumOver(t, 1 .. n) = SumOver(r, B)
  <2> HIDE DEF m, n
  <2> QED BY <1>1, <1>2, SumShift
<1> HIDE DEF m, n, B
<1>5. SumOver(r, A \cup B) = SumOver(r, A) + SumOver(r, B) BY <1>1, <1>2, <1>3, SumDisjoint
<1>6. SumOver(s, A) = SumOver(r, A) BY <1>2, <1>3, SumCong
<1>7. SumOver(s, A) \in Int BY <1>2, <1>3, SumType
<1>8. SumOver(t, 1 .. n) \in Int BY <1>2, <1>3, SumType
<1> QED BY <1>1, <1>4, <1>5, <1>6, <1>7, <1>8 DEF r

\* A part of a sum of naturals is no more than the whole.
LEMMA SumPart ==
    ASSUME NEW S, IsFiniteSet(S), NEW A, A \subseteq S, NEW f, \A x \in S : f[x] \in Nat
    PROVE  SumOver(f, A) \in Nat /\ SumOver(f, S) \in Nat /\ SumOver(f, A) <= SumOver(f, S)
<1>1. IsFiniteSet(A) /\ IsFiniteSet(S \ A) BY FS_Subset
<1>2. A \cap (S \ A) = {} /\ A \cup (S \ A) = S OBVIOUS
<1>3. SumOver(f, A \cup (S \ A)) = SumOver(f, A) + SumOver(f, S \ A) BY <1>1, <1>2, SumDisjoint
<1>4. SumOver(f, A) \in Nat /\ SumOver(f, S \ A) \in Nat
  <2>1. \A x \in A : f[x] \in Int /\ f[x] \in Nat OBVIOUS
  <2>2. \A x \in S \ A : f[x] \in Int /\ f[x] \in Nat OBVIOUS
  <2>3. SumOver(f, A) \in Nat BY <1>1, <2>1, SumType
  <2>4. SumOver(f, S \ A) \in Nat BY <1>1, <2>2, SumType
  <2> QED BY <2>3, <2>4
<1>5. SumOver(f, S) = SumOver(f, A) + SumOver(f, S \ A) BY <1>2, <1>3, Zenon
<1> QED BY <1>4, <1>5
=============================================================================
