------------------------------ MODULE AmountSums ------------------------------
(***************************************************************************)
(* What a sum of amounts is: SUM(amount) over the rows of a finite set, as  *)
(* the modules write it with the fold of FiniteSetsExt.  The fold chooses   *)
(* the order in which it adds; nothing below depends on it.                 *)
(*                                                                          *)
(* The induction over finite sets is done with WFMin: if some set of rows   *)
(* lacked a property, a smallest one would.                                 *)
(***************************************************************************)
EXTENDS FiniteSetsExt, FiniteSetTheorems, TLAPS

Amounts(S) == MapThenSumSet(LAMBDA t : t.amount, S)

Some(S) == CHOOSE x \in S : TRUE

\* The recursion of the fold, on the subsets of S, and a solution of it.
Unfold(g, S) == [s \in SUBSET S |-> IF s = {} THEN 0 ELSE Some(s).amount + g[s \ {Some(s)}]]
Solves(g, S) == g = Unfold(g, S)
Solution(S) == CHOOSE g : Solves(g, S)

-----------------------------------------------------------------------------
(* A smallest set. *)

\* A non-empty family of finite sets has one that is minimal by inclusion.
LEMMA SmallestSubset ==
  ASSUME NEW S, IsFiniteSet(S), NEW T \in SUBSET SUBSET S, T # {}
  PROVE  \E A \in T : \A B \in T : B \subseteq A => B = A
<1>1. T \subseteq FiniteSubsetsOf(S)
  BY FS_FiniteSubsetsOfFinite
<1>2. PICK A \in T : \A B \in T : ~ (<<B, A>> \in StrictSubsetOrdering(S))
  BY <1>1, FS_StrictSubsetOrderingWellFounded, WFMin
<1>3. ASSUME NEW B \in T, B \subseteq A
      PROVE  B = A
  BY <1>2, <1>3 DEF StrictSubsetOrdering
<1>4. QED
  BY <1>3

\* The row that CHOOSE picks is one of the set.
LEMMA SomeIsMember == ASSUME NEW S, S # {} PROVE Some(S) \in S
BY DEF Some

-----------------------------------------------------------------------------
(* The recursion of the fold has one solution. *)

\* A solution is what its recursion equation says of it.
LEMMA Unfolded ==
  ASSUME NEW S, NEW g, Solves(g, S), NEW s \in SUBSET S
  PROVE  g[s] = IF s = {} THEN 0 ELSE Some(s).amount + g[s \ {Some(s)}]
BY DEF Solves, Unfold

\* The same for a non-empty set: one row and the rest.
LEMMA UnfoldedSome ==
  ASSUME NEW S, NEW g, Solves(g, S), NEW s \in SUBSET S, s # {}
  PROVE  g[s] = Some(s).amount + g[s \ {Some(s)}]
BY DEF Solves, Unfold

\* Two solutions on the subsets of a finite set are the same.
LEMMA SolutionsAgree ==
  ASSUME NEW S, IsFiniteSet(S), NEW g, NEW h, Solves(g, S), Solves(h, S)
  PROVE  g = h
<1> DEFINE T == {s \in SUBSET S : g[s] # h[s]}
<1>1. SUFFICES ASSUME T # {} PROVE FALSE
  <2>1. /\ g = [s \in SUBSET S |-> IF s = {} THEN 0 ELSE Some(s).amount + g[s \ {Some(s)}]]
        /\ h = [s \in SUBSET S |-> IF s = {} THEN 0 ELSE Some(s).amount + h[s \ {Some(s)}]]
    BY DEF Solves, Unfold
  <2>2. T = {} => \A s \in SUBSET S : g[s] = h[s]
    OBVIOUS
  <2>3. QED
    BY <2>1, <2>2
<1>2. PICK A \in T : \A B \in T : B \subseteq A => B = A
  <2> HIDE DEF T
  <2>1. T \in SUBSET SUBSET S
    BY DEF T
  <2>2. QED
    BY <1>1, <2>1, SmallestSubset
<1>3. A \in SUBSET S /\ g[A] # h[A]
  BY <1>2
<1>4. A # {}
  BY <1>3, Unfolded
<1>5. g[A \ {Some(A)}] # h[A \ {Some(A)}]
  <2>1. /\ g[A] = Some(A).amount + g[A \ {Some(A)}]
        /\ h[A] = Some(A).amount + h[A \ {Some(A)}]
    BY <1>3, <1>4, UnfoldedSome
  <2>2. QED
    BY <1>3, <2>1
<1>6. QED
  BY <1>2, <1>3, <1>4, <1>5, SomeIsMember

\* A solution for a set is one for each of its subsets.
LEMMA SolutionRestricts ==
  ASSUME NEW S, NEW g, Solves(g, S), NEW A \in SUBSET S
  PROVE  Solves([s \in SUBSET A |-> g[s]], A)
<1> DEFINE h == [s \in SUBSET A |-> g[s]]
<1>1. ASSUME NEW s \in SUBSET A
      PROVE  h[s] = IF s = {} THEN 0 ELSE Some(s).amount + h[s \ {Some(s)}]
  <2>1. s \in SUBSET S /\ s \ {Some(s)} \in SUBSET A
    OBVIOUS
  <2>2. h[s] = g[s] /\ h[s \ {Some(s)}] = g[s \ {Some(s)}]
    BY <2>1
  <2>3. QED
    BY <2>1, <2>2, Unfolded
<1>2. h = Unfold(h, A)
  BY <1>1 DEF Unfold
<1>3. QED
  BY <1>2 DEF Solves

\* Every finite set has a solution.
LEMMA SolutionExists ==
  ASSUME NEW S, IsFiniteSet(S)
  PROVE  \A A \in SUBSET S : Solves(Solution(A), A)
<1> DEFINE T == {A \in SUBSET S : ~ Solves(Solution(A), A)}
<1>1. SUFFICES ASSUME T # {} PROVE FALSE
  OBVIOUS
<1>2. PICK A \in T : \A B \in T : B \subseteq A => B = A
  <2> HIDE DEF T
  <2>1. T \in SUBSET SUBSET S
    BY DEF T
  <2>2. QED
    BY <1>1, <2>1, SmallestSubset
<1>3. A \in SUBSET S /\ ~ Solves(Solution(A), A) /\ IsFiniteSet(A)
  BY <1>2, FS_Subset
<1>4. ASSUME NEW B \in SUBSET A, B # A
      PROVE  Solves(Solution(B), B) /\ IsFiniteSet(B)
  BY <1>2, <1>3, <1>4, FS_Subset
<1> DEFINE sum(s) == IF s = {} THEN 0 ELSE Some(s).amount + Solution(s \ {Some(s)})[s \ {Some(s)}]
           h == [s \in SUBSET A |-> sum(s)]
<1>5. ASSUME NEW s \in SUBSET A, s # A
      PROVE  h[s] = Solution(s)[s]
  <2>1. CASE s = {}
    BY <1>4, <1>5, <2>1, Unfolded
  <2>2. CASE s # {}
    <3> DEFINE r == s \ {Some(s)}
    <3>1. r \in SUBSET A /\ r # A /\ r \in SUBSET s /\ r # s
      BY <1>5, <2>2, SomeIsMember
    <3>2. Solves(Solution(s), s) /\ Solves(Solution(r), r) /\ IsFiniteSet(r)
      BY <1>4, <1>5, <3>1
    <3>3. Solution(r) = [q \in SUBSET r |-> Solution(s)[q]]
      <4>1. Solves([q \in SUBSET r |-> Solution(s)[q]], r)
        BY <3>1, <3>2, SolutionRestricts
      <4>2. QED
        BY <3>2, <4>1, SolutionsAgree
    <3>4. Solution(r)[r] = Solution(s)[r]
      <4>1. r \in SUBSET r
        OBVIOUS
      <4>2. QED
        BY <3>3, <4>1
    <3>5. Solution(s)[s] = Some(s).amount + Solution(s)[r]
      BY <2>2, <3>2, Unfolded
    <3>6. QED
      BY <2>2, <3>4, <3>5
  <2>3. QED
    BY <2>1, <2>2
<1>6. ASSUME NEW s \in SUBSET A
      PROVE  h[s] = IF s = {} THEN 0 ELSE Some(s).amount + h[s \ {Some(s)}]
  <2>1. CASE s = {}
    BY <2>1
  <2>2. CASE s # {}
    <3>1. s \ {Some(s)} \in SUBSET A /\ s \ {Some(s)} # A
      BY <2>2, SomeIsMember
    <3>2. h[s \ {Some(s)}] = Solution(s \ {Some(s)})[s \ {Some(s)}]
      BY <1>5, <3>1
    <3>3. QED
      BY <2>2, <3>2
  <2>3. QED
    BY <2>1, <2>2
<1>7. Solves(h, A)
  <2> HIDE DEF h
  <2>1. h = [s \in SUBSET A |-> h[s]]
    BY DEF h
  <2>2. QED
    BY <1>6, <2>1 DEF Solves, Unfold
<1>8. Solves(Solution(A), A)
  BY <1>7 DEF Solution
<1>9. QED
  BY <1>3, <1>8
-----------------------------------------------------------------------------
(* The sum of a finite set of rows. *)

\* The fold of the community modules is that solution.
LEMMA AmountsAreSolution ==
  ASSUME NEW S, IsFiniteSet(S)
  PROVE  Amounts(S) = Solution(S)[S]
<1>1. Amounts(S) = LET iter[s \in SUBSET S] ==
                         IF s = {} THEN 0
                         ELSE Some(s).amount + iter[s \ {Some(s)}]
                   IN  iter[S]
  BY DEF Amounts, MapThenSumSet, MapThenFoldSet, Some
<1>2. QED
  BY <1>1 DEF Solution, Solves, Unfold

\* The sum of no rows, and of some: the row that the fold takes first and the rest.
LEMMA FirstAmount ==
  ASSUME NEW S, IsFiniteSet(S)
  PROVE  Amounts(S) = IF S = {} THEN 0 ELSE Some(S).amount + Amounts(S \ {Some(S)})
<1> DEFINE r == S \ {Some(S)}
<1>1. IsFiniteSet(r) /\ r \in SUBSET S
  BY FS_Subset
<1>2. Solves(Solution(S), S) /\ Solves(Solution(r), r)
  BY <1>1, SolutionExists
<1>3. Solution(r) = [q \in SUBSET r |-> Solution(S)[q]]
  <2>1. Solves([q \in SUBSET r |-> Solution(S)[q]], r)
    BY <1>1, <1>2, SolutionRestricts
  <2>2. QED
    BY <1>1, <1>2, <2>1, SolutionsAgree
<1>4. Solution(r)[r] = Solution(S)[r]
  <2>1. r \in SUBSET r
    OBVIOUS
  <2>2. QED
    BY <1>3, <2>1
<1>5. Amounts(S) = Solution(S)[S] /\ Amounts(r) = Solution(r)[r]
  BY <1>1, AmountsAreSolution
<1>6. QED
  BY <1>2, <1>4, <1>5, Unfolded

\* The sum of no rows.
LEMMA NoAmounts == Amounts({}) = 0
BY FS_EmptySet, FirstAmount

\* A sum of integers is an integer, and any row may be taken out first.
LEMMA AmountOf ==
  ASSUME NEW S, IsFiniteSet(S), \A t \in S : t.amount \in Int
  PROVE  /\ Amounts(S) \in Int
         /\ \A t \in S : Amounts(S) = t.amount + Amounts(S \ {t})
<1> DEFINE P(A) == /\ Amounts(A) \in Int
                   /\ \A t \in A : Amounts(A) = t.amount + Amounts(A \ {t})
           T == {A \in SUBSET S : ~ P(A)}
<1>1. SUFFICES ASSUME T # {} PROVE FALSE
  OBVIOUS
<1>2. PICK A \in T : \A B \in T : B \subseteq A => B = A
  <2> HIDE DEF T
  <2>1. T \in SUBSET SUBSET S
    BY DEF T
  <2>2. QED
    BY <1>1, <2>1, SmallestSubset
<1>3. A \in SUBSET S /\ ~ P(A) /\ IsFiniteSet(A)
  BY <1>2, FS_Subset
<1>4. ASSUME NEW B \in SUBSET A, B # A
      PROVE  P(B) /\ IsFiniteSet(B)
  BY <1>2, <1>3, <1>4, FS_Subset
<1> DEFINE x == Some(A)
<1>5. A # {}
  <2>1. P({})
    BY NoAmounts
  <2>2. QED
    BY <1>3, <2>1
<1>6. x \in A /\ x.amount \in Int /\ Amounts(A) = x.amount + Amounts(A \ {x})
  BY <1>3, <1>5, FirstAmount, SomeIsMember
<1>7. Amounts(A) \in Int
  <2>1. P(A \ {x})
    BY <1>4, <1>6
  <2>2. QED
    BY <1>6, <2>1
<1>8. ASSUME NEW t \in A
      PROVE  Amounts(A) = t.amount + Amounts(A \ {t})
  <2>1. CASE t = x
    BY <1>6, <2>1
  <2>2. CASE t # x
    <3> HIDE DEF x, T
    <3> DEFINE r == (A \ {x}) \ {t}
    <3>1. P(A \ {x}) /\ t \in A \ {x}
      BY <1>4, <1>6, <1>8, <2>2
    <3>2. P(A \ {t}) /\ x \in A \ {t}
      BY <1>4, <1>6, <1>8, <2>2
    <3>3. Amounts(A \ {x}) = t.amount + Amounts(r)
      BY <3>1
    <3>4. r = (A \ {t}) \ {x}
      OBVIOUS
    <3>5. Amounts(A \ {t}) = x.amount + Amounts(r)
      BY <3>2, <3>4
    <3>6. P(r)
      BY <1>4, <1>6
    <3>7. t.amount \in Int /\ x.amount \in Int /\ Amounts(r) \in Int
      BY <1>3, <1>6, <3>6
    <3> HIDE DEF r
    <3>8. QED
      BY <1>6, <3>3, <3>5, <3>7
  <2>3. QED
    BY <2>1, <2>2
<1>9. QED
  BY <1>3, <1>7, <1>8

\* A sum of natural amounts is natural, and rows that are added do not lower it.
LEMMA AmountsGrow ==
  ASSUME NEW S, IsFiniteSet(S), \A t \in S : t.amount \in Nat
  PROVE  /\ Amounts(S) \in Nat
         /\ \A R \in SUBSET S : Amounts(R) \in Nat /\ Amounts(R) <= Amounts(S)
<1> DEFINE P(A) == /\ Amounts(A) \in Nat
                   /\ \A R \in SUBSET A : Amounts(R) \in Nat /\ Amounts(R) <= Amounts(A)
           T == {A \in SUBSET S : ~ P(A)}
<1>1. SUFFICES ASSUME T # {} PROVE FALSE
  OBVIOUS
<1>2. PICK A \in T : \A B \in T : B \subseteq A => B = A
  <2> HIDE DEF T
  <2>1. T \in SUBSET SUBSET S
    BY DEF T
  <2>2. QED
    BY <1>1, <2>1, SmallestSubset
<1>3. A \in SUBSET S /\ ~ P(A) /\ IsFiniteSet(A)
  BY <1>2, FS_Subset
<1>4. ASSUME NEW B \in SUBSET A, B # A
      PROVE  P(B)
  BY <1>2, <1>3, <1>4
<1>5. Amounts(A) \in Nat
  <2>1. CASE A = {}
    BY <2>1, NoAmounts
  <2>2. CASE A # {}
    <3>1. Some(A) \in A /\ Some(A).amount \in Nat
      BY <1>3, <2>2, SomeIsMember
    <3>2. P(A \ {Some(A)})
      BY <1>4, <3>1
    <3>3. Amounts(A) = Some(A).amount + Amounts(A \ {Some(A)})
      BY <1>3, <2>2, FirstAmount
    <3>4. QED
      BY <3>1, <3>2, <3>3
  <2>3. QED
    BY <2>1, <2>2
<1>6. ASSUME NEW R \in SUBSET A
      PROVE  Amounts(R) \in Nat /\ Amounts(R) <= Amounts(A)
  <2>1. CASE R = A
    BY <1>5, <2>1
  <2>2. CASE R # A
    <3>1. PICK y \in A : y \notin R
      BY <2>2
    <3>2. P(A \ {y}) /\ R \in SUBSET (A \ {y})
      BY <1>4, <3>1
    <3>3. Amounts(A) = y.amount + Amounts(A \ {y}) /\ y.amount \in Nat
      <4>1. \A t \in A : t.amount \in Nat
        BY <1>3
      <4>2. QED
        BY <1>3, <4>1, AmountOf
    <3>4. /\ Amounts(A \ {y}) \in Nat
          /\ Amounts(R) \in Nat /\ Amounts(R) <= Amounts(A \ {y})
      BY <3>2
    <3>5. QED
      BY <3>3, <3>4
  <2>3. QED
    BY <2>1, <2>2
<1>7. QED
  BY <1>3, <1>5, <1>6
=============================================================================
