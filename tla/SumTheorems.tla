---------------------------- MODULE SumTheorems ----------------------------
(***************************************************************************)
(* Sums over finite sets, as MapThenSumSet folds them, proved from the     *)
(* definition of the fold: what a sum is worth does not depend on the      *)
(* order in which CHOOSE takes the elements.  The staking program's        *)
(* balances, allocations and totals are added up with them.                *)
(*                                                                         *)
(* The induction theorems of the library take an operator.  Here induction *)
(* is over a set of numbers instead, from the well-foundedness of <.       *)
(***************************************************************************)
EXTENDS FiniteSetsExt, FiniteSetTheorems, TLAPS

(* The sum of the values of w on S. *)
SumOver(w, S) == MapThenSumSet(LAMBDA a : w[a], S)
-----------------------------------------------------------------------------
(* A set of natural numbers that is not empty has a least element.          *)
LEMMA LeastNumber ==
  ASSUME NEW T, T \subseteq Nat, T # {}
  PROVE  \E n \in T : \A m \in T : n <= m
  <1> DEFINE R == OpToRel(<, Nat)
  <1>1. IsWellFoundedOn(R, Nat)
    BY NatLessThanWellFounded, Zenon
  <1>2. PICK n \in T : \A m \in T : <<m, n>> \notin R
    BY <1>1, WFMin
  <1>3. \A m \in T : m \in Nat /\ n \in Nat /\ ~(m < n)
    BY <1>2, Zenon DEF OpToRel
  <1>. QED
    BY <1>3

(* Induction: a set of natural numbers that has 0 and every successor of    *)
(* its elements has them all.                                               *)
LEMMA NumberInduction ==
  ASSUME NEW T, T \subseteq Nat, 0 \in T, \A n \in T : n + 1 \in T
  PROVE  \A n \in Nat : n \in T
  <1> SUFFICES ASSUME Nat \ T # {} PROVE FALSE
    OBVIOUS
  <1>1. PICK n \in Nat \ T : \A m \in Nat \ T : n <= m
    BY LeastNumber
  <1>2. n # 0
    BY <1>1
  <1>3. n - 1 \in T /\ (n - 1) + 1 = n
    BY <1>1, <1>2
  <1>. QED
    BY <1>1, <1>3

(* Induction over the subsets of a finite set: a family that has a set as   *)
(* soon as it has all the smaller ones has them all.                        *)
LEMMA SubsetInduction ==
  ASSUME NEW S, IsFiniteSet(S), NEW Q,
         \A U \in SUBSET S : (\A V \in SUBSET U : V # U => V \in Q) => U \in Q
  PROVE  S \in Q
  <1> SUFFICES ASSUME S \notin Q PROVE FALSE
    OBVIOUS
  <1> DEFINE R == StrictSubsetOrdering(S)
             Bad == (SUBSET S) \ Q
  <1>1. IsWellFoundedOn(R, SUBSET S)
    <2>1. FiniteSubsetsOf(S) = SUBSET S
      BY FS_FiniteSubsetsOfFinite
    <2>2. IsWellFoundedOn(R, FiniteSubsetsOf(S))
      BY FS_StrictSubsetOrderingWellFounded
    <2>. QED
      BY <2>1, <2>2
  <1>2. PICK U \in Bad : \A V \in Bad : <<V, U>> \notin R
    <2>1. Bad \subseteq SUBSET S /\ Bad # {}
      OBVIOUS
    <2> HIDE DEF R, Bad
    <2>. QED
      BY <1>1, <2>1, WFMin
  <1>3. \A V \in SUBSET U : V # U => V \in Q
    BY <1>2 DEF StrictSubsetOrdering
  <1>. QED
    BY <1>2, <1>3

(* Taking an element out of a finite set makes it smaller by one.           *)
LEMMA OneFewer ==
  ASSUME NEW S, IsFiniteSet(S), NEW x \in S, NEW n \in Nat, Cardinality(S) <= n + 1
  PROVE  IsFiniteSet(S \ {x}) /\ Cardinality(S \ {x}) <= n
  <1>1. Cardinality(S) \in Nat
    BY FS_CardinalityType
  <1>2. IsFiniteSet(S \ {x}) /\ Cardinality(S \ {x}) = Cardinality(S) - 1
    BY FS_RemoveElement
  <1>. QED
    BY <1>1, <1>2
-----------------------------------------------------------------------------
(* The fold: h adds up w on the subsets of S, in the order of Pick.         *)
Pick(s) == CHOOSE x \in s : TRUE

FoldValue(w, h, s) == IF s = {} THEN 0 ELSE w[Pick(s)] + h[s \ {Pick(s)}]

IsFold(w, h, S) == h = [s \in SUBSET S |-> FoldValue(w, h, s)]

LEMMA PickIn ==
  ASSUME NEW s, s # {}
  PROVE  Pick(s) \in s
  BY DEF Pick

LEMMA SumOverDef ==
  ASSUME NEW w, NEW S
  PROVE  SumOver(w, S) = (CHOOSE h : IsFold(w, h, S))[S]
  BY DEF SumOver, MapThenSumSet, MapThenFoldSet, IsFold, FoldValue, Pick

(* There is such a fold.                                                    *)
LEMMA FoldExists ==
  ASSUME NEW w, NEW S, IsFiniteSet(S)
  PROVE  \E h : IsFold(w, h, S)
  <1> DEFINE Upto(n, h) ==
               /\ h = [s \in SUBSET S |-> h[s]]
               /\ \A s \in SUBSET S : Cardinality(s) <= n => h[s] = FoldValue(w, h, s)
             T == {n \in Nat : \E h : Upto(n, h)}
  <1>a. \A s \in SUBSET S : IsFiniteSet(s) /\ Cardinality(s) \in Nat
                              /\ Cardinality(s) <= Cardinality(S)
    BY FS_Subset, FS_CardinalityType
  <1>1. 0 \in T
    <2>1. \A s \in SUBSET S : Cardinality(s) <= 0 => s = {}
      BY <1>a, FS_EmptySet
    <2> DEFINE h == [s \in SUBSET S |-> 0]
    <2>2. Upto(0, h)
      BY <2>1 DEF FoldValue
    <2>. QED
      BY <2>2
  <1>2. ASSUME NEW n \in T PROVE n + 1 \in T
    <2>1. PICK h : Upto(n, h)
      BY <1>2
    <2> DEFINE g == [s \in SUBSET S |-> FoldValue(w, h, s)]
    <2>2. ASSUME NEW s \in SUBSET S, Cardinality(s) <= n + 1
          PROVE  g[s] = FoldValue(w, g, s)
      <3>1. CASE s = {}
        BY <3>1 DEF FoldValue
      <3>2. CASE s # {}
        <4> DEFINE t == s \ {Pick(s)}
        <4>1. t \in SUBSET S /\ Cardinality(t) <= n
          BY <1>a, <3>2, <2>2, PickIn, OneFewer
        <4>2. g[t] = h[t]
          BY <2>1, <4>1
        <4>. QED
          BY <3>2, <4>2 DEF FoldValue
      <3>. QED
        BY <3>1, <3>2
    <2>3. Upto(n + 1, g)
      BY <2>2
    <2>4. n + 1 \in Nat
      BY <1>2
    <2> HIDE DEF g, Upto
    <2>. QED
      BY <2>3, <2>4
  <1>3. \A n \in Nat : n \in T
    <2> HIDE DEF T
    <2>1. T \subseteq Nat
      BY DEF T
    <2>. QED
      BY <1>1, <1>2, <2>1, NumberInduction
  <1>4. Cardinality(S) \in T
    BY <1>3, FS_CardinalityType
  <1>5. PICK h : Upto(Cardinality(S), h)
    BY <1>4
  <1>6. IsFold(w, h, S)
    BY <1>5, <1>a DEF IsFold
  <1>. QED
    BY <1>6

(* And only one: where two functions agree so do their folds, also when one *)
(* of them is over a smaller set.                                           *)
LEMMA FoldUnique ==
  ASSUME NEW S, IsFiniteSet(S), NEW U \in SUBSET S, NEW w, NEW v, NEW h, NEW g,
         \A x \in U : w[x] = v[x],
         IsFold(w, h, S), IsFold(v, g, U),
         NEW s \in SUBSET U
  PROVE  h[s] = g[s]
  <1> DEFINE Q == {r \in SUBSET U : h[r] = g[r]}
  <1>1. IsFiniteSet(U)
    BY FS_Subset
  <1>2. \A r \in SUBSET U : h[r] = FoldValue(w, h, r) /\ g[r] = FoldValue(v, g, r)
    BY DEF IsFold
  <1>3. ASSUME NEW r \in SUBSET U, \A t \in SUBSET r : t # r => t \in Q
        PROVE  r \in Q
    <2>1. CASE r = {}
      BY <1>2, <2>1 DEF FoldValue
    <2>2. CASE r # {}
      <3>1. Pick(r) \in r /\ h[r \ {Pick(r)}] = g[r \ {Pick(r)}]
        BY <1>3, <2>2, PickIn
      <3>. QED
        BY <1>2, <2>2, <3>1 DEF FoldValue
    <2>. QED
      BY <2>1, <2>2
  <1>4. IsFiniteSet(s) /\ \A r \in SUBSET s : r \in SUBSET U
    BY <1>1, FS_Subset
  <1> HIDE DEF Q
  <1>5. s \in Q
    BY <1>3, <1>4, SubsetInduction
  <1>. QED
    BY <1>5 DEF Q
-----------------------------------------------------------------------------
(* The sum over no elements is zero.                                        *)
LEMMA SumOverEmpty ==
  ASSUME NEW w
  PROVE  SumOver(w, {}) = 0
  <1>1. PICK h : h = (CHOOSE g : IsFold(w, g, {})) /\ IsFold(w, h, {})
    BY FoldExists, FS_EmptySet
  <1>. QED
    BY <1>1, SumOverDef DEF IsFold, FoldValue

(* Functions that agree on a set have the same sum over it.                 *)
LEMMA SumOverAgree ==
  ASSUME NEW S, IsFiniteSet(S), NEW w, NEW v, \A x \in S : w[x] = v[x]
  PROVE  SumOver(w, S) = SumOver(v, S)
  <1>1. PICK h : h = (CHOOSE f : IsFold(w, f, S)) /\ IsFold(w, h, S)
    BY FoldExists
  <1>2. PICK g : g = (CHOOSE f : IsFold(v, f, S)) /\ IsFold(v, g, S)
    BY FoldExists
  <1>3. h[S] = g[S]
    BY <1>1, <1>2, FoldUnique
  <1>. QED
    BY <1>1, <1>2, <1>3, SumOverDef

(* The fold takes out the picked element.                                   *)
LEMMA SumOverPick ==
  ASSUME NEW S, IsFiniteSet(S), S # {}, NEW w
  PROVE  SumOver(w, S) = w[Pick(S)] + SumOver(w, S \ {Pick(S)})
  <1> DEFINE U == S \ {Pick(S)}
  <1>0. IsFiniteSet(U) /\ U \in SUBSET S
    BY FS_Subset
  <1>1. PICK h : h = (CHOOSE f : IsFold(w, f, S)) /\ IsFold(w, h, S)
    BY FoldExists
  <1>2. PICK g : g = (CHOOSE f : IsFold(w, f, U)) /\ IsFold(w, g, U)
    BY <1>0, FoldExists
  <1>3. h[U] = g[U]
    BY <1>0, <1>1, <1>2, FoldUnique
  <1>4. h[S] = w[Pick(S)] + h[U]
    BY <1>1 DEF IsFold, FoldValue
  <1>5. SumOver(w, S) = h[S] /\ SumOver(w, U) = g[U]
    BY <1>1, <1>2, SumOverDef
  <1>. QED
    BY <1>3, <1>4, <1>5

(* Sums of integers are integers, and any element may be taken out first.   *)
LEMMA SumOverTakeOut ==
  ASSUME NEW S, IsFiniteSet(S), NEW w, \A x \in S : w[x] \in Int
  PROVE  /\ SumOver(w, S) \in Int
         /\ \A x \in S : SumOver(w, S) = w[x] + SumOver(w, S \ {x})
  <1> DEFINE Good(U) ==
               /\ SumOver(w, U) \in Int
               /\ \A x \in U : SumOver(w, U) = w[x] + SumOver(w, U \ {x})
             Q == {U \in SUBSET S : Good(U)}
  <1>1. ASSUME NEW U \in SUBSET S, \A V \in SUBSET U : V # U => V \in Q
        PROVE  Good(U)
    <2>1. CASE U = {}
      BY <2>1, SumOverEmpty
    <2>2. CASE U # {}
      <3> DEFINE p == Pick(U)
      <3>1. p \in U /\ w[p] \in Int
        BY <2>2, PickIn
      <3>2. \A x \in U : Good(U \ {x})
        BY <1>1
      <3>3. SumOver(w, U) = w[p] + SumOver(w, U \ {p})
        BY <2>2, FS_Subset, SumOverPick
      <3> HIDE DEF p
      <3>4. SumOver(w, U) \in Int
        BY <3>1, <3>2, <3>3
      <3>5. ASSUME NEW x \in U PROVE SumOver(w, U) = w[x] + SumOver(w, U \ {x})
        <4>1. CASE x = p
          BY <3>3, <4>1
        <4>2. CASE x # p
          <5> DEFINE V == (U \ {p}) \ {x}
          <5>1. V = (U \ {x}) \ {p} /\ x \in U \ {p} /\ p \in U \ {x}
            BY <3>1, <4>2
          <5>2. SumOver(w, U \ {p}) = w[x] + SumOver(w, V)
            BY <3>1, <3>2, <5>1
          <5>3. SumOver(w, U \ {x}) = w[p] + SumOver(w, V)
            BY <3>2, <5>1
          <5>4. w[x] \in Int /\ SumOver(w, V) \in Int
            BY <1>1, <3>1
          <5> HIDE DEF V
          <5>. QED
            BY <3>1, <3>3, <5>2, <5>3, <5>4
        <4>. QED
          BY <4>1, <4>2
      <3>. QED
        BY <3>4, <3>5
    <2>. QED
      BY <2>1, <2>2
  <1> HIDE DEF Good
  <1>2. S \in Q
    <2>1. \A U \in SUBSET S : (\A V \in SUBSET U : V # U => V \in Q) => U \in Q
      BY <1>1
    <2> HIDE DEF Q
    <2>. QED
      BY <2>1, SubsetInduction
  <1>. QED
    BY <1>2 DEF Good

(* A new element adds its value.                                            *)
LEMMA SumOverAdd ==
  ASSUME NEW S, IsFiniteSet(S), NEW x, x \notin S, NEW w,
         \A y \in S \cup {x} : w[y] \in Int
  PROVE  SumOver(w, S \cup {x}) = SumOver(w, S) + w[x]
  <1>1. IsFiniteSet(S \cup {x})
    BY FS_AddElement
  <1>2. (S \cup {x}) \ {x} = S
    OBVIOUS
  <1>3. SumOver(w, S \cup {x}) = w[x] + SumOver(w, S)
    BY <1>1, <1>2, SumOverTakeOut
  <1>4. SumOver(w, S) \in Int
    BY SumOverTakeOut
  <1>. QED
    BY <1>3, <1>4

(* Where functions differ in one place, so do their sums.                   *)
LEMMA SumOverChange ==
  ASSUME NEW S, IsFiniteSet(S), NEW x \in S, NEW w, NEW v,
         \A y \in S : w[y] \in Int /\ v[y] \in Int,
         \A y \in S \ {x} : v[y] = w[y]
  PROVE  SumOver(v, S) = SumOver(w, S) + (v[x] - w[x])
  <1> DEFINE U == S \ {x}
  <1>1. IsFiniteSet(U)
    BY FS_Subset
  <1>2. SumOver(v, S) = v[x] + SumOver(v, U) /\ SumOver(w, S) = w[x] + SumOver(w, U)
    BY SumOverTakeOut
  <1>3. SumOver(v, U) = SumOver(w, U) /\ SumOver(w, U) \in Int
    BY <1>1, SumOverAgree, SumOverTakeOut
  <1> HIDE DEF U
  <1>. QED
    BY <1>2, <1>3

(* The same over a part of the domain, which need not contain the place.    *)
LEMMA SumOverCredit ==
  ASSUME NEW A, NEW S \in SUBSET A, IsFiniteSet(S), NEW b \in [A -> Int], NEW c \in [A -> Int],
         NEW a \in A, NEW n \in Int,
         c[a] = b[a] + n, \A x \in A \ {a} : c[x] = b[x]
  PROVE  SumOver(c, S) = SumOver(b, S) + (IF a \in S THEN n ELSE 0)
  <1>1. \A y \in S : b[y] \in Int /\ c[y] \in Int
    OBVIOUS
  <1>2. SumOver(b, S) \in Int
    BY <1>1, SumOverTakeOut
  <1>3. CASE a \in S
    <2>1. SumOver(c, S) = SumOver(b, S) + (c[a] - b[a])
      BY <1>1, <1>3, SumOverChange
    <2>. QED
      BY <1>1, <1>3, <2>1
  <1>4. CASE a \notin S
    <2>1. SumOver(c, S) = SumOver(b, S)
      BY <1>4, SumOverAgree
    <2>. QED
      BY <1>2, <1>4, <2>1
  <1>. QED
    BY <1>3, <1>4

(* Two sums known outright.                                                 *)
LEMMA SumOverSingleton ==
  ASSUME NEW x, NEW w, w[x] \in Int
  PROVE  SumOver(w, {x}) = w[x]
  <1>1. IsFiniteSet({x}) /\ {x} \ {x} = {}
    BY FS_Singleton
  <1>2. SumOver(w, {x}) = w[x] + SumOver(w, {x} \ {x})
    BY <1>1, SumOverTakeOut
  <1>. QED
    BY <1>1, <1>2, SumOverEmpty

LEMMA SumOverZero ==
  ASSUME NEW S, IsFiniteSet(S), NEW w, \A x \in S : w[x] = 0
  PROVE  SumOver(w, S) = 0
  <1> DEFINE Q == {U \in SUBSET S : SumOver(w, U) = 0}
  <1>1. ASSUME NEW U \in SUBSET S, \A V \in SUBSET U : V # U => V \in Q
        PROVE  U \in Q
    <2>1. CASE U = {}
      BY <2>1, SumOverEmpty
    <2>2. CASE U # {}
      <3>1. PICK x \in U : TRUE
        BY <2>2
      <3>2. IsFiniteSet(U) /\ SumOver(w, U \ {x}) = 0 /\ \A y \in U : w[y] \in Int
        BY <1>1, FS_Subset
      <3>3. SumOver(w, U) = w[x] + SumOver(w, U \ {x})
        BY <3>2, SumOverTakeOut
      <3>. QED
        BY <3>2, <3>3
    <2>. QED
      BY <2>1, <2>2
  <1> HIDE DEF Q
  <1>2. S \in Q
    BY <1>1, SubsetInduction
  <1>. QED
    BY <1>2 DEF Q

(* Smaller values sum to less.                                              *)
LEMMA SumOverBound ==
  ASSUME NEW S, IsFiniteSet(S), NEW w, NEW v,
         \A y \in S : w[y] \in Int /\ v[y] \in Int /\ w[y] <= v[y]
  PROVE  SumOver(w, S) <= SumOver(v, S)
  <1> DEFINE Q == {U \in SUBSET S : SumOver(w, U) <= SumOver(v, U)}
  <1>1. ASSUME NEW U \in SUBSET S, \A V \in SUBSET U : V # U => V \in Q
        PROVE  U \in Q
    <2>1. CASE U = {}
      BY <2>1, SumOverEmpty
    <2>2. CASE U # {}
      <3>1. PICK x \in U : TRUE
        BY <2>2
      <3> DEFINE V == U \ {x}
      <3>2. IsFiniteSet(U) /\ IsFiniteSet(V) /\ SumOver(w, V) <= SumOver(v, V)
        BY <1>1, FS_Subset
      <3>3. SumOver(w, U) = w[x] + SumOver(w, V) /\ SumOver(v, U) = v[x] + SumOver(v, V)
        BY <3>2, SumOverTakeOut
      <3>4. SumOver(w, V) \in Int /\ SumOver(v, V) \in Int
        BY <3>2, SumOverTakeOut
      <3> HIDE DEF V
      <3>. QED
        BY <3>2, <3>3, <3>4
    <2>. QED
      BY <2>1, <2>2
  <1> HIDE DEF Q
  <1>2. S \in Q
    BY <1>1, SubsetInduction
  <1>. QED
    BY <1>2 DEF Q

(* A sum of natural numbers is natural and covers each of them.             *)
LEMMA SumOverCovers ==
  ASSUME NEW S, IsFiniteSet(S), NEW w, \A y \in S : w[y] \in Nat
  PROVE  /\ SumOver(w, S) \in Nat
         /\ \A x \in S : w[x] <= SumOver(w, S)
  <1> DEFINE Q == {U \in SUBSET S : SumOver(w, U) \in Nat}
  <1>1. ASSUME NEW U \in SUBSET S, \A V \in SUBSET U : V # U => V \in Q
        PROVE  U \in Q
    <2>1. CASE U = {}
      BY <2>1, SumOverEmpty
    <2>2. CASE U # {}
      <3>1. PICK x \in U : TRUE
        BY <2>2
      <3>2. IsFiniteSet(U) /\ SumOver(w, U \ {x}) \in Nat
        BY <1>1, FS_Subset
      <3>3. SumOver(w, U) = w[x] + SumOver(w, U \ {x})
        BY <3>2, SumOverTakeOut
      <3>. QED
        BY <3>2, <3>3
    <2>. QED
      BY <2>1, <2>2
  <1>2. \A U \in SUBSET S : U \in Q
    <2> SUFFICES ASSUME NEW U \in SUBSET S PROVE U \in Q
      OBVIOUS
    <2>1. IsFiniteSet(U)
      BY FS_Subset
    <2> HIDE DEF Q
    <2>. QED
      BY <1>1, <2>1, SubsetInduction
  <1>3. \A x \in S : SumOver(w, S) = w[x] + SumOver(w, S \ {x})
    BY SumOverTakeOut
  <1>4. SumOver(w, S) \in Nat /\ \A x \in S : SumOver(w, S \ {x}) \in Nat
    BY <1>2
  <1>5. ASSUME NEW x \in S PROVE w[x] <= SumOver(w, S)
    <2>1. SumOver(w, S) = w[x] + SumOver(w, S \ {x})
      BY <1>3
    <2>2. w[x] \in Nat /\ SumOver(w, S \ {x}) \in Nat
      BY <1>4
    <2>. QED
      BY <2>1, <2>2
  <1>. QED
    BY <1>4, <1>5

(* A sum over two sets with nothing in common is the two sums together.     *)
LEMMA SumOverUnion ==
  ASSUME NEW A, IsFiniteSet(A), NEW B, IsFiniteSet(B), A \cap B = {},
         NEW w, \A x \in A \cup B : w[x] \in Int
  PROVE  SumOver(w, A \cup B) = SumOver(w, A) + SumOver(w, B)
  <1> DEFINE Q == {U \in SUBSET B : SumOver(w, A \cup U) = SumOver(w, A) + SumOver(w, U)}
  <1>1. ASSUME NEW U \in SUBSET B, \A V \in SUBSET U : V # U => V \in Q
        PROVE  U \in Q
    <2>0. SumOver(w, A) \in Int
      BY SumOverTakeOut
    <2>1. CASE U = {}
      BY <2>0, <2>1, SumOverEmpty
    <2>2. CASE U # {}
      <3>1. PICK x \in U : TRUE
        BY <2>2
      <3> DEFINE V == U \ {x}
      <3>2. IsFiniteSet(U) /\ IsFiniteSet(V) /\ SumOver(w, A \cup V) = SumOver(w, A) + SumOver(w, V)
        BY <1>1, FS_Subset
      <3>3. IsFiniteSet(A \cup U) /\ (A \cup U) \ {x} = A \cup V /\ x \in A \cup U
        BY <3>2, FS_Union
      <3>4. SumOver(w, A \cup U) = w[x] + SumOver(w, A \cup V)
        BY <3>3, SumOverTakeOut
      <3>5. SumOver(w, U) = w[x] + SumOver(w, V) /\ SumOver(w, V) \in Int
        BY <3>2, SumOverTakeOut
      <3> HIDE DEF V
      <3>. QED
        BY <2>0, <3>2, <3>4, <3>5
    <2>. QED
      BY <2>1, <2>2
  <1> HIDE DEF Q
  <1>2. B \in Q
    BY <1>1, SubsetInduction
  <1>. QED
    BY <1>2 DEF Q

(* Natural numbers over more elements sum to no less.                       *)
LEMMA SumOverMore ==
  ASSUME NEW S, IsFiniteSet(S), NEW U \in SUBSET S, NEW w, \A x \in S : w[x] \in Nat
  PROVE  SumOver(w, U) <= SumOver(w, S)
  <1> DEFINE V == S \ U
  <1>1. IsFiniteSet(U) /\ IsFiniteSet(V) /\ U \cap V = {} /\ S = U \cup V
    BY FS_Subset
  <1>2. SumOver(w, U) \in Nat /\ SumOver(w, V) \in Nat
    BY <1>1, SumOverCovers
  <1>3. SumOver(w, U \cup V) = SumOver(w, U) + SumOver(w, V)
    BY <1>1, SumOverUnion
  <1> HIDE DEF V
  <1>. QED
    BY <1>1, <1>2, <1>3

(* Elements may be added up by label: first those with the same label f,    *)
(* then the labels.                                                         *)
Fibre(f, S, j) == {x \in S : f[x] = j}

FibreSums(w, f, S, J) == [j \in J |-> SumOver(w, Fibre(f, S, j))]

LEMMA SumOverFibres ==
  ASSUME NEW S, IsFiniteSet(S), NEW J, IsFiniteSet(J), NEW f, NEW w,
         \A x \in S : w[x] \in Int /\ f[x] \in J
  PROVE  SumOver(w, S) = SumOver(FibreSums(w, f, S, J), J)
  <1> DEFINE v == FibreSums(w, f, S, J)
             Of(K) == {x \in S : f[x] \in K}
             Q == {K \in SUBSET J : SumOver(w, Of(K)) = SumOver(v, K)}
  <1>1. \A j \in J : IsFiniteSet(Fibre(f, S, j)) /\ v[j] \in Int
    <2> SUFFICES ASSUME NEW j \in J
                 PROVE  IsFiniteSet(Fibre(f, S, j)) /\ v[j] \in Int
      OBVIOUS
    <2>1. Fibre(f, S, j) \in SUBSET S
      BY DEF Fibre
    <2>2. IsFiniteSet(Fibre(f, S, j))
      BY <2>1, FS_Subset
    <2>3. SumOver(w, Fibre(f, S, j)) \in Int
      BY <2>1, <2>2, SumOverTakeOut
    <2>. QED
      BY <2>2, <2>3 DEF FibreSums
  <1>2. ASSUME NEW K \in SUBSET J, \A V \in SUBSET K : V # K => V \in Q
        PROVE  K \in Q
    <2>1. CASE K = {}
      <3>1. Of({}) = {}
        OBVIOUS
      <3>. QED
        BY <2>1, <3>1, SumOverEmpty
    <2>2. CASE K # {}
      <3>1. PICK j \in K : TRUE
        BY <2>2
      <3> DEFINE L == K \ {j}
                 F == Fibre(f, S, j)
      <3>2. SumOver(w, Of(L)) = SumOver(v, L)
        BY <1>2
      <3>3. Of(K) = Of(L) \cup F /\ Of(L) \cap F = {}
        BY DEF Fibre
      <3>4. IsFiniteSet(Of(L)) /\ IsFiniteSet(F) /\ IsFiniteSet(K) /\ IsFiniteSet(L)
        BY <1>1, FS_Subset
      <3>5. \A x \in Of(L) \cup F : w[x] \in Int
        BY DEF Fibre
      <3>6. v[j] = SumOver(w, F)
        BY DEF FibreSums
      <3>7. SumOver(v, K) = v[j] + SumOver(v, L) /\ SumOver(v, L) \in Int /\ v[j] \in Int
        <4> HIDE DEF v
        <4>. QED
          BY <1>1, <3>4, SumOverTakeOut
      <3>8. SumOver(w, Of(L) \cup F) = SumOver(w, Of(L)) + SumOver(w, F)
        <4> HIDE DEF Of, F
        <4>. QED
          BY <3>3, <3>4, <3>5, SumOverUnion
      <3>9. SumOver(w, Of(K)) = SumOver(v, K)
        <4> HIDE DEF v, Of, F, L
        <4>. QED
          BY <3>2, <3>3, <3>6, <3>7, <3>8
      <3>. QED
        BY <3>9
    <2>. QED
      BY <2>1, <2>2
  <1>3. J \in Q
    <2> HIDE DEF Q
    <2>. QED
      BY <1>2, SubsetInduction
  <1>4. Of(J) = S
    OBVIOUS
  <1> HIDE DEF Of
  <1>. QED
    BY <1>3, <1>4
-----------------------------------------------------------------------------
(* A set of natural numbers with an upper bound has a greatest element,     *)
(* which Max returns.                                                       *)
LEMMA MaxIsGreatest ==
  ASSUME NEW N \in Nat, NEW S, S \subseteq 0 .. N, S # {}
  PROVE  Max(S) \in S /\ \A y \in S : y <= Max(S)
  <1> DEFINE T == {n \in Nat : N - n \in S}
  <1>1. T # {}
    <2>1. PICK x \in S : TRUE
      OBVIOUS
    <2>2. N - x \in T
      OBVIOUS
    <2>. QED
      BY <2>2
  <1>2. T \subseteq Nat
    OBVIOUS
  <1>3. PICK n \in T : \A m \in T : n <= m
    <2> HIDE DEF T
    <2>. QED
      BY <1>1, <1>2, LeastNumber
  <1>4. \A y \in S : y \in Int /\ N - y \in T
    OBVIOUS
  <1>5. N - n \in S /\ \A y \in S : N - n >= y
    BY <1>3, <1>4
  <1>6. Max(S) \in S /\ \A y \in S : Max(S) >= y
    BY <1>5 DEF Max
  <1>. QED
    BY <1>6
=============================================================================
