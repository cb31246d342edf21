-------------------------------- MODULE Sums --------------------------------
(***************************************************************************)
(* What the books of the contracts need to know of sums: the value of      *)
(* SumFunction, whatever order it adds in, when its function is empty,     *)
(* typed, compared, changed at one place, extended, scaled or reindexed.   *)
(* SumFunctionOnSet is defined by recursion on a finite set; induction     *)
(* over that set is stated here about sets of sets, not about operators.   *)
(***************************************************************************)
EXTENDS Integers, FiniteSets, FiniteSetTheorems, Functions,
        WellFoundedInduction, TLAPS

-----------------------------------------------------------------------------
(* Induction.                                                              *)

LEMMA LessIsWellFounded == IsWellFoundedOn({ss \in Nat \X Nat : ss[1] < ss[2]}, Nat)
BY NatLessThanWellFounded DEF OpToRel

\* A set of numbers that has zero and successors has every number.
LEMMA NatSetInduction ==
  ASSUME NEW P, 0 \in P, \A n \in Nat : n \in P => n + 1 \in P
  PROVE  \A n \in Nat : n \in P
<1> DEFINE T == {n \in Nat : n \notin P}
           R == {ss \in Nat \X Nat : ss[1] < ss[2]}
<1>1. SUFFICES ASSUME T # {} PROVE FALSE
  OBVIOUS
<1>2. PICK x \in T : \A y \in T : ~ (<<y, x>> \in R)
  <2>1. IsWellFoundedOn(R, Nat)
    BY LessIsWellFounded
  <2>2. T \subseteq Nat
    OBVIOUS
  <2> HIDE DEF R, T
  <2>3. QED
    BY <1>1, <2>1, <2>2, WFMin
<1>3. x \in Nat /\ x # 0 /\ x \notin P
  OBVIOUS
<1> DEFINE y == x - 1
<1>4. y \in Nat /\ y < x /\ y + 1 = x
  BY <1>3
<1> HIDE DEF y
<1>5. <<y, x>> \in R
  BY <1>3, <1>4
<1>6. y \in P
  BY <1>2, <1>4, <1>5
<1>7. QED
  BY <1>3, <1>4, <1>6

\* A set of sets that has the empty set, and every finite subset of S with one
\* more element of S, has S.
LEMMA FiniteSetInduction ==
  ASSUME NEW S, IsFiniteSet(S), NEW P, {} \in P,
         \A T \in SUBSET S : \A x \in S \ T :
           T \in P /\ IsFiniteSet(T) => T \cup {x} \in P
  PROVE  S \in P
<1> DEFINE Q == {n \in Nat : \A T \in SUBSET S : Cardinality(T) = n => T \in P}
<1>1. 0 \in Q
  BY FS_Subset, FS_EmptySet
<1>2. ASSUME NEW n \in Nat, n \in Q PROVE n + 1 \in Q
  <2>1. SUFFICES ASSUME NEW T \in SUBSET S, Cardinality(T) = n + 1 PROVE T \in P
    OBVIOUS
  <2>2. IsFiniteSet(T)
    BY FS_Subset
  <2>3. PICK x : x \in T
    <3>1. n + 1 # 0
      OBVIOUS
    <3>2. T # {}
      BY <2>1, <3>1, FS_EmptySet
    <3>3. QED
      BY <3>2
  <2>4. IsFiniteSet(T \ {x}) /\ Cardinality(T \ {x}) = n
    <3>1. IsFiniteSet(T \ {x}) /\ Cardinality(T \ {x}) = Cardinality(T) - 1
      BY <2>2, <2>3, FS_RemoveElement
    <3>2. QED
      BY <2>1, <3>1
  <2>5. T \ {x} \in P
    BY <1>2, <2>4
  <2>6. T = (T \ {x}) \cup {x} /\ x \in S \ (T \ {x}) /\ T \ {x} \in SUBSET S
    BY <2>3
  <2>7. QED
    BY <2>4, <2>5, <2>6
<1> HIDE DEF Q
<1>3. \A n \in Nat : n \in Q
  BY <1>1, <1>2, NatSetInduction
<1>4. QED
  BY <1>3, FS_CardinalityType DEF Q

-----------------------------------------------------------------------------
(* The recursion of SumFunctionOnSet.                                      *)

Pick(s) == CHOOSE x \in s : TRUE

\* What the sum of every subset of S is, from smaller ones.
Unfolds(F, S, g) ==
  g = [s \in SUBSET S |-> IF s = {} THEN 0 ELSE F[Pick(s)] + g[s \ {Pick(s)}]]

LEMMA SumUnfolds ==
  ASSUME NEW F, NEW S
  PROVE  SumFunctionOnSet(F, S) = (CHOOSE g : Unfolds(F, S, g))[S]
BY DEF SumFunctionOnSet, FoldFunctionOnSet, MapThenFoldSet, Unfolds, Pick

LEMMA PickRemoved ==
  ASSUME NEW S, IsFiniteSet(S), NEW s \in SUBSET S, s # {}
  PROVE  /\ Pick(s) \in s /\ s \ {Pick(s)} \in SUBSET S
         /\ Cardinality(s \ {Pick(s)}) \in Nat
         /\ Cardinality(s) = Cardinality(s \ {Pick(s)}) + 1
<1>1. Pick(s) \in s
  BY DEF Pick
<1> DEFINE p == Pick(s)
<1> HIDE DEF p
<1>2. p \in s
  BY <1>1 DEF p
<1>3. IsFiniteSet(s) /\ Cardinality(s) \in Nat
  BY FS_Subset, FS_CardinalityType
<1>4. IsFiniteSet(s \ {p}) /\ Cardinality(s \ {p}) = Cardinality(s) - 1
  BY <1>2, <1>3, FS_RemoveElement
<1>5. Cardinality(s \ {p}) \in Nat
  BY <1>4, FS_CardinalityType
<1>6. QED
  BY <1>1, <1>3, <1>4, <1>5 DEF p

\* Of every finite set some function is such a recursion.
LEMMA UnfoldingExists ==
  ASSUME NEW F, NEW S, IsFiniteSet(S)
  PROVE  \E g : Unfolds(F, S, g)
<1> DEFINE Step(s, g) == IF s = {} THEN 0 ELSE F[Pick(s)] + g[s \ {Pick(s)}]
           Upto(n, g) == \A s \in SUBSET S : Cardinality(s) <= n => g[s] = Step(s, g)
           Q == {n \in Nat : \E g : Upto(n, g)}
<1>1. 0 \in Q
  <2>1. ASSUME NEW s \in SUBSET S, Cardinality(s) <= 0
        PROVE  s = {}
    <3>1. IsFiniteSet(s) /\ Cardinality(s) \in Nat
      BY FS_Subset, FS_CardinalityType
    <3>2. QED
      BY <2>1, <3>1, FS_EmptySet
  <2>2. Upto(0, [s \in SUBSET S |-> 0])
    BY <2>1
  <2> HIDE DEF Upto
  <2>3. QED
    BY <2>2
<1>2. ASSUME NEW n \in Nat, n \in Q PROVE n + 1 \in Q
  <2>1. PICK g : Upto(n, g)
    BY <1>2
  <2> DEFINE h == [s \in SUBSET S |-> Step(s, g)]
  <2>2. ASSUME NEW s \in SUBSET S, Cardinality(s) <= n + 1, s # {}
        PROVE  h[s] = F[Pick(s)] + h[s \ {Pick(s)}]
    <3> DEFINE r == s \ {Pick(s)}
    <3>1. Cardinality(r) \in Nat /\ Cardinality(s) = Cardinality(r) + 1 /\ r \in SUBSET S
      BY <2>2, PickRemoved
    <3>2. Cardinality(r) <= n
      BY <2>2, <3>1
    <3> HIDE DEF r
    <3>3. g[r] = Step(r, g)
      BY <2>1, <3>1, <3>2
    <3>4. h[r] = Step(r, g)
      BY <3>1
    <3>5. h[s] = F[Pick(s)] + g[r]
      BY <2>2 DEF r
    <3>6. QED
      BY <3>3, <3>4, <3>5 DEF r
  <2>3. h[{}] = 0
    OBVIOUS
  <2> HIDE DEF h
  <2>4. Upto(n + 1, h)
    BY <2>2, <2>3
  <2> HIDE DEF Upto
  <2>5. QED
    BY <2>4
<1>3. \A n \in Nat : n \in Q
  <2> HIDE DEF Q
  <2>1. QED
    BY <1>1, <1>2, NatSetInduction
<1>4. PICK g : Upto(Cardinality(S), g)
  BY <1>3, FS_CardinalityType
<1> DEFINE h == [s \in SUBSET S |-> g[s]]
<1>5. ASSUME NEW s \in SUBSET S
      PROVE  h[s] = Step(s, h)
  <2>1. Cardinality(s) <= Cardinality(S)
    BY FS_Subset
  <2>2. g[s] = Step(s, g)
    BY <1>4, <2>1
  <2>3. s \ {Pick(s)} \in SUBSET S
    OBVIOUS
  <2>4. QED
    BY <2>2, <2>3
<1>6. h = [s \in SUBSET S |-> Step(s, h)]
  <2>1. h = [s \in SUBSET S |-> h[s]]
    OBVIOUS
  <2> HIDE DEF h, Step
  <2>2. QED
    BY <1>5, <2>1
<1>7. Unfolds(F, S, h)
  BY <1>6 DEF Unfolds
<1>8. QED
  BY <1>7

\* Recursions over two sets agree on the subsets their functions agree on.
LEMMA UnfoldingsAgree ==
  ASSUME NEW F, NEW G, NEW S, NEW R, NEW g, NEW h,
         Unfolds(F, S, g), Unfolds(G, R, h),
         NEW T \in SUBSET S, T \in SUBSET R, IsFiniteSet(T),
         \A x \in T : F[x] = G[x]
  PROVE  g[T] = h[T]
<1> DEFINE Q == {n \in Nat : \A s \in SUBSET T : Cardinality(s) <= n => g[s] = h[s]}
<1>1. /\ \A s \in SUBSET T : s # {} => /\ g[s] = F[Pick(s)] + g[s \ {Pick(s)}]
                                      /\ h[s] = G[Pick(s)] + h[s \ {Pick(s)}]
      /\ g[{}] = h[{}]
  BY DEF Unfolds
<1>2. 0 \in Q
  <2>1. ASSUME NEW s \in SUBSET T, Cardinality(s) <= 0
        PROVE  s = {}
    <3>1. IsFiniteSet(s) /\ Cardinality(s) \in Nat
      BY FS_Subset, FS_CardinalityType
    <3>2. QED
      BY <2>1, <3>1, FS_EmptySet
  <2>2. QED
    BY <1>1, <2>1
<1>3. ASSUME NEW n \in Nat, n \in Q PROVE n + 1 \in Q
  <2>1. SUFFICES ASSUME NEW s \in SUBSET T, Cardinality(s) <= n + 1, s # {}
                 PROVE  g[s] = h[s]
    BY <1>1
  <2> DEFINE r == s \ {Pick(s)}
  <2>2. /\ Pick(s) \in s /\ r \in SUBSET T
        /\ Cardinality(r) \in Nat /\ Cardinality(s) = Cardinality(r) + 1
    BY <2>1, PickRemoved
  <2>3. Cardinality(r) <= n
    BY <2>1, <2>2
  <2>4. g[r] = h[r]
    BY <1>3, <2>2, <2>3
  <2>5. F[Pick(s)] = G[Pick(s)]
    BY <2>2
  <2> HIDE DEF r
  <2>6. QED
    BY <1>1, <2>1, <2>4, <2>5 DEF r
<1> HIDE DEF Q
<1>4. \A n \in Nat : n \in Q
  BY <1>2, <1>3, NatSetInduction
<1>5. Cardinality(T) \in Nat /\ T \in SUBSET T
  BY FS_CardinalityType
<1>6. QED
  BY <1>4, <1>5 DEF Q

-----------------------------------------------------------------------------
(* Sums over sets.                                                         *)

\* Nothing adds up to zero.
LEMMA SumOfNothing ==
  ASSUME NEW F
  PROVE  SumFunctionOnSet(F, {}) = 0
<1>1. PICK g : Unfolds(F, {}, g)
  BY UnfoldingExists, FS_EmptySet
<1> DEFINE W == CHOOSE h : Unfolds(F, {}, h)
<1>2. Unfolds(F, {}, W)
  BY <1>1
<1>3. SumFunctionOnSet(F, {}) = W[{}]
  BY SumUnfolds
<1> HIDE DEF W
<1>4. W[{}] = 0
  BY <1>2 DEF Unfolds
<1>5. QED
  BY <1>3, <1>4

\* A sum depends on nothing but the values that are summed.
LEMMA SumsAgree ==
  ASSUME NEW S, IsFiniteSet(S), NEW F, NEW G, \A x \in S : F[x] = G[x]
  PROVE  SumFunctionOnSet(F, S) = SumFunctionOnSet(G, S)
<1> DEFINE V == CHOOSE h : Unfolds(F, S, h)
           W == CHOOSE h : Unfolds(G, S, h)
<1>1. Unfolds(F, S, V) /\ Unfolds(G, S, W)
  BY UnfoldingExists
<1>2. SumFunctionOnSet(F, S) = V[S] /\ SumFunctionOnSet(G, S) = W[S]
  BY SumUnfolds
<1> HIDE DEF V, W
<1>3. S \in SUBSET S
  OBVIOUS
<1>4. QED
  BY <1>1, <1>2, <1>3, UnfoldingsAgree

\* A sum over a set is the picked element's value and the rest's sum.
LEMMA SumPicked ==
  ASSUME NEW S, IsFiniteSet(S), NEW F, S # {}
  PROVE  SumFunctionOnSet(F, S) = F[Pick(S)] + SumFunctionOnSet(F, S \ {Pick(S)})
<1> DEFINE R == S \ {Pick(S)}
           V == CHOOSE h : Unfolds(F, S, h)
           W == CHOOSE h : Unfolds(F, R, h)
<1>1. IsFiniteSet(R) /\ R \in SUBSET S /\ R \in SUBSET R
  BY FS_Subset
<1> HIDE DEF R
<1>2. Unfolds(F, S, V) /\ Unfolds(F, R, W)
  BY <1>1, UnfoldingExists
<1>3. SumFunctionOnSet(F, S) = V[S] /\ SumFunctionOnSet(F, R) = W[R]
  BY SumUnfolds
<1> HIDE DEF V, W
<1>4. V[R] = W[R]
  BY <1>1, <1>2, UnfoldingsAgree
<1>5. V[S] = F[Pick(S)] + V[R]
  BY <1>2 DEF Unfolds, R
<1>6. QED
  BY <1>3, <1>4, <1>5 DEF R

\* Integers add up to an integer, and it does not matter which is added first.
LEMMA SumTakesOut ==
  ASSUME NEW S, IsFiniteSet(S), NEW F, \A x \in S : F[x] \in Int
  PROVE  /\ SumFunctionOnSet(F, S) \in Int
         /\ \A x \in S : SumFunctionOnSet(F, S) = F[x] + SumFunctionOnSet(F, S \ {x})
<1> DEFINE Sum(s) == SumFunctionOnSet(F, s)
           Good(s) == Sum(s) \in Int /\ \A x \in s : Sum(s) = F[x] + Sum(s \ {x})
           Q == {n \in Nat : \A s \in SUBSET S : Cardinality(s) <= n => Good(s)}
<1>1. Good({})
  BY SumOfNothing
<1>2. 0 \in Q
  <2>1. ASSUME NEW s \in SUBSET S, Cardinality(s) <= 0
        PROVE  s = {}
    <3>1. IsFiniteSet(s) /\ Cardinality(s) \in Nat
      BY FS_Subset, FS_CardinalityType
    <3>2. QED
      BY <2>1, <3>1, FS_EmptySet
  <2> HIDE DEF Good
  <2>2. QED
    BY <1>1, <2>1
<1>3. ASSUME NEW n \in Nat, n \in Q PROVE n + 1 \in Q
  <2>1. SUFFICES ASSUME NEW s \in SUBSET S, Cardinality(s) <= n + 1, s # {}
                 PROVE  Good(s)
    <3> HIDE DEF Good
    <3>1. QED
      BY <1>1
  <2> DEFINE p == Pick(s)
             r == s \ {p}
  <2>2. /\ p \in s /\ r \in SUBSET S
        /\ Cardinality(r) \in Nat /\ Cardinality(s) = Cardinality(r) + 1
    BY <2>1, PickRemoved
  <2>3. Sum(s) = F[p] + Sum(r)
    <3>1. IsFiniteSet(s)
      BY FS_Subset
    <3>2. QED
      BY <2>1, <3>1, SumPicked
  <2>4. Good(r)
    <3> HIDE DEF Good
    <3>1. QED
      BY <1>3, <2>1, <2>2
  <2>5. F[p] \in Int /\ Sum(r) \in Int
    BY <2>2, <2>4
  <2>6. ASSUME NEW x \in s, x # p
        PROVE  Sum(s) = F[x] + Sum(s \ {x})
    <3> DEFINE u == s \ {x}
               v == r \ {x}
    <3>1. v = u \ {p} /\ p \in u /\ x \in r /\ F[x] \in Int
      BY <2>2, <2>6
    <3>2. Cardinality(u) <= n /\ u \in SUBSET S
      <4>1. IsFiniteSet(s) /\ Cardinality(s) \in Nat
        BY FS_Subset, FS_CardinalityType
      <4>2. Cardinality(u) = Cardinality(s) - 1
        BY <4>1, FS_RemoveElement
      <4>3. QED
        BY <2>1, <4>1, <4>2
    <3>3. Good(u)
      <4> HIDE DEF Good, u
      <4>1. QED
        BY <1>3, <3>2
    <3>4. Sum(u) = F[p] + Sum(v)
      BY <3>1, <3>3
    <3>5. Sum(r) = F[x] + Sum(v)
      BY <2>4, <3>1
    <3>6. Sum(v) \in Int
      <4>1. IsFiniteSet(v) /\ v \in SUBSET S
        BY <2>2, FS_Subset
      <4>2. Cardinality(v) <= n
        <5>1. Cardinality(v) <= Cardinality(r)
          BY <2>2, FS_Subset
        <5>2. Cardinality(v) \in Nat
          BY <4>1, FS_CardinalityType
        <5>3. QED
          BY <2>1, <2>2, <5>1, <5>2
      <4>3. Good(v)
        <5> HIDE DEF Good, v
        <5>1. QED
          BY <1>3, <4>1, <4>2
      <4>4. QED
        BY <4>3
    <3> HIDE DEF Sum, u, v, p, r
    <3>7. QED
      BY <2>3, <2>5, <3>1, <3>4, <3>5, <3>6 DEF u
  <2>7. Sum(s) \in Int
    BY <2>3, <2>5
  <2>8. QED
    <3> HIDE DEF Sum, p, r
    <3>1. \A x \in s : Sum(s) = F[x] + Sum(s \ {x})
      BY <2>3, <2>6 DEF r
    <3>2. QED
      BY <2>7, <3>1
<1> HIDE DEF Q, Good
<1>4. \A n \in Nat : n \in Q
  BY <1>2, <1>3, NatSetInduction
<1>5. Cardinality(S) \in Nat /\ S \in SUBSET S
  BY FS_CardinalityType
<1>6. Good(S)
  BY <1>4, <1>5 DEF Q
<1>7. QED
  BY <1>6 DEF Good

\* An element more adds its value.
LEMMA SumWith ==
  ASSUME NEW T, IsFiniteSet(T), NEW x, x \notin T, NEW F,
         \A y \in T \cup {x} : F[y] \in Int
  PROVE  /\ SumFunctionOnSet(F, T) \in Int
         /\ SumFunctionOnSet(F, T \cup {x}) = F[x] + SumFunctionOnSet(F, T)
<1>1. IsFiniteSet(T \cup {x})
  BY FS_AddElement
<1>2. (T \cup {x}) \ {x} = T
  OBVIOUS
<1>3. SumFunctionOnSet(F, T \cup {x}) = F[x] + SumFunctionOnSet(F, (T \cup {x}) \ {x})
  BY <1>1, SumTakesOut
<1>4. QED
  BY <1>2, <1>3, SumTakesOut

-----------------------------------------------------------------------------
(* Sums of functions.                                                      *)

LEMMA SumOfEmpty == ASSUME NEW F, DOMAIN F = {} PROVE SumFunction(F) = 0
BY SumOfNothing DEF SumFunction

\* A sum of a function is the sum over its domain of any function that agrees.
LEMMA SumOfFunction ==
  ASSUME NEW S, IsFiniteSet(S), NEW F \in [S -> Int], NEW G, \A x \in S : F[x] = G[x]
  PROVE  /\ SumFunction(F) \in Int
         /\ SumFunction(F) = SumFunctionOnSet(G, S)
<1>1. DOMAIN F = S /\ \A x \in S : F[x] \in Int
  OBVIOUS
<1>2. QED
  BY <1>1, SumsAgree, SumTakesOut DEF SumFunction

\* Integers add up to an integer.
LEMMA SumType ==
  ASSUME NEW S, IsFiniteSet(S), NEW F \in [S -> Int]
  PROVE  SumFunction(F) \in Int
BY SumOfFunction

\* A function that is nowhere larger has no larger sum.
LEMMA SumMonotone ==
  ASSUME NEW S, IsFiniteSet(S), NEW F \in [S -> Int], NEW G \in [S -> Int],
         \A x \in S : F[x] <= G[x]
  PROVE  SumFunction(F) <= SumFunction(G)
<1> DEFINE P == {T \in SUBSET S : SumFunctionOnSet(F, T) <= SumFunctionOnSet(G, T)}
<1>1. {} \in P
  BY SumOfNothing
<1>2. ASSUME NEW T \in SUBSET S, NEW x \in S \ T, T \in P, IsFiniteSet(T)
      PROVE  T \cup {x} \in P
  <2>1. /\ SumFunctionOnSet(F, T) \in Int /\ SumFunctionOnSet(G, T) \in Int
        /\ SumFunctionOnSet(F, T \cup {x}) = F[x] + SumFunctionOnSet(F, T)
        /\ SumFunctionOnSet(G, T \cup {x}) = G[x] + SumFunctionOnSet(G, T)
    BY <1>2, SumWith
  <2>2. QED
    BY <1>2, <2>1
<1> HIDE DEF P
<1>3. S \in P
  BY <1>1, <1>2, FiniteSetInduction
<1>4. QED
  BY <1>3, SumOfFunction DEF P

\* Zeros add up to zero.
LEMMA SumOfZeros ==
  ASSUME NEW S, IsFiniteSet(S), NEW F \in [S -> Int], \A x \in S : F[x] = 0
  PROVE  SumFunction(F) = 0
<1> DEFINE P == {T \in SUBSET S : SumFunctionOnSet(F, T) = 0}
<1>1. {} \in P
  BY SumOfNothing
<1>2. ASSUME NEW T \in SUBSET S, NEW x \in S \ T, T \in P, IsFiniteSet(T)
      PROVE  T \cup {x} \in P
  <2>1. SumFunctionOnSet(F, T \cup {x}) = F[x] + SumFunctionOnSet(F, T)
    BY <1>2, SumWith
  <2>2. QED
    BY <1>2, <2>1
<1> HIDE DEF P
<1>3. S \in P
  BY <1>1, <1>2, FiniteSetInduction
<1>4. QED
  BY <1>3, SumOfFunction DEF P

\* Natural numbers add up to one, and none is more than their sum.
LEMMA SumOfNaturals ==
  ASSUME NEW S, IsFiniteSet(S), NEW F \in [S -> Nat]
  PROVE  /\ SumFunction(F) \in Nat
         /\ \A x \in S : F[x] <= SumFunction(F)
<1>1. F \in [S -> Int] /\ \A x \in S : F[x] >= 0
  OBVIOUS
<1> DEFINE P == {T \in SUBSET S : SumFunctionOnSet(F, T) >= 0}
<1>2. {} \in P
  BY SumOfNothing
<1>3. ASSUME NEW T \in SUBSET S, NEW x \in S \ T, T \in P, IsFiniteSet(T)
      PROVE  T \cup {x} \in P
  <2>1. /\ SumFunctionOnSet(F, T) \in Int
        /\ SumFunctionOnSet(F, T \cup {x}) = F[x] + SumFunctionOnSet(F, T)
    BY <1>3, SumWith
  <2>2. QED
    BY <1>3, <2>1
<1> HIDE DEF P
<1>4. \A T \in SUBSET S : T \in P
  <2> SUFFICES ASSUME NEW T \in SUBSET S PROVE T \in P
    OBVIOUS
  <2>1. IsFiniteSet(T)
    BY FS_Subset
  <2>2. \A U \in SUBSET T : \A x \in T \ U :
          U \in P /\ IsFiniteSet(U) => U \cup {x} \in P
    BY <1>3
  <2>3. QED
    BY <1>2, <2>1, <2>2, FiniteSetInduction
<1>5. SumFunction(F) \in Int /\ SumFunction(F) = SumFunctionOnSet(F, S)
  BY <1>1, SumOfFunction
<1>6. ASSUME NEW x \in S PROVE F[x] <= SumFunction(F)
  <2>1. SumFunctionOnSet(F, S) = F[x] + SumFunctionOnSet(F, S \ {x})
    BY <1>1, SumTakesOut
  <2>2. SumFunctionOnSet(F, S \ {x}) \in Int
    <3>1. IsFiniteSet(S \ {x})
      BY FS_Subset
    <3>2. QED
      BY <3>1, SumTakesOut
  <2>3. SumFunctionOnSet(F, S \ {x}) >= 0
    BY <1>4 DEF P
  <2>4. QED
    BY <1>5, <2>1, <2>2, <2>3
<1>7. QED
  BY <1>4, <1>5, <1>6 DEF P

\* A value that changes changes the sum by as much.
LEMMA SumChanged ==
  ASSUME NEW S, IsFiniteSet(S), NEW F \in [S -> Int], NEW G \in [S -> Int],
         NEW x \in S, \A y \in S \ {x} : F[y] = G[y]
  PROVE  SumFunction(G) = SumFunction(F) + (G[x] - F[x])
<1>1. IsFiniteSet(S \ {x})
  BY FS_Subset
<1>2. SumFunctionOnSet(F, S \ {x}) = SumFunctionOnSet(G, S \ {x})
  BY <1>1, SumsAgree
<1>3. SumFunctionOnSet(F, S \ {x}) \in Int
  BY <1>1, SumTakesOut
<1>4. /\ SumFunctionOnSet(F, S) = F[x] + SumFunctionOnSet(F, S \ {x})
      /\ SumFunctionOnSet(G, S) = G[x] + SumFunctionOnSet(G, S \ {x})
  BY SumTakesOut
<1>5. SumFunction(F) = SumFunctionOnSet(F, S) /\ SumFunction(G) = SumFunctionOnSet(G, S)
  BY SumOfFunction
<1>6. F[x] \in Int /\ G[x] \in Int
  OBVIOUS
<1>7. QED
  BY <1>2, <1>3, <1>4, <1>5, <1>6

\* A function with one more argument has its value in its sum.
LEMMA SumExtended ==
  ASSUME NEW S, IsFiniteSet(S), NEW x, x \notin S, NEW F \in [S -> Int],
         NEW G \in [S \cup {x} -> Int], \A y \in S : F[y] = G[y]
  PROVE  SumFunction(G) = SumFunction(F) + G[x]
<1>1. SumFunction(F) = SumFunctionOnSet(G, S)
  BY SumOfFunction
<1>2. IsFiniteSet(S \cup {x})
  BY FS_AddElement
<1>3. SumFunction(G) = SumFunctionOnSet(G, S \cup {x})
  BY <1>2, SumOfFunction
<1>4. /\ SumFunctionOnSet(G, S) \in Int /\ G[x] \in Int
      /\ SumFunctionOnSet(G, S \cup {x}) = G[x] + SumFunctionOnSet(G, S)
  BY SumWith
<1>5. QED
  BY <1>1, <1>3, <1>4

\* A longer row has the value at its end in addition.
LEMMA SumAppended ==
  ASSUME NEW n \in Nat, NEW F \in [1..n -> Int], NEW G \in [1..(n + 1) -> Int],
         \A k \in 1..n : F[k] = G[k]
  PROVE  SumFunction(G) = SumFunction(F) + G[n + 1]
<1> DEFINE S == 1..n
           T == 1..(n + 1)
<1>1. IsFiniteSet(S) /\ IsFiniteSet(T)
  <2>1. 1 \in Int /\ n \in Int /\ n + 1 \in Int
    OBVIOUS
  <2>2. QED
    BY <2>1, FS_Interval
<1>2. S \cup {n + 1} = T /\ n + 1 \notin S
  OBVIOUS
<1>3. F \in [S -> Int] /\ G \in [T -> Int]
  OBVIOUS
<1>4. \A y \in S \cup {n + 1} : G[y] \in Int
  BY <1>2, <1>3
<1>5. \A y \in S : F[y] = G[y]
  OBVIOUS
<1> HIDE DEF S, T
<1>6. SumFunction(F) = SumFunctionOnSet(G, S)
  BY <1>1, <1>3, <1>5, SumOfFunction
<1>7. SumFunction(G) = SumFunctionOnSet(G, T)
  BY <1>1, <1>3, SumOfFunction
<1>8. /\ SumFunctionOnSet(G, S) \in Int
      /\ SumFunctionOnSet(G, S \cup {n + 1}) = G[n + 1] + SumFunctionOnSet(G, S)
  <2>1. ASSUME NEW x, x \notin S, \A y \in S \cup {x} : G[y] \in Int
        PROVE  /\ SumFunctionOnSet(G, S) \in Int
               /\ SumFunctionOnSet(G, S \cup {x}) = G[x] + SumFunctionOnSet(G, S)
    BY <1>1, <2>1, SumWith
  <2>2. QED
    BY <1>2, <1>4, <2>1
<1>9. G[n + 1] \in Int
  BY <1>4
<1>10. S \cup {n + 1} = T
  BY <1>2
<1>11. SumFunctionOnSet(G, T) = G[n + 1] + SumFunctionOnSet(G, S)
  BY <1>8, <1>10, Zenon
<1>12. SumFunctionOnSet(G, S) \in Int
  BY <1>8
<1>13. QED
  BY <1>6, <1>7, <1>9, <1>11, <1>12

\* Sums of two functions add up to the sum of the sums of their values.
LEMMA SumAdded ==
  ASSUME NEW S, IsFiniteSet(S), NEW F \in [S -> Int], NEW G \in [S -> Int],
         NEW H \in [S -> Int], \A x \in S : H[x] = F[x] + G[x]
  PROVE  SumFunction(H) = SumFunction(F) + SumFunction(G)
<1> DEFINE P == {T \in SUBSET S : SumFunctionOnSet(H, T) =
                   SumFunctionOnSet(F, T) + SumFunctionOnSet(G, T)}
<1>1. {} \in P
  BY SumOfNothing
<1>2. ASSUME NEW T \in SUBSET S, NEW x \in S \ T, T \in P, IsFiniteSet(T)
      PROVE  T \cup {x} \in P
  <2>1. /\ SumFunctionOnSet(F, T) \in Int /\ SumFunctionOnSet(G, T) \in Int
        /\ SumFunctionOnSet(F, T \cup {x}) = F[x] + SumFunctionOnSet(F, T)
        /\ SumFunctionOnSet(G, T \cup {x}) = G[x] + SumFunctionOnSet(G, T)
        /\ SumFunctionOnSet(H, T \cup {x}) = H[x] + SumFunctionOnSet(H, T)
    BY <1>2, SumWith
  <2>2. F[x] \in Int /\ G[x] \in Int /\ H[x] = F[x] + G[x]
    OBVIOUS
  <2>3. QED
    BY <1>2, <2>1, <2>2
<1> HIDE DEF P
<1>3. S \in P
  BY <1>1, <1>2, FiniteSetInduction
<1>4. QED
  BY <1>3, SumOfFunction DEF P

\* A factor of every value is a factor of the sum.
LEMMA SumScaled ==
  ASSUME NEW S, IsFiniteSet(S), NEW F \in [S -> Int], NEW c \in Int,
         NEW G \in [S -> Int], \A x \in S : G[x] = c * F[x]
  PROVE  SumFunction(G) = c * SumFunction(F)
<1> DEFINE P == {T \in SUBSET S : SumFunctionOnSet(G, T) = c * SumFunctionOnSet(F, T)}
<1>1. {} \in P
  BY SumOfNothing
<1>2. ASSUME NEW T \in SUBSET S, NEW x \in S \ T, T \in P, IsFiniteSet(T)
      PROVE  T \cup {x} \in P
  <2>1. /\ SumFunctionOnSet(F, T) \in Int /\ SumFunctionOnSet(G, T) \in Int
        /\ SumFunctionOnSet(F, T \cup {x}) = F[x] + SumFunctionOnSet(F, T)
        /\ SumFunctionOnSet(G, T \cup {x}) = G[x] + SumFunctionOnSet(G, T)
    BY <1>2, SumWith
  <2>2. F[x] \in Int /\ G[x] = c * F[x]
    OBVIOUS
  <2>3. SumFunctionOnSet(G, T) = c * SumFunctionOnSet(F, T)
    BY <1>2
  <2>4. c * (F[x] + SumFunctionOnSet(F, T)) = c * F[x] + c * SumFunctionOnSet(F, T)
    BY <2>1, <2>2
  <2>5. QED
    BY <2>1, <2>2, <2>3, <2>4
<1> HIDE DEF P
<1>3. S \in P
  BY <1>1, <1>2, FiniteSetInduction
<1>4. QED
  BY <1>3, SumOfFunction DEF P

\* A sum over part of a set is one over all of it, with zeros elsewhere.
LEMMA SumPadded ==
  ASSUME NEW S, IsFiniteSet(S), NEW R \in SUBSET S, NEW F \in [R -> Int],
         NEW G \in [S -> Int], \A x \in S : G[x] = IF x \in R THEN F[x] ELSE 0
  PROVE  SumFunction(F) = SumFunction(G)
<1> DEFINE P == {T \in SUBSET S : SumFunctionOnSet(G, T) = SumFunctionOnSet(F, T \cap R)}
<1>1. {} \in P
  BY SumOfNothing
<1>2. ASSUME NEW T \in SUBSET S, NEW x \in S \ T, T \in P, IsFiniteSet(T)
      PROVE  T \cup {x} \in P
  <2>1. /\ SumFunctionOnSet(G, T) \in Int
        /\ SumFunctionOnSet(G, T \cup {x}) = G[x] + SumFunctionOnSet(G, T)
    BY <1>2, SumWith
  <2>2. CASE x \in R
    <3>1. (T \cup {x}) \cap R = (T \cap R) \cup {x} /\ x \notin T \cap R
      BY <2>2
    <3>2. IsFiniteSet(T \cap R)
      BY <1>2, FS_Subset
    <3>3. SumFunctionOnSet(F, (T \cap R) \cup {x}) = F[x] + SumFunctionOnSet(F, T \cap R)
      BY <2>2, <3>1, <3>2, SumWith
    <3>4. QED
      BY <1>2, <2>1, <2>2, <3>1, <3>3
  <2>3. CASE x \notin R
    <3>1. (T \cup {x}) \cap R = T \cap R /\ G[x] = 0
      BY <2>3
    <3>2. SumFunctionOnSet(F, (T \cup {x}) \cap R) = SumFunctionOnSet(F, T \cap R)
      BY <3>1
    <3>3. SumFunctionOnSet(G, T \cup {x}) = SumFunctionOnSet(G, T)
      BY <2>1, <3>1
    <3>4. QED
      BY <1>2, <3>2, <3>3
  <2>4. QED
    BY <2>2, <2>3
<1> HIDE DEF P
<1>3. S \in P
  BY <1>1, <1>2, FiniteSetInduction
<1>4. S \cap R = R /\ IsFiniteSet(R)
  BY FS_Subset
<1>5. QED
  BY <1>3, <1>4, SumOfFunction DEF P

\* Distinct arguments of F, named by K, that have all of its values but zeros.
LEMMA SumReindexed ==
  ASSUME NEW S, IsFiniteSet(S), NEW F \in [S -> Int],
         NEW K, IsFiniteSet(K), NEW m \in [K -> S],
         \A j, k \in K : m[j] = m[k] => j = k,
         \A x \in S : (\A k \in K : m[k] # x) => F[x] = 0,
         NEW G \in [K -> Int], \A k \in K : G[k] = F[m[k]]
  PROVE  SumFunction(F) = SumFunction(G)
<1> DEFINE Part(T) == [x \in S |-> IF \E k \in T : m[k] = x THEN F[x] ELSE 0]
           P == {T \in SUBSET K : SumFunction(Part(T)) = SumFunctionOnSet(G, T)}
<1>0. \A T : Part(T) \in [S -> Int]
  OBVIOUS
<1>1. {} \in P
  <2>1. \A x \in S : Part({})[x] = 0
    OBVIOUS
  <2>2. SumFunction(Part({})) = 0
    <3> HIDE DEF Part
    <3>1. QED
      BY <1>0, <2>1, SumOfZeros
  <2>3. QED
    BY <2>2, SumOfNothing
<1>2. ASSUME NEW T \in SUBSET K, NEW j \in K \ T, T \in P, IsFiniteSet(T)
      PROVE  T \cup {j} \in P
  <2>1. SumFunctionOnSet(G, T) \in Int
        /\ SumFunctionOnSet(G, T \cup {j}) = G[j] + SumFunctionOnSet(G, T)
    BY <1>2, SumWith
  <2>2. /\ Part(T)[m[j]] = 0 /\ Part(T \cup {j})[m[j]] = G[j]
        /\ \A y \in S \ {m[j]} : Part(T)[y] = Part(T \cup {j})[y]
    <3>1. m[j] \in S /\ ~(\E k \in T : m[k] = m[j])
      OBVIOUS
    <3>2. Part(T)[m[j]] = 0 /\ Part(T \cup {j})[m[j]] = G[j]
      BY <3>1
    <3>3. ASSUME NEW y \in S \ {m[j]}
          PROVE  (\E k \in T \cup {j} : m[k] = y) <=> (\E k \in T : m[k] = y)
      OBVIOUS
    <3>4. QED
      BY <3>2, <3>3
  <2> HIDE DEF Part
  <2>3. SumFunction(Part(T \cup {j})) = SumFunction(Part(T)) + (G[j] - 0)
    <3> DEFINE A == Part(T)
               B == Part(T \cup {j})
    <3>1. A \in [S -> Int] /\ B \in [S -> Int] /\ m[j] \in S
      BY <1>0
    <3>2. A[m[j]] = 0 /\ B[m[j]] = G[j] /\ \A y \in S \ {m[j]} : A[y] = B[y]
      BY <2>2
    <3> HIDE DEF A, B
    <3>3. SumFunction(B) = SumFunction(A) + (B[m[j]] - A[m[j]])
      BY <3>1, <3>2, SumChanged
    <3>4. SumFunction(B) = SumFunction(A) + (G[j] - 0)
      BY <3>2, <3>3
    <3>5. QED
      BY <3>4 DEF A, B
  <2>4. G[j] \in Int
    OBVIOUS
  <2>5. SumFunction(Part(T)) = SumFunctionOnSet(G, T)
    BY <1>2
  <2>6. SumFunction(Part(T \cup {j})) = SumFunctionOnSet(G, T \cup {j})
    BY <2>1, <2>3, <2>4, <2>5
  <2>7. T \cup {j} \in SUBSET K
    OBVIOUS
  <2>8. QED
    BY <2>6, <2>7
<1>3. F = Part(K)
  <2>1. \A x \in S : F[x] = Part(K)[x]
    OBVIOUS
  <2>2. QED
    BY <2>1
<1> HIDE DEF P
<1>4. K \in P
  BY <1>1, <1>2, FiniteSetInduction
<1>5. QED
  <2> HIDE DEF Part
  <2>1. QED
    BY <1>3, <1>4, SumOfFunction DEF P
=============================================================================
