-------------------------------- MODULE Sums --------------------------------
(***************************************************************************)
(* What SumFunction of the community modules returns for any finite set:   *)
(* scores, weights, counts and means are such sums.  It is computed by a   *)
(* recursion over sets, and instead of an induction the least set for      *)
(* which a statement fails leads to a contradiction.                       *)
(***************************************************************************)
EXTENDS Integers, Functions, FiniteSetTheorems, TLAPS

WellFounded == INSTANCE WellFoundedInduction

\* One of S, as SumFunction picks it.
One(S) == CHOOSE x \in S : TRUE

Unfolds(g, f, D) == g = [s \in D |-> IF s = {} THEN 0 ELSE f[One(s)] + g[s \ {One(s)}]]

LEMMA SumByUnfolding ==
    ASSUME NEW S, NEW f \in [S -> Int]
    PROVE  SumFunction(f) = (CHOOSE g : Unfolds(g, f, SUBSET S))[S]
BY DEF SumFunction, SumFunctionOnSet, FoldFunctionOnSet, MapThenFoldSet, Unfolds, One

\* A set of numbers has a least one.
LEMMA LeastOf ==
    ASSUME NEW T, T \subseteq Nat, T # {}
    PROVE  \E x \in T : \A y \in T : ~(y < x)
<1> DEFINE R == {r \in Nat \X Nat : r[1] < r[2]}
<1>1. WellFounded!IsWellFoundedOn(R, Nat)
  BY WellFounded!NatLessThanWellFounded DEF WellFounded!OpToRel
<1>2. \A x, y \in Nat : y < x => <<y, x>> \in R
  OBVIOUS
<1> HIDE DEF R
<1>3. PICK x \in T : \A y \in T : <<y, x>> \notin R
  BY <1>1, WellFounded!WFMin
<1> QED
  BY <1>2, <1>3

Small(S, n) == {s \in SUBSET S : Cardinality(s) <= n}

LEMMA SmallUnfolds ==
    ASSUME NEW S, IsFiniteSet(S), NEW f \in [S -> Int], NEW n \in Nat,
           NEW g, Unfolds(g, f, Small(S, n))
    PROVE  \E k : Unfolds(k, f, Small(S, n + 1))
<1> DEFINE D == Small(S, n + 1)
           k == [s \in D |-> IF s = {} THEN 0 ELSE f[One(s)] + g[s \ {One(s)}]]
<1>1. \A s \in D : s # {} => s \ {One(s)} \in Small(S, n) /\ s \ {One(s)} \in D
  <2> SUFFICES ASSUME NEW s \in D, s # {}
               PROVE  s \ {One(s)} \in Small(S, n) /\ s \ {One(s)} \in D
    OBVIOUS
  <2>1. One(s) \in s /\ s \in SUBSET S /\ Cardinality(s) <= n + 1
    BY DEF One, Small
  <2>2. IsFiniteSet(s)
    BY <2>1, FS_Subset
  <2>3. Cardinality(s \ {One(s)}) = Cardinality(s) - 1 /\ Cardinality(s) \in Nat
    BY <2>1, <2>2, FS_RemoveElement, FS_CardinalityType
  <2> QED
    BY <2>1, <2>3 DEF Small
<1>2. \A s \in Small(S, n) : k[s] = g[s]
  <2>1. \A s \in Small(S, n) : s \in D
    <3>1. \A s \in Small(S, n) : Cardinality(s) \in Nat
      BY FS_Subset, FS_CardinalityType DEF Small
    <3> QED
      BY <3>1 DEF Small
  <2>2. \A s \in Small(S, n) : g[s] = IF s = {} THEN 0 ELSE f[One(s)] + g[s \ {One(s)}]
    BY DEF Unfolds
  <2> QED
    BY <2>1, <2>2
<1>3. k = [s \in D |-> IF s = {} THEN 0 ELSE f[One(s)] + k[s \ {One(s)}]]
  <2>1. \A s \in D : s # {} => k[s \ {One(s)}] = g[s \ {One(s)}]
    BY <1>1, <1>2
  <2> QED
    BY <2>1
<1> QED
  BY <1>3 DEF Unfolds

LEMMA AllUnfold ==
    ASSUME NEW S, IsFiniteSet(S), NEW f \in [S -> Int]
    PROVE  \E g : Unfolds(g, f, SUBSET S)
<1> DEFINE T == {n \in Nat : ~\E g : Unfolds(g, f, Small(S, n))}
<1>1. \A n \in Nat : \E g : Unfolds(g, f, Small(S, n))
  <2> SUFFICES ASSUME T # {} PROVE FALSE
    OBVIOUS
  <2>1. PICK n \in T : \A m \in T : ~(m < n)
    <3>1. T \subseteq Nat
      OBVIOUS
    <3> QED
      BY <3>1, LeastOf
  <2>2. CASE n = 0
    <3>1. Small(S, 0) = {{}}
      <4>1. \A s \in SUBSET S : Cardinality(s) <= 0 <=> s = {}
        BY FS_Subset, FS_EmptySet, FS_CardinalityType
      <4> QED
        BY <4>1 DEF Small
    <3>2. Unfolds([s \in {{}} |-> 0], f, {{}})
      BY DEF Unfolds
    <3> QED
      BY <2>1, <2>2, <3>1, <3>2
  <2>3. CASE n # 0
    <3>1. n - 1 \in Nat /\ n - 1 \notin T /\ n = (n - 1) + 1
      BY <2>1, <2>3
    <3>2. PICK g : Unfolds(g, f, Small(S, n - 1))
      BY <3>1
    <3>3. \E k : Unfolds(k, f, Small(S, (n - 1) + 1))
      BY <3>1, <3>2, SmallUnfolds
    <3> QED
      BY <2>1, <3>1, <3>3
  <2> QED
    BY <2>2, <2>3
<1>2. Small(S, Cardinality(S)) = SUBSET S /\ Cardinality(S) \in Nat
  BY FS_Subset, FS_CardinalityType DEF Small
<1> HIDE DEF T
<1> QED
  BY <1>1, <1>2

\* What SumFunction computes on the way: the sum of each set of indices, which is
\* nothing of none, and otherwise the value at one of them and the sum of the rest.
SumsUp(g, f, S) ==
    /\ g \in [SUBSET S -> Int]
    /\ SumFunction(f) = g[S]
    /\ g[{}] = 0
    /\ \A s \in SUBSET S : s # {} =>
          One(s) \in s /\ g[s] = f[One(s)] + g[s \ {One(s)}]

LEMMA SumUnfolds ==
    ASSUME NEW S, IsFiniteSet(S), NEW f \in [S -> Int]
    PROVE  \E g : SumsUp(g, f, S)
<1> DEFINE h == CHOOSE g : Unfolds(g, f, SUBSET S)
<1>1. Unfolds(h, f, SUBSET S)
  BY AllUnfold
<1>2. SumFunction(f) = h[S]
  BY SumByUnfolding
<1> HIDE DEF h
<1>3. \A s \in SUBSET S : h[s] = IF s = {} THEN 0 ELSE f[One(s)] + h[s \ {One(s)}]
  BY <1>1 DEF Unfolds
<1>4. \A s \in SUBSET S : s # {} => One(s) \in s
  BY DEF One
<1>5. \A s \in SUBSET S : h[s] \in Int
  <2> DEFINE T == {Cardinality(s) : s \in {r \in SUBSET S : h[r] \notin Int}}
  <2> SUFFICES ASSUME T # {} PROVE FALSE
    OBVIOUS
  <2>1. \A s \in SUBSET S : IsFiniteSet(s) /\ Cardinality(s) \in Nat
    BY FS_Subset, FS_CardinalityType
  <2>2. PICK n \in T : \A m \in T : ~(m < n)
    <3>1. T \subseteq Nat
      BY <2>1
    <3> QED
      BY <3>1, LeastOf
  <2>3. PICK s \in SUBSET S : h[s] \notin Int /\ n = Cardinality(s)
    BY <2>2
  <2>4. s # {} /\ One(s) \in S
    BY <1>3, <1>4, <2>3
  <2>5. s \ {One(s)} \in SUBSET S /\ Cardinality(s \ {One(s)}) = n - 1
    BY <1>4, <2>1, <2>3, <2>4, FS_RemoveElement
  <2>6. n \in Nat /\ n - 1 < n
    BY <2>1, <2>3
  <2>7. h[s \ {One(s)}] \in Int
    BY <2>2, <2>5, <2>6
  <2>8. f[One(s)] \in Int
    BY <2>4
  <2>9. h[s] = f[One(s)] + h[s \ {One(s)}]
    BY <1>3, <2>3, <2>4
  <2> QED
    BY <2>3, <2>7, <2>8, <2>9
<1>6. h = [s \in SUBSET S |-> h[s]]
  BY <1>1 DEF Unfolds
<1>7. h \in [SUBSET S -> Int]
  BY <1>5, <1>6
<1> QED
  BY <1>2, <1>3, <1>4, <1>7 DEF SumsUp

\* A sum of integers is one; of natural numbers, a natural number.
LEMMA SumIsInteger ==
    ASSUME NEW S, IsFiniteSet(S), NEW f \in [S -> Int]
    PROVE  SumFunction(f) \in Int
<1>1. PICK g : SumsUp(g, f, S)
  BY SumUnfolds
<1>2. SumFunction(f) = g[S] /\ g \in [SUBSET S -> Int]
  BY <1>1 DEF SumsUp
<1> QED
  BY <1>2

LEMMA SumIsNatural ==
    ASSUME NEW S, IsFiniteSet(S), NEW f \in [S -> Nat]
    PROVE  SumFunction(f) \in Nat
<1>1. PICK g : SumsUp(g, f, S)
  <2>1. f \in [S -> Int]
    OBVIOUS
  <2> QED
    BY <2>1, SumUnfolds
<1> DEFINE T == {Cardinality(s) : s \in {r \in SUBSET S : g[r] \notin Nat}}
<1> SUFFICES ASSUME T # {} PROVE FALSE
  BY <1>1 DEF SumsUp
<1>2. \A s \in SUBSET S : IsFiniteSet(s) /\ Cardinality(s) \in Nat
  BY FS_Subset, FS_CardinalityType
<1>3. PICK n \in T : \A m \in T : ~(m < n)
  <2>1. T \subseteq Nat
    BY <1>2
  <2> QED
    BY <2>1, LeastOf
<1>4. PICK s \in SUBSET S : g[s] \notin Nat /\ n = Cardinality(s)
  BY <1>3
<1>5. s # {}
  <2>1. g[{}] = 0
    BY <1>1 DEF SumsUp
  <2> QED
    BY <1>4, <2>1
<1>6. One(s) \in s /\ g[s] = f[One(s)] + g[s \ {One(s)}]
  BY <1>1, <1>5 DEF SumsUp
<1>7. s \ {One(s)} \in SUBSET S /\ Cardinality(s \ {One(s)}) = n - 1
  BY <1>2, <1>4, <1>6, FS_RemoveElement
<1>8. n \in Nat /\ n - 1 < n
  BY <1>2, <1>4
<1>9. g[s \ {One(s)}] \in Nat
  BY <1>3, <1>7, <1>8
<1>10. f[One(s)] \in Nat
  BY <1>6
<1> QED
  BY <1>4, <1>6, <1>9, <1>10

\* When one term changes, the sum changes by the difference.
LEMMA SumOfChanged ==
    ASSUME NEW S, IsFiniteSet(S), NEW f \in [S -> Int], NEW a \in S, NEW x \in Int
    PROVE  SumFunction([f EXCEPT ![a] = x]) = SumFunction(f) + x - f[a]
<1> DEFINE e == [f EXCEPT ![a] = x]
<1>0. e \in [S -> Int] /\ e[a] = x /\ \A b \in S \ {a} : e[b] = f[b]
  OBVIOUS
<1> HIDE DEF e
<1>1. PICK g : SumsUp(g, f, S)
  BY SumUnfolds
<1>2. PICK k : SumsUp(k, e, S)
  BY <1>0, SumUnfolds
<1> DEFINE Fine(s) == k[s] = g[s] + (IF a \in s THEN x - f[a] ELSE 0)
           T == {Cardinality(s) : s \in {r \in SUBSET S : ~Fine(r)}}
<1>3. \A s \in SUBSET S : Fine(s)
  <2> SUFFICES ASSUME T # {} PROVE FALSE
    OBVIOUS
  <2>2. \A s \in SUBSET S : IsFiniteSet(s) /\ Cardinality(s) \in Nat
    BY FS_Subset, FS_CardinalityType
  <2>3. PICK n \in T : \A m \in T : ~(m < n)
    <3>1. T \subseteq Nat
      BY <2>2
    <3> HIDE DEF T
    <3> QED
      BY <3>1, LeastOf
  <2>4. PICK s \in SUBSET S : ~Fine(s) /\ n = Cardinality(s)
    BY <2>3
  <2>5. s # {}
    <3>1. g[{}] = 0 /\ k[{}] = 0
      BY <1>1, <1>2 DEF SumsUp
    <3>2. Fine({})
      BY <3>1
    <3> QED
      BY <2>4, <3>2
  <2>6. /\ One(s) \in s /\ One(s) \in S
        /\ g[s] = f[One(s)] + g[s \ {One(s)}] /\ k[s] = e[One(s)] + k[s \ {One(s)}]
    BY <1>1, <1>2, <2>5 DEF SumsUp
  <2>7. s \ {One(s)} \in SUBSET S /\ Cardinality(s \ {One(s)}) = n - 1
    BY <2>2, <2>4, <2>6, FS_RemoveElement
  <2>8. n \in Nat /\ n - 1 < n
    BY <2>2, <2>4
  <2>9. Fine(s \ {One(s)})
    BY <2>3, <2>7, <2>8
  <2>10. /\ f[One(s)] \in Int /\ f[a] \in Int /\ e[One(s)] \in Int
         /\ g[s \ {One(s)}] \in Int /\ k[s \ {One(s)}] \in Int
    BY <1>0, <1>1, <1>2, <2>6, <2>7 DEF SumsUp
  <2> QED
    BY <1>0, <2>4, <2>6, <2>9, <2>10
<1>4. /\ SumFunction(f) \in Int /\ f[a] \in Int
      /\ SumFunction(e) = SumFunction(f) + (x - f[a])
  BY <1>1, <1>2, <1>3 DEF SumsUp
<1> QED
  BY <1>4 DEF e

\* When no term is less, the sum is not less.
LEMMA SumOfLess ==
    ASSUME NEW S, IsFiniteSet(S), NEW f \in [S -> Int], NEW e \in [S -> Int],
           \A i \in S : f[i] <= e[i]
    PROVE  SumFunction(f) <= SumFunction(e)
<1>1. PICK g : SumsUp(g, f, S)
  BY SumUnfolds
<1>2. PICK k : SumsUp(k, e, S)
  BY SumUnfolds
<1> DEFINE T == {Cardinality(s) : s \in {r \in SUBSET S : ~(g[r] <= k[r])}}
<1>3. \A s \in SUBSET S : g[s] <= k[s]
  <2> SUFFICES ASSUME T # {} PROVE FALSE
    OBVIOUS
  <2>2. \A s \in SUBSET S : IsFiniteSet(s) /\ Cardinality(s) \in Nat
    BY FS_Subset, FS_CardinalityType
  <2>3. PICK n \in T : \A m \in T : ~(m < n)
    <3>1. T \subseteq Nat
      BY <2>2
    <3> HIDE DEF T
    <3> QED
      BY <3>1, LeastOf
  <2>4. PICK s \in SUBSET S : ~(g[s] <= k[s]) /\ n = Cardinality(s)
    BY <2>3
  <2>5. s # {}
    <3>1. g[{}] = 0 /\ k[{}] = 0
      BY <1>1, <1>2 DEF SumsUp
    <3> QED
      BY <2>4, <3>1
  <2>6. /\ One(s) \in s /\ One(s) \in S
        /\ g[s] = f[One(s)] + g[s \ {One(s)}] /\ k[s] = e[One(s)] + k[s \ {One(s)}]
    BY <1>1, <1>2, <2>5 DEF SumsUp
  <2>7. s \ {One(s)} \in SUBSET S /\ Cardinality(s \ {One(s)}) = n - 1
    BY <2>2, <2>4, <2>6, FS_RemoveElement
  <2>8. n \in Nat /\ n - 1 < n
    BY <2>2, <2>4
  <2>9. g[s \ {One(s)}] <= k[s \ {One(s)}]
    BY <2>3, <2>7, <2>8
  <2>10. /\ f[One(s)] \in Int /\ e[One(s)] \in Int /\ f[One(s)] <= e[One(s)]
         /\ g[s \ {One(s)}] \in Int /\ k[s \ {One(s)}] \in Int
    BY <1>1, <1>2, <2>6, <2>7 DEF SumsUp
  <2> QED
    BY <2>4, <2>6, <2>9, <2>10
<1> QED
  BY <1>1, <1>2, <1>3 DEF SumsUp

\* A finite set of numbers has a greatest one.
LEMMA GreatestOf ==
    ASSUME NEW S, IsFiniteSet(S), S \subseteq Int, S # {}
    PROVE  \E x \in S : \A y \in S : y <= x
<1> DEFINE Topped(r) == \E x \in r : \A y \in r : y <= x
           T == {Cardinality(s) : s \in {r \in SUBSET S : r # {} /\ ~Topped(r)}}
<1> SUFFICES ASSUME T # {} PROVE FALSE
  OBVIOUS
<1>1. \A s \in SUBSET S : IsFiniteSet(s) /\ Cardinality(s) \in Nat
  BY FS_Subset, FS_CardinalityType
<1>2. PICK n \in T : \A m \in T : ~(m < n)
  <2>1. T \subseteq Nat
    BY <1>1
  <2> HIDE DEF T
  <2> QED
    BY <2>1, LeastOf
<1>3. PICK s \in SUBSET S : s # {} /\ ~Topped(s) /\ n = Cardinality(s)
  BY <1>2
<1>4. PICK z : z \in s
  BY <1>3
<1>5. s \ {z} \in SUBSET S /\ Cardinality(s \ {z}) = n - 1
  BY <1>1, <1>3, <1>4, FS_RemoveElement
<1>6. n \in Nat /\ n - 1 < n
  BY <1>1, <1>3
<1>7. s \ {z} = {} \/ Topped(s \ {z})
  BY <1>2, <1>5, <1>6
<1>8. \A y \in s : y \in Int
  OBVIOUS
<1> QED
  BY <1>3, <1>4, <1>7, <1>8
=============================================================================
