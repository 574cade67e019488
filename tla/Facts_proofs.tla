------------------------------ MODULE Facts_proofs ------------------------------
(***************************************************************************)
(* Facts about numbers, functions and recursion that the proofs of several *)
(* components use.                                                         *)
(***************************************************************************)
EXTENDS Integers, FiniteSets, FiniteSetsExt, FiniteSetTheorems, WellFoundedInduction, TLAPS

(* Induction, over a set instead of a predicate: the provers can instantiate a set *)
LEMMA SetInduction ==
    ASSUME NEW T, 0 \in T, \A n \in Nat : n \in T => n + 1 \in T
    PROVE  Nat \subseteq T
<1> SUFFICES ASSUME NEW m \in Nat, m \notin T PROVE FALSE
  OBVIOUS
<1> DEFINE C == Nat \ T
           R == {ss \in Nat \X Nat : ss[1] < ss[2]}
<1>1. IsWellFoundedOn(R, Nat)
  BY NatLessThanWellFounded DEF OpToRel
<1> HIDE DEF R
<1>2. PICK x \in C : \A y \in C : ~ (<<y, x>> \in R)
  BY <1>1, WFMin
<1>3. x \in Nat /\ x # 0
  OBVIOUS
<1>4. x - 1 \in C
  BY <1>3
<1>5. <<x - 1, x>> \in R
  BY <1>3 DEF R
<1> QED BY <1>2, <1>4, <1>5

Recursive(n, S, a, G) ==
    \E f \in [0..n -> S] : f[0] = a /\ \A i \in 1..n : f[i] = G[<<f[i - 1], i - 1>>]

(* A function on 0..n is built from its value at 0 and a step *)
LEMMA Recursion ==
    ASSUME NEW n \in Nat, NEW I, 0..(n - 1) \subseteq I,
           NEW S, NEW a \in S, NEW G \in [S \X I -> S]
    PROVE  Recursive(n, S, a, G)
<1> DEFINE Built(f, m) == f[0] = a /\ \A i \in 1..m : f[i] = G[<<f[i - 1], i - 1>>]
           T == {m \in Nat : m <= n => \E f \in [0..m -> S] : Built(f, m)}
<1>1. 0 \in T
  <2>1. [i \in 0..0 |-> a] \in [0..0 -> S] /\ Built([i \in 0..0 |-> a], 0)
    OBVIOUS
  <2> QED BY <2>1
<1>2. ASSUME NEW m \in Nat, m \in T PROVE m + 1 \in T
  <2> SUFFICES ASSUME m + 1 <= n PROVE \E f \in [0..(m + 1) -> S] : Built(f, m + 1)
    OBVIOUS
  <2>1. PICK f \in [0..m -> S] : Built(f, m)
    BY <1>2
  <2> DEFINE last == G[<<f[m], m>>]
             g == [i \in 0..(m + 1) |-> IF i = m + 1 THEN last ELSE f[i]]
  <2>2. last \in S
    <3>1. m \in I /\ f[m] \in S
      OBVIOUS
    <3> QED BY <3>1
  <2>3. g \in [0..(m + 1) -> S]
    BY <2>2
  <2>4. ASSUME NEW i \in 1..(m + 1) PROVE g[i] = G[<<g[i - 1], i - 1>>]
    <3>1. CASE i = m + 1
      <4>1. g[i] = last /\ g[i - 1] = f[m] /\ i - 1 = m
        BY <3>1
      <4> QED BY <4>1
    <3>2. CASE i \in 1..m
      <4>1. g[i] = f[i] /\ g[i - 1] = f[i - 1]
        BY <3>2
      <4> QED BY <4>1, <3>2, <2>1
    <3> QED BY <3>1, <3>2
  <2>5. g[0] = a
    BY <2>1
  <2> QED BY <2>3, <2>4, <2>5
<1>3. n \in T
  <2> HIDE DEF T
  <2> QED BY <1>1, <1>2, SetInduction
<1> QED BY <1>3 DEF Recursive

(* What holds at 0 and is kept by every step holds up to n *)
LEMMA UpTo ==
    ASSUME NEW n \in Nat, NEW T, 0 \in T, \A k \in 0..(n - 1) : k \in T => k + 1 \in T
    PROVE  0..n \subseteq T
<1> DEFINE U == {k \in Nat : k <= n => k \in T}
<1>1. 0 \in U
  OBVIOUS
<1>2. \A k \in Nat : k \in U => k + 1 \in U
  OBVIOUS
<1>3. Nat \subseteq U
  <2> HIDE DEF U
  <2> QED BY <1>1, <1>2, SetInduction
<1> QED BY <1>3

(* An element doubles the subsets of a set ... *)
LEMMA SubsetsDouble ==
    ASSUME NEW S, IsFiniteSet(S), NEW x, x \notin S
    PROVE  Cardinality(SUBSET (S \cup {x})) = 2 * Cardinality(SUBSET S)
<1> DEFINE Subsets == SUBSET S
           Extended == {X \cup {x} : X \in Subsets}
           f == [X \in Subsets |-> X \cup {x}]
<1>1. \A X, Y \in Subsets : X \cup {x} = Y \cup {x} => X = Y
  <2>1. \A X \in Subsets : X = {y \in S : y \in X \cup {x}}
    OBVIOUS
  <2> QED BY <2>1
<1>2. SUBSET (S \cup {x}) = Subsets \cup Extended
  <2>1. ASSUME NEW X \in SUBSET (S \cup {x}), x \in X PROVE X \in Extended
    <3>1. X \ {x} \in Subsets /\ X = (X \ {x}) \cup {x}
      BY <2>1
    <3> QED BY <3>1
  <2>2. ASSUME NEW X \in SUBSET (S \cup {x}), x \notin X PROVE X \in Subsets
    BY <2>2
  <2>3. Extended \subseteq SUBSET (S \cup {x})
    OBVIOUS
  <2> QED BY <2>1, <2>2, <2>3
<1>3. Subsets \cap Extended = {}
  <2>1. \A Y \in Extended : x \in Y
    OBVIOUS
  <2>2. \A Y \in Subsets : x \notin Y
    OBVIOUS
  <2> QED BY <2>1, <2>2
<1>4. IsFiniteSet(Subsets) /\ Cardinality(Subsets) \in Nat
  BY FS_SUBSET, FS_CardinalityType
<1>5. f \in [Subsets -> Extended] /\ \A X \in Subsets : f[X] = X \cup {x}
  OBVIOUS
<1>6. \A Y \in Extended : \E X \in Subsets : X \cup {x} = Y
  OBVIOUS
<1> HIDE DEF Subsets, Extended, f
<1>7. f \in Bijection(Subsets, Extended)
  <2>1. IsInjective(f)
    BY <1>1, <1>5 DEF IsInjective
  <2>2. \A Y \in Extended : \E X \in Subsets : f[X] = Y
    BY <1>5, <1>6
  <2> QED BY <1>5, <2>1, <2>2 DEF Bijection, Injection, Surjection
<1>8. IsFiniteSet(Extended) /\ Cardinality(Extended) = Cardinality(Subsets)
  BY <1>4, <1>7, FS_Bijection DEF ExistsBijection
<1>9. Cardinality(Subsets \cap Extended) = 0
  BY <1>3, FS_EmptySet
<1>10. Cardinality(Subsets \cup Extended) = 2 * Cardinality(Subsets)
  <2>1. Cardinality(Subsets \cup Extended)
           = Cardinality(Subsets) + Cardinality(Extended) - Cardinality(Subsets \cap Extended)
    BY <1>4, <1>8, FS_Union
  <2> QED BY <1>4, <1>8, <1>9, <2>1
<1> QED BY <1>2, <1>10 DEF Subsets

(* ... which are the powers of two, that no backend computes *)
LEMMA PowerOfTwo ==
    ASSUME NEW n \in Nat
    PROVE  2 ^ n \in Nat \ {0} /\ 2 ^ (n + 1) = 2 * 2 ^ n
<1>1. /\ IsFiniteSet(1..n) /\ Cardinality(1..n) = n
      /\ IsFiniteSet(1..(n + 1)) /\ Cardinality(1..(n + 1)) = n + 1
  BY FS_Interval
<1>2. /\ IsFiniteSet(SUBSET (1..n)) /\ Cardinality(SUBSET (1..n)) = 2 ^ n
      /\ Cardinality(SUBSET (1..(n + 1))) = 2 ^ (n + 1)
  BY <1>1, FS_SUBSET
<1>3. Cardinality(SUBSET (1..n)) \in Nat /\ Cardinality(SUBSET (1..n)) # 0
  <2>1. SUBSET (1..n) # {}
    OBVIOUS
  <2> QED BY <1>2, <2>1, FS_CardinalityType, FS_EmptySet
<1>4. n + 1 \notin 1..n /\ 1..(n + 1) = (1..n) \cup {n + 1}
  OBVIOUS
<1>5. Cardinality(SUBSET (1..(n + 1))) = 2 * Cardinality(SUBSET (1..n))
  BY <1>1, <1>4, SubsetsDouble
<1> QED BY <1>2, <1>3, <1>5

LEMMA PowerZero == 2 ^ 0 = 1
<1>1. IsFiniteSet({}) /\ Cardinality({}) = 0
  BY FS_EmptySet
<1>2. Cardinality(SUBSET {}) = 2 ^ 0
  BY <1>1, FS_SUBSET
<1>3. SUBSET {} = {{}}
  OBVIOUS
<1>4. Cardinality({{}}) = 1
  BY FS_Singleton
<1> QED BY <1>2, <1>3, <1>4

-----------------------------------------------------------------------------
(* Division by any positive number *)
LEMMA DivUnique ==
    ASSUME NEW a \in Nat, NEW b \in Nat \ {0}, NEW q \in Nat, NEW r \in 0..(b - 1), a = b * q + r
    PROVE  a \div b = q
OBVIOUS

LEMMA DivExists ==
    ASSUME NEW a \in Nat, NEW b \in Nat \ {0}
    PROVE  \E q \in Nat, r \in 0..(b - 1) : a = b * q + r /\ a \div b = q
<1> DEFINE T == {n \in Nat : \E q \in Nat, r \in 0..(b - 1) : n = b * q + r}
<1>1. 0 \in T
  <2>1. 0 = b * 0 + 0 /\ 0 \in 0..(b - 1)
    OBVIOUS
  <2> QED BY <2>1
<1>2. ASSUME NEW n \in Nat, n \in T PROVE n + 1 \in T
  <2>1. PICK q \in Nat, r \in 0..(b - 1) : n = b * q + r
    BY <1>2
  <2>2. CASE r + 1 < b
    <3>1. n + 1 = b * q + (r + 1) /\ r + 1 \in 0..(b - 1)
      BY <2>1, <2>2
    <3> QED BY <3>1
  <2>3. CASE r + 1 = b
    <3>1. PICK p \in Nat : p = q + 1
      OBVIOUS
    <3>2. b * p = b * q + b
      BY <3>1
    <3>3. n + 1 = b * p + 0 /\ 0 \in 0..(b - 1)
      BY <2>1, <2>3, <3>2
    <3> QED BY <3>3
  <2> QED BY <2>2, <2>3
<1>3. a \in T
  <2> HIDE DEF T
  <2> QED BY <1>1, <1>2, SetInduction
<1> QED BY <1>3, DivUnique

LEMMA DivTwice ==
    ASSUME NEW a \in Nat, NEW m \in Nat \ {0}
    PROVE  a \div m \in Nat /\ a \div (2 * m) = (a \div m) \div 2
<1>1. PICK q \in Nat, r \in 0..(m - 1) : a = m * q + r /\ a \div m = q
  BY DivExists
<1>2. PICK u \in Nat, v \in 0..1 : u = q \div 2 /\ q = 2 * u + v
  OBVIOUS
<1>3. m * q = (2 * m) * u + m * v /\ m * v \in {0, m}
  BY <1>2
<1>4. PICK c \in 0..(2 * m - 1) : c = m * v + r
  BY <1>3
<1>5. a = (2 * m) * u + c
  BY <1>1, <1>3, <1>4
<1>6. a \div (2 * m) = u
  BY <1>5, DivUnique
<1> QED BY <1>1, <1>2, <1>6

-----------------------------------------------------------------------------
(* The least and the greatest element of a set *)
LEMMA MinOf ==
    ASSUME NEW S \in SUBSET Nat, S # {}
    PROVE  Min(S) \in S /\ \A x \in S : Min(S) <= x
<1> DEFINE R == {ss \in Nat \X Nat : ss[1] < ss[2]}
<1>1. IsWellFoundedOn(R, Nat)
  BY NatLessThanWellFounded DEF OpToRel
<1> HIDE DEF R
<1>2. PICK x \in S : \A y \in S : ~ (<<y, x>> \in R)
  BY <1>1, WFMin
<1>3. ASSUME NEW y \in S PROVE x <= y
  <2>1. x \in Nat /\ y \in Nat /\ ~ (<<y, x>> \in R)
    BY <1>2
  <2> QED BY <2>1 DEF R
<1> QED BY <1>3 DEF Min

LEMMA MaxOf ==
    ASSUME NEW n \in Nat, NEW S \in SUBSET (1..n), S # {}
    PROVE  Max(S) \in S /\ \A x \in S : x <= Max(S)
<1> DEFINE B == {n - x : x \in S}
<1>1. B \in SUBSET Nat /\ B # {}
  <2>1. \A x \in S : n - x \in Nat
    <3>1. \A x \in 1..n : n - x \in Nat
      OBVIOUS
    <3> QED BY <3>1
  <2>2. \A y \in B : y \in Nat
    BY <2>1
  <2>3. B # {}
    OBVIOUS
  <2> HIDE DEF B
  <2> QED BY <2>2, <2>3
<1>2. PICK b \in B : \A y \in B : b <= y
  BY <1>1, MinOf
<1>3. PICK x \in S : b = n - x
  BY <1>2
<1>4. \A y \in S : n - y \in B
  OBVIOUS
<1>5. ASSUME NEW y \in S PROVE x >= y
  <2>1. x \in 1..n /\ y \in 1..n /\ n - x <= n - y
    BY <1>2, <1>3, <1>4
  <2> QED BY <2>1
<1> QED BY <1>5 DEF Max

LEMMA MinOfTwo ==
    ASSUME NEW a \in Int, NEW b \in Int
    PROVE  Min({a, b}) = IF a <= b THEN a ELSE b
BY DEF Min

LEMMA MaxOfTwo ==
    ASSUME NEW a \in Int, NEW b \in Int
    PROVE  Max({a, b}) = IF a >= b THEN a ELSE b
BY DEF Max
=============================================================================
