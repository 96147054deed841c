------------------------------ MODULE NatLemmas ------------------------------
(***************************************************************************)
(* Natural numbers: least and greatest elements, induction over a set,     *)
(* functions defined by recursion, and powers of two.  The provers know no *)
(* exponentiation and cannot use the library's theorems on induction and   *)
(* recursion, which take an operator: a set stands for the operator here,  *)
(* a function for the step, and 2 ^ n for the number of subsets of 1..n.   *)
(***************************************************************************)
EXTENDS Integers, FiniteSetTheorems, FunctionTheorems, WellFoundedInduction, TLAPS

-----------------------------------------------------------------------------
(* Least and greatest elements *)

\* A set of numbers that is not empty has a least one.
LEMMA LeastElement ==
  ASSUME NEW S \in SUBSET Nat, S # {}
  PROVE  \E m \in S : \A j \in S : m <= j
<1> DEFINE R == OpToRel(<, Nat)
<1>1. IsWellFoundedOn(R, Nat)
  BY NatLessThanWellFounded
<1> HIDE DEF R
<1>2. \E x \in S : \A y \in S : ~(<<y, x>> \in R)
  BY <1>1, WFMin
<1>3. \A x \in Nat, y \in Nat : ~(<<y, x>> \in R) => x <= y
  BY DEF R, OpToRel
<1> QED BY <1>2, <1>3

\* A bounded one has a greatest.
LEMMA GreatestElement ==
  ASSUME NEW N \in Nat, NEW S \in SUBSET (0..N), S # {}
  PROVE  \E m \in S : \A j \in S : j <= m
<1> DEFINE T == {N - i : i \in S}
<1>1. T \in SUBSET Nat
  OBVIOUS
<1>2. T # {}
  <2>1. PICK i \in S : TRUE
    OBVIOUS
  <2>2. N - i \in T
    BY <2>1
  <2> QED BY <2>2
<1>3. PICK t \in T : \A u \in T : t <= u
  BY <1>1, <1>2, LeastElement
<1>4. PICK m \in S : t = N - m
  BY <1>3
<1>5. \A j \in S : N - m <= N - j
  BY <1>3, <1>4
<1> QED BY <1>4, <1>5

\* What holds of 0, and of n + 1 where it holds of n, holds of every number.
LEMMA Induction ==
  ASSUME NEW S, 0 \in S, \A n \in Nat : n \in S => n + 1 \in S
  PROVE  Nat \subseteq S
<1> SUFFICES ASSUME Nat \ S # {} PROVE FALSE
  OBVIOUS
<1>1. PICK m \in Nat \ S : \A j \in Nat \ S : m <= j
  BY LeastElement
<1>2. m # 0 /\ m - 1 \in Nat
  BY <1>1
<1>3. m - 1 \in S
  BY <1>1, <1>2
<1>4. m - 1 + 1 = m
  BY <1>1
<1> QED BY <1>1, <1>2, <1>3, <1>4

-----------------------------------------------------------------------------
(* Powers of two, as numbers of subsets *)

\* The number of subsets of 1..n.
LEMMA PowerIsCount ==
  ASSUME NEW n \in Nat
  PROVE  IsFiniteSet(SUBSET (1..n)) /\ Cardinality(SUBSET (1..n)) = 2 ^ n
<1>1. IsFiniteSet(1..n) /\ Cardinality(1..n) = n
  BY FS_Interval
<1> QED BY <1>1, FS_SUBSET

\* Each subset of 1..n makes two of 1..n+1.
LEMMA PowerDoubles ==
  ASSUME NEW n \in Nat
  PROVE  2 ^ n \in Nat \ {0} /\ 2 ^ (n + 1) = 2 * 2 ^ n
<1> DEFINE A == SUBSET (1..n)
           B == {a \cup {n + 1} : a \in A}
           f == [a \in A |-> a \cup {n + 1}]
<1>1. IsFiniteSet(A) /\ Cardinality(A) = 2 ^ n
  BY PowerIsCount
<1>2. \A a \in A : n + 1 \notin a
  OBVIOUS
<1>3. f \in Bijection(A, B)
  <2>1. \A a, c \in A : f[a] = f[c] => a = c
    BY <1>2
  <2>2. \A b \in B : \E a \in A : f[a] = b
    OBVIOUS
  <2>3. f \in [A -> B]
    OBVIOUS
  <2> QED BY <2>1, <2>2, <2>3, Fun_IsBij
<1>4. IsFiniteSet(B) /\ Cardinality(B) = 2 ^ n
  BY <1>1, <1>3, FS_Bijection DEF ExistsBijection
<1>5. A \cap B = {}
  BY <1>2
<1>6. A \cup B = SUBSET (1..n + 1)
  <2>1. ASSUME NEW s \in SUBSET (1..n + 1) PROVE s \in A \cup B
    <3>1. CASE n + 1 \in s
      <4>1. s \ {n + 1} \in A /\ s = (s \ {n + 1}) \cup {n + 1}
        BY <3>1
      <4> QED BY <4>1
    <3>2. CASE n + 1 \notin s
      <4>1. \A x \in s : x \in 1..n + 1 /\ x # n + 1
        BY <3>2
      <4>2. \A x \in s : x \in 1..n
        BY <4>1
      <4> QED BY <4>2
    <3> QED BY <3>1, <3>2
  <2>2. A \subseteq SUBSET (1..n + 1) /\ B \subseteq SUBSET (1..n + 1)
    <3>1. 1..n \subseteq 1..n + 1 /\ n + 1 \in 1..n + 1
      OBVIOUS
    <3> QED BY <3>1
  <2> QED BY <2>1, <2>2
<1>7. Cardinality(SUBSET (1..n + 1)) = 2 ^ (n + 1)
  BY PowerIsCount
<1> HIDE DEF A, B
<1>8. Cardinality(A \cup B) = Cardinality(A) + Cardinality(B) - Cardinality({})
  BY <1>1, <1>4, <1>5, FS_Union
<1>9. 2 ^ n \in Nat /\ 2 ^ n # 0
  <2>1. {} \in A
    BY DEF A
  <2> QED BY <1>1, <2>1, FS_CardinalityType, FS_EmptySet
<1>10. 2 ^ (n + 1) = 2 ^ n + 2 ^ n - 0
  BY <1>1, <1>4, <1>6, <1>7, <1>8, FS_EmptySet
<1>11. \A p \in Nat : p + p - 0 = 2 * p
  OBVIOUS
<1> QED BY <1>9, <1>10, <1>11

-----------------------------------------------------------------------------
(* Recursion *)

Iterated(f, V, S, G) ==
  f \in [Nat -> V] /\ f[0] = S /\ \A k \in Nat : f[k + 1] = G[f[k]]

\* A start and a step make a sequence of values: a function defined by recursion is there.
LEMMA Iterates ==
  ASSUME NEW V, NEW S \in V, NEW G \in [V -> V]
  PROVE  \E f : Iterated(f, V, S, G)
<1> DEFINE Part(n) == {g \in [0..n -> V] :
                         g[0] = S /\ \A k \in 0..n - 1 : g[k + 1] = G[g[k]]}
           Some == {n \in Nat : Part(n) # {}}
           Agree == {k \in Nat : \A n, m \in Nat : \A g \in Part(n), h \in Part(m) :
                       k <= n /\ k <= m => g[k] = h[k]}
           At(n) == CHOOSE g : g \in Part(n)
           f == [n \in Nat |-> At(n)[n]]
<1>1. Nat \subseteq Some
  <2>1. 0 \in Some
    <3> DEFINE g == [i \in 0..0 |-> S]
    <3>1. g \in [0..0 -> V] /\ g[0] = S /\ 0..0 - 1 = {}
      OBVIOUS
    <3>2. g \in Part(0)
      BY <3>1
    <3> QED BY <3>2
  <2>2. ASSUME NEW n \in Nat, n \in Some PROVE n + 1 \in Some
    <3>1. PICK g \in Part(n) : TRUE
      BY <2>2
    <3> DEFINE h == [i \in 0..n + 1 |-> IF i = n + 1 THEN G[g[n]] ELSE g[i]]
    <3>2. /\ g \in [0..n -> V] /\ g[0] = S
          /\ \A k \in 0..n - 1 : g[k + 1] = G[g[k]]
      BY <3>1
    <3>3. \A i \in 0..n + 1 : h[i] = IF i = n + 1 THEN G[g[n]] ELSE g[i]
      OBVIOUS
    <3>4. h \in [0..n + 1 -> V] /\ h[0] = S
      BY <3>2
    <3> HIDE DEF h
    <3>5. ASSUME NEW k \in 0..n PROVE h[k + 1] = G[h[k]]
      <4>1. CASE k = n
        BY <3>3, <4>1
      <4>2. CASE k # n
        <5>1. k \in 0..n - 1 /\ k + 1 # n + 1 /\ k # n + 1 /\ k + 1 \in 0..n + 1 /\ k \in 0..n + 1
          BY <4>2
        <5> QED BY <3>2, <3>3, <5>1
      <4> QED BY <4>1, <4>2
    <3>6. (n + 1) - 1 = n
      OBVIOUS
    <3>7. h \in Part(n + 1)
      BY <3>4, <3>5, <3>6
    <3> QED BY <3>7
  <2> HIDE DEF Some
  <2> QED BY <2>1, <2>2, Induction
<1>2. \A n \in Nat : At(n) \in Part(n)
  BY <1>1
<1>3. Nat \subseteq Agree
  <2>1. 0 \in Agree
    OBVIOUS
  <2>2. ASSUME NEW k \in Nat, k \in Agree PROVE k + 1 \in Agree
    <3> SUFFICES ASSUME NEW n \in Nat, NEW m \in Nat, NEW g \in Part(n), NEW h \in Part(m),
                        k + 1 <= n, k + 1 <= m
                 PROVE  g[k + 1] = h[k + 1]
      <4> HIDE DEF Part
      <4> QED OBVIOUS
    <3>1. k \in 0..n - 1 /\ k \in 0..m - 1 /\ k <= n /\ k <= m
      OBVIOUS
    <3>2. g[k] = h[k]
      BY <2>2, <3>1
    <3>3. g[k + 1] = G[g[k]] /\ h[k + 1] = G[h[k]]
      BY <3>1
    <3> QED BY <3>2, <3>3
  <2> HIDE DEF Agree
  <2> QED BY <2>1, <2>2, Induction
<1>4. f \in [Nat -> V] /\ f[0] = S
  <2>1. \A n \in Nat : At(n) \in [0..n -> V] /\ At(n)[0] = S
    BY <1>2
  <2> HIDE DEF At
  <2> QED BY <2>1
<1>5. ASSUME NEW k \in Nat PROVE f[k + 1] = G[f[k]]
  <2>1. At(k) \in Part(k) /\ At(k + 1) \in Part(k + 1) /\ k + 1 \in Nat
    <3>1. k + 1 \in Nat
      OBVIOUS
    <3> HIDE DEF At, Part
    <3> QED BY <1>2, <3>1
  <2>2. At(k)[k] = At(k + 1)[k]
    <3>1. k \in Agree
      BY <1>3
    <3>2. k <= k /\ k <= k + 1
      OBVIOUS
    <3> HIDE DEF At, Part
    <3> QED BY <2>1, <3>1, <3>2
  <2>3. At(k + 1)[k + 1] = G[At(k + 1)[k]]
    <3>1. k \in 0..(k + 1) - 1
      OBVIOUS
    <3> HIDE DEF At
    <3> QED BY <2>1, <3>1
  <2> HIDE DEF At
  <2> QED BY <2>1, <2>2, <2>3
<1> HIDE DEF f
<1>6. Iterated(f, V, S, G)
  BY <1>4, <1>5 DEF Iterated
<1> QED BY <1>6

=============================================================================
