---------------------------- MODULE DataInduction ----------------------------
(***************************************************************************)
(* Induction for sets of data, as lemmas without operator parameters: a    *)
(* predicate is the SET of what satisfies it.  All of it rests on the      *)
(* library's fact that the finite sets are well founded by strict          *)
(* inclusion.                                                              *)
(*                                                                         *)
(* The models use it for the listings that come in pages (ZfsFuse), the    *)
(* way down a tree of blocks (ObjectSet), the search for an uberblock and  *)
(* the loop over the objects of the MOS (Rescue), and for the sorted keys  *)
(* of a directory and the levels below it (Archive).                       *)
(***************************************************************************)
EXTENDS Integers, FiniteSetTheorems, WellFoundedInduction, TLAPS

\* Of some finite sets one contains no other of them.
LEMMA FiniteSetsMinimal ==
  ASSUME NEW T, T # {}, \A s \in T : IsFiniteSet(s)
  PROVE  \E x \in T : \A y \in T : y \subseteq x => y = x
<1> DEFINE S == UNION T
<1>1. T \subseteq FiniteSubsetsOf(S)
  BY DEF FiniteSubsetsOf
<1>2. PICK x \in T : \A y \in T : ~(<<y, x>> \in StrictSubsetOrdering(S))
  <2> HIDE DEF S
  <2> QED BY <1>1, FS_StrictSubsetOrderingWellFounded, WFMin
<1>3. \A y \in T : y \subseteq x => y = x
  BY <1>2 DEF StrictSubsetOrdering
<1> QED BY <1>3

\* A set of naturals that is not empty has a least element.
LEMMA NatLeast ==
  ASSUME NEW T, T \subseteq Nat, T # {}
  PROVE  \E x \in T : \A y \in T : x <= y
<1> DEFINE I == {0 .. n : n \in T}
<1>1. I # {} /\ \A s \in I : IsFiniteSet(s)
  <2>1. \A n \in T : IsFiniteSet(0 .. n)
    BY FS_Interval
  <2> QED BY <2>1
<1>2. PICK s \in I : \A y \in I : y \subseteq s => y = s
  <2> HIDE DEF I
  <2> QED BY <1>1, FiniteSetsMinimal
<1>3. PICK x \in T : s = 0 .. x
  OBVIOUS
<1>4. ASSUME NEW y \in T, y < x PROVE FALSE
  <2>1. 0 .. y \in I /\ 0 .. y \subseteq s
    BY <1>3, <1>4
  <2>2. 0 .. y = 0 .. x
    BY <2>1, <1>2, <1>3
  <2>3. x \in 0 .. x /\ x \notin 0 .. y
    BY <1>4
  <2> QED BY <2>2, <2>3
<1> QED BY <1>4

\* Induction over the naturals.
LEMMA NatSetInduction ==
  ASSUME NEW S, 0 \in S, \A n \in Nat : n \in S => n + 1 \in S
  PROVE  Nat \subseteq S
<1> SUFFICES ASSUME Nat \ S # {} PROVE FALSE
  OBVIOUS
<1>1. PICK x \in Nat \ S : \A y \in Nat \ S : x <= y
  BY NatLeast
<1>2. x - 1 \in Nat /\ x - 1 \in S
  BY <1>1
<1> QED BY <1>1, <1>2

\* Induction up to a bound.
LEMMA UpToInduction ==
  ASSUME NEW N \in Nat, NEW S, 0 \in S,
         \A n \in Nat : n < N /\ n \in S => n + 1 \in S
  PROVE  0 .. N \subseteq S
<1> DEFINE T == {n \in Nat : n <= N => n \in S}
<1>1. 0 \in T
  OBVIOUS
<1>2. \A n \in Nat : n \in T => n + 1 \in T
  OBVIOUS
<1>3. Nat \subseteq T
  <2> HIDE DEF T
  <2> QED BY <1>1, <1>2, NatSetInduction
<1> QED BY <1>3

\* A finite set of integers that is not empty has a greatest element.
LEMMA FiniteGreatest ==
  ASSUME NEW T, T \subseteq Int, T # {}, IsFiniteSet(T)
  PROVE  \E x \in T : \A y \in T : y <= x
<1> DEFINE Above(x) == {y \in T : x < y}
           A == {Above(x) : x \in T}
<1>1. A # {} /\ \A s \in A : IsFiniteSet(s)
  <2>1. \A x \in T : Above(x) \in SUBSET T
    OBVIOUS
  <2>2. \A x \in T : IsFiniteSet(Above(x))
    <3> HIDE DEF Above
    <3> QED BY <2>1, FS_Subset
  <2> QED BY <2>2
<1>2. PICK s \in A : \A y \in A : y \subseteq s => y = s
  <2> HIDE DEF A
  <2> QED BY <1>1, FiniteSetsMinimal
<1>3. PICK x \in T : s = Above(x)
  OBVIOUS
<1>4. ASSUME NEW y \in T, x < y PROVE FALSE
  <2>1. Above(y) \in A /\ Above(y) \subseteq s
    <3>1. x \in Int /\ \A z \in T : z \in Int /\ (y < z => x < z)
      BY <1>4
    <3>2. Above(y) \subseteq Above(x)
      BY <3>1
    <3> QED BY <1>3, <3>2
  <2>2. y \in Above(x) /\ y \notin Above(y)
    BY <1>4
  <2> QED BY <2>1, <2>2, <1>2, <1>3
<1> QED BY <1>4

\* f is the recursive function on 0 .. N that begins with a and whose step to
\* n is G[n].
Solves(f, N, a, G) ==
  /\ f[0] = a
  /\ \A n \in 1 .. N : f[n] = G[n][f[n - 1]]

\* There is such a function, whatever its first value and its step.
LEMMA RecursionUpTo ==
  ASSUME NEW N \in Nat, NEW D, NEW a \in D, NEW G \in [Nat -> [D -> D]]
  PROVE  \E f \in [0 .. N -> D] : Solves(f, N, a, G)
<1> DEFINE S == {m \in Nat : \E f \in [0 .. m -> D] : Solves(f, m, a, G)}
<1>1. 0 \in S
  <2>1. [x \in 0 .. 0 |-> a] \in [0 .. 0 -> D] /\ Solves([x \in 0 .. 0 |-> a], 0, a, G)
    BY DEF Solves
  <2> QED BY <2>1
<1>2. ASSUME NEW m \in Nat, m \in S PROVE m + 1 \in S
  <2>1. PICK f \in [0 .. m -> D] : Solves(f, m, a, G)
    BY <1>2
  <2> DEFINE g == [x \in 0 .. m + 1 |->
                     IF x = m + 1 THEN G[m + 1][f[m]] ELSE f[x]]
  <2>2. g \in [0 .. m + 1 -> D]
    OBVIOUS
  <2>3. g[0] = a
    BY <2>1 DEF Solves
  <2>4. ASSUME NEW n \in 1 .. m + 1 PROVE g[n] = G[n][g[n - 1]]
    <3>1. CASE n = m + 1
      <4>1. n - 1 = m /\ m \in 0 .. m + 1 /\ m # m + 1 /\ n \in 0 .. m + 1
        BY <3>1
      <4>2. g[n] = G[m + 1][f[m]] /\ g[n - 1] = f[m]
        BY <3>1, <4>1
      <4> QED BY <3>1, <4>2
    <3>2. CASE n # m + 1
      <4>1. n \in 1 .. m /\ n - 1 \in 0 .. m /\ n - 1 # m + 1
        BY <3>2
      <4>2. g[n] = f[n] /\ g[n - 1] = f[n - 1]
        BY <3>2, <4>1
      <4> QED BY <2>1, <4>1, <4>2 DEF Solves
    <3> QED BY <3>1, <3>2
  <2> HIDE DEF g
  <2>5. Solves(g, m + 1, a, G)
    BY <2>3, <2>4 DEF Solves
  <2> QED BY <2>2, <2>5
<1>3. N \in S
  <2> HIDE DEF S
  <2> QED BY <1>1, <1>2, NatSetInduction
<1> QED BY <1>3

\* s lists n elements of T in ascending order.
Ascends(s, n, T) ==
  /\ s \in [1 .. n -> T]
  /\ \A i, j \in 1 .. n : i < j => s[i] < s[j]

\* A finite set of naturals can be listed in ascending order.
LEMMA FiniteSorted ==
  ASSUME NEW T \in SUBSET Nat, IsFiniteSet(T)
  PROVE  \E s : Ascends(s, Cardinality(T), T)
<1> DEFINE Listed(U, n) == \E s : Ascends(s, n, U)
           S == {n \in Nat : \A U \in SUBSET Nat :
                   IsFiniteSet(U) /\ Cardinality(U) = n => Listed(U, n)}
<1>1. 0 \in S
  <2>1. ASSUME NEW U \in SUBSET Nat PROVE Listed(U, 0)
    <3>1. Ascends([i \in 1 .. 0 |-> 0], 0, U)
      BY DEF Ascends
    <3> QED BY <3>1
  <2> QED BY <2>1
<1>2. ASSUME NEW n \in Nat, n \in S PROVE n + 1 \in S
  <2>1. ASSUME NEW U \in SUBSET Nat, IsFiniteSet(U), Cardinality(U) = n + 1
        PROVE  Listed(U, n + 1)
    <3>1. U # {} /\ U \subseteq Int
      BY <2>1, FS_EmptySet
    <3>2. PICK x \in U : \A y \in U : y <= x
      BY <2>1, <3>1, FiniteGreatest
    <3> DEFINE V == U \ {x}
    <3>3. V \in SUBSET Nat /\ IsFiniteSet(V) /\ Cardinality(V) = n
      <4>1. IsFiniteSet(V) /\ Cardinality(V) = IF x \in U THEN Cardinality(U) - 1 ELSE Cardinality(U)
        BY <2>1, FS_RemoveElement
      <4>2. V \in SUBSET Nat
        OBVIOUS
      <4> HIDE DEF V
      <4>3. Cardinality(V) = Cardinality(U) - 1
        BY <4>1
      <4> QED BY <4>1, <4>2, <4>3, <2>1
    <3>4. PICK s : Ascends(s, n, V)
      <4> HIDE DEF V
      <4> QED BY <1>2, <3>3
    <3> DEFINE t == [i \in 1 .. n + 1 |-> IF i = n + 1 THEN x ELSE s[i]]
    <3>5. /\ \A i \in 1 .. n : s[i] \in V
          /\ \A i, j \in 1 .. n : i < j => s[i] < s[j]
      <4> HIDE DEF V
      <4> QED BY <3>4 DEF Ascends
    <3>6. t \in [1 .. n + 1 -> U]
      BY <3>5
    <3>7. ASSUME NEW i \in 1 .. n + 1, NEW j \in 1 .. n + 1, i < j
          PROVE  t[i] < t[j]
      <4>1. i \in 1 .. n /\ i # n + 1 /\ t[i] = s[i]
        BY <3>7
      <4>2. CASE j = n + 1
        <5>1. s[i] \in U /\ s[i] # x /\ t[j] = x
          BY <4>1, <4>2, <3>5
        <5>2. s[i] <= x /\ s[i] \in Nat /\ x \in Nat
          BY <5>1, <3>2
        <5> QED BY <4>1, <5>1, <5>2
      <4>3. CASE j # n + 1
        <5>1. j \in 1 .. n /\ t[j] = s[j]
          BY <4>3
        <5> QED BY <4>1, <5>1, <3>5, <3>7
      <4> QED BY <4>2, <4>3
    <3> HIDE DEF t
    <3>8. Ascends(t, n + 1, U)
      BY <3>6, <3>7 DEF Ascends
    <3> QED BY <3>8
  <2> HIDE DEF Listed
  <2> QED BY <2>1
<1>3. Cardinality(T) \in S
  <2>1. Cardinality(T) \in Nat
    BY FS_CardinalityType
  <2> HIDE DEF S
  <2> QED BY <1>1, <1>2, <2>1, NatSetInduction
<1> QED BY <1>3

\* Nothing of the set is missing from such a list.
LEMMA AscendingOnto ==
  ASSUME NEW T \in SUBSET Nat, IsFiniteSet(T), NEW s, Ascends(s, Cardinality(T), T)
  PROVE  \A x \in T : \E m \in 1 .. Cardinality(T) : s[m] = x
<1> DEFINE n == Cardinality(T)
<1>1. n \in Nat
  BY FS_CardinalityType
<1>2. IsFiniteSet(1 .. n) /\ Cardinality(1 .. n) = n
  <2> HIDE DEF n
  <2> QED BY <1>1, FS_Interval
<1>3. s \in Injection(1 .. n, T)
  <2>1. ASSUME NEW i \in 1 .. n, NEW j \in 1 .. n, s[i] = s[j] PROVE i = j
    <3>1. s[i] \in Nat /\ s[j] \in Nat
      BY DEF Ascends
    <3>2. ~(i < j) /\ ~(j < i)
      BY <2>1, <3>1 DEF Ascends
    <3> QED BY <3>2, <1>1
  <2>2. s \in [1 .. n -> T]
    BY DEF Ascends
  <2> HIDE DEF n
  <2> QED BY <2>1, <2>2 DEF Injection, IsInjective
<1>4. s \in Surjection(1 .. n, T)
  BY <1>2, <1>3, FS_Injection
<1> QED BY <1>4 DEF Surjection
=============================================================================
