------------------------------ MODULE Induction ------------------------------
(***************************************************************************)
(* Induction over the naturals and the functions defined by recursion over  *)
(* them, stated with sets and functions in place of operators, so that they  *)
(* can be applied to what the specifications compute stage by stage.         *)
(***************************************************************************)
EXTENDS Integers, Sequences, WellFoundedInduction, FiniteSetTheorems, TLAPS

\* A non-empty set of naturals has a least element.
LEMMA LeastElement ==
  ASSUME NEW T, T \subseteq Nat, T # {}
  PROVE  \E n \in T : \A m \in T : n <= m
<1> DEFINE Less == {ss \in Nat \X Nat : ss[1] < ss[2]}
<1>1. IsWellFoundedOn(Less, Nat)
  BY NatLessThanWellFounded DEF OpToRel
<1>2. PICK n \in T : \A m \in T : ~ (<<m, n>> \in Less)
  <2> HIDE DEF Less
  <2> QED BY <1>1, WFMin
<1>3. \A m \in T : ~ (m < n)
  BY <1>2
<1> QED BY <1>3

\* A set that has zero and with every natural the next has every natural.
LEMMA SetInduction ==
  ASSUME NEW S, 0 \in S, \A n \in Nat : n \in S => n + 1 \in S
  PROVE  Nat \subseteq S
<1> SUFFICES ASSUME Nat \ S # {} PROVE FALSE
  OBVIOUS
<1>1. PICK n \in Nat \ S : \A m \in Nat \ S : n <= m
  BY LeastElement
<1> QED BY <1>1

\* The least element is the one CHOOSE picks.
LEMMA ChosenLeast ==
  ASSUME NEW T, T \subseteq Nat, T # {}
  PROVE  /\ (CHOOSE n \in T : \A m \in T : n <= m) \in T
         /\ \A m \in T : (CHOOSE n \in T : \A j \in T : n <= j) <= m
BY LeastElement

\* g is what n steps make of a base in X, one after the other, each a function of the
\* value so far.
Iterates(g, X, n, base, T) ==
  /\ g \in [0 .. n -> X]
  /\ g[0] = base
  /\ \A d \in 1 .. n : g[d] = T[d][g[d - 1]]

\* Any number of steps that stay in X can be taken.
LEMMA Iteration ==
  ASSUME NEW X, NEW n \in Nat, NEW base \in X, NEW T \in [1 .. n -> [X -> X]]
  PROVE  \E g : Iterates(g, X, n, base, T)
<1> DEFINE S == {m \in Nat : m <= n => \E g : Iterates(g, X, m, base, T)}
<1>1. 0 \in S
  <2> DEFINE g == [d \in 0 .. 0 |-> base]
  <2>1. Iterates(g, X, 0, base, T)
    BY DEF Iterates
  <2> QED BY <2>1
<1>2. ASSUME NEW m \in Nat, m \in S PROVE m + 1 \in S
  <2> SUFFICES ASSUME m + 1 <= n PROVE \E g : Iterates(g, X, m + 1, base, T)
    OBVIOUS
  <2>1. PICK g : Iterates(g, X, m, base, T)
    BY <1>2
  <2> DEFINE h == [d \in 0 .. m + 1 |-> IF d = m + 1 THEN T[m + 1][g[m]] ELSE g[d]]
  <2>2. T[m + 1][g[m]] \in X
    <3>1. T[m + 1] \in [X -> X] /\ g[m] \in X
      BY <2>1 DEF Iterates
    <3> QED BY <3>1
  <2>3. h \in [0 .. m + 1 -> X] /\ h[0] = base
    BY <2>1, <2>2 DEF Iterates
  <2>4. ASSUME NEW d \in 1 .. m + 1 PROVE h[d] = T[d][h[d - 1]]
    <3>1. CASE d = m + 1
      <4>1. h[d] = T[m + 1][g[m]] /\ h[d - 1] = g[m]
        BY <3>1
      <4> QED BY <3>1, <4>1
    <3>2. CASE d # m + 1
      <4>1. d \in 1 .. m /\ h[d] = g[d] /\ h[d - 1] = g[d - 1]
        BY <3>2
      <4> QED BY <2>1, <4>1 DEF Iterates
    <3> QED BY <3>1, <3>2
  <2>5. Iterates(h, X, m + 1, base, T)
    <3> HIDE DEF h
    <3> QED BY <2>3, <2>4 DEF Iterates
  <2> QED BY <2>5
<1>3. Nat \subseteq S
  <2> HIDE DEF S
  <2> QED BY <1>1, <1>2, SetInduction
<1> QED BY <1>3

\* T says what a function is on the subsets of D, from its values on smaller ones.
Maps(D, X) == [SUBSET D -> X]
Local(D, X, T) ==
  \A f, h \in Maps(D, X) : \A S \in SUBSET D : (\A R \in SUBSET S : R # S => f[R] = h[R]) => T[f][S] = T[h][S]

\* There is a function it says so of.
LEMMA SubsetRecursion ==
  ASSUME NEW D, IsFiniteSet(D), NEW X, NEW base \in X,
         NEW T \in [Maps(D, X) -> Maps(D, X)], Local(D, X, T)
  PROVE  \E h \in Maps(D, X) : T[h] = h
<1> USE DEF Maps
<1> DEFINE F == [SUBSET D -> X]
           n == Cardinality(D) + 2
           start == [S \in SUBSET D |-> base]
           TT == [d \in 1 .. n |-> T]
<1>1. Cardinality(D) \in Nat /\ n \in Nat
  BY FS_CardinalityType
<1>2. \A S \in SUBSET D : IsFiniteSet(S) /\ Cardinality(S) \in Nat /\ Cardinality(S) <= Cardinality(D)
  BY FS_Subset, FS_CardinalityType
<1>3. PICK g : Iterates(g, F, n, start, TT)
  <2>1. start \in F /\ TT \in [1 .. n -> [F -> F]]
    OBVIOUS
  <2> HIDE DEF F, n, start, TT
  <2> QED BY <1>1, <2>1, Iteration
<1>4. \A d \in 1 .. n : g[d] = T[g[d - 1]]
  <2>1. \A d \in 1 .. n : TT[d] = T
    OBVIOUS
  <2> HIDE DEF F, n, start, TT
  <2> QED BY <1>3, <2>1 DEF Iterates
<1>5. \A d \in 0 .. n : g[d] \in F
  <2> HIDE DEF F, n, start, TT
  <2> QED BY <1>3 DEF Iterates
<1> DEFINE Settled == {m \in Nat : m + 1 <= n =>
                         \A S \in SUBSET D : Cardinality(S) < m => g[m][S] = g[m + 1][S]}
<1>6. 0 \in Settled
  BY <1>2
<1>7. ASSUME NEW m \in Nat, m \in Settled PROVE m + 1 \in Settled
  <2> SUFFICES ASSUME m + 2 <= n, NEW S \in SUBSET D, Cardinality(S) < m + 1
               PROVE  g[m + 1][S] = g[m + 2][S]
    BY <1>1
  <2>1. g[m + 1] = T[g[m]] /\ g[m + 2] = T[g[m + 1]]
    <3>1. m + 1 \in 1 .. n /\ m + 2 \in 1 .. n /\ (m + 1) - 1 = m /\ (m + 2) - 1 = m + 1
      BY <1>1
    <3> HIDE DEF n
    <3> QED BY <1>4, <3>1
  <2>2. g[m] \in F /\ g[m + 1] \in F
    <3>1. m \in 0 .. n /\ m + 1 \in 0 .. n
      BY <1>1
    <3> HIDE DEF n, F
    <3> QED BY <1>5, <3>1
  <2>3. ASSUME NEW R \in SUBSET S, R # S PROVE g[m][R] = g[m + 1][R]
    <3>1. Cardinality(R) < Cardinality(S)
      <4>1. IsFiniteSet(S) /\ R \in SUBSET S /\ R \in SUBSET D
        BY <1>2
      <4>2. Cardinality(R) <= Cardinality(S) /\ Cardinality(S) # Cardinality(R)
        BY <2>3, <4>1, FS_Subset
      <4> QED BY <1>2, <4>1, <4>2
    <3>2. R \in SUBSET D /\ Cardinality(R) < m
      BY <1>2, <3>1
    <3>3. m + 1 <= n
      BY <1>1
    <3> QED BY <1>7, <3>2, <3>3
  <2>4. T[g[m]][S] = T[g[m + 1]][S]
    BY <2>2, <2>3 DEF Local
  <2> HIDE DEF n
  <2> QED BY <2>1, <2>4
<1>8. Cardinality(D) + 1 \in Settled
  <2>1. Nat \subseteq Settled
    <3> HIDE DEF Settled
    <3> QED BY <1>6, <1>7, SetInduction
  <2> HIDE DEF Settled
  <2> QED BY <1>1, <2>1
<1> DEFINE h == g[Cardinality(D) + 1]
<1>9. h \in F
  <2>1. Cardinality(D) + 1 \in 0 .. n
    BY <1>1
  <2> QED BY <1>5, <2>1
<1>10. T[h] = g[(Cardinality(D) + 1) + 1]
  <2>1. n \in 1 .. n /\ n - 1 = Cardinality(D) + 1 /\ n = (Cardinality(D) + 1) + 1
    BY <1>1
  <2>2. g[n] = T[g[n - 1]]
    <3> HIDE DEF n
    <3> QED BY <1>4, <2>1
  <2> HIDE DEF n
  <2> QED BY <2>1, <2>2
<1>11. \A S \in SUBSET D : h[S] = T[h][S]
  <2>1. \A S \in SUBSET D : g[Cardinality(D) + 1][S] = g[(Cardinality(D) + 1) + 1][S]
    <3>1. (Cardinality(D) + 1) + 1 <= n
      BY <1>1
    <3> QED BY <1>1, <1>2, <1>8, <3>1
  <2> QED BY <1>10, <2>1
<1>12. T[h] \in F
  BY <1>9
<1>13. T[h] = h
  <2> HIDE DEF h
  <2> QED BY <1>9, <1>11, <1>12
<1> QED BY <1>9, <1>13

\* What a subset of a finite set has when all smaller ones have it, every subset has.
LEMMA SubsetInduction ==
  ASSUME NEW D, IsFiniteSet(D), NEW G,
         \A S \in SUBSET D : (\A R \in SUBSET S : R # S => R \in G) => S \in G
  PROVE  SUBSET D \subseteq G
<1> DEFINE Small == {m \in Nat : \A S \in SUBSET D : Cardinality(S) < m => S \in G}
<1>1. \A S \in SUBSET D : IsFiniteSet(S) /\ Cardinality(S) \in Nat
  BY FS_Subset, FS_CardinalityType
<1>2. 0 \in Small
  BY <1>1
<1>3. ASSUME NEW m \in Nat, m \in Small PROVE m + 1 \in Small
  <2> SUFFICES ASSUME NEW S \in SUBSET D, Cardinality(S) < m + 1 PROVE S \in G
    OBVIOUS
  <2>1. ASSUME NEW R \in SUBSET S, R # S PROVE R \in G
    <3>1. IsFiniteSet(S) /\ R \in SUBSET S /\ R \in SUBSET D
      BY <1>1
    <3>2. Cardinality(R) <= Cardinality(S) /\ Cardinality(S) # Cardinality(R)
      BY <2>1, <3>1, FS_Subset
    <3>3. Cardinality(R) < m
      BY <1>1, <3>1, <3>2
    <3> QED BY <1>3, <3>1, <3>3
  <2> QED BY <2>1
<1>4. Nat \subseteq Small
  <2> HIDE DEF Small
  <2> QED BY <1>2, <1>3, SetInduction
<1>5. ASSUME NEW S \in SUBSET D PROVE S \in G
  <2>1. Cardinality(S) + 1 \in Small /\ Cardinality(S) < Cardinality(S) + 1
    <3> HIDE DEF Small
    <3> QED BY <1>1, <1>4
  <2> QED BY <2>1
<1> QED BY <1>5

\* A function on 0..n can be defined from its value at the number before.
Recursive(f, n, base, T) == f = [k \in 0 .. n |-> IF k = 0 THEN base ELSE T[k][f[k - 1]]]
LEMMA Recursion ==
  ASSUME NEW X, NEW n \in Nat, NEW base \in X, NEW T \in [1 .. n -> [X -> X]]
  PROVE  \E f \in [0 .. n -> X] : Recursive(f, n, base, T)
<1>1. PICK g : Iterates(g, X, n, base, T)
  BY Iteration
<1>2. g \in [0 .. n -> X]
  BY <1>1 DEF Iterates
<1>3. ASSUME NEW k \in 0 .. n PROVE g[k] = IF k = 0 THEN base ELSE T[k][g[k - 1]]
  BY <1>1, <1>3 DEF Iterates
<1>4. Recursive(g, n, base, T)
  <2>1. g = [k \in 0 .. n |-> g[k]]
    BY <1>2
  <2> QED BY <1>3, <2>1, Zenon DEF Recursive
<1> QED BY <1>2, <1>4

\* A non-empty set of naturals that is bounded has a greatest element.
LEMMA GreatestElement ==
  ASSUME NEW T, T \subseteq Nat, T # {}, NEW n \in Nat, \A t \in T : t <= n
  PROVE  \E m \in T : \A t \in T : m >= t
<1> DEFINE D == {d \in Nat : n - d \in T}
<1>1. D # {}
  <2>1. PICK t \in T : TRUE
    OBVIOUS
  <2>2. n - t \in D
    BY <2>1
  <2> QED BY <2>2
<1>2. PICK d \in D : \A e \in D : d <= e
  <2>1. D \subseteq Nat
    OBVIOUS
  <2> HIDE DEF D
  <2> QED BY <1>1, <2>1, LeastElement
<1>3. \A t \in T : n - t \in D
  OBVIOUS
<1>4. \A t \in T : n - d >= t
  BY <1>2, <1>3
<1> QED BY <1>2, <1>4

\* f[k] are the members of D that come before k in a strict total order.
Precedence(D, f) ==
  /\ f \in [D -> SUBSET D]
  /\ \A k \in D : k \notin f[k]
  /\ \A j, k \in D : j # k => j \in f[k] \/ k \in f[j]
  /\ \A j, k, l \in D : j \in f[k] /\ k \in f[l] => j \in f[l]

\* Every place has one member, and there are no others.
LEMMA Places ==
  ASSUME NEW D, IsFiniteSet(D), NEW f, Precedence(D, f)
  PROVE  /\ \A k \in D : Cardinality(f[k]) + 1 \in 1 .. Cardinality(D)
         /\ \A p \in 1 .. Cardinality(D) : \E k \in D : Cardinality(f[k]) + 1 = p
         /\ \A j, k \in D : Cardinality(f[j]) = Cardinality(f[k]) => j = k
<1> DEFINE n == Cardinality(D)
           rank == [k \in D |-> Cardinality(f[k]) + 1]
<1>1. n \in Nat
  BY FS_CardinalityType
<1>2. \A k \in D : f[k] \in SUBSET D /\ IsFiniteSet(f[k]) /\ Cardinality(f[k]) \in Nat
  BY FS_Subset, FS_CardinalityType DEF Precedence
<1>3. ASSUME NEW k \in D PROVE Cardinality(f[k]) + 1 \in 1 .. n
  <2>1. IsFiniteSet(D \ {k}) /\ Cardinality(D \ {k}) = n - 1
    BY FS_RemoveElement
  <2>2. f[k] \in SUBSET (D \ {k})
    BY <1>2 DEF Precedence
  <2>3. Cardinality(f[k]) <= n - 1
    BY <2>1, <2>2, FS_Subset
  <2> QED BY <1>1, <1>2, <2>3
<1>4. ASSUME NEW j \in D, NEW k \in D, j \in f[k] PROVE Cardinality(f[j]) < Cardinality(f[k])
  <2>1. f[j] \in SUBSET f[k]
    BY <1>2, <1>4 DEF Precedence
  <2>2. f[j] # f[k]
    BY <1>4 DEF Precedence
  <2>3. Cardinality(f[j]) <= Cardinality(f[k]) /\ (Cardinality(f[k]) = Cardinality(f[j]) => f[k] = f[j])
    BY <1>2, <2>1, FS_Subset
  <2> QED BY <1>2, <2>2, <2>3
<1>5. ASSUME NEW j \in D, NEW k \in D, Cardinality(f[j]) = Cardinality(f[k]) PROVE j = k
  <2> SUFFICES ASSUME j # k PROVE FALSE
    OBVIOUS
  <2>1. j \in f[k] \/ k \in f[j]
    BY DEF Precedence
  <2>2. Cardinality(f[j]) < Cardinality(f[k]) \/ Cardinality(f[k]) < Cardinality(f[j])
    BY <1>4, <2>1
  <2> QED BY <1>2, <1>5, <2>2
<1>6. rank \in [D -> 1 .. n] /\ \A j, k \in D : rank[j] = rank[k] => j = k
  <2>1. \A k \in D : rank[k] = Cardinality(f[k]) + 1
    OBVIOUS
  <2>2. rank \in [D -> 1 .. n]
    BY <1>3
  <2>3. ASSUME NEW j \in D, NEW k \in D, rank[j] = rank[k] PROVE j = k
    <3>1. Cardinality(f[j]) + 1 = Cardinality(f[k]) + 1
      BY <2>1, <2>3
    <3> QED BY <1>2, <1>5, <3>1
  <2> QED BY <2>2, <2>3
<1>7. rank \in Injection(D, 1 .. n)
  <2> HIDE DEF rank, n
  <2> QED BY <1>6 DEF Injection, IsInjective
<1>8. IsFiniteSet(1 .. n) /\ Cardinality(1 .. n) = n
  BY <1>1, FS_Interval
<1>9. rank \in Surjection(D, 1 .. n)
  <2> HIDE DEF rank
  <2> QED BY <1>7, <1>8, FS_Injection
<1>10. \A p \in 1 .. n : \E k \in D : rank[k] = p
  <2> HIDE DEF rank
  <2> QED BY <1>9 DEF Surjection
<1> QED BY <1>3, <1>5, <1>10

=============================================================================
