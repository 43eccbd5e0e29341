--------------------------- MODULE DecisionsProofs ---------------------------
(***************************************************************************)
(* Proofs about Decisions, for pipelines of any length, any catalogs,         *)
(* weights and policies: the passes only permute what may be permuted,        *)
(* without statistics they change nothing, and the dynamic program of         *)
(* ApplyJoinOrder gives every chain of joins the cheapest left-deep order     *)
(* its estimates allow, and the reordered joins answer the rows they          *)
(* answered as written.                                                      *)
(***************************************************************************)
EXTENDS Decisions, SequenceTheorems, FunctionTheorems, Induction

-----------------------------------------------------------------------------
(* Orders: the permutations of 1..n *)

Orders(n) == {q \in [1 .. n -> 1 .. n] : Range(q) = 1 .. n}
Prefix(q, m) == {q[i] : i \in 1 .. m}

\* An order takes no place twice, and has every place.
LEMMA OrderProperties ==
  ASSUME NEW n \in Nat, NEW q \in Orders(n)
  PROVE  /\ q \in [1 .. n -> 1 .. n]
         /\ \A i, j \in 1 .. n : q[i] = q[j] => i = j
         /\ \A i \in 1 .. n : \E j \in 1 .. n : q[j] = i
<1>1. q \in [1 .. n -> 1 .. n] /\ Range(q) = 1 .. n
  BY DEF Orders
<1>2. \A i \in 1 .. n : \E j \in 1 .. n : q[j] = i
  BY <1>1 DEF Range
<1>3. q \in Surjection(1 .. n, 1 .. n)
  BY <1>1, <1>2, Fun_IsSurj
<1>4. q \in Injection(1 .. n, 1 .. n)
  BY <1>3, FS_Interval, FS_SurjSameCardinalityImpliesInj
<1>5. \A i, j \in 1 .. n : q[i] = q[j] => i = j
  BY <1>4, Fun_InjectionProperties
<1> QED BY <1>1, <1>2, <1>5

\* Whatever takes no place twice is an order.
LEMMA InjectiveIsOrder ==
  ASSUME NEW n \in Nat, NEW q \in [1 .. n -> 1 .. n], \A i, j \in 1 .. n : q[i] = q[j] => i = j
  PROVE  q \in Orders(n)
<1>1. q \in Injection(1 .. n, 1 .. n)
  BY Fun_IsInj
<1>2. q \in Surjection(1 .. n, 1 .. n)
  BY <1>1, FS_Interval, FS_Injection
<1> QED BY <1>2, Fun_SurjectionProperties DEF Orders

\* The identity is one.
LEMMA IdentityOrder ==
  ASSUME NEW n \in Nat
  PROVE  [i \in 1 .. n |-> i] \in Orders(n)
BY InjectiveIsOrder

-----------------------------------------------------------------------------
(* PredicateOrder *)

\* Inserting an element adds it, at whatever place.
LEMMA InsertAdds ==
  ASSUME NEW s \in Seq(Nat), NEW e \in Nat, NEW i \in 1 .. Len(s) + 1
  PROVE  /\ InsertAt(s, i, e) \in Seq(Nat)
         /\ Len(InsertAt(s, i, e)) = Len(s) + 1
         /\ Range(InsertAt(s, i, e)) = Range(s) \cup {e}
<1> DEFINE a == SubSeq(s, 1, i - 1)
           b == SubSeq(s, i, Len(s))
           c == a \o <<e>>
           r == c \o b
<1>1. Len(s) \in Nat /\ DOMAIN s = 1 .. Len(s) /\ \A j \in 1 .. Len(s) : s[j] \in Nat
  BY LenProperties
<1>2. a \in Seq(Nat) /\ Len(a) = i - 1 /\ \A j \in 1 .. i - 1 : a[j] = s[j]
  BY <1>1, SubSeqProperties
<1>3. b \in Seq(Nat) /\ Len(b) = Len(s) - i + 1 /\ \A j \in 1 .. Len(s) - i + 1 : b[j] = s[i + j - 1]
  BY <1>1, SubSeqProperties
<1>4. <<e>> \in Seq(Nat) /\ Len(<<e>>) = 1 /\ <<e>>[1] = e
  OBVIOUS
<1>5. InsertAt(s, i, e) = r
  BY DEF InsertAt
<1> HIDE DEF a, b
<1>6. c \in Seq(Nat) /\ Len(c) = i /\ (\A j \in 1 .. i - 1 : c[j] = s[j]) /\ c[i] = e
  <2>1. c \in Seq(Nat) /\ Len(c) = Len(a) + Len(<<e>>)
        /\ \A j \in 1 .. Len(a) + Len(<<e>>) : c[j] = IF j <= Len(a) THEN a[j] ELSE <<e>>[j - Len(a)]
    BY <1>2, <1>4, ConcatProperties
  <2> HIDE DEF c
  <2> QED BY <1>2, <1>4, <2>1
<1> HIDE DEF c
<1>7. r \in Seq(Nat) /\ Len(r) = Len(s) + 1
      /\ \A j \in 1 .. Len(s) + 1 : r[j] = IF j <= i THEN c[j] ELSE s[j - 1]
  <2>1. r \in Seq(Nat) /\ Len(r) = Len(c) + Len(b)
        /\ \A j \in 1 .. Len(c) + Len(b) : r[j] = IF j <= Len(c) THEN c[j] ELSE b[j - Len(c)]
    BY <1>3, <1>6, ConcatProperties
  <2>2. Len(c) + Len(b) = Len(s) + 1
    BY <1>1, <1>3, <1>6
  <2>3. ASSUME NEW j \in 1 .. Len(s) + 1 PROVE r[j] = IF j <= i THEN c[j] ELSE s[j - 1]
    <3>1. r[j] = IF j <= i THEN c[j] ELSE b[j - i]
      BY <1>6, <2>1, <2>2
    <3>2. j > i => j - i \in 1 .. Len(s) - i + 1 /\ i + (j - i) - 1 = j - 1
      BY <1>1
    <3>3. j > i => b[j - i] = s[j - 1]
      BY <1>3, <3>2
    <3> QED BY <3>1, <3>3
  <2> HIDE DEF r
  <2> QED BY <2>1, <2>2, <2>3
<1> HIDE DEF r
<1>8. DOMAIN r = 1 .. Len(s) + 1
  BY <1>7, LenProperties
<1>9. Range(r) \subseteq Range(s) \cup {e}
  <2>1. ASSUME NEW j \in 1 .. Len(s) + 1 PROVE r[j] \in Range(s) \cup {e}
    <3>1. CASE j < i
      <4>1. r[j] = s[j] /\ j \in DOMAIN s
        BY <1>1, <1>6, <1>7, <3>1
      <4> QED BY <4>1 DEF Range
    <3>2. CASE j = i
      BY <1>6, <1>7, <3>2
    <3>3. CASE j > i
      <4>1. r[j] = s[j - 1] /\ j - 1 \in DOMAIN s
        BY <1>1, <1>7, <3>3
      <4> QED BY <4>1 DEF Range
    <3> QED BY <1>1, <3>1, <3>2, <3>3
  <2> QED BY <1>8, <2>1 DEF Range
<1>10. ASSUME NEW j \in 1 .. Len(s) PROVE s[j] \in Range(r)
  <2>1. CASE j < i
    <3>1. r[j] = s[j] /\ j \in DOMAIN r
      BY <1>1, <1>6, <1>7, <1>8, <2>1
    <3> QED BY <3>1 DEF Range
  <2>2. CASE j >= i
    <3>1. r[j + 1] = s[j] /\ j + 1 \in DOMAIN r
      BY <1>1, <1>6, <1>7, <1>8, <2>2
    <3> QED BY <3>1 DEF Range
  <2> QED BY <1>1, <2>1, <2>2
<1>11. e \in Range(r)
  <2>1. r[i] = e /\ i \in DOMAIN r
    BY <1>1, <1>6, <1>7, <1>8
  <2> QED BY <2>1 DEF Range
<1>12. Range(s) \subseteq Range(r)
  BY <1>1, <1>10 DEF Range
<1> QED BY <1>5, <1>7, <1>9, <1>11, <1>12

\* One step of the insertion sort inserts, whatever is compared.
LEMMA InsertByAdds ==
  ASSUME NEW sels, NEW order \in Seq(Nat), NEW i \in Nat
  PROVE  /\ InsertBy(order, i, sels) \in Seq(Nat)
         /\ Len(InsertBy(order, i, sels)) = Len(order) + 1
         /\ Range(InsertBy(order, i, sels)) = Range(order) \cup {i}
<1>1. Len(order) \in Nat /\ DOMAIN order = 1 .. Len(order)
  BY LenProperties
<1> DEFINE A == {n \in DOMAIN order : sels[order[n]] <= sels[i]}
<1>2. Cardinality(A) \in 0 .. Len(order)
  <2>1. IsFiniteSet(1 .. Len(order)) /\ Cardinality(1 .. Len(order)) = Len(order)
    BY <1>1, FS_Interval
  <2>2. A \in SUBSET (1 .. Len(order))
    BY <1>1
  <2> HIDE DEF A
  <2>3. IsFiniteSet(A) /\ Cardinality(A) <= Len(order)
    BY <2>1, <2>2, FS_Subset
  <2>4. Cardinality(A) \in Nat
    BY <2>3, FS_CardinalityType
  <2> QED BY <1>1, <2>3, <2>4
<1>3. InsertBy(order, i, sels) = InsertAt(order, Cardinality(A) + 1, i)
  BY DEF InsertBy
<1> HIDE DEF A
<1> DEFINE m == Cardinality(A) + 1
<1>4. m \in 1 .. Len(order) + 1
  BY <1>1, <1>2
<1>5. InsertBy(order, i, sels) = InsertAt(order, m, i)
  BY <1>3
<1> HIDE DEF m
<1>6. /\ InsertAt(order, m, i) \in Seq(Nat)
      /\ Len(InsertAt(order, m, i)) = Len(order) + 1
      /\ Range(InsertAt(order, m, i)) = Range(order) \cup {i}
  BY <1>4, InsertAdds
<1> QED BY <1>4, <1>5, <1>6, Zenon

\* The function SortBySelectivity computes: the first n places in order.
Sorted(sels, f) == f = [n \in 0 .. Len(sels) |-> IF n = 0 THEN <<>> ELSE InsertBy(f[n - 1], n, sels)]

\* There is such a function.
LEMMA SortedExists ==
  ASSUME NEW sels, Len(sels) \in Nat
  PROVE  \E f : Sorted(sels, f)
<1> DEFINE n == Len(sels)
           X == Seq(Nat)
           T == [d \in 1 .. n |-> [x \in X |-> InsertBy(x, d, sels)]]
<1>1. T \in [1 .. n -> [X -> X]]
  <2>1. \A g \in Seq(Nat) : \A i \in Nat : InsertBy(g, i, sels) \in Seq(Nat)
    BY InsertByAdds
  <2>2. ASSUME NEW d \in 1 .. n, NEW x \in X PROVE InsertBy(x, d, sels) \in X
    BY <2>1
  <2> QED BY <2>2
<1>2. <<>> \in X
  BY EmptySeq
<1>3. PICK f : f \in [0 .. n -> X] /\ Recursive(f, n, <<>>, T)
  <2> HIDE DEF X, T
  <2> QED BY <1>1, <1>2, Recursion
<1>4. ASSUME NEW d \in 0 .. n PROVE f[d] = IF d = 0 THEN <<>> ELSE InsertBy(f[d - 1], d, sels)
  <2>1. f[d] = IF d = 0 THEN <<>> ELSE T[d][f[d - 1]]
    <3> HIDE DEF X, T
    <3> QED BY <1>3 DEF Recursive
  <2>2. CASE d # 0
    <3>1. d \in 1 .. n /\ f[d - 1] \in X
      BY <1>3, <2>2
    <3> QED BY <2>1, <2>2, <3>1
  <2> QED BY <2>1, <2>2
<1>5. f = [d \in 0 .. n |-> f[d]]
  BY <1>3
<1>6. Sorted(sels, f)
  BY <1>4, <1>5, Zenon DEF Sorted
<1> QED BY <1>6

\* Sorting by selectivity orders the places, whatever the selectivities.
LEMMA SortIsOrder ==
  ASSUME NEW sels, Len(sels) \in Nat
  PROVE  SortBySelectivity(sels) \in Orders(Len(sels))
<1> DEFINE f == CHOOSE g : Sorted(sels, g)
<1>1. Sorted(sels, f)
  BY SortedExists
<1>2. SortBySelectivity(sels) = f[Len(sels)]
  BY DEF SortBySelectivity, Sorted
<1> HIDE DEF f
<1>3. f[0] = <<>> /\ \A n \in 1 .. Len(sels) : f[n] = InsertBy(f[n - 1], n, sels)
  <2>1. \A n \in 0 .. Len(sels) : f[n] = IF n = 0 THEN <<>> ELSE InsertBy(f[n - 1], n, sels)
    BY <1>1 DEF Sorted
  <2> QED BY <2>1
<1> DEFINE Good(m) == f[m] \in Seq(Nat) /\ Len(f[m]) = m /\ Range(f[m]) = 1 .. m
           S == {m \in Nat : m <= Len(sels) => Good(m)}
<1>4. 0 \in S
  <2>1. Good(0)
    BY <1>3, EmptySeq DEF Range
  <2> QED BY <2>1
<1>5. ASSUME NEW m \in Nat, m \in S PROVE m + 1 \in S
  <2> SUFFICES ASSUME m + 1 <= Len(sels) PROVE Good(m + 1)
    OBVIOUS
  <2>1. Good(m) /\ m + 1 \in 1 .. Len(sels) /\ (m + 1) - 1 = m
    BY <1>5
  <2>2. f[m + 1] = InsertBy(f[m], m + 1, sels)
    BY <1>3, <2>1
  <2>3. f[m + 1] \in Seq(Nat) /\ Len(f[m + 1]) = m + 1 /\ Range(f[m + 1]) = Range(f[m]) \cup {m + 1}
    <3>1. f[m] \in Seq(Nat) /\ m + 1 \in Nat
      BY <2>1
    <3>2. \A g \in Seq(Nat) : \A i \in Nat :
            /\ InsertBy(g, i, sels) \in Seq(Nat)
            /\ Len(InsertBy(g, i, sels)) = Len(g) + 1
            /\ Range(InsertBy(g, i, sels)) = Range(g) \cup {i}
      BY InsertByAdds
    <3> QED BY <2>1, <2>2, <3>1, <3>2
  <2> QED BY <2>1, <2>3
<1>6. Good(Len(sels))
  <2>1. Nat \subseteq S
    <3> HIDE DEF S
    <3> QED BY <1>4, <1>5, SetInduction
  <2> QED BY <2>1
<1>7. DOMAIN f[Len(sels)] = 1 .. Len(sels) /\ f[Len(sels)] \in [1 .. Len(sels) -> Nat]
  BY <1>6, LenProperties
<1>8. f[Len(sels)] \in [1 .. Len(sels) -> 1 .. Len(sels)]
  BY <1>6, <1>7 DEF Range
<1> QED BY <1>2, <1>6, <1>8 DEF Orders

\* The conjuncts of a filter are rearranged, whatever the policy.
LEMMA ReorderedRearranges ==
  ASSUME NEW S, NEW conds \in Seq(S)
  PROVE  \E q \in Orders(Len(conds)) : Reordered(conds) = [n \in 1 .. Len(conds) |-> conds[q[n]]]
<1> DEFINE sels == Selectivities(conds)
           order == OrderPredicates(Source, sels)
<1>1. Len(conds) \in Nat /\ DOMAIN conds = 1 .. Len(conds)
  BY LenProperties
<1>2. DOMAIN sels = 1 .. Len(conds) /\ Len(sels) = Len(conds)
  <2>1. sels = [n \in 1 .. Len(conds) |-> Selectivity(cat, Source, conds[n])]
    BY <1>1 DEF Selectivities
  <2> HIDE DEF sels
  <2> QED BY <1>1, <2>1
<1> HIDE DEF sels
<1>3. order \in Orders(Len(conds))
  BY <1>1, <1>2, SortIsOrder, IdentityOrder DEF OrderPredicates
<1>4. Reordered(conds) = [n \in 1 .. Len(conds) |-> conds[order[n]]]
  BY <1>1 DEF Reordered, sels
<1> QED BY <1>3, <1>4

-----------------------------------------------------------------------------
(* Estimates are naturals *)

Stage == JoinStage \cup FilterStage

\* Products of naturals are naturals.
LEMMA TimesNat == \A x, y \in Nat : x * y \in Nat
OBVIOUS

\* Products of positive numbers are positive.
LEMMA TimesPositive == \A x, y \in Nat \ {0} : x * y \in Nat \ {0}
OBVIOUS

\* Quotients are naturals.
LEMMA DivNat == \A x \in Nat : \A y \in Nat \ {0} : x \div y \in Nat
OBVIOUS

\* Of two numbers, one is the greatest.
LEMMA MaxOfTwo ==
  ASSUME NEW x \in Nat, NEW y \in Nat
  PROVE  Max({x, y}) \in {x, y} /\ Max({x, y}) >= x /\ Max({x, y}) >= y
<1>1. \E m \in {x, y} : \A z \in {x, y} : m >= z
  OBVIOUS
<1>2. Max({x, y}) \in {x, y} /\ \A z \in {x, y} : Max({x, y}) >= z
  BY <1>1 DEF Max
<1> QED BY <1>2

\* And one is the least.
LEMMA MinOfTwo ==
  ASSUME NEW x \in Nat, NEW y \in Nat
  PROVE  Min({x, y}) \in {x, y} /\ Min({x, y}) <= x /\ Min({x, y}) <= y
<1>1. \E m \in {x, y} : \A z \in {x, y} : m <= z
  OBVIOUS
<1>2. Min({x, y}) \in {x, y} /\ \A z \in {x, y} : Min({x, y}) <= z
  BY <1>1 DEF Min
<1> QED BY <1>2

\* The rows of a table are a natural.
LEMMA CardNat ==
  ASSUME cat \in Catalogs, NEW t
  PROVE  Card(cat, t) \in Nat
<1>1. \A u \in DOMAIN cat.tables : cat.tables[u].rows \in Nat
  BY CatalogAssumption
<1>2. Unknown.rows \in Nat
  BY DEF Unknown
<1> QED BY <1>1, <1>2 DEF Card, Table, Exactly

\* So are the distinct values of a column.
LEMMA DistinctNat ==
  ASSUME cat \in Catalogs, NEW t, NEW c
  PROVE  ColumnOf(Exactly(cat, t), c).card \in Nat
<1>1. \A u \in DOMAIN cat.tables : \A d \in DOMAIN cat.tables[u].cols : cat.tables[u].cols[d].card \in Nat
  BY CatalogAssumption
<1>2. DOMAIN Unknown.cols = {} /\ NoColumn.card \in Nat
  BY DEF Unknown, NoColumn
<1> QED BY <1>1, <1>2 DEF ColumnOf, Exactly

\* A condition divides by at least one.
LEMMA EqJoinDivisorPositive ==
  ASSUME cat \in Catalogs, NEW lt, NEW rt, NEW cond
  PROVE  EqJoinDivisor(cat, lt, rt, cond) \in Nat \ {0}
<1> DEFINE x == ColumnOf(Exactly(cat, lt), cond.l).card
           y == ColumnOf(Exactly(cat, rt), cond.r).card
           m == Max({x, y})
<1>1. x \in Nat /\ y \in Nat
  BY DistinctNat
<1>2. m \in Nat
  <2> HIDE DEF x, y
  <2> QED BY <1>1, MaxOfTwo
<1>3. EqJoinDivisor(cat, lt, rt, cond) = IF m > 0 THEN m ELSE 10
  BY DEF EqJoinDivisor
<1> QED BY <1>2, <1>3

\* So do all conditions of a join.
LEMMA JoinDivisorPositive ==
  ASSUME cat \in Catalogs, NEW lt, NEW rt, NEW on, Len(on) \in Nat
  PROVE  JoinDivisor(cat, lt, rt, on) \in Nat \ {0}
<1> DEFINE n == Len(on)
           X == Nat \ {0}
           By(j) == IF on[j].form = "pair" THEN EqJoinDivisor(cat, lt, rt, on[j]) ELSE 10
           T == [d \in 1 .. n |-> [x \in X |-> x * By(d)]]
           F(g) == g = [j \in 0 .. n |-> IF j = 0 THEN 1 ELSE g[j - 1] * By(j)]
           f == CHOOSE g : F(g)
<1>1. \A j : By(j) \in X
  BY EqJoinDivisorPositive
<1>2. T \in [1 .. n -> [X -> X]] /\ 1 \in X
  <2> HIDE DEF By
  <2> QED BY <1>1, TimesPositive
<1>3. PICK g : g \in [0 .. n -> X] /\ Recursive(g, n, 1, T)
  <2> HIDE DEF X, T
  <2> QED BY <1>2, Recursion
<1>4. ASSUME NEW j \in 0 .. n PROVE g[j] = IF j = 0 THEN 1 ELSE g[j - 1] * By(j)
  <2>1. g[j] = IF j = 0 THEN 1 ELSE T[j][g[j - 1]]
    <3> HIDE DEF X, T
    <3> QED BY <1>3 DEF Recursive
  <2>2. CASE j # 0
    <3>1. j \in 1 .. n /\ g[j - 1] \in X
      <4> HIDE DEF X
      <4> QED BY <1>3, <2>2
    <3> HIDE DEF By, X
    <3> QED BY <2>1, <2>2, <3>1
  <2> QED BY <2>1, <2>2
<1>5. F(g)
  <2>1. g = [j \in 0 .. n |-> g[j]]
    BY <1>3
  <2> HIDE DEF By
  <2> QED BY <1>4, <2>1, Zenon
<1>6. F(f)
  <2> HIDE DEF F
  <2> QED BY <1>5
<1>7. JoinDivisor(cat, lt, rt, on) = f[n]
  BY DEF JoinDivisor
<1> DEFINE S == {m \in Nat : m <= n => f[m] \in X}
<1>8. \A j \in 0 .. n : f[j] = IF j = 0 THEN 1 ELSE f[j - 1] * By(j)
  <2> HIDE DEF f, By
  <2> QED BY <1>6
<1> HIDE DEF f, By
<1>9. 0 \in S
  BY <1>8
<1>10. ASSUME NEW m \in Nat, m \in S PROVE m + 1 \in S
  <2> SUFFICES ASSUME m + 1 <= n PROVE f[m + 1] \in X
    OBVIOUS
  <2>1. f[m] \in X /\ By(m + 1) \in X
    BY <1>1, <1>10
  <2>2. f[m + 1] = f[m] * By(m + 1)
    <3>1. m + 1 \in 0 .. n /\ m + 1 # 0 /\ (m + 1) - 1 = m
      OBVIOUS
    <3> QED BY <1>8, <3>1
  <2> QED BY <2>1, <2>2, TimesPositive
<1>11. Nat \subseteq S
  <2> HIDE DEF S
  <2> QED BY <1>9, <1>10, SetInduction
<1> QED BY <1>7, <1>11

\* Estimated rows are naturals.
LEMMA OutputNat ==
  ASSUME cat \in Catalogs, NEW lt, NEW rt, NEW on, Len(on) \in Nat, NEW l \in Nat, NEW r \in Nat
  PROVE  OutputCardinality(cat, lt, rt, on, l, r) \in Nat
<1> DEFINE d == JoinDivisor(cat, lt, rt, on)
           q == (l * r) \div d
<1>1. d \in Nat \ {0}
  BY JoinDivisorPositive
<1>2. q \in Nat
  <2> HIDE DEF d
  <2> QED BY <1>1, TimesNat, DivNat
<1>3. OutputCardinality(cat, lt, rt, on, l, r) = IF l <= 0 \/ r <= 0 THEN 0 ELSE Max({1, q})
  BY DEF OutputCardinality
<1> HIDE DEF q
<1>4. Max({1, q}) \in Nat
  BY <1>2, MaxOfTwo
<1> QED BY <1>3, <1>4

\* And so are costs.
LEMMA ApproxJoinCostNat ==
  ASSUME weights \in WeightSets, NEW l \in Nat, NEW r \in Nat
  PROVE  ApproxJoinCost(l, r, weights) \in Nat
<1> DEFINE small == Smaller(l, r)
           hash  == (l + r) * weights.cpu + small * weights.mem
           loop  == l * r * weights.cpu
<1>1. weights.cpu \in Nat /\ weights.mem \in Nat
  BY WeightsAssumption
<1>2. small \in Nat
  BY MinOfTwo DEF Smaller
<1>3. hash \in Nat /\ loop \in Nat
  <2>1. l + r \in Nat /\ l * r \in Nat
    BY TimesNat
  <2> HIDE DEF small
  <2>2. (l + r) * weights.cpu \in Nat /\ small * weights.mem \in Nat /\ loop \in Nat
    BY <1>1, <1>2, <2>1, TimesNat
  <2> QED BY <2>2
<1>4. ApproxJoinCost(l, r, weights) = Smaller(hash, loop)
  BY DEF ApproxJoinCost
<1> HIDE DEF hash, loop
<1> QED BY <1>3, <1>4, MinOfTwo DEF Smaller

-----------------------------------------------------------------------------
(* ApplyJoinOrder *)

State == [cost : Nat, out : Nat, last : Nat]
Ways(best, chain, S) ==
  [i \in S |-> AddTable(best[S \ {i}], IF S = {i} THEN Source ELSE "", chain, i)]
CheapestWay(via, S) ==
  LET cheapest == Min({via[i].cost : i \in S}) IN via[Min({i \in S : via[i].cost = cheapest})]

\* The conditions of a table's name are a join's.
LEMMA OnOfChain ==
  ASSUME NEW chain \in Seq(JoinStage), NEW i \in DOMAIN chain
  PROVE  OnOf(chain, chain[i].right) \in Seq(Condition)
<1> DEFINE T == {n \in DOMAIN chain : chain[n].right = chain[i].right}
<1>1. Len(chain) \in Nat /\ DOMAIN chain = 1 .. Len(chain) /\ \A n \in DOMAIN chain : chain[n] \in JoinStage
  BY LenProperties
<1>2. T \subseteq Nat /\ T # {} /\ \A t \in T : t <= Len(chain)
  BY <1>1
<1>3. \E m \in T : \A t \in T : m >= t
  <2> HIDE DEF T
  <2> QED BY <1>1, <1>2, GreatestElement
<1>4. Max(T) \in T
  <2> HIDE DEF T
  <2> QED BY <1>3 DEF Max
<1>5. OnOf(chain, chain[i].right) = chain[Max(T)].on
  BY DEF OnOf
<1>6. chain[Max(T)] \in JoinStage
  BY <1>1, <1>4
<1> QED BY <1>5, <1>6 DEF JoinStage

\* One more table makes a state of a state.
LEMMA AddTableState ==
  ASSUME cat \in Catalogs, weights \in WeightSets,
         NEW chain \in Seq(JoinStage), NEW i \in DOMAIN chain, NEW s \in State, NEW left
  PROVE  AddTable(s, left, chain, i) \in State /\ AddTable(s, left, chain, i).last = i
<1> DEFINE t == chain[i].right
           cost == s.cost + ApproxJoinCost(s.out, Card(cat, t), weights)
           out  == OutputCardinality(cat, left, t, OnOf(chain, t), s.out, Card(cat, t))
<1>1. s.cost \in Nat /\ s.out \in Nat /\ Card(cat, t) \in Nat
  BY CardNat DEF State
<1>2. i \in Nat
  BY LenProperties
<1>3. cost \in Nat
  <2>1. ApproxJoinCost(s.out, Card(cat, t), weights) \in Nat
    <3> HIDE DEF t
    <3> QED BY <1>1, ApproxJoinCostNat
  <2> QED BY <1>1, <2>1
<1>4. out \in Nat
  <2>1. Len(OnOf(chain, t)) \in Nat
    BY OnOfChain, LenProperties
  <2> HIDE DEF t
  <2> QED BY <1>1, <2>1, OutputNat
<1>5. AddTable(s, left, chain, i) = [cost |-> cost, out |-> out, last |-> i]
  BY DEF AddTable
<1> HIDE DEF cost, out
<1> QED BY <1>2, <1>3, <1>4, <1>5 DEF State

\* A way that costs least is taken.
LEMMA CheapestWayIsLeast ==
  ASSUME NEW S, S \subseteq Nat, S # {}, NEW v \in [S -> State]
  PROVE  \E m \in S : CheapestWay(v, S) = v[m] /\ \A j \in S : v[m].cost <= v[j].cost
<1> DEFINE C == {v[i].cost : i \in S}
           M == {i \in S : v[i].cost = Min(C)}
<1>1. C \subseteq Nat /\ C # {}
  BY DEF State
<1>2. Min(C) \in C /\ \A c \in C : Min(C) <= c
  <2> HIDE DEF C
  <2> QED BY <1>1, ChosenLeast DEF Min
<1>3. M \subseteq Nat /\ M # {}
  <2>1. PICK i \in S : Min(C) = v[i].cost
    BY <1>2
  <2> QED BY <2>1
<1>4. Min(M) \in M
  <2> HIDE DEF M
  <2> QED BY <1>3, ChosenLeast DEF Min
<1>5. CheapestWay(v, S) = v[Min(M)]
  BY DEF CheapestWay
<1>6. \A j \in S : Min(C) <= v[j].cost
  BY <1>2
<1> HIDE DEF C
<1>7. Min(M) \in S /\ v[Min(M)].cost = Min(C)
  BY <1>4
<1> HIDE DEF M
<1> QED BY <1>5, <1>6, <1>7

\* What the dynamic program computes is defined.
IsBest(chain, best) ==
  best = [S \in SUBSET DOMAIN chain |->
            IF S = {} THEN [cost |-> 0, out |-> Card(cat, Source), last |-> 0]
            ELSE CheapestWay(Ways(best, chain, S), S)]
LEMMA BestExists ==
  ASSUME cat \in Catalogs, weights \in WeightSets, NEW chain \in Seq(JoinStage)
  PROVE  \E best \in [SUBSET DOMAIN chain -> State] : IsBest(chain, best)
<1> DEFINE D == DOMAIN chain
           F == [SUBSET D -> State]
           base == [cost |-> 0, out |-> Card(cat, Source), last |-> 0]
           Value0(f, S) == IF S = {} THEN base ELSE CheapestWay(Ways(f, chain, S), S)
           T == [f \in F |-> [S \in SUBSET D |-> Value0(f, S)]]
<1>1. IsFiniteSet(D) /\ D \subseteq Nat
  <2>1. Len(chain) \in Nat /\ D = 1 .. Len(chain)
    BY LenProperties
  <2> QED BY <2>1, FS_Interval
<1>2. base \in State
  BY CardNat DEF State
<1>3. ASSUME NEW f \in F, NEW S \in SUBSET D PROVE Value0(f, S) \in State
  <2>1. CASE S = {}
    BY <1>2, <2>1
  <2>2. CASE S # {}
    <3>1. Ways(f, chain, S) \in [S -> State]
      <4>1. ASSUME NEW i \in S PROVE AddTable(f[S \ {i}], IF S = {i} THEN Source ELSE "", chain, i) \in State
        <5>1. f[S \ {i}] \in State /\ i \in DOMAIN chain
          OBVIOUS
        <5> QED BY <5>1, AddTableState
      <4> QED BY <4>1 DEF Ways
    <3>2. \E m \in S : CheapestWay(Ways(f, chain, S), S) = Ways(f, chain, S)[m]
      <4> HIDE DEF F
      <4> QED BY <1>1, <2>2, <3>1, CheapestWayIsLeast
    <3> QED BY <2>2, <3>1, <3>2
  <2> QED BY <2>1, <2>2
<1>4. T \in [F -> [SUBSET D -> State]]
  <2> HIDE DEF Value0
  <2> QED BY <1>3
<1>5. ASSUME NEW f \in F, NEW h \in F, NEW S \in SUBSET D, \A R \in SUBSET S : R # S => f[R] = h[R]
      PROVE  T[f][S] = T[h][S]
  <2>1. Ways(f, chain, S) = Ways(h, chain, S)
    <3>1. \A i \in S : f[S \ {i}] = h[S \ {i}]
      <4>1. \A i \in S : S \ {i} \in SUBSET S /\ S \ {i} # S
        OBVIOUS
      <4> QED BY <1>5, <4>1
    <3> QED BY <3>1 DEF Ways
  <2>2. Value0(f, S) = Value0(h, S)
    BY <2>1
  <2> HIDE DEF Value0
  <2> QED BY <2>2
<1>6. PICK h \in F : T[h] = h
  <2>1. T \in [Maps(D, State) -> Maps(D, State)] /\ Local(D, State, T)
    <3> HIDE DEF D, base, T
    <3> QED BY <1>4, <1>5 DEF Local, Maps
  <2>2. \E h \in Maps(D, State) : T[h] = h
    <3> HIDE DEF D, base, T
    <3> QED BY <1>1, <1>2, <2>1, SubsetRecursion
  <2> QED BY <2>2 DEF Maps
<1>7. h = [S \in SUBSET D |-> Value0(h, S)]
  <2> HIDE DEF Value0
  <2> QED BY <1>6
<1>8. IsBest(chain, h)
  BY <1>7 DEF IsBest
<1> QED BY <1>8

\* The best way to a set of tables adds one of them, at the least cost, to the best
\* way to the others.
LEMMA BestUnfolds ==
  ASSUME cat \in Catalogs, weights \in WeightSets, NEW chain \in Seq(JoinStage)
  PROVE  /\ Best(chain) \in [SUBSET DOMAIN chain -> State]
         /\ Best(chain)[{}] = [cost |-> 0, out |-> Card(cat, Source), last |-> 0]
         /\ \A S \in SUBSET DOMAIN chain : S # {} =>
              LET w == Ways(Best(chain), chain, S)
                  i == Best(chain)[S].last
              IN  /\ i \in S
                  /\ Best(chain)[S] = w[i]
                  /\ \A j \in S : w[i].cost <= w[j].cost
<1> DEFINE b == Best(chain)
<1>1. b = CHOOSE best : IsBest(chain, best)
  BY DEF Best, IsBest, Ways, CheapestWay
<1>2. IsBest(chain, b)
  <2> HIDE DEF b
  <2> QED BY <1>1, BestExists
<1>3. DOMAIN chain \subseteq Nat /\ IsFiniteSet(DOMAIN chain)
  <2>1. Len(chain) \in Nat /\ DOMAIN chain = 1 .. Len(chain)
    BY LenProperties
  <2> QED BY <2>1, FS_Interval
<1> HIDE DEF b
<1>4. b = [S \in SUBSET DOMAIN chain |-> b[S]]
  BY <1>2 DEF IsBest
<1>5. b[{}] = [cost |-> 0, out |-> Card(cat, Source), last |-> 0]
  BY <1>2 DEF IsBest
<1>6. \A S \in SUBSET DOMAIN chain : S # {} => b[S] = CheapestWay(Ways(b, chain, S), S)
  BY <1>2 DEF IsBest
<1> DEFINE G == {S \in SUBSET DOMAIN chain : b[S] \in State}
<1>7. ASSUME NEW S \in SUBSET DOMAIN chain, \A R \in SUBSET S : R # S => R \in G
      PROVE  S # {} => /\ Ways(b, chain, S) \in [S -> State]
                       /\ \A i \in S : Ways(b, chain, S)[i].last = i
  <2> DEFINE a(i) == AddTable(b[S \ {i}], IF S = {i} THEN Source ELSE "", chain, i)
  <2>1. ASSUME NEW i \in S PROVE a(i) \in State /\ a(i).last = i
    <3>1. S \ {i} \in SUBSET S /\ S \ {i} # S
      OBVIOUS
    <3>2. b[S \ {i}] \in State /\ i \in DOMAIN chain
      BY <1>7, <3>1
    <3>3. \A s \in State : \A left : AddTable(s, left, chain, i) \in State /\ AddTable(s, left, chain, i).last = i
      BY <3>2, AddTableState
    <3> QED BY <3>2, <3>3, Zenon
  <2> QED BY <2>1 DEF Ways
<1>8. ASSUME NEW S \in SUBSET DOMAIN chain, S # {}, Ways(b, chain, S) \in [S -> State]
      PROVE  \E m \in S : /\ b[S] = Ways(b, chain, S)[m]
                          /\ \A j \in S : Ways(b, chain, S)[m].cost <= Ways(b, chain, S)[j].cost
  BY <1>3, <1>6, <1>8, CheapestWayIsLeast
<1>9. SUBSET DOMAIN chain \subseteq G
  <2>1. ASSUME NEW S \in SUBSET DOMAIN chain, \A R \in SUBSET S : R # S => R \in G
        PROVE  S \in G
    <3>1. CASE S = {}
      BY <1>5, <3>1, CardNat DEF State
    <3>2. CASE S # {}
      <4>1. Ways(b, chain, S) \in [S -> State]
        BY <1>7, <2>1, <3>2
      <4>2. PICK m \in S : b[S] = Ways(b, chain, S)[m]
        BY <1>8, <3>2, <4>1
      <4> QED BY <4>1, <4>2
    <3> QED BY <3>1, <3>2
  <2> HIDE DEF G
  <2> QED BY <1>3, <2>1, SubsetInduction
<1>10. ASSUME NEW S \in SUBSET DOMAIN chain, S # {}
       PROVE  /\ b[S].last \in S
              /\ b[S] = Ways(b, chain, S)[b[S].last]
              /\ \A j \in S : Ways(b, chain, S)[b[S].last].cost <= Ways(b, chain, S)[j].cost
  <2>1. Ways(b, chain, S) \in [S -> State] /\ \A i \in S : Ways(b, chain, S)[i].last = i
    <3>1. \A R \in SUBSET S : R # S => R \in G
      BY <1>9
    <3> HIDE DEF G
    <3> QED BY <1>7, <1>10, <3>1
  <2>2. PICK m \in S : /\ b[S] = Ways(b, chain, S)[m]
                       /\ \A j \in S : Ways(b, chain, S)[m].cost <= Ways(b, chain, S)[j].cost
    BY <1>8, <1>10, <2>1
  <2>3. b[S].last = m
    BY <2>1, <2>2
  <2> QED BY <2>2, <2>3
<1>11. b \in [SUBSET DOMAIN chain -> State]
  BY <1>4, <1>9
<1> QED BY <1>5, <1>10, <1>11 DEF b

\* What the walk back through the best ways is, from the last table on.
IsWalk(chain, w) ==
  w = [S \in SUBSET DOMAIN chain |->
         IF S = {} THEN <<>>
         ELSE Append(w[S \ {Best(chain)[S].last}], chain[Best(chain)[S].last].right)]
LEMMA WalkExists ==
  ASSUME cat \in Catalogs, weights \in WeightSets, NEW chain \in Seq(JoinStage)
  PROVE  \E w : IsWalk(chain, w)
<1> DEFINE D == DOMAIN chain
           X == Seq(STRING)
           F == [SUBSET D -> X]
           Final(S) == Best(chain)[S].last
           Value0(f, S) == IF S = {} THEN <<>> ELSE Append(f[S \ {Final(S)}], chain[Final(S)].right)
           T == [f \in F |-> [S \in SUBSET D |-> Value0(f, S)]]
<1>1. IsFiniteSet(D)
  <2>1. Len(chain) \in Nat /\ D = 1 .. Len(chain)
    BY LenProperties
  <2> QED BY <2>1, FS_Interval
<1>2. <<>> \in X
  BY EmptySeq
<1>3. \A S \in SUBSET D : S # {} => Final(S) \in S
  BY BestUnfolds
<1> HIDE DEF Final
<1>4. ASSUME NEW f \in F, NEW S \in SUBSET D PROVE Value0(f, S) \in X
  <2>1. CASE S # {}
    <3>1. f[S \ {Final(S)}] \in X
      OBVIOUS
    <3>2. chain[Final(S)] \in JoinStage
      BY <1>3, <2>1, LenProperties
    <3>3. chain[Final(S)].right \in STRING
      BY <3>2 DEF JoinStage
    <3> QED BY <2>1, <3>1, <3>3, AppendProperties
  <2> QED BY <1>2, <2>1
<1>5. T \in [F -> [SUBSET D -> X]]
  <2> HIDE DEF Value0
  <2> QED BY <1>4
<1>6. ASSUME NEW f \in F, NEW h \in F, NEW S \in SUBSET D, \A R \in SUBSET S : R # S => f[R] = h[R]
      PROVE  T[f][S] = T[h][S]
  <2>1. S # {} => S \ {Final(S)} \in SUBSET S /\ S \ {Final(S)} # S
    BY <1>3
  <2>2. Value0(f, S) = Value0(h, S)
    BY <1>6, <2>1
  <2> HIDE DEF Value0
  <2> QED BY <2>2
<1>7. PICK h \in F : T[h] = h
  <2>1. T \in [Maps(D, X) -> Maps(D, X)] /\ Local(D, X, T)
    <3> HIDE DEF D, X, T
    <3> QED BY <1>5, <1>6 DEF Local, Maps
  <2>2. \E h \in Maps(D, X) : T[h] = h
    <3> HIDE DEF D, X, T
    <3> QED BY <1>1, <1>2, <2>1, SubsetRecursion
  <2> QED BY <2>2 DEF Maps
<1>8. h = [S \in SUBSET D |-> Value0(h, S)]
  <2> HIDE DEF Value0
  <2> QED BY <1>7
<1>9. IsWalk(chain, h)
  BY <1>8 DEF IsWalk, Final
<1> QED BY <1>9

\* The first n places of q each come last in the best way to them and those before.
Walked(chain, q, n) == \A m \in 1 .. n : q[m] = Best(chain)[Prefix(q, m)].last

\* A sequence takes the n places of a set, each once, and gives the tables' names.
NamesOf(chain, S, n, s) ==
  \E q \in [1 .. n -> S] :
    /\ \A i, j \in 1 .. n : q[i] = q[j] => i = j
    /\ Prefix(q, n) = S
    /\ Walked(chain, q, n)
    /\ s = [j \in 1 .. n |-> chain[q[j]].right]

\* The names the walk gives are those of a set's tables.
LEMMA WalkNames ==
  ASSUME cat \in Catalogs, weights \in WeightSets, NEW chain \in Seq(JoinStage),
         NEW w, IsWalk(chain, w)
  PROVE  \A S \in SUBSET DOMAIN chain : NamesOf(chain, S, Cardinality(S), w[S])
<1> DEFINE D == DOMAIN chain
           Final(S) == Best(chain)[S].last
           G == {S \in SUBSET D : NamesOf(chain, S, Cardinality(S), w[S])}
<1>1. IsFiniteSet(D) /\ D \subseteq Nat
  <2>1. Len(chain) \in Nat /\ D = 1 .. Len(chain)
    BY LenProperties
  <2> QED BY <2>1, FS_Interval
<1>2. \A S \in SUBSET D : S # {} => Final(S) \in S
  BY BestUnfolds
<1>3. w[{}] = <<>> /\ \A S \in SUBSET D : S # {} => w[S] = Append(w[S \ {Final(S)}], chain[Final(S)].right)
  BY DEF IsWalk
<1> HIDE DEF Final
<1>4. ASSUME NEW S \in SUBSET D, \A R \in SUBSET S : R # S => R \in G PROVE S \in G
  <2>1. CASE S = {}
    <3>1. Cardinality({}) = 0
      BY FS_EmptySet
    <3>2. NamesOf(chain, {}, 0, <<>>)
      <4> DEFINE q == [i \in 1 .. 0 |-> i]
      <4>1. q \in [1 .. 0 -> {}] /\ <<>> = [j \in 1 .. 0 |-> chain[q[j]].right]
        OBVIOUS
      <4>2. Prefix(q, 0) = {} /\ Walked(chain, q, 0)
        BY DEF Prefix, Walked
      <4> HIDE DEF q
      <4> QED BY <4>1, <4>2 DEF NamesOf
    <3> QED BY <1>3, <2>1, <3>1, <3>2
  <2>2. CASE S # {}
    <3> DEFINE i == Final(S)
               R == S \ {i}
               m == Cardinality(R)
    <3>1. i \in S /\ IsFiniteSet(S) /\ m \in Nat /\ Cardinality(S) = m + 1
      <4>1. i \in S /\ IsFiniteSet(S)
        BY <1>1, <1>2, <2>2, FS_Subset
      <4>2. IsFiniteSet(R) /\ Cardinality(R) = Cardinality(S) - 1
        BY <4>1, FS_RemoveElement
      <4>3. Cardinality(R) \in Nat /\ Cardinality(S) \in Nat
        BY <4>1, <4>2, FS_CardinalityType
      <4> QED BY <4>1, <4>2, <4>3
    <3>2. PICK q \in [1 .. m -> R] : /\ \A x, y \in 1 .. m : q[x] = q[y] => x = y
                                     /\ Prefix(q, m) = R /\ Walked(chain, q, m)
                                     /\ w[R] = [j \in 1 .. m |-> chain[q[j]].right]
      <4>1. R \in SUBSET S /\ R # S
        BY <3>1
      <4>2. NamesOf(chain, R, m, w[R])
        BY <1>4, <4>1
      <4> QED BY <4>2 DEF NamesOf
    <3>3. w[S] = Append(w[R], chain[i].right)
      BY <1>3, <2>2
    <3>12. R \cup {i} = S /\ i = Best(chain)[S].last
      BY <3>1 DEF Final
    <3> HIDE DEF R, m, i
    <3> DEFINE p == [j \in 1 .. m + 1 |-> IF j = m + 1 THEN i ELSE q[j]]
    <3>4. i \notin R /\ R \subseteq S
      BY DEF R
    <3>5. p \in [1 .. m + 1 -> S]
      BY <3>1, <3>2, <3>4
    <3>6. \A x, y \in 1 .. m + 1 : p[x] = p[y] => x = y
      BY <3>1, <3>2, <3>4
    <3>7. Append(w[R], chain[i].right) = [j \in 1 .. m + 1 |-> chain[p[j]].right]
      <4>1. w[R] \in Seq(STRING) /\ Len(w[R]) = m /\ \A j \in 1 .. m : w[R][j] = chain[q[j]].right
        <5>1. \A j \in 1 .. m : chain[q[j]].right \in STRING
          <6>1. \A j \in 1 .. m : chain[q[j]] \in JoinStage
            BY <3>4, LenProperties
          <6> QED BY <6>1 DEF JoinStage
        <5> QED BY <3>1, <3>2, <5>1
      <4>2. chain[i].right \in STRING
        <5>1. chain[i] \in JoinStage
          BY <3>1, LenProperties
        <5> QED BY <5>1 DEF JoinStage
      <4> DEFINE a == Append(w[R], chain[i].right)
      <4>3. a \in Seq(STRING) /\ Len(a) = m + 1 /\ a[m + 1] = chain[i].right /\ \A j \in 1 .. m : a[j] = w[R][j]
        BY <4>1, <4>2, AppendProperties
      <4> HIDE DEF a
      <4>4. a = [j \in 1 .. m + 1 |-> a[j]]
        BY <4>3, LenProperties
      <4>5. ASSUME NEW j \in 1 .. m + 1 PROVE a[j] = chain[p[j]].right
        BY <3>1, <4>1, <4>3
      <4> HIDE DEF p
      <4>6. a = [j \in 1 .. m + 1 |-> chain[p[j]].right]
        BY <4>4, <4>5, Zenon
      <4> QED BY <4>6 DEF a
    <3>10. Prefix(p, m + 1) = S
      <4>1. \A x \in 1 .. m : p[x] = q[x]
        BY <3>1
      <4>2. p[m + 1] = i /\ m + 1 \in 1 .. m + 1 /\ \A x \in 1 .. m + 1 : x = m + 1 \/ x \in 1 .. m
        BY <3>1
      <4>3. \A x \in 1 .. m : x \in 1 .. m + 1
        BY <3>1
      <4> HIDE DEF p
      <4>4. Prefix(p, m + 1) = Prefix(q, m) \cup {i}
        BY <4>1, <4>2, <4>3 DEF Prefix
      <4> QED BY <3>2, <3>12, <4>4
    <3>11. Walked(chain, p, m + 1)
      <4>1. ASSUME NEW j \in 1 .. m PROVE p[j] = Best(chain)[Prefix(p, j)].last
        <5>1. \A x \in 1 .. j : p[x] = q[x]
          BY <3>1
        <5>2. p[j] = q[j]
          BY <3>1
        <5> HIDE DEF p
        <5>3. Prefix(p, j) = Prefix(q, j)
          BY <5>1 DEF Prefix
        <5> QED BY <3>2, <5>2, <5>3 DEF Walked
      <4>2. p[m + 1] = i /\ \A x \in 1 .. m + 1 : x = m + 1 \/ x \in 1 .. m
        BY <3>1
      <4> HIDE DEF p
      <4> QED BY <3>10, <3>12, <4>1, <4>2 DEF Walked
    <3> HIDE DEF p
    <3>8. w[S] = [j \in 1 .. m + 1 |-> chain[p[j]].right]
      BY <3>3, <3>7
    <3>9. NamesOf(chain, S, m + 1, w[S])
      <4> HIDE DEF D
      <4> QED BY <3>5, <3>6, <3>8, <3>10, <3>11 DEF NamesOf
    <3> HIDE DEF D
    <3> QED BY <3>1, <3>9
  <2> QED BY <2>1, <2>2
<1>5. SUBSET D \subseteq G
  <2> HIDE DEF D, G
  <2> QED BY <1>1, <1>4, SubsetInduction
<1> QED BY <1>5

\* The tables the joins are given in are those of the chain, in some order: the one
\* the best ways give, if all have rows.
LEMMA EnumeratedNames ==
  ASSUME cat \in Catalogs, weights \in WeightSets, NEW chain \in Seq(JoinStage)
  PROVE  \E q \in Orders(Len(chain)) :
           /\ EnumerateJoinOrder(chain) = [j \in 1 .. Len(chain) |-> chain[q[j]].right]
           /\ (\A j \in DOMAIN chain : Card(cat, chain[j].right) # 0) => Walked(chain, q, Len(chain))
<1> DEFINE n == Len(chain)
           D == DOMAIN chain
<1>1. n \in Nat /\ D = 1 .. n
  BY LenProperties
<1>2. CASE \E j \in DOMAIN chain : Card(cat, chain[j].right) = 0
  <2> DEFINE q == [j \in 1 .. n |-> j]
  <2>1. q \in Orders(n)
    BY <1>1, IdentityOrder
  <2>2. EnumerateJoinOrder(chain) = [j \in 1 .. n |-> chain[q[j]].right]
    BY <1>1, <1>2 DEF EnumerateJoinOrder
  <2> HIDE DEF q
  <2> QED BY <1>2, <2>1, <2>2
<1>3. CASE ~ \E j \in DOMAIN chain : Card(cat, chain[j].right) = 0
  <2> DEFINE w == CHOOSE v : IsWalk(chain, v)
  <2>1. IsWalk(chain, w)
    BY WalkExists
  <2>2. EnumerateJoinOrder(chain) = w[D]
    BY <1>3 DEF EnumerateJoinOrder, IsWalk
  <2> HIDE DEF w
  <2>3. Cardinality(D) = n
    BY <1>1, FS_Interval
  <2>4. NamesOf(chain, D, Cardinality(D), w[D])
    BY <2>1, WalkNames
  <2>5. PICK q \in [1 .. n -> D] : /\ \A i, j \in 1 .. n : q[i] = q[j] => i = j
                                   /\ Walked(chain, q, n)
                                   /\ w[D] = [j \in 1 .. n |-> chain[q[j]].right]
    BY <2>3, <2>4 DEF NamesOf
  <2>6. q \in Orders(n)
    <3> HIDE DEF n
    <3> QED BY <1>1, <2>5, InjectiveIsOrder
  <2> QED BY <2>2, <2>5, <2>6
<1> QED BY <1>2, <1>3

\* t takes m places of 1..n, each once, whose tables have the names of the first m
\* places of q.
Takes(chain, q, n, m, t) ==
  /\ t \in [1 .. m -> 1 .. n]
  /\ \A i, j \in 1 .. m : t[i] = t[j] => i = j
  /\ \A j \in 1 .. m : SameName(chain[t[j]].right, chain[q[j]].right)

\* No name runs out: whichever joins the first names have taken, one that bears the
\* next name is left.
LEMMA OneIsLeft ==
  ASSUME NEW chain, NEW n \in Nat, NEW q \in Orders(n), NEW m \in Nat, m < n,
         NEW t, Takes(chain, q, n, m, t)
  PROVE  \E i \in 1 .. n : i \notin Range(t) /\ SameName(chain[i].right, chain[q[m + 1]].right)
<1> SUFFICES ASSUME \A i \in 1 .. n : SameName(chain[i].right, chain[q[m + 1]].right) => i \in Range(t)
             PROVE  FALSE
  OBVIOUS
<1> DEFINE C == {i \in 1 .. n : SameName(chain[i].right, chain[q[m + 1]].right)}
           At0(i) == CHOOSE j \in 1 .. m : t[j] = i
           g == [i \in C |-> q[At0(i)]]
<1>1. /\ q \in [1 .. n -> 1 .. n]
      /\ \A i, j \in 1 .. n : q[i] = q[j] => i = j
  BY OrderProperties
<1>2. /\ t \in [1 .. m -> 1 .. n]
      /\ \A i, j \in 1 .. m : t[i] = t[j] => i = j
      /\ \A j \in 1 .. m : SameName(chain[t[j]].right, chain[q[j]].right)
  BY DEF Takes
<1>3. \A i \in C : At0(i) \in 1 .. m /\ t[At0(i)] = i
  <2>1. \A i \in C : \E j \in 1 .. m : t[j] = i
    BY <1>2 DEF Range
  <2> QED BY <2>1
<1>4. IsFiniteSet(C) /\ C \subseteq 1 .. n
  <2>1. C \in SUBSET (1 .. n) /\ IsFiniteSet(1 .. n)
    BY FS_Interval
  <2> HIDE DEF C
  <2> QED BY <2>1, FS_Subset
<1> HIDE DEF At0
<1>5. ASSUME NEW i \in C PROVE q[At0(i)] \in C
  <2>1. At0(i) \in 1 .. m /\ At0(i) \in 1 .. n /\ t[At0(i)] = i
    BY <1>3
  <2>2. SameName(chain[i].right, chain[q[At0(i)]].right)
    BY <1>2, <2>1
  <2>3. q[At0(i)] \in 1 .. n
    BY <1>1, <2>1
  <2>4. SameName(chain[i].right, chain[q[m + 1]].right)
    OBVIOUS
  <2> QED BY <2>2, <2>3, <2>4 DEF SameName
<1>6. \A i, j \in C : q[At0(i)] = q[At0(j)] => i = j
  <2>1. \A i \in C : At0(i) \in 1 .. n
    BY <1>3
  <2> QED BY <1>1, <1>3, <2>1
<1>7. q[m + 1] \in C
  BY <1>1 DEF SameName
<1> HIDE DEF C
<1>8. g \in Injection(C, C)
  <2>1. g \in [C -> C] /\ \A i, j \in C : g[i] = g[j] => i = j
    BY <1>5, <1>6
  <2> HIDE DEF g
  <2> QED BY <2>1, Fun_IsInj
<1>9. g \in Surjection(C, C)
  BY <1>4, <1>8, FS_Injection
<1>10. PICK i \in C : g[i] = q[m + 1]
  BY <1>7, <1>9, Fun_SurjectionProperties
<1>11. q[At0(i)] = q[m + 1] /\ At0(i) \in 1 .. m
  BY <1>3, <1>10
<1> QED BY <1>1, <1>11

\* The joins the names have taken so far, the first that is left each time.
NextTake(chain, names, taken, j) ==
  Min({i \in DOMAIN chain : i \notin Range(taken) /\ SameName(chain[i].right, names[j])})
IsTake(chain, names, f) ==
  f = [j \in 0 .. Len(names) |->
         IF j = 0 THEN <<>> ELSE Append(f[j - 1], NextTake(chain, names, f[j - 1], j))]

\* What is taken is defined.
LEMMA TakeExists ==
  ASSUME NEW chain, NEW names, Len(names) \in Nat
  PROVE  \E f : IsTake(chain, names, f)
<1> DEFINE n == Len(names)
           Step(x, j) == Append(x, NextTake(chain, names, x, j))
           Upto(m, f) == f = [j \in 0 .. m |-> IF j = 0 THEN <<>> ELSE Step(f[j - 1], j)]
           S == {m \in Nat : \E f : Upto(m, f)}
<1>1. 0 \in S
  <2>1. Upto(0, [j \in 0 .. 0 |-> <<>>])
    OBVIOUS
  <2> QED BY <2>1
<1>2. ASSUME NEW m \in Nat, m \in S PROVE m + 1 \in S
  <2>1. PICK f : Upto(m, f)
    BY <1>2
  <2> DEFINE h == [j \in 0 .. m + 1 |-> IF j = m + 1 THEN Step(f[m], m + 1) ELSE f[j]]
  <2> HIDE DEF Step
  <2>2. \A j \in 0 .. m : f[j] = IF j = 0 THEN <<>> ELSE Step(f[j - 1], j)
    BY <2>1
  <2>3. ASSUME NEW j \in 0 .. m + 1 PROVE h[j] = IF j = 0 THEN <<>> ELSE Step(h[j - 1], j)
    <3>1. CASE j = m + 1
      <4>1. h[j] = Step(f[m], m + 1) /\ h[j - 1] = f[m] /\ j # 0
        BY <3>1
      <4> QED BY <3>1, <4>1
    <3>2. CASE j # m + 1
      <4>1. j \in 0 .. m /\ h[j] = f[j]
        BY <3>2
      <4>2. j # 0 => h[j - 1] = f[j - 1]
        BY <3>2
      <4> QED BY <2>2, <4>1, <4>2
    <3> QED BY <3>1, <3>2
  <2>4. h = [j \in 0 .. m + 1 |-> h[j]]
    OBVIOUS
  <2> HIDE DEF h
  <2>5. Upto(m + 1, h)
    BY <2>3, <2>4, Zenon
  <2> HIDE DEF Upto
  <2> QED BY <2>5
<1>3. Nat \subseteq S
  <2> HIDE DEF S
  <2> QED BY <1>1, <1>2, SetInduction
<1>4. \E f : Upto(n, f)
  <2> HIDE DEF Upto
  <2> QED BY <1>3
<1> QED BY <1>4 DEF IsTake

NamedBy(chain, q, names) ==
  Len(names) = Len(chain) /\ \A j \in 1 .. Len(chain) : names[j] = chain[q[j]].right

\* Every name takes a join of its own.
LEMMA TakenByName ==
  ASSUME NEW chain \in Seq(JoinStage), NEW names,
         NEW q \in Orders(Len(chain)), NamedBy(chain, q, names)
  PROVE  \E p \in Orders(Len(chain)) :
           /\ ByName(chain, names) = [j \in DOMAIN chain |-> chain[p[j]]]
           /\ \A j \in 1 .. Len(chain) : SameName(chain[p[j]].right, chain[q[j]].right)
<1> DEFINE n == Len(chain)
           f == CHOOSE g : IsTake(chain, names, g)
<1>1. n \in Nat /\ DOMAIN chain = 1 .. n /\ Len(names) = n /\ \A j \in 1 .. n : names[j] = chain[q[j]].right
  BY LenProperties DEF NamedBy
<1>2. IsTake(chain, names, f)
  BY <1>1, TakeExists
<1>3. ByName(chain, names) = [j \in DOMAIN chain |-> chain[f[n][j]]]
  <2>1. ByName(chain, names) = [j \in DOMAIN chain |-> chain[f[Len(names)][j]]]
    BY DEF ByName, IsTake, NextTake
  <2> HIDE DEF f
  <2> QED BY <1>1, <2>1
<1> HIDE DEF f
<1>4. f[0] = <<>> /\ \A j \in 1 .. n : f[j] = Append(f[j - 1], NextTake(chain, names, f[j - 1], j))
  <2>1. \A j \in 0 .. n : f[j] = IF j = 0 THEN <<>> ELSE Append(f[j - 1], NextTake(chain, names, f[j - 1], j))
    BY <1>1, <1>2 DEF IsTake
  <2>2. f[0] = <<>>
    BY <1>1, <2>1
  <2>3. \A j \in 1 .. n : j \in 0 .. n /\ j # 0
    BY <1>1
  <2> QED BY <2>1, <2>2, <2>3
<1> DEFINE S == {m \in Nat : m <= n => f[m] \in Seq(1 .. n) /\ Takes(chain, q, n, m, f[m])}
<1>5. 0 \in S
  <2>1. f[0] \in Seq(1 .. n) /\ f[0] \in [1 .. 0 -> 1 .. n]
    BY <1>4, EmptySeq
  <2> QED BY <2>1 DEF Takes
<1>6. ASSUME NEW m \in Nat, m \in S PROVE m + 1 \in S
  <2> SUFFICES ASSUME m + 1 <= n PROVE f[m + 1] \in Seq(1 .. n) /\ Takes(chain, q, n, m + 1, f[m + 1])
    OBVIOUS
  <2> DEFINE t == f[m]
             L == {i \in DOMAIN chain : i \notin Range(t) /\ SameName(chain[i].right, names[m + 1])}
             e == Min(L)
             a == Append(t, e)
  <2>1. t \in Seq(1 .. n) /\ Takes(chain, q, n, m, t)
    BY <1>1, <1>6
  <2>2. names[m + 1] = chain[q[m + 1]].right
    BY <1>1
  <2>3. L # {} /\ L \subseteq Nat
    <3>1. \E i \in 1 .. n : i \notin Range(t) /\ SameName(chain[i].right, chain[q[m + 1]].right)
      <4> HIDE DEF t, n
      <4> QED BY <1>1, <2>1, OneIsLeft
    <3> QED BY <1>1, <2>2, <3>1
  <2>4. e \in L
    <3> HIDE DEF L
    <3> QED BY <2>3, ChosenLeast DEF Min
  <2>5. f[m + 1] = a
    <3>1. f[m + 1] = Append(f[m], NextTake(chain, names, f[m], m + 1))
      <4>1. m + 1 \in 1 .. n /\ (m + 1) - 1 = m
        BY <1>1
      <4> QED BY <1>4, <4>1
    <3> QED BY <3>1 DEF NextTake
  <2>6. e \in 1 .. n /\ e \notin Range(t) /\ SameName(chain[e].right, chain[q[m + 1]].right)
    BY <1>1, <2>2, <2>4
  <2> HIDE DEF e, L, t, n
  <2>7. /\ t \in [1 .. m -> 1 .. n] /\ Len(t) = m
        /\ \A i, j \in 1 .. m : t[i] = t[j] => i = j
        /\ \A j \in 1 .. m : SameName(chain[t[j]].right, chain[q[j]].right)
    BY <2>1, LenProperties DEF Takes
  <2>8. a \in Seq(1 .. n) /\ Len(a) = m + 1 /\ a[m + 1] = e /\ \A j \in 1 .. m : a[j] = t[j]
    BY <2>1, <2>6, <2>7, AppendProperties
  <2> HIDE DEF a
  <2>9. \A j \in 1 .. m : t[j] # e
    BY <2>6, <2>7 DEF Range
  <2>10. a \in [1 .. m + 1 -> 1 .. n]
    BY <2>8, LenProperties
  <2>11. \A i, j \in 1 .. m + 1 : a[i] = a[j] => i = j
    <3>1. \A i \in 1 .. m + 1 : i = m + 1 \/ i \in 1 .. m
      OBVIOUS
    <3> QED BY <2>7, <2>8, <2>9, <3>1
  <2>12. \A j \in 1 .. m + 1 : SameName(chain[a[j]].right, chain[q[j]].right)
    <3>1. \A i \in 1 .. m + 1 : i = m + 1 \/ i \in 1 .. m
      OBVIOUS
    <3> QED BY <2>6, <2>7, <2>8, <3>1
  <2> QED BY <2>5, <2>8, <2>10, <2>11, <2>12 DEF Takes
<1>7. Takes(chain, q, n, n, f[n])
  <2>1. Nat \subseteq S
    <3> HIDE DEF S
    <3> QED BY <1>5, <1>6, SetInduction
  <2> QED BY <1>1, <2>1
<1>8. f[n] \in Orders(n)
  <2> HIDE DEF n
  <2> QED BY <1>1, <1>7, InjectiveIsOrder DEF Takes
<1> QED BY <1>3, <1>7, <1>8 DEF Takes

\* A chain comes out in some order of its joins, none lost or doubled, also when
\* two of its tables have the same name.
LEMMA ReorderedChainRearranges ==
  ASSUME cat \in Catalogs, weights \in WeightSets, NEW chain \in Seq(JoinStage)
  PROVE  \E p \in Orders(Len(chain)) : ReorderedChain(chain) = [j \in 1 .. Len(chain) |-> chain[p[j]]]
<1> DEFINE n == Len(chain)
           names == EnumerateJoinOrder(chain)
<1>1. n \in Nat /\ DOMAIN chain = 1 .. n
  BY LenProperties
<1>2. PICK q \in Orders(n) : names = [j \in 1 .. n |-> chain[q[j]].right]
  BY EnumeratedNames
<1> HIDE DEF names
<1>3. Len(names) = n /\ \A j \in 1 .. n : names[j] = chain[q[j]].right
  BY <1>1, <1>2
<1>4. CASE \A j \in DOMAIN chain : SameName(names[j], chain[j].right)
  <2> DEFINE p == [j \in 1 .. n |-> j]
  <2>1. p \in Orders(n)
    BY <1>1, IdentityOrder
  <2>2. chain = [j \in 1 .. n |-> chain[j]]
    BY <1>1
  <2>3. ReorderedChain(chain) = chain
    BY <1>4 DEF ReorderedChain, names
  <2>4. chain = [j \in 1 .. n |-> chain[p[j]]]
    BY <2>2
  <2> HIDE DEF p
  <2> QED BY <2>1, <2>3, <2>4
<1>5. CASE ~ \A j \in DOMAIN chain : SameName(names[j], chain[j].right)
  <2>1. ReorderedChain(chain) = ByName(chain, names)
    BY <1>5 DEF ReorderedChain, names
  <2>2. \E p \in Orders(n) : ByName(chain, names) = [j \in DOMAIN chain |-> chain[p[j]]]
    <3>1. NamedBy(chain, q, names)
      BY <1>3 DEF NamedBy
    <3> QED BY <3>1, TakenByName
  <2> QED BY <1>1, <2>1, <2>2
<1> QED BY <1>4, <1>5

\* A chain ends where it should: all its stages are joins that commute.
LEMMA ChainEndOfRun ==
  ASSUME NEW ss, Len(ss) \in Nat, NEW i \in 1 .. Len(ss)
  PROVE  /\ ChainEnd(ss, i) \in i - 1 .. Len(ss)
         /\ \A n \in i .. ChainEnd(ss, i) : Commutative(ss[n])
         /\ ChainEnd(ss, i) < Len(ss) => ~Commutative(ss[ChainEnd(ss, i) + 1])
<1> DEFINE T == {e \in i - 1 .. Len(ss) : \A n \in i .. e : Commutative(ss[n])}
<1>1. T \subseteq Nat /\ i - 1 \in T /\ \A e \in T : e <= Len(ss)
  OBVIOUS
<1>2. PICK e \in T : \A t \in T : e >= t
  <2>1. T # {}
    BY <1>1
  <2> HIDE DEF T
  <2> QED BY <1>1, <2>1, GreatestElement
<1>3. e < Len(ss) => ~Commutative(ss[e + 1])
  <2> SUFFICES ASSUME e < Len(ss), Commutative(ss[e + 1]) PROVE FALSE
    OBVIOUS
  <2>1. e + 1 \in T
    <3>1. e + 1 \in i - 1 .. Len(ss)
      OBVIOUS
    <3>2. \A n \in i .. e + 1 : n = e + 1 \/ n \in i .. e
      OBVIOUS
    <3> QED BY <3>1, <3>2
  <2> QED BY <1>1, <1>2, <2>1
<1>4. \E x \in i - 1 .. Len(ss) : /\ \A n \in i .. x : Commutative(ss[n])
                                  /\ x < Len(ss) => ~Commutative(ss[x + 1])
  BY <1>3
<1> QED BY <1>4 DEF ChainEnd

\* Reordering a part of a sequence reorders the sequence.
Spliced(s, i, c, part) == SubSeq(s, 1, i - 1) \o part \o SubSeq(s, i + c, Len(s))
LEMMA SpliceIndexes ==
  ASSUME NEW S, NEW s \in Seq(S), NEW i \in 1 .. Len(s), NEW c \in Nat, i + c <= Len(s) + 1,
         NEW part \in Seq(S), Len(part) = c
  PROVE  /\ Spliced(s, i, c, part) \in Seq(S)
         /\ Len(Spliced(s, i, c, part)) = Len(s)
         /\ \A n \in 1 .. Len(s) :
              Spliced(s, i, c, part)[n] = IF n < i \/ n >= i + c THEN s[n] ELSE part[n - i + 1]
<1> DEFINE a == SubSeq(s, 1, i - 1)
           z == SubSeq(s, i + c, Len(s))
           m == a \o part
           r == m \o z
<1>1. Len(s) \in Nat /\ \A j \in 1 .. Len(s) : s[j] \in S
  BY LenProperties
<1>2. a \in Seq(S) /\ Len(a) = i - 1 /\ \A j \in 1 .. i - 1 : a[j] = s[j]
  BY <1>1, SubSeqProperties
<1>3. z \in Seq(S) /\ Len(z) = Len(s) - (i + c) + 1 /\ \A j \in 1 .. Len(s) - (i + c) + 1 : z[j] = s[i + c + j - 1]
  BY <1>1, SubSeqProperties
<1>4. Spliced(s, i, c, part) = r
  BY DEF Spliced
<1> HIDE DEF a, z
<1>5. m \in Seq(S) /\ Len(m) = i - 1 + c /\ \A j \in 1 .. i - 1 + c : m[j] = IF j <= i - 1 THEN s[j] ELSE part[j - (i - 1)]
  <2>1. m \in Seq(S) /\ Len(m) = Len(a) + Len(part)
        /\ \A j \in 1 .. Len(a) + Len(part) : m[j] = IF j <= Len(a) THEN a[j] ELSE part[j - Len(a)]
    BY <1>2, ConcatProperties
  <2> HIDE DEF m
  <2>2. \A j \in 1 .. i - 1 + c : j <= i - 1 => j \in 1 .. i - 1
    OBVIOUS
  <2> QED BY <1>2, <2>1, <2>2
<1> HIDE DEF m
<1>6. r \in Seq(S) /\ Len(r) = Len(m) + Len(z)
      /\ \A j \in 1 .. Len(m) + Len(z) : r[j] = IF j <= Len(m) THEN m[j] ELSE z[j - Len(m)]
  BY <1>3, <1>5, ConcatProperties
<1> HIDE DEF r
<1>7. Len(m) + Len(z) = Len(s)
  BY <1>1, <1>3, <1>5
<1>8. ASSUME NEW n \in 1 .. Len(s) PROVE r[n] = IF n < i \/ n >= i + c THEN s[n] ELSE part[n - i + 1]
  <2>1. r[n] = IF n <= i - 1 + c THEN m[n] ELSE z[n - (i - 1 + c)]
    BY <1>5, <1>6, <1>7
  <2>2. CASE n <= i - 1 + c
    <3>1. m[n] = IF n <= i - 1 THEN s[n] ELSE part[n - (i - 1)]
      BY <1>5, <2>2
    <3>2. n - (i - 1) = n - i + 1
      OBVIOUS
    <3> QED BY <2>1, <2>2, <3>1, <3>2
  <2>3. CASE n > i - 1 + c
    <3>1. n - (i - 1 + c) \in 1 .. Len(s) - (i + c) + 1 /\ i + c + (n - (i - 1 + c)) - 1 = n
      BY <1>1, <2>3
    <3>2. z[n - (i - 1 + c)] = s[n]
      BY <1>3, <3>1
    <3> QED BY <2>1, <2>3, <3>2
  <2> QED BY <1>1, <2>2, <2>3
<1> QED BY <1>4, <1>6, <1>7, <1>8

\* One order after the other is an order.
LEMMA OrdersCompose ==
  ASSUME NEW n \in Nat, NEW p \in Orders(n), NEW q \in Orders(n)
  PROVE  [i \in 1 .. n |-> p[q[i]]] \in Orders(n)
<1> DEFINE r == [i \in 1 .. n |-> p[q[i]]]
<1>1. /\ p \in [1 .. n -> 1 .. n] /\ \A i, j \in 1 .. n : p[i] = p[j] => i = j
      /\ q \in [1 .. n -> 1 .. n] /\ \A i, j \in 1 .. n : q[i] = q[j] => i = j
  BY OrderProperties
<1>2. r \in [1 .. n -> 1 .. n] /\ \A i, j \in 1 .. n : r[i] = r[j] => i = j
  BY <1>1
<1>3. r \in Orders(n)
  <2> HIDE DEF r
  <2> QED BY <1>2, InjectiveIsOrder
<1> QED BY <1>3

\* An order of a part is an order of the whole that moves nothing else.
LEMMA WidenedOrder ==
  ASSUME NEW n \in Nat, NEW i \in 1 .. n, NEW c \in Nat, i + c <= n + 1, NEW p \in Orders(c)
  PROVE  /\ [m \in 1 .. n |-> IF m < i \/ m >= i + c THEN m ELSE i - 1 + p[m - i + 1]] \in Orders(n)
         /\ \A m \in 1 .. n : m >= i /\ m < i + c => p[m - i + 1] \in 1 .. c
<1> DEFINE In(m) == m >= i /\ m < i + c
           r == [m \in 1 .. n |-> IF m < i \/ m >= i + c THEN m ELSE i - 1 + p[m - i + 1]]
<1>1. p \in [1 .. c -> 1 .. c] /\ \A x, y \in 1 .. c : p[x] = p[y] => x = y
  BY OrderProperties
<1>2. \A m \in 1 .. n : In(m) => m - i + 1 \in 1 .. c
  OBVIOUS
<1>3. \A m \in 1 .. n : In(m) => p[m - i + 1] \in 1 .. c
  BY <1>1, <1>2
<1>4. \A m \in 1 .. n : IF In(m) THEN r[m] = i - 1 + p[m - i + 1] ELSE r[m] = m
  OBVIOUS
<1>5. ASSUME NEW m \in 1 .. n PROVE r[m] \in 1 .. n /\ (In(m) <=> In(r[m]))
  <2>1. CASE In(m)
    <3>1. p[m - i + 1] \in 1 .. c /\ r[m] = i - 1 + p[m - i + 1]
      BY <1>3, <1>4, <2>1
    <3> HIDE DEF r
    <3> QED BY <2>1, <3>1
  <2>2. CASE ~In(m)
    <3>1. r[m] = m
      BY <1>4, <2>2
    <3> HIDE DEF r
    <3> QED BY <2>2, <3>1
  <2> QED BY <2>1, <2>2
<1>6. r \in [1 .. n -> 1 .. n]
  <2>1. r = [m \in 1 .. n |-> r[m]]
    OBVIOUS
  <2> HIDE DEF r
  <2> QED BY <1>5, <2>1
<1> HIDE DEF r
<1>7. ASSUME NEW x \in 1 .. n, NEW y \in 1 .. n, r[x] = r[y] PROVE x = y
  <2>1. In(x) <=> In(y)
    BY <1>5, <1>7
  <2>2. CASE In(x)
    <3>1. r[x] = i - 1 + p[x - i + 1] /\ r[y] = i - 1 + p[y - i + 1]
      BY <1>4, <2>1, <2>2
    <3>2. x - i + 1 \in 1 .. c /\ y - i + 1 \in 1 .. c
      BY <1>2, <2>1, <2>2
    <3>3. p[x - i + 1] = p[y - i + 1]
      <4>1. p[x - i + 1] \in Int /\ p[y - i + 1] \in Int
        BY <1>1, <3>2
      <4>2. \A u, v \in Int : i - 1 + u = i - 1 + v => u = v
        OBVIOUS
      <4>3. i - 1 + p[x - i + 1] = i - 1 + p[y - i + 1]
        BY <1>7, <3>1
      <4> QED BY <4>1, <4>2, <4>3
    <3>4. x - i + 1 = y - i + 1
      BY <1>1, <3>2, <3>3
    <3> QED BY <3>4
  <2>3. CASE ~In(x)
    BY <1>4, <1>7, <2>1, <2>3
  <2> QED BY <2>2, <2>3
<1>8. r \in Orders(n)
  BY <1>6, <1>7, InjectiveIsOrder
<1> QED BY <1>3, <1>8 DEF r

-----------------------------------------------------------------------------
(* JoinPlan *)

\* A scan of the candidates, from the first on: f(n) is what it has after n of them,
\* the one it had or the n-th.
IsScan(cands, f) ==
  /\ DOMAIN f = 1 .. Len(cands)
  /\ f[1] = cands[1]
  /\ \A n \in 2 .. Len(cands) : f[n] \in {f[n - 1], cands[n]}

\* A scan ends with a candidate.
LEMMA ScanTakesOne ==
  ASSUME NEW cands, Len(cands) \in Nat \ {0}, NEW f, IsScan(cands, f)
  PROVE  \E m \in 1 .. Len(cands) : f[Len(cands)] = cands[m]
<1> DEFINE Among(n) == \E m \in 1 .. Len(cands) : f[n] = cands[m]
           S == {n \in Nat : n + 1 <= Len(cands) => Among(n + 1)}
<1>1. 0 \in S
  BY DEF IsScan
<1>2. ASSUME NEW n \in Nat, n \in S PROVE n + 1 \in S
  <2> SUFFICES ASSUME n + 2 <= Len(cands) PROVE Among((n + 1) + 1)
    OBVIOUS
  <2>1. Among(n + 1)
    BY <1>2
  <2>2. (n + 1) + 1 \in 2 .. Len(cands) /\ ((n + 1) + 1) - 1 = n + 1
    OBVIOUS
  <2>3. f[(n + 1) + 1] \in {f[n + 1], cands[(n + 1) + 1]}
    BY <2>2 DEF IsScan
  <2> QED BY <2>1, <2>2, <2>3
<1>3. Nat \subseteq S
  <2> HIDE DEF S
  <2> QED BY <1>1, <1>2, SetInduction
<1>4. Len(cands) - 1 \in S
  BY <1>3
<1> QED BY <1>4

\* The two scans of the code.
Aggressively(cands, f) ==
  f = [n \in 1 .. Len(cands) |->
         IF n = 1 THEN cands[1]
         ELSE LET best == f[n - 1]
              IN  IF \/ cands[n].cost < best.cost
                     \/ cands[n].cost = best.cost /\ best.kind = NoHint
                  THEN cands[n] ELSE best]
Conservatively(cands, f) ==
  f = [n \in 1 .. Len(cands) |->
         IF n = 1 THEN cands[1]
         ELSE IF cands[n].cost < f[n - 1].cost THEN cands[n] ELSE f[n - 1]]

\* Both are defined.
LEMMA ScansExist ==
  ASSUME NEW cands, Len(cands) \in Nat
  PROVE  (\E f : Aggressively(cands, f)) /\ (\E f : Conservatively(cands, f))
<1> DEFINE n == Len(cands)
           A(x, j) == IF \/ cands[j].cost < x.cost
                         \/ cands[j].cost = x.cost /\ x.kind = NoHint
                      THEN cands[j] ELSE x
           C(x, j) == IF cands[j].cost < x.cost THEN cands[j] ELSE x
           UptoA(m, f) == f = [j \in 1 .. m |-> IF j = 1 THEN cands[1] ELSE A(f[j - 1], j)]
           UptoC(m, f) == f = [j \in 1 .. m |-> IF j = 1 THEN cands[1] ELSE C(f[j - 1], j)]
           S == {m \in Nat : (\E f : UptoA(m, f)) /\ (\E f : UptoC(m, f))}
<1>1. 0 \in S
  <2>1. UptoA(0, [j \in 1 .. 0 |-> 0]) /\ UptoC(0, [j \in 1 .. 0 |-> 0])
    OBVIOUS
  <2> HIDE DEF UptoA, UptoC
  <2> QED BY <2>1
<1>2. ASSUME NEW m \in Nat, m \in S PROVE m + 1 \in S
  <2>1. PICK f : UptoA(m, f)
    <3> HIDE DEF UptoA, UptoC
    <3> QED BY <1>2
  <2>2. PICK g : UptoC(m, g)
    <3> HIDE DEF UptoA, UptoC
    <3> QED BY <1>2
  <2> DEFINE a == [j \in 1 .. m + 1 |-> IF j = 1 THEN cands[1] ELSE IF j = m + 1 THEN A(f[m], m + 1) ELSE f[j]]
             c == [j \in 1 .. m + 1 |-> IF j = 1 THEN cands[1] ELSE IF j = m + 1 THEN C(g[m], m + 1) ELSE g[j]]
  <2> HIDE DEF A, C
  <2>3. \A j \in 1 .. m : /\ f[j] = IF j = 1 THEN cands[1] ELSE A(f[j - 1], j)
                          /\ g[j] = IF j = 1 THEN cands[1] ELSE C(g[j - 1], j)
    BY <2>1, <2>2
  <2>4. ASSUME NEW j \in 1 .. m + 1
        PROVE  /\ a[j] = IF j = 1 THEN cands[1] ELSE A(a[j - 1], j)
               /\ c[j] = IF j = 1 THEN cands[1] ELSE C(c[j - 1], j)
    <3>1. CASE j = 1
      BY <3>1
    <3>2. CASE j # 1 /\ j = m + 1
      <4>1. m \in 1 .. m
        BY <3>2
      <4>2. a[m] = f[m] /\ c[m] = g[m]
        BY <2>3, <3>2, <4>1
      <4> QED BY <3>2, <4>2
    <3>3. CASE j # 1 /\ j # m + 1
      <4>1. j \in 1 .. m /\ j - 1 \in 1 .. m /\ j - 1 # m + 1
        BY <3>3
      <4>2. a[j] = f[j] /\ c[j] = g[j] /\ a[j - 1] = f[j - 1] /\ c[j - 1] = g[j - 1]
        BY <2>3, <3>3, <4>1
      <4> QED BY <2>3, <3>3, <4>1, <4>2
    <3> QED BY <3>1, <3>2, <3>3
  <2>5. a = [j \in 1 .. m + 1 |-> a[j]] /\ c = [j \in 1 .. m + 1 |-> c[j]]
    OBVIOUS
  <2> HIDE DEF a, c
  <2>6. UptoA(m + 1, a)
    BY <2>4, <2>5, Zenon
  <2>7. UptoC(m + 1, c)
    BY <2>4, <2>5, Zenon
  <2> HIDE DEF UptoA, UptoC
  <2> QED BY <2>6, <2>7
<1>3. Nat \subseteq S
  <2> HIDE DEF S
  <2> QED BY <1>1, <1>2, SetInduction
<1>4. (\E f : UptoA(n, f)) /\ (\E f : UptoC(n, f))
  <2> HIDE DEF UptoA, UptoC
  <2> QED BY <1>3
<1> QED BY <1>4 DEF Aggressively, Conservatively

\* A policy chooses a candidate.
LEMMA ChosenPlan ==
  ASSUME NEW cands, Len(cands) \in Nat \ {0}
  PROVE  \E m \in 1 .. Len(cands) : ChooseJoinPlan(cands) = cands[m]
<1> DEFINE a == CHOOSE f : Aggressively(cands, f)
           c == CHOOSE f : Conservatively(cands, f)
<1>1. Aggressively(cands, a) /\ Conservatively(cands, c)
  BY ScansExist
<1>2. AggressivePlan(cands) = a[Len(cands)]
  BY DEF AggressivePlan, Aggressively
<1>3. ConservativePlan(cands) = IF cands[1].cost > 0 /\ c[Len(cands)].cost * 10 < cands[1].cost
                                THEN c[Len(cands)] ELSE cands[1]
  BY DEF ConservativePlan, Conservatively
<1> HIDE DEF a, c
<1>4. IsScan(cands, a)
  BY <1>1 DEF IsScan, Aggressively
<1>5. IsScan(cands, c)
  BY <1>1 DEF IsScan, Conservatively
<1>6. (\E m \in 1 .. Len(cands) : a[Len(cands)] = cands[m]) /\ (\E m \in 1 .. Len(cands) : c[Len(cands)] = cands[m])
  BY <1>4, <1>5, ScanTakesOne
<1> QED BY <1>2, <1>3, <1>6 DEF ChooseJoinPlan

\* The candidates of a join: the default plan first, and none but kinds of plans.
LEMMA Candidates ==
  ASSUME NEW st
  PROVE  /\ Len(Enumerate(st)) \in Nat \ {0}
         /\ Enumerate(st)[1] = [kind |-> NoHint, cost |-> HashJoinCost(Table(cat, Source), Table(cat, st.right), weights)]
         /\ \A m \in 1 .. Len(Enumerate(st)) : Enumerate(st)[m].kind \in Hints
<1> DEFINE left  == Table(cat, Source)
           right == Table(cat, st.right)
           plan(kind, c) == [kind |-> kind, cost |-> c]
           p1 == plan(NoHint, HashJoinCost(left, right, weights))
           p2 == plan("hash", HashJoinCost(left, right, weights))
           p3 == plan("nestloop", NestLoopCost(left, right, weights))
           p4 == plan("merge", MergeJoinCost(left, right, weights))
           p5 == plan("indexlookup", IndexLookupCost(left, weights))
           P == {p1, p2, p3, p4, p5}
           x == <<p1, p2, p3>>
           y == IF JoinHasCorr(st) THEN <<p4>> ELSE <<>>
           z == IF InnerHasIndex(st) /\ right.rows > 1000 THEN <<p5>> ELSE <<>>
           xy == x \o y
           xyz == xy \o z
<1>1. \A p \in P : p.kind \in Hints
  BY DEF Hints, NoHint
<1>2. Enumerate(st) = xyz
  BY DEF Enumerate
<1>3. p1 = [kind |-> NoHint, cost |-> HashJoinCost(Table(cat, Source), Table(cat, st.right), weights)]
  OBVIOUS
<1> HIDE DEF p1, p2, p3, p4, p5
<1>4. x \in Seq(P) /\ Len(x) = 3 /\ x[1] = p1
  OBVIOUS
<1>5. y \in Seq(P) /\ z \in Seq(P)
  <2>1. <<p4>> \in Seq(P) /\ <<p5>> \in Seq(P) /\ <<>> \in Seq(P)
    OBVIOUS
  <2> HIDE DEF P
  <2> QED BY <2>1
<1> HIDE DEF P, x, y, z
<1>6. Len(y) \in Nat /\ Len(z) \in Nat
  BY <1>5, LenProperties
<1>7. xy \in Seq(P) /\ Len(xy) \in Nat \ {0} /\ xy[1] = p1
  <2>1. xy \in Seq(P) /\ Len(xy) = Len(x) + Len(y)
        /\ \A i \in 1 .. Len(x) + Len(y) : xy[i] = IF i <= Len(x) THEN x[i] ELSE y[i - Len(x)]
    BY <1>4, <1>5, ConcatProperties
  <2> HIDE DEF xy
  <2> QED BY <1>4, <1>6, <2>1
<1> HIDE DEF xy
<1>8. xyz \in Seq(P) /\ Len(xyz) \in Nat \ {0} /\ xyz[1] = p1
  <2>1. xyz \in Seq(P) /\ Len(xyz) = Len(xy) + Len(z)
        /\ \A i \in 1 .. Len(xy) + Len(z) : xyz[i] = IF i <= Len(xy) THEN xy[i] ELSE z[i - Len(xy)]
    BY <1>5, <1>7, ConcatProperties
  <2> HIDE DEF xyz
  <2> QED BY <1>6, <1>7, <2>1
<1> HIDE DEF xyz
<1>9. \A m \in 1 .. Len(xyz) : xyz[m] \in P
  BY <1>8, LenProperties
<1>10. \A m \in 1 .. Len(xyz) : xyz[m].kind \in Hints
  BY <1>1, <1>9 DEF P
<1> QED BY <1>2, <1>3, <1>8, <1>10

\* A plan is a join with another hint at most.
LEMMA PlannedIsJoin ==
  ASSUME NEW st \in JoinStage
  PROVE  /\ Planned(st) \in JoinStage
         /\ Planned(st).id = st.id /\ Planned(st).kind = st.kind
         /\ Planned(st).right = st.right /\ Planned(st).on = st.on
<1> DEFINE cands == Enumerate(st)
           hint  == ChooseJoinPlan(cands).kind
<1>1. hint \in Hints
  <2>1. Len(cands) \in Nat \ {0} /\ \A m \in 1 .. Len(cands) : cands[m].kind \in Hints
    BY Candidates
  <2> HIDE DEF cands
  <2> QED BY <2>1, ChosenPlan
<1>2. Planned(st) = IF hint # NoHint THEN [st EXCEPT !.hint = hint] ELSE st
  BY DEF Planned
<1> HIDE DEF hint
<1> QED BY <1>1, <1>2 DEF JoinStage

-----------------------------------------------------------------------------
(* The invariant *)

\* A stage is what it was, but for the hint of a join and the order of the conjuncts
\* of a filter.
SameJoin(s, t) ==
  /\ s \in JoinStage /\ t \in JoinStage
  /\ s.id = t.id /\ s.kind = t.kind /\ s.right = t.right /\ s.on = t.on
SameFilter(s, t) ==
  s \in FilterStage /\ t \in FilterStage /\ s.id = t.id /\ Rearranged(s.conds, t.conds)
Like(s, t) == SameJoin(s, t) \/ SameFilter(s, t)

\* From place m to place n there are joins that commute only.
Crossable(m, n) ==
  m # n => \A i \in 1 .. Len(orig) : (m <= i /\ i <= n) \/ (n <= i /\ i <= m) => Commutative(orig[i])

\* The stage at n is the one from p[n].  Before the joins are ordered none has moved,
\* and while they are ordered none from k on.
Origin(p) ==
  /\ p \in Orders(Len(orig))
  /\ \A n \in 1 .. Len(orig) :
       /\ Like(stages[n], orig[p[n]])
       /\ Crossable(n, p[n])
       /\ phase = "predicates" \/ (phase = "order" /\ n >= k) => p[n] = n
Tracked == \E p \in Orders(Len(orig)) : Origin(p)

IInv ==
  /\ orig \in Pipelines /\ cat \in Catalogs /\ weights \in WeightSets
  /\ phase \in {"predicates", "order", "plan", "done"}
  /\ stages \in Seq(Stage) /\ Len(stages) = Len(orig)
  /\ k \in 1 .. Len(orig) + 1
  /\ Tracked

\* What a pipeline is.
LEMMA PipelineShape ==
  ASSUME orig \in Pipelines
  PROVE  /\ orig \in Seq(Stage) /\ Len(orig) \in Nat /\ DOMAIN orig = 1 .. Len(orig)
         /\ \A n \in 1 .. Len(orig) : orig[n] \in Stage
         /\ \A m, n \in 1 .. Len(orig) : orig[m].id = orig[n].id => m = n
<1>1. orig \in Seq(Stage) /\ \A m, n \in DOMAIN orig : orig[m].id = orig[n].id => m = n
  BY PipelineAssumption DEF Stage
<1>2. Len(orig) \in Nat /\ DOMAIN orig = 1 .. Len(orig) /\ \A n \in 1 .. Len(orig) : orig[n] \in Stage
  BY <1>1, LenProperties
<1> QED BY <1>1, <1>2

\* Rearranging twice is rearranging.
LEMMA RearrangedIsOrder ==
  ASSUME NEW S, NEW t \in Seq(S), NEW q \in Orders(Len(t))
  PROVE  /\ [n \in 1 .. Len(t) |-> t[q[n]]] \in Seq(S)
         /\ Len([n \in 1 .. Len(t) |-> t[q[n]]]) = Len(t)
         /\ Rearranged([n \in 1 .. Len(t) |-> t[q[n]]], t)
<1>1. Len(t) \in Nat /\ DOMAIN t = 1 .. Len(t) /\ \A n \in 1 .. Len(t) : t[n] \in S
  BY LenProperties
<1>2. q \in [1 .. Len(t) -> 1 .. Len(t)] /\ Range(q) = 1 .. Len(t)
  BY DEF Orders
<1>3. \A n \in 1 .. Len(t) : t[q[n]] \in S
  BY <1>1, <1>2
<1> QED BY <1>1, <1>2, <1>3 DEF Rearranged

\* So it is of a sequence that was rearranged before.
LEMMA RearrangedTwice ==
  ASSUME NEW S, NEW t \in Seq(S), NEW s \in Seq(S), Rearranged(s, t),
         NEW r, NEW q \in Orders(Len(s)), r = [n \in 1 .. Len(s) |-> s[q[n]]]
  PROVE  Rearranged(r, t)
<1>1. Len(t) \in Nat /\ DOMAIN t = 1 .. Len(t)
  BY LenProperties
<1>2. PICK p \in [DOMAIN t -> DOMAIN t] : Range(p) = DOMAIN t /\ s = [n \in DOMAIN t |-> t[p[n]]]
  BY DEF Rearranged
<1>3. Len(s) = Len(t)
  BY <1>1, <1>2
<1>4. p \in Orders(Len(t)) /\ q \in Orders(Len(t))
  BY <1>1, <1>2, <1>3 DEF Orders
<1> DEFINE pq == [n \in 1 .. Len(t) |-> p[q[n]]]
<1>5. pq \in Orders(Len(t))
  BY <1>1, <1>4, OrdersCompose
<1>6. q \in [1 .. Len(t) -> 1 .. Len(t)]
  BY <1>4 DEF Orders
<1>7. r = [n \in 1 .. Len(t) |-> t[pq[n]]]
  BY <1>1, <1>2, <1>3, <1>6
<1>8. pq \in [DOMAIN t -> DOMAIN t] /\ Range(pq) = DOMAIN t
  BY <1>1, <1>5 DEF Orders
<1> HIDE DEF pq
<1> QED BY <1>1, <1>7, <1>8 DEF Rearranged

\* A stage is like itself.
LEMMA LikeItself ==
  ASSUME NEW s \in Stage
  PROVE  Like(s, s)
<1>1. CASE s \in FilterStage
  <2>1. s.conds \in Seq(Predicate)
    BY <1>1 DEF FilterStage
  <2>2. Len(s.conds) \in Nat /\ s.conds = [n \in 1 .. Len(s.conds) |-> s.conds[n]]
    BY <2>1, LenProperties
  <2> DEFINE q == [n \in 1 .. Len(s.conds) |-> n]
  <2>3. q \in Orders(Len(s.conds))
    BY <2>2, IdentityOrder
  <2>4. [n \in 1 .. Len(s.conds) |-> s.conds[q[n]]] = s.conds
    BY <2>2
  <2>5. Rearranged([n \in 1 .. Len(s.conds) |-> s.conds[q[n]]], s.conds)
    <3> HIDE DEF q
    <3> QED BY <2>1, <2>3, RearrangedIsOrder
  <2> QED BY <1>1, <2>4, <2>5 DEF Like, SameFilter
<1>2. CASE s \in JoinStage
  BY <1>2 DEF Like, SameJoin
<1> QED BY <1>1, <1>2 DEF Stage

\* A stage and what it was are both joins or both filters, and commute alike.
LEMMA LikeStages ==
  ASSUME NEW s, NEW t, Like(s, t)
  PROVE  /\ s \in Stage /\ t \in Stage /\ s.id = t.id
         /\ IsJoin(s) <=> s \in JoinStage
         /\ IsFilter(s) <=> s \in FilterStage
         /\ IsJoin(s) => SameJoin(s, t)
         /\ IsFilter(s) => SameFilter(s, t)
         /\ Commutative(s) <=> Commutative(t)
         /\ Commutative(s) => s \in JoinStage
BY DEF Like, SameJoin, SameFilter, Stage, JoinStage, FilterStage, IsJoin, IsFilter, Commutative

\* What the optimizer hands over has moved nothing.
LEMMA InitIInv == Init => IInv
<1> SUFFICES ASSUME Init PROVE IInv
  OBVIOUS
<1> USE DEF Init
<1>1. /\ Len(orig) \in Nat /\ stages \in Seq(Stage)
      /\ \A n \in 1 .. Len(orig) : orig[n] \in Stage
  BY PipelineShape
<1> DEFINE p == [n \in 1 .. Len(orig) |-> n]
<1>2. p \in Orders(Len(orig))
  BY <1>1, IdentityOrder
<1>3. \A n \in 1 .. Len(orig) : p[n] = n /\ Like(stages[n], orig[n])
  BY <1>1, LikeItself
<1> HIDE DEF p
<1>4. Origin(p)
  BY <1>2, <1>3 DEF Origin, Crossable
<1> QED BY <1>1, <1>2, <1>4 DEF IInv, Tracked

\* A stage may be replaced by one that is like what the stage is like.
LEMMA StageReplaced ==
  ASSUME IInv, NEW new \in Stage, k <= Len(stages), \A t : Like(stages[k], t) => Like(new, t),
         stages' = [stages EXCEPT ![k] = new], k' = k + 1, phase' = phase, UNCHANGED given
  PROVE  IInv'
<1>1. /\ Len(orig) \in Nat /\ k \in 1 .. Len(orig) /\ Len(stages) = Len(orig)
      /\ stages \in Seq(Stage) /\ orig' = orig
  BY PipelineShape DEF IInv, given
<1>2. stages' \in Seq(Stage) /\ Len(stages') = Len(orig')
      /\ \A n \in 1 .. Len(orig) : stages'[n] = IF n = k THEN new ELSE stages[n]
  <2>1. stages \in [1 .. Len(orig) -> Stage]
    BY <1>1, LenProperties
  <2>2. stages' \in [1 .. Len(orig) -> Stage]
    BY <1>1, <2>1
  <2> QED BY <1>1, <2>1, <2>2
<1>3. PICK p \in Orders(Len(orig)) : Origin(p)
  BY DEF IInv, Tracked
<1>4. Origin(p)'
  <2>1. \A n \in 1 .. Len(orig) : Like(stages'[n], orig[p[n]])
    BY <1>2, <1>3 DEF Origin
  <2>2. \A n \in 1 .. Len(orig) : Like(stages[n], orig[p[n]])' /\ Crossable(n, p[n])'
    BY <1>1, <1>3, <2>1 DEF Origin, Crossable
  <2>3. \A n \in 1 .. Len(orig) : phase' = "predicates" \/ (phase' = "order" /\ n >= k') => p[n] = n
    BY <1>1, <1>3 DEF Origin
  <2> QED BY <1>1, <1>3, <2>2, <2>3 DEF Origin
<1>5. Tracked'
  BY <1>1, <1>3, <1>4 DEF Tracked
<1> QED BY <1>1, <1>2, <1>5 DEF IInv, given

\* Ordering the conjuncts of a filter rearranges them.
LEMMA OrderConjunctsTracked == ASSUME IInv, OrderConjuncts PROVE IInv'
<1> DEFINE s == stages[k]
           new == [s EXCEPT !.conds = Reordered(s.conds)]
<1>1. /\ Len(orig) \in Nat /\ k \in 1 .. Len(stages) /\ k <= Len(stages) /\ Len(stages) = Len(orig)
      /\ stages \in Seq(Stage) /\ IsFilter(s)
  BY PipelineShape DEF IInv, OrderConjuncts, Through
<1>2. s \in FilterStage /\ s.conds \in Seq(Predicate)
  <2>1. s \in Stage
    BY <1>1, LenProperties
  <2> QED BY <1>1, <2>1 DEF Stage, JoinStage, FilterStage, IsFilter
<1>3. stages' = [stages EXCEPT ![k] = new] /\ k' = k + 1 /\ phase' = phase /\ UNCHANGED given
  BY DEF OrderConjuncts
<1> HIDE DEF s
<1>4. PICK q \in Orders(Len(s.conds)) : Reordered(s.conds) = [n \in 1 .. Len(s.conds) |-> s.conds[q[n]]]
  BY <1>2, ReorderedRearranges
<1>5. Reordered(s.conds) \in Seq(Predicate)
  BY <1>2, <1>4, RearrangedIsOrder
<1>6. new \in FilterStage /\ new.id = s.id /\ new.conds = Reordered(s.conds)
  BY <1>2, <1>5 DEF FilterStage
<1> HIDE DEF new
<1>7. ASSUME NEW t, Like(s, t) PROVE Like(new, t)
  <2>1. SameFilter(s, t)
    BY <1>2, <1>7 DEF Like, SameJoin, JoinStage, FilterStage
  <2>2. t.conds \in Seq(Predicate) /\ Rearranged(s.conds, t.conds)
    BY <2>1 DEF SameFilter, FilterStage
  <2>3. Rearranged(new.conds, t.conds)
    BY <1>2, <1>4, <1>6, <2>2, RearrangedTwice
  <2> QED BY <1>6, <2>1, <2>3 DEF Like, SameFilter
<1>8. new \in Stage /\ \A t : Like(stages[k], t) => Like(new, t)
  BY <1>6, <1>7 DEF Stage, s
<1> QED BY <1>1, <1>3, <1>8, StageReplaced

\* A plan sets a hint at most.
LEMMA PlanJoinTracked == ASSUME IInv, PlanJoin PROVE IInv'
<1> DEFINE s == stages[k]
           new == Planned(s)
<1>1. /\ Len(orig) \in Nat /\ k \in 1 .. Len(stages) /\ k <= Len(stages) /\ Len(stages) = Len(orig)
      /\ stages \in Seq(Stage) /\ IsJoin(s)
  BY PipelineShape DEF IInv, PlanJoin, Through
<1>2. s \in JoinStage
  <2>1. s \in Stage
    BY <1>1, LenProperties
  <2> QED BY <1>1, <2>1 DEF Stage, JoinStage, FilterStage, IsJoin
<1>3. stages' = [stages EXCEPT ![k] = new] /\ k' = k + 1 /\ phase' = phase /\ UNCHANGED given
  BY DEF PlanJoin
<1> HIDE DEF s
<1>4. new \in JoinStage /\ new.id = s.id /\ new.kind = s.kind /\ new.right = s.right /\ new.on = s.on
  BY <1>2, PlannedIsJoin
<1> HIDE DEF new
<1>5. ASSUME NEW t, Like(s, t) PROVE Like(new, t)
  <2>1. SameJoin(s, t)
    BY <1>2, <1>5 DEF Like, SameFilter, JoinStage, FilterStage
  <2> QED BY <1>4, <2>1 DEF Like, SameJoin
<1>6. new \in Stage /\ \A t : Like(stages[k], t) => Like(new, t)
  BY <1>4, <1>5 DEF Stage, s
<1> QED BY <1>1, <1>3, <1>6, StageReplaced

\* Nothing moves where there is nothing to do, and from one pass to the next.
LEMMA WalkTracked == ASSUME IInv, Skip \/ NextPass PROVE IInv'
<1>1. /\ Len(orig) \in Nat /\ Len(stages) = Len(orig) /\ stages' = stages /\ orig' = orig
      /\ cat' = cat /\ weights' = weights
  BY PipelineShape DEF IInv, Skip, NextPass, given
<1>2. /\ phase' \in {"predicates", "order", "plan", "done"} /\ k' \in 1 .. Len(orig) + 1
      /\ \A n \in 1 .. Len(orig) : phase' = "predicates" \/ (phase' = "order" /\ n >= k') =>
                                   phase = "predicates" \/ (phase = "order" /\ n >= k)
  <2>1. phase \in {"predicates", "order", "plan", "done"} /\ k \in 1 .. Len(orig) + 1
    BY DEF IInv
  <2>2. CASE Skip
    BY <1>1, <2>1, <2>2 DEF Skip, Through
  <2>3. CASE NextPass
    <3>1. k' = 1 /\ (phase = "predicates" => phase' = "order") /\ (phase = "order" => phase' = "plan")
          /\ (phase = "plan" => phase' = "done") /\ phase # "done"
      BY <2>1, <2>3 DEF NextPass
    <3>2. phase' \in {"order", "plan", "done"} /\ (phase' = "order" => phase = "predicates")
      BY <2>1, <3>1
    <3>3. k' \in 1 .. Len(orig) + 1
      BY <1>1, <3>1
    <3> QED BY <3>2, <3>3
  <2> QED BY <2>2, <2>3
<1>3. PICK p \in Orders(Len(orig)) : Origin(p)
  BY DEF IInv, Tracked
<1>4. Origin(p)'
  <2>1. \A n \in 1 .. Len(orig) : Like(stages[n], orig[p[n]])' /\ Crossable(n, p[n])'
    BY <1>1, <1>3 DEF Origin, Crossable
  <2> QED BY <1>1, <1>2, <1>3, <2>1 DEF Origin
<1>5. Tracked'
  BY <1>1, <1>3, <1>4 DEF Tracked
<1> QED BY <1>1, <1>2, <1>5 DEF IInv

\* A chain is rewritten where it stands, and nothing else.
LEMMA ReorderChainEffect ==
  ASSUME IInv, ReorderChain
  PROVE  LET e     == ChainEnd(stages, k)
             c     == e - k + 1
             chain == JoinChain(stages, k)
             part  == ReorderedChain(chain)
         IN  /\ e \in Nat /\ c \in Nat /\ k < e /\ e <= Len(orig) /\ k + c = e + 1
             /\ \A m \in k .. e : m \in 1 .. Len(orig) /\ stages[m] \in JoinStage /\ Commutative(orig[m])
             /\ chain \in Seq(JoinStage) /\ Len(chain) = c /\ \A j \in 1 .. c : chain[j] = stages[k + j - 1]
             /\ part \in Seq(Stage) /\ Len(part) = c
             /\ k' = k + c /\ stages' \in Seq(Stage) /\ Len(stages') = Len(orig)
             /\ \A m \in 1 .. Len(orig) :
                  stages'[m] = IF m < k \/ m >= k + c THEN stages[m] ELSE part[m - k + 1]
<1> DEFINE n == Len(orig)
           e == ChainEnd(stages, k)
           c == e - k + 1
           chain == JoinChain(stages, k)
           part == ReorderedChain(chain)
<1>1. /\ n \in Nat /\ k \in 1 .. n /\ Len(stages) = n /\ stages \in Seq(Stage)
      /\ orig' = orig /\ cat' = cat /\ weights' = weights /\ phase = "order" /\ phase' = phase
      /\ chain # <<>> /\ cat \in Catalogs /\ weights \in WeightSets
      /\ \A m \in 1 .. n : stages[m] \in Stage
  BY PipelineShape, LenProperties DEF IInv, ReorderChain, Through, given
<1>2. e \in k - 1 .. n /\ \A m \in k .. e : Commutative(stages[m])
  BY <1>1, ChainEndOfRun
<1>3. e > k /\ chain = SubSeq(stages, k, e)
  BY <1>1 DEF JoinChain
<1>4. c \in Nat /\ k + c <= n + 1 /\ k + c = e + 1
  <2> HIDE DEF e, n
  <2> QED BY <1>1, <1>2, <1>3
<1>5. PICK p \in Orders(n) : Origin(p)
  BY DEF IInv, Tracked
<1>6. /\ p \in [1 .. n -> 1 .. n]
      /\ \A m \in 1 .. n : Like(stages[m], orig[p[m]]) /\ Crossable(m, p[m]) /\ (m >= k => p[m] = m)
  BY <1>1, <1>5, OrderProperties DEF Origin
<1> HIDE DEF e
<1>7. \A m \in k .. e : m \in 1 .. n /\ stages[m] \in JoinStage /\ Commutative(orig[m])
  <2>1. \A m \in k .. e : m \in 1 .. n /\ m >= k
    BY <1>1, <1>2
  <2>2. \A m \in k .. e : Like(stages[m], orig[m])
    BY <1>6, <2>1
  <2> QED BY <1>2, <2>1, <2>2, LikeStages
<1>8. chain \in Seq(JoinStage) /\ Len(chain) = c /\ \A j \in 1 .. c : chain[j] = stages[k + j - 1]
  <2>1. k \in Int /\ e \in Int /\ \A m \in k .. e : stages[m] \in JoinStage
    BY <1>1, <1>2, <1>7
  <2> HIDE DEF chain, n
  <2> QED BY <1>3, <2>1, SubSeqProperties
<1> HIDE DEF chain, c, n
<1>9. PICK q \in Orders(c) : part = [j \in 1 .. c |-> chain[q[j]]]
  BY <1>1, <1>8, ReorderedChainRearranges
<1> HIDE DEF part
<1>10. /\ part \in Seq(Stage) /\ Len(part) = c
       /\ \A j \in 1 .. c : q[j] \in 1 .. c /\ part[j] = stages[k + q[j] - 1]
  <2>1. q \in [1 .. c -> 1 .. c]
    BY <1>4, <1>9, OrderProperties
  <2>2. \A j \in 1 .. c : part[j] = chain[q[j]] /\ chain[q[j]] = stages[k + q[j] - 1]
    BY <1>8, <1>9, <2>1
  <2>3. \A j \in 1 .. c : chain[j] \in Stage
    BY <1>8, LenProperties DEF Stage
  <2>4. part \in Seq(Stage) /\ Len(part) = c
    BY <1>4, <1>9, <2>1, <2>3
  <2> QED BY <2>1, <2>2, <2>4
<1>11. k' = k + c /\ stages' = Spliced(stages, k, c, part)
  <2>1. k' = k + Len(chain) /\ stages' = Spliced(stages, k, Len(chain), part)
    BY DEF ReorderChain, Spliced, chain, part
  <2> QED BY <1>8, <2>1
<1>12. /\ stages' \in Seq(Stage) /\ Len(stages') = n
       /\ \A m \in 1 .. n : stages'[m] = IF m < k \/ m >= k + c THEN stages[m] ELSE part[m - k + 1]
  <2>1. k \in 1 .. Len(stages) /\ k + c <= Len(stages) + 1
    BY <1>1, <1>4
  <2>2. /\ Spliced(stages, k, c, part) \in Seq(Stage)
        /\ Len(Spliced(stages, k, c, part)) = Len(stages)
        /\ \A m \in 1 .. Len(stages) :
             Spliced(stages, k, c, part)[m] = IF m < k \/ m >= k + c THEN stages[m] ELSE part[m - k + 1]
    <3>1. stages \in Seq(Stage) /\ part \in Seq(Stage) /\ Len(part) = c /\ c \in Nat
      BY <1>1, <1>4, <1>10
    <3>2. \A b \in Nat : \A x \in Seq(Stage) : Len(x) = b /\ k + b <= Len(stages) + 1 =>
            /\ Spliced(stages, k, b, x) \in Seq(Stage)
            /\ Len(Spliced(stages, k, b, x)) = Len(stages)
            /\ \A m \in 1 .. Len(stages) :
                 Spliced(stages, k, b, x)[m] = IF m < k \/ m >= k + b THEN stages[m] ELSE x[m - k + 1]
      <4>1. k \in 1 .. Len(stages) /\ stages \in Seq(Stage)
        BY <2>1, <3>1
      <4> QED BY <4>1, SpliceIndexes
    <3> QED BY <2>1, <3>1, <3>2, Zenon
  <2> QED BY <1>1, <1>11, <2>2
<1>13. e \in Nat /\ e <= n
  BY <1>1, <1>2
<1> QED BY <1>3, <1>4, <1>7, <1>8, <1>10, <1>11, <1>12, <1>13 DEF e, c, chain, part, n

\* Joins change places within a chain only.
LEMMA ReorderChainTracked == ASSUME IInv, ReorderChain PROVE IInv'
<1> DEFINE n == Len(orig)
           e == ChainEnd(stages, k)
           c == e - k + 1
           chain == JoinChain(stages, k)
           part == ReorderedChain(chain)
<1>1. /\ n \in Nat /\ k \in 1 .. n /\ Len(stages) = n /\ stages \in Seq(Stage)
      /\ orig' = orig /\ cat' = cat /\ weights' = weights /\ phase = "order" /\ phase' = phase
      /\ cat \in Catalogs /\ weights \in WeightSets
  BY PipelineShape, LenProperties DEF IInv, ReorderChain, Through, given
<1>2. /\ e \in Nat /\ c \in Nat /\ k < e /\ e <= n /\ k + c = e + 1
      /\ \A m \in k .. e : m \in 1 .. n /\ stages[m] \in JoinStage /\ Commutative(orig[m])
      /\ chain \in Seq(JoinStage) /\ Len(chain) = c /\ \A j \in 1 .. c : chain[j] = stages[k + j - 1]
      /\ k' = k + c /\ stages' \in Seq(Stage) /\ Len(stages') = n
      /\ \A m \in 1 .. n : stages'[m] = IF m < k \/ m >= k + c THEN stages[m] ELSE part[m - k + 1]
  BY ReorderChainEffect
<1>3. PICK p \in Orders(n) : Origin(p)
  BY DEF IInv, Tracked
<1>4. /\ p \in [1 .. n -> 1 .. n]
      /\ \A m \in 1 .. n : Like(stages[m], orig[p[m]]) /\ Crossable(m, p[m]) /\ (m >= k => p[m] = m)
  BY <1>1, <1>3, OrderProperties DEF Origin
<1> HIDE DEF e, chain, c, n
<1>5. PICK q \in Orders(c) : part = [j \in 1 .. c |-> chain[q[j]]]
  BY <1>1, <1>2, ReorderedChainRearranges
<1> HIDE DEF part
<1>6. \A j \in 1 .. c : q[j] \in 1 .. c /\ part[j] = stages[k + q[j] - 1]
  <2>1. q \in [1 .. c -> 1 .. c]
    BY <1>2, OrderProperties
  <2> QED BY <1>2, <1>5, <2>1
<1> DEFINE r == [m \in 1 .. n |-> IF m < k \/ m >= k + c THEN m ELSE k - 1 + q[m - k + 1]]
           pr == [m \in 1 .. n |-> p[r[m]]]
<1>7. r \in Orders(n)
  BY <1>1, <1>2, WidenedOrder
<1>8. pr \in Orders(n)
  <2> HIDE DEF r
  <2> QED BY <1>1, <1>3, <1>7, OrdersCompose
<1>9. ASSUME NEW m \in 1 .. n
       PROVE  /\ stages'[m] = stages[r[m]]
              /\ r[m] \in 1 .. n
              /\ (m < k \/ m >= k + c) => r[m] = m
              /\ ~(m < k \/ m >= k + c) => m \in k .. e /\ r[m] \in k .. e
  <2>1. CASE m < k \/ m >= k + c
    <3>1. r[m] = m
      BY <2>1
    <3> HIDE DEF r
    <3> QED BY <1>2, <2>1, <3>1
  <2>2. CASE ~(m < k \/ m >= k + c)
    <3>1. m - k + 1 \in 1 .. c /\ r[m] = k - 1 + q[m - k + 1]
      BY <1>1, <1>2, <2>2
    <3> HIDE DEF r
    <3>2. q[m - k + 1] \in 1 .. c /\ part[m - k + 1] = stages[k + q[m - k + 1] - 1]
      BY <1>6, <3>1
    <3>3. k + q[m - k + 1] - 1 = r[m] /\ r[m] \in k .. e /\ m \in k .. e
      BY <1>1, <1>2, <2>2, <3>1, <3>2
    <3>4. stages'[m] = part[m - k + 1]
      BY <1>2, <2>2
    <3> QED BY <1>2, <2>2, <3>2, <3>3, <3>4
  <2> QED BY <2>1, <2>2
<1> HIDE DEF r
<1>10. ASSUME NEW m \in 1 .. n
       PROVE  Like(stages'[m], orig[pr[m]]) /\ Crossable(m, pr[m]) /\ (m >= k' => pr[m] = m)
  <2>1. pr[m] = p[r[m]] /\ r[m] \in 1 .. n /\ stages'[m] = stages[r[m]]
    BY <1>9
  <2>2. Like(stages'[m], orig[pr[m]])
    BY <1>4, <2>1
  <2>3. CASE m < k \/ m >= k + c
    <3>1. r[m] = m /\ pr[m] = p[m]
      BY <1>9, <2>1, <2>3
    <3>2. Crossable(m, pr[m])
      BY <1>4, <3>1
    <3>3. m >= k' => m >= k
      BY <1>1, <1>2
    <3>4. m >= k' => pr[m] = m
      BY <1>4, <3>1, <3>3
    <3> QED BY <2>2, <3>2, <3>4
  <2>4. CASE ~(m < k \/ m >= k + c)
    <3>1. m \in k .. e /\ r[m] \in k .. e
      BY <1>9, <2>4
    <3>2. pr[m] = r[m]
      BY <1>1, <1>4, <2>1, <3>1
    <3>3. Crossable(m, pr[m])
      <4>1. \A i \in 1 .. n : (m <= i /\ i <= r[m]) \/ (r[m] <= i /\ i <= m) => i \in k .. e
        BY <1>1, <1>2, <3>1
      <4> HIDE DEF pr
      <4> QED BY <1>2, <3>2, <4>1 DEF Crossable, n
    <3> QED BY <1>1, <1>2, <2>2, <2>4, <3>3
  <2> QED BY <2>3, <2>4
<1> HIDE DEF pr
<1>11. PICK f \in Orders(n) :
         \A m \in 1 .. n : Like(stages'[m], orig[f[m]]) /\ Crossable(m, f[m]) /\ (m >= k' => f[m] = m)
  BY <1>8, <1>10
<1>12. Origin(f)'
  <2>1. \A m \in 1 .. n : Like(stages[m], orig[f[m]])' /\ Crossable(m, f[m])'
    BY <1>1, <1>11 DEF Crossable, n
  <2> QED BY <1>1, <1>11, <2>1 DEF Origin, n
<1>13. Tracked'
  BY <1>1, <1>11, <1>12 DEF Tracked, n
<1> QED BY <1>1, <1>2, <1>13 DEF IInv, n

\* The invariant is one.
LEMMA NextIInv == IInv /\ [Next]_vars => IInv'
<1>1. ASSUME IInv, OrderConjuncts PROVE IInv'
  BY <1>1, OrderConjunctsTracked
<1>2. ASSUME IInv, ReorderChain PROVE IInv'
  BY <1>2, ReorderChainTracked
<1>3. ASSUME IInv, PlanJoin PROVE IInv'
  BY <1>3, PlanJoinTracked
<1>4. ASSUME IInv, Skip \/ NextPass PROVE IInv'
  BY <1>4, WalkTracked
<1>5. ASSUME IInv, UNCHANGED vars PROVE IInv'
  BY <1>5 DEF vars, IInv, Tracked, Origin, Crossable
<1> QED BY <1>1, <1>2, <1>3, <1>4, <1>5 DEF Next

\* A join that is like another is it but for the hint, a filter but for the conjuncts.
LEMMA LikeRecords ==
  ASSUME NEW s, NEW t
  PROVE  /\ SameJoin(s, t) => [s EXCEPT !.hint = t.hint] = t
         /\ SameFilter(s, t) => [s EXCEPT !.conds = t.conds] = t
BY DEF SameJoin, SameFilter, JoinStage, FilterStage

\* Where a stage came from can be told from its id.
LEMMA AtOrigin ==
  ASSUME orig \in Pipelines, NEW m \in 1 .. Len(orig)
  PROVE  At(orig, orig[m].id) = m
BY PipelineShape DEF At

\* In every reachable state the stages have the values the code gives them.
LEMMA IInvTypes == IInv => TypeOK
<1> SUFFICES ASSUME IInv PROVE TypeOK
  OBVIOUS
<1>1. Len(stages) = Len(orig) /\ \A n \in DOMAIN stages : stages[n] \in Stage
  BY LenProperties DEF IInv
<1>2. \A n \in DOMAIN stages : IsJoin(stages[n]) => stages[n].kind \in Kinds /\ stages[n].hint \in Hints
  BY <1>1 DEF Stage, JoinStage, FilterStage, IsJoin
<1> QED BY <1>1, <1>2 DEF IInv, TypeOK

\* What is tracked is permuted as it should be.
LEMMA IInvPermuted == IInv => StagesPermuted
<1> SUFFICES ASSUME IInv PROVE StagesPermuted
  OBVIOUS
<1> DEFINE L == Len(orig)
<1>1. /\ L \in Nat /\ DOMAIN orig = 1 .. L /\ orig \in Pipelines
      /\ DOMAIN stages = 1 .. L
  BY PipelineShape, LenProperties DEF IInv
<1>2. PICK p \in Orders(L) : Origin(p)
  BY DEF IInv, Tracked
<1>3. /\ p \in [1 .. L -> 1 .. L] /\ \A i \in 1 .. L : \E j \in 1 .. L : p[j] = i
      /\ \A n \in 1 .. L : Like(stages[n], orig[p[n]]) /\ Crossable(n, p[n])
  BY <1>1, <1>2, OrderProperties DEF Origin
<1>4. \A n \in 1 .. L : stages[n].id = orig[p[n]].id
  BY <1>3, LikeStages
<1>5. Ids(stages) = Ids(orig)
  <2>1. Ids(stages) \subseteq Ids(orig)
    <3>1. \A n \in 1 .. L : stages[n].id = orig[p[n]].id /\ p[n] \in 1 .. L
      BY <1>3, <1>4
    <3> HIDE DEF L
    <3> QED BY <1>1, <3>1 DEF Ids
  <2>2. ASSUME NEW i \in 1 .. L PROVE orig[i].id \in Ids(stages)
    <3>1. PICK j \in 1 .. L : p[j] = i
      BY <1>3
    <3>2. stages[j].id = orig[i].id
      BY <1>4, <3>1
    <3> QED BY <1>1, <3>2 DEF Ids
  <2>3. Ids(orig) \subseteq Ids(stages)
    BY <1>1, <2>2 DEF Ids
  <2> QED BY <2>1, <2>3
<1>6. ASSUME NEW n \in 1 .. L PROVE At(orig, stages[n].id) = p[n] /\ p[n] \in 1 .. L
  <2>1. p[n] \in 1 .. L
    BY <1>3
  <2>2. At(orig, orig[p[n]].id) = p[n]
    BY <1>1, <2>1, AtOrigin
  <2> QED BY <1>4, <2>1, <2>2
<1>7. ASSUME NEW n \in 1 .. L, IsFilter(stages[n])
      PROVE  /\ p[n] = n /\ Rearranged(stages[n].conds, orig[p[n]].conds)
             /\ [stages[n] EXCEPT !.conds = orig[p[n]].conds] = orig[p[n]]
  <2>1. /\ SameFilter(stages[n], orig[p[n]])
        /\ ~Commutative(orig[p[n]])
    <3>1. Like(stages[n], orig[p[n]])
      BY <1>3
    <3>2. ~Commutative(stages[n])
      BY <1>7 DEF IsFilter, Commutative, IsJoin
    <3> QED BY <1>7, <3>1, <3>2, LikeStages
  <2>2. p[n] = n
    <3>1. p[n] # n => \A i \in 1 .. L : (n <= i /\ i <= p[n]) \/ (p[n] <= i /\ i <= n) => Commutative(orig[i])
      BY <1>3 DEF Crossable
    <3>2. p[n] \in 1 .. L /\ p[n] \in Int /\ n \in Int
      BY <1>6
    <3> HIDE DEF L
    <3> QED BY <2>1, <3>1, <3>2
  <2> QED BY <2>1, <2>2, LikeRecords DEF SameFilter
<1>8. ASSUME NEW n \in 1 .. L, ~IsFilter(stages[n])
      PROVE  /\ [stages[n] EXCEPT !.hint = orig[p[n]].hint] = orig[p[n]]
             /\ \A i \in Min({p[n], n}) .. Max({p[n], n}) : p[n] # n => Commutative(orig[i])
  <2>1. SameJoin(stages[n], orig[p[n]])
    <3>1. Like(stages[n], orig[p[n]])
      BY <1>3
    <3> QED BY <1>8, <3>1 DEF Like, SameFilter, FilterStage, IsFilter
  <2>2. p[n] \in Nat /\ n \in Nat /\ p[n] \in 1 .. L /\ n \in 1 .. L
    BY <1>6
  <2>3. /\ Min({p[n], n}) \in {p[n], n} /\ Min({p[n], n}) <= p[n] /\ Min({p[n], n}) <= n
        /\ Max({p[n], n}) \in {p[n], n} /\ Max({p[n], n}) >= p[n] /\ Max({p[n], n}) >= n
    BY <2>2, MinOfTwo, MaxOfTwo
  <2>4. ASSUME NEW i \in Min({p[n], n}) .. Max({p[n], n}), p[n] # n PROVE Commutative(orig[i])
    <3> DEFINE lo == Min({p[n], n})
               hi == Max({p[n], n})
    <3>1. lo \in {p[n], n} /\ hi \in {p[n], n} /\ lo <= p[n] /\ lo <= n /\ hi >= p[n] /\ hi >= n /\ i \in lo .. hi
      BY <2>3
    <3> HIDE DEF lo, hi, L
    <3>2. i \in 1 .. L /\ ((n <= i /\ i <= p[n]) \/ (p[n] <= i /\ i <= n))
      BY <1>1, <2>2, <3>1
    <3> QED BY <1>3, <2>4, <3>2 DEF Crossable, L
  <2> QED BY <2>1, <2>4, LikeRecords
<1>9. ASSUME NEW n \in DOMAIN stages
      PROVE  LET was == orig[At(orig, stages[n].id)]
                 m   == At(orig, stages[n].id)
             IN  IF IsFilter(stages[n])
                 THEN m = n /\ Rearranged(stages[n].conds, was.conds)
                      /\ [stages[n] EXCEPT !.conds = was.conds] = was
                 ELSE /\ [stages[n] EXCEPT !.hint = was.hint] = was
                      /\ \A i \in Min({m, n}) .. Max({m, n}) : m # n => Commutative(orig[i])
  <2>1. n \in 1 .. L /\ At(orig, stages[n].id) = p[n]
    BY <1>1, <1>6
  <2> QED BY <1>7, <1>8, <2>1
<1> QED BY <1>5, <1>9 DEF StagesPermuted

\* No pass loses, repeats or alters a join or a conjunct, whatever the statistics say
\* and the policy trusts, and a join crosses nothing but joins that commute.
THEOREM StagesStayPermuted == Spec => []StagesPermuted
<1>1. IInv => StagesPermuted
  BY IInvPermuted
<1> QED BY InitIInv, NextIInv, <1>1, PTL DEF Spec

\* The stages, the pass and its index always have the values the code gives them.
THEOREM Typed == Spec => []TypeOK
BY InitIInv, NextIInv, IInvTypes, PTL DEF Spec

-----------------------------------------------------------------------------
(* Without statistics *)

Named == {Source} \cup {orig[n].right : n \in {m \in DOMAIN orig : IsJoin(orig[m])}}
Strange(t) == {t, Lower(t)} \cap DOMAIN cat.tables = {}
Untrusted ==
  /\ policy # "Aggressive"
  /\ \A t \in Named : Strange(t)
  /\ \A t \in DOMAIN cat.tables : ~HighConfidence(cat, t)
Unmoved == IInv /\ (Untrusted => stages = orig)

\* A table the catalog does not know has no rows and no columns.
LEMMA StrangeTable ==
  ASSUME NEW t, Strange(t)
  PROVE  Exactly(cat, t) = Unknown /\ Table(cat, t) = Unknown
BY DEF Strange, Exactly, Table

\* The conjuncts stay where they are when no selectivity is but the default.
LEMMA NoStatsNoOrder ==
  ASSUME NEW S, NEW conds \in Seq(S), Strange(Source), policy # "Aggressive"
  PROVE  Reordered(conds) = conds
<1> DEFINE sels == Selectivities(conds)
<1>1. DOMAIN conds = 1 .. Len(conds) /\ Len(conds) \in Nat /\ conds = [n \in 1 .. Len(conds) |-> conds[n]]
  BY LenProperties
<1>2. \A p : Selectivity(cat, Source, p) = Default
  <2>1. Exactly(cat, Source).cols = <<>>
    BY StrangeTable DEF Unknown
  <2>2. \A p : ~HasColumn(cat, Source, p.col)
    BY <2>1 DEF HasColumn
  <2> QED BY <2>2 DEF Selectivity
<1>3. DOMAIN sels = 1 .. Len(conds) /\ \A n \in 1 .. Len(conds) : sels[n] = Default
  BY <1>1, <1>2 DEF Selectivities
<1> HIDE DEF sels
<1>4. ~AnyRealStat(sels)
  BY <1>3 DEF AnyRealStat
<1>5. ~Trusting(Source)
  BY DEF Trusting, HighConfidence, Strange
<1>6. OrderPredicates(Source, sels) = [n \in 1 .. Len(conds) |-> n]
  BY <1>3, <1>4, <1>5 DEF OrderPredicates
<1>7. Reordered(conds) = [n \in 1 .. Len(conds) |-> conds[[m \in 1 .. Len(conds) |-> m][n]]]
  BY <1>1, <1>6 DEF Reordered, sels
<1> QED BY <1>1, <1>7

\* A join of tables without rows costs nothing.
LEMMA UnknownJoinIsFree ==
  ASSUME weights \in WeightSets
  PROVE  HashJoinCost(Unknown, Unknown, weights) = 0
<1>1. weights.io \in Nat /\ weights.tuple \in Nat /\ weights.buffer \in Nat
  BY WeightsAssumption
<1>2. Unknown.rows = 0 /\ Unknown.width = 0
  BY DEF Unknown
<1>3. \A w \in Nat : 0 * w = 0
  OBVIOUS
<1> QED BY <1>1, <1>2, <1>3 DEF HashJoinCost, Size

\* The plan of such a join is the default.
LEMMA NoStatsNoPlan ==
  ASSUME weights \in WeightSets, NEW st, Strange(Source), Strange(st.right),
         policy # "Aggressive", \A t \in DOMAIN cat.tables : ~HighConfidence(cat, t)
  PROVE  Planned(st) = st
<1> DEFINE cands == Enumerate(st)
<1>1. cands[1] = [kind |-> NoHint, cost |-> HashJoinCost(Unknown, Unknown, weights)]
  BY Candidates, StrangeTable
<1>2. cands[1].cost = 0 /\ cands[1].kind = NoHint
  BY <1>1, UnknownJoinIsFree
<1> HIDE DEF cands
<1>3. ConservativePlan(cands) = cands[1]
  BY <1>2 DEF ConservativePlan
<1>4. ChooseJoinPlan(cands) = cands[1]
  BY <1>3 DEF ChooseJoinPlan
<1> QED BY <1>2, <1>4 DEF Planned, cands

\* Nothing changes without statistics, whatever the pass.
LEMMA NextUnmoved == Unmoved /\ [Next]_vars => Unmoved'
<1> SUFFICES ASSUME Unmoved, [Next]_vars PROVE Unmoved'
  OBVIOUS
<1>1. IInv /\ IInv'
  BY NextIInv DEF Unmoved
<1> SUFFICES ASSUME Untrusted' PROVE stages' = orig'
  BY <1>1 DEF Unmoved
<1>2. orig' = orig /\ cat' = cat /\ policy' = policy /\ weights' = weights
  BY DEF Next, vars, OrderConjuncts, ReorderChain, PlanJoin, Skip, NextPass, given
<1>3. Untrusted
  BY <1>2 DEF Untrusted, Named, Strange
<1>4. stages = orig /\ Strange(Source)
  BY <1>3 DEF Unmoved, Untrusted, Named
<1>5. /\ stages \in Seq(Stage) /\ DOMAIN stages = 1 .. Len(stages) /\ \A n \in 1 .. Len(stages) : stages[n] \in Stage
      /\ stages = [n \in 1 .. Len(stages) |-> stages[n]] /\ weights \in WeightSets
      /\ k \in 1 .. Len(stages) + 1 /\ Len(stages) \in Nat
  BY <1>1, LenProperties DEF IInv
<1>6. CASE OrderConjuncts
  <2>1. k \in 1 .. Len(stages) /\ stages' = [stages EXCEPT ![k].conds = Reordered(stages[k].conds)]
        /\ IsFilter(stages[k])
    BY <1>5, <1>6 DEF OrderConjuncts, Through
  <2>2. stages[k] \in FilterStage
    BY <1>5, <2>1 DEF Stage, JoinStage, IsFilter
  <2>3. stages[k].conds \in Seq(Predicate)
    BY <2>2 DEF FilterStage
  <2>4. Reordered(stages[k].conds) = stages[k].conds
    BY <1>3, <1>4, <2>3, NoStatsNoOrder DEF Untrusted
  <2>5. [stages[k] EXCEPT !.conds = stages[k].conds] = stages[k]
    BY <2>2 DEF FilterStage
  <2>6. stages' = [stages EXCEPT ![k] = stages[k]]
    BY <2>1, <2>4, <2>5
  <2> QED BY <1>2, <1>4, <1>5, <2>6
<1>7. CASE ReorderChain
  <2>1. Card(cat, Source) = 0
    BY <1>4, StrangeTable DEF Card, Unknown
  <2> QED BY <1>7, <2>1 DEF ReorderChain, MayReorder
<1>8. CASE PlanJoin
  <2>1. k \in 1 .. Len(stages) /\ stages' = [stages EXCEPT ![k] = Planned(stages[k])] /\ IsJoin(stages[k])
    BY <1>5, <1>8 DEF PlanJoin, Through
  <2>2. Strange(stages[k].right)
    <3>1. stages[k].right \in Named
      BY <1>4, <1>5, <2>1 DEF Named
    <3> QED BY <1>3, <3>1 DEF Untrusted
  <2>3. Planned(stages[k]) = stages[k]
    BY <1>3, <1>4, <1>5, <2>2, NoStatsNoPlan DEF Untrusted
  <2> QED BY <1>2, <1>4, <1>5, <2>1, <2>3
<1>9. CASE Skip \/ NextPass
  BY <1>2, <1>4, <1>9 DEF Skip, NextPass
<1>10. CASE UNCHANGED vars
  BY <1>2, <1>4, <1>10 DEF vars
<1> QED BY <1>6, <1>7, <1>8, <1>9, <1>10 DEF Next

\* A catalog that knows none of the tables changes nothing under a policy that does
\* not trust estimates: no conjunct, join or hint.
THEOREM WeakStatsStayOut == Spec => []WeakStatsChangeNothing
<1>1. Init => Unmoved
  BY InitIInv DEF Unmoved, Init
<1>2. Unmoved => WeakStatsChangeNothing
  BY DEF Unmoved, WeakStatsChangeNothing, Untrusted, Named, Strange
<1> QED BY <1>1, <1>2, NextUnmoved, PTL DEF Spec


-----------------------------------------------------------------------------
(* Prefixes of orders *)

\* The places in order of p.
Along(chain, p) == [j \in 1 .. Len(chain) |-> chain[p[j]]]

\* A prefix grows by one place at a time.
LEMMA PrefixGrows ==
  ASSUME NEW n \in Nat, NEW p \in Orders(n), NEW m \in 1 .. n
  PROVE  /\ p[m] \in 1 .. n /\ Prefix(p, m) \subseteq 1 .. n /\ Prefix(p, m - 1) \subseteq 1 .. n
         /\ p[m] \in Prefix(p, m) /\ Prefix(p, m) \ {p[m]} = Prefix(p, m - 1)
         /\ (Prefix(p, m) = {p[m]} <=> m = 1)
         /\ Prefix(p, 0) = {} /\ Prefix(p, n) = 1 .. n
<1>1. /\ p \in [1 .. n -> 1 .. n] /\ \A i, j \in 1 .. n : p[i] = p[j] => i = j
      /\ \A i \in 1 .. n : \E j \in 1 .. n : p[j] = i
  BY OrderProperties
<1>2. \A i \in 1 .. m : i \in 1 .. n /\ (i = m \/ i \in 1 .. m - 1)
  OBVIOUS
<1>3. \A i \in 1 .. m - 1 : i \in 1 .. n /\ i \in 1 .. m /\ i # m
  OBVIOUS
<1>4. p[m] \in 1 .. n /\ Prefix(p, m) \subseteq 1 .. n /\ Prefix(p, m - 1) \subseteq 1 .. n
  BY <1>1, <1>2, <1>3 DEF Prefix
<1>5. p[m] \in Prefix(p, m) /\ p[m] \notin Prefix(p, m - 1)
  <2>1. m \in 1 .. m
    OBVIOUS
  <2>2. \A i \in 1 .. m - 1 : p[i] # p[m]
    BY <1>1, <1>3
  <2> QED BY <2>1, <2>2 DEF Prefix
<1>6. Prefix(p, m) \ {p[m]} = Prefix(p, m - 1)
  <2>1. Prefix(p, m) = Prefix(p, m - 1) \cup {p[m]}
    BY <1>2, <1>3, <1>5 DEF Prefix
  <2> QED BY <1>5, <2>1
<1>7. Prefix(p, m) = {p[m]} <=> m = 1
  <2>1. m = 1 => Prefix(p, m) = {p[m]}
    BY DEF Prefix
  <2>2. m # 1 => p[1] \in Prefix(p, m) /\ p[1] # p[m]
    <3>1. m # 1 => 1 \in 1 .. m /\ 1 \in 1 .. n
      OBVIOUS
    <3> QED BY <1>1, <3>1 DEF Prefix
  <2> QED BY <2>1, <2>2
<1>8. Prefix(p, 0) = {} /\ Prefix(p, n) = 1 .. n
  BY <1>1 DEF Prefix
<1> QED BY <1>4, <1>5, <1>6, <1>7, <1>8

\* Any place of a prefix can be its last.
LEMMA LastOfPrefix ==
  ASSUME NEW n \in Nat, NEW b \in Orders(n), NEW m \in 1 .. n, NEW x \in Prefix(b, m)
  PROVE  \E a \in Orders(n) : a[m] = x /\ Prefix(a, m) = Prefix(b, m)
<1>1. b \in [1 .. n -> 1 .. n] /\ \A i, j \in 1 .. n : b[i] = b[j] => i = j
  BY OrderProperties
<1>2. PICK y \in 1 .. m : b[y] = x
  BY DEF Prefix
<1>3. y \in 1 .. n /\ \A i \in 1 .. m : i \in 1 .. n
  OBVIOUS
<1> DEFINE a == [j \in 1 .. n |-> IF j = y THEN b[m] ELSE IF j = m THEN b[y] ELSE b[j]]
<1>4. a \in [1 .. n -> 1 .. n] /\ \A i, j \in 1 .. n : a[i] = a[j] => i = j
  BY <1>1, <1>3
<1>5. a \in Orders(n)
  <2> HIDE DEF a
  <2> QED BY <1>4, InjectiveIsOrder
<1>6. a[m] = x
  BY <1>2, <1>3
<1>7. \A i \in 1 .. m : a[i] = IF i = y THEN b[m] ELSE IF i = m THEN b[y] ELSE b[i]
  BY <1>3
<1> HIDE DEF a
<1>8. Prefix(a, m) \subseteq Prefix(b, m)
  <2>1. m \in 1 .. m
    OBVIOUS
  <2>2. \A i \in 1 .. m : \E j \in 1 .. m : a[i] = b[j]
    BY <1>7, <2>1
  <2> QED BY <2>2 DEF Prefix
<1>9. Prefix(b, m) \subseteq Prefix(a, m)
  <2>1. m \in 1 .. m
    OBVIOUS
  <2>2. \A i \in 1 .. m : b[i] = IF i = y THEN a[m] ELSE IF i = m THEN a[y] ELSE a[i]
    BY <1>7, <2>1
  <2>3. \A i \in 1 .. m : \E j \in 1 .. m : b[i] = a[j]
    BY <2>1, <2>2
  <2> QED BY <2>3 DEF Prefix
<1> QED BY <1>5, <1>6, <1>8, <1>9

-----------------------------------------------------------------------------
(* What an order costs *)

\* A join behind rows of s.
OneMore(s, left, st) ==
  [cost |-> s.cost + ApproxJoinCost(s.out, Card(cat, st.right), weights),
   out  |-> OutputCardinality(cat, left, st.right, st.on, s.out, Card(cat, st.right))]
Costed == [cost : Nat, out : Nat]
IsCosts(c, f) ==
  f = [n \in 0 .. Len(c) |->
         IF n = 0 THEN [cost |-> 0, out |-> Card(cat, Source)]
         ELSE OneMore(f[n - 1], IF n = 1 THEN Source ELSE "", c[n])]

\* What the first joins cost is defined.
LEMMA CostsExist ==
  ASSUME NEW c, Len(c) \in Nat
  PROVE  \E f : IsCosts(c, f)
<1> DEFINE n == Len(c)
           base == [cost |-> 0, out |-> Card(cat, Source)]
           Step(s, j) == OneMore(s, IF j = 1 THEN Source ELSE "", c[j])
           Upto(m, f) == f = [j \in 0 .. m |-> IF j = 0 THEN base ELSE Step(f[j - 1], j)]
           S == {m \in Nat : \E f : Upto(m, f)}
<1>1. 0 \in S
  <2>1. Upto(0, [j \in 0 .. 0 |-> base])
    OBVIOUS
  <2> HIDE DEF Upto
  <2> QED BY <2>1
<1>2. ASSUME NEW m \in Nat, m \in S PROVE m + 1 \in S
  <2>1. PICK f : Upto(m, f)
    <3> HIDE DEF Upto
    <3> QED BY <1>2
  <2> DEFINE h == [j \in 0 .. m + 1 |-> IF j = m + 1 THEN Step(f[m], m + 1) ELSE f[j]]
  <2> HIDE DEF Step, base
  <2>2. \A j \in 0 .. m : f[j] = IF j = 0 THEN base ELSE Step(f[j - 1], j)
    BY <2>1
  <2>3. ASSUME NEW j \in 0 .. m + 1 PROVE h[j] = IF j = 0 THEN base ELSE Step(h[j - 1], j)
    <3>1. CASE j = m + 1
      <4>1. h[j] = Step(f[m], m + 1) /\ h[j - 1] = f[m] /\ j # 0
        BY <3>1
      <4> QED BY <3>1, <4>1
    <3>2. CASE j # m + 1
      <4>1. j \in 0 .. m /\ h[j] = f[j]
        BY <3>2
      <4>2. j # 0 => h[j - 1] = f[j - 1]
        BY <3>2
      <4> QED BY <2>2, <4>1, <4>2
    <3> QED BY <3>1, <3>2
  <2>4. h = [j \in 0 .. m + 1 |-> h[j]]
    OBVIOUS
  <2> HIDE DEF h
  <2>5. Upto(m + 1, h)
    BY <2>3, <2>4, Zenon
  <2> HIDE DEF Upto
  <2> QED BY <2>5
<1>3. Nat \subseteq S
  <2> HIDE DEF S
  <2> QED BY <1>1, <1>2, SetInduction
<1>4. \E f : Upto(n, f)
  <2> HIDE DEF Upto
  <2> QED BY <1>3
<1> QED BY <1>4 DEF IsCosts

\* Each join adds its cost to that of those before it.
LEMMA CostsUnfold ==
  ASSUME NEW c, Len(c) \in Nat
  PROVE  /\ CostsUpTo(c)[0] = [cost |-> 0, out |-> Card(cat, Source)]
         /\ \A m \in 1 .. Len(c) :
              CostsUpTo(c)[m] = OneMore(CostsUpTo(c)[m - 1], IF m = 1 THEN Source ELSE "", c[m])
<1> DEFINE f == CostsUpTo(c)
<1>1. f = CHOOSE g : IsCosts(c, g)
  BY DEF CostsUpTo, IsCosts, OneMore
<1>2. IsCosts(c, f)
  <2> HIDE DEF f
  <2> QED BY <1>1, CostsExist
<1> HIDE DEF f
<1>3. \A m \in 0 .. Len(c) : f[m] = IF m = 0 THEN [cost |-> 0, out |-> Card(cat, Source)]
                                    ELSE OneMore(f[m - 1], IF m = 1 THEN Source ELSE "", c[m])
  BY <1>2 DEF IsCosts
<1>4. f[0] = [cost |-> 0, out |-> Card(cat, Source)] /\ \A m \in 1 .. Len(c) : m \in 0 .. Len(c) /\ m # 0
  <2>1. 0 \in 0 .. Len(c)
    OBVIOUS
  <2>2. f[0] = [cost |-> 0, out |-> Card(cat, Source)]
    BY <1>3, <2>1, Zenon
  <2>3. \A m \in 1 .. Len(c) : m \in 0 .. Len(c) /\ m # 0
    OBVIOUS
  <2> QED BY <2>2, <2>3
<1>5. \A m \in 1 .. Len(c) : f[m] = OneMore(f[m - 1], IF m = 1 THEN Source ELSE "", c[m])
  BY <1>3, <1>4
<1> QED BY <1>4, <1>5 DEF f

\* One more join keeps costs and rows naturals.
LEMMA OneMoreCosted ==
  ASSUME cat \in Catalogs, weights \in WeightSets, NEW s \in Costed, NEW left, NEW st \in JoinStage
  PROVE  OneMore(s, left, st) \in Costed
<1>1. s.cost \in Nat /\ s.out \in Nat /\ Card(cat, st.right) \in Nat /\ Len(st.on) \in Nat
  BY CardNat, LenProperties DEF Costed, JoinStage
<1> DEFINE a == ApproxJoinCost(s.out, Card(cat, st.right), weights)
           o == OutputCardinality(cat, left, st.right, st.on, s.out, Card(cat, st.right))
<1>2. a \in Nat
  BY <1>1, ApproxJoinCostNat
<1>3. o \in Nat
  BY <1>1, OutputNat
<1>4. OneMore(s, left, st) = [cost |-> s.cost + a, out |-> o]
  BY DEF OneMore
<1> HIDE DEF a, o
<1> QED BY <1>1, <1>2, <1>3, <1>4 DEF Costed

\* So they all are.
LEMMA CostsNat ==
  ASSUME cat \in Catalogs, weights \in WeightSets, NEW c \in Seq(JoinStage)
  PROVE  \A m \in 0 .. Len(c) : CostsUpTo(c)[m] \in Costed
<1> DEFINE f == CostsUpTo(c)
           S == {m \in Nat : m <= Len(c) => f[m] \in Costed}
<1>1. Len(c) \in Nat /\ \A m \in 1 .. Len(c) : c[m] \in JoinStage
  BY LenProperties
<1>2. /\ f[0] = [cost |-> 0, out |-> Card(cat, Source)]
      /\ \A m \in 1 .. Len(c) : f[m] = OneMore(f[m - 1], IF m = 1 THEN Source ELSE "", c[m])
  BY <1>1, CostsUnfold
<1> HIDE DEF f
<1>3. 0 \in S
  <2>1. Card(cat, Source) \in Nat
    BY CardNat
  <2>2. [cost |-> 0, out |-> Card(cat, Source)] \in Costed
    BY <2>1 DEF Costed
  <2>3. f[0] \in Costed
    BY <1>2, <2>2, Zenon
  <2> QED BY <2>3
<1>4. ASSUME NEW m \in Nat, m \in S PROVE m + 1 \in S
  <2> SUFFICES ASSUME m + 1 <= Len(c) PROVE f[m + 1] \in Costed
    OBVIOUS
  <2>1. m + 1 \in 1 .. Len(c) /\ (m + 1) - 1 = m /\ f[m] \in Costed
    BY <1>1, <1>4
  <2>2. f[m + 1] = OneMore(f[m], IF m + 1 = 1 THEN Source ELSE "", c[m + 1])
    BY <1>2, <2>1
  <2> QED BY <1>1, <2>1, <2>2, OneMoreCosted
<1>5. Nat \subseteq S
  <2> HIDE DEF S
  <2> QED BY <1>3, <1>4, SetInduction
<1> QED BY <1>1, <1>5 DEF f

-----------------------------------------------------------------------------
(* The dynamic program *)

\* What the join of place i adds to rows of `out`, and the rows it makes of them.
JoinCost(chain, i, out) == ApproxJoinCost(out, Card(cat, chain[i].right), weights)
JoinOut(chain, left, i, out) ==
  OutputCardinality(cat, left, chain[i].right, chain[i].on, out, Card(cat, chain[i].right))
CostsAlong(chain, p) == CostsUpTo(Along(chain, p))

\* Each table is named once.
DistinctNames(chain) ==
  \A x, y \in 1 .. Len(chain) : x # y => ~SameName(chain[x].right, chain[y].right)

\* The estimate of a set of tables does not depend on the way to it, and each table is
\* named once and has rows.
PathFree(chain) ==
  /\ \A a, b \in Orders(Len(chain)) : \A m \in 1 .. Len(chain) :
       Prefix(a, m) = Prefix(b, m) => CostsAlong(chain, a)[m].out = CostsAlong(chain, b)[m].out
  /\ DistinctNames(chain)
  /\ \A n \in 1 .. Len(chain) : Card(cat, chain[n].right) > 0

\* The costs along an order, join by join.
LEMMA CostsAlongUnfold ==
  ASSUME cat \in Catalogs, weights \in WeightSets, NEW chain \in Seq(JoinStage), NEW p \in Orders(Len(chain))
  PROVE  /\ Along(chain, p) \in Seq(JoinStage) /\ Len(Along(chain, p)) = Len(chain)
         /\ \A m \in 0 .. Len(chain) : CostsAlong(chain, p)[m] \in Costed
         /\ CostsAlong(chain, p)[0].cost = 0 /\ CostsAlong(chain, p)[0].out = Card(cat, Source)
         /\ \A m \in 1 .. Len(chain) :
              LET before == CostsAlong(chain, p)[m - 1]
              IN  /\ CostsAlong(chain, p)[m].cost = before.cost + JoinCost(chain, p[m], before.out)
                  /\ CostsAlong(chain, p)[m].out =
                       JoinOut(chain, IF m = 1 THEN Source ELSE "", p[m], before.out)
<1> DEFINE c == Along(chain, p)
           f == CostsUpTo(c)
<1>1. Len(chain) \in Nat /\ \A m \in 1 .. Len(chain) : chain[m] \in JoinStage
  BY LenProperties
<1>2. p \in [1 .. Len(chain) -> 1 .. Len(chain)]
  BY <1>1, OrderProperties
<1>3. c \in Seq(JoinStage) /\ Len(c) = Len(chain) /\ \A m \in 1 .. Len(chain) : c[m] = chain[p[m]]
  BY <1>1, <1>2 DEF Along
<1> HIDE DEF c
<1>4. /\ f[0] = [cost |-> 0, out |-> Card(cat, Source)]
      /\ \A m \in 1 .. Len(chain) : f[m] = OneMore(f[m - 1], IF m = 1 THEN Source ELSE "", c[m])
  <2>1. Len(c) \in Nat
    BY <1>1, <1>3
  <2> QED BY <1>3, <2>1, CostsUnfold
<1>5. \A m \in 0 .. Len(chain) : f[m] \in Costed
  BY <1>3, CostsNat
<1> HIDE DEF f
<1>6. ASSUME NEW m \in 1 .. Len(chain)
      PROVE  /\ f[m].cost = f[m - 1].cost + JoinCost(chain, p[m], f[m - 1].out)
             /\ f[m].out = JoinOut(chain, IF m = 1 THEN Source ELSE "", p[m], f[m - 1].out)
  <2> DEFINE left == IF m = 1 THEN Source ELSE ""
             st == chain[p[m]]
             s == f[m - 1]
  <2>1. f[m] = OneMore(s, left, c[m]) /\ c[m] = st
    BY <1>3, <1>4, Zenon
  <2> HIDE DEF left, st, s
  <2>2. f[m] = OneMore(s, left, st)
    BY <2>1, Zenon
  <2>3. /\ f[m].cost = s.cost + ApproxJoinCost(s.out, Card(cat, st.right), weights)
        /\ f[m].out = OutputCardinality(cat, left, st.right, st.on, s.out, Card(cat, st.right))
    BY <2>2 DEF OneMore
  <2> QED BY <2>3 DEF JoinCost, JoinOut, left, st, s
<1>7. f[0].cost = 0 /\ f[0].out = Card(cat, Source)
  <2>1. f[0] = [cost |-> 0, out |-> Card(cat, Source)]
    BY <1>4
  <2> QED BY <2>1
<1> QED BY <1>3, <1>5, <1>6, <1>7 DEF CostsAlong, c, f

\* A join adds a natural to the cost.
LEMMA JoinCostNat ==
  ASSUME cat \in Catalogs, weights \in WeightSets, NEW chain, NEW i, NEW out \in Nat
  PROVE  JoinCost(chain, i, out) \in Nat
BY CardNat, ApproxJoinCostNat DEF JoinCost

\* Where names are distinct, a way to a set is the join of its last table.
LEMMA WaysAddJoin ==
  ASSUME cat \in Catalogs, weights \in WeightSets, NEW chain \in Seq(JoinStage), DistinctNames(chain),
         NEW S \in SUBSET DOMAIN chain, NEW i \in S
  PROVE  LET before == Best(chain)[S \ {i}]
         IN  /\ Ways(Best(chain), chain, S)[i].cost = before.cost + JoinCost(chain, i, before.out)
             /\ Ways(Best(chain), chain, S)[i].out =
                  JoinOut(chain, IF S = {i} THEN Source ELSE "", i, before.out)
<1> DEFINE t == chain[i].right
           before == Best(chain)[S \ {i}]
           left == IF S = {i} THEN Source ELSE ""
<1>1. DOMAIN chain = 1 .. Len(chain) /\ i \in 1 .. Len(chain)
  BY LenProperties
<1>2. {n \in DOMAIN chain : chain[n].right = t} = {i}
  BY <1>1 DEF DistinctNames, SameName
<1>3. OnOf(chain, t) = chain[i].on
  <2>1. i \in Nat
    BY <1>1
  <2>2. Max({i}) = i
    BY <2>1 DEF Max
  <2>3. OnOf(chain, t) = chain[Max({n \in DOMAIN chain : chain[n].right = t})].on
    BY DEF OnOf
  <2> QED BY <1>2, <2>2, <2>3
<1>4. Ways(Best(chain), chain, S)[i] = AddTable(before, left, chain, i)
  BY DEF Ways
<1> HIDE DEF before, left
<1>5. AddTable(before, left, chain, i) =
        [cost |-> before.cost + JoinCost(chain, i, before.out), out |-> JoinOut(chain, left, i, before.out), last |-> i]
  BY <1>3 DEF AddTable, JoinCost, JoinOut
<1>6. /\ Ways(Best(chain), chain, S)[i].cost = before.cost + JoinCost(chain, i, before.out)
      /\ Ways(Best(chain), chain, S)[i].out = JoinOut(chain, left, i, before.out)
  BY <1>4, <1>5
<1> QED BY <1>6 DEF before, left

\* No order reaches a prefix's tables for less than the best way, nor with other rows.
LEMMA BestIsLower ==
  ASSUME cat \in Catalogs, weights \in WeightSets, NEW chain \in Seq(JoinStage), PathFree(chain)
  PROVE  \A m \in 0 .. Len(chain) : \A p \in Orders(Len(chain)) :
           /\ Best(chain)[Prefix(p, m)].out = CostsAlong(chain, p)[m].out
           /\ Best(chain)[Prefix(p, m)].cost <= CostsAlong(chain, p)[m].cost
<1> DEFINE n == Len(chain)
           b == Best(chain)
           C(p) == CostsAlong(chain, p)
           Lower0(m) == \A p \in Orders(n) : b[Prefix(p, m)].out = C(p)[m].out /\ b[Prefix(p, m)].cost <= C(p)[m].cost
           S0 == {m \in Nat : m <= n => Lower0(m)}
<1>1. n \in Nat /\ DOMAIN chain = 1 .. n
  BY LenProperties
<1>2. /\ b \in [SUBSET DOMAIN chain -> State]
      /\ b[{}] = [cost |-> 0, out |-> Card(cat, Source), last |-> 0]
      /\ \A S \in SUBSET DOMAIN chain : S # {} =>
           /\ b[S].last \in S
           /\ b[S] = Ways(b, chain, S)[b[S].last]
           /\ \A j \in S : Ways(b, chain, S)[b[S].last].cost <= Ways(b, chain, S)[j].cost
  BY BestUnfolds
<1>3. /\ \A p \in Orders(n) : \A m \in 0 .. n : C(p)[m] \in Costed
      /\ \A p \in Orders(n) : C(p)[0].cost = 0 /\ C(p)[0].out = Card(cat, Source)
      /\ \A p \in Orders(n) : \A m \in 1 .. n :
           /\ C(p)[m].cost = C(p)[m - 1].cost + JoinCost(chain, p[m], C(p)[m - 1].out)
           /\ C(p)[m].out = JoinOut(chain, IF m = 1 THEN Source ELSE "", p[m], C(p)[m - 1].out)
  BY CostsAlongUnfold
<1>4. \A S \in SUBSET DOMAIN chain : \A i \in S :
        /\ Ways(b, chain, S)[i].cost = b[S \ {i}].cost + JoinCost(chain, i, b[S \ {i}].out)
        /\ Ways(b, chain, S)[i].out = JoinOut(chain, IF S = {i} THEN Source ELSE "", i, b[S \ {i}].out)
  BY WaysAddJoin DEF PathFree
<1> HIDE DEF b, C, n
<1>5. 0 \in S0
  <2>1. \A p : Prefix(p, 0) = {}
    BY DEF Prefix
  <2>2. b[{}].out = Card(cat, Source) /\ b[{}].cost = 0
    <3>1. b[{}] = [cost |-> 0, out |-> Card(cat, Source), last |-> 0]
      BY <1>2
    <3> QED BY <3>1
  <2>3. ASSUME NEW p \in Orders(n) PROVE b[Prefix(p, 0)].out = C(p)[0].out /\ b[Prefix(p, 0)].cost <= C(p)[0].cost
    <3>1. C(p)[0].cost = 0 /\ C(p)[0].out = Card(cat, Source) /\ Prefix(p, 0) = {}
      BY <1>3, <2>1
    <3>2. b[Prefix(p, 0)].out = C(p)[0].out /\ b[Prefix(p, 0)].cost = 0
      BY <2>2, <3>1, Zenon
    <3> QED BY <3>1, <3>2
  <2> QED BY <2>3
<1>6. ASSUME NEW d \in Nat, d \in S0 PROVE d + 1 \in S0
  <2> SUFFICES ASSUME d + 1 <= n, NEW p \in Orders(n)
               PROVE  b[Prefix(p, d + 1)].out = C(p)[d + 1].out /\ b[Prefix(p, d + 1)].cost <= C(p)[d + 1].cost
    OBVIOUS
  <2> DEFINE m == d + 1
             S == Prefix(p, m)
             i == b[S].last
  <2>1. m \in 1 .. n /\ m - 1 = d /\ d \in 0 .. n /\ Lower0(d)
    BY <1>1, <1>6
  <2>2. \A q \in Orders(n) :
          /\ q[m] \in 1 .. n /\ Prefix(q, m) \subseteq 1 .. n /\ Prefix(q, d) \subseteq 1 .. n
          /\ q[m] \in Prefix(q, m) /\ Prefix(q, m) \ {q[m]} = Prefix(q, d)
          /\ (Prefix(q, m) = {q[m]} <=> m = 1)
    <3> HIDE DEF m
    <3> QED BY <1>1, <2>1, PrefixGrows
  <2>3. S \in SUBSET DOMAIN chain /\ S # {} /\ i \in S
    BY <1>1, <1>2, <2>2
  <2>4. PICK a \in Orders(n) : a[m] = i /\ Prefix(a, m) = S
    <3> HIDE DEF m, i
    <3> QED BY <1>1, <2>1, <2>3, LastOfPrefix
  <2>5. S \ {i} = Prefix(a, d) /\ (S = {i} <=> m = 1)
    BY <2>2, <2>4
  <2> HIDE DEF S, i, m
  <2>6. b[S].out = C(a)[m].out
    <3>1. b[S].out = JoinOut(chain, IF S = {i} THEN Source ELSE "", i, b[Prefix(a, d)].out)
      <4>1. b[S] = Ways(b, chain, S)[i]
        BY <1>2, <2>3 DEF i
      <4>2. Ways(b, chain, S)[i].out = JoinOut(chain, IF S = {i} THEN Source ELSE "", i, b[S \ {i}].out)
        BY <1>4, <2>3, Zenon
      <4> QED BY <2>5, <4>1, <4>2, Zenon
    <3>2. b[Prefix(a, d)].out = C(a)[d].out
      BY <2>1
    <3>3. C(a)[m].out = JoinOut(chain, IF m = 1 THEN Source ELSE "", i, C(a)[d].out)
      <4>1. C(a)[m].out = JoinOut(chain, IF m = 1 THEN Source ELSE "", a[m], C(a)[m - 1].out)
        BY <1>3, <2>1
      <4> QED BY <2>1, <2>4, <4>1
    <3> QED BY <2>5, <3>1, <3>2, <3>3
  <2>7. C(a)[m].out = C(p)[m].out
    BY <2>1, <2>4 DEF PathFree, C, n, S
  <2>8. b[S].cost <= C(p)[m].cost
    <3> DEFINE j == p[m]
    <3>1. j \in S /\ S \ {j} = Prefix(p, d)
      BY <2>2 DEF S
    <3>2. b[S].cost <= b[Prefix(p, d)].cost + JoinCost(chain, j, b[Prefix(p, d)].out)
      <4>1. b[S] = Ways(b, chain, S)[i] /\ Ways(b, chain, S)[i].cost <= Ways(b, chain, S)[j].cost
        BY <1>2, <2>3, <3>1 DEF i
      <4>2. Ways(b, chain, S)[j].cost = b[S \ {j}].cost + JoinCost(chain, j, b[S \ {j}].out)
        BY <1>4, <2>3, <3>1, Zenon
      <4>3. Ways(b, chain, S)[j].cost = b[Prefix(p, d)].cost + JoinCost(chain, j, b[Prefix(p, d)].out)
        BY <3>1, <4>2, Zenon
      <4> QED BY <4>1, <4>3, Zenon
    <3>3. b[Prefix(p, d)].out = C(p)[d].out /\ b[Prefix(p, d)].cost <= C(p)[d].cost
      BY <2>1
    <3>4. C(p)[m].cost = C(p)[d].cost + JoinCost(chain, j, C(p)[d].out)
      <4>1. C(p)[m].cost = C(p)[m - 1].cost + JoinCost(chain, p[m], C(p)[m - 1].out)
        BY <1>3, <2>1
      <4> QED BY <2>1, <4>1
    <3> HIDE DEF j
    <3>5. C(p)[d].cost \in Nat /\ C(p)[d].out \in Nat /\ C(p)[m].cost \in Nat
      <4>1. C(p)[d] \in Costed /\ C(p)[m] \in Costed
        <5>1. m \in 0 .. n
          BY <1>1, <2>1
        <5> QED BY <1>3, <2>1, <5>1, Zenon
      <4> QED BY <4>1 DEF Costed
    <3>6. JoinCost(chain, j, C(p)[d].out) \in Nat
      BY <3>5, JoinCostNat
    <3>7. b[S].cost \in Nat /\ b[Prefix(p, d)].cost \in Nat
      <4>1. Prefix(p, d) \in SUBSET DOMAIN chain
        BY <1>1, <2>2
      <4>2. b[S] \in State /\ b[Prefix(p, d)] \in State
        BY <1>2, <2>3, <4>1
      <4> QED BY <4>2 DEF State
    <3> QED BY <3>2, <3>3, <3>4, <3>5, <3>6, <3>7
  <2> QED BY <2>6, <2>7, <2>8 DEF S, m
<1>7. \A m \in 0 .. n : Lower0(m)
  <2>1. Nat \subseteq S0
    <3> HIDE DEF S0
    <3> QED BY <1>5, <1>6, SetInduction
  <2>2. \A m \in 0 .. n : m \in Nat /\ m <= n
    BY <1>1
  <2> HIDE DEF Lower0
  <2> QED BY <2>1, <2>2
<1> QED BY <1>7 DEF n, b, C

\* The order the best ways give costs what they do.
LEMMA WalkedIsBest ==
  ASSUME cat \in Catalogs, weights \in WeightSets, NEW chain \in Seq(JoinStage), PathFree(chain),
         NEW q \in Orders(Len(chain)), Walked(chain, q, Len(chain))
  PROVE  \A m \in 0 .. Len(chain) : CostsAlong(chain, q)[m].cost = Best(chain)[Prefix(q, m)].cost
<1> DEFINE n == Len(chain)
           b == Best(chain)
           c == CostsAlong(chain, q)
           S0 == {m \in Nat : m <= n => c[m].cost = b[Prefix(q, m)].cost}
<1>1. n \in Nat /\ DOMAIN chain = 1 .. n
  BY LenProperties
<1>2. /\ b[{}] = [cost |-> 0, out |-> Card(cat, Source), last |-> 0]
      /\ \A S \in SUBSET DOMAIN chain : S # {} => b[S] = Ways(b, chain, S)[b[S].last]
  BY BestUnfolds
<1>3. /\ c[0].cost = 0
      /\ \A m \in 1 .. n : c[m].cost = c[m - 1].cost + JoinCost(chain, q[m], c[m - 1].out)
  BY CostsAlongUnfold
<1>4. \A S \in SUBSET DOMAIN chain : \A i \in S :
        Ways(b, chain, S)[i].cost = b[S \ {i}].cost + JoinCost(chain, i, b[S \ {i}].out)
  BY WaysAddJoin DEF PathFree
<1>5. \A m \in 0 .. n : b[Prefix(q, m)].out = c[m].out
  BY BestIsLower
<1>6. \A m \in 1 .. n : q[m] = b[Prefix(q, m)].last
  BY DEF Walked
<1> HIDE DEF b, c, n
<1>7. 0 \in S0
  <2>1. b[{}].cost = 0
    <3>1. b[{}] = [cost |-> 0, out |-> Card(cat, Source), last |-> 0]
      BY <1>2
    <3> QED BY <3>1
  <2>2. Prefix(q, 0) = {}
    BY DEF Prefix
  <2> QED BY <1>3, <2>1, <2>2
<1>8. ASSUME NEW d \in Nat, d \in S0 PROVE d + 1 \in S0
  <2> SUFFICES ASSUME d + 1 <= n PROVE c[d + 1].cost = b[Prefix(q, d + 1)].cost
    OBVIOUS
  <2> DEFINE m == d + 1
             S == Prefix(q, m)
  <2>1. m \in 1 .. n /\ m - 1 = d /\ d \in 0 .. n /\ c[d].cost = b[Prefix(q, d)].cost
    BY <1>1, <1>8
  <2>2. q[m] \in S /\ S \subseteq 1 .. n /\ S \ {q[m]} = Prefix(q, d)
    <3>1. q \in Orders(n)
      BY DEF n
    <3> HIDE DEF m
    <3> QED BY <1>1, <2>1, <3>1, PrefixGrows
  <2> HIDE DEF m, S
  <2>3. b[S] = Ways(b, chain, S)[q[m]]
    <3>1. q[m] = b[S].last
      BY <1>6, <2>1 DEF S
    <3> QED BY <1>1, <1>2, <2>2, <3>1
  <2>4. b[S].cost = b[Prefix(q, d)].cost + JoinCost(chain, q[m], b[Prefix(q, d)].out)
    <3>1. S \in SUBSET DOMAIN chain /\ q[m] \in S
      BY <1>1, <2>2
    <3>2. Ways(b, chain, S)[q[m]].cost = b[S \ {q[m]}].cost + JoinCost(chain, q[m], b[S \ {q[m]}].out)
      BY <1>4, <3>1, Zenon
    <3> QED BY <2>2, <2>3, <3>2, Zenon
  <2>5. c[m].cost = c[d].cost + JoinCost(chain, q[m], c[d].out)
    <3>1. c[m].cost = c[m - 1].cost + JoinCost(chain, q[m], c[m - 1].out)
      BY <1>3, <2>1
    <3> QED BY <2>1, <3>1
  <2>6. b[Prefix(q, d)].out = c[d].out
    BY <1>5, <2>1
  <2> QED BY <2>1, <2>4, <2>5, <2>6 DEF S, m
<1>9. \A m \in 0 .. n : c[m].cost = b[Prefix(q, m)].cost
  <2>1. Nat \subseteq S0
    <3> HIDE DEF S0
    <3> QED BY <1>7, <1>8, SetInduction
  <2>2. \A m \in 0 .. n : m \in Nat /\ m <= n
    BY <1>1
  <2> QED BY <2>1, <2>2
<1> QED BY <1>9 DEF n, b, c

\* A chain comes out in an order that costs no more than any other.
LEMMA ReorderedIsCheapest ==
  ASSUME cat \in Catalogs, weights \in WeightSets, NEW chain \in Seq(JoinStage), PathFree(chain)
  PROVE  \E q \in Orders(Len(chain)) :
           /\ ReorderedChain(chain) = Along(chain, q)
           /\ \A p \in Orders(Len(chain)) :
                CostsAlong(chain, q)[Len(chain)].cost <= CostsAlong(chain, p)[Len(chain)].cost
<1> DEFINE n == Len(chain)
           names == EnumerateJoinOrder(chain)
<1>1. n \in Nat /\ DOMAIN chain = 1 .. n /\ chain = [j \in 1 .. n |-> chain[j]]
  BY LenProperties
<1>2. PICK q \in Orders(n) : /\ names = [j \in 1 .. n |-> chain[q[j]].right]
                             /\ (\A j \in DOMAIN chain : Card(cat, chain[j].right) # 0) => Walked(chain, q, n)
  BY EnumeratedNames
<1>3. Walked(chain, q, n)
  <2>1. \A j \in DOMAIN chain : Card(cat, chain[j].right) # 0
    <3>1. \A j \in 1 .. n : Card(cat, chain[j].right) > 0
      BY DEF PathFree
    <3>2. \A j : Card(cat, chain[j].right) \in Nat
      BY CardNat
    <3> QED BY <1>1, <3>1, <3>2
  <2> QED BY <1>2, <2>1
<1>4. q \in [1 .. n -> 1 .. n]
  BY <1>1, OrderProperties
<1>5. \A x, y \in 1 .. n : SameName(chain[x].right, chain[y].right) => x = y
  BY DEF PathFree, DistinctNames
<1>6. ReorderedChain(chain) = Along(chain, q)
  <2>1. Len(names) = n /\ \A j \in 1 .. n : names[j] = chain[q[j]].right
    BY <1>1, <1>2
  <2>2. CASE \A j \in DOMAIN chain : SameName(names[j], chain[j].right)
    <3>1. \A j \in 1 .. n : SameName(chain[q[j]].right, chain[j].right)
      BY <1>1, <2>1, <2>2
    <3>2. \A j \in 1 .. n : q[j] = j
      BY <1>4, <1>5, <3>1
    <3>3. ReorderedChain(chain) = chain
      BY <2>2 DEF ReorderedChain
    <3>4. \A j \in 1 .. n : chain[q[j]] = chain[j]
      BY <3>2
    <3> HIDE DEF n
    <3>5. [j \in 1 .. n |-> chain[q[j]]] = [j \in 1 .. n |-> chain[j]]
      BY <3>4
    <3> QED BY <1>1, <3>3, <3>5, Zenon DEF Along, n
  <2>3. CASE ~ \A j \in DOMAIN chain : SameName(names[j], chain[j].right)
    <3>1. ReorderedChain(chain) = ByName(chain, names)
      BY <2>3 DEF ReorderedChain
    <3>2. NamedBy(chain, q, names)
      BY <2>1 DEF NamedBy
    <3> HIDE DEF names
    <3>3. PICK p \in Orders(n) : /\ ByName(chain, names) = [j \in DOMAIN chain |-> chain[p[j]]]
                                 /\ \A j \in 1 .. n : SameName(chain[p[j]].right, chain[q[j]].right)
      BY <3>2, TakenByName
    <3>4. p \in [1 .. n -> 1 .. n]
      BY <1>1, OrderProperties
    <3>5. \A j \in 1 .. n : p[j] = q[j]
      BY <1>4, <1>5, <3>3, <3>4
    <3>6. \A j \in 1 .. n : chain[p[j]] = chain[q[j]]
      BY <3>5
    <3>7. [j \in 1 .. n |-> chain[p[j]]] = [j \in 1 .. n |-> chain[q[j]]]
      BY <3>6
    <3> HIDE DEF n
    <3> QED BY <1>1, <3>1, <3>3, <3>7, Zenon DEF Along, n
  <2> QED BY <2>2, <2>3
<1>7. ASSUME NEW p \in Orders(n) PROVE CostsAlong(chain, q)[n].cost <= CostsAlong(chain, p)[n].cost
  <2>1. n \in 0 .. n
    BY <1>1
  <2>2. Prefix(q, n) = Prefix(p, n)
    <3>1. \A r \in Orders(n) : /\ r \in [1 .. n -> 1 .. n]
                               /\ \A i \in 1 .. n : \E j \in 1 .. n : r[j] = i
      BY <1>1, OrderProperties
    <3>2. \A r \in Orders(n) : Prefix(r, n) = 1 .. n
      BY <3>1 DEF Prefix
    <3> HIDE DEF n
    <3> QED BY <3>2
  <2>3. CostsAlong(chain, q)[n].cost = Best(chain)[Prefix(q, n)].cost
    BY <1>3, <2>1, WalkedIsBest
  <2>4. Best(chain)[Prefix(p, n)].cost <= CostsAlong(chain, p)[n].cost
    BY <2>1, BestIsLower
  <2> HIDE DEF n
  <2> QED BY <2>2, <2>3, <2>4
<1> QED BY <1>6, <1>7

-----------------------------------------------------------------------------
(* Chains that are alike *)

\* What an order costs by itself.
CheapestOf(f) ==
  PathFree(f) => \A p \in Orders(Len(f)) : OrderCost(f) <= CostsAlong(f, p)[Len(f)].cost

\* Joins of the same tables on the same conditions.
SameTables(c, d) ==
  /\ Len(c) = Len(d)
  /\ \A j \in 1 .. Len(c) : c[j].right = d[j].right /\ c[j].on = d[j].on

\* Costs ask for tables and conditions only.
LEMMA CostsOfSameTables ==
  ASSUME NEW c, NEW d, Len(c) \in Nat, SameTables(c, d)
  PROVE  \A m \in 0 .. Len(c) : CostsUpTo(c)[m] = CostsUpTo(d)[m]
<1> DEFINE n == Len(c)
           f == CostsUpTo(c)
           g == CostsUpTo(d)
           S == {m \in Nat : m <= n => f[m] = g[m]}
<1>1. n \in Nat /\ Len(d) = n /\ \A j \in 1 .. n : c[j].right = d[j].right /\ c[j].on = d[j].on
  BY DEF SameTables
<1>2. /\ f[0] = [cost |-> 0, out |-> Card(cat, Source)]
      /\ \A m \in 1 .. n : f[m] = OneMore(f[m - 1], IF m = 1 THEN Source ELSE "", c[m])
  BY <1>1, CostsUnfold
<1>3. /\ g[0] = [cost |-> 0, out |-> Card(cat, Source)]
      /\ \A m \in 1 .. n : g[m] = OneMore(g[m - 1], IF m = 1 THEN Source ELSE "", d[m])
  <2>1. Len(d) \in Nat
    BY <1>1
  <2>2. /\ g[0] = [cost |-> 0, out |-> Card(cat, Source)]
        /\ \A m \in 1 .. Len(d) : g[m] = OneMore(g[m - 1], IF m = 1 THEN Source ELSE "", d[m])
    BY <2>1, CostsUnfold
  <2> QED BY <1>1, <2>2, Zenon
<1> HIDE DEF f, g, n
<1>4. 0 \in S
  BY <1>2, <1>3
<1>5. ASSUME NEW m \in Nat, m \in S PROVE m + 1 \in S
  <2> SUFFICES ASSUME m + 1 <= n PROVE f[m + 1] = g[m + 1]
    OBVIOUS
  <2>1. m + 1 \in 1 .. n /\ (m + 1) - 1 = m /\ f[m] = g[m]
    BY <1>1, <1>5
  <2> DEFINE left == IF m + 1 = 1 THEN Source ELSE ""
  <2>2. f[m + 1] = OneMore(f[m], left, c[m + 1]) /\ g[m + 1] = OneMore(g[m], left, d[m + 1])
    BY <1>2, <1>3, <2>1
  <2> HIDE DEF left
  <2>3. c[m + 1].right = d[m + 1].right /\ c[m + 1].on = d[m + 1].on
    BY <1>1, <2>1
  <2>4. OneMore(f[m], left, c[m + 1]) = OneMore(f[m], left, d[m + 1])
    BY <2>3 DEF OneMore
  <2> QED BY <2>1, <2>2, <2>4, Zenon
<1>6. Nat \subseteq S
  <2> HIDE DEF S
  <2> QED BY <1>4, <1>5, SetInduction
<1> QED BY <1>1, <1>6 DEF f, g, n

\* So being the cheapest does, too.
LEMMA CheapestOfSameTables ==
  ASSUME NEW c, NEW d, Len(c) \in Nat, SameTables(c, d), CheapestOf(c)
  PROVE  CheapestOf(d)
<1> DEFINE n == Len(c)
<1>1. n \in Nat /\ Len(d) = n /\ \A j \in 1 .. n : c[j].right = d[j].right /\ c[j].on = d[j].on
  BY DEF SameTables
<1> HIDE DEF n
<1>2. \A p \in Orders(n) : \A m \in 0 .. n : CostsAlong(c, p)[m] = CostsAlong(d, p)[m]
  <2> SUFFICES ASSUME NEW p \in Orders(n)
               PROVE  \A m \in 0 .. n : CostsAlong(c, p)[m] = CostsAlong(d, p)[m]
    OBVIOUS
  <2>1. p \in [1 .. n -> 1 .. n]
    BY <1>1, OrderProperties
  <2>2. Len(Along(c, p)) = n /\ SameTables(Along(c, p), Along(d, p))
    BY <1>1, <2>1 DEF Along, SameTables, n
  <2>3. \A m \in 0 .. Len(Along(c, p)) : CostsUpTo(Along(c, p))[m] = CostsUpTo(Along(d, p))[m]
    BY <1>1, <2>2, CostsOfSameTables
  <2> QED BY <2>2, <2>3 DEF CostsAlong
<1>3. OrderCost(c) = OrderCost(d)
  <2>1. n \in 0 .. n
    BY <1>1
  <2>2. CostsUpTo(c)[n] = CostsUpTo(d)[n]
    BY <1>1, <2>1, CostsOfSameTables DEF n
  <2> QED BY <1>1, <2>2 DEF OrderCost, n
<1>4. \A m \in 1 .. n : m \in 0 .. n /\ n \in 0 .. n
  BY <1>1
<1>5. PathFree(d) => PathFree(c)
  <2> SUFFICES ASSUME PathFree(d) PROVE PathFree(c)
    OBVIOUS
  <2>1. ASSUME NEW a \in Orders(n), NEW b \in Orders(n), NEW m \in 1 .. n, Prefix(a, m) = Prefix(b, m)
        PROVE  CostsAlong(c, a)[m].out = CostsAlong(c, b)[m].out
    <3>1. CostsAlong(d, a)[m].out = CostsAlong(d, b)[m].out
      BY <1>1, <2>1 DEF PathFree
    <3>2. CostsAlong(c, a)[m] = CostsAlong(d, a)[m] /\ CostsAlong(c, b)[m] = CostsAlong(d, b)[m]
      BY <1>2, <1>4
    <3> QED BY <3>1, <3>2
  <2>2. DistinctNames(c)
    BY <1>1 DEF PathFree, DistinctNames, n
  <2>3. \A j \in 1 .. n : Card(cat, c[j].right) > 0
    BY <1>1 DEF PathFree
  <2> QED BY <2>1, <2>2, <2>3 DEF PathFree, n
<1>6. ASSUME PathFree(d), NEW p \in Orders(n) PROVE OrderCost(d) <= CostsAlong(d, p)[n].cost
  <2>1. OrderCost(c) <= CostsAlong(c, p)[n].cost
    BY <1>5, <1>6 DEF CheapestOf, n
  <2>2. CostsAlong(c, p)[n] = CostsAlong(d, p)[n]
    <3>1. n \in 0 .. n
      BY <1>1
    <3> QED BY <1>2, <3>1
  <2> QED BY <1>3, <2>1, <2>2
<1> QED BY <1>1, <1>6 DEF CheapestOf

\* An order can be undone.
LEMMA InverseOrder ==
  ASSUME NEW n \in Nat, NEW q \in Orders(n)
  PROVE  \E r \in Orders(n) : \A i \in 1 .. n : q[r[i]] = i /\ r[q[i]] = i
<1>1. /\ q \in [1 .. n -> 1 .. n]
      /\ \A i, j \in 1 .. n : q[i] = q[j] => i = j
      /\ \A i \in 1 .. n : \E j \in 1 .. n : q[j] = i
  BY OrderProperties
<1> DEFINE r == [i \in 1 .. n |-> CHOOSE j \in 1 .. n : q[j] = i]
<1>2. \A i \in 1 .. n : r[i] \in 1 .. n /\ q[r[i]] = i
  BY <1>1
<1>3. r \in [1 .. n -> 1 .. n]
  BY <1>1
<1> HIDE DEF r
<1>4. \A i \in 1 .. n : r[q[i]] = i
  BY <1>1, <1>2
<1>5. \A i, j \in 1 .. n : r[i] = r[j] => i = j
  BY <1>2
<1>6. r \in Orders(n)
  BY <1>3, <1>5, InjectiveIsOrder
<1> QED BY <1>2, <1>4, <1>6

\* One order after the other.
LEMMA AlongTwice ==
  ASSUME NEW chain, Len(chain) \in Nat, NEW q \in Orders(Len(chain)), NEW p \in Orders(Len(chain))
  PROVE  /\ Len(Along(chain, q)) = Len(chain)
         /\ Along(Along(chain, q), p) = Along(chain, [i \in 1 .. Len(chain) |-> q[p[i]]])
<1> DEFINE n == Len(chain)
           qp == [i \in 1 .. n |-> q[p[i]]]
<1>1. q \in [1 .. n -> 1 .. n] /\ p \in [1 .. n -> 1 .. n]
  BY OrderProperties
<1> HIDE DEF n
<1>2. Len(Along(chain, q)) = n
  BY DEF Along, n
<1>3. \A j \in 1 .. n : Along(chain, q)[p[j]] = chain[qp[j]]
  BY <1>1 DEF Along, n
<1> HIDE DEF qp
<1>4. [j \in 1 .. n |-> Along(chain, q)[p[j]]] = [j \in 1 .. n |-> chain[qp[j]]]
  BY <1>3
<1>5. Along(Along(chain, q), p) = [j \in 1 .. n |-> Along(chain, q)[p[j]]]
  BY <1>2, Zenon DEF Along
<1>6. Along(chain, qp) = [j \in 1 .. n |-> chain[qp[j]]]
  BY DEF Along, n
<1> QED BY <1>2, <1>4, <1>5, <1>6, Zenon DEF qp, n

\* Where estimates do not depend on the way from one order of the joins, they do not
\* from any other.
LEMMA PathFreeFromAnyOrder ==
  ASSUME NEW chain, Len(chain) \in Nat, NEW q \in Orders(Len(chain)), PathFree(Along(chain, q))
  PROVE  PathFree(chain)
<1> DEFINE n == Len(chain)
           f == Along(chain, q)
<1>1. /\ q \in [1 .. n -> 1 .. n] /\ Len(f) = n /\ \A i \in 1 .. n : f[i] = chain[q[i]]
  BY OrderProperties, AlongTwice DEF Along
<1>2. PICK r \in Orders(n) : \A i \in 1 .. n : q[r[i]] = i /\ r[q[i]] = i
  BY InverseOrder
<1>3. r \in [1 .. n -> 1 .. n] /\ \A i \in 1 .. n : chain[i] = f[r[i]]
  <2>1. r \in [1 .. n -> 1 .. n]
    BY OrderProperties
  <2> HIDE DEF f, n
  <2> QED BY <1>1, <1>2, <2>1
<1>4. ASSUME NEW a \in Orders(n)
      PROVE  \E c \in Orders(n) : /\ CostsAlong(f, c) = CostsAlong(chain, a)
                                  /\ \A m \in 1 .. n : Prefix(c, m) = {r[x] : x \in Prefix(a, m)}
  <2> DEFINE c == [i \in 1 .. n |-> r[a[i]]]
             qc == [i \in 1 .. n |-> q[c[i]]]
  <2>1. a \in [1 .. n -> 1 .. n]
    BY OrderProperties
  <2>2. c \in Orders(n)
    BY OrdersCompose
  <2>3. \A i \in 1 .. n : qc[i] = a[i]
    BY <1>2, <2>1
  <2>4. \A m \in 1 .. n : \A i \in 1 .. m : c[i] = r[a[i]]
    OBVIOUS
  <2> HIDE DEF c
  <2>5. Along(f, c) = Along(chain, qc)
    BY <2>2, AlongTwice
  <2> HIDE DEF qc
  <2>6. Along(chain, qc) = Along(chain, a)
    BY <2>3 DEF Along
  <2>7. CostsAlong(f, c) = CostsAlong(chain, a)
    <3> HIDE DEF f
    <3> QED BY <2>5, <2>6 DEF CostsAlong
  <2>8. \A m \in 1 .. n : Prefix(c, m) = {r[x] : x \in Prefix(a, m)}
    BY <2>4 DEF Prefix
  <2> QED BY <2>2, <2>7, <2>8
<1>5. /\ \A a, b \in Orders(n) : \A m \in 1 .. n :
           Prefix(a, m) = Prefix(b, m) => CostsAlong(f, a)[m].out = CostsAlong(f, b)[m].out
      /\ \A x, y \in 1 .. n : x # y => ~SameName(f[x].right, f[y].right)
      /\ \A j \in 1 .. n : Card(cat, f[j].right) > 0
  BY <1>1 DEF PathFree, DistinctNames
<1> HIDE DEF f, n
<1>6. ASSUME NEW a \in Orders(n), NEW b \in Orders(n), NEW m \in 1 .. n, Prefix(a, m) = Prefix(b, m)
      PROVE  CostsAlong(chain, a)[m].out = CostsAlong(chain, b)[m].out
  <2>1. PICK c \in Orders(n) : /\ CostsAlong(f, c) = CostsAlong(chain, a)
                               /\ \A j \in 1 .. n : Prefix(c, j) = {r[x] : x \in Prefix(a, j)}
    BY <1>4
  <2>2. PICK d \in Orders(n) : /\ CostsAlong(f, d) = CostsAlong(chain, b)
                               /\ \A j \in 1 .. n : Prefix(d, j) = {r[x] : x \in Prefix(b, j)}
    BY <1>4
  <2>3. Prefix(c, m) = Prefix(d, m)
    BY <1>6, <2>1, <2>2
  <2> QED BY <1>5, <2>1, <2>2, <2>3
<1>7. DistinctNames(chain)
  <2>1. \A x, y \in 1 .. n : x # y => r[x] # r[y]
    BY <1>2
  <2> QED BY <1>3, <1>5, <2>1 DEF DistinctNames, n
<1>8. \A j \in 1 .. n : Card(cat, chain[j].right) > 0
  BY <1>3, <1>5
<1> QED BY <1>6, <1>7, <1>8 DEF PathFree, n

\* A chain comes out cheapest.
LEMMA ReorderedChainIsCheapest ==
  ASSUME cat \in Catalogs, weights \in WeightSets, NEW chain \in Seq(JoinStage)
  PROVE  CheapestOf(ReorderedChain(chain))
<1> DEFINE n == Len(chain)
<1>1. n \in Nat
  BY LenProperties
<1>2. CASE PathFree(chain)
  <2>1. PICK q \in Orders(n) : /\ ReorderedChain(chain) = Along(chain, q)
                               /\ \A p \in Orders(n) : CostsAlong(chain, q)[n].cost <= CostsAlong(chain, p)[n].cost
    BY <1>2, ReorderedIsCheapest
  <2>2. Len(Along(chain, q)) = n
    BY <1>1, AlongTwice
  <2>3. OrderCost(Along(chain, q)) = CostsAlong(chain, q)[n].cost
    BY <2>2 DEF OrderCost, CostsAlong
  <2>4. ASSUME NEW p \in Orders(n)
        PROVE  OrderCost(Along(chain, q)) <= CostsAlong(Along(chain, q), p)[n].cost
    <3> DEFINE qp == [i \in 1 .. n |-> q[p[i]]]
    <3>1. qp \in Orders(n)
      BY <1>1, OrdersCompose
    <3>2. Along(Along(chain, q), p) = Along(chain, qp)
      BY <1>1, AlongTwice
    <3> HIDE DEF qp
    <3>3. CostsAlong(Along(chain, q), p)[n].cost = CostsAlong(chain, qp)[n].cost
      BY <3>2, Zenon DEF CostsAlong
    <3> QED BY <2>1, <2>3, <3>1, <3>3
  <2> QED BY <2>1, <2>2, <2>4 DEF CheapestOf
<1>3. CASE ~PathFree(chain)
  <2>1. PICK q \in Orders(n) : ReorderedChain(chain) = Along(chain, q)
    BY ReorderedChainRearranges DEF Along
  <2>2. ~PathFree(Along(chain, q))
    BY <1>1, <1>3, PathFreeFromAnyOrder
  <2> QED BY <2>1, <2>2 DEF CheapestOf
<1> QED BY <1>2, <1>3

-----------------------------------------------------------------------------
(* The walk *)

\* A chain ends where it did as long as its stages commute as they did.
LEMMA SameRunSameEnd ==
  ASSUME NEW s, NEW t, Len(s) \in Nat, Len(t) = Len(s), NEW i \in 1 .. Len(s),
         \A n \in i .. Len(s) : Commutative(s[n]) <=> Commutative(t[n])
  PROVE  ChainEnd(s, i) = ChainEnd(t, i)
<1> DEFINE d == ChainEnd(s, i)
           e == ChainEnd(t, i)
<1>1. /\ d \in i - 1 .. Len(s) /\ \A n \in i .. d : Commutative(s[n])
      /\ d < Len(s) => ~Commutative(s[d + 1])
  BY ChainEndOfRun
<1>2. /\ e \in i - 1 .. Len(s) /\ \A n \in i .. e : Commutative(t[n])
      /\ e < Len(s) => ~Commutative(t[e + 1])
  BY ChainEndOfRun
<1> HIDE DEF d, e
<1>3. ~(d < e)
  <2> SUFFICES ASSUME d < e PROVE FALSE
    OBVIOUS
  <2>1. d + 1 \in i .. e /\ d + 1 \in i .. Len(s) /\ d < Len(s)
    BY <1>1, <1>2
  <2> QED BY <1>1, <1>2, <2>1
<1>4. ~(e < d)
  <2> SUFFICES ASSUME e < d PROVE FALSE
    OBVIOUS
  <2>1. e + 1 \in i .. d /\ e + 1 \in i .. Len(s) /\ e < Len(s)
    BY <1>1, <1>2
  <2> QED BY <1>1, <1>2, <2>1
<1>5. d = e
  BY <1>1, <1>2, <1>3, <1>4
<1> QED BY <1>5 DEF d, e

\* A chain of the pipeline, and what is in front of it.
LEMMA ChainShape ==
  ASSUME orig \in Pipelines, NEW i \in Chains
  PROVE  /\ i \in 1 .. Len(orig) /\ ChainEnd(orig, i) \in Nat /\ i < ChainEnd(orig, i)
         /\ ChainEnd(orig, i) <= Len(orig)
         /\ \A n \in i .. ChainEnd(orig, i) : Commutative(orig[n])
         /\ i = 1 \/ ~Commutative(orig[i - 1])
<1>1. i \in 1 .. Len(orig) /\ JoinChain(orig, i) # <<>> /\ (i = 1 \/ ~Commutative(orig[i - 1])) /\ Len(orig) \in Nat
  BY PipelineShape DEF Chains
<1>2. ChainEnd(orig, i) \in i - 1 .. Len(orig) /\ \A n \in i .. ChainEnd(orig, i) : Commutative(orig[n])
  BY <1>1, ChainEndOfRun
<1>3. ChainEnd(orig, i) > i
  BY <1>1 DEF JoinChain
<1> QED BY <1>1, <1>2, <1>3

\* Parts that agree stage by stage are the same.
LEMMA SameParts ==
  ASSUME NEW S, NEW s \in Seq(S), NEW t, NEW i \in Nat \ {0}, NEW e \in Nat, i <= e, e <= Len(s),
         \A m \in i .. e : s[m] = t[m]
  PROVE  SubSeq(s, i, e) = SubSeq(t, i, e)
<1>1. Len(s) \in Nat /\ \A m \in i .. e : s[m] \in S /\ t[m] \in S
  BY LenProperties
<1> DEFINE a == SubSeq(s, i, e)
           b == SubSeq(t, i, e)
<1>2. a \in Seq(S) /\ Len(a) = e - i + 1 /\ \A j \in 1 .. e - i + 1 : a[j] = s[i + j - 1]
  BY <1>1, SubSeqProperties
<1>3. b \in Seq(S) /\ Len(b) = e - i + 1 /\ \A j \in 1 .. e - i + 1 : b[j] = t[i + j - 1]
  BY <1>1, SubSeqProperties
<1> HIDE DEF a, b
<1>4. \A j \in 1 .. e - i + 1 : a[j] = b[j]
  <2>1. \A j \in 1 .. e - i + 1 : i + j - 1 \in i .. e
    OBVIOUS
  <2> QED BY <1>2, <1>3, <2>1
<1>5. a = b
  BY <1>2, <1>3, <1>4, SeqEqual
<1> QED BY <1>5 DEF a, b

\* Being the cheapest, of given statistics and weights.
CostsIn(statistics, w, chain) ==
  LET upto[n \in 0 .. Len(chain)] ==
        IF n = 0 THEN [cost |-> 0, out |-> Card(statistics, Source)]
        ELSE LET s == upto[n - 1]
                 t == chain[n].right
             IN  [cost |-> s.cost + ApproxJoinCost(s.out, Card(statistics, t), w),
                  out  |-> OutputCardinality(statistics, IF n = 1 THEN Source ELSE "", t, chain[n].on,
                                             s.out, Card(statistics, t))]
  IN  upto
CheapestIn(statistics, w, f) ==
  /\ \A a, b \in Orders(Len(f)) : \A m \in 1 .. Len(f) :
       Prefix(a, m) = Prefix(b, m) =>
         CostsIn(statistics, w, Along(f, a))[m].out = CostsIn(statistics, w, Along(f, b))[m].out
  /\ DistinctNames(f)
  /\ \A n \in 1 .. Len(f) : Card(statistics, f[n].right) > 0
  => \A p \in Orders(Len(f)) :
       CostsIn(statistics, w, f)[Len(f)].cost <= CostsIn(statistics, w, Along(f, p))[Len(f)].cost

\* It is what it is of those of the run.
LEMMA CheapestOfTheRun ==
  ASSUME NEW f
  PROVE  CheapestIn(cat, weights, f) <=> CheapestOf(f)
<1>1. \A c : CostsUpTo(c) = CostsIn(cat, weights, c)
  BY DEF CostsUpTo, CostsIn
<1>2. \A p : CostsAlong(f, p) = CostsIn(cat, weights, Along(f, p))
  BY <1>1, Zenon DEF CostsAlong
<1>3. OrderCost(f) = CostsIn(cat, weights, f)[Len(f)].cost
  BY <1>1 DEF OrderCost
<1> QED BY <1>2, <1>3 DEF CheapestIn, CheapestOf, PathFree

\* The walk over the chains is past i.
Passed(i) == phase \in {"plan", "done"} \/ (phase = "order" /\ k > i)

\* A chain the walk is past is behind it as a whole, and in its cheapest order.
Settled(i) ==
  /\ phase = "order" => k > ChainEnd(orig, i)
  /\ CheapestIn(cat, weights, SubSeq(stages, i, ChainEnd(orig, i)))
Settling == MayReorder => \A i \in Chains : Passed(i) => Settled(i)

\* No chain is settled before the walk.
LEMMA InitSettling == Init => Settling
BY DEF Init, Settling, Passed

\* In front of the walk the stages are where they were, and joins and filters as before.
LEMMA AheadOfTheWalk ==
  ASSUME IInv, phase = "order"
  PROVE  \A n \in 1 .. Len(orig) : n >= k => Commutative(stages[n]) <=> Commutative(orig[n])
<1>1. PICK p \in Orders(Len(orig)) : Origin(p)
  BY DEF IInv, Tracked
<1>2. \A n \in 1 .. Len(orig) : n >= k => Like(stages[n], orig[n])
  BY <1>1 DEF Origin
<1> QED BY <1>2, LikeStages

\* So a chain that starts here still ends where it did.
LEMMA ChainAhead ==
  ASSUME IInv, phase = "order", k <= Len(orig)
  PROVE  ChainEnd(stages, k) = ChainEnd(orig, k)
<1>1. Len(stages) = Len(orig) /\ Len(orig) \in Nat /\ k \in 1 .. Len(orig)
  BY PipelineShape DEF IInv
<1>2. \A n \in k .. Len(stages) : Commutative(stages[n]) <=> Commutative(orig[n])
  <2>1. \A n \in k .. Len(stages) : n \in 1 .. Len(orig) /\ n >= k
    BY <1>1
  <2> QED BY <2>1, AheadOfTheWalk
<1> QED BY <1>1, <1>2, SameRunSameEnd

\* A settled chain stays so when its stages do.
LEMMA StaysSettled ==
  ASSUME IInv, NEW i \in Chains, Settled(i), UNCHANGED <<orig, cat, weights>>,
         phase' = "order" => k' > ChainEnd(orig, i),
         \A m \in i .. ChainEnd(orig, i) : stages'[m] = stages[m]
  PROVE  Settled(i)'
<1> DEFINE e == ChainEnd(orig, i)
<1>1. i \in Nat \ {0} /\ e \in Nat /\ i <= e /\ e <= Len(stages) /\ stages \in Seq(Stage)
  BY ChainShape DEF IInv
<1>2. SubSeq(stages, i, e) = SubSeq(stages', i, e)
  <2> HIDE DEF e
  <2> QED BY <1>1, SameParts DEF e
<1>3. CheapestIn(cat, weights, SubSeq(stages, i, e)) /\ (phase' = "order" => k' > e)
  BY DEF Settled
<1> HIDE DEF e
<1>4. CheapestIn(cat', weights', SubSeq(stages', i, e))
  BY <1>2, <1>3
<1>5. ChainEnd(orig', i) = e
  BY DEF e
<1> QED BY <1>3, <1>4, <1>5 DEF Settled

\* Ordering a chain settles it.
LEMMA ReorderChainSettles == ASSUME IInv, Settling, ReorderChain PROVE Settling'
<1> SUFFICES ASSUME MayReorder', NEW i \in Chains', Passed(i)' PROVE Settled(i)'
  BY DEF Settling
<1> DEFINE n == Len(orig)
           e == ChainEnd(stages, k)
           c == e - k + 1
           chain == JoinChain(stages, k)
           part == ReorderedChain(chain)
<1>1. /\ n \in Nat /\ k \in 1 .. n /\ Len(stages) = n /\ stages \in Seq(Stage)
      /\ orig' = orig /\ cat' = cat /\ weights' = weights /\ phase = "order" /\ phase' = phase
      /\ cat \in Catalogs /\ weights \in WeightSets
  BY PipelineShape, LenProperties DEF IInv, ReorderChain, Through, given
<1>2. /\ e \in Nat /\ c \in Nat /\ k < e /\ e <= n /\ k + c = e + 1
      /\ \A m \in k .. e : m \in 1 .. n /\ stages[m] \in JoinStage /\ Commutative(orig[m])
      /\ chain \in Seq(JoinStage) /\ part \in Seq(Stage) /\ Len(part) = c
      /\ k' = k + c /\ stages' \in Seq(Stage) /\ Len(stages') = n
      /\ \A m \in 1 .. n : stages'[m] = IF m < k \/ m >= k + c THEN stages[m] ELSE part[m - k + 1]
  BY ReorderChainEffect
<1>3. MayReorder /\ i \in Chains
  BY <1>1, <1>2 DEF MayReorder, Chains
<1>4. /\ i \in 1 .. n /\ ChainEnd(orig, i) \in Nat /\ i < ChainEnd(orig, i) /\ ChainEnd(orig, i) <= n
      /\ i = 1 \/ ~Commutative(orig[i - 1])
  BY <1>3, ChainShape DEF IInv
<1>5. e = ChainEnd(orig, k)
  BY <1>1, ChainAhead
<1>6. CheapestOf(part)
  BY <1>1, <1>2, ReorderedChainIsCheapest
<1> HIDE DEF e, chain, part, c, n
<1>7. i < k'
  BY <1>1 DEF Passed
<1>8. CASE i < k
  <2>1. Settled(i) /\ ChainEnd(orig, i) < k
    BY <1>1, <1>3, <1>8 DEF Settling, Passed, Settled
  <2>2. \A m \in i .. ChainEnd(orig, i) : stages'[m] = stages[m]
    <3>1. \A m \in i .. ChainEnd(orig, i) : m \in 1 .. n /\ m < k
      BY <1>1, <1>4, <2>1
    <3> QED BY <1>2, <3>1
  <2>3. ChainEnd(orig, i) < k'
    BY <1>1, <1>2, <1>4, <2>1
  <2> QED BY <1>1, <1>3, <2>1, <2>2, <2>3, StaysSettled
<1>9. CASE i = k
  <2> DEFINE new == SubSeq(stages', k, e)
  <2>1. /\ new \in Seq(Stage) /\ Len(new) = c
        /\ \A j \in 1 .. c : new[j] = stages'[k + j - 1]
    <3>1. \A m \in k .. e : stages'[m] \in Stage
      <4>1. \A m \in k .. e : m \in 1 .. n
        BY <1>2
      <4> QED BY <1>2, <4>1, LenProperties
    <3>2. e - k + 1 = c /\ k <= e /\ k \in Int /\ e \in Int
      BY <1>1, <1>2
    <3> QED BY <3>1, <3>2, SubSeqProperties
  <2> HIDE DEF new
  <2>2. \A j \in 1 .. c : new[j] = part[j]
    <3>1. \A j \in 1 .. c : /\ k + j - 1 \in 1 .. n /\ ~(k + j - 1 < k \/ k + j - 1 >= k + c)
                            /\ (k + j - 1) - k + 1 = j
      BY <1>1, <1>2
    <3> QED BY <1>2, <2>1, <3>1
  <2>3. new = part
    BY <1>2, <2>1, <2>2, SeqEqual
  <2>4. CheapestIn(cat, weights, part)
    BY <1>6, CheapestOfTheRun
  <2>5. CheapestIn(cat', weights', SubSeq(stages', i, ChainEnd(orig', i)))
    BY <1>1, <1>5, <1>9, <2>3, <2>4 DEF new
  <2>6. k' > ChainEnd(orig', i)
    BY <1>1, <1>2, <1>5, <1>9
  <2> QED BY <2>5, <2>6 DEF Settled
<1>10. CASE i > k
  <2>1. i - 1 \in k .. e /\ i # 1
    BY <1>1, <1>2, <1>4, <1>7, <1>10
  <2> QED BY <1>2, <1>4, <2>1
<1> QED BY <1>1, <1>4, <1>8, <1>9, <1>10

\* The walk does not pass a chain without settling it.
LEMMA WalkSettles == ASSUME IInv, Settling, Skip \/ NextPass PROVE Settling'
<1> SUFFICES ASSUME MayReorder', NEW i \in Chains', Passed(i)' PROVE Settled(i)'
  BY DEF Settling
<1>1. /\ Len(orig) \in Nat /\ Len(stages) = Len(orig) /\ stages' = stages /\ orig' = orig
      /\ cat' = cat /\ weights' = weights /\ k \in 1 .. Len(orig) + 1
      /\ phase \in {"predicates", "order", "plan", "done"}
  BY PipelineShape DEF IInv, Skip, NextPass, given
<1>2. MayReorder /\ i \in Chains
  BY <1>1 DEF MayReorder, Chains
<1>3. /\ i \in 1 .. Len(orig) /\ ChainEnd(orig, i) \in Nat /\ i < ChainEnd(orig, i)
      /\ ChainEnd(orig, i) <= Len(orig)
  BY <1>2, ChainShape DEF IInv
<1>4. Passed(i) /\ (phase' = "order" => phase = "order" /\ k' = k + 1)
  <2>1. CASE Skip
    <3>1. phase' = phase /\ k' = k + 1 /\ k <= Len(stages)
      BY <1>1, <2>1 DEF Skip, Through
    <3>2. CASE phase = "order" /\ i = k
      <4>1. ~(ChainEnd(stages, k) > k)
        <5>1. JoinChain(stages, k) = <<>>
          BY <1>2, <2>1, <3>2 DEF Skip
        <5>2. ChainEnd(stages, k) \in Nat /\ k \in Nat
          BY <1>1, <1>3, <3>1, <3>2, ChainAhead
        <5> SUFFICES ASSUME ChainEnd(stages, k) > k PROVE FALSE
          OBVIOUS
        <5>3. JoinChain(stages, k) = SubSeq(stages, k, ChainEnd(stages, k))
          BY DEF JoinChain
        <5>4. Len(SubSeq(stages, k, ChainEnd(stages, k))) = ChainEnd(stages, k) - k + 1
          <6>1. \A m \in k .. ChainEnd(stages, k) : stages[m] \in Stage
            <7>1. stages \in Seq(Stage) /\ ChainEnd(stages, k) <= Len(stages)
              BY <1>1, <1>3, <3>1, <3>2, ChainAhead DEF IInv
            <7> QED BY <1>1, <5>2, <7>1, LenProperties
          <6> QED BY <5>2, <6>1, SubSeqProperties
        <5>5. Len(JoinChain(stages, k)) = ChainEnd(stages, k) - k + 1
          BY <5>3, <5>4
        <5>6. Len(JoinChain(stages, k)) = 0
          BY <5>1
        <5> QED BY <5>2, <5>5, <5>6
      <4>2. ChainEnd(stages, k) = ChainEnd(orig, i)
        BY <1>1, <3>1, <3>2, ChainAhead
      <4> QED BY <1>3, <3>2, <4>1, <4>2
    <3>3. CASE ~(phase = "order" /\ i = k)
      BY <1>1, <1>3, <3>1, <3>3 DEF Passed
    <3> QED BY <3>2, <3>3
  <2>2. CASE NextPass
    <3>1. k' = 1 /\ (phase = "predicates" => phase' = "order") /\ (phase = "order" => phase' = "plan")
          /\ (phase = "plan" => phase' = "done") /\ phase # "done" /\ k > Len(stages)
      BY <1>1, <2>2 DEF NextPass, Through
    <3>2. phase' # "order"
      BY <1>3, <3>1 DEF Passed
    <3>3. phase \in {"order", "plan"}
      BY <1>1, <3>1, <3>2
    <3> QED BY <1>1, <1>3, <3>1, <3>2, <3>3 DEF Passed
  <2> QED BY <2>1, <2>2
<1>5. Settled(i)
  BY <1>2, <1>4 DEF Settling
<1>6. phase' = "order" => k' > ChainEnd(orig, i)
  BY <1>1, <1>3, <1>4, <1>5 DEF Settled
<1>7. \A m \in i .. ChainEnd(orig, i) : stages'[m] = stages[m]
  BY <1>1
<1> QED BY <1>1, <1>2, <1>5, <1>6, <1>7, StaysSettled

\* Conjuncts are ordered before the walk.
LEMMA OrderConjunctsSettles == ASSUME OrderConjuncts PROVE Settling'
BY DEF OrderConjuncts, Settling, Passed

\* The plan of a join changes no costs of its chain.
LEMMA PlanJoinSettles == ASSUME IInv, Settling, PlanJoin PROVE Settling'
<1> SUFFICES ASSUME MayReorder', NEW i \in Chains', Passed(i)' PROVE Settled(i)'
  BY DEF Settling
<1> DEFINE s == stages[k]
           new == Planned(s)
           e == ChainEnd(orig, i)
<1>1. /\ Len(orig) \in Nat /\ k \in 1 .. Len(stages) /\ Len(stages) = Len(orig)
      /\ stages \in Seq(Stage) /\ IsJoin(s) /\ phase = "plan" /\ phase' = "plan"
      /\ orig' = orig /\ cat' = cat /\ weights' = weights /\ stages' = [stages EXCEPT ![k] = new]
  BY PipelineShape DEF IInv, PlanJoin, Through, given
<1>2. s \in JoinStage
  <2>1. s \in Stage
    BY <1>1, LenProperties
  <2> QED BY <1>1, <2>1 DEF Stage, JoinStage, FilterStage, IsJoin
<1>3. new \in JoinStage /\ new.right = s.right /\ new.on = s.on
  BY <1>2, PlannedIsJoin
<1>4. /\ DOMAIN stages = 1 .. Len(stages)
      /\ \A m \in 1 .. Len(orig) : stages[m] \in Stage /\ stages'[m] = IF m = k THEN new ELSE stages[m]
  <2>1. stages \in [1 .. Len(orig) -> Stage]
    BY <1>1, LenProperties
  <2> HIDE DEF new
  <2> QED BY <1>1, <2>1
<1> HIDE DEF new
<1>5. /\ MayReorder /\ i \in Chains /\ Passed(i)
  <2>1. Len(stages') = Len(stages)
    BY <1>1, <1>4
  <2> QED BY <1>1, <2>1 DEF MayReorder, Chains, Passed
<1>6. i \in 1 .. Len(orig) /\ e \in Nat /\ i < e /\ e <= Len(orig)
  BY <1>5, ChainShape DEF IInv
<1>7. CheapestOf(SubSeq(stages, i, e))
  BY <1>5, CheapestOfTheRun DEF Settling, Settled
<1> HIDE DEF e
<1> DEFINE was == SubSeq(stages, i, e)
           is == SubSeq(stages', i, e)
<1>8. \A m \in i .. e : /\ stages[m] \in Stage /\ stages'[m] \in Stage
                        /\ stages'[m].right = stages[m].right \/ stages'[m] = stages[m]
                        /\ stages'[m].on = stages[m].on \/ stages'[m] = stages[m]
  <2>1. \A m \in i .. e : m \in 1 .. Len(orig)
    BY <1>1, <1>6
  <2> QED BY <1>3, <1>4, <2>1 DEF Stage, s
<1>9. /\ Len(was) = e - i + 1 /\ \A j \in 1 .. e - i + 1 : was[j] = stages[i + j - 1]
  BY <1>6, <1>8, SubSeqProperties
<1>10. /\ Len(is) = e - i + 1 /\ \A j \in 1 .. e - i + 1 : is[j] = stages'[i + j - 1]
  BY <1>6, <1>8, SubSeqProperties
<1> HIDE DEF was, is
<1>11. SameTables(was, is) /\ Len(was) \in Nat
  <2>1. \A j \in 1 .. e - i + 1 : i + j - 1 \in i .. e
    BY <1>6
  <2>2. \A j \in 1 .. e - i + 1 : was[j].right = is[j].right /\ was[j].on = is[j].on
    BY <1>8, <1>9, <1>10, <2>1
  <2> QED BY <1>6, <1>9, <1>10, <2>2 DEF SameTables
<1>12. CheapestOf(is)
  BY <1>7, <1>11, CheapestOfSameTables DEF was
<1>13. CheapestIn(cat, weights, is)
  BY <1>12, CheapestOfTheRun
<1>14. CheapestIn(cat', weights', SubSeq(stages', i, ChainEnd(orig', i)))
  BY <1>1, <1>13 DEF is, e
<1> QED BY <1>1, <1>14 DEF Settled

\* The invariant is one.
JInv == IInv /\ Settling
LEMMA NextSettling == JInv /\ [Next]_vars => JInv'
<1> SUFFICES ASSUME JInv, [Next]_vars PROVE JInv'
  OBVIOUS
<1>1. IInv /\ Settling
  BY DEF JInv
<1>2. IInv'
  BY <1>1, NextIInv
<1>3. ASSUME OrderConjuncts PROVE Settling'
  BY <1>3, OrderConjunctsSettles
<1>4. ASSUME ReorderChain PROVE Settling'
  BY <1>1, <1>4, ReorderChainSettles
<1>5. ASSUME PlanJoin PROVE Settling'
  BY <1>1, <1>5, PlanJoinSettles
<1>6. ASSUME Skip \/ NextPass PROVE Settling'
  BY <1>1, <1>6, WalkSettles
<1>7. ASSUME UNCHANGED vars PROVE Settling'
  BY <1>1, <1>7 DEF vars, Settling, MayReorder, Chains, Passed, Settled
<1> QED BY <1>2, <1>3, <1>4, <1>5, <1>6, <1>7 DEF JInv, Next

\* The orders of a chain are its permutations.
LEMMA PermutedIsAlong ==
  ASSUME NEW chain, Len(chain) \in Nat, DOMAIN chain = 1 .. Len(chain)
  PROVE  Permuted(chain) = {Along(chain, p) : p \in Orders(Len(chain))}
BY DEF Permuted, Orders, Along

\* Settled chains are what was promised.
LEMMA SettledIsCheapest == JInv => CheapestOrder
<1> SUFFICES ASSUME JInv, phase = "done", MayReorder, NEW i \in Chains
             PROVE  LET chain == SubSeq(stages, i, ChainEnd(orig, i))
                    IN  PathIndependent(chain) => \A other \in Permuted(chain) : OrderCost(chain) <= OrderCost(other)
  BY DEF CheapestOrder
<1> DEFINE e == ChainEnd(orig, i)
           f == SubSeq(stages, i, e)
           n == Len(f)
<1>1. /\ i \in 1 .. Len(orig) /\ e \in Nat /\ i < e /\ e <= Len(orig)
      /\ stages \in Seq(Stage) /\ Len(stages) = Len(orig) /\ Len(orig) \in Nat
  BY ChainShape, PipelineShape DEF JInv, IInv
<1>2. CheapestOf(f)
  BY CheapestOfTheRun DEF JInv, Settling, Settled, Passed
<1> HIDE DEF e
<1>3. f \in Seq(Stage)
  <2>1. \A m \in i .. e : stages[m] \in Stage
    <3>1. \A m \in i .. e : m \in 1 .. Len(stages)
      BY <1>1
    <3> QED BY <1>1, <3>1, LenProperties
  <2> QED BY <1>1, <2>1, SubSeqProperties
<1> HIDE DEF f
<1>4. n \in Nat /\ DOMAIN f = 1 .. n
  BY <1>3, LenProperties
<1>5. Permuted(f) = {Along(f, p) : p \in Orders(n)}
  BY <1>4, PermutedIsAlong
<1>6. \A p \in Orders(n) : /\ Len(Along(f, p)) = n /\ p \in [1 .. n -> 1 .. n]
                           /\ OrderCost(Along(f, p)) = CostsAlong(f, p)[n].cost
  <2>1. \A p \in Orders(n) : Len(Along(f, p)) = n
    BY <1>4 DEF Along
  <2>2. \A p \in Orders(n) : p \in [1 .. n -> 1 .. n]
    BY <1>4, OrderProperties
  <2> QED BY <2>1, <2>2 DEF OrderCost, CostsAlong
<1>7. PathIndependent(f) => PathFree(f)
  <2> SUFFICES ASSUME PathIndependent(f) PROVE PathFree(f)
    OBVIOUS
  <2>1. ASSUME NEW a \in Orders(n), NEW b \in Orders(n), NEW m \in 1 .. n, Prefix(a, m) = Prefix(b, m)
        PROVE  CostsAlong(f, a)[m].out = CostsAlong(f, b)[m].out
    <3>1. \A p \in Orders(n) : {Along(f, p)[j] : j \in 1 .. m} = {f[x] : x \in Prefix(p, m)}
      <4>1. \A j \in 1 .. m : j \in 1 .. n
        BY <1>4
      <4>2. \A p \in Orders(n) : \A j \in 1 .. m : Along(f, p)[j] = f[p[j]]
        BY <4>1 DEF Along
      <4> QED BY <4>2 DEF Prefix
    <3>2. {Along(f, a)[j] : j \in 1 .. m} = {Along(f, b)[j] : j \in 1 .. m}
      BY <2>1, <3>1
    <3>3. Along(f, a) \in Permuted(f) /\ Along(f, b) \in Permuted(f) /\ m \in DOMAIN f
      BY <1>4, <1>5
    <3>4. CostsUpTo(Along(f, a))[m].out = CostsUpTo(Along(f, b))[m].out
      <4>1. \A c, d \in Permuted(f) : \A j \in DOMAIN f :
              {c[l] : l \in 1 .. j} = {d[l] : l \in 1 .. j} => CostsUpTo(c)[j].out = CostsUpTo(d)[j].out
        BY DEF PathIndependent
      <4> QED BY <3>2, <3>3, <4>1, Zenon
    <3> QED BY <3>4 DEF CostsAlong
  <2>2. DistinctNames(f) /\ \A j \in 1 .. n : Card(cat, f[j].right) > 0
    BY <1>4 DEF PathIndependent, DistinctNames
  <2> QED BY <2>1, <2>2 DEF PathFree
<1>8. ASSUME PathIndependent(f), NEW other \in Permuted(f) PROVE OrderCost(f) <= OrderCost(other)
  <2>1. PICK p \in Orders(n) : other = Along(f, p)
    BY <1>5, <1>8
  <2>2. OrderCost(f) <= CostsAlong(f, p)[n].cost
    BY <1>2, <1>7, <1>8 DEF CheapestOf
  <2> QED BY <1>6, <2>1, <2>2
<1> QED BY <1>8 DEF f, e

\* ApplyJoinOrder leaves every chain of commuting joins, of any length, in its cheapest
\* left-deep order, if each table is named once and has rows and the estimated rows of a
\* set of tables do not depend on the way to it.
THEOREM ChainsAreCheapest == Spec => []CheapestOrder
<1>1. Init => JInv
  BY InitIInv, InitSettling DEF JInv
<1> QED BY <1>1, NextSettling, SettledIsCheapest, PTL DEF Spec

-----------------------------------------------------------------------------
(* Tables and rows, stage by stage *)

\* A pipeline whose stages have ids of their own.
Sound(ss) == ss \in Seq(Stage) /\ \A m, n \in DOMAIN ss : ss[m].id = ss[n].id => m = n

\* What a stage adds to the tables.
TableStep(seen, st) == IF IsJoin(st) THEN seen \o Scan(st.id, st.right) ELSE seen

\* The fold over the places of the stages, the last place first.
IsFold(ss, f) ==
  f = [S \in SUBSET DOMAIN ss |->
         IF S = {} THEN Scan(0, Source) ELSE TableStep(f[S \ {Max(S)}], ss[Max(S)])]
Scans(ss) == {[id |-> 0, table |-> Source]} \cup {[id |-> ss[n].id, table |-> ss[n].right] : n \in DOMAIN ss}

\* The last of some places is one of them.
LEMMA MaxOfPlaces ==
  ASSUME NEW n \in Nat, NEW S \in SUBSET (1 .. n), S # {}
  PROVE  Max(S) \in S /\ \A i \in S : Max(S) >= i
<1>1. S \subseteq Nat /\ \A i \in S : i <= n
  OBVIOUS
<1>2. \E m \in S : \A i \in S : m >= i
  BY <1>1, GreatestElement
<1> QED
  BY <1>2 DEF Max

\* The fold is defined.
LEMMA FoldExists ==
  ASSUME NEW ss, NEW n \in Nat, DOMAIN ss = 1 .. n
  PROVE  \E f : IsFold(ss, f)
<1> DEFINE D == DOMAIN ss
           X == Seq(Scans(ss))
           F == [SUBSET D -> X]
           base == Scan(0, Source)
           At0(f, S) == IF S = {} THEN base ELSE TableStep(f[S \ {Max(S)}], ss[Max(S)])
           T == [f \in F |-> [S \in SUBSET D |-> At0(f, S)]]
<1>1. IsFiniteSet(D) /\ D \subseteq Nat
  BY FS_Interval
<1>2. base \in X
  <2>1. [id |-> 0, table |-> Source] \in Scans(ss)
    BY DEF Scans
  <2> HIDE DEF X
  <2>2. \A s \in {[id |-> 0, table |-> Source]} : <<s>> \in X
    BY <2>1 DEF X
  <2> QED
    BY <2>2 DEF Scan
<1>3. ASSUME NEW f \in F, NEW S \in SUBSET D PROVE At0(f, S) \in X
  <2>1. CASE S = {}
    BY <1>2, <2>1
  <2>2. CASE S # {}
    <3> DEFINE m == Max(S)
    <3>1. m \in S /\ m \in DOMAIN ss /\ S \ {m} \in SUBSET D
      BY <2>2, MaxOfPlaces
    <3> HIDE DEF m
    <3>2. f[S \ {m}] \in X
      BY <3>1
    <3>3. [id |-> ss[m].id, table |-> ss[m].right] \in Scans(ss)
      BY <3>1 DEF Scans
    <3>4. Scan(ss[m].id, ss[m].right) \in X
      <4> DEFINE s == [id |-> ss[m].id, table |-> ss[m].right]
      <4> HIDE DEF s
      <4>1. <<s>> \in X
        BY <3>3 DEF s
      <4> QED
        BY <4>1 DEF s, Scan
    <3>5. f[S \ {m}] \o Scan(ss[m].id, ss[m].right) \in X
      BY <3>2, <3>4, ConcatProperties
    <3>6. TableStep(f[S \ {m}], ss[m]) \in X
      BY <3>2, <3>5 DEF TableStep
    <3> QED
      BY <2>2, <3>6 DEF m
  <2> QED
    BY <2>1, <2>2
<1>4. T \in [F -> [SUBSET D -> X]]
  <2> HIDE DEF At0
  <2> QED BY <1>3
<1>5. ASSUME NEW f \in F, NEW h \in F, NEW S \in SUBSET D, \A R \in SUBSET S : R # S => f[R] = h[R]
      PROVE  T[f][S] = T[h][S]
  <2>1. S # {} => S \ {Max(S)} \in SUBSET S /\ S \ {Max(S)} # S
    BY MaxOfPlaces
  <2>2. At0(f, S) = At0(h, S)
    BY <1>5, <2>1
  <2> HIDE DEF At0
  <2> QED BY <2>2
<1>6. PICK h \in F : T[h] = h
  <2>1. T \in [Maps(D, X) -> Maps(D, X)] /\ Local(D, X, T)
    <3> HIDE DEF D, X, base, T
    <3> QED BY <1>4, <1>5 DEF Local, Maps
  <2>2. \E h \in Maps(D, X) : T[h] = h
    <3> HIDE DEF D, X, base, T
    <3> QED BY <1>1, <1>2, <2>1, SubsetRecursion
  <2> QED BY <2>2 DEF Maps
<1>7. h = [S \in SUBSET D |-> At0(h, S)]
  <2> HIDE DEF At0, X
  <2> QED BY <1>6
<1>8. IsFold(ss, h)
  BY <1>7 DEF IsFold
<1> QED BY <1>8

\* The tables behind n stages are what the fold has for the places 1 to n.
LEMMA TablesFolded ==
  ASSUME NEW ss, NEW n \in Nat, DOMAIN ss = 1 .. n
  PROVE  \E f : IsFold(ss, f) /\ Tables(ss) = f[1 .. n]
<1> DEFINE f == CHOOSE g : IsFold(ss, g)
<1>1. IsFold(ss, f)
  BY FoldExists
<1>2. Tables(ss) = LET iter[S \in SUBSET DOMAIN ss] ==
                         IF S = {} THEN Scan(0, Source) ELSE TableStep(iter[S \ {Max(S)}], ss[Max(S)])
                   IN  iter[DOMAIN ss]
  BY SMT DEF Tables, FoldLeft, MapThenFoldSet, TableStep
<1>3. Tables(ss) = f[DOMAIN ss]
  BY <1>2 DEF IsFold
<1> HIDE DEF f
<1> QED
  BY <1>1, <1>3

\* The fold takes one stage after the other.
LEMMA FoldSteps ==
  ASSUME NEW ss, NEW n \in Nat, DOMAIN ss = 1 .. n, NEW f, IsFold(ss, f), NEW m \in 0 .. n
  PROVE  /\ f[1 .. 0] = Scan(0, Source)
         /\ m < n => f[1 .. m + 1] = TableStep(f[1 .. m], ss[m + 1])
<1>1. \A S \in SUBSET (1 .. n) :
        f[S] = IF S = {} THEN Scan(0, Source) ELSE TableStep(f[S \ {Max(S)}], ss[Max(S)])
  BY DEF IsFold
<1>2. f[1 .. 0] = Scan(0, Source)
  <2>1. 1 .. 0 = {} /\ 1 .. 0 \in SUBSET (1 .. n)
    OBVIOUS
  <2> QED BY <1>1, <2>1
<1>3. ASSUME m < n PROVE f[1 .. m + 1] = TableStep(f[1 .. m], ss[m + 1])
  <2> DEFINE S == 1 .. m + 1
  <2>1. S \in SUBSET (1 .. n) /\ S # {} /\ m + 1 \in S
    BY <1>3
  <2>2. Max(S) \in S /\ \A i \in S : Max(S) >= i
    BY <2>1, MaxOfPlaces
  <2>3. Max(S) = m + 1
    BY <2>1, <2>2
  <2>4. S \ {m + 1} = 1 .. m
    OBVIOUS
  <2> HIDE DEF S
  <2> QED
    BY <1>1, <2>1, <2>3, <2>4 DEF S
<1> QED
  BY <1>2, <1>3

\* Behind no stage there is the source, and each stage adds its table.
LEMMA BehindSteps ==
  ASSUME NEW ss \in Seq(Stage), NEW n \in 0 .. Len(ss)
  PROVE  /\ Behind(ss, 0) = Scan(0, Source)
         /\ n < Len(ss) => Behind(ss, n + 1) = TableStep(Behind(ss, n), ss[n + 1])
<1> DEFINE Part(m) == SubSeq(ss, 1, m)
<1>1. Len(ss) \in Nat
  BY LenProperties
<1>2. \A m \in 0 .. Len(ss) : DOMAIN Part(m) = 1 .. m /\ \A j \in 1 .. m : Part(m)[j] = ss[j]
  BY <1>1, SubSeqProperties
<1> HIDE DEF Part
<1>3. Behind(ss, 0) = Scan(0, Source)
  <2>1. PICK f : IsFold(Part(0), f) /\ Tables(Part(0)) = f[1 .. 0]
    BY <1>1, <1>2, TablesFolded
  <2>2. f[1 .. 0] = Scan(0, Source)
    BY <1>1, <1>2, <2>1, FoldSteps
  <2> QED BY <2>1, <2>2 DEF Behind, Part
<1>4. ASSUME n < Len(ss) PROVE Behind(ss, n + 1) = TableStep(Behind(ss, n), ss[n + 1])
  <2>1. n \in Nat /\ n + 1 \in 0 .. Len(ss)
    BY <1>1, <1>4
  <2>2. PICK f : IsFold(Part(n), f) /\ Tables(Part(n)) = f[1 .. n]
    BY <1>2, <2>1, TablesFolded
  <2>3. PICK g : IsFold(Part(n + 1), g) /\ Tables(Part(n + 1)) = g[1 .. n + 1]
    BY <1>2, <2>1, TablesFolded
  <2> DEFINE S == {m \in Nat : m <= n => f[1 .. m] = g[1 .. m]}
  <2>4. 0 \in S
    BY <1>2, <2>1, <2>2, <2>3, FoldSteps
  <2>5. ASSUME NEW m \in Nat, m \in S PROVE m + 1 \in S
    <3> SUFFICES ASSUME m + 1 <= n PROVE f[1 .. m + 1] = g[1 .. m + 1]
      OBVIOUS
    <3>1. m \in 0 .. n /\ m < n /\ m \in 0 .. n + 1 /\ m < n + 1 /\ m + 1 \in 1 .. n /\ m + 1 \in 1 .. n + 1
      BY <2>1
    <3>2. f[1 .. m] = g[1 .. m]
      BY <2>5, <3>1
    <3>3. f[1 .. m + 1] = TableStep(f[1 .. m], Part(n)[m + 1])
      BY <1>2, <2>1, <2>2, <3>1, FoldSteps
    <3>4. g[1 .. m + 1] = TableStep(g[1 .. m], Part(n + 1)[m + 1])
      BY <1>2, <2>1, <2>3, <3>1, FoldSteps
    <3>5. Part(n)[m + 1] = ss[m + 1] /\ Part(n + 1)[m + 1] = ss[m + 1]
      BY <1>2, <2>1, <3>1
    <3> QED
      BY <3>2, <3>3, <3>4, <3>5
  <2>6. Nat \subseteq S
    <3> HIDE DEF S
    <3> QED BY <2>4, <2>5, SetInduction
  <2>7. f[1 .. n] = g[1 .. n]
    BY <2>1, <2>6
  <2>8. g[1 .. n + 1] = TableStep(g[1 .. n], Part(n + 1)[n + 1])
    <3>1. n \in 0 .. n + 1 /\ n < n + 1 /\ n + 1 \in Nat
      BY <2>1
    <3> QED BY <1>2, <2>1, <2>3, <3>1, FoldSteps
  <2>9. Part(n + 1)[n + 1] = ss[n + 1]
    BY <1>2, <2>1
  <2> QED
    BY <2>2, <2>3, <2>7, <2>8, <2>9 DEF Behind, Part
<1> QED
  BY <1>3, <1>4

\* The joins among the first n stages, the ids of their tables and the source's.
JoinsTo(ss, n) == {m \in 1 .. n : IsJoin(ss[m])}
IdsTo(ss, n) == {0} \cup {ss[m].id : m \in JoinsTo(ss, n)}
KnownTo(ss, n) == ColumnsOf(Source) \cup UNION {ColumnsOf(ss[m].right) : m \in JoinsTo(ss, n)}
Entry(st) == [id |-> st.id, table |-> st.right]

\* The tables behind n stages are the source and the joins' tables, and nothing else.
Listed(ss, n, order) ==
  /\ order \in Seq(Scans(ss)) /\ Len(order) \in Nat \ {0}
  /\ order[1] = [id |-> 0, table |-> Source]
  /\ \A q \in DOMAIN order : q # 1 => \E m \in JoinsTo(ss, n) : order[q] = Entry(ss[m])
  /\ \A m \in JoinsTo(ss, n) : \E q \in DOMAIN order : order[q] = Entry(ss[m])

\* A stage adds its table at the end, or nothing.
LEMMA StepListed ==
  ASSUME NEW ss \in Seq(Stage), NEW n \in Nat, n < Len(ss), NEW order, Listed(ss, n, order)
  PROVE  LET next == TableStep(order, ss[n + 1])
         IN  /\ Listed(ss, n + 1, next)
             /\ Len(next) >= Len(order)
             /\ \A q \in DOMAIN order : q \in DOMAIN next /\ next[q] = order[q]
<1> DEFINE st == ss[n + 1]
           next == TableStep(order, st)
<1>1. Len(ss) \in Nat /\ DOMAIN ss = 1 .. Len(ss) /\ n + 1 \in DOMAIN ss
  BY LenProperties
<1>2. JoinsTo(ss, n + 1) = JoinsTo(ss, n) \cup (IF IsJoin(st) THEN {n + 1} ELSE {})
  BY DEF JoinsTo
<1>3. order \in Seq(Scans(ss)) /\ Len(order) \in Nat \ {0} /\ DOMAIN order = 1 .. Len(order)
  BY LenProperties DEF Listed
<1>4. CASE ~IsJoin(st)
  <2>1. next = order /\ JoinsTo(ss, n + 1) = JoinsTo(ss, n)
    BY <1>2, <1>4 DEF TableStep
  <2> QED BY <1>3, <2>1 DEF Listed
<1>5. CASE IsJoin(st)
  <2> DEFINE l == Len(order)
  <2>1. Entry(st) \in Scans(ss)
    BY <1>1 DEF Scans, Entry
  <2>2. next = order \o <<Entry(st)>>
    BY <1>5 DEF TableStep, Scan, Entry
  <2>3. <<Entry(st)>> \in Seq(Scans(ss)) /\ Len(<<Entry(st)>>) = 1 /\ <<Entry(st)>>[1] = Entry(st)
    <3> HIDE DEF st
    <3> DEFINE e == Entry(st)
    <3>1. e \in Scans(ss)
      BY <2>1
    <3> HIDE DEF e
    <3>2. <<e>> \in Seq(Scans(ss)) /\ Len(<<e>>) = 1 /\ <<e>>[1] = e
      BY <3>1
    <3> QED BY <3>2 DEF e
  <2> HIDE DEF st, next
  <2>4. /\ next \in Seq(Scans(ss)) /\ Len(next) = l + 1
        /\ \A q \in 1 .. l : next[q] = order[q]
        /\ next[l + 1] = Entry(st)
    BY <1>3, <2>2, <2>3, ConcatProperties
  <2>5. DOMAIN next = 1 .. l + 1
    BY <2>4, LenProperties
  <2>6. JoinsTo(ss, n + 1) = JoinsTo(ss, n) \cup {n + 1}
    BY <1>2, <1>5 DEF st
  <2>7. ASSUME NEW q \in DOMAIN next, q # 1 PROVE \E m \in JoinsTo(ss, n + 1) : next[q] = Entry(ss[m])
    <3>1. CASE q = l + 1
      BY <2>4, <2>6, <3>1 DEF st
    <3>2. CASE q \in 1 .. l
      <4>1. \E m \in JoinsTo(ss, n) : order[q] = Entry(ss[m])
        BY <1>3, <2>7, <3>2 DEF Listed
      <4> QED BY <2>4, <2>6, <3>2, <4>1
    <3> QED BY <1>3, <2>5, <3>1, <3>2
  <2>8. ASSUME NEW m \in JoinsTo(ss, n + 1) PROVE \E q \in DOMAIN next : next[q] = Entry(ss[m])
    <3>1. CASE m = n + 1
      BY <1>3, <2>4, <2>5, <3>1 DEF st
    <3>2. CASE m \in JoinsTo(ss, n)
      <4>1. PICK q \in DOMAIN order : order[q] = Entry(ss[m])
        BY <3>2 DEF Listed
      <4>2. q \in DOMAIN next /\ next[q] = order[q]
        BY <1>3, <2>4, <2>5
      <4> QED BY <4>1, <4>2
    <3> QED BY <2>6, <3>1, <3>2
  <2>9. next[1] = [id |-> 0, table |-> Source]
    BY <1>3, <2>4 DEF Listed
  <2>10. Listed(ss, n + 1, next)
    BY <1>3, <2>4, <2>7, <2>8, <2>9 DEF Listed
  <2>11. Len(next) >= Len(order) /\ \A q \in DOMAIN order : q \in DOMAIN next /\ next[q] = order[q]
    BY <1>3, <2>4, <2>5
  <2> QED
    BY <2>10, <2>11 DEF st, next
<1> QED
  BY <1>4, <1>5

\* The tables behind any number of stages.
LEMMA BehindListed ==
  ASSUME NEW ss \in Seq(Stage)
  PROVE  \A n \in 0 .. Len(ss) : Listed(ss, n, Behind(ss, n))
<1> DEFINE S == {n \in Nat : n <= Len(ss) => Listed(ss, n, Behind(ss, n))}
<1>1. Len(ss) \in Nat
  BY LenProperties
<1>2. 0 \in S
  <2>1. Behind(ss, 0) = Scan(0, Source)
    BY <1>1, BehindSteps
  <2> DEFINE e == [id |-> 0, table |-> Source]
  <2>2. e \in Scans(ss) /\ Scan(0, Source) = <<e>>
    BY DEF Scans, Scan
  <2> HIDE DEF e
  <2>3. <<e>> \in Seq(Scans(ss)) /\ Len(<<e>>) = 1 /\ <<e>>[1] = e /\ DOMAIN <<e>> = 1 .. 1
    BY <2>2
  <2>4. JoinsTo(ss, 0) = {}
    BY DEF JoinsTo
  <2>5. Listed(ss, 0, <<e>>)
    BY <2>3, <2>4 DEF Listed, e
  <2> QED BY <2>1, <2>2, <2>5
<1>3. ASSUME NEW n \in Nat, n \in S PROVE n + 1 \in S
  <2> SUFFICES ASSUME n + 1 <= Len(ss) PROVE Listed(ss, n + 1, Behind(ss, n + 1))
    OBVIOUS
  <2>1. n \in 0 .. Len(ss) /\ n < Len(ss) /\ Listed(ss, n, Behind(ss, n))
    BY <1>1, <1>3
  <2>2. Behind(ss, n + 1) = TableStep(Behind(ss, n), ss[n + 1])
    BY <2>1, BehindSteps
  <2> QED BY <2>1, <2>2, StepListed
<1>4. Nat \subseteq S
  <2> HIDE DEF S
  <2> QED BY <1>2, <1>3, SetInduction
<1> QED
  BY <1>1, <1>4

\* More stages leave the tables there are where they are.
LEMMA BehindExtends ==
  ASSUME NEW ss \in Seq(Stage), NEW a \in 0 .. Len(ss), NEW n \in a .. Len(ss)
  PROVE  \A q \in DOMAIN Behind(ss, a) : q \in DOMAIN Behind(ss, n) /\ Behind(ss, n)[q] = Behind(ss, a)[q]
<1> DEFINE Kept(d) == \A q \in DOMAIN Behind(ss, a) : q \in DOMAIN Behind(ss, d) /\ Behind(ss, d)[q] = Behind(ss, a)[q]
           S == {d \in Nat : a + d <= Len(ss) => Kept(a + d)}
<1>1. Len(ss) \in Nat /\ a \in Nat /\ n \in Nat
  BY LenProperties
<1>2. 0 \in S
  BY <1>1
<1>3. ASSUME NEW d \in Nat, d \in S PROVE d + 1 \in S
  <2> SUFFICES ASSUME a + (d + 1) <= Len(ss) PROVE Kept(a + (d + 1))
    OBVIOUS
  <2> DEFINE e == a + d
  <2>1. e \in Nat /\ e \in 0 .. Len(ss) /\ e < Len(ss) /\ Kept(e) /\ a + (d + 1) = e + 1
    BY <1>1, <1>3
  <2> HIDE DEF e
  <2>2. Behind(ss, e + 1) = TableStep(Behind(ss, e), ss[e + 1])
    BY <2>1, BehindSteps
  <2>3. \A q \in DOMAIN Behind(ss, e) : q \in DOMAIN Behind(ss, e + 1) /\ Behind(ss, e + 1)[q] = Behind(ss, e)[q]
    <3>1. Listed(ss, e, Behind(ss, e))
      BY <2>1, BehindListed
    <3> QED BY <2>1, <2>2, <3>1, StepListed
  <2>4. Kept(e + 1)
    BY <2>1, <2>3
  <2> QED BY <2>1, <2>4
<1>4. Nat \subseteq S
  <2> HIDE DEF S
  <2> QED BY <1>2, <1>3, SetInduction
<1>5. n - a \in Nat /\ a + (n - a) = n /\ n <= Len(ss)
  BY <1>1
<1>6. n - a \in S
  BY <1>4, <1>5
<1> QED
  BY <1>5, <1>6

\* Their columns and ids.
LEMMA BehindKnown ==
  ASSUME NEW ss \in Seq(Stage), NEW n \in 0 .. Len(ss)
  PROVE  /\ KnownColumns(Behind(ss, n)) = KnownTo(ss, n)
         /\ {Behind(ss, n)[q].id : q \in DOMAIN Behind(ss, n)} = IdsTo(ss, n)
<1> DEFINE order == Behind(ss, n)
<1>1. Listed(ss, n, order)
  BY BehindListed
<1>2. 1 \in DOMAIN order
  BY <1>1, LenProperties DEF Listed
<1> HIDE DEF order
<1>3. order[1].id = 0 /\ order[1].table = Source
  BY <1>1 DEF Listed
<1>4. \A q \in DOMAIN order : q # 1 => \E m \in JoinsTo(ss, n) : order[q].id = ss[m].id /\ order[q].table = ss[m].right
  BY <1>1 DEF Listed, Entry
<1>5. \A m \in JoinsTo(ss, n) : \E q \in DOMAIN order : order[q].id = ss[m].id /\ order[q].table = ss[m].right
  BY <1>1 DEF Listed, Entry
<1>6. KnownColumns(order) = KnownTo(ss, n)
  <2>1. ASSUME NEW c \in KnownColumns(order) PROVE c \in KnownTo(ss, n)
    <3>1. PICK q \in DOMAIN order : c \in ColumnsOf(order[q].table)
      BY <2>1 DEF KnownColumns
    <3> QED BY <1>3, <1>4, <3>1 DEF KnownTo
  <2>2. ASSUME NEW c \in KnownTo(ss, n) PROVE c \in KnownColumns(order)
    <3>1. \E q \in DOMAIN order : c \in ColumnsOf(order[q].table)
      <4>1. CASE c \in ColumnsOf(Source)
        BY <1>2, <1>3, <4>1
      <4>2. CASE \E m \in JoinsTo(ss, n) : c \in ColumnsOf(ss[m].right)
        BY <1>5, <4>2
      <4> QED BY <2>2, <4>1, <4>2 DEF KnownTo
    <3> QED BY <3>1 DEF KnownColumns
  <2> QED BY <2>1, <2>2
<1>7. {order[q].id : q \in DOMAIN order} = IdsTo(ss, n)
  <2>1. \A q \in DOMAIN order : order[q].id \in IdsTo(ss, n)
    BY <1>3, <1>4 DEF IdsTo
  <2>2. \A i \in IdsTo(ss, n) : \E q \in DOMAIN order : i = order[q].id
    BY <1>2, <1>3, <1>5 DEF IdsTo
  <2> QED BY <2>1, <2>2
<1> QED
  BY <1>6, <1>7 DEF order

\* The table a bare column is read from.
FirstWith(order, c) == order[Min({q \in DOMAIN order : c \in ColumnsOf(order[q].table)})]

\* It is one that has the column, and none is in front of it.
LEMMA FirstHasIt ==
  ASSUME NEW order, NEW X, order \in Seq(X), NEW c \in KnownColumns(order)
  PROVE  LET q == Min({j \in DOMAIN order : c \in ColumnsOf(order[j].table)})
         IN  /\ q \in DOMAIN order /\ c \in ColumnsOf(order[q].table)
             /\ \A j \in DOMAIN order : c \in ColumnsOf(order[j].table) => q <= j
<1> DEFINE T == {j \in DOMAIN order : c \in ColumnsOf(order[j].table)}
<1>1. T # {}
  BY DEF KnownColumns
<1>2. T \subseteq Nat
  BY LenProperties
<1>3. Min(T) \in T /\ \A j \in T : Min(T) <= j
  <2> HIDE DEF T
  <2>1. \E x \in T : \A y \in T : x <= y
    BY <1>1, <1>2, LeastElement
  <2> QED
    BY <2>1 DEF Min
<1> QED
  BY <1>3

\* More stages do not change from where a column is read that was there.
LEMMA FirstStays ==
  ASSUME NEW ss \in Seq(Stage), NEW a \in 0 .. Len(ss), NEW n \in a .. Len(ss), NEW c \in KnownTo(ss, a)
  PROVE  /\ FirstWith(Behind(ss, n), c) = FirstWith(Behind(ss, a), c)
         /\ FirstWith(Behind(ss, a), c).id \in IdsTo(ss, a)
<1> DEFINE u == Behind(ss, a)
           v == Behind(ss, n)
           q == Min({j \in DOMAIN u : c \in ColumnsOf(u[j].table)})
           r == Min({j \in DOMAIN v : c \in ColumnsOf(v[j].table)})
<1>1. Len(ss) \in Nat /\ n \in 0 .. Len(ss)
  BY LenProperties
<1>2. u \in Seq(Scans(ss)) /\ v \in Seq(Scans(ss))
  BY <1>1, BehindListed DEF Listed
<1>3. c \in KnownColumns(u)
  BY BehindKnown
<1>4. \A j \in DOMAIN u : j \in DOMAIN v /\ v[j] = u[j]
  BY BehindExtends
<1>5. c \in KnownColumns(v)
  <2> HIDE DEF u, v
  <2> QED BY <1>3, <1>4 DEF KnownColumns
<1>6. DOMAIN u = 1 .. Len(u) /\ DOMAIN v = 1 .. Len(v) /\ Len(u) \in Nat /\ Len(v) \in Nat
  BY <1>2, LenProperties
<1>7. q \in DOMAIN u /\ c \in ColumnsOf(u[q].table) /\ \A j \in DOMAIN u : c \in ColumnsOf(u[j].table) => q <= j
  BY <1>2, <1>3, FirstHasIt
<1>8. r \in DOMAIN v /\ c \in ColumnsOf(v[r].table) /\ \A j \in DOMAIN v : c \in ColumnsOf(v[j].table) => r <= j
  BY <1>2, <1>5, FirstHasIt
<1>9. u[q].id \in IdsTo(ss, a)
  <2>1. {u[j].id : j \in DOMAIN u} = IdsTo(ss, a)
    BY BehindKnown
  <2> HIDE DEF u, q
  <2> QED BY <1>7, <2>1
<1>10. q = r
  <2> HIDE DEF u, v, q, r
  <2>1. r <= q
    BY <1>4, <1>7, <1>8
  <2>2. r \in DOMAIN u
    BY <1>6, <1>7, <1>8, <2>1
  <2>3. q <= r
    BY <1>4, <1>7, <1>8, <2>2
  <2> QED BY <1>6, <1>7, <1>8, <2>1, <2>3
<1>11. FirstWith(u, c) = u[q] /\ FirstWith(v, c) = v[r]
  BY DEF FirstWith
<1> HIDE DEF u, v, q, r
<1>12. FirstWith(v, c) = FirstWith(u, c) /\ FirstWith(u, c).id \in IdsTo(ss, a)
  BY <1>4, <1>7, <1>9, <1>10, <1>11
<1> QED
  BY <1>12 DEF u, v

\* A column that was not there is read from the join that brought it, if only one did.
LEMMA FirstIsNew ==
  ASSUME NEW ss \in Seq(Stage), NEW a \in 0 .. Len(ss), NEW n \in a .. Len(ss), NEW c, c \notin KnownTo(ss, a),
         NEW m \in JoinsTo(ss, n), c \in ColumnsOf(ss[m].right),
         \A j \in JoinsTo(ss, n) : j > a /\ c \in ColumnsOf(ss[j].right) => j = m
  PROVE  FirstWith(Behind(ss, n), c) = Entry(ss[m])
<1> DEFINE v == Behind(ss, n)
           r == Min({j \in DOMAIN v : c \in ColumnsOf(v[j].table)})
<1>1. Len(ss) \in Nat /\ n \in 0 .. Len(ss) /\ a \in Nat /\ n \in Nat
  BY LenProperties
<1>2. v \in Seq(Scans(ss)) /\ Listed(ss, n, v)
  BY <1>1, BehindListed DEF Listed
<1>3. c \in KnownColumns(v)
  <2>1. c \in KnownTo(ss, n)
    BY DEF KnownTo
  <2> QED BY <1>1, <2>1, BehindKnown
<1>4. r \in DOMAIN v /\ c \in ColumnsOf(v[r].table)
  BY <1>2, <1>3, FirstHasIt
<1>5. FirstWith(v, c) = v[r]
  BY DEF FirstWith
<1> HIDE DEF v, r
<1>6. r # 1
  BY <1>2, <1>4 DEF Listed, KnownTo
<1>7. PICK j \in JoinsTo(ss, n) : v[r] = Entry(ss[j])
  BY <1>2, <1>4, <1>6 DEF Listed
<1>8. c \in ColumnsOf(ss[j].right)
  BY <1>4, <1>7 DEF Entry
<1>9. j > a
  <2>1. j \in 1 .. n
    BY DEF JoinsTo
  <2>2. j <= a => j \in JoinsTo(ss, a)
    BY <1>1, <2>1 DEF JoinsTo
  <2> QED BY <1>1, <1>8, <2>1, <2>2 DEF KnownTo
<1> QED
  BY <1>5, <1>7, <1>8, <1>9 DEF v

\* The rows behind the first stages.
FirstRows == {[i \in {0} |-> r] : r \in DOMAIN RowsOf(Source)}
NextRows(ss, n, rows) ==
  IF IsFilter(ss[n]) THEN Filtered(ss[n], Behind(ss, n - 1), rows)
  ELSE Joined(ss[n], Behind(ss, n - 1), rows)
IsRows(ss, f) == f = [n \in 0 .. Len(ss) |-> IF n = 0 THEN FirstRows ELSE NextRows(ss, n, f[n - 1])]

\* They are defined.
LEMMA RowsExist ==
  ASSUME NEW ss, Len(ss) \in Nat
  PROVE  \E f : IsRows(ss, f)
<1> DEFINE Upto(m, f) == f = [j \in 0 .. m |-> IF j = 0 THEN FirstRows ELSE NextRows(ss, j, f[j - 1])]
           S == {m \in Nat : \E f : Upto(m, f)}
<1>1. 0 \in S
  <2>1. Upto(0, [j \in 0 .. 0 |-> FirstRows])
    OBVIOUS
  <2> HIDE DEF Upto
  <2> QED BY <2>1
<1>2. ASSUME NEW m \in Nat, m \in S PROVE m + 1 \in S
  <2>1. PICK f : Upto(m, f)
    <3> HIDE DEF Upto
    <3> QED BY <1>2
  <2> DEFINE h == [j \in 0 .. m + 1 |-> IF j = m + 1 THEN NextRows(ss, m + 1, f[m]) ELSE f[j]]
  <2>2. \A j \in 0 .. m : f[j] = IF j = 0 THEN FirstRows ELSE NextRows(ss, j, f[j - 1])
    BY <2>1
  <2>3. ASSUME NEW j \in 0 .. m + 1 PROVE h[j] = IF j = 0 THEN FirstRows ELSE NextRows(ss, j, h[j - 1])
    <3>1. CASE j = m + 1
      <4>1. h[j] = NextRows(ss, m + 1, f[m]) /\ h[j - 1] = f[m] /\ j # 0
        BY <3>1
      <4> QED BY <3>1, <4>1
    <3>2. CASE j # m + 1
      <4>1. j \in 0 .. m /\ h[j] = f[j]
        BY <3>2
      <4>2. j # 0 => h[j - 1] = f[j - 1]
        BY <3>2
      <4> QED BY <2>2, <4>1, <4>2
    <3> QED BY <3>1, <3>2
  <2>4. h = [j \in 0 .. m + 1 |-> h[j]]
    OBVIOUS
  <2> HIDE DEF h
  <2>5. Upto(m + 1, h)
    BY <2>3, <2>4, Zenon
  <2> HIDE DEF Upto
  <2> QED BY <2>5
<1>3. Nat \subseteq S
  <2> HIDE DEF S
  <2> QED BY <1>1, <1>2, SetInduction
<1>4. \E f : Upto(Len(ss), f)
  <2> HIDE DEF Upto
  <2> QED BY <1>3
<1> QED BY <1>4 DEF IsRows

\* The answer is the rows behind all stages.
LEMMA RowsUnfold ==
  ASSUME NEW ss, Len(ss) \in Nat
  PROVE  \E f : /\ SqlRows(ss) = f[Len(ss)]
                /\ f[0] = FirstRows
                /\ \A n \in 1 .. Len(ss) : f[n] = NextRows(ss, n, f[n - 1])
<1> DEFINE f == CHOOSE g : IsRows(ss, g)
<1>1. IsRows(ss, f)
  BY RowsExist
<1>2. SqlRows(ss) = f[Len(ss)]
  BY DEF SqlRows, IsRows, FirstRows, NextRows
<1> HIDE DEF f
<1>3. \A n \in 0 .. Len(ss) : f[n] = IF n = 0 THEN FirstRows ELSE NextRows(ss, n, f[n - 1])
  BY <1>1 DEF IsRows
<1>4. f[0] = FirstRows /\ \A n \in 1 .. Len(ss) : f[n] = NextRows(ss, n, f[n - 1])
  BY <1>3
<1> QED
  BY <1>2, <1>4

\* A combination gives each id a row, and part of it some of them.
Combo(x, D) == x = [i \in D |-> x[i]]
Part(x, D) == [i \in D |-> x[i]]
Pairs(st, order, x, r) == \A n \in DOMAIN st.on : On(st.on[n], order, x, st.right, r)
IdsOf(order) == {order[n].id : n \in DOMAIN order}

\* A join that commutes answers its pairs and nothing else.
LEMMA MatchedRows ==
  ASSUME NEW st, Commutative(st), NEW order, NEW combos, NEW z
  PROVE  z \in Joined(st, order, combos) <=>
           \E x \in combos : \E r \in DOMAIN RowsOf(st.right) : Pairs(st, order, x, r) /\ z = With(x, st.id, r)
<1> DEFINE inner == DOMAIN RowsOf(st.right)
           good == {y \in combos \X inner : Pairs(st, order, y[1], y[2])}
<1>1. st.kind \notin {"left", "full"} /\ st.kind \notin {"right", "full"}
  BY DEF Commutative
<1>2. Joined(st, order, combos) = {With(y[1], st.id, y[2]) : y \in good}
  BY <1>1 DEF Joined, Pairs
<1>3. ASSUME NEW y \in good
      PROVE  y[1] \in combos /\ y[2] \in inner /\ Pairs(st, order, y[1], y[2])
  OBVIOUS
<1>4. ASSUME NEW x \in combos, NEW r \in inner, Pairs(st, order, x, r)
      PROVE  \E y \in good : y[1] = x /\ y[2] = r
  <2>1. <<x, r>> \in good /\ <<x, r>>[1] = x /\ <<x, r>>[2] = r
    BY <1>4
  <2> QED BY <2>1
<1> HIDE DEF good, inner
<1>5. z \in Joined(st, order, combos) <=> \E y \in good : z = With(y[1], st.id, y[2])
  BY <1>2
<1>6. (\E y \in good : z = With(y[1], st.id, y[2])) <=>
        \E x \in combos : \E r \in inner : Pairs(st, order, x, r) /\ z = With(x, st.id, r)
  BY <1>3, <1>4
<1> QED
  BY <1>5, <1>6 DEF inner

\* One more row.
LEMMA WithOne ==
  ASSUME NEW D, NEW x, Combo(x, D), NEW id, NEW r
  PROVE  /\ Combo(With(x, id, r), D \cup {id})
         /\ With(x, id, r)[id] = r
         /\ \A i \in D : i # id => With(x, id, r)[i] = x[i]
<1>1. DOMAIN x = D
  BY DEF Combo
<1>2. With(x, id, r) = [i \in D \cup {id} |-> IF i = id THEN r ELSE x[i]]
  BY <1>1 DEF With
<1> DEFINE w == With(x, id, r)
<1> HIDE DEF w
<1>3. w = [i \in D \cup {id} |-> IF i = id THEN r ELSE x[i]]
  BY <1>2 DEF w
<1>4. w = [i \in D \cup {id} |-> w[i]]
  BY <1>3
<1>5. w[id] = r /\ \A i \in D : i # id => w[i] = x[i]
  BY <1>3
<1> QED
  BY <1>4, <1>5 DEF Combo, w

\* A join of combinations answers combinations.
LEMMA JoinedCombos ==
  ASSUME NEW st, NEW order, NEW combos, \A x \in combos : Combo(x, IdsOf(order))
  PROVE  \A z \in Joined(st, order, combos) : Combo(z, IdsOf(order) \cup {st.id})
<1> DEFINE D == IdsOf(order)
           inner == DOMAIN RowsOf(st.right)
<1>1. ASSUME NEW z \in Joined(st, order, combos)
      PROVE  \E x, r : Combo(x, D) /\ z = With(x, st.id, r)
  <2>1. Combo(Nothing(order), D)
    BY DEF Nothing, Combo, IdsOf
  <2> DEFINE good == {y \in combos \X inner : Pairs(st, order, y[1], y[2])}
             lonelyL == {x \in combos : \A r \in inner : ~Pairs(st, order, x, r)}
             lonelyR == {r \in inner : \A x \in combos : ~Pairs(st, order, x, r)}
  <2>2. Joined(st, order, combos) =
          {With(y[1], st.id, y[2]) : y \in good}
            \cup (IF st.kind \in {"left", "full"} THEN {With(x, st.id, 0) : x \in lonelyL} ELSE {})
            \cup (IF st.kind \in {"right", "full"} THEN {With(Nothing(order), st.id, r) : r \in lonelyR} ELSE {})
    BY DEF Joined, Pairs
  <2>3. \A y \in good : y[1] \in combos
    OBVIOUS
  <2>4. lonelyL \subseteq combos
    OBVIOUS
  <2> HIDE DEF D, good, lonelyL, lonelyR
  <2>5. \A x \in combos : Combo(x, D)
    BY DEF D
  <2>6. CASE \E y \in good : z = With(y[1], st.id, y[2])
    BY <2>3, <2>5, <2>6
  <2>7. CASE \E x \in lonelyL : z = With(x, st.id, 0)
    BY <2>4, <2>5, <2>7
  <2>8. CASE \E r \in lonelyR : z = With(Nothing(order), st.id, r)
    BY <2>1, <2>8
  <2> QED
    BY <1>1, <2>2, <2>6, <2>7, <2>8
<1> SUFFICES ASSUME NEW z \in Joined(st, order, combos) PROVE Combo(z, D \cup {st.id})
  OBVIOUS
<1>2. PICK x, r : Combo(x, D) /\ z = With(x, st.id, r)
  BY <1>1
<1> HIDE DEF D
<1> QED
  BY <1>2, WithOne

\* Behind every stage the rows are combinations of the tables there are.
LEMMA RowsAreCombos ==
  ASSUME NEW ss \in Seq(Stage), NEW f, f[0] = FirstRows, \A n \in 1 .. Len(ss) : f[n] = NextRows(ss, n, f[n - 1])
  PROVE  \A n \in 0 .. Len(ss) : \A x \in f[n] : Combo(x, IdsTo(ss, n))
<1> DEFINE Good(n) == \A x \in f[n] : Combo(x, IdsTo(ss, n))
           S == {n \in Nat : n <= Len(ss) => Good(n)}
<1>1. Len(ss) \in Nat /\ \A n \in 1 .. Len(ss) : ss[n] \in Stage
  BY LenProperties, ElementOfSeq
<1>2. 0 \in S
  <2>1. IdsTo(ss, 0) = {0}
    BY DEF IdsTo, JoinsTo
  <2>2. Good(0)
    BY <2>1 DEF FirstRows, Combo
  <2> QED BY <2>2
<1>3. ASSUME NEW n \in Nat, n \in S PROVE n + 1 \in S
  <2> SUFFICES ASSUME n + 1 <= Len(ss) PROVE Good(n + 1)
    OBVIOUS
  <2>1. n + 1 \in 1 .. Len(ss) /\ (n + 1) - 1 = n /\ n \in 0 .. Len(ss) /\ Good(n)
    BY <1>1, <1>3
  <2>2. f[n + 1] = NextRows(ss, n + 1, f[n])
    BY <2>1
  <2> DEFINE st == ss[n + 1]
  <2>3. JoinsTo(ss, n + 1) = JoinsTo(ss, n) \cup (IF IsJoin(st) THEN {n + 1} ELSE {})
    BY DEF JoinsTo
  <2>4. IdsTo(ss, n + 1) = IdsTo(ss, n) \cup (IF IsJoin(st) THEN {st.id} ELSE {})
    BY <2>3 DEF IdsTo
  <2>5. CASE IsFilter(st)
    <3>1. ~IsJoin(st)
      BY <2>5 DEF IsFilter, IsJoin
    <3>2. f[n + 1] \subseteq f[n]
      BY <2>1, <2>2, <2>5 DEF NextRows, Filtered
    <3> QED BY <2>1, <2>4, <3>1, <3>2
  <2>6. CASE ~IsFilter(st)
    <3>1. IsJoin(st)
      BY <1>1, <2>1, <2>6 DEF IsFilter, IsJoin, Stage, JoinStage, FilterStage
    <3>2. f[n + 1] = Joined(st, Behind(ss, n), f[n])
      BY <2>1, <2>2, <2>6 DEF NextRows
    <3>3. IdsOf(Behind(ss, n)) = IdsTo(ss, n)
      BY <2>1, BehindKnown DEF IdsOf
    <3>4. \A z \in f[n + 1] : Combo(z, IdsTo(ss, n) \cup {st.id})
      BY <2>1, <3>2, <3>3, JoinedCombos
    <3> QED BY <2>4, <3>1, <3>4
  <2> QED
    BY <2>5, <2>6
<1>4. Nat \subseteq S
  <2> HIDE DEF S
  <2> QED BY <1>2, <1>3, SetInduction
<1> QED
  BY <1>1, <1>4

\* Columns are read from the same tables in u and v, and the rows x and y have there.
ReadAlike(cols, u, x, v, y) ==
  \A c \in cols : FirstWith(u, c) = FirstWith(v, c) /\ x[FirstWith(u, c).id] = y[FirstWith(u, c).id]

\* Then they have the same values.
LEMMA SameValue ==
  ASSUME NEW cols, NEW u, NEW x, NEW v, NEW y, ReadAlike(cols, u, x, v, y), NEW c \in cols
  PROVE  Value(u, x, c) = Value(v, y, c)
<1> DEFINE a == FirstWith(u, c)
           b == FirstWith(v, c)
<1>1. a = b /\ x[a.id] = y[a.id]
  BY DEF ReadAlike
<1>2. Value(u, x, c) = IF x[a.id] = 0 THEN Null ELSE RowsOf(a.table)[x[a.id]][c]
  BY DEF Value, FirstWith
<1>3. Value(v, y, c) = IF y[b.id] = 0 THEN Null ELSE RowsOf(b.table)[y[b.id]][c]
  BY DEF Value, FirstWith
<1> HIDE DEF a, b
<1> QED
  BY <1>1, <1>2, <1>3

\* And a condition holds of both or of neither.
LEMMA SameOn ==
  ASSUME NEW cond, NEW u, NEW x, NEW v, NEW y, ReadAlike(Mentions(cond), u, x, v, y), NEW t, NEW r
  PROVE  On(cond, u, x, t, r) <=> On(cond, v, y, t, r)
<1>1. cond.l \in Mentions(cond)
  BY DEF Mentions
<1>2. Value(u, x, cond.l) = Value(v, y, cond.l)
  BY <1>1, SameValue
<1>3. cond.form = "pair" => Value(u, x, cond.r) = Value(v, y, cond.r)
  <2> SUFFICES ASSUME cond.form = "pair" PROVE Value(u, x, cond.r) = Value(v, y, cond.r)
    OBVIOUS
  <2>1. cond.r \in Mentions(cond)
    BY DEF Mentions
  <2> QED BY <2>1, SameValue
<1>4. CASE cond.form = "sides"
  <2>1. On(cond, u, x, t, r) = Equal(Value(u, x, cond.l), RowsOf(t)[r][cond.r])
    BY <1>4 DEF On
  <2>2. On(cond, v, y, t, r) = Equal(Value(v, y, cond.l), RowsOf(t)[r][cond.r])
    BY <1>4 DEF On
  <2> QED BY <1>2, <2>1, <2>2
<1>5. CASE cond.form = "pair"
  <2>1. On(cond, u, x, t, r) = Equal(Value(u, x, cond.l), Value(u, x, cond.r))
    BY <1>5 DEF On
  <2>2. On(cond, v, y, t, r) = Equal(Value(v, y, cond.l), Value(v, y, cond.r))
    BY <1>5 DEF On
  <2> QED BY <1>2, <1>3, <1>5, <2>1, <2>2
<1>6. CASE cond.form # "sides" /\ cond.form # "pair"
  <2>1. On(cond, u, x, t, r) = (Value(u, x, cond.l) \notin {0, Null})
    BY <1>6 DEF On
  <2>2. On(cond, v, y, t, r) = (Value(v, y, cond.l) \notin {0, Null})
    BY <1>6 DEF On
  <2> QED BY <1>2, <2>1, <2>2
<1> QED
  BY <1>4, <1>5, <1>6

\* So do all of a join.
LEMMA SamePairs ==
  ASSUME NEW st, NEW u, NEW x, NEW v, NEW y, NEW r,
         \A n \in DOMAIN st.on : ReadAlike(Mentions(st.on[n]), u, x, v, y)
  PROVE  Pairs(st, u, x, r) <=> Pairs(st, v, y, r)
<1>1. \A n \in DOMAIN st.on : On(st.on[n], u, x, st.right, r) <=> On(st.on[n], v, y, st.right, r)
  BY SameOn
<1> QED
  BY <1>1 DEF Pairs

\* Stages a + 1 to e are joins that commute, whose conditions mention columns from in
\* front of them all.
Anchor(ss, a, e) ==
  \A m \in a + 1 .. e : /\ Commutative(ss[m])
                        /\ \A n \in DOMAIN ss[m].on : Mentions(ss[m].on[n]) \subseteq KnownTo(ss, a)

\* A combination of a row of the base with a row of each of the joins, all let through by
\* their conditions.
Combined(ss, a, n, base, x) ==
  /\ Combo(x, IdsTo(ss, n))
  /\ Part(x, IdsTo(ss, a)) \in base
  /\ \A m \in a + 1 .. n : /\ x[ss[m].id] \in DOMAIN RowsOf(ss[m].right)
                           /\ Pairs(ss[m], Behind(ss, a), Part(x, IdsTo(ss, a)), x[ss[m].id])

AllCombined(ss, a, n, base, rows) == \A x : x \in rows <=> Combined(ss, a, n, base, x)

\* The ids grow by the join's, which is new.
LEMMA IdsGrow ==
  ASSUME NEW ss, Sound(ss), NEW n \in Nat, n < Len(ss), IsJoin(ss[n + 1])
  PROVE  /\ IdsTo(ss, n + 1) = IdsTo(ss, n) \cup {ss[n + 1].id}
         /\ ss[n + 1].id \notin IdsTo(ss, n)
<1>1. /\ Len(ss) \in Nat /\ DOMAIN ss = 1 .. Len(ss) /\ \A m \in 1 .. Len(ss) : ss[m] \in Stage
      /\ n + 1 \in 1 .. Len(ss)
  BY LenProperties, ElementOfSeq DEF Sound
<1>2. JoinsTo(ss, n + 1) = JoinsTo(ss, n) \cup {n + 1}
  BY DEF JoinsTo
<1>3. ss[n + 1].id # 0
  <2>1. ss[n + 1].id \in Nat \ {0}
    BY <1>1 DEF Stage, JoinStage, FilterStage
  <2> QED BY <2>1
<1>4. ASSUME NEW m \in JoinsTo(ss, n) PROVE ss[m].id # ss[n + 1].id
  <2>1. m \in 1 .. Len(ss) /\ m # n + 1
    BY <1>1 DEF JoinsTo
  <2> QED BY <1>1, <2>1 DEF Sound
<1> QED
  BY <1>2, <1>3, <1>4 DEF IdsTo

\* Earlier ids and columns are among later ones.
LEMMA ToGrows ==
  ASSUME NEW ss, NEW a \in Nat, NEW n \in Nat, a <= n
  PROVE  IdsTo(ss, a) \subseteq IdsTo(ss, n) /\ KnownTo(ss, a) \subseteq KnownTo(ss, n)
<1>1. JoinsTo(ss, a) \subseteq JoinsTo(ss, n)
  BY DEF JoinsTo
<1> QED
  BY <1>1 DEF IdsTo, KnownTo

\* What a condition reads in front of a chain it reads in the chain.
LEMMA ReadInFront ==
  ASSUME NEW ss \in Seq(Stage), NEW a \in 0 .. Len(ss), NEW n \in a .. Len(ss), NEW x,
         NEW cols, cols \subseteq KnownTo(ss, a)
  PROVE  ReadAlike(cols, Behind(ss, n), x, Behind(ss, a), Part(x, IdsTo(ss, a)))
<1> SUFFICES ASSUME NEW c \in cols
             PROVE  /\ FirstWith(Behind(ss, n), c) = FirstWith(Behind(ss, a), c)
                    /\ x[FirstWith(Behind(ss, n), c).id] = Part(x, IdsTo(ss, a))[FirstWith(Behind(ss, n), c).id]
  BY DEF ReadAlike
<1>1. c \in KnownTo(ss, a)
  OBVIOUS
<1>2. FirstWith(Behind(ss, n), c) = FirstWith(Behind(ss, a), c) /\ FirstWith(Behind(ss, a), c).id \in IdsTo(ss, a)
  BY <1>1, FirstStays
<1> QED
  BY <1>2 DEF Part

\* One more join of a chain combines one more table.
LEMMA CombinedStep ==
  ASSUME NEW ss, Sound(ss), NEW a \in 0 .. Len(ss), NEW n \in a .. Len(ss), n < Len(ss), Anchor(ss, a, n + 1),
         NEW base, NEW rows, AllCombined(ss, a, n, base, rows)
  PROVE  AllCombined(ss, a, n + 1, base, Joined(ss[n + 1], Behind(ss, n), rows))
<1> DEFINE st == ss[n + 1]
           D == IdsTo(ss, n)
           A == IdsTo(ss, a)
<1>1. /\ Len(ss) \in Nat /\ a \in Nat /\ n \in Nat /\ ss \in Seq(Stage) /\ n + 1 \in a + 1 .. n + 1
      /\ n + 1 \in 1 .. Len(ss) /\ a <= n
  BY LenProperties DEF Sound
<1>2. Commutative(st) /\ IsJoin(st)
  BY <1>1 DEF Anchor, Commutative
<1>3. IdsTo(ss, n + 1) = D \cup {st.id} /\ st.id \notin D
  BY <1>1, <1>2, IdsGrow
<1>4. A \subseteq D
  BY <1>1, ToGrows
<1>5. \A j \in DOMAIN st.on : Mentions(st.on[j]) \subseteq KnownTo(ss, a)
  BY <1>1 DEF Anchor
<1>6. \A m \in a + 1 .. n : ss[m].id \in D /\ m \in a + 1 .. n + 1
  <2> SUFFICES ASSUME NEW m \in a + 1 .. n PROVE ss[m].id \in D /\ m \in a + 1 .. n + 1
    OBVIOUS
  <2>1. m \in 1 .. n /\ m \in a + 1 .. n + 1
    BY <1>1
  <2>2. IsJoin(ss[m])
    BY <2>1 DEF Anchor, Commutative
  <2> QED BY <2>1, <2>2 DEF IdsTo, JoinsTo
<1>7. ASSUME NEW x, NEW r PROVE Pairs(st, Behind(ss, n), x, r) <=> Pairs(st, Behind(ss, a), Part(x, A), r)
  <2>1. \A j \in DOMAIN st.on : ReadAlike(Mentions(st.on[j]), Behind(ss, n), x, Behind(ss, a), Part(x, A))
    BY <1>1, <1>5, ReadInFront
  <2> QED BY <2>1, SamePairs
<1>8. a + 1 .. n + 1 = (a + 1 .. n) \cup {n + 1}
  BY <1>1
<1> HIDE DEF st, D, A
<1>9. ASSUME NEW z, NEW x \in rows, NEW r \in DOMAIN RowsOf(st.right), Pairs(st, Behind(ss, n), x, r), z = With(x, st.id, r)
      PROVE  Combined(ss, a, n + 1, base, z)
  <2>1. Combined(ss, a, n, base, x)
    BY DEF AllCombined
  <2>2. Combo(x, D)
    BY <2>1 DEF Combined, D
  <2>3. Combo(z, D \cup {st.id}) /\ z[st.id] = r /\ \A i \in D : i # st.id => z[i] = x[i]
    <3> DEFINE w == With(x, st.id, r)
    <3> DEFINE i0 == st.id
    <3> HIDE DEF i0
    <3>1. Combo(With(x, i0, r), D \cup {i0})
      BY <2>2, WithOne
    <3>2. With(x, i0, r)[i0] = r
      BY DEF With
    <3>3. \A i \in D : i # i0 => With(x, i0, r)[i] = x[i]
      BY <2>2, <3>1, WithOne
    <3>4. Combo(w, D \cup {st.id}) /\ w[st.id] = r /\ \A i \in D : i # st.id => w[i] = x[i]
      BY <3>1, <3>2, <3>3 DEF i0
    <3> HIDE DEF w
    <3>5. z = w
      BY <1>9 DEF w
    <3> QED BY <3>4, <3>5
  <2>4. \A i \in D : z[i] = x[i]
    BY <1>3, <2>3
  <2>5. Part(z, A) = Part(x, A)
    BY <1>4, <2>4 DEF Part
  <2>6. Part(x, A) \in base
    BY <2>1 DEF Combined, A
  <2>7. ASSUME NEW m \in a + 1 .. n
        PROVE  /\ z[ss[m].id] \in DOMAIN RowsOf(ss[m].right)
               /\ Pairs(ss[m], Behind(ss, a), Part(z, A), z[ss[m].id])
    <3>1. x[ss[m].id] \in DOMAIN RowsOf(ss[m].right) /\ Pairs(ss[m], Behind(ss, a), Part(x, A), x[ss[m].id])
      BY <2>1, <2>7 DEF Combined, A
    <3> QED BY <1>6, <2>4, <2>5, <3>1
  <2>8. z[st.id] \in DOMAIN RowsOf(st.right) /\ Pairs(st, Behind(ss, a), Part(z, A), z[st.id])
    BY <1>7, <1>9, <2>3, <2>5
  <2>9. \A m \in a + 1 .. n + 1 : /\ z[ss[m].id] \in DOMAIN RowsOf(ss[m].right)
                                  /\ Pairs(ss[m], Behind(ss, a), Part(z, A), z[ss[m].id])
    BY <1>8, <2>7, <2>8 DEF st
  <2> QED
    BY <1>3, <2>3, <2>5, <2>6, <2>9 DEF Combined, A
<1>10. ASSUME NEW z, Combined(ss, a, n + 1, base, z)
       PROVE  \E x \in rows : \E r \in DOMAIN RowsOf(st.right) : Pairs(st, Behind(ss, n), x, r) /\ z = With(x, st.id, r)
  <2> DEFINE x == Part(z, D)
             r == z[st.id]
  <2>1. Combo(z, D \cup {st.id}) /\ Part(z, A) \in base
    BY <1>3, <1>10 DEF Combined, A
  <2>2. Combo(x, D) /\ DOMAIN x = D /\ \A i \in D : x[i] = z[i]
    BY DEF Combo, Part
  <2>3. Part(x, A) = Part(z, A)
    BY <1>4, <2>2 DEF Part
  <2>4. ASSUME NEW m \in a + 1 .. n
        PROVE  /\ x[ss[m].id] \in DOMAIN RowsOf(ss[m].right)
               /\ Pairs(ss[m], Behind(ss, a), Part(x, A), x[ss[m].id])
    <3>1. z[ss[m].id] \in DOMAIN RowsOf(ss[m].right) /\ Pairs(ss[m], Behind(ss, a), Part(z, A), z[ss[m].id])
      BY <1>6, <1>10, <2>4 DEF Combined, A
    <3> QED BY <1>6, <2>2, <2>3, <3>1
  <2> HIDE DEF x
  <2>5. Combined(ss, a, n, base, x)
    BY <2>1, <2>2, <2>3, <2>4 DEF Combined, A, D
  <2>6. x \in rows
    BY <2>5 DEF AllCombined
  <2>7. r \in DOMAIN RowsOf(st.right) /\ Pairs(st, Behind(ss, a), Part(z, A), r)
    BY <1>1, <1>10 DEF Combined, A, st
  <2>8. Pairs(st, Behind(ss, n), x, r)
    BY <1>7, <2>3, <2>7
  <2>9. z = With(x, st.id, r)
    <3>1. With(x, st.id, r) = [i \in D \cup {st.id} |-> IF i = st.id THEN r ELSE x[i]]
      BY <2>2 DEF With
    <3>2. z = [i \in D \cup {st.id} |-> z[i]]
      BY <2>1 DEF Combo
    <3>3. \A i \in D \cup {st.id} : z[i] = IF i = st.id THEN r ELSE x[i]
      BY <2>2
    <3>4. [i \in D \cup {st.id} |-> z[i]] = [i \in D \cup {st.id} |-> IF i = st.id THEN r ELSE x[i]]
      BY <3>3
    <3> QED BY <3>1, <3>2, <3>4
  <2> QED
    BY <2>6, <2>7, <2>8, <2>9
<1>11. \A z : z \in Joined(st, Behind(ss, n), rows) <=>
               \E x \in rows : \E r \in DOMAIN RowsOf(st.right) : Pairs(st, Behind(ss, n), x, r) /\ z = With(x, st.id, r)
  BY <1>2, MatchedRows
<1>12. \A z : z \in Joined(st, Behind(ss, n), rows) <=> Combined(ss, a, n + 1, base, z)
  BY <1>9, <1>10, <1>11
<1> QED
  BY <1>12 DEF st, AllCombined

\* The rows behind a chain of such joins are all combinations that the conditions let
\* through.
LEMMA ChainRows ==
  ASSUME NEW ss, Sound(ss), NEW a \in 0 .. Len(ss), NEW e \in a .. Len(ss), Anchor(ss, a, e),
         NEW f, f[0] = FirstRows, \A n \in 1 .. Len(ss) : f[n] = NextRows(ss, n, f[n - 1])
  PROVE  AllCombined(ss, a, e, f[a], f[e])
<1> DEFINE Good(n) == AllCombined(ss, a, n, f[a], f[n])
           S == {d \in Nat : a + d <= e => Good(a + d)}
<1>1. Len(ss) \in Nat /\ a \in Nat /\ e \in Nat /\ ss \in Seq(Stage) /\ a <= e /\ e <= Len(ss)
  BY LenProperties DEF Sound
<1>2. 0 \in S
  <2>1. \A x \in f[a] : Combo(x, IdsTo(ss, a))
    BY <1>1, RowsAreCombos
  <2>2. a + 1 .. a = {} /\ a + 0 = a
    BY <1>1
  <2>3. Good(a)
    BY <2>1, <2>2 DEF AllCombined, Combined, Combo, Part
  <2> QED BY <2>2, <2>3
<1>3. ASSUME NEW d \in Nat, d \in S PROVE d + 1 \in S
  <2> SUFFICES ASSUME a + (d + 1) <= e PROVE Good(a + (d + 1))
    OBVIOUS
  <2> DEFINE n == a + d
  <2>1. /\ n \in Nat /\ n \in a .. Len(ss) /\ n < Len(ss) /\ n + 1 \in 1 .. Len(ss) /\ (n + 1) - 1 = n
        /\ a + (d + 1) = n + 1 /\ n + 1 <= e /\ Good(n)
    BY <1>1, <1>3
  <2> HIDE DEF n
  <2>2. Anchor(ss, a, n + 1)
    <3>1. \A m \in a + 1 .. n + 1 : m \in a + 1 .. e
      BY <1>1, <2>1
    <3> QED BY <3>1 DEF Anchor
  <2>3. ~IsFilter(ss[n + 1])
    BY <1>1, <2>1, <2>2 DEF Anchor, Commutative, IsJoin, IsFilter
  <2>4. f[n + 1] = Joined(ss[n + 1], Behind(ss, n), f[n])
    BY <2>1, <2>3 DEF NextRows
  <2>5. Good(n + 1)
    BY <2>1, <2>2, <2>4, CombinedStep
  <2> QED BY <2>1, <2>5
<1>4. Nat \subseteq S
  <2> HIDE DEF S
  <2> QED BY <1>2, <1>3, SetInduction
<1>5. e - a \in Nat /\ a + (e - a) = e
  BY <1>1
<1>6. e - a \in S
  <2> HIDE DEF S
  <2> QED BY <1>4, <1>5
<1> QED
  BY <1>1, <1>5, <1>6

-----------------------------------------------------------------------------
(* The rows behind reordered joins *)

\* p says where the stages were, and what they have crossed.
Moved(p) ==
  /\ orig \in Pipelines /\ stages \in Seq(Stage) /\ Len(stages) = Len(orig)
  /\ p \in Orders(Len(orig))
  /\ \A n \in 1 .. Len(orig) : Like(stages[n], orig[p[n]]) /\ Crossable(n, p[n])

\* Between stages n and n + 1 no join moves.
IsCut(n) ==
  /\ n \in 0 .. Len(orig)
  /\ 0 < n /\ n < Len(orig) => ~(Commutative(orig[n]) /\ Commutative(orig[n + 1]))

\* Both pipelines have stages with ids of their own.
LEMMA BothSound ==
  ASSUME NEW p, Moved(p)
  PROVE  Sound(orig) /\ Sound(stages) /\ Len(orig) \in Nat /\ DOMAIN stages = 1 .. Len(orig) /\ DOMAIN orig = 1 .. Len(orig)
<1>1. /\ orig \in Seq(Stage) /\ Len(orig) \in Nat /\ DOMAIN orig = 1 .. Len(orig)
      /\ \A m, n \in 1 .. Len(orig) : orig[m].id = orig[n].id => m = n
  BY PipelineShape DEF Moved
<1>2. DOMAIN stages = 1 .. Len(orig) /\ stages \in Seq(Stage)
  BY LenProperties DEF Moved
<1>3. \A n \in 1 .. Len(orig) : p[n] \in 1 .. Len(orig) /\ stages[n].id = orig[p[n]].id
  <2>1. \A n \in 1 .. Len(orig) : p[n] \in 1 .. Len(orig)
    BY <1>1, OrderProperties DEF Moved
  <2>2. \A n \in 1 .. Len(orig) : Like(stages[n], orig[p[n]])
    BY DEF Moved
  <2> QED BY <2>1, <2>2, LikeStages
<1>4. \A m, n \in 1 .. Len(orig) : p[m] = p[n] => m = n
  BY <1>1, OrderProperties DEF Moved
<1>5. ASSUME NEW m \in 1 .. Len(orig), NEW n \in 1 .. Len(orig), stages[m].id = stages[n].id PROVE m = n
  BY <1>1, <1>3, <1>4, <1>5
<1> QED
  BY <1>1, <1>2, <1>5 DEF Sound

\* No stage has crossed a cut.
LEMMA CutHolds ==
  ASSUME NEW p, Moved(p), NEW c, IsCut(c), NEW n \in 1 .. Len(orig)
  PROVE  p[n] \in 1 .. Len(orig) /\ (n <= c <=> p[n] <= c)
<1>1. Len(orig) \in Nat /\ p[n] \in 1 .. Len(orig) /\ Crossable(n, p[n]) /\ c \in 0 .. Len(orig)
  BY BothSound, OrderProperties DEF Moved, IsCut
<1>2. ASSUME n <= c, c < p[n] PROVE FALSE
  <2>1. n # p[n] /\ 0 < c /\ c < Len(orig) /\ c \in 1 .. Len(orig) /\ c + 1 \in 1 .. Len(orig)
    BY <1>1, <1>2
  <2>2. n <= c /\ c <= p[n] /\ n <= c + 1 /\ c + 1 <= p[n]
    BY <1>1, <1>2
  <2>3. Commutative(orig[c]) /\ Commutative(orig[c + 1])
    BY <1>1, <2>1, <2>2 DEF Crossable
  <2> QED BY <2>1, <2>3 DEF IsCut
<1>3. ASSUME p[n] <= c, c < n PROVE FALSE
  <2>1. n # p[n] /\ 0 < c /\ c < Len(orig) /\ c \in 1 .. Len(orig) /\ c + 1 \in 1 .. Len(orig)
    BY <1>1, <1>3
  <2>2. p[n] <= c /\ c <= n /\ p[n] <= c + 1 /\ c + 1 <= n
    BY <1>1, <1>3
  <2>3. Commutative(orig[c]) /\ Commutative(orig[c + 1])
    BY <1>1, <2>1, <2>2 DEF Crossable
  <2> QED BY <2>1, <2>3 DEF IsCut
<1> QED
  BY <1>1, <1>2, <1>3

\* Each stage before a cut is like one before it in the other pipeline.
LEMMA CutMatches ==
  ASSUME NEW p, Moved(p), NEW c, IsCut(c)
  PROVE  /\ \A n \in 1 .. c : p[n] \in 1 .. c /\ Like(stages[n], orig[p[n]])
         /\ \A m \in 1 .. c : \E n \in 1 .. c : p[n] = m /\ Like(stages[n], orig[m])
<1>1. Len(orig) \in Nat /\ c \in 0 .. Len(orig)
  BY BothSound DEF IsCut
<1>2. \A n \in 1 .. Len(orig) : p[n] \in 1 .. Len(orig) /\ (n <= c <=> p[n] <= c) /\ Like(stages[n], orig[p[n]])
  BY CutHolds DEF Moved
<1>3. \A m \in 1 .. Len(orig) : \E n \in 1 .. Len(orig) : p[n] = m
  BY <1>1, OrderProperties DEF Moved
<1>4. ASSUME NEW n \in 1 .. c PROVE p[n] \in 1 .. c /\ Like(stages[n], orig[p[n]])
  <2>1. n \in 1 .. Len(orig) /\ n <= c
    BY <1>1
  <2> QED BY <1>1, <1>2, <2>1
<1>5. ASSUME NEW m \in 1 .. c PROVE \E n \in 1 .. c : p[n] = m /\ Like(stages[n], orig[m])
  <2>1. m \in 1 .. Len(orig) /\ m <= c
    BY <1>1
  <2>2. PICK n \in 1 .. Len(orig) : p[n] = m
    BY <1>3, <2>1
  <2>3. n \in 1 .. c
    BY <1>1, <1>2, <2>1, <2>2
  <2> QED BY <1>2, <2>2, <2>3
<1> QED
  BY <1>4, <1>5

\* A join and what it was.
LEMMA LikeJoins ==
  ASSUME NEW s, NEW t, Like(s, t)
  PROVE  /\ IsJoin(s) <=> IsJoin(t)
         /\ IsFilter(s) <=> ~IsJoin(s)
         /\ s.id = t.id
         /\ IsJoin(s) => s.right = t.right /\ s.on = t.on /\ s.kind = t.kind
<1>1. CASE SameJoin(s, t)
  BY <1>1 DEF SameJoin, JoinStage, IsJoin, IsFilter
<1>2. CASE SameFilter(s, t)
  BY <1>2 DEF SameFilter, FilterStage, IsJoin, IsFilter
<1> QED
  BY <1>1, <1>2 DEF Like

\* So the tables before a cut are the same.
LEMMA CutSets ==
  ASSUME NEW p, Moved(p), NEW c, IsCut(c)
  PROVE  IdsTo(stages, c) = IdsTo(orig, c) /\ KnownTo(stages, c) = KnownTo(orig, c)
<1>1. \A n \in JoinsTo(stages, c) : \E m \in JoinsTo(orig, c) : stages[n].id = orig[m].id /\ stages[n].right = orig[m].right
  BY CutMatches, LikeJoins DEF JoinsTo
<1>2. \A m \in JoinsTo(orig, c) : \E n \in JoinsTo(stages, c) : stages[n].id = orig[m].id /\ stages[n].right = orig[m].right
  <2> SUFFICES ASSUME NEW m \in JoinsTo(orig, c)
               PROVE  \E n \in JoinsTo(stages, c) : stages[n].id = orig[m].id /\ stages[n].right = orig[m].right
    OBVIOUS
  <2>1. m \in 1 .. c /\ IsJoin(orig[m])
    BY DEF JoinsTo
  <2>2. PICK n \in 1 .. c : Like(stages[n], orig[m])
    BY <2>1, CutMatches
  <2>3. IsJoin(stages[n]) /\ stages[n].id = orig[m].id /\ stages[n].right = orig[m].right
    BY <2>1, <2>2, LikeJoins
  <2> QED BY <2>3 DEF JoinsTo
<1>3. IdsTo(stages, c) = IdsTo(orig, c)
  BY <1>1, <1>2 DEF IdsTo
<1>4. KnownTo(stages, c) = KnownTo(orig, c)
  <2>1. ASSUME NEW x PROVE x \in KnownTo(stages, c) <=> x \in KnownTo(orig, c)
    <3>1. x \in KnownTo(stages, c) <=> x \in ColumnsOf(Source) \/ \E n \in JoinsTo(stages, c) : x \in ColumnsOf(stages[n].right)
      BY DEF KnownTo
    <3>2. x \in KnownTo(orig, c) <=> x \in ColumnsOf(Source) \/ \E n \in JoinsTo(orig, c) : x \in ColumnsOf(orig[n].right)
      BY DEF KnownTo
    <3> QED BY <1>1, <1>2, <3>1, <3>2
  <2> QED BY <2>1
<1> QED
  BY <1>3, <1>4

\* Between two cuts with none between them there is one stage or a chain.
Gap(a, e) == IsCut(a) /\ IsCut(e) /\ a < e /\ \A n \in a + 1 .. e - 1 : ~IsCut(n)

\* If there are more, they are a chain of the model.
LEMMA GapChain ==
  ASSUME orig \in Pipelines, NEW a, NEW e, Gap(a, e), a + 1 < e
  PROVE  /\ a + 1 \in Chains
         /\ JoinChain(orig, a + 1) \in Seq(Stage) /\ Len(JoinChain(orig, a + 1)) = e - a
         /\ DOMAIN JoinChain(orig, a + 1) = 1 .. e - a
         /\ \A j \in 1 .. e - a : JoinChain(orig, a + 1)[j] = orig[a + j]
         /\ \A m \in a + 1 .. e : Commutative(orig[m])
<1>1. Len(orig) \in Nat /\ orig \in Seq(Stage) /\ DOMAIN orig = 1 .. Len(orig)
  BY PipelineShape
<1>2. a \in 0 .. Len(orig) /\ e \in 0 .. Len(orig) /\ a \in Nat /\ e \in Nat /\ a + 1 \in 1 .. Len(orig)
  BY <1>1 DEF Gap, IsCut
<1>3. \A n \in a + 1 .. e - 1 : Commutative(orig[n]) /\ Commutative(orig[n + 1])
  <2> SUFFICES ASSUME NEW n \in a + 1 .. e - 1 PROVE Commutative(orig[n]) /\ Commutative(orig[n + 1])
    OBVIOUS
  <2>1. ~IsCut(n) /\ n \in 0 .. Len(orig)
    BY <1>1, <1>2 DEF Gap
  <2> QED BY <2>1 DEF IsCut
<1>4. \A m \in a + 1 .. e : Commutative(orig[m])
  <2> SUFFICES ASSUME NEW m \in a + 1 .. e PROVE Commutative(orig[m])
    OBVIOUS
  <2>1. CASE m \in a + 1 .. e - 1
    BY <1>3, <2>1
  <2>2. CASE m = e
    <3>1. e - 1 \in a + 1 .. e - 1 /\ (e - 1) + 1 = e
      BY <1>2
    <3> QED BY <1>3, <2>2, <3>1
  <2> QED BY <1>2, <2>1, <2>2
<1>5. 0 < a => ~Commutative(orig[a])
  <2>1. a < Len(orig) /\ a + 1 \in a + 1 .. e /\ IsCut(a)
    BY <1>1, <1>2 DEF Gap
  <2> QED BY <1>2, <1>4, <2>1 DEF IsCut
<1>6. e < Len(orig) => ~Commutative(orig[e + 1])
  <2>1. 0 < e /\ e \in a + 1 .. e /\ IsCut(e)
    BY <1>1, <1>2 DEF Gap
  <2> QED BY <1>2, <1>4, <2>1 DEF IsCut
<1> DEFINE z == ChainEnd(orig, a + 1)
<1>7. /\ z \in (a + 1) - 1 .. Len(orig)
      /\ \A n \in a + 1 .. z : Commutative(orig[n])
      /\ z < Len(orig) => ~Commutative(orig[z + 1])
  BY <1>1, <1>2, ChainEndOfRun
<1> HIDE DEF z
<1>8. z = e
  <2>1. ASSUME z < e PROVE FALSE
    <3>1. z < Len(orig) /\ z + 1 \in a + 1 .. e
      BY <1>1, <1>2, <1>7, <2>1
    <3> QED BY <1>4, <1>7, <3>1
  <2>2. ASSUME e < z PROVE FALSE
    <3>1. e < Len(orig) /\ e + 1 \in a + 1 .. z
      BY <1>1, <1>2, <1>7, <2>2
    <3> QED BY <1>6, <1>7, <3>1
  <2> QED BY <1>1, <1>2, <1>7, <2>1, <2>2
<1>9. JoinChain(orig, a + 1) = SubSeq(orig, a + 1, e)
  BY <1>8 DEF JoinChain, z
<1>10. /\ SubSeq(orig, a + 1, e) \in Seq(Stage) /\ Len(SubSeq(orig, a + 1, e)) = e - a
       /\ \A j \in 1 .. e - a : SubSeq(orig, a + 1, e)[j] = orig[a + j]
  <2>1. a + 1 \in 1 .. Len(orig) + 1 /\ e \in a .. Len(orig) /\ e - (a + 1) + 1 = e - a
    BY <1>1, <1>2
  <2>2. Len(SubSeq(orig, a + 1, e)) = e - a
    BY <1>1, <2>1, SubSeqProperties
  <2>3. \A j \in 1 .. e - a : (a + 1) + j - 1 = a + j
    BY <1>2
  <2>4. \A j \in 1 .. e - a : SubSeq(orig, a + 1, e)[j] = orig[a + j]
    BY <1>1, <2>1, <2>2, <2>3, SubSeqProperties
  <2>5. SubSeq(orig, a + 1, e) \in Seq(Stage)
    BY <1>1, <2>1, SubSeqProperties
  <2> QED BY <2>2, <2>4, <2>5
<1>11. DOMAIN JoinChain(orig, a + 1) = 1 .. e - a /\ JoinChain(orig, a + 1) # <<>>
  <2>1. e - a \in Nat \ {0}
    BY <1>2
  <2> QED BY <1>9, <1>10, <2>1, LenProperties
<1>12. a + 1 \in Chains
  <2>1. a + 1 = 1 \/ ~Commutative(orig[(a + 1) - 1])
    <3>1. (a + 1) - 1 = a
      BY <1>2
    <3> QED BY <1>2, <1>5, <3>1
  <2> QED BY <1>1, <1>2, <1>11, <2>1 DEF Chains
<1> QED
  BY <1>4, <1>9, <1>10, <1>11, <1>12

\* The columns a stage reads.
MentionedBy(st) ==
  IF IsFilter(st) THEN {st.conds[m].col : m \in DOMAIN st.conds}
  ELSE UNION {Mentions(st.on[m]) : m \in DOMAIN st.on}

\* A stage reads what it read before.
LEMMA LikeMentions ==
  ASSUME NEW s, NEW t, Like(s, t)
  PROVE  MentionedBy(s) = MentionedBy(t)
<1>1. CASE SameJoin(s, t)
  <2>1. ~IsFilter(s) /\ ~IsFilter(t) /\ s.on = t.on
    BY <1>1 DEF SameJoin, JoinStage, IsFilter
  <2> QED BY <2>1 DEF MentionedBy
<1>2. CASE SameFilter(s, t)
  <2>1. IsFilter(s) /\ IsFilter(t) /\ Rearranged(s.conds, t.conds)
    BY <1>2 DEF SameFilter, FilterStage, IsFilter
  <2>2. PICK q \in [DOMAIN t.conds -> DOMAIN t.conds] :
          Range(q) = DOMAIN t.conds /\ s.conds = [n \in DOMAIN t.conds |-> t.conds[q[n]]]
    BY <2>1 DEF Rearranged
  <2>3. \A m \in DOMAIN s.conds : \E n \in DOMAIN t.conds : s.conds[m].col = t.conds[n].col
    BY <2>2
  <2>4. \A n \in DOMAIN t.conds : \E m \in DOMAIN s.conds : s.conds[m].col = t.conds[n].col
    <3>1. \A n \in DOMAIN t.conds : \E m \in DOMAIN t.conds : q[m] = n
      BY <2>2 DEF Range
    <3> QED BY <2>2, <3>1
  <2>5. {s.conds[m].col : m \in DOMAIN s.conds} = {t.conds[m].col : m \in DOMAIN t.conds}
    BY <2>3, <2>4
  <2> QED BY <2>1, <2>5 DEF MentionedBy
<1> QED
  BY <1>1, <1>2 DEF Like

\* A pipeline resolves if each stage reads columns there are.
LEMMA ResolvesMentions ==
  ASSUME NEW ss \in Seq(Stage)
  PROVE  Resolves(ss) <=> \A n \in 1 .. Len(ss) : MentionedBy(ss[n]) \subseteq KnownTo(ss, n - 1)
<1>1. Len(ss) \in Nat /\ DOMAIN ss = 1 .. Len(ss)
  BY LenProperties
<1>2. ASSUME NEW n \in DOMAIN ss
      PROVE  KnownColumns(Behind(ss, n - 1)) = KnownTo(ss, n - 1)
  <2>1. n - 1 \in 0 .. Len(ss)
    BY <1>1
  <2> QED BY <2>1, BehindKnown
<1>3. Resolves(ss) <=>
        \A n \in DOMAIN ss :
          IF IsFilter(ss[n]) THEN \A m \in DOMAIN ss[n].conds : ss[n].conds[m].col \in KnownTo(ss, n - 1)
          ELSE \A m \in DOMAIN ss[n].on : Mentions(ss[n].on[m]) \subseteq KnownTo(ss, n - 1)
  BY <1>2 DEF Resolves
<1>4. ASSUME NEW n \in DOMAIN ss
      PROVE  (IF IsFilter(ss[n]) THEN \A m \in DOMAIN ss[n].conds : ss[n].conds[m].col \in KnownTo(ss, n - 1)
              ELSE \A m \in DOMAIN ss[n].on : Mentions(ss[n].on[m]) \subseteq KnownTo(ss, n - 1))
             <=> MentionedBy(ss[n]) \subseteq KnownTo(ss, n - 1)
  BY DEF MentionedBy
<1> QED
  BY <1>1, <1>3, <1>4

\* A column of a chain's tables that no two of them have, or that is there before.
Lone(c, a, e) ==
  \/ c \in KnownTo(orig, a)
  \/ \A x, y \in a + 1 .. e : c \in ColumnsOf(orig[x].right) /\ c \in ColumnsOf(orig[y].right) => x = y

\* The columns behind n stages that no chain among them has twice.
Clean(n) ==
  {c \in KnownTo(orig, n) : \A a, e \in 0 .. n : Gap(a, e) /\ a + 1 < e => Lone(c, a, e)}

\* What a chain's conditions mention is there before the chain.
LEMMA AnchoredMentions ==
  ASSUME orig \in Pipelines, Anchored, NEW a, NEW e, Gap(a, e), a + 1 < e, NEW m \in a + 1 .. e
  PROVE  MentionedBy(orig[m]) \subseteq KnownTo(orig, a)
<1>1. Len(orig) \in Nat /\ orig \in Seq(Stage) /\ a \in 0 .. Len(orig) /\ e \in 0 .. Len(orig)
  BY PipelineShape DEF Gap, IsCut
<1>2. /\ a + 1 \in Chains /\ DOMAIN JoinChain(orig, a + 1) = 1 .. e - a
      /\ \A j \in 1 .. e - a : JoinChain(orig, a + 1)[j] = orig[a + j]
      /\ Commutative(orig[m])
  BY GapChain
<1>3. m - a \in 1 .. e - a /\ a + (m - a) = m /\ (a + 1) - 1 = a
  BY <1>1
<1>4. JoinChain(orig, a + 1)[m - a] = orig[m]
  BY <1>2, <1>3
<1>5. \A n \in DOMAIN orig[m].on : Mentions(orig[m].on[n]) \subseteq KnownColumns(Behind(orig, a))
  BY <1>2, <1>3, <1>4 DEF Anchored
<1>6. KnownColumns(Behind(orig, a)) = KnownTo(orig, a)
  BY <1>1, BehindKnown
<1>7. ~IsFilter(orig[m])
  BY <1>2 DEF Commutative, IsJoin, IsFilter
<1> QED
  BY <1>5, <1>6, <1>7 DEF MentionedBy

\* What a stage reads, no chain before it has twice.
LEMMA CleanMentions ==
  ASSUME orig \in Pipelines, NoClash, NEW b, IsCut(b), NEW n \in 1 .. Len(orig), b < n,
         NEW c \in MentionedBy(orig[n]), c \in KnownTo(orig, b)
  PROVE  c \in Clean(b)
<1>1. Len(orig) \in Nat /\ orig \in Seq(Stage) /\ b \in 0 .. Len(orig)
  BY PipelineShape DEF IsCut
<1> SUFFICES ASSUME NEW a \in 0 .. b, NEW e \in 0 .. b, Gap(a, e), a + 1 < e, c \notin KnownTo(orig, a),
                    NEW x \in a + 1 .. e, NEW y \in a + 1 .. e,
                    c \in ColumnsOf(orig[x].right), c \in ColumnsOf(orig[y].right), x # y
             PROVE  FALSE
  BY DEF Clean, Lone
<1> DEFINE chain == JoinChain(orig, a + 1)
           i == a + 1
           u == x - a
           v == y - a
<1>2. /\ i \in Chains /\ Len(chain) = e - a /\ DOMAIN chain = 1 .. e - a
      /\ \A j \in 1 .. e - a : chain[j] = orig[a + j]
  BY GapChain
<1>3. /\ u \in 1 .. e - a /\ v \in 1 .. e - a /\ u # v /\ a + u = x /\ a + v = y
      /\ n \in i + (e - a) .. Len(orig) /\ i - 1 = a
  BY <1>1
<1>4. chain[u] = orig[x] /\ chain[v] = orig[y]
  BY <1>2, <1>3
<1> HIDE DEF chain, i, u, v
<1>5. KnownColumns(Behind(orig, i - 1)) = KnownTo(orig, a)
  <2>1. a \in 0 .. Len(orig)
    BY <1>1
  <2> QED BY <1>1, <1>3, <2>1, BehindKnown
<1> DEFINE shared == (ColumnsOf(chain[u].right) \cap ColumnsOf(chain[v].right)) \ KnownColumns(Behind(orig, i - 1))
<1>6. IF IsFilter(orig[n]) THEN \A m \in DOMAIN orig[n].conds : orig[n].conds[m].col \notin shared
      ELSE \A m \in DOMAIN orig[n].on : Mentions(orig[n].on[m]) \cap shared = {}
  <2>1. u \in DOMAIN chain /\ v \in DOMAIN chain /\ n \in i + Len(chain) .. Len(orig)
    BY <1>2, <1>3
  <2>2. \A w \in i + Len(JoinChain(orig, i)) .. Len(orig) : \A x1, y1 \in DOMAIN JoinChain(orig, i) :
          x1 # y1 =>
            IF IsFilter(orig[w])
            THEN \A m \in DOMAIN orig[w].conds :
                   orig[w].conds[m].col \notin (ColumnsOf(JoinChain(orig, i)[x1].right) \cap ColumnsOf(JoinChain(orig, i)[y1].right))
                                                 \ KnownColumns(Behind(orig, i - 1))
            ELSE \A m \in DOMAIN orig[w].on :
                   Mentions(orig[w].on[m])
                     \cap ((ColumnsOf(JoinChain(orig, i)[x1].right) \cap ColumnsOf(JoinChain(orig, i)[y1].right))
                             \ KnownColumns(Behind(orig, i - 1))) = {}
    BY <1>2, Zenon DEF NoClash
  <2>3. chain = JoinChain(orig, i)
    BY DEF chain, i
  <2> QED BY <1>3, <2>1, <2>2, <2>3
<1>7. c \in shared
  BY <1>4, <1>5
<1> HIDE DEF shared
<1>8. CASE IsFilter(orig[n])
  BY <1>6, <1>7, <1>8 DEF MentionedBy
<1>9. CASE ~IsFilter(orig[n])
  BY <1>6, <1>7, <1>9 DEF MentionedBy
<1> QED
  BY <1>8, <1>9

\* Clean columns are read from the same tables in both pipelines.
Reads(n) == \A c \in Clean(n) : FirstWith(Behind(stages, n), c) = FirstWith(Behind(orig, n), c)

\* A gap keeps that so.
LEMMA ReadsOn ==
  ASSUME NEW p, Moved(p), NEW a, NEW e, Gap(a, e), Reads(a)
  PROVE  Reads(e)
<1>1. /\ Len(orig) \in Nat /\ Len(stages) = Len(orig) /\ orig \in Seq(Stage) /\ stages \in Seq(Stage)
      /\ Sound(orig) /\ Sound(stages)
  BY BothSound DEF Sound, Moved
<1>2. /\ a \in 0 .. Len(orig) /\ e \in 0 .. Len(orig) /\ a \in Nat /\ e \in Nat /\ a < e
      /\ e \in a .. Len(orig) /\ e \in a .. Len(stages) /\ a \in 0 .. Len(stages) /\ IsCut(a) /\ IsCut(e)
  BY <1>1 DEF Gap, IsCut
<1> SUFFICES ASSUME NEW c \in Clean(e)
             PROVE  FirstWith(Behind(stages, e), c) = FirstWith(Behind(orig, e), c)
  BY DEF Reads
<1>3. KnownTo(stages, a) = KnownTo(orig, a)
  BY <1>2, CutSets
<1>4. CASE c \in KnownTo(orig, a)
  <2>1. c \in Clean(a)
    <3>1. \A x : x \in 0 .. a => x \in 0 .. e
      BY <1>2
    <3> QED BY <1>4, <3>1 DEF Clean
  <2>2. FirstWith(Behind(stages, a), c) = FirstWith(Behind(orig, a), c)
    BY <2>1 DEF Reads
  <2>3. FirstWith(Behind(stages, e), c) = FirstWith(Behind(stages, a), c)
    BY <1>1, <1>2, <1>3, <1>4, FirstStays
  <2>4. FirstWith(Behind(orig, e), c) = FirstWith(Behind(orig, a), c)
    BY <1>1, <1>2, <1>4, FirstStays
  <2> QED BY <2>2, <2>3, <2>4
<1>5. CASE c \notin KnownTo(orig, a)
  <2>1. PICK m \in JoinsTo(orig, e) : c \in ColumnsOf(orig[m].right)
    <3>1. c \in KnownTo(orig, e) /\ c \notin ColumnsOf(Source)
      BY <1>5 DEF Clean, KnownTo
    <3> QED BY <3>1 DEF KnownTo
  <2>2. m \in 1 .. e /\ IsJoin(orig[m])
    BY <2>1 DEF JoinsTo
  <2>3. ASSUME NEW j \in 1 .. e, IsJoin(orig[j]), c \in ColumnsOf(orig[j].right) PROVE j > a
    <3>1. j <= a => j \in JoinsTo(orig, a)
      BY <1>2, <2>3 DEF JoinsTo
    <3>2. j > a \/ j <= a
      BY <1>2
    <3> QED BY <1>5, <2>3, <3>1, <3>2 DEF KnownTo
  <2>4. ASSUME NEW j \in 1 .. e, IsJoin(orig[j]), c \in ColumnsOf(orig[j].right) PROVE j = m
    <3>1. j \in a + 1 .. e /\ m \in a + 1 .. e
      BY <1>2, <2>1, <2>2, <2>3, <2>4
    <3>2. CASE a + 1 < e
      <4>1. Lone(c, a, e)
        <5>1. a \in 0 .. e /\ e \in 0 .. e
          BY <1>2
        <5> QED BY <3>2, <5>1 DEF Clean
      <4> QED BY <1>5, <2>1, <2>4, <3>1, <4>1 DEF Lone
    <3>3. CASE ~(a + 1 < e)
      BY <1>2, <3>1, <3>3
    <3> QED BY <3>2, <3>3
  <2>5. PICK n \in 1 .. e : p[n] = m /\ Like(stages[n], orig[m])
    BY <1>2, <2>2, CutMatches
  <2>6. IsJoin(stages[n]) /\ stages[n].id = orig[m].id /\ stages[n].right = orig[m].right
    BY <2>2, <2>5, LikeJoins
  <2>7. ASSUME NEW j \in 1 .. e, IsJoin(stages[j]), c \in ColumnsOf(stages[j].right) PROVE j = n
    <3>1. p[j] \in 1 .. e /\ Like(stages[j], orig[p[j]])
      BY <1>2, CutMatches
    <3>2. IsJoin(orig[p[j]]) /\ c \in ColumnsOf(orig[p[j]].right)
      BY <2>7, <3>1, LikeJoins
    <3>3. p[j] = p[n]
      BY <2>4, <2>5, <3>1, <3>2
    <3>4. j \in 1 .. Len(orig) /\ n \in 1 .. Len(orig)
      BY <1>1, <1>2
    <3> QED BY <1>1, <3>3, <3>4, OrderProperties DEF Moved
  <2>8. FirstWith(Behind(orig, e), c) = Entry(orig[m])
    <3>1. \A j \in JoinsTo(orig, e) : j > a /\ c \in ColumnsOf(orig[j].right) => j = m
      BY <2>4 DEF JoinsTo
    <3> QED BY <1>1, <1>2, <1>5, <2>1, <3>1, FirstIsNew
  <2>9. FirstWith(Behind(stages, e), c) = Entry(stages[n])
    <3>1. \A j \in JoinsTo(stages, e) : j > a /\ c \in ColumnsOf(stages[j].right) => j = n
      BY <2>7 DEF JoinsTo
    <3>2. n \in JoinsTo(stages, e) /\ c \in ColumnsOf(stages[n].right) /\ c \notin KnownTo(stages, a)
      BY <1>3, <1>5, <2>1, <2>6 DEF JoinsTo
    <3> QED BY <1>1, <1>2, <3>1, <3>2, FirstIsNew
  <2> QED
    BY <2>6, <2>8, <2>9 DEF Entry
<1> QED
  BY <1>4, <1>5

\* The gap a stage stands in.
LEMMA StageInGap ==
  ASSUME orig \in Pipelines, NEW n \in 1 .. Len(orig)
  PROVE  \E a, e : Gap(a, e) /\ n \in a + 1 .. e
<1>1. Len(orig) \in Nat
  BY PipelineShape
<1> DEFINE B == {c \in 0 .. n - 1 : IsCut(c)}
           A == {c \in n .. Len(orig) : IsCut(c)}
<1>2. 0 \in B /\ Len(orig) \in A
  BY <1>1 DEF IsCut
<1>3. B \subseteq Nat /\ A \subseteq Nat /\ (\A c \in B : c <= n) /\ n \in Nat
  BY <1>1
<1> HIDE DEF A, B
<1>4. PICK a \in B : \A c \in B : a >= c
  <2>1. B # {}
    BY <1>2
  <2> QED BY <1>3, <2>1, GreatestElement
<1>5. PICK e \in A : \A c \in A : e <= c
  BY <1>2, <1>3, LeastElement
<1>6. a \in 0 .. n - 1 /\ IsCut(a) /\ e \in n .. Len(orig) /\ IsCut(e)
  BY DEF A, B
<1>7. ASSUME NEW m \in a + 1 .. e - 1, IsCut(m) PROVE FALSE
  <2>1. m \in B \/ m \in A
    BY <1>1, <1>6, <1>7 DEF A, B
  <2> QED BY <1>1, <1>4, <1>5, <1>6, <2>1
<1>8. Gap(a, e) /\ n \in a + 1 .. e
  BY <1>1, <1>6, <1>7 DEF Gap
<1> QED
  BY <1>8

\* The stages of a gap are those of the gap, and the one of a gap of one stage stands still.
LEMMA GapMatches ==
  ASSUME NEW p, Moved(p), NEW a, NEW e, Gap(a, e)
  PROVE  /\ \A n \in a + 1 .. e : p[n] \in a + 1 .. e /\ Like(stages[n], orig[p[n]])
         /\ \A m \in a + 1 .. e : \E n \in a + 1 .. e : p[n] = m /\ Like(stages[n], orig[m])
         /\ e = a + 1 => Like(stages[e], orig[e])
<1>1. /\ Len(orig) \in Nat /\ a \in 0 .. Len(orig) /\ e \in 0 .. Len(orig) /\ a \in Nat /\ e \in Nat
      /\ IsCut(a) /\ IsCut(e) /\ a < e
  BY BothSound DEF Gap, IsCut
<1>2. \A n \in 1 .. Len(orig) : p[n] \in 1 .. Len(orig) /\ (n <= a <=> p[n] <= a)
  BY <1>1, CutHolds
<1>3. \A n \in 1 .. e : p[n] \in 1 .. e /\ Like(stages[n], orig[p[n]])
  BY <1>1, CutMatches
<1>4. \A m \in 1 .. e : \E n \in 1 .. e : p[n] = m /\ Like(stages[n], orig[m])
  BY <1>1, CutMatches
<1>5. ASSUME NEW n \in a + 1 .. e PROVE p[n] \in a + 1 .. e /\ Like(stages[n], orig[p[n]])
  <2>1. n \in 1 .. e /\ n \in 1 .. Len(orig) /\ ~(n <= a)
    BY <1>1
  <2>2. p[n] \in 1 .. e /\ ~(p[n] <= a)
    BY <1>2, <1>3, <2>1
  <2> QED BY <1>1, <1>3, <2>1, <2>2
<1>6. ASSUME NEW m \in a + 1 .. e PROVE \E n \in a + 1 .. e : p[n] = m /\ Like(stages[n], orig[m])
  <2>1. m \in 1 .. e /\ ~(m <= a)
    BY <1>1
  <2>2. PICK n \in 1 .. e : p[n] = m /\ Like(stages[n], orig[m])
    BY <1>4, <2>1
  <2>3. n \in 1 .. Len(orig)
    BY <1>1
  <2>4. ~(n <= a)
    BY <1>2, <2>1, <2>2, <2>3
  <2> QED BY <1>1, <2>2, <2>4
<1>7. ASSUME e = a + 1 PROVE Like(stages[e], orig[e])
  <2>1. e \in a + 1 .. e /\ \A n \in a + 1 .. e : n = e
    BY <1>1, <1>7
  <2> QED BY <1>6, <2>1
<1> QED
  BY <1>5, <1>6, <1>7

\* Both pipelines are accepted or rejected.
LEMMA ResolvesAlike ==
  ASSUME NEW p, Moved(p), Anchored
  PROVE  Resolves(stages) <=> Resolves(orig)
<1>1. /\ Len(orig) \in Nat /\ Len(stages) = Len(orig) /\ orig \in Seq(Stage) /\ stages \in Seq(Stage)
      /\ orig \in Pipelines
  BY BothSound DEF Sound, Moved
<1>2. ASSUME NEW n \in 1 .. Len(orig)
      PROVE  MentionedBy(stages[n]) \subseteq KnownTo(stages, n - 1) <=> MentionedBy(orig[n]) \subseteq KnownTo(orig, n - 1)
  <2>1. PICK a, e : Gap(a, e) /\ n \in a + 1 .. e
    BY <1>1, StageInGap
  <2>2. /\ a \in 0 .. Len(orig) /\ e \in 0 .. Len(orig) /\ a \in Nat /\ e \in Nat /\ IsCut(a) /\ n \in Nat /\ a <= n - 1
        /\ n - 1 \in Nat /\ a < e
    BY <1>1, <2>1 DEF Gap, IsCut
  <2>3. KnownTo(stages, a) = KnownTo(orig, a)
    BY <2>2, CutSets
  <2>4. CASE e = a + 1
    <3>1. n = e /\ n - 1 = a
      BY <2>1, <2>2, <2>4
    <3>2. MentionedBy(stages[n]) = MentionedBy(orig[n])
      BY <2>1, <2>4, <3>1, GapMatches, LikeMentions
    <3> QED BY <2>3, <3>1, <3>2
  <2>5. CASE a + 1 < e
    <3>1. p[n] \in a + 1 .. e /\ Like(stages[n], orig[p[n]])
      BY <2>1, GapMatches
    <3>2. MentionedBy(stages[n]) \subseteq KnownTo(orig, a) /\ MentionedBy(orig[n]) \subseteq KnownTo(orig, a)
      BY <1>1, <2>1, <2>5, <3>1, AnchoredMentions, LikeMentions
    <3>3. KnownTo(stages, a) \subseteq KnownTo(stages, n - 1) /\ KnownTo(orig, a) \subseteq KnownTo(orig, n - 1)
      BY <2>2, ToGrows
    <3> QED BY <2>3, <3>2, <3>3
  <2> QED BY <2>2, <2>4, <2>5
<1> QED
  BY <1>1, <1>2, ResolvesMentions

\* A filter with its conjuncts in another order lets through the same rows.
LEMMA FilteredAlike ==
  ASSUME NEW s, NEW t, SameFilter(s, t), NEW u, NEW v, NEW rows,
         \A c \in MentionedBy(t) : FirstWith(u, c) = FirstWith(v, c)
  PROVE  Filtered(s, u, rows) = Filtered(t, v, rows)
<1>1. IsFilter(s) /\ IsFilter(t) /\ Rearranged(s.conds, t.conds)
  BY DEF SameFilter, FilterStage, IsFilter
<1>2. PICK q \in [DOMAIN t.conds -> DOMAIN t.conds] :
        Range(q) = DOMAIN t.conds /\ s.conds = [n \in DOMAIN t.conds |-> t.conds[q[n]]]
  BY <1>1 DEF Rearranged
<1>3. \A n \in DOMAIN t.conds : \E m \in DOMAIN t.conds : q[m] = n
  BY <1>2 DEF Range
<1> DEFINE Passes(w, x, cond) == LET v0 == Value(w, x, cond.col) IN v0 # Null /\ Holds(cond, v0)
<1>4. ASSUME NEW x, NEW n \in DOMAIN t.conds
      PROVE  Passes(u, x, t.conds[n]) <=> Passes(v, x, t.conds[n])
  <2>1. t.conds[n].col \in MentionedBy(t)
    BY <1>1 DEF MentionedBy
  <2>2. ReadAlike(MentionedBy(t), u, x, v, x)
    BY DEF ReadAlike
  <2>3. Value(u, x, t.conds[n].col) = Value(v, x, t.conds[n].col)
    BY <2>1, <2>2, SameValue
  <2> QED BY <2>3
<1>5. Filtered(s, u, rows) = {x \in rows : \A n \in DOMAIN s.conds : Passes(u, x, s.conds[n])}
  BY DEF Filtered
<1>6. Filtered(t, v, rows) = {x \in rows : \A n \in DOMAIN t.conds : Passes(v, x, t.conds[n])}
  BY DEF Filtered
<1> HIDE DEF Passes
<1>7. ASSUME NEW x
      PROVE  (\A n \in DOMAIN s.conds : Passes(u, x, s.conds[n])) <=> (\A n \in DOMAIN t.conds : Passes(v, x, t.conds[n]))
  <2>1. DOMAIN s.conds = DOMAIN t.conds /\ \A n \in DOMAIN t.conds : s.conds[n] = t.conds[q[n]] /\ q[n] \in DOMAIN t.conds
    BY <1>2
  <2>2. ASSUME \A n \in DOMAIN s.conds : Passes(u, x, s.conds[n]), NEW n \in DOMAIN t.conds PROVE Passes(v, x, t.conds[n])
    <3>1. PICK m \in DOMAIN t.conds : q[m] = n
      BY <1>3
    <3>2. Passes(u, x, s.conds[m]) /\ s.conds[m] = t.conds[n]
      BY <2>1, <2>2, <3>1
    <3>3. Passes(u, x, t.conds[n])
      BY <3>2
    <3> QED BY <1>4, <3>3
  <2>3. ASSUME \A n \in DOMAIN t.conds : Passes(v, x, t.conds[n]), NEW n \in DOMAIN s.conds PROVE Passes(u, x, s.conds[n])
    <3>1. q[n] \in DOMAIN t.conds /\ s.conds[n] = t.conds[q[n]]
      BY <2>1
    <3>2. Passes(u, x, t.conds[q[n]])
      BY <1>4, <2>3, <3>1
    <3> QED BY <3>1, <3>2
  <2> QED BY <2>2, <2>3
<1> QED
  BY <1>5, <1>6, <1>7

\* A join with another hint answers the same rows.
LEMMA JoinedAlike ==
  ASSUME NEW s, NEW t, SameJoin(s, t), NEW u, NEW v, NEW rows, IdsOf(u) = IdsOf(v),
         \A c \in MentionedBy(t) : FirstWith(u, c) = FirstWith(v, c)
  PROVE  Joined(s, u, rows) = Joined(t, v, rows)
<1>1. /\ s.id = t.id /\ s.kind = t.kind /\ s.right = t.right /\ s.on = t.on
      /\ ~IsFilter(t)
  BY DEF SameJoin, JoinStage, IsFilter
<1>2. ASSUME NEW x, NEW r PROVE Pairs(s, u, x, r) <=> Pairs(t, v, x, r)
  <2>1. ASSUME NEW n \in DOMAIN t.on PROVE ReadAlike(Mentions(t.on[n]), u, x, v, x)
    <3>1. Mentions(t.on[n]) \subseteq MentionedBy(t)
      BY <1>1 DEF MentionedBy
    <3> QED BY <3>1 DEF ReadAlike
  <2>2. Pairs(t, u, x, r) <=> Pairs(t, v, x, r)
    BY <2>1, SamePairs
  <2>3. Pairs(s, u, x, r) = Pairs(t, u, x, r)
    BY <1>1 DEF Pairs
  <2> QED BY <2>2, <2>3
<1>3. Nothing(u) = Nothing(v)
  BY DEF Nothing, IdsOf
<1> DEFINE inner == DOMAIN RowsOf(t.right)
           good(st, order) == {z \in rows \X inner : Pairs(st, order, z[1], z[2])}
           aloneL(st, order) == {x \in rows : \A r \in inner : ~Pairs(st, order, x, r)}
           aloneR(st, order) == {r \in inner : \A x \in rows : ~Pairs(st, order, x, r)}
           Rows0(pairs, left, right, none) ==
             {With(y[1], t.id, y[2]) : y \in pairs}
               \cup (IF t.kind \in {"left", "full"} THEN {With(x, t.id, 0) : x \in left} ELSE {})
               \cup (IF t.kind \in {"right", "full"} THEN {With(none, t.id, r) : r \in right} ELSE {})
<1>4. good(s, u) = good(t, v)
  BY <1>2
<1>5. aloneL(s, u) = aloneL(t, v)
  BY <1>2
<1>6. aloneR(s, u) = aloneR(t, v)
  BY <1>2
<1>7. Joined(s, u, rows) = Rows0(good(s, u), aloneL(s, u), aloneR(s, u), Nothing(u))
  BY <1>1 DEF Joined, Pairs
<1>8. Joined(t, v, rows) = Rows0(good(t, v), aloneL(t, v), aloneR(t, v), Nothing(v))
  BY DEF Joined, Pairs
<1> HIDE DEF inner, good, aloneL, aloneR, Rows0
<1> QED
  BY <1>3, <1>4, <1>5, <1>6, <1>7, <1>8

\* The functions of the rows of both pipelines.
RowsOfStages(ss, f) == f[0] = FirstRows /\ \A n \in 1 .. Len(ss) : f[n] = NextRows(ss, n, f[n - 1])

\* The rows behind one stage that has not moved.
LEMMA StageRows ==
  ASSUME NEW p, Moved(p), NoClash, Resolves(orig), NEW a, NEW e, Gap(a, e), e = a + 1, Reads(a),
         NEW f, RowsOfStages(orig, f), NEW g, RowsOfStages(stages, g), g[a] = f[a]
  PROVE  g[e] = f[e]
<1>1. /\ Len(orig) \in Nat /\ Len(stages) = Len(orig) /\ orig \in Seq(Stage) /\ stages \in Seq(Stage)
      /\ orig \in Pipelines
  BY BothSound DEF Sound, Moved
<1>2. a \in 0 .. Len(orig) /\ e \in 1 .. Len(orig) /\ e - 1 = a /\ IsCut(a) /\ a < e
  BY <1>1 DEF Gap, IsCut
<1>3. Like(stages[e], orig[e])
  BY GapMatches
<1>4. MentionedBy(orig[e]) \subseteq KnownTo(orig, a)
  BY <1>1, <1>2, ResolvesMentions
<1>5. \A c \in MentionedBy(orig[e]) : FirstWith(Behind(stages, a), c) = FirstWith(Behind(orig, a), c)
  BY <1>1, <1>2, <1>4, CleanMentions DEF Reads
<1>6. IdsOf(Behind(stages, a)) = IdsOf(Behind(orig, a))
  <2>1. IdsOf(Behind(stages, a)) = IdsTo(stages, a) /\ IdsOf(Behind(orig, a)) = IdsTo(orig, a)
    BY <1>1, <1>2, BehindKnown DEF IdsOf
  <2> QED BY <1>2, <2>1, CutSets
<1>7. f[e] = NextRows(orig, e, f[a]) /\ g[e] = NextRows(stages, e, f[a])
  BY <1>1, <1>2 DEF RowsOfStages
<1>8. CASE SameFilter(stages[e], orig[e])
  <2>1. IsFilter(stages[e]) /\ IsFilter(orig[e])
    BY <1>8 DEF SameFilter, FilterStage, IsFilter
  <2>2. Filtered(stages[e], Behind(stages, a), f[a]) = Filtered(orig[e], Behind(orig, a), f[a])
    BY <1>5, <1>8, FilteredAlike
  <2> QED BY <1>2, <1>7, <2>1, <2>2 DEF NextRows
<1>9. CASE SameJoin(stages[e], orig[e])
  <2>1. ~IsFilter(stages[e]) /\ ~IsFilter(orig[e])
    BY <1>9 DEF SameJoin, JoinStage, IsFilter
  <2>2. Joined(stages[e], Behind(stages, a), f[a]) = Joined(orig[e], Behind(orig, a), f[a])
    BY <1>5, <1>6, <1>9, JoinedAlike
  <2> QED BY <1>2, <1>7, <2>1, <2>2 DEF NextRows
<1> QED
  BY <1>3, <1>8, <1>9 DEF Like

\* The joins of a chain combine the same rows in either order.
LEMMA CombinedAlike ==
  ASSUME NEW p, Moved(p), Anchored, NoClash, NEW a, NEW e, Gap(a, e), a + 1 < e, Reads(a), NEW base, NEW x
  PROVE  Combined(stages, a, e, base, x) <=> Combined(orig, a, e, base, x)
<1>1. /\ Len(orig) \in Nat /\ orig \in Pipelines /\ a \in 0 .. Len(orig) /\ e \in 0 .. Len(orig)
      /\ IsCut(a) /\ IsCut(e)
  BY BothSound DEF Gap, IsCut, Moved
<1>2. IdsTo(stages, a) = IdsTo(orig, a) /\ IdsTo(stages, e) = IdsTo(orig, e)
  BY <1>1, CutSets
<1> DEFINE y == Part(x, IdsTo(orig, a))
           Fits(st, order) == x[st.id] \in DOMAIN RowsOf(st.right) /\ Pairs(st, order, y, x[st.id])
<1>3. ASSUME NEW n \in a + 1 .. e, NEW m \in a + 1 .. e, Like(stages[n], orig[m])
      PROVE  Fits(stages[n], Behind(stages, a)) <=> Fits(orig[m], Behind(orig, a))
  <2>1. Commutative(orig[m])
    BY <1>1, GapChain
  <2>2. /\ stages[n].id = orig[m].id /\ stages[n].right = orig[m].right /\ stages[n].on = orig[m].on
        /\ ~IsFilter(orig[m])
    <3>1. IsJoin(orig[m]) /\ ~IsFilter(orig[m])
      BY <2>1 DEF Commutative, IsJoin, IsFilter
    <3> QED BY <1>3, <3>1, LikeJoins
  <2>3. MentionedBy(orig[m]) \subseteq KnownTo(orig, a)
    BY <1>1, AnchoredMentions
  <2>4. m \in 1 .. Len(orig) /\ a < m
    BY <1>1
  <2>5. \A c \in MentionedBy(orig[m]) : FirstWith(Behind(stages, a), c) = FirstWith(Behind(orig, a), c)
    BY <1>1, <2>3, <2>4, CleanMentions DEF Reads
  <2>6. ASSUME NEW j \in DOMAIN orig[m].on
        PROVE  ReadAlike(Mentions(orig[m].on[j]), Behind(stages, a), y, Behind(orig, a), y)
    <3>1. Mentions(orig[m].on[j]) \subseteq MentionedBy(orig[m])
      BY <2>2 DEF MentionedBy
    <3> QED BY <2>5, <3>1 DEF ReadAlike
  <2> HIDE DEF y
  <2>7. \A r : Pairs(orig[m], Behind(stages, a), y, r) <=> Pairs(orig[m], Behind(orig, a), y, r)
    BY <2>6, SamePairs
  <2>8. \A r : Pairs(stages[n], Behind(stages, a), y, r) <=> Pairs(orig[m], Behind(stages, a), y, r)
    BY <2>2 DEF Pairs
  <2> QED BY <2>2, <2>7, <2>8
<1> HIDE DEF Fits
<1>4. (\A n \in a + 1 .. e : Fits(stages[n], Behind(stages, a))) <=> (\A m \in a + 1 .. e : Fits(orig[m], Behind(orig, a)))
  <2>1. \A n \in a + 1 .. e : p[n] \in a + 1 .. e /\ Like(stages[n], orig[p[n]])
    BY GapMatches
  <2>2. \A m \in a + 1 .. e : \E n \in a + 1 .. e : Like(stages[n], orig[m])
    BY GapMatches
  <2> QED BY <1>3, <2>1, <2>2
<1>5. Combined(stages, a, e, base, x) <=>
        Combo(x, IdsTo(orig, e)) /\ y \in base /\ \A n \in a + 1 .. e : Fits(stages[n], Behind(stages, a))
  BY <1>2 DEF Combined, Fits
<1>6. Combined(orig, a, e, base, x) <=>
        Combo(x, IdsTo(orig, e)) /\ y \in base /\ \A n \in a + 1 .. e : Fits(orig[n], Behind(orig, a))
  BY DEF Combined, Fits
<1> QED
  BY <1>4, <1>5, <1>6

\* So the rows behind the chain are the same.
LEMMA GapRows ==
  ASSUME NEW p, Moved(p), Anchored, NoClash, Resolves(orig), NEW a, NEW e, Gap(a, e), Reads(a),
         NEW f, RowsOfStages(orig, f), NEW g, RowsOfStages(stages, g), g[a] = f[a]
  PROVE  g[e] = f[e]
<1>1. /\ Len(orig) \in Nat /\ Len(stages) = Len(orig) /\ orig \in Pipelines /\ Sound(orig) /\ Sound(stages)
      /\ orig \in Seq(Stage) /\ stages \in Seq(Stage)
  BY BothSound DEF Moved, Sound
<1>2. /\ a \in 0 .. Len(orig) /\ e \in a .. Len(orig) /\ e \in 0 .. Len(orig) /\ a < e
      /\ IsCut(a)
      /\ e = a + 1 \/ a + 1 < e
  BY <1>1 DEF Gap, IsCut
<1>3. CASE e = a + 1
  BY <1>3, StageRows
<1>4. CASE a + 1 < e
  <2>1. KnownTo(stages, a) = KnownTo(orig, a)
    <3>1. IsCut(a)
      BY DEF Gap
    <3> QED BY <3>1, CutSets
  <2>2. Anchor(orig, a, e)
    <3> SUFFICES ASSUME NEW m \in a + 1 .. e
                 PROVE  Commutative(orig[m]) /\ \A n \in DOMAIN orig[m].on : Mentions(orig[m].on[n]) \subseteq KnownTo(orig, a)
      BY DEF Anchor
    <3>1. Commutative(orig[m]) /\ ~IsFilter(orig[m])
      BY <1>1, <1>4, GapChain DEF Commutative, IsJoin, IsFilter
    <3>2. MentionedBy(orig[m]) \subseteq KnownTo(orig, a)
      BY <1>1, <1>4, AnchoredMentions
    <3> QED BY <3>1, <3>2 DEF MentionedBy
  <2>3. Anchor(stages, a, e)
    <3> SUFFICES ASSUME NEW n \in a + 1 .. e
                 PROVE  Commutative(stages[n]) /\ \A j \in DOMAIN stages[n].on : Mentions(stages[n].on[j]) \subseteq KnownTo(stages, a)
      BY DEF Anchor
    <3>1. p[n] \in a + 1 .. e /\ Like(stages[n], orig[p[n]])
      BY GapMatches
    <3>2. Commutative(orig[p[n]]) /\ IsJoin(orig[p[n]])
      BY <1>1, <1>4, <3>1, GapChain DEF Commutative
    <3>3. Commutative(stages[n]) /\ stages[n].on = orig[p[n]].on
      BY <3>1, <3>2, LikeStages, LikeJoins
    <3> QED BY <2>1, <2>2, <3>1, <3>3 DEF Anchor
  <2>4. AllCombined(orig, a, e, f[a], f[e])
    BY <1>1, <1>2, <2>2, ChainRows DEF RowsOfStages
  <2>5. AllCombined(stages, a, e, g[a], g[e])
    BY <1>1, <1>2, <2>3, ChainRows DEF RowsOfStages
  <2>6. \A x : Combined(stages, a, e, f[a], x) <=> Combined(orig, a, e, f[a], x)
    BY <1>4, CombinedAlike
  <2>7. \A x : x \in g[e] <=> x \in f[e]
    BY <2>4, <2>5, <2>6 DEF AllCombined
  <2> QED BY <1>2, <2>7
<1> QED
  BY <1>2, <1>3, <1>4

\* At every cut both pipelines have the same rows and read columns from the same tables.
LEMMA CutRows ==
  ASSUME NEW p, Moved(p), Anchored, NoClash, Resolves(orig),
         NEW f, RowsOfStages(orig, f), NEW g, RowsOfStages(stages, g)
  PROVE  \A c \in 0 .. Len(orig) : IsCut(c) => Reads(c) /\ g[c] = f[c]
<1> DEFINE Good(c) == IsCut(c) => Reads(c) /\ g[c] = f[c]
           S == {n \in Nat : \A c \in 0 .. n : Good(c)}
<1>1. Len(orig) \in Nat /\ orig \in Seq(Stage) /\ stages \in Seq(Stage) /\ Len(stages) = Len(orig) /\ orig \in Pipelines
  BY BothSound DEF Sound, Moved
<1>2. 0 \in S
  <2>1. Behind(stages, 0) = Scan(0, Source) /\ Behind(orig, 0) = Scan(0, Source)
    <3>1. 0 \in 0 .. Len(orig)
      BY <1>1
    <3> QED BY <1>1, <3>1, BehindSteps
  <2>2. Reads(0) /\ g[0] = f[0]
    BY <2>1 DEF Reads, RowsOfStages
  <2>3. \A c \in 0 .. 0 : c = 0
    OBVIOUS
  <2> QED BY <2>2, <2>3
<1>3. ASSUME NEW n \in Nat, n \in S PROVE n + 1 \in S
  <2> SUFFICES ASSUME IsCut(n + 1) PROVE Reads(n + 1) /\ g[n + 1] = f[n + 1]
    <3>1. \A c \in 0 .. n : Good(c)
      BY <1>3
    <3>2. \A c \in 0 .. n + 1 : c \in 0 .. n \/ c = n + 1
      OBVIOUS
    <3> QED BY <3>1, <3>2
  <2>1. n + 1 \in 1 .. Len(orig)
    BY <1>1 DEF IsCut
  <2>2. PICK a, e : Gap(a, e) /\ n + 1 \in a + 1 .. e
    BY <1>1, <2>1, StageInGap
  <2>3. a \in 0 .. Len(orig) /\ e \in 0 .. Len(orig) /\ IsCut(a) /\ a \in Nat /\ e \in Nat
    BY <1>1, <2>2 DEF Gap, IsCut
  <2>4. e = n + 1 /\ a \in 0 .. n
    <3>1. n + 1 \notin a + 1 .. e - 1
      BY <2>2 DEF Gap
    <3> QED BY <2>2, <2>3, <3>1
  <2>5. Reads(a) /\ g[a] = f[a]
    <3>1. \A c \in 0 .. n : Good(c)
      BY <1>3
    <3> QED BY <2>3, <2>4, <3>1
  <2>6. Reads(e)
    BY <2>2, <2>5, ReadsOn
  <2>7. g[e] = f[e]
    BY <2>2, <2>5, GapRows
  <2> QED BY <2>4, <2>6, <2>7
<1>4. Nat \subseteq S
  <2> HIDE DEF S
  <2> QED BY <1>2, <1>3, SetInduction
<1>5. Len(orig) \in S
  <2> HIDE DEF S
  <2> QED BY <1>1, <1>4
<1> QED
  BY <1>5

\* The reordered statement answers the same rows.
LEMMA MovedRows ==
  ASSUME NEW p, Moved(p), Anchored, NoClash
  PROVE  SqlAnswer(stages) = SqlAnswer(orig)
<1>1. Len(orig) \in Nat /\ Len(stages) = Len(orig)
  BY BothSound DEF Moved
<1>2. Resolves(stages) <=> Resolves(orig)
  BY ResolvesAlike
<1>3. ASSUME Resolves(orig) PROVE SqlRows(stages) = SqlRows(orig)
  <2>1. PICK f : SqlRows(orig) = f[Len(orig)] /\ RowsOfStages(orig, f)
    BY <1>1, RowsUnfold DEF RowsOfStages
  <2>2. PICK g : SqlRows(stages) = g[Len(stages)] /\ RowsOfStages(stages, g)
    BY <1>1, RowsUnfold DEF RowsOfStages
  <2>3. Len(orig) \in 0 .. Len(orig) /\ IsCut(Len(orig))
    BY <1>1 DEF IsCut
  <2>4. g[Len(orig)] = f[Len(orig)]
    BY <1>3, <2>1, <2>2, <2>3, CutRows
  <2> QED BY <1>1, <2>1, <2>2, <2>4
<1> QED
  BY <1>2, <1>3 DEF SqlAnswer

\* Ordering predicates and joins by cost keeps the rows of the statement, for any
\* pipeline, tables and statistics: if the conditions of a chain of joins mention columns
\* from in front of the chain only, and no later stage reads a column two of its tables
\* have (join_order.go ApplyJoinOrder, ApplyPredicateOrder).
THEOREM RowsSurvive == Spec => []RowsSurviveReordering
<1>1. IInv => RowsSurviveReordering
  <2> SUFFICES ASSUME IInv, Anchored, NoClash PROVE SqlAnswer(stages) = SqlAnswer(orig)
    BY DEF RowsSurviveReordering
  <2>1. PICK p \in Orders(Len(orig)) : Origin(p)
    BY DEF IInv, Tracked
  <2>2. Moved(p)
    BY <2>1 DEF IInv, Moved, Origin
  <2> QED BY <2>2, MovedRows
<1> QED
  BY InitIInv, NextIInv, <1>1, PTL DEF Spec

=============================================================================
