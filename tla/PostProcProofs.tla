---------------------------- MODULE PostProcProofs ----------------------------
(***************************************************************************)
(* Proofs about PostProc, for answers of any number of rows and columns and *)
(* regions of any length.                                                   *)
(***************************************************************************)
EXTENDS PostProc, SequenceTheorems, FunctionTheorems, Induction

-----------------------------------------------------------------------------
(* Places in order *)

\* A set with one element more.
LEMMA OneMore ==
  ASSUME NEW D, IsFiniteSet(D), NEW x, x \notin D, NEW U, U = D \cup {x}
  PROVE  IsFiniteSet(U) /\ Cardinality(U) = Cardinality(D) + 1
BY FS_AddElement

\* The places of a finite set in order: each is there once, behind the smaller ones.
LEMMA AscendingPlaces ==
  ASSUME NEW P, P \subseteq Nat, IsFiniteSet(P)
  PROVE  /\ Cardinality(P) \in Nat
         /\ Ascending(P) \in [1 .. Cardinality(P) -> P]
         /\ Ascending(P) \in Seq(P) /\ Len(Ascending(P)) = Cardinality(P)
         /\ \A n \in 1 .. Cardinality(P) : Cardinality({j \in P : j <= Ascending(P)[n]}) = n
         /\ \A q \in P : /\ Cardinality({j \in P : j <= q}) \in 1 .. Cardinality(P)
                         /\ Ascending(P)[Cardinality({j \in P : j <= q})] = q
         /\ \A m, n \in 1 .. Cardinality(P) : m < n <=> Ascending(P)[m] < Ascending(P)[n]
<1> DEFINE f == [q \in P |-> {j \in P : j < q}]
           upTo(q) == {j \in P : j <= q}
           size == Cardinality(P)
<1>1. size \in Nat /\ \A j \in P : j \in Nat
  BY FS_CardinalityType
<1>2. Precedence(P, f)
  BY <1>1 DEF Precedence
<1>3. /\ \A q \in P : Cardinality(f[q]) + 1 \in 1 .. size
      /\ \A p \in 1 .. size : \E q \in P : Cardinality(f[q]) + 1 = p
      /\ \A j, q \in P : Cardinality(f[j]) = Cardinality(f[q]) => j = q
  <2> HIDE DEF f
  <2> QED BY <1>2, Places
<1>4. ASSUME NEW q \in P
      PROVE  /\ IsFiniteSet(upTo(q)) /\ Cardinality(upTo(q)) = Cardinality(f[q]) + 1
             /\ Cardinality(f[q]) \in Nat
  <2>1. f[q] \in SUBSET P /\ q \notin f[q]
    BY <1>1
  <2>2. upTo(q) = f[q] \cup {q}
    <3>1. \A j \in P : j <= q <=> j < q \/ j = q
      BY <1>1
    <3> QED BY <3>1
  <2>3. IsFiniteSet(f[q])
    BY <2>1, FS_Subset
  <2> HIDE DEF f, upTo
  <2>4. IsFiniteSet(upTo(q)) /\ Cardinality(upTo(q)) = Cardinality(f[q]) + 1
    BY <2>1, <2>2, <2>3, OneMore
  <2> QED BY <2>3, <2>4, FS_CardinalityType
<1>5. /\ \A q \in P : Cardinality(upTo(q)) \in 1 .. size
      /\ \A p \in 1 .. size : \E q \in P : Cardinality(upTo(q)) = p
      /\ \A j, q \in P : Cardinality(upTo(j)) = Cardinality(upTo(q)) => j = q
  <2>1. \A q \in P : Cardinality(upTo(q)) = Cardinality(f[q]) + 1 /\ Cardinality(f[q]) \in Nat
    BY <1>4
  <2> HIDE DEF f, upTo, size
  <2>2. ASSUME NEW j \in P, NEW q \in P, Cardinality(upTo(j)) = Cardinality(upTo(q)) PROVE j = q
    <3>1. Cardinality(f[j]) = Cardinality(f[q])
      BY <2>1, <2>2
    <3> QED BY <1>3, <3>1
  <2>3. \A p \in 1 .. size : \E q \in P : Cardinality(upTo(q)) = p
    BY <1>3, <2>1
  <2>4. \A q \in P : Cardinality(upTo(q)) \in 1 .. size
    BY <1>3, <2>1
  <2> QED BY <2>2, <2>3, <2>4
<1>6. Ascending(P) = [n \in 1 .. size |-> CHOOSE q \in P : Cardinality(upTo(q)) = n]
  BY DEF Ascending
<1>7. ASSUME NEW n \in 1 .. size
      PROVE  Ascending(P)[n] \in P /\ Cardinality(upTo(Ascending(P)[n])) = n
  <2> HIDE DEF upTo, size
  <2> QED BY <1>5, <1>6
<1>8. Ascending(P) \in [1 .. size -> P]
  <2> HIDE DEF upTo, size
  <2> QED BY <1>6, <1>7
<1>9. ASSUME NEW q \in P PROVE Ascending(P)[Cardinality(upTo(q))] = q
  <2> HIDE DEF upTo, size
  <2> QED BY <1>5, <1>7
<1>10. ASSUME NEW j \in P, NEW q \in P, j < q PROVE Cardinality(upTo(j)) < Cardinality(upTo(q))
  <2>1. upTo(j) \in SUBSET upTo(q)
    <3>1. \A i \in P : i <= j => i <= q
      BY <1>1, <1>10
    <3> QED BY <3>1
  <2>2. j # q
    BY <1>1, <1>10
  <2>5. Cardinality(upTo(j)) \in 1 .. size /\ Cardinality(upTo(q)) \in 1 .. size
    BY <1>5
  <2> HIDE DEF upTo, size
  <2>3. Cardinality(upTo(j)) <= Cardinality(upTo(q))
    BY <1>4, <2>1, FS_Subset
  <2>4. Cardinality(upTo(j)) # Cardinality(upTo(q))
    BY <1>5, <2>2
  <2> QED BY <1>1, <2>3, <2>4, <2>5
<1>11. ASSUME NEW m \in 1 .. size, NEW n \in 1 .. size PROVE m < n <=> Ascending(P)[m] < Ascending(P)[n]
  <2> DEFINE a == Ascending(P)[m]
             b == Ascending(P)[n]
  <2>1. a \in P /\ b \in P /\ Cardinality(upTo(a)) = m /\ Cardinality(upTo(b)) = n /\ a \in Nat /\ b \in Nat
    BY <1>7
  <2> HIDE DEF a, b, upTo, size
  <2>2. (a < b => m < n) /\ (b < a => n < m) /\ (a = b => m = n)
    BY <1>10, <2>1
  <2> QED BY <1>1, <2>1, <2>2 DEF a, b
<1>12. Ascending(P) \in Seq(P) /\ Len(Ascending(P)) = size
  <2> HIDE DEF upTo, size
  <2> QED BY <1>1, <1>8, IsASeq, LenProperties
<1> QED
  BY <1>1, <1>5, <1>7, <1>8, <1>9, <1>11, <1>12

\* The rows at some of the places.
LEMMA PickedRows ==
  ASSUME NEW S, NEW rows \in Seq(S), NEW P, P \subseteq DOMAIN rows
  PROVE  /\ IsFiniteSet(P) /\ P \subseteq Nat /\ Cardinality(P) \in Nat /\ Cardinality(P) <= Len(rows)
         /\ Picked(rows, P) \in Seq(S) /\ Len(Picked(rows, P)) = Cardinality(P)
         /\ \A n \in 1 .. Cardinality(P) : /\ Ascending(P)[n] \in P
                                           /\ Picked(rows, P)[n] = rows[Ascending(P)[n]]
<1>1. Len(rows) \in Nat /\ DOMAIN rows = 1 .. Len(rows) /\ \A q \in DOMAIN rows : rows[q] \in S
  BY LenProperties, ElementOfSeq
<1>2. \A n \in Nat : IsFiniteSet(1 .. n) /\ Cardinality(1 .. n) = n
  BY FS_Interval
<1>3. IsFiniteSet(P) /\ P \subseteq Nat /\ Cardinality(P) <= Len(rows)
  BY <1>1, <1>2, FS_Subset
<1>4. Cardinality(P) \in Nat /\ Ascending(P) \in [1 .. Cardinality(P) -> P]
  BY <1>3, AscendingPlaces
<1>5. Picked(rows, P) = [n \in 1 .. Cardinality(P) |-> rows[Ascending(P)[n]]]
  BY <1>4 DEF Picked
<1>6. Picked(rows, P) \in [1 .. Cardinality(P) -> S]
  BY <1>1, <1>4, <1>5
<1>7. Picked(rows, P) \in Seq(S) /\ Len(Picked(rows, P)) = Cardinality(P)
  BY <1>4, <1>6, IsASeq, LenProperties
<1> QED
  BY <1>3, <1>4, <1>5, <1>7

-----------------------------------------------------------------------------
(* The index of a column *)

\* The first place where a name is, 0 when there is none.
LEMMA FirstPlace ==
  ASSUME NEW I, NEW n \in Nat, I \subseteq 1 .. n
  PROVE  LET at == IF I # {} THEN Min(I) ELSE 0
         IN  /\ at \in 0 .. n
             /\ at = 0 <=> I = {}
             /\ at # 0 => at \in I /\ \A i \in I : at <= i
<1>1. CASE I = {}
  BY <1>1
<1>2. CASE I # {}
  <2>1. I \subseteq Nat
    OBVIOUS
  <2>2. Min(I) \in I /\ \A i \in I : Min(I) <= i
    BY <1>2, <2>1, ChosenLeast DEF Min
  <2>3. Min(I) \in 1 .. n
    BY <2>2
  <2> QED BY <1>2, <2>2, <2>3
<1> QED BY <1>1, <1>2

\* Whether names are told apart exactly or not, a column's index is the first place of
\* its name.
LEMMA Indices ==
  ASSUME NEW cols \in Seq(STRING), NEW name
  PROVE  /\ ColIndex(cols, name) \in 0 .. Len(cols)
         /\ ColIndex(cols, name) = 0 <=> \A c \in DOMAIN cols : Folded[cols[c]] # Folded[name]
         /\ ColIndex(cols, name) # 0 =>
              /\ Folded[cols[ColIndex(cols, name)]] = Folded[name]
              /\ \A c \in 1 .. ColIndex(cols, name) - 1 : Folded[cols[c]] # Folded[name]
         /\ ExactIndex(cols, name) \in 0 .. Len(cols)
         /\ ExactIndex(cols, name) # 0 => cols[ExactIndex(cols, name)] = name
<1>1. Len(cols) \in Nat /\ DOMAIN cols = 1 .. Len(cols)
  BY LenProperties
<1> DEFINE I == {i \in 1 .. Len(cols) : Folded[cols[i]] = Folded[name]}
           J == {i \in 1 .. Len(cols) : cols[i] = name}
<1> DEFINE a == ColIndex(cols, name)
           b == ExactIndex(cols, name)
<1>2. a = IF I # {} THEN Min(I) ELSE 0
  BY DEF ColIndex, SelectInSeq
<1>3. b = IF J # {} THEN Min(J) ELSE 0
  BY DEF ExactIndex, SelectInSeq
<1>4. /\ a \in 0 .. Len(cols)
      /\ a = 0 <=> I = {}
      /\ a # 0 => a \in I /\ \A i \in I : a <= i
  <2>1. I \subseteq 1 .. Len(cols)
    OBVIOUS
  <2> HIDE DEF I, a
  <2> QED BY <1>1, <1>2, <2>1, FirstPlace, Zenon
<1>5. b \in 0 .. Len(cols) /\ (b # 0 => b \in J)
  <2>1. J \subseteq 1 .. Len(cols)
    OBVIOUS
  <2> HIDE DEF J, b
  <2> QED BY <1>1, <1>3, <2>1, FirstPlace, Zenon
<1> HIDE DEF a, b
<1>6. a = 0 <=> \A c \in DOMAIN cols : Folded[cols[c]] # Folded[name]
  BY <1>1, <1>4
<1>7. ASSUME a # 0
      PROVE  Folded[cols[a]] = Folded[name] /\ \A c \in 1 .. a - 1 : Folded[cols[c]] # Folded[name]
  <2>1. a \in I /\ a \in 1 .. Len(cols)
    BY <1>4, <1>7
  <2>2. ASSUME NEW c \in 1 .. a - 1 PROVE c \notin I
    <3>1. ~ (a <= c)
      BY <2>1
    <3> QED BY <1>4, <1>7, <3>1
  <2>3. \A c \in 1 .. a - 1 : c \in 1 .. Len(cols)
    BY <1>1, <2>1
  <2> QED BY <2>1, <2>2, <2>3
<1>8. b # 0 => cols[b] = name
  BY <1>5
<1> QED BY <1>4, <1>5, <1>6, <1>7, <1>8 DEF a, b

-----------------------------------------------------------------------------
(* What is computed along a sequence *)

\* The last of some places is one of them.
LEMMA LastPlace ==
  ASSUME NEW n \in Nat, NEW S \in SUBSET (1 .. n), S # {}
  PROVE  Max(S) \in S /\ \A i \in S : Max(S) >= i
<1>1. S \subseteq Nat /\ \A i \in S : i <= n
  OBVIOUS
<1>2. \E m \in S : \A i \in S : m >= i
  BY <1>1, GreatestElement
<1> QED
  BY <1>2 DEF Max

\* The places up to the next one.
LEMMA NextPlace ==
  ASSUME NEW n \in Nat, NEW m \in 0 .. n, m < n
  PROVE  /\ 1 .. m + 1 \in SUBSET (1 .. n) /\ 1 .. m + 1 # {}
         /\ Max(1 .. m + 1) = m + 1 /\ (1 .. m + 1) \ {m + 1} = 1 .. m
<1>1. 1 .. m + 1 \in SUBSET (1 .. n) /\ m + 1 \in 1 .. m + 1
  OBVIOUS
<1>2. Max(1 .. m + 1) \in 1 .. m + 1 /\ \A i \in 1 .. m + 1 : Max(1 .. m + 1) >= i
  BY <1>1, LastPlace
<1>3. Max(1 .. m + 1) = m + 1
  BY <1>1, <1>2
<1> QED BY <1>1, <1>3

\* f folds the steps T over sets of the places 1 to n, the last place last.
FoldsOver(f, n, base, T) ==
  f = [S \in SUBSET (1 .. n) |-> IF S = {} THEN base ELSE T[Max(S)][f[S \ {Max(S)}]]]

\* The function that folds steps over sets of places is defined.
LEMMA FoldOfSteps ==
  ASSUME NEW X, NEW base \in X, NEW n \in Nat, NEW T \in [1 .. n -> [X -> X]]
  PROVE  \E f \in [SUBSET (1 .. n) -> X] : FoldsOver(f, n, base, T)
<1> DEFINE D == 1 .. n
           F == [SUBSET D -> X]
           At0(f, S) == IF S = {} THEN base ELSE T[Max(S)][f[S \ {Max(S)}]]
           G == [f \in F |-> [S \in SUBSET D |-> At0(f, S)]]
<1>1. IsFiniteSet(D)
  BY FS_Interval
<1>2. ASSUME NEW f \in F, NEW S \in SUBSET D PROVE At0(f, S) \in X
  <2>1. CASE S = {}
    BY <2>1
  <2>2. CASE S # {}
    <3> DEFINE m == Max(S)
    <3>1. m \in S /\ m \in D /\ S \ {m} \in SUBSET D
      BY <2>2, LastPlace
    <3> HIDE DEF m
    <3>2. f[S \ {m}] \in X /\ T[m] \in [X -> X]
      BY <3>1
    <3>3. T[m][f[S \ {m}]] \in X
      BY <3>2
    <3> QED BY <2>2, <3>3 DEF m
  <2> QED BY <2>1, <2>2
<1>3. G \in [F -> F]
  <2> HIDE DEF At0
  <2>1. \A f \in F : [S \in SUBSET D |-> At0(f, S)] \in F
    BY <1>2
  <2> HIDE DEF F
  <2> QED BY <2>1
<1>4. ASSUME NEW f \in F, NEW h \in F, NEW S \in SUBSET D, \A R \in SUBSET S : R # S => f[R] = h[R]
      PROVE  G[f][S] = G[h][S]
  <2>1. S # {} => S \ {Max(S)} \in SUBSET S /\ S \ {Max(S)} # S
    BY LastPlace
  <2>2. At0(f, S) = At0(h, S)
    BY <1>4, <2>1
  <2> HIDE DEF At0
  <2> QED BY <2>2
<1>5. PICK h \in F : G[h] = h
  <2>1. G \in [Maps(D, X) -> Maps(D, X)] /\ Local(D, X, G)
    <3> HIDE DEF D, G
    <3> QED BY <1>3, <1>4 DEF Local, Maps
  <2>2. \E h \in Maps(D, X) : G[h] = h
    <3> HIDE DEF D, G
    <3> QED BY <1>1, <2>1, SubsetRecursion
  <2> QED BY <2>2 DEF Maps
<1>6. h = [S \in SUBSET D |-> At0(h, S)]
  <2> HIDE DEF At0, F
  <2> QED BY <1>5
<1>7. FoldsOver(h, n, base, T)
  BY <1>6 DEF FoldsOver
<1> QED BY <1>5, <1>7

\* g adds up a sequence.
Adds(g, xs) ==
  /\ g \in [0 .. Len(xs) -> Int]
  /\ g[0] = 0
  /\ \A m \in 0 .. Len(xs) - 1 : g[m + 1] = g[m] + xs[m + 1]

\* A total is reached by adding one number after the other.
LEMMA TotalAdds ==
  ASSUME NEW xs \in Seq(Int)
  PROVE  \E g : Adds(g, xs) /\ Total(xs) = g[Len(xs)]
<1> DEFINE n == Len(xs)
           Sums(f) == f = [S \in SUBSET (1 .. n) |-> IF S = {} THEN 0 ELSE f[S \ {Max(S)}] + xs[Max(S)]]
           T == [d \in 1 .. n |-> [v \in Int |-> v + xs[d]]]
<1>1. n \in Nat /\ DOMAIN xs = 1 .. n /\ \A d \in 1 .. n : xs[d] \in Int
  BY LenProperties, ElementOfSeq
<1>2. \E f : Sums(f)
  <2>1. T \in [1 .. n -> [Int -> Int]]
    BY <1>1
  <2>2. PICK f \in [SUBSET (1 .. n) -> Int] : FoldsOver(f, n, 0, T)
    <3>1. 0 \in Int
      OBVIOUS
    <3> HIDE DEF T, n
    <3> QED BY <1>1, <2>1, <3>1, FoldOfSteps
  <2>3. ASSUME NEW S \in SUBSET (1 .. n), S # {} PROVE T[Max(S)][f[S \ {Max(S)}]] = f[S \ {Max(S)}] + xs[Max(S)]
    <3>1. Max(S) \in 1 .. n
      BY <1>1, <2>3, LastPlace
    <3>2. f[S \ {Max(S)}] \in Int
      OBVIOUS
    <3> QED BY <3>1, <3>2
  <2>4. Sums(f)
    <3> HIDE DEF T, n
    <3> QED BY <2>2, <2>3 DEF FoldsOver
  <2> QED BY <2>4
<1> DEFINE s == CHOOSE f : Sums(f)
<1>3. Sums(s)
  <2> HIDE DEF Sums
  <2> QED BY <1>2
<1>4. Total(xs) = s[1 .. n]
  BY <1>1, SMT DEF Total, FoldLeft, MapThenFoldSet
<1> HIDE DEF s
<1> DEFINE g == [m \in 0 .. n |-> s[1 .. m]]
<1>5. g[0] = 0
  <2>1. 1 .. 0 = {} /\ 1 .. 0 \in SUBSET (1 .. n)
    OBVIOUS
  <2> QED BY <1>1, <1>3, <2>1
<1>6. ASSUME NEW m \in 0 .. n - 1 PROVE g[m + 1] = g[m] + xs[m + 1]
  <2>1. m \in 0 .. n /\ m < n /\ m + 1 \in 0 .. n
    BY <1>1
  <2>2. /\ 1 .. m + 1 \in SUBSET (1 .. n) /\ 1 .. m + 1 # {}
        /\ Max(1 .. m + 1) = m + 1 /\ (1 .. m + 1) \ {m + 1} = 1 .. m
    BY <1>1, <2>1, NextPlace
  <2>3. s[1 .. m + 1] = s[1 .. m] + xs[m + 1]
    <3> HIDE DEF n
    <3> QED BY <1>3, <2>2
  <2> QED BY <2>1, <2>3
<1>7. g \in [0 .. n -> Int]
  <2> DEFINE I == {m \in Nat : m <= n => g[m] \in Int}
  <2>1. 0 \in I
    BY <1>5
  <2>2. ASSUME NEW m \in Nat, m \in I PROVE m + 1 \in I
    <3> SUFFICES ASSUME m + 1 <= n PROVE g[m + 1] \in Int
      OBVIOUS
    <3>1. m \in 0 .. n - 1 /\ g[m] \in Int /\ m + 1 \in 1 .. n
      BY <1>1, <2>2
    <3> HIDE DEF g, n
    <3> QED BY <1>1, <1>6, <3>1
  <2>3. Nat \subseteq I
    <3> HIDE DEF I
    <3> QED BY <2>1, <2>2, SetInduction
  <2>4. \A m \in 0 .. n : g[m] \in Int
    <3> HIDE DEF g, n
    <3> QED BY <2>3
  <2> QED BY <2>4
<1>8. Adds(g, xs)
  <2> HIDE DEF g
  <2> QED BY <1>5, <1>6, <1>7 DEF Adds
<1>9. Total(xs) = g[Len(xs)]
  BY <1>1, <1>4
<1> QED BY <1>8, <1>9

\* f puts the sequences of ss behind one another.
Joins(f, ss, S) ==
  /\ f \in [0 .. Len(ss) -> Seq(S)]
  /\ f[0] = <<>>
  /\ \A m \in 0 .. Len(ss) - 1 : f[m + 1] = f[m] \o ss[m + 1]

\* So does flattening.
LEMMA Flattens ==
  ASSUME NEW S, NEW ss \in Seq(Seq(S))
  PROVE  \E f : Joins(f, ss, S) /\ FlattenSeq(ss) = f[Len(ss)]
<1> DEFINE n == Len(ss)
           Joined(f) == f = [i \in 1 .. n |-> IF i = 1 THEN ss[i] ELSE f[i - 1] \o ss[i]]
           T == [d \in 1 .. n |-> [v \in Seq(S) |-> v \o ss[d]]]
<1>1. n \in Nat /\ DOMAIN ss = 1 .. n /\ \A d \in 1 .. n : ss[d] \in Seq(S)
  BY LenProperties, ElementOfSeq
<1>2. PICK g : Iterates(g, Seq(S), n, <<>>, T)
  <2>1. T \in [1 .. n -> [Seq(S) -> Seq(S)]]
    BY <1>1, ConcatProperties
  <2>2. <<>> \in Seq(S)
    BY EmptySeq
  <2> HIDE DEF T, n
  <2> QED BY <1>1, <2>1, <2>2, Iteration
<1>3. g \in [0 .. n -> Seq(S)] /\ g[0] = <<>>
  BY <1>2 DEF Iterates
<1>4. \A d \in 1 .. n : g[d] = g[d - 1] \o ss[d]
  <2> SUFFICES ASSUME NEW d \in 1 .. n PROVE g[d] = g[d - 1] \o ss[d]
    OBVIOUS
  <2>1. g[d - 1] \in Seq(S)
    <3>1. d - 1 \in 0 .. n
      BY <1>1
    <3> HIDE DEF n
    <3> QED BY <1>3, <3>1
  <2>2. g[d] = T[d][g[d - 1]]
    <3> HIDE DEF T, n
    <3> QED BY <1>2 DEF Iterates
  <2> QED BY <2>1, <2>2
<1>5. Joins(g, ss, S)
  <2>1. \A m \in 0 .. n - 1 : m + 1 \in 1 .. n /\ (m + 1) - 1 = m
    BY <1>1
  <2> QED BY <1>3, <1>4, <2>1 DEF Joins
<1>6. CASE n = 0
  <2>1. ss = <<>>
    BY <1>6, EmptySeq
  <2> QED BY <1>3, <1>5, <1>6, <2>1 DEF FlattenSeq
<1>7. CASE n # 0
  <2> DEFINE h == [i \in 1 .. n |-> g[i]]
  <2>1. Joined(h)
    <3>1. ASSUME NEW i \in 1 .. n PROVE h[i] = IF i = 1 THEN ss[i] ELSE h[i - 1] \o ss[i]
      <4>1. CASE i = 1
        <5>1. h[i] = g[0] \o ss[1]
          <6>1. 1 - 1 = 0 /\ h[i] = g[1]
            BY <4>1
          <6> HIDE DEF n, h
          <6> QED BY <1>4, <4>1, <6>1
        <5> QED BY <1>1, <1>3, <4>1, <5>1, ConcatEmptySeq
      <4>2. CASE i # 1
        <5>1. i - 1 \in 1 .. n
          BY <4>2
        <5> QED BY <1>4, <4>2, <5>1
      <4> QED BY <4>1, <4>2
    <3> HIDE DEF n
    <3> QED BY <3>1
  <2> DEFINE f == CHOOSE e : Joined(e)
  <2>2. Joined(f)
    <3> HIDE DEF Joined, h
    <3> QED BY <2>1
  <2>3. FlattenSeq(ss) = f[n]
    BY <1>7 DEF FlattenSeq
  <2> HIDE DEF f
  <2> DEFINE I == {m \in Nat : m + 1 <= n => f[m + 1] = g[m + 1]}
  <2>4. 0 \in I
    <3>1. 1 \in 1 .. n /\ g[1] = g[0] \o ss[1]
      <4>1. 1 - 1 = 0 /\ 1 \in 1 .. n
        BY <1>1, <1>7
      <4> HIDE DEF n
      <4> QED BY <1>4, <4>1
    <3>2. f[1] = ss[1]
      <4> HIDE DEF n
      <4> QED BY <2>2, <3>1
    <3> QED BY <1>1, <1>3, <3>1, <3>2, ConcatEmptySeq
  <2>5. ASSUME NEW m \in Nat, m \in I PROVE m + 1 \in I
    <3> SUFFICES ASSUME (m + 1) + 1 <= n PROVE f[(m + 1) + 1] = g[(m + 1) + 1]
      OBVIOUS
    <3>1. (m + 1) + 1 \in 1 .. n /\ (m + 1) + 1 # 1 /\ ((m + 1) + 1) - 1 = m + 1 /\ m + 1 <= n
      BY <1>1
    <3>2. f[(m + 1) + 1] = f[m + 1] \o ss[(m + 1) + 1]
      <4> HIDE DEF n
      <4> QED BY <2>2, <3>1
    <3>3. g[(m + 1) + 1] = g[m + 1] \o ss[(m + 1) + 1]
      <4> HIDE DEF n
      <4> QED BY <1>4, <3>1
    <3>4. f[m + 1] = g[m + 1]
      BY <2>5, <3>1
    <3> QED BY <3>2, <3>3, <3>4
  <2>6. Nat \subseteq I
    <3> HIDE DEF I
    <3> QED BY <2>4, <2>5, SetInduction
  <2>7. f[n] = g[n]
    <3>1. n - 1 \in Nat /\ (n - 1) + 1 = n
      BY <1>1, <1>7
    <3>2. n - 1 \in I
      <4> HIDE DEF I
      <4> QED BY <2>6, <3>1
    <3> QED BY <1>1, <3>1, <3>2
  <2>8. FlattenSeq(ss) = g[Len(ss)]
    BY <2>3, <2>7
  <2> QED BY <1>5, <2>8
<1> QED BY <1>6, <1>7

\* The function that joins sequences has one value for each number of them.
LEMMA JoinsOnce ==
  ASSUME NEW S, NEW ss \in Seq(Seq(S)), NEW f, Joins(f, ss, S), NEW g, Joins(g, ss, S)
  PROVE  f = g
<1> DEFINE n == Len(ss)
           I == {m \in Nat : m <= n => f[m] = g[m]}
<1>1. n \in Nat
  BY LenProperties
<1>2. 0 \in I
  BY DEF Joins
<1>3. ASSUME NEW m \in Nat, m \in I PROVE m + 1 \in I
  <2> SUFFICES ASSUME m + 1 <= n PROVE f[m + 1] = g[m + 1]
    OBVIOUS
  <2>1. m \in 0 .. n - 1 /\ f[m] = g[m]
    BY <1>1, <1>3
  <2> QED BY <2>1 DEF Joins
<1>4. Nat \subseteq I
  <2> HIDE DEF I
  <2> QED BY <1>2, <1>3, SetInduction
<1>5. \A m \in 0 .. n : f[m] = g[m]
  BY <1>4
<1> QED BY <1>5 DEF Joins

-----------------------------------------------------------------------------
(* Values and results *)

\* The values that stages make.
LEMMA MadeValues ==
  /\ Null \in Value
  /\ \A u \in Int : Real(u) \in Value /\ Whole(u) \in Value
  /\ \A s \in Seq(Char) : Str(s) \in Value
<1>1. Null \in Value
  BY DEF Null, Value
<1>2. ASSUME NEW u \in Int PROVE Real(u) \in Value /\ Whole(u) \in Value
  <2>1. u * Unit \in Int
    BY UnitAssumption
  <2> QED BY <2>1 DEF Real, Whole, Value
<1>3. ASSUME NEW s \in Seq(Char) PROVE Str(s) \in Value
  BY <1>3 DEF Str, Value
<1> QED BY <1>1, <1>2, <1>3

\* What a value is, as a number, as a text and exploded.
LEMMA ReadValues ==
  ASSUME NEW v \in Value
  PROVE  /\ ToFloat64(v) \in Int
         /\ Text(v) \in Seq(Char)
         /\ ExplodeValue(v) \in Seq(Value)
         /\ IsNumber(v) => v[2] \in Int
<1>1. CASE v \in {"null"} \X {0}
  <2>1. v[1] = "null"
    BY <1>1
  <2>2. NilText \in Seq(Char)
    <3>1. -99 \in Char
      BY DEF Char
    <3> QED BY <3>1 DEF NilText
  <2>3. <<>> \in Seq(Value)
    BY EmptySeq
  <2> QED BY <2>1, <2>2, <2>3 DEF ToFloat64, Text, ExplodeValue, IsNumber
<1>2. CASE v \in {"int", "real"} \X Int
  <2>1. v[1] \in {"int", "real"} /\ v[2] \in Int
    BY <1>2
  <2>2. << v[2] >> \in Seq(Char)
    <3>1. v[2] \in Char
      BY <2>1 DEF Char
    <3> QED BY <3>1
  <2>3. << v >> \in Seq(Value)
    OBVIOUS
  <2> QED BY <2>1, <2>2, <2>3 DEF ToFloat64, Text, ExplodeValue, IsNumber
<1>3. CASE v \in {"text"} \X Seq(Char)
  <2>1. v[1] = "text" /\ v[2] \in Seq(Char)
    BY <1>3
  <2>2. << v >> \in Seq(Value)
    OBVIOUS
  <2> QED BY <2>1, <2>2 DEF ToFloat64, Text, ExplodeValue, IsNumber
<1>4. CASE v \in {"list", "json"} \X Seq(Elements)
  <2>1. v[1] \in {"list", "json"} /\ v[2] \in Seq(Elements)
    BY <1>4
  <2>2. << v[2] >> \in Seq(Char)
    <3>1. v[2] \in Char
      BY <2>1 DEF Char
    <3> QED BY <3>1
  <2>3. v[2] \in Seq(Value)
    BY <2>1, ElementsAssumption, SeqMonotonic
  <2>4. [n \in DOMAIN v[2] |-> Decoded(v[2][n])] \in Seq(Value)
    <3>1. Len(v[2]) \in Nat /\ DOMAIN v[2] = 1 .. Len(v[2]) /\ \A n \in DOMAIN v[2] : v[2][n] \in Value
      BY <2>3, LenProperties, ElementOfSeq
    <3>2. ASSUME NEW n \in DOMAIN v[2] PROVE Decoded(v[2][n]) \in Value
      <4>1. ASSUME NEW e \in Value, IsNumber(e) PROVE e[2] \in Int
        <5>1. e[1] \in {"int", "real"}
          BY <4>1 DEF IsNumber
        <5> QED BY <5>1 DEF Value
      <4> QED BY <3>1, <4>1, MadeValues DEF Decoded
    <3> QED BY <3>1, <3>2, IsASeq
  <2>5. ToFloat64(v) = 0 /\ Text(v) = << v[2] >> /\ ~ IsNumber(v)
    BY <2>1 DEF ToFloat64, Text, IsNumber
  <2>6. CASE v[1] = "list"
    BY <2>2, <2>3, <2>5, <2>6 DEF ExplodeValue
  <2>7. CASE v[1] = "json"
    BY <2>2, <2>4, <2>5, <2>7 DEF ExplodeValue
  <2> QED BY <2>1, <2>6, <2>7
<1> QED BY <1>1, <1>2, <1>3, <1>4 DEF Value

\* Rows of a width.
Wide(n) == {row \in Seq(Value) : Len(row) = n}

\* A result is its columns and rows as wide as them.
LEMMA ResultShape ==
  ASSUME NEW x \in Result
  PROVE  /\ x.cols \in Seq(STRING) /\ x.rows \in Seq(Wide(Len(x.cols)))
         /\ Len(x.cols) \in Nat /\ Len(x.rows) \in Nat
         /\ DOMAIN x.cols = 1 .. Len(x.cols) /\ DOMAIN x.rows = 1 .. Len(x.rows)
         /\ \A j \in DOMAIN x.rows : x.rows[j] \in Wide(Len(x.cols))
         /\ x = [cols |-> x.cols, rows |-> x.rows]
<1>1. /\ x \in [cols : Seq(STRING), rows : Seq(Seq(Value))]
      /\ \A j \in DOMAIN x.rows : Len(x.rows[j]) = Len(x.cols)
  BY DEF Result
<1>2. x.cols \in Seq(STRING) /\ x.rows \in Seq(Seq(Value)) /\ x = [cols |-> x.cols, rows |-> x.rows]
  BY <1>1
<1>3. /\ Len(x.cols) \in Nat /\ Len(x.rows) \in Nat
      /\ DOMAIN x.cols = 1 .. Len(x.cols) /\ DOMAIN x.rows = 1 .. Len(x.rows)
      /\ \A j \in DOMAIN x.rows : x.rows[j] \in Seq(Value)
  BY <1>2, LenProperties, ElementOfSeq
<1>4. \A j \in DOMAIN x.rows : x.rows[j] \in Wide(Len(x.cols))
  BY <1>1, <1>3 DEF Wide
<1>5. x.rows \in Seq(Wide(Len(x.cols)))
  <2>1. x.rows = [j \in 1 .. Len(x.rows) |-> x.rows[j]]
    BY <1>2, <1>3, LenProperties
  <2>2. [j \in 1 .. Len(x.rows) |-> x.rows[j]] \in Seq(Wide(Len(x.cols)))
    BY <1>3, <1>4, IsASeq
  <2> QED BY <2>1, <2>2
<1> QED BY <1>2, <1>3, <1>4, <1>5

\* And the other way round.
LEMMA ShapeResult ==
  ASSUME NEW cols \in Seq(STRING), NEW rows \in Seq(Wide(Len(cols)))
  PROVE  [cols |-> cols, rows |-> rows] \in Result
<1> DEFINE x == [cols |-> cols, rows |-> rows]
<1>1. rows \in Seq(Seq(Value))
  <2>1. Wide(Len(cols)) \subseteq Seq(Value)
    BY DEF Wide
  <2> QED BY <2>1, SeqMonotonic
<1>2. \A j \in DOMAIN rows : Len(rows[j]) = Len(cols)
  BY ElementOfSeq, LenProperties DEF Wide
<1>3. x \in [cols : Seq(STRING), rows : Seq(Seq(Value))]
  BY <1>1
<1>4. \A j \in DOMAIN x.rows : Len(x.rows[j]) = Len(x.cols)
  BY <1>2
<1> HIDE DEF x
<1> QED BY <1>3, <1>4 DEF Result, x

\* A function on the places of a sequence is one.
LEMMA MadeSeq ==
  ASSUME NEW S, NEW n \in Nat, NEW f, DOMAIN f = 1 .. n, f = [j \in 1 .. n |-> f[j]], \A j \in 1 .. n : f[j] \in S
  PROVE  f \in Seq(S) /\ Len(f) = n
<1>1. f \in [1 .. n -> S]
  OBVIOUS
<1> QED BY <1>1, IsASeq, LenProperties

\* A row with one value changed is as wide.
LEMMA RowExcept ==
  ASSUME NEW n, NEW row \in Wide(n), NEW at \in 1 .. n, NEW v \in Value
  PROVE  [row EXCEPT ![at] = v] \in Wide(n)
<1>1. row \in Seq(Value) /\ Len(row) = n
  BY DEF Wide
<1>2. [row EXCEPT ![at] = v] \in Seq(Value) /\ Len([row EXCEPT ![at] = v]) = n
  BY <1>1, ExceptSeq
<1> QED BY <1>2 DEF Wide

\* The rows one row is exploded into: at least one, the row but for one value.
LEMMA ExplodedRow ==
  ASSUME NEW n \in Nat, NEW row \in Wide(n), NEW at \in 1 .. n
  PROVE  /\ ExplodeRow(row, at) \in Seq(Wide(n)) /\ Len(ExplodeRow(row, at)) \in Nat \ {0}
         /\ \A e \in 1 .. Len(ExplodeRow(row, at)) : \A c \in 1 .. n : c # at => ExplodeRow(row, at)[e][c] = row[c]
<1> DEFINE elems == ExplodeValue(row[at])
<1>1. row \in Seq(Value) /\ Len(row) = n /\ DOMAIN row = 1 .. n
  BY LenProperties DEF Wide
<1>2. elems \in Seq(Value)
  BY <1>1, ElementOfSeq, ReadValues
<1>3. Len(elems) \in Nat /\ DOMAIN elems = 1 .. Len(elems) /\ \A e \in 1 .. Len(elems) : elems[e] \in Value
  BY <1>2, LenProperties, ElementOfSeq
<1> HIDE DEF elems
<1>4. \A v \in Value : /\ [row EXCEPT ![at] = v] \in Wide(n)
                       /\ \A c \in 1 .. n : c # at => [row EXCEPT ![at] = v][c] = row[c]
  BY <1>1, RowExcept
<1>5. CASE elems = <<>>
  <2> DEFINE one == [row EXCEPT ![at] = Null]
  <2>1. ExplodeRow(row, at) = << one >>
    BY <1>5 DEF ExplodeRow, elems
  <2>2. one \in Wide(n) /\ \A c \in 1 .. n : c # at => one[c] = row[c]
    BY <1>4, MadeValues
  <2> HIDE DEF one
  <2> QED BY <2>1, <2>2
<1>6. CASE elems # <<>>
  <2> DEFINE each == [e \in 1 .. Len(elems) |-> [row EXCEPT ![at] = elems[e]]]
  <2>1. ExplodeRow(row, at) = each
    BY <1>3, <1>6 DEF ExplodeRow, elems
  <2>2. \A e \in 1 .. Len(elems) : each[e] \in Wide(n) /\ \A c \in 1 .. n : c # at => each[e][c] = row[c]
    BY <1>3, <1>4
  <2>3. DOMAIN each = 1 .. Len(elems) /\ each = [e \in 1 .. Len(elems) |-> each[e]]
    OBVIOUS
  <2> HIDE DEF each
  <2>4. each \in Seq(Wide(n)) /\ Len(each) = Len(elems)
    BY <1>3, <2>2, <2>3, MadeSeq
  <2>5. Len(elems) # 0
    BY <1>2, <1>6, EmptySeq
  <2> QED BY <1>3, <2>1, <2>2, <2>4, <2>5
<1> QED BY <1>5, <1>6

\* Rows behind one another are rows.
LEMMA FlattenTyped ==
  ASSUME NEW S, NEW ss \in Seq(Seq(S))
  PROVE  FlattenSeq(ss) \in Seq(S)
<1>1. PICK f : Joins(f, ss, S) /\ FlattenSeq(ss) = f[Len(ss)]
  BY Flattens
<1>2. Len(ss) \in 0 .. Len(ss)
  BY LenProperties
<1> QED BY <1>1, <1>2 DEF Joins

\* The rows a result's rows are exploded into.
Exploded(x, at) == [j \in DOMAIN x.rows |-> ExplodeRow(x.rows[j], at)]
LEMMA ExplodedTyped ==
  ASSUME NEW x \in Result, NEW at \in 1 .. Len(x.cols)
  PROVE  /\ Exploded(x, at) \in Seq(Seq(Wide(Len(x.cols)))) /\ Len(Exploded(x, at)) = Len(x.rows)
         /\ FlattenSeq(Exploded(x, at)) \in Seq(Wide(Len(x.cols)))
<1> DEFINE n == Len(x.cols)
           each == [j \in 1 .. Len(x.rows) |-> ExplodeRow(x.rows[j], at)]
<1>1. n \in Nat /\ Len(x.rows) \in Nat /\ DOMAIN x.rows = 1 .. Len(x.rows) /\ \A j \in DOMAIN x.rows : x.rows[j] \in Wide(n)
  BY ResultShape
<1>2. Exploded(x, at) = each
  BY <1>1 DEF Exploded
<1>3. \A j \in 1 .. Len(x.rows) : each[j] \in Seq(Wide(n))
  BY <1>1, ExplodedRow
<1>4. DOMAIN each = 1 .. Len(x.rows) /\ each = [j \in 1 .. Len(x.rows) |-> each[j]]
  OBVIOUS
<1> HIDE DEF each, n
<1>5. each \in Seq(Seq(Wide(n))) /\ Len(each) = Len(x.rows)
  BY <1>1, <1>3, <1>4, MadeSeq
<1> QED BY <1>2, <1>5, FlattenTyped DEF n

\* mv-expand leaves a result.
LEMMA MvExpandTyped ==
  ASSUME NEW x \in Result, NEW st \in Stages
  PROVE  MvExpandRows(x, st) \in Result
<1> DEFINE at == ExactIndex(x.cols, Source(st))
           out == IF st.name = "" THEN Source(st) ELSE st.name
           cols == [x.cols EXCEPT ![at] = out]
<1>1. CASE at = 0
  BY <1>1 DEF MvExpandRows
<1>2. CASE at # 0
  <2>1. MvExpandRows(x, st) = [cols |-> cols, rows |-> FlattenSeq(Exploded(x, at))]
    BY <1>2 DEF MvExpandRows, Exploded
  <2>2. x.cols \in Seq(STRING) /\ at \in 1 .. Len(x.cols)
    BY <1>2, ResultShape, Indices
  <2>3. out \in STRING
    BY StagesAssumption DEF WellFormed, Source
  <2> HIDE DEF at, out
  <2>4. cols \in Seq(STRING) /\ Len(cols) = Len(x.cols)
    BY <2>2, <2>3, ExceptSeq
  <2>5. FlattenSeq(Exploded(x, at)) \in Seq(Wide(Len(x.cols)))
    BY <2>2, ExplodedTyped
  <2> HIDE DEF cols
  <2> QED BY <2>1, <2>4, <2>5, ShapeResult
<1> QED BY <1>1, <1>2

-----------------------------------------------------------------------------
(* Patterns *)

\* at and b start the first n tokens at the same places, or the first they do not at a
\* smaller one.
UpTo(n, at, b) ==
  \/ \A j \in 1 .. n : at[j] = b[j]
  \/ \E q \in 1 .. n : at[q] < b[q] /\ \A j \in 1 .. q - 1 : at[j] = b[j]

\* Of functions into the naturals, one is the leftmost.
LEMMA LeftmostIsOne ==
  ASSUME NEW n \in Nat, NEW S, S \subseteq [1 .. n -> Nat], S # {}
  PROVE  Leftmost(S) \in S /\ \A b \in S \ {Leftmost(S)} : Shorter(Leftmost(S), b)
<1> DEFINE I == {d \in Nat : d <= n => \E at \in S : \A b \in S : UpTo(d, at, b)}
<1>1. 0 \in I
  BY DEF UpTo
<1>2. ASSUME NEW d \in Nat, d \in I PROVE d + 1 \in I
  <2> SUFFICES ASSUME d + 1 <= n PROVE \E at \in S : \A b \in S : UpTo(d + 1, at, b)
    OBVIOUS
  <2>1. PICK at \in S : \A b \in S : UpTo(d, at, b)
    BY <1>2
  <2> DEFINE T == {b \in S : \A j \in 1 .. d : at[j] = b[j]}
             V == {b[d + 1] : b \in T}
  <2>2. d + 1 \in 1 .. n /\ \A b \in S : b[d + 1] \in Nat
    OBVIOUS
  <2>3. V \subseteq Nat /\ V # {}
    BY <2>2
  <2>4. PICK v \in V : \A w \in V : v <= w
    <3> HIDE DEF V
    <3> QED BY <2>3, LeastElement
  <2>5. PICK c \in T : c[d + 1] = v
    BY <2>4
  <2>6. ASSUME NEW b \in S PROVE UpTo(d + 1, c, b)
    <3>1. \A j \in 1 .. d : at[j] = c[j]
      BY <2>5
    <3>2. CASE b \in T
      <4>1. c[d + 1] <= b[d + 1] /\ c[d + 1] \in Nat /\ b[d + 1] \in Nat
        BY <2>2, <2>4, <2>5, <3>2
      <4>2. \A j \in 1 .. d : c[j] = b[j]
        BY <3>1, <3>2
      <4>3. CASE c[d + 1] = b[d + 1]
        <5>1. \A j \in 1 .. d + 1 : j \in 1 .. d \/ j = d + 1
          OBVIOUS
        <5> QED BY <4>2, <4>3, <5>1 DEF UpTo
      <4>4. CASE c[d + 1] < b[d + 1]
        <5>1. d + 1 \in 1 .. d + 1 /\ (d + 1) - 1 = d
          OBVIOUS
        <5> QED BY <4>2, <4>4, <5>1 DEF UpTo
      <4> QED BY <4>1, <4>3, <4>4
    <3>3. CASE b \notin T
      <4>1. PICK q \in 1 .. d : at[q] < b[q] /\ \A j \in 1 .. q - 1 : at[j] = b[j]
        BY <2>1, <3>3 DEF UpTo
      <4>2. q \in 1 .. d + 1 /\ \A j \in 1 .. q - 1 : j \in 1 .. d
        OBVIOUS
      <4>3. c[q] < b[q] /\ \A j \in 1 .. q - 1 : c[j] = b[j]
        BY <3>1, <4>1, <4>2
      <4> QED BY <4>2, <4>3 DEF UpTo
    <3> QED BY <3>2, <3>3
  <2> QED BY <2>5, <2>6
<1>3. n \in I
  <2> HIDE DEF I
  <2> QED BY <1>1, <1>2, SetInduction
<1>4. PICK at \in S : \A b \in S : UpTo(n, at, b)
  BY <1>3
<1>5. ASSUME NEW b \in S \ {at} PROVE Shorter(at, b)
  <2>1. at \in [1 .. n -> Nat] /\ b \in [1 .. n -> Nat] /\ at # b
    OBVIOUS
  <2>2. ~ \A j \in 1 .. n : at[j] = b[j]
    BY <2>1
  <2>3. PICK q \in 1 .. n : at[q] < b[q] /\ \A j \in 1 .. q - 1 : at[j] = b[j]
    BY <1>4, <2>2 DEF UpTo
  <2> QED BY <2>1, <2>3 DEF Shorter
<1>6. \E c \in S : \A b \in S \ {c} : Shorter(c, b)
  BY <1>5
<1> QED BY <1>6, Zenon DEF Leftmost

\* The captures of a pattern, in order.
LEMMA CapturesInOrder ==
  ASSUME NEW pattern \in Seq(Token)
  PROVE  /\ Captures(pattern) \in Seq(DOMAIN pattern) /\ Len(Captures(pattern)) \in Nat
         /\ DOMAIN Captures(pattern) = 1 .. Len(Captures(pattern))
         /\ \A i \in DOMAIN Captures(pattern) :
              /\ Captures(pattern)[i] \in 1 .. Len(pattern)
              /\ pattern[Captures(pattern)[i]].kind = "capture"
              /\ pattern[Captures(pattern)[i]].name \in STRING
<1> DEFINE P == {q \in DOMAIN pattern : pattern[q].kind = "capture"}
<1>1. Len(pattern) \in Nat /\ DOMAIN pattern = 1 .. Len(pattern)
  BY LenProperties
<1>2. P \subseteq Nat /\ P \subseteq 1 .. Len(pattern) /\ IsFiniteSet(P)
  <2>1. IsFiniteSet(1 .. Len(pattern)) /\ P \in SUBSET (1 .. Len(pattern))
    BY <1>1, FS_Interval
  <2> QED BY <1>1, <2>1, FS_Subset
<1>3. Captures(pattern) = Ascending(P)
  BY DEF Captures
<1>4. \A q \in P : pattern[q].kind = "capture" /\ pattern[q].name \in STRING
  <2> SUFFICES ASSUME NEW q \in P PROVE pattern[q].name \in STRING
    OBVIOUS
  <2>1. pattern[q] \in Token /\ pattern[q].kind = "capture"
    BY ElementOfSeq
  <2> QED BY <2>1 DEF Token
<1> HIDE DEF P
<1>5. Ascending(P) \in Seq(P) /\ Len(Ascending(P)) \in Nat /\ Ascending(P) \in [1 .. Len(Ascending(P)) -> P]
  <2>1. /\ Cardinality(P) \in Nat /\ Ascending(P) \in Seq(P) /\ Len(Ascending(P)) = Cardinality(P)
        /\ Ascending(P) \in [1 .. Cardinality(P) -> P]
    BY <1>2, AscendingPlaces
  <2> QED BY <2>1
<1>6. Ascending(P) \in Seq(DOMAIN pattern)
  BY <1>1, <1>2, <1>5, SeqMonotonic
<1> QED BY <1>2, <1>3, <1>4, <1>5, <1>6

\* What a pattern makes of a text: a value for each capture.
LEMMA MatchTyped ==
  ASSUME NEW pattern \in Seq(Token), NEW text \in Seq(Char)
  PROVE  /\ MatchParsePattern(pattern, text).vals \in Seq(Value)
         /\ Len(MatchParsePattern(pattern, text).vals) = Len(Captures(pattern))
         /\ MatchParsePattern(pattern, text).matched <=> Covers(pattern, text) # {}
<1> DEFINE S == Covers(pattern, text)
           at == Leftmost(S)
           C == Captures(pattern)
           none == [i \in DOMAIN C |-> Null]
           some == [i \in DOMAIN C |-> Str(SubSeq(text, at[C[i]] + 1, at[C[i] + 1]))]
<1>1. Len(pattern) \in Nat /\ Len(text) \in Nat
  BY LenProperties
<1>2. /\ Len(C) \in Nat /\ DOMAIN C = 1 .. Len(C)
      /\ \A i \in 1 .. Len(C) : C[i] \in 1 .. Len(pattern)
  BY CapturesInOrder
<1>3. S \subseteq [1 .. Len(pattern) + 1 -> 0 .. Len(text)]
  BY DEF Covers
<1>4. MatchParsePattern(pattern, text) =
        IF S = {} THEN [matched |-> FALSE, vals |-> none] ELSE [matched |-> TRUE, vals |-> some]
  BY DEF MatchParsePattern
<1> HIDE DEF S, C
<1>5. CASE S = {}
  <2>1. \A i \in 1 .. Len(C) : none[i] \in Value
    BY <1>2, MadeValues
  <2>2. DOMAIN none = 1 .. Len(C) /\ none = [i \in 1 .. Len(C) |-> none[i]]
    BY <1>2
  <2> HIDE DEF none
  <2>3. none \in Seq(Value) /\ Len(none) = Len(C)
    BY <1>2, <2>1, <2>2, MadeSeq
  <2> QED BY <1>4, <1>5, <2>3 DEF S, C
<1>6. CASE S # {}
  <2>1. at \in [1 .. Len(pattern) + 1 -> 0 .. Len(text)]
    <3>1. Len(pattern) + 1 \in Nat /\ S \subseteq [1 .. Len(pattern) + 1 -> Nat]
      BY <1>1, <1>3
    <3>2. at \in S
      BY <1>6, <3>1, LeftmostIsOne
    <3> QED BY <1>3, <3>2
  <2> HIDE DEF at
  <2>2. ASSUME NEW i \in 1 .. Len(C) PROVE some[i] \in Value
    <3>1. C[i] \in 1 .. Len(pattern) + 1 /\ C[i] + 1 \in 1 .. Len(pattern) + 1
      BY <1>1, <1>2
    <3>2. at[C[i]] \in 0 .. Len(text) /\ at[C[i] + 1] \in 0 .. Len(text)
      BY <2>1, <3>1
    <3>3. \A a \in 0 .. Len(text), b \in 0 .. Len(text) : SubSeq(text, a + 1, b) \in Seq(Char)
      <4> SUFFICES ASSUME NEW a \in 0 .. Len(text), NEW b \in 0 .. Len(text)
                   PROVE  SubSeq(text, a + 1, b) \in Seq(Char)
        OBVIOUS
      <4>1. \A p \in a + 1 .. b : text[p] \in Char
        BY <1>1, ElementOfSeq, LenProperties
      <4> QED BY <1>1, <4>1, SubSeqProperties
    <3>4. Str(SubSeq(text, at[C[i]] + 1, at[C[i] + 1])) \in Value
      BY <3>2, <3>3, MadeValues
    <3> QED BY <1>2, <3>4
  <2>3. DOMAIN some = 1 .. Len(C) /\ some = [i \in 1 .. Len(C) |-> some[i]]
    BY <1>2
  <2> HIDE DEF some
  <2>4. some \in Seq(Value) /\ Len(some) = Len(C)
    BY <1>2, <2>2, <2>3, MadeSeq
  <2> QED BY <1>4, <1>6, <2>4 DEF S, C
<1> QED BY <1>5, <1>6

\* Rows with more values behind them.
LEMMA WiderRow ==
  ASSUME NEW m \in Nat, NEW n \in Nat, NEW row \in Wide(m), NEW vals \in Wide(n)
  PROVE  /\ row \o vals \in Wide(m + n)
         /\ \A c \in 1 .. m : (row \o vals)[c] = row[c]
         /\ \A c \in 1 .. n : (row \o vals)[m + c] = vals[c]
<1>1. row \in Seq(Value) /\ Len(row) = m /\ vals \in Seq(Value) /\ Len(vals) = n
  BY DEF Wide
<1>2. /\ row \o vals \in Seq(Value) /\ Len(row \o vals) = m + n
      /\ \A c \in 1 .. m + n : (row \o vals)[c] = IF c <= m THEN row[c] ELSE vals[c - m]
  BY <1>1, ConcatProperties
<1>3. ASSUME NEW c \in 1 .. n PROVE (row \o vals)[m + c] = vals[c]
  <2>1. m + c \in 1 .. m + n /\ ~ (m + c <= m) /\ (m + c) - m = c
    OBVIOUS
  <2> QED BY <1>2, <2>1
<1>4. ASSUME NEW c \in 1 .. m PROVE (row \o vals)[c] = row[c]
  <2>1. c \in 1 .. m + n /\ c <= m
    OBVIOUS
  <2> QED BY <1>2, <2>1
<1> QED BY <1>2, <1>3, <1>4 DEF Wide

\* What a row's text is parsed into.
ParsedText(row, at) == IF row[at] = Null THEN <<>> ELSE Text(row[at])
ParsedVals(row, at, st) == MatchParsePattern(st.pattern, ParsedText(row, at)).vals
LEMMA ParsedRow ==
  ASSUME NEW n \in Nat, NEW row \in Wide(n), NEW at \in 1 .. n, NEW st \in Stages
  PROVE  /\ ParsedText(row, at) \in Seq(Char)
         /\ ParsedVals(row, at, st) \in Wide(Len(Captures(st.pattern)))
         /\ Len(Captures(st.pattern)) \in Nat
<1>1. row[at] \in Value
  BY ElementOfSeq DEF Wide
<1>2. ParsedText(row, at) \in Seq(Char)
  BY <1>1, ReadValues, EmptySeq DEF ParsedText
<1>3. st.pattern \in Seq(Token)
  BY StagesAssumption DEF WellFormed
<1> QED BY <1>2, <1>3, MatchTyped, CapturesInOrder DEF ParsedVals, Wide

\* The rows parse keeps.
Kept(x, at, st) ==
  IF st.where
  THEN Picked(x.rows, {j \in DOMAIN x.rows : MatchParsePattern(st.pattern, ParsedText(x.rows[j], at)).matched})
  ELSE x.rows
ParsedRows(x, at, st) ==
  [j \in DOMAIN Kept(x, at, st) |-> Kept(x, at, st)[j] \o ParsedVals(Kept(x, at, st)[j], at, st)]
ParsedCols(x, st) ==
  x.cols \o [i \in DOMAIN Captures(st.pattern) |-> st.pattern[Captures(st.pattern)[i]].name]

\* In terms of them, parse is one row after the other.
LEMMA ParseIs ==
  ASSUME NEW x \in Result, NEW st \in Stages, ExactIndex(x.cols, st.target) # 0
  PROVE  ParseRows(x, st) = [cols |-> ParsedCols(x, st), rows |-> ParsedRows(x, ExactIndex(x.cols, st.target), st)]
BY DEF ParseRows, ParsedCols, ParsedRows, Kept, ParsedVals, ParsedText

\* The kept rows are among the rows.
LEMMA KeptTyped ==
  ASSUME NEW x \in Result, NEW st \in Stages, NEW at
  PROVE  Kept(x, at, st) \in Seq(Wide(Len(x.cols)))
<1> DEFINE P == {j \in DOMAIN x.rows : MatchParsePattern(st.pattern, ParsedText(x.rows[j], at)).matched}
<1>1. x.rows \in Seq(Wide(Len(x.cols)))
  BY ResultShape
<1>2. P \subseteq DOMAIN x.rows
  OBVIOUS
<1>3. Kept(x, at, st) = IF st.where THEN Picked(x.rows, P) ELSE x.rows
  BY DEF Kept
<1> HIDE DEF P
<1> QED BY <1>1, <1>2, <1>3, PickedRows

\* parse leaves a result.
LEMMA ParseTyped ==
  ASSUME NEW x \in Result, NEW st \in Stages
  PROVE  ParseRows(x, st) \in Result
<1> DEFINE at == ExactIndex(x.cols, st.target)
           C == Captures(st.pattern)
           kept == Kept(x, at, st)
           n == Len(x.cols)
           names == [i \in DOMAIN C |-> st.pattern[C[i]].name]
           out == ParsedRows(x, at, st)
<1>1. CASE at = 0
  BY <1>1 DEF ParseRows
<1>2. CASE at # 0
  <2>1. x.cols \in Seq(STRING) /\ at \in 1 .. n /\ n \in Nat
    BY <1>2, ResultShape, Indices
  <2>2. /\ Len(C) \in Nat /\ DOMAIN C = 1 .. Len(C)
        /\ \A i \in 1 .. Len(C) : st.pattern[C[i]].name \in STRING
    BY StagesAssumption, CapturesInOrder DEF WellFormed
  <2>3. names \in Seq(STRING) /\ Len(names) = Len(C)
    <3>1. DOMAIN names = 1 .. Len(C) /\ names = [i \in 1 .. Len(C) |-> names[i]] /\ \A i \in 1 .. Len(C) : names[i] \in STRING
      BY <2>2
    <3> HIDE DEF names, C
    <3> QED BY <2>2, <3>1, MadeSeq
  <2>4. ParsedCols(x, st) \in Seq(STRING) /\ Len(ParsedCols(x, st)) = n + Len(C)
    <3>1. ParsedCols(x, st) = x.cols \o names
      BY DEF ParsedCols
    <3> HIDE DEF names, C
    <3>2. x.cols \o names \in Seq(STRING) /\ Len(x.cols \o names) = Len(x.cols) + Len(names)
      BY <2>1, <2>3, ConcatProperties
    <3> QED BY <2>3, <3>1, <3>2
  <2>5. kept \in Seq(Wide(n))
    BY KeptTyped
  <2> HIDE DEF kept, n, at, C
  <2>6. Len(kept) \in Nat /\ DOMAIN kept = 1 .. Len(kept) /\ \A j \in 1 .. Len(kept) : kept[j] \in Wide(n)
    BY <2>5, LenProperties, ElementOfSeq
  <2>7. out \in Seq(Wide(n + Len(C)))
    <3>1. out = [j \in 1 .. Len(kept) |-> kept[j] \o ParsedVals(kept[j], at, st)]
      BY <2>6 DEF ParsedRows, kept
    <3>2. \A j \in 1 .. Len(kept) : out[j] \in Wide(n + Len(C))
      <4> SUFFICES ASSUME NEW j \in 1 .. Len(kept) PROVE kept[j] \o ParsedVals(kept[j], at, st) \in Wide(n + Len(C))
        BY <3>1
      <4>1. kept[j] \in Wide(n) /\ ParsedVals(kept[j], at, st) \in Wide(Len(C))
        BY <2>1, <2>6, ParsedRow DEF C
      <4> QED BY <2>1, <2>2, <4>1, WiderRow
    <3>3. DOMAIN out = 1 .. Len(kept) /\ out = [j \in 1 .. Len(kept) |-> out[j]]
      BY <3>1
    <3> HIDE DEF out
    <3> QED BY <2>6, <3>2, <3>3, MadeSeq
  <2>8. ParseRows(x, st) = [cols |-> ParsedCols(x, st), rows |-> out]
    BY <1>2, ParseIs DEF at
  <2> HIDE DEF out
  <2> QED BY <2>4, <2>7, <2>8, ShapeResult
<1> QED BY <1>1, <1>2

-----------------------------------------------------------------------------
(* summarize and make-series leave a result *)

\* The columns of keys, and the values there.
LEMMA KeysTyped ==
  ASSUME NEW cols \in Seq(STRING), NEW keys, NEW m \in Nat, DOMAIN keys = 1 .. m
  PROVE  /\ DOMAIN KeyIndex(keys, cols) = 1 .. m
         /\ \A i \in 1 .. m : /\ KeyIndex(keys, cols)[i] \in 0 .. Len(cols)
                              /\ KeyIndex(keys, cols)[i] = ColIndex(cols, KeyName(keys[i]))
<1> QED BY Indices DEF KeyIndex

\* The values at the columns of keys, nulls where there is none.
LEMMA ValuesTyped ==
  ASSUME NEW n \in Nat, NEW row \in Wide(n), NEW m \in Nat, NEW idx, DOMAIN idx = 1 .. m,
         \A i \in 1 .. m : idx[i] \in 0 .. n
  PROVE  KeyValues(row, idx) \in Wide(m)
<1> DEFINE f == KeyValues(row, idx)
<1>1. f = [i \in 1 .. m |-> IF idx[i] = 0 THEN Null ELSE row[idx[i]]]
  BY DEF KeyValues
<1>2. ASSUME NEW i \in 1 .. m PROVE f[i] \in Value
  <2>1. CASE idx[i] = 0
    BY <1>1, <2>1, MadeValues
  <2>2. CASE idx[i] # 0
    <3>1. idx[i] \in 1 .. n /\ row \in Seq(Value) /\ Len(row) = n
      BY <2>2 DEF Wide
    <3>2. row[idx[i]] \in Value
      BY <3>1, ElementOfSeq
    <3> QED BY <1>1, <2>2, <3>2
  <2> QED BY <2>1, <2>2
<1>3. DOMAIN f = 1 .. m /\ f = [i \in 1 .. m |-> f[i]]
  BY <1>1
<1> HIDE DEF f
<1>4. f \in Seq(Value) /\ Len(f) = m
  BY <1>2, <1>3, MadeSeq
<1> QED BY <1>4 DEF Wide, f

\* Of some numbers, not none, there are a least and a greatest.
LEMMA ExtremesTyped ==
  ASSUME NEW xs \in Seq(Int), xs # <<>>
  PROVE  /\ Min(Range(xs)) \in Int /\ Max(Range(xs)) \in Int
         /\ Min(Range(xs)) \in Range(xs) /\ \A y \in Range(xs) : Min(Range(xs)) <= y
         /\ Max(Range(xs)) \in Range(xs) /\ \A y \in Range(xs) : y <= Max(Range(xs))
<1> DEFINE S == {n \in Nat : n + 1 <= Len(xs) =>
                    /\ \E a \in 1 .. n + 1 : \A b \in 1 .. n + 1 : xs[a] <= xs[b]
                    /\ \E a \in 1 .. n + 1 : \A b \in 1 .. n + 1 : xs[b] <= xs[a]}
<1>1. Len(xs) \in Nat /\ Len(xs) # 0 /\ DOMAIN xs = 1 .. Len(xs) /\ \A a \in 1 .. Len(xs) : xs[a] \in Int
  BY LenProperties, EmptySeq, ElementOfSeq
<1>2. 0 \in S
  BY <1>1
<1>3. ASSUME NEW n \in Nat, n \in S PROVE n + 1 \in S
  <2> SUFFICES ASSUME n + 2 <= Len(xs)
               PROVE  /\ \E a \in 1 .. n + 2 : \A b \in 1 .. n + 2 : xs[a] <= xs[b]
                      /\ \E a \in 1 .. n + 2 : \A b \in 1 .. n + 2 : xs[b] <= xs[a]
    BY <1>1
  <2>1. /\ \E a \in 1 .. n + 1 : \A b \in 1 .. n + 1 : xs[a] <= xs[b]
        /\ \E a \in 1 .. n + 1 : \A b \in 1 .. n + 1 : xs[b] <= xs[a]
    BY <1>1, <1>3
  <2>2. PICK p \in 1 .. n + 1 : \A b \in 1 .. n + 1 : xs[p] <= xs[b]
    BY <2>1
  <2>3. PICK q \in 1 .. n + 1 : \A b \in 1 .. n + 1 : xs[b] <= xs[q]
    BY <2>1
  <2>4. xs[n + 2] \in Int /\ \A b \in 1 .. n + 1 : xs[b] \in Int
    BY <1>1
  <2>5. \E a \in 1 .. n + 2 : \A b \in 1 .. n + 2 : xs[a] <= xs[b]
    <3>1. CASE xs[p] <= xs[n + 2]
      <4>1. p \in 1 .. n + 2 /\ \A b \in 1 .. n + 2 : b \in 1 .. n + 1 \/ b = n + 2
        OBVIOUS
      <4>2. \A b \in 1 .. n + 2 : xs[p] <= xs[b]
        BY <2>2, <3>1, <4>1
      <4> QED BY <4>1, <4>2
    <3>2. CASE ~ (xs[p] <= xs[n + 2])
      <4>1. \A b \in 1 .. n + 2 : xs[n + 2] <= xs[b]
        BY <2>2, <2>4, <3>2
      <4> QED BY <4>1
    <3> QED BY <3>1, <3>2
  <2>6. \E a \in 1 .. n + 2 : \A b \in 1 .. n + 2 : xs[b] <= xs[a]
    <3>1. CASE xs[n + 2] <= xs[q]
      <4>1. q \in 1 .. n + 2 /\ \A b \in 1 .. n + 2 : b \in 1 .. n + 1 \/ b = n + 2
        OBVIOUS
      <4>2. \A b \in 1 .. n + 2 : xs[b] <= xs[q]
        BY <2>3, <3>1, <4>1
      <4> QED BY <4>1, <4>2
    <3>2. CASE ~ (xs[n + 2] <= xs[q])
      <4>1. \A b \in 1 .. n + 2 : xs[b] <= xs[n + 2]
        BY <2>3, <2>4, <3>2
      <4> QED BY <4>1
    <3> QED BY <3>1, <3>2
  <2> QED BY <2>5, <2>6
<1>4. Nat \subseteq S
  <2> HIDE DEF S
  <2> QED BY <1>2, <1>3, SetInduction
<1>5. Len(xs) - 1 \in S /\ (Len(xs) - 1) + 1 = Len(xs)
  <2>1. Len(xs) - 1 \in Nat /\ (Len(xs) - 1) + 1 = Len(xs)
    BY <1>1
  <2> HIDE DEF S
  <2> QED BY <1>4, <2>1
<1>6. PICK p \in 1 .. Len(xs) : \A b \in 1 .. Len(xs) : xs[p] <= xs[b]
  BY <1>5
<1>7. PICK q \in 1 .. Len(xs) : \A b \in 1 .. Len(xs) : xs[b] <= xs[q]
  BY <1>5
<1>8. Range(xs) = {xs[b] : b \in 1 .. Len(xs)}
  BY <1>1 DEF Range
<1>9. Range(xs) \subseteq Int
  BY <1>1, <1>8
<1> HIDE DEF S
<1>10. xs[p] \in Range(xs) /\ \A y \in Range(xs) : xs[p] <= y
  BY <1>6, <1>8
<1>11. xs[q] \in Range(xs) /\ \A y \in Range(xs) : xs[q] >= y
  BY <1>1, <1>7, <1>8
<1> DEFINE A == Range(xs)
<1>12. A \subseteq Int /\ \E x \in A : \A y \in A : x <= y
  BY <1>9, <1>10
<1>13. \E x \in A : \A y \in A : x >= y
  BY <1>11
<1> HIDE DEF A
<1>14. Min(A) \in A /\ \A y \in A : Min(A) <= y
  BY <1>12 DEF Min
<1>15. Max(A) \in A /\ \A y \in A : Max(A) >= y
  BY <1>13 DEF Max
<1>16. \A x, y \in Int : x >= y => y <= x
  OBVIOUS
<1> QED BY <1>12, <1>14, <1>15, <1>16 DEF A

\* Some rows' values at a column.
LEMMA ColumnTyped ==
  ASSUME NEW n \in Nat, NEW rows \in Seq(Wide(n)), NEW at \in 1 .. n
  PROVE  \A j \in DOMAIN rows : rows[j][at] \in Value
<1> SUFFICES ASSUME NEW j \in DOMAIN rows PROVE rows[j][at] \in Value
  OBVIOUS
<1>1. rows[j] \in Seq(Value) /\ Len(rows[j]) = n
  BY LenProperties, ElementOfSeq DEF Wide
<1> QED BY <1>1, ElementOfSeq

\* The numbers at a column.
NumbersAt(rows, at) == [j \in DOMAIN rows |-> ToFloat64(rows[j][at])]
LEMMA NumbersTyped ==
  ASSUME NEW n \in Nat, NEW rows \in Seq(Wide(n)), NEW at \in 1 .. n
  PROVE  NumbersAt(rows, at) \in Seq(Int) /\ Len(NumbersAt(rows, at)) = Len(rows)
<1> DEFINE f == NumbersAt(rows, at)
<1>1. Len(rows) \in Nat /\ DOMAIN rows = 1 .. Len(rows)
  BY LenProperties
<1>2. \A j \in 1 .. Len(rows) : f[j] \in Int
  BY <1>1, ColumnTyped, ReadValues DEF NumbersAt
<1>3. DOMAIN f = 1 .. Len(rows) /\ f = [j \in 1 .. Len(rows) |-> f[j]]
  BY <1>1 DEF NumbersAt
<1> HIDE DEF f
<1>4. f \in Seq(Int) /\ Len(f) = Len(rows)
  BY <1>1, <1>2, <1>3, MadeSeq
<1> QED BY <1>4 DEF f

\* A total is a number, and so is an average of some.
LEMMA TotalTyped ==
  ASSUME NEW xs \in Seq(Int)
  PROVE  Total(xs) \in Int /\ (xs # <<>> => Total(xs) \div Len(xs) \in Int)
<1>1. PICK g : Adds(g, xs) /\ Total(xs) = g[Len(xs)]
  BY TotalAdds
<1>2. Len(xs) \in Nat
  BY LenProperties
<1>3. Total(xs) \in Int
  BY <1>1, <1>2 DEF Adds
<1>4. xs # <<>> => Len(xs) # 0
  BY EmptySeq
<1> QED BY <1>2, <1>3, <1>4

\* An aggregate is a value.
SomeRows(rows, at) == Picked(rows, {j \in DOMAIN rows : rows[j][at] # Null})
LEMMA NumericTyped ==
  ASSUME NEW cols \in Seq(STRING), NEW rows \in Seq(Wide(Len(cols))), NEW agg,
         agg.fn \in {"sum", "avg", "min", "max"}
  PROVE  NumericAggregate(agg, rows, cols) \in Value
<1> DEFINE at == ColIndex(cols, agg.col)
           some == SomeRows(rows, at)
           xs == NumbersAt(some, at)
<1>1. CASE agg.col = "" \/ at = 0
  BY <1>1, MadeValues DEF NumericAggregate
<1>2. CASE ~ (agg.col = "" \/ at = 0)
  <2>1. at \in 1 .. Len(cols) /\ Len(cols) \in Nat
    <3>1. at \in 0 .. Len(cols)
      BY Indices
    <3>2. Len(cols) \in Nat /\ at # 0
      BY <1>2, LenProperties
    <3> HIDE DEF at
    <3> QED BY <3>1, <3>2
  <2>2. some \in Seq(Wide(Len(cols)))
    BY PickedRows DEF SomeRows
  <2>3. NumericAggregate(agg, rows, cols) =
          CASE agg.fn = "sum" -> Real(Total(xs))
            [] agg.fn = "avg" -> IF xs = <<>> THEN Null ELSE Real(Total(xs) \div Len(xs))
            [] agg.fn = "min" -> IF xs = <<>> THEN Real(0) ELSE Real(Min(Range(xs)))
            [] agg.fn = "max" -> IF xs = <<>> THEN Real(0) ELSE Real(Max(Range(xs)))
    BY <1>2 DEF NumericAggregate, SomeRows, NumbersAt
  <2> HIDE DEF some, at
  <2>4. xs \in Seq(Int)
    BY <2>1, <2>2, NumbersTyped
  <2> HIDE DEF xs
  <2>5. Total(xs) \in Int /\ (xs # <<>> => Total(xs) \div Len(xs) \in Int)
    BY <2>4, TotalTyped
  <2>6. xs # <<>> => Min(Range(xs)) \in Int /\ Max(Range(xs)) \in Int
    BY <2>4, ExtremesTyped
  <2> DEFINE total == Total(xs)
             average == Total(xs) \div Len(xs)
             least == Min(Range(xs))
             most == Max(Range(xs))
             v == NumericAggregate(agg, rows, cols)
  <2>7. total \in Int /\ (xs # <<>> => average \in Int /\ least \in Int /\ most \in Int)
    BY <2>5, <2>6
  <2>8. v = CASE agg.fn = "sum" -> Real(total)
              [] agg.fn = "avg" -> IF xs = <<>> THEN Null ELSE Real(average)
              [] agg.fn = "min" -> IF xs = <<>> THEN Real(0) ELSE Real(least)
              [] agg.fn = "max" -> IF xs = <<>> THEN Real(0) ELSE Real(most)
    BY <2>3
  <2> HIDE DEF total, average, least, most, v
  <2>9. v \in Value
    BY <2>7, <2>8, MadeValues
  <2> QED BY <2>9 DEF v
<1> QED BY <1>1, <1>2

\* So is what any function computes.
LEMMA AggregatesTyped ==
  ASSUME NEW cols \in Seq(STRING), NEW rows \in Seq(Wide(Len(cols))), NEW agg
  PROVE  ComputeAggregate(agg, rows, cols) \in Value
<1> DEFINE at == ColIndex(cols, agg.col)
           P == {j \in DOMAIN rows : rows[j][at] # Null}
           size == Cardinality(P)
<1>1. Len(rows) \in Nat
  BY LenProperties
<1>2. size \in Nat
  <2>1. P \subseteq DOMAIN rows
    OBVIOUS
  <2> HIDE DEF P
  <2> QED BY <2>1, PickedRows
<1>3. Whole(Len(rows)) \in Value /\ Whole(0) \in Value /\ Whole(size) \in Value /\ Null \in Value
  <2> HIDE DEF size
  <2> QED BY <1>1, <1>2, MadeValues
<1>4. CASE agg.fn \in {"sum", "avg", "min", "max"}
  BY <1>4, NumericTyped DEF ComputeAggregate
<1>5. CASE agg.fn = ""
  BY <1>3, <1>5 DEF ComputeAggregate
<1>6. CASE agg.fn = "count"
  <2>1. ComputeAggregate(agg, rows, cols) =
          IF agg.col = "" THEN Whole(Len(rows))
          ELSE IF at = 0 THEN Whole(0) ELSE Whole(size)
    BY <1>6 DEF ComputeAggregate
  <2> HIDE DEF at, size
  <2> QED BY <1>3, <2>1
<1>7. CASE agg.fn \notin {"", "count", "sum", "avg", "min", "max"}
  BY <1>3, <1>7 DEF ComputeAggregate
<1> QED BY <1>4, <1>5, <1>6, <1>7

\* The first rows of groups, and a group's rows.
LEMMA FirstsTyped ==
  ASSUME NEW m \in Nat, NEW keys, DOMAIN keys = 1 .. m
  PROVE  /\ Len(Firsts(keys)) \in Nat /\ DOMAIN Firsts(keys) = 1 .. Len(Firsts(keys))
         /\ \A g \in DOMAIN Firsts(keys) : Firsts(keys)[g] \in 1 .. m
<1> DEFINE P == {j \in DOMAIN keys : \A l \in 1 .. j - 1 : keys[l] # keys[j]}
<1>1. Firsts(keys) = Ascending(P)
  BY DEF Firsts
<1>2. P \subseteq 1 .. m
  OBVIOUS
<1> HIDE DEF P
<1>3. \A j \in P : j \in Nat
  BY <1>2
<1>4. P \subseteq Nat /\ IsFiniteSet(P)
  <2>1. IsFiniteSet(1 .. m)
    BY FS_Interval
  <2>2. IsFiniteSet(P)
    BY <1>2, <2>1, FS_Subset
  <2> QED BY <1>3, <2>2
<1>5. Ascending(P) \in Seq(P) /\ Len(Ascending(P)) \in Nat /\ Ascending(P) \in [1 .. Cardinality(P) -> P]
  BY <1>4, AscendingPlaces, LenProperties
<1> QED BY <1>1, <1>2, <1>5, LenProperties

\* The rows of a group are rows.
LEMMA GroupTyped ==
  ASSUME NEW S, NEW rows \in Seq(S), NEW keys, DOMAIN keys = DOMAIN rows, NEW first
  PROVE  GroupOf(rows, keys, first) \in Seq(S)
BY PickedRows DEF GroupOf

\* A row of aggregates.
Aggregated(aggs, rows, cols) == [i \in DOMAIN aggs |-> ComputeAggregate(aggs[i], rows, cols)]
LEMMA AggregatedTyped ==
  ASSUME NEW cols \in Seq(STRING), NEW rows \in Seq(Wide(Len(cols))), NEW m \in Nat, NEW aggs, DOMAIN aggs = 1 .. m
  PROVE  Aggregated(aggs, rows, cols) \in Wide(m)
<1> DEFINE f == Aggregated(aggs, rows, cols)
<1>1. \A i \in 1 .. m : f[i] \in Value
  BY AggregatesTyped DEF Aggregated
<1>2. DOMAIN f = 1 .. m /\ f = [i \in 1 .. m |-> f[i]]
  BY DEF Aggregated
<1> HIDE DEF f
<1>3. f \in Seq(Value) /\ Len(f) = m
  BY <1>1, <1>2, MadeSeq
<1> QED BY <1>3 DEF Wide, f

\* The names of a stage's keys, aggregates and items.
LEMMA NamesTyped ==
  ASSUME NEW st \in Stages
  PROVE  /\ Len(st.keys) \in Nat /\ DOMAIN st.keys = 1 .. Len(st.keys)
         /\ Len(st.aggs) \in Nat /\ DOMAIN st.aggs = 1 .. Len(st.aggs)
         /\ Len(st.items) \in Nat /\ DOMAIN st.items = 1 .. Len(st.items)
         /\ Names(st.keys) \in Seq(STRING) /\ Len(Names(st.keys)) = Len(st.keys)
         /\ Names(st.aggs) \in Seq(STRING) /\ Len(Names(st.aggs)) = Len(st.aggs)
         /\ [i \in DOMAIN st.keys |-> KeyName(st.keys[i])] \in Seq(STRING)
         /\ Len([i \in DOMAIN st.keys |-> KeyName(st.keys[i])]) = Len(st.keys)
         /\ [i \in DOMAIN st.items |-> KeyName(st.items[i])] \in Seq(STRING)
         /\ Len([i \in DOMAIN st.items |-> KeyName(st.items[i])]) = Len(st.items)
<1>1. /\ st.keys \in Seq([name : STRING, col : STRING])
      /\ st.items \in Seq([name : STRING, col : STRING])
      /\ st.aggs \in Seq([name : STRING, fn : STRING, col : STRING])
  BY StagesAssumption DEF WellFormed
<1>2. ASSUME NEW S, NEW xs \in Seq(S), \A x \in S : x.name \in STRING
      PROVE  Names(xs) \in Seq(STRING) /\ Len(Names(xs)) = Len(xs)
  <2> DEFINE f == Names(xs)
  <2>1. Len(xs) \in Nat /\ DOMAIN xs = 1 .. Len(xs) /\ \A i \in 1 .. Len(xs) : xs[i] \in S
    BY LenProperties, ElementOfSeq
  <2>2. DOMAIN f = 1 .. Len(xs) /\ f = [i \in 1 .. Len(xs) |-> f[i]] /\ \A i \in 1 .. Len(xs) : f[i] \in STRING
    BY <1>2, <2>1 DEF Names
  <2> HIDE DEF f
  <2>3. f \in Seq(STRING) /\ Len(f) = Len(xs)
    BY <2>1, <2>2, MadeSeq
  <2> QED BY <2>3 DEF f
<1>3. ASSUME NEW xs \in Seq([name : STRING, col : STRING])
      PROVE  /\ [i \in DOMAIN xs |-> KeyName(xs[i])] \in Seq(STRING)
             /\ Len([i \in DOMAIN xs |-> KeyName(xs[i])]) = Len(xs)
  <2> DEFINE f == [i \in DOMAIN xs |-> KeyName(xs[i])]
  <2>1. Len(xs) \in Nat /\ DOMAIN xs = 1 .. Len(xs) /\ \A i \in 1 .. Len(xs) : xs[i] \in [name : STRING, col : STRING]
    BY LenProperties, ElementOfSeq
  <2>2. DOMAIN f = 1 .. Len(xs) /\ f = [i \in 1 .. Len(xs) |-> f[i]] /\ \A i \in 1 .. Len(xs) : f[i] \in STRING
    BY <2>1 DEF KeyName
  <2> HIDE DEF f
  <2>3. f \in Seq(STRING) /\ Len(f) = Len(xs)
    BY <2>1, <2>2, MadeSeq
  <2> QED BY <2>3 DEF f
<1>4. /\ Names(st.keys) \in Seq(STRING) /\ Len(Names(st.keys)) = Len(st.keys)
      /\ Names(st.aggs) \in Seq(STRING) /\ Len(Names(st.aggs)) = Len(st.aggs)
  <2>1. \A y \in [name : STRING, col : STRING] : y.name \in STRING
    OBVIOUS
  <2>2. \A y \in [name : STRING, fn : STRING, col : STRING] : y.name \in STRING
    OBVIOUS
  <2>3. Names(st.keys) \in Seq(STRING) /\ Len(Names(st.keys)) = Len(st.keys)
    BY <1>1, <1>2, <2>1
  <2>4. Names(st.aggs) \in Seq(STRING) /\ Len(Names(st.aggs)) = Len(st.aggs)
    BY <1>1, <1>2, <2>2
  <2> QED BY <2>3, <2>4
<1> QED BY <1>1, <1>3, <1>4, LenProperties

\* summarize leaves a result.
KeysOf(x, st) == [j \in DOMAIN x.rows |-> KeyText(x.rows[j], KeyIndex(st.keys, x.cols))]
SummaryRow(x, st, first) ==
  KeyValues(x.rows[first], KeyIndex(st.keys, x.cols))
  \o Aggregated(st.aggs, GroupOf(x.rows, KeysOf(x, st), first), x.cols)
SummaryRows(x, st) ==
  [g \in DOMAIN Firsts(KeysOf(x, st)) |-> SummaryRow(x, st, Firsts(KeysOf(x, st))[g])]
LEMMA SummaryIs ==
  ASSUME NEW x, NEW st
  PROVE  AggregateRows(x, st) = [cols |-> Names(st.keys) \o Names(st.aggs), rows |-> SummaryRows(x, st)]
BY DEF AggregateRows, SummaryRows, SummaryRow, KeysOf, Aggregated

LEMMA AggregateTyped ==
  ASSUME NEW x \in Result, NEW st \in Stages
  PROVE  AggregateRows(x, st) \in Result
<1> DEFINE n == Len(x.cols)
           a == Len(st.keys)
           b == Len(st.aggs)
           idx == KeyIndex(st.keys, x.cols)
           keys == KeysOf(x, st)
           heads == Firsts(keys)
           cols == Names(st.keys) \o Names(st.aggs)
           out == SummaryRows(x, st)
<1>1. /\ x.cols \in Seq(STRING) /\ n \in Nat /\ Len(x.rows) \in Nat /\ DOMAIN x.rows = 1 .. Len(x.rows)
      /\ x.rows \in Seq(Wide(n)) /\ \A j \in 1 .. Len(x.rows) : x.rows[j] \in Wide(n)
  BY ResultShape
<1>2. a \in Nat /\ b \in Nat /\ DOMAIN st.keys = 1 .. a /\ DOMAIN st.aggs = 1 .. b
  BY NamesTyped
<1>3. cols \in Seq(STRING) /\ Len(cols) = a + b
  <2>1. /\ Names(st.keys) \in Seq(STRING) /\ Len(Names(st.keys)) = a
        /\ Names(st.aggs) \in Seq(STRING) /\ Len(Names(st.aggs)) = b
    BY NamesTyped
  <2>2. cols \in Seq(STRING) /\ Len(cols) = Len(Names(st.keys)) + Len(Names(st.aggs))
    BY <2>1, ConcatProperties
  <2> QED BY <2>1, <2>2
<1>4. DOMAIN idx = 1 .. a /\ \A i \in 1 .. a : idx[i] \in 0 .. n
  BY <1>1, <1>2, KeysTyped
<1>5. DOMAIN keys = 1 .. Len(x.rows)
  BY <1>1 DEF KeysOf
<1>6. Len(heads) \in Nat /\ DOMAIN heads = 1 .. Len(heads) /\ \A g \in 1 .. Len(heads) : heads[g] \in 1 .. Len(x.rows)
  <2> HIDE DEF keys
  <2> QED BY <1>1, <1>5, FirstsTyped
<1>7. ASSUME NEW f \in 1 .. Len(x.rows) PROVE SummaryRow(x, st, f) \in Wide(a + b)
  <2> DEFINE group == GroupOf(x.rows, keys, f)
             front == KeyValues(x.rows[f], idx)
             back == Aggregated(st.aggs, group, x.cols)
  <2>1. group \in Seq(Wide(n))
    <3> HIDE DEF keys, n
    <3> QED BY <1>1, <1>5, GroupTyped
  <2>2. SummaryRow(x, st, f) = front \o back
    BY DEF SummaryRow
  <2> HIDE DEF group, keys
  <2>3. back \in Wide(b)
    BY <1>1, <1>2, <2>1, AggregatedTyped
  <2> HIDE DEF idx, back, n
  <2>4. front \in Wide(a)
    BY <1>1, <1>2, <1>4, ValuesTyped
  <2> HIDE DEF front, a, b
  <2>5. front \o back \in Wide(a + b)
    BY <1>2, <2>3, <2>4, WiderRow
  <2> QED BY <2>2, <2>5
<1>8. out = [g \in DOMAIN heads |-> SummaryRow(x, st, heads[g])]
  BY DEF SummaryRows
<1>9. AggregateRows(x, st) = [cols |-> cols, rows |-> out]
  BY SummaryIs
<1> HIDE DEF keys, heads, out, cols, n
<1>10. DOMAIN out = 1 .. Len(heads) /\ out = [g \in 1 .. Len(heads) |-> out[g]] /\ \A g \in 1 .. Len(heads) : out[g] \in Wide(a + b)
  BY <1>6, <1>7, <1>8
<1>11. out \in Seq(Wide(Len(cols)))
  BY <1>3, <1>6, <1>10, MadeSeq
<1> QED BY <1>3, <1>9, <1>11, ShapeResult

-----------------------------------------------------------------------------
(* Folds of any steps *)

\* s folds the steps T wherever it has come to a value in X so far.
FoldsIn(s, X, n, base, T) ==
  /\ s[{}] = base
  /\ \A S \in SUBSET (1 .. n) : S # {} /\ s[S \ {Max(S)}] \in X => s[S] = T[Max(S)][s[S \ {Max(S)}]]

\* A function that folds steps over sets of places takes them one after the other.
LEMMA FoldIterates ==
  ASSUME NEW X, NEW base \in X, NEW n \in Nat, NEW T \in [1 .. n -> [X -> X]], NEW s,
         FoldsIn(s, X, n, base, T),
         NEW g, g = [m \in 0 .. n |-> s[1 .. m]]
  PROVE  Iterates(g, X, n, base, T)
<1> DEFINE I == {m \in Nat : m <= n => g[m] \in X /\ (m > 0 => g[m] = T[m][g[m - 1]])}
<1>1. g[0] = base
  <2>1. 1 .. 0 = {} /\ 0 \in 0 .. n
    OBVIOUS
  <2> QED BY <2>1 DEF FoldsIn
<1>2. 0 \in I
  BY <1>1
<1>3. ASSUME NEW m \in Nat, m \in I PROVE m + 1 \in I
  <2> SUFFICES ASSUME m + 1 <= n PROVE g[m + 1] \in X /\ g[m + 1] = T[m + 1][g[m]]
    BY <1>3
  <2>1. m \in 0 .. n /\ m < n /\ m + 1 \in 0 .. n /\ m + 1 \in 1 .. n
    OBVIOUS
  <2>2. /\ 1 .. m + 1 \in SUBSET (1 .. n) /\ 1 .. m + 1 # {}
        /\ Max(1 .. m + 1) = m + 1 /\ (1 .. m + 1) \ {m + 1} = 1 .. m
    BY <2>1, NextPlace
  <2>3. g[m] \in X /\ g[m] = s[1 .. m] /\ g[m + 1] = s[1 .. m + 1]
    BY <1>3, <2>1
  <2> HIDE DEF I
  <2>4. s[1 .. m + 1] = T[m + 1][s[1 .. m]]
    BY <2>2, <2>3 DEF FoldsIn
  <2>5. T[m + 1] \in [X -> X]
    BY <2>1
  <2> QED BY <2>3, <2>4, <2>5
<1>4. Nat \subseteq I
  <2> HIDE DEF I
  <2> QED BY <1>2, <1>3, SetInduction
<1>5. ASSUME NEW m \in 0 .. n PROVE g[m] \in X /\ (m > 0 => g[m] = T[m][g[m - 1]])
  <2>1. m \in I /\ m <= n
    <3> HIDE DEF I
    <3> QED BY <1>4
  <2> QED BY <2>1
<1>6. \A d \in 1 .. n : g[d] = T[d][g[d - 1]]
  <2> HIDE DEF I
  <2>1. \A d \in 1 .. n : d \in 0 .. n /\ d > 0
    OBVIOUS
  <2> QED BY <1>5, <2>1
<1>7. g \in [0 .. n -> X]
  BY <1>5
<1> QED BY <1>1, <1>6, <1>7 DEF Iterates

\* The range of some numbers is two numbers.
Pairs == Int \X Int
Widen(r, v) == << IF r[1] = 0 \/ v < r[1] THEN v ELSE r[1], IF v > r[2] THEN v ELSE r[2] >>
LEMMA RangeTyped ==
  ASSUME NEW xs \in Seq(Int)
  PROVE  AutoRange(xs) \in Pairs
<1> DEFINE n == Len(xs)
           T == [d \in 1 .. n |-> [r \in Pairs |-> Widen(r, xs[d])]]
           Ranges(f) == f = [S \in SUBSET (1 .. n) |->
                               IF S = {} THEN << 0, 0 >> ELSE Widen(f[S \ {Max(S)}], xs[Max(S)])]
           s == CHOOSE f : Ranges(f)
<1>1. n \in Nat /\ DOMAIN xs = 1 .. n /\ \A d \in 1 .. n : xs[d] \in Int
  BY LenProperties, ElementOfSeq
<1>2. T \in [1 .. n -> [Pairs -> Pairs]]
  <2>1. ASSUME NEW d \in 1 .. n, NEW r \in Pairs PROVE Widen(r, xs[d]) \in Pairs
    <3>1. r[1] \in Int /\ r[2] \in Int /\ xs[d] \in Int
      BY <1>1 DEF Pairs
    <3> QED BY <3>1 DEF Pairs, Widen
  <2> QED BY <2>1
<1>3. << 0, 0 >> \in Pairs
  BY DEF Pairs
<1>4. PICK f \in [SUBSET (1 .. n) -> Pairs] : FoldsOver(f, n, << 0, 0 >>, T)
  <2> HIDE DEF T, n
  <2> QED BY <1>1, <1>2, <1>3, FoldOfSteps
<1>5. Ranges(f)
  <2>1. ASSUME NEW S \in SUBSET (1 .. n), S # {} PROVE T[Max(S)][f[S \ {Max(S)}]] = Widen(f[S \ {Max(S)}], xs[Max(S)])
    <3>1. Max(S) \in 1 .. n
      BY <1>1, <2>1, LastPlace
    <3>2. f[S \ {Max(S)}] \in Pairs
      OBVIOUS
    <3> QED BY <3>1, <3>2
  <2> HIDE DEF T, n
  <2> QED BY <1>4, <2>1 DEF FoldsOver
<1>6. Ranges(s)
  <2> HIDE DEF Ranges
  <2> QED BY <1>5
<1>7. AutoRange(xs) = s[1 .. n]
  BY <1>1, SMT DEF AutoRange, FoldLeft, MapThenFoldSet, Widen
<1> HIDE DEF s
<1>8. s[{}] = << 0, 0 >>
  BY <1>6
<1>9. ASSUME NEW S \in SUBSET (1 .. n), S # {}, s[S \ {Max(S)}] \in Pairs
      PROVE  s[S] = T[Max(S)][s[S \ {Max(S)}]]
  <2>1. Max(S) \in 1 .. n
    BY <1>1, <1>9, LastPlace
  <2>2. s[S] = Widen(s[S \ {Max(S)}], xs[Max(S)])
    <3> HIDE DEF n
    <3> QED BY <1>6, <1>9
  <2> QED BY <1>9, <2>1, <2>2
<1> DEFINE g == [m \in 0 .. n |-> s[1 .. m]]
<1>10. Iterates(g, Pairs, n, << 0, 0 >>, T)
  <2> DEFINE zero == << 0, 0 >>
  <2>1. n \in Nat /\ T \in [1 .. n -> [Pairs -> Pairs]] /\ zero \in Pairs /\ s[{}] = zero
    BY <1>1, <1>2, <1>3, <1>8
  <2>2. FoldsIn(s, Pairs, n, zero, T)
    <3> HIDE DEF T, n
    <3> QED BY <1>8, <1>9 DEF FoldsIn
  <2> HIDE DEF T, n, zero
  <2>3. g = [m \in 0 .. n |-> s[1 .. m]]
    OBVIOUS
  <2> HIDE DEF g
  <2>4. Iterates(g, Pairs, n, zero, T)
    BY <2>1, <2>2, <2>3, FoldIterates
  <2> QED BY <2>4 DEF zero
<1>11. g[n] \in Pairs
  <2> HIDE DEF g, n
  <2> QED BY <1>1, <1>10 DEF Iterates
<1> QED BY <1>1, <1>7, <1>11

-----------------------------------------------------------------------------
(* make-series, take and project leave a result *)

\* Where the rows are in time, and those inside a range.
AtTime(x, st) == ColIndex(x.cols, st.on)
RangeOf(x, st) == SeriesRange(st, NumbersAt(x.rows, AtTime(x, st)))
StepOf(st) == IF st.step <= 0 THEN Unit ELSE st.step
Inside(x, st) ==
  Picked(x.rows, {j \in DOMAIN x.rows : /\ RangeOf(x, st)[1] <= ToFloat64(x.rows[j][AtTime(x, st)])
                                        /\ ToFloat64(x.rows[j][AtTime(x, st)]) < RangeOf(x, st)[2]})
BucketOf(x, st, row) == Bucket(ToFloat64(row[AtTime(x, st)]), RangeOf(x, st)[1], StepOf(st))
SeriesKeys(x, st) ==
  [j \in DOMAIN Inside(x, st) |->
     << KeyText(Inside(x, st)[j], KeyIndex(st.keys, x.cols)), BucketOf(x, st, Inside(x, st)[j]) >>]
SeriesFront(x, st, first) ==
  Append(KeyValues(Inside(x, st)[first], KeyIndex(st.keys, x.cols)), Real(BucketOf(x, st, Inside(x, st)[first])))
SeriesRow(x, st, first) ==
  SeriesFront(x, st, first) \o Aggregated(st.aggs, GroupOf(Inside(x, st), SeriesKeys(x, st), first), x.cols)
SeriesCols(st) == Append([i \in DOMAIN st.keys |-> KeyName(st.keys[i])], st.on) \o Names(st.aggs)
SeriesRows(x, st) ==
  [g \in DOMAIN Firsts(SeriesKeys(x, st)) |-> SeriesRow(x, st, Firsts(SeriesKeys(x, st))[g])]

\* make-series in terms of them.
LEMMA SeriesIs ==
  ASSUME NEW x, NEW st, AtTime(x, st) # 0
  PROVE  MakeSeriesRows(x, st) = [cols |-> SeriesCols(st), rows |-> SeriesRows(x, st)]
BY DEF MakeSeriesRows, SeriesCols, SeriesRows, SeriesRow, SeriesFront, SeriesKeys, BucketOf, Inside, StepOf, RangeOf,
       AtTime, Aggregated, NumbersAt

\* Both ends of the range are numbers, and so is a row's bucket.
LEMMA SeriesRangeTyped ==
  ASSUME NEW x \in Result, NEW st \in Stages, AtTime(x, st) # 0
  PROVE  /\ AtTime(x, st) \in 1 .. Len(x.cols)
         /\ RangeOf(x, st)[1] \in Int /\ RangeOf(x, st)[2] \in Int /\ StepOf(st) \in Nat \ {0}
         /\ Inside(x, st) \in Seq(Wide(Len(x.cols)))
         /\ \A row \in Wide(Len(x.cols)) : /\ ToFloat64(row[AtTime(x, st)]) \in Int
                                           /\ BucketOf(x, st, row) \in Int
<1> DEFINE at == AtTime(x, st)
           n == Len(x.cols)
           xs == NumbersAt(x.rows, at)
           range == RangeOf(x, st)
<1>1. x.cols \in Seq(STRING) /\ n \in Nat /\ x.rows \in Seq(Wide(n))
  BY ResultShape
<1>2. at \in 1 .. n
  <2>1. at \in 0 .. n /\ at # 0
    BY <1>1, Indices DEF AtTime
  <2> HIDE DEF at, n
  <2> QED BY <1>1, <2>1
<1>3. xs \in Seq(Int)
  BY <1>1, <1>2, NumbersTyped
<1>4. {st.from, st.to, st.step} \subseteq Int
  BY StagesAssumption DEF WellFormed
<1>5. range = IF st.from = 0 /\ st.to = 0 THEN AutoRange(xs) ELSE << st.from, st.to >>
  BY DEF RangeOf, SeriesRange
<1>6. AutoRange(xs) \in Pairs
  BY <1>3, RangeTyped
<1> DEFINE auto == AutoRange(xs)
<1>7. range[1] \in Int /\ range[2] \in Int
  <2>1. auto[1] \in Int /\ auto[2] \in Int
    <3> HIDE DEF auto
    <3>1. auto \in Pairs
      BY <1>6 DEF auto
    <3> QED BY <3>1 DEF Pairs
  <2>2. range = IF st.from = 0 /\ st.to = 0 THEN auto ELSE << st.from, st.to >>
    BY <1>5
  <2> HIDE DEF auto, range
  <2> QED BY <1>4, <2>1, <2>2
<1>8. StepOf(st) \in Nat \ {0}
  BY <1>4, UnitAssumption DEF StepOf
<1>9. Inside(x, st) \in Seq(Wide(n))
  BY <1>1, PickedRows DEF Inside
<1>10. ASSUME NEW row \in Wide(n) PROVE ToFloat64(row[at]) \in Int /\ BucketOf(x, st, row) \in Int
  <2>1. row \in Seq(Value) /\ Len(row) = n
    BY DEF Wide
  <2>2. row[at] \in Value
    BY <1>2, <2>1, ElementOfSeq
  <2>3. ToFloat64(row[at]) \in Int
    BY <2>2, ReadValues
  <2> DEFINE v == ToFloat64(row[at])
             a == range[1]
             s == StepOf(st)
  <2>4. v \in Int /\ a \in Int /\ s \in Nat \ {0} /\ BucketOf(x, st, row) = a + ((v - a) \div s) * s
    BY <1>7, <1>8, <2>3 DEF BucketOf, Bucket
  <2> HIDE DEF v, a, s
  <2>5. (v - a) \div s \in Int
    BY <2>4
  <2> DEFINE d == (v - a) \div s
  <2>6. d \in Int /\ BucketOf(x, st, row) = a + d * s
    BY <2>4, <2>5
  <2> HIDE DEF d
  <2>7. BucketOf(x, st, row) \in Int
    BY <2>4, <2>6
  <2> QED BY <2>3, <2>7
<1> QED BY <1>2, <1>7, <1>8, <1>9, <1>10

\* The columns of a series are names.
LEMMA SeriesColsTyped ==
  ASSUME NEW st \in Stages
  PROVE  SeriesCols(st) \in Seq(STRING) /\ Len(SeriesCols(st)) = Len(st.keys) + 1 + Len(st.aggs)
<1> DEFINE names == [i \in DOMAIN st.keys |-> KeyName(st.keys[i])]
           front == Append(names, st.on)
           back == Names(st.aggs)
<1>1. names \in Seq(STRING) /\ Len(names) = Len(st.keys) /\ back \in Seq(STRING) /\ Len(back) = Len(st.aggs)
  BY NamesTyped
<1>2. st.on \in STRING /\ Len(st.keys) \in Nat /\ Len(st.aggs) \in Nat
  BY StagesAssumption, NamesTyped DEF WellFormed
<1>3. SeriesCols(st) = front \o back
  BY DEF SeriesCols
<1> HIDE DEF names, back
<1>4. front \in Seq(STRING) /\ Len(front) = Len(names) + 1
  BY <1>1, <1>2, AppendProperties
<1> HIDE DEF front
<1>5. front \o back \in Seq(STRING) /\ Len(front \o back) = Len(front) + Len(back)
  BY <1>1, <1>4, ConcatProperties
<1> QED BY <1>1, <1>2, <1>3, <1>4, <1>5

\* make-series leaves a result.
LEMMA MakeSeriesTyped ==
  ASSUME NEW x \in Result, NEW st \in Stages
  PROVE  MakeSeriesRows(x, st) \in Result
<1> DEFINE n == Len(x.cols)
           a == Len(st.keys)
           b == Len(st.aggs)
           inside == Inside(x, st)
           idx == KeyIndex(st.keys, x.cols)
           keys == SeriesKeys(x, st)
           heads == Firsts(keys)
           cols == SeriesCols(st)
           out == SeriesRows(x, st)
<1>1. CASE AtTime(x, st) = 0
  BY <1>1 DEF MakeSeriesRows, AtTime
<1>2. CASE AtTime(x, st) # 0
  <2>1. x.cols \in Seq(STRING) /\ n \in Nat
    BY ResultShape
  <2>2. a \in Nat /\ b \in Nat /\ DOMAIN st.keys = 1 .. a /\ DOMAIN st.aggs = 1 .. b
    BY NamesTyped
  <2>3. cols \in Seq(STRING) /\ Len(cols) = a + 1 + b
    BY SeriesColsTyped
  <2>4. DOMAIN idx = 1 .. a /\ \A i \in 1 .. a : idx[i] \in 0 .. n
    BY <2>1, <2>2, KeysTyped
  <2>5. inside \in Seq(Wide(n))
    BY <1>2, SeriesRangeTyped
  <2>6. Len(inside) \in Nat /\ DOMAIN inside = 1 .. Len(inside) /\ \A j \in 1 .. Len(inside) : inside[j] \in Wide(n)
    <3> HIDE DEF inside, n
    <3> QED BY <2>5, LenProperties, ElementOfSeq
  <2>7. DOMAIN keys = 1 .. Len(inside)
    BY <2>6 DEF SeriesKeys
  <2>8. Len(heads) \in Nat /\ DOMAIN heads = 1 .. Len(heads) /\ \A g \in 1 .. Len(heads) : heads[g] \in 1 .. Len(inside)
    <3> HIDE DEF keys, inside
    <3> QED BY <2>6, <2>7, FirstsTyped
  <2>9. ASSUME NEW f \in 1 .. Len(inside) PROVE SeriesRow(x, st, f) \in Wide(a + 1 + b)
    <3> DEFINE group == GroupOf(inside, keys, f)
               values == KeyValues(inside[f], idx)
               bucket == BucketOf(x, st, inside[f])
               front == SeriesFront(x, st, f)
               back == Aggregated(st.aggs, group, x.cols)
    <3>1. group \in Seq(Wide(n))
      <4>1. DOMAIN keys = DOMAIN inside
        BY <2>6, <2>7
      <4> HIDE DEF keys, n, inside
      <4> QED BY <2>5, <4>1, GroupTyped
    <3>2. SeriesRow(x, st, f) = front \o back /\ front = Append(values, Real(bucket))
      BY DEF SeriesRow, SeriesFront
    <3>3. bucket \in Int
      BY <1>2, <2>6, SeriesRangeTyped
    <3> HIDE DEF group, keys, bucket
    <3>4. back \in Wide(b)
      BY <2>1, <2>2, <3>1, AggregatedTyped
    <3> HIDE DEF idx, back, n, inside
    <3>5. values \in Wide(a)
      BY <2>1, <2>2, <2>4, <2>6, ValuesTyped
    <3> HIDE DEF values, front, a, b
    <3>6. front \in Wide(a + 1)
      <4>1. values \in Seq(Value) /\ Len(values) = a /\ Real(bucket) \in Value
        BY <3>3, <3>5, MadeValues DEF Wide
      <4>2. Append(values, Real(bucket)) \in Seq(Value) /\ Len(Append(values, Real(bucket))) = Len(values) + 1
        BY <4>1, AppendProperties
      <4> QED BY <3>2, <4>1, <4>2 DEF Wide
    <3>7. front \o back \in Wide((a + 1) + b)
      <4> DEFINE m == a + 1
      <4>1. m \in Nat /\ front \in Wide(m)
        BY <2>2, <3>6
      <4> HIDE DEF m
      <4>2. front \o back \in Wide(m + b)
        BY <2>2, <3>4, <4>1, WiderRow
      <4> QED BY <4>2 DEF m
    <3> QED BY <3>2, <3>7
  <2>10. out = [g \in DOMAIN heads |-> SeriesRow(x, st, heads[g])]
    BY DEF SeriesRows
  <2>11. MakeSeriesRows(x, st) = [cols |-> cols, rows |-> out]
    BY <1>2, SeriesIs
  <2> HIDE DEF keys, heads, out, cols, n, inside, a, b
  <2>12. DOMAIN out = 1 .. Len(heads) /\ out = [g \in 1 .. Len(heads) |-> out[g]] /\ \A g \in 1 .. Len(heads) : out[g] \in Wide(a + 1 + b)
    BY <2>8, <2>9, <2>10
  <2>13. out \in Seq(Wide(Len(cols)))
    BY <2>3, <2>8, <2>12, MadeSeq
  <2> QED BY <2>3, <2>11, <2>13, ShapeResult
<1> QED BY <1>1, <1>2

\* take leaves a result.
LEMMA LimitTyped ==
  ASSUME NEW x \in Result, NEW st \in Stages
  PROVE  LimitRows(x, st) \in Result
<1> DEFINE out == SubSeq(x.rows, 1, st.n)
<1>1. CASE ~ (st.type = "int" /\ 0 <= st.n /\ st.n < Len(x.rows))
  BY <1>1 DEF LimitRows
<1>2. CASE st.type = "int" /\ 0 <= st.n /\ st.n < Len(x.rows)
  <2>1. /\ x.cols \in Seq(STRING) /\ x.rows \in Seq(Wide(Len(x.cols))) /\ Len(x.rows) \in Nat
        /\ x = [cols |-> x.cols, rows |-> x.rows]
    BY ResultShape
  <2>2. st.n \in Int
    BY StagesAssumption DEF WellFormed
  <2>3. st.n \in 0 .. Len(x.rows)
    BY <1>2, <2>1, <2>2
  <2>4. out \in Seq(Wide(Len(x.cols)))
    BY <2>1, <2>3, SubSeqProperties
  <2>5. LimitRows(x, st) = [cols |-> x.cols, rows |-> out]
    BY <1>2, <2>1 DEF LimitRows
  <2> HIDE DEF out
  <2> QED BY <2>1, <2>4, <2>5, ShapeResult
<1> QED BY <1>1, <1>2

\* The columns that items take over.
ItemIndex(x, st) == [i \in DOMAIN st.items |-> IF st.items[i].col = "" THEN 0 ELSE ColIndex(x.cols, st.items[i].col)]
Starred(st) == \E i \in DOMAIN st.items : st.items[i].col = "*"
ItemRows(x, st) == [j \in DOMAIN x.rows |-> KeyValues(x.rows[j], ItemIndex(x, st))]
ItemCols(st) == [i \in DOMAIN st.items |-> KeyName(st.items[i])]
LEMMA ProjectIs ==
  ASSUME NEW x, NEW st
  PROVE  ProjectRows(x, st) = IF Starred(st) THEN x ELSE [cols |-> ItemCols(st), rows |-> ItemRows(x, st)]
BY DEF ProjectRows, Starred, ItemRows, ItemCols, ItemIndex

LEMMA ProjectTyped ==
  ASSUME NEW x \in Result, NEW st \in Stages
  PROVE  ProjectRows(x, st) \in Result
<1> DEFINE n == Len(x.cols)
           a == Len(st.items)
           idx == ItemIndex(x, st)
           cols == ItemCols(st)
           out == ItemRows(x, st)
<1>1. CASE Starred(st)
  BY <1>1, ProjectIs
<1>2. CASE ~ Starred(st)
  <2>1. /\ x.cols \in Seq(STRING) /\ n \in Nat /\ Len(x.rows) \in Nat /\ DOMAIN x.rows = 1 .. Len(x.rows)
        /\ \A j \in 1 .. Len(x.rows) : x.rows[j] \in Wide(n)
    BY ResultShape
  <2>2. a \in Nat /\ DOMAIN st.items = 1 .. a /\ cols \in Seq(STRING) /\ Len(cols) = a
    BY NamesTyped DEF ItemCols
  <2>3. DOMAIN idx = 1 .. a /\ \A i \in 1 .. a : idx[i] \in 0 .. n
    <3>1. 0 \in 0 .. n
      BY <2>1
    <3>2. \A name : ColIndex(x.cols, name) \in 0 .. n
      BY <2>1, Indices
    <3> HIDE DEF n
    <3> QED BY <2>2, <3>1, <3>2 DEF ItemIndex
  <2>4. out = [j \in 1 .. Len(x.rows) |-> KeyValues(x.rows[j], idx)]
    BY <2>1 DEF ItemRows
  <2>5. ProjectRows(x, st) = [cols |-> cols, rows |-> out]
    BY <1>2, ProjectIs
  <2> HIDE DEF idx, cols, out, n, a
  <2>6. \A j \in 1 .. Len(x.rows) : KeyValues(x.rows[j], idx) \in Wide(a)
    BY <2>1, <2>2, <2>3, ValuesTyped
  <2>7. DOMAIN out = 1 .. Len(x.rows) /\ out = [j \in 1 .. Len(x.rows) |-> out[j]] /\ \A j \in 1 .. Len(x.rows) : out[j] \in Wide(a)
    BY <2>4, <2>6
  <2>8. out \in Seq(Wide(Len(cols)))
    BY <2>1, <2>2, <2>7, MadeSeq
  <2> QED BY <2>2, <2>5, <2>8, ShapeResult
<1> QED BY <1>1, <1>2

\* Every executor leaves a result.
LEMMA ExecutedTyped ==
  ASSUME NEW x \in Result, NEW st \in Stages
  PROVE  Executed(x, st) \in Result
<1>1. CASE st.op = "MvExpand"
  BY <1>1, MvExpandTyped DEF Executed
<1>2. CASE st.op = "Parse"
  BY <1>2, ParseTyped DEF Executed
<1>3. CASE st.op = "MakeSeries"
  BY <1>3, MakeSeriesTyped DEF Executed
<1>4. CASE st.op = "Aggregate"
  BY <1>4, AggregateTyped DEF Executed
<1>5. CASE st.op = "Limit"
  BY <1>5, LimitTyped DEF Executed
<1>6. CASE st.op = "Project"
  BY <1>6, ProjectTyped DEF Executed
<1>7. CASE st.op \notin {"MvExpand", "Parse", "MakeSeries", "Aggregate", "Limit", "Project"}
  BY <1>7 DEF Executed
<1> QED BY <1>1, <1>2, <1>3, <1>4, <1>5, <1>6, <1>7

-----------------------------------------------------------------------------
(* mv-apply runs the stages inside it one after the other *)

\* What the stages of a sequence make of results.
Runs(sub) == [d \in 1 .. Len(sub) |-> [x \in Result |-> Executed(x, sub[d])]]

\* The stages inside an mv-apply are stages.
LEMMA SubTyped ==
  ASSUME NEW st \in Stages
  PROVE  st.sub \in Seq(Stages)
<1> DEFINE Inner == {u \in Stages : u.op # "MvApply"}
<1>1. st.sub \in Seq(Inner)
  BY StagesAssumption DEF WellFormed
<1>2. Inner \subseteq Stages
  OBVIOUS
<1> HIDE DEF Inner
<1>3. Len(st.sub) \in Nat /\ DOMAIN st.sub = 1 .. Len(st.sub) /\ \A i \in 1 .. Len(st.sub) : st.sub[i] \in Inner
  BY <1>1, LenProperties, ElementOfSeq
<1>4. st.sub = [i \in 1 .. Len(st.sub) |-> st.sub[i]]
  BY <1>1
<1> QED BY <1>2, <1>3, <1>4, MadeSeq

\* Running stages one after the other is what the fold computes.
LEMMA RunsIterate ==
  ASSUME NEW x \in Result, NEW sub \in Seq(Stages)
  PROVE  \E g : Iterates(g, Result, Len(sub), x, Runs(sub)) /\ FoldLeft(Executed, x, sub) = g[Len(sub)]
<1> DEFINE n == Len(sub)
           T == Runs(sub)
           After(f) == f = [S \in SUBSET (1 .. n) |->
                              IF S = {} THEN x ELSE Executed(f[S \ {Max(S)}], sub[Max(S)])]
           s == CHOOSE f : After(f)
<1>1. n \in Nat /\ DOMAIN sub = 1 .. n /\ \A d \in 1 .. n : sub[d] \in Stages
  BY LenProperties, ElementOfSeq
<1>2. T \in [1 .. n -> [Result -> Result]]
  BY <1>1, ExecutedTyped DEF Runs
<1>3. PICK f \in [SUBSET (1 .. n) -> Result] : FoldsOver(f, n, x, T)
  <2> HIDE DEF T, n
  <2> QED BY <1>1, <1>2, FoldOfSteps
<1>4. \A d \in 1 .. n : \A y \in Result : T[d][y] = Executed(y, sub[d])
  BY DEF Runs
<1>5. After(f)
  <2>1. ASSUME NEW S \in SUBSET (1 .. n), S # {} PROVE T[Max(S)][f[S \ {Max(S)}]] = Executed(f[S \ {Max(S)}], sub[Max(S)])
    <3>1. Max(S) \in 1 .. n
      BY <1>1, <2>1, LastPlace
    <3>2. f[S \ {Max(S)}] \in Result
      OBVIOUS
    <3> HIDE DEF T
    <3> QED BY <1>4, <3>1, <3>2
  <2> HIDE DEF T, n
  <2> QED BY <1>3, <2>1 DEF FoldsOver
<1>6. After(s)
  <2> HIDE DEF After
  <2> QED BY <1>5
<1>7. FoldLeft(Executed, x, sub) = s[1 .. n]
  BY <1>1, SMT DEF FoldLeft, MapThenFoldSet
<1> HIDE DEF s
<1>8. s[{}] = x
  BY <1>6
<1>9. FoldsIn(s, Result, n, x, T)
  <2>1. ASSUME NEW S \in SUBSET (1 .. n), S # {}, s[S \ {Max(S)}] \in Result
        PROVE  s[S] = T[Max(S)][s[S \ {Max(S)}]]
    <3>1. Max(S) \in 1 .. n
      BY <1>1, <2>1, LastPlace
    <3>2. s[S] = Executed(s[S \ {Max(S)}], sub[Max(S)])
      <4> HIDE DEF n
      <4> QED BY <1>6, <2>1
    <3> HIDE DEF T
    <3> QED BY <1>4, <2>1, <3>1, <3>2
  <2> HIDE DEF T, n
  <2> QED BY <1>8, <2>1 DEF FoldsIn
<1> DEFINE g == [m \in 0 .. n |-> s[1 .. m]]
<1>10. g = [m \in 0 .. n |-> s[1 .. m]] /\ g[n] = s[1 .. n]
  BY <1>1
<1> HIDE DEF T, n, g
<1>11. Iterates(g, Result, n, x, T)
  BY <1>1, <1>2, <1>9, <1>10, FoldIterates
<1> QED BY <1>7, <1>10, <1>11 DEF n, T

\* mv-apply leaves a result.
LEMMA MvApplyTyped ==
  ASSUME NEW x \in Result, NEW st \in Stages
  PROVE  MvApplyRows(x, st) \in Result
<1> DEFINE y == MvExpandRows(x, st)
<1>1. y \in Result /\ st.sub \in Seq(Stages) /\ MvApplyRows(x, st) = FoldLeft(Executed, y, st.sub)
  BY MvExpandTyped, SubTyped DEF MvApplyRows
<1> HIDE DEF y
<1>2. PICK g : Iterates(g, Result, Len(st.sub), y, Runs(st.sub)) /\ FoldLeft(Executed, y, st.sub) = g[Len(st.sub)]
  BY <1>1, RunsIterate
<1>3. Len(st.sub) \in Nat
  BY <1>1, LenProperties
<1>4. g[Len(st.sub)] \in Result
  BY <1>2, <1>3 DEF Iterates
<1> QED BY <1>1, <1>2, <1>4

-----------------------------------------------------------------------------
(* The shape of the result *)

\* What a stage makes of the result is one.
LEMMA StepTyped ==
  ASSUME TypeOK, NEW out \in Result, k <= Len(region), Apply(out)
  PROVE  TypeOK'
<1>1. Len(region) \in Nat
  BY LenProperties DEF TypeOK
<1>2. k + 1 \in 1 .. Len(region) + 1
  BY <1>1 DEF TypeOK
<1> QED BY <1>2 DEF TypeOK, Apply

\* The stage to run is one of the stages.
LEMMA StageTyped ==
  ASSUME TypeOK, k <= Len(region)
  PROVE  Stage \in Stages
<1>1. Len(region) \in Nat /\ region \in Seq(Stages)
  BY LenProperties DEF TypeOK
<1>2. k \in 1 .. Len(region)
  BY <1>1 DEF TypeOK
<1> QED BY <1>1, <1>2, ElementOfSeq DEF Stage

\* The answer of the backend is a result.
LEMMA InitTypeOK == Init => TypeOK
<1> SUFFICES ASSUME Init PROVE TypeOK
  OBVIOUS
<1>1. region \in Seq(Stages) /\ read \in Result
  BY RegionsAssumption, AnswersAssumption DEF Init
<1>2. Len(region) \in Nat
  BY <1>1, LenProperties
<1>3. k \in 1 .. Len(region) + 1
  BY <1>2 DEF Init
<1> QED BY <1>1, <1>3 DEF Init, TypeOK

\* Every step leaves a result.
LEMMA NextTypeOK == TypeOK /\ [Next]_vars => TypeOK'
<1> SUFFICES ASSUME TypeOK, [Next]_vars PROVE TypeOK'
  OBVIOUS
<1>r. res \in Result
  BY DEF TypeOK
<1>1. CASE ExecMvExpand
  BY <1>1, <1>r, StageTyped, StepTyped, MvExpandTyped DEF ExecMvExpand, At
<1>2. CASE ExecMvApply
  BY <1>2, <1>r, StageTyped, StepTyped, MvApplyTyped DEF ExecMvApply, At
<1>3. CASE ExecParse
  BY <1>3, <1>r, StageTyped, StepTyped, ParseTyped DEF ExecParse, At
<1>4. CASE ExecMakeSeries
  BY <1>4, <1>r, StageTyped, StepTyped, MakeSeriesTyped DEF ExecMakeSeries, At
<1>5. CASE ExecAggregate
  BY <1>5, <1>r, StageTyped, StepTyped, AggregateTyped DEF ExecAggregate, At
<1>6. CASE ExecLimit
  BY <1>6, <1>r, StageTyped, StepTyped, LimitTyped DEF ExecLimit, At
<1>7. CASE ExecProject
  BY <1>7, <1>r, StageTyped, StepTyped, ProjectTyped DEF ExecProject, At
<1>8. CASE PassThrough
  BY <1>8, <1>r, StepTyped DEF PassThrough
<1>9. CASE UNCHANGED vars
  BY <1>9 DEF TypeOK, vars
<1> QED BY <1>1, <1>2, <1>3, <1>4, <1>5, <1>6, <1>7, <1>8, <1>9 DEF Next

\* Every row is as wide as the columns, whatever stages run and however many: no executor
\* reads a row where it has no value (exec.go:166-179, exec_client.go:41).
THEOREM TypeCorrect == Spec => []TypeOK
<1> QED BY InitTypeOK, NextTypeOK, PTL DEF Spec

-----------------------------------------------------------------------------
(* No row is lost, made up or moved *)

\* The values at a place of every row.
Column(rows, at) == [j \in DOMAIN rows |-> rows[j][at]]

\* s is t but for repeats: every place of s shows a place of t, in order, none left out.
Shows(h, s, t) ==
  /\ h \in [1 .. Len(s) -> 1 .. Len(t)]
  /\ \A j, l \in 1 .. Len(s) : j <= l => h[j] <= h[l]
  /\ \A q \in 1 .. Len(t) : \E j \in 1 .. Len(s) : h[j] = q
  /\ \A j \in 1 .. Len(s) : s[j] = t[h[j]]
Follows(s, t) == \E h : Shows(h, s, t)

LEMMA FollowsItself ==
  ASSUME NEW t, Len(t) \in Nat
  PROVE  Follows(t, t)
<1> DEFINE h == [j \in 1 .. Len(t) |-> j]
<1>1. /\ h \in [1 .. Len(t) -> 1 .. Len(t)]
      /\ \A j \in 1 .. Len(t) : h[j] = j
  OBVIOUS
<1> HIDE DEF h
<1>2. Shows(h, t, t)
  BY <1>1 DEF Shows
<1> QED BY <1>2 DEF Follows

\* What follows a result that follows another follows that one.
LEMMA FollowsOn ==
  ASSUME NEW s, NEW t, NEW u, Len(s) \in Nat, Len(t) \in Nat, Len(u) \in Nat, Follows(s, t), Follows(t, u)
  PROVE  Follows(s, u)
<1>1. PICK h : Shows(h, s, t)
  BY DEF Follows
<1>2. PICK g : Shows(g, t, u)
  BY DEF Follows
<1> DEFINE f == [j \in 1 .. Len(s) |-> g[h[j]]]
<1>3. /\ h \in [1 .. Len(s) -> 1 .. Len(t)] /\ g \in [1 .. Len(t) -> 1 .. Len(u)]
      /\ \A j \in 1 .. Len(s) : f[j] = g[h[j]]
  BY <1>1, <1>2 DEF Shows
<1>4. f \in [1 .. Len(s) -> 1 .. Len(u)]
  BY <1>3
<1> HIDE DEF f
<1>5. ASSUME NEW j \in 1 .. Len(s), NEW l \in 1 .. Len(s), j <= l PROVE f[j] <= f[l]
  <2>1. h[j] \in 1 .. Len(t) /\ h[l] \in 1 .. Len(t) /\ h[j] <= h[l]
    BY <1>1, <1>3, <1>5 DEF Shows
  <2>2. g[h[j]] <= g[h[l]]
    BY <1>2, <2>1 DEF Shows
  <2> QED BY <1>3, <2>2
<1>6. ASSUME NEW q \in 1 .. Len(u) PROVE \E j \in 1 .. Len(s) : f[j] = q
  <2>1. PICK p \in 1 .. Len(t) : g[p] = q
    BY <1>2 DEF Shows
  <2>2. PICK j \in 1 .. Len(s) : h[j] = p
    BY <1>1 DEF Shows
  <2> QED BY <1>3, <2>1, <2>2
<1>7. ASSUME NEW j \in 1 .. Len(s) PROVE s[j] = u[f[j]]
  <2>1. s[j] = t[h[j]] /\ h[j] \in 1 .. Len(t)
    BY <1>1, <1>3 DEF Shows
  <2>2. t[h[j]] = u[g[h[j]]]
    BY <1>2, <2>1 DEF Shows
  <2> QED BY <1>3, <2>1, <2>2
<1>8. Shows(f, s, u)
  BY <1>4, <1>5, <1>6, <1>7 DEF Shows
<1> QED BY <1>8 DEF Follows

\* What follows t and does not repeat itself is t.
Changes(s) == {j \in DOMAIN s : j = 1 \/ s[j] # s[j - 1]}
LEMMA ShowsNext ==
  ASSUME NEW h, NEW s, NEW t, Len(s) \in Nat, Len(t) \in Nat, Shows(h, s, t)
  PROVE  /\ Len(s) # 0 => h[1] = 1 /\ h[Len(s)] = Len(t)
         /\ Len(s) = 0 <=> Len(t) = 0
         /\ \A j \in 1 .. Len(s) - 1 : h[j + 1] = h[j] \/ h[j + 1] = h[j] + 1
<1>1. /\ h \in [1 .. Len(s) -> 1 .. Len(t)]
      /\ \A j, l \in 1 .. Len(s) : j <= l => h[j] <= h[l]
      /\ \A q \in 1 .. Len(t) : \E j \in 1 .. Len(s) : h[j] = q
  BY DEF Shows
<1>2. Len(s) = 0 => Len(t) = 0
  <2> SUFFICES ASSUME Len(s) = 0, Len(t) # 0 PROVE FALSE
    OBVIOUS
  <2>1. 1 \in 1 .. Len(t)
    OBVIOUS
  <2>2. \E j \in 1 .. Len(s) : h[j] = 1
    BY <1>1, <2>1
  <2> QED BY <2>2
<1>3. Len(s) # 0 => Len(t) # 0
  <2> SUFFICES ASSUME Len(s) # 0 PROVE Len(t) # 0
    OBVIOUS
  <2>1. h[1] \in 1 .. Len(t)
    BY <1>1
  <2> QED BY <2>1
<1>4. ASSUME Len(s) # 0 PROVE h[1] = 1 /\ h[Len(s)] = Len(t)
  <2>1. 1 \in 1 .. Len(t) /\ Len(t) \in 1 .. Len(t) /\ 1 \in 1 .. Len(s) /\ Len(s) \in 1 .. Len(s)
    BY <1>3, <1>4
  <2>2. h[1] \in 1 .. Len(t) /\ h[Len(s)] \in 1 .. Len(t)
    BY <1>1, <2>1
  <2>3. PICK j \in 1 .. Len(s) : h[j] = 1
    BY <1>1, <2>1
  <2>4. PICK l \in 1 .. Len(s) : h[l] = Len(t)
    BY <1>1, <2>1
  <2>5. 1 <= j /\ l <= Len(s)
    OBVIOUS
  <2>6. h[1] <= h[j] /\ h[l] <= h[Len(s)]
    BY <1>1, <2>1, <2>5
  <2> QED BY <2>2, <2>3, <2>4, <2>6
<1>5. ASSUME NEW j \in 1 .. Len(s) - 1 PROVE h[j + 1] = h[j] \/ h[j + 1] = h[j] + 1
  <2>1. j \in 1 .. Len(s) /\ j + 1 \in 1 .. Len(s) /\ j <= j + 1
    OBVIOUS
  <2>2. h[j] \in 1 .. Len(t) /\ h[j + 1] \in 1 .. Len(t) /\ h[j] <= h[j + 1]
    BY <1>1, <2>1
  <2> SUFFICES ASSUME h[j + 1] > h[j] + 1 PROVE FALSE
    BY <2>2
  <2>3. h[j] + 1 \in 1 .. Len(t)
    BY <2>2
  <2>4. PICK l \in 1 .. Len(s) : h[l] = h[j] + 1
    BY <1>1, <2>3
  <2>5. CASE l <= j
    <3>1. h[l] <= h[j]
      BY <1>1, <2>1, <2>5
    <3> QED BY <2>2, <2>4, <3>1
  <2>6. CASE ~ (l <= j)
    <3>1. j + 1 <= l
      BY <2>6
    <3>2. h[j + 1] <= h[l]
      BY <1>1, <2>1, <3>1
    <3> QED BY <2>2, <2>4, <3>2
  <2> QED BY <2>5, <2>6
<1> QED BY <1>2, <1>3, <1>4, <1>5

\* A column that follows one without repeats is, without its own repeats, that one.
LEMMA SqueezedIs ==
  ASSUME NEW S, NEW s \in Seq(S), NEW t \in Seq(S), Follows(s, t),
         \A j \in 2 .. Len(t) : t[j] # t[j - 1]
  PROVE  Squeezed(s) = t
<1>1. PICK h : Shows(h, s, t)
  BY DEF Follows
<1> DEFINE P == Changes(s)
           Upto(q) == {j \in P : j <= q}
           I == {q \in Nat : q + 1 <= Len(s) => Cardinality(Upto(q + 1)) = h[q + 1]}
<1>2. Len(s) \in Nat /\ Len(t) \in Nat /\ DOMAIN s = 1 .. Len(s) /\ DOMAIN t = 1 .. Len(t)
  BY LenProperties
<1>3. /\ Len(s) # 0 => h[1] = 1 /\ h[Len(s)] = Len(t)
      /\ Len(s) = 0 <=> Len(t) = 0
      /\ \A j \in 1 .. Len(s) - 1 : h[j + 1] = h[j] \/ h[j + 1] = h[j] + 1
  BY <1>1, <1>2, ShowsNext
<1>4. /\ h \in [1 .. Len(s) -> 1 .. Len(t)]
      /\ \A j \in 1 .. Len(s) : s[j] = t[h[j]]
  BY <1>1 DEF Shows
<1>5. P \subseteq 1 .. Len(s) /\ \A j \in P : j \in Nat
  BY <1>2 DEF Changes
<1>6. P \subseteq DOMAIN s
  BY <1>2, <1>5
<1>7. ASSUME NEW j \in 1 .. Len(s) - 1
      PROVE  j + 1 \in P <=> h[j + 1] = h[j] + 1
  <2>1. j \in 1 .. Len(s) /\ j + 1 \in 1 .. Len(s) /\ (j + 1) - 1 = j /\ j + 1 # 1
    BY <1>2
  <2>2. h[j] \in 1 .. Len(t) /\ h[j + 1] \in 1 .. Len(t)
    BY <1>4, <2>1
  <2>3. j + 1 \in P <=> s[j + 1] # s[j]
    BY <1>2, <2>1 DEF Changes
  <2>4. CASE h[j + 1] = h[j]
    <3>1. s[j + 1] = s[j]
      BY <1>4, <2>1, <2>4
    <3> QED BY <2>2, <2>3, <2>4, <3>1
  <2>5. CASE h[j + 1] = h[j] + 1
    <3>1. h[j + 1] \in 2 .. Len(t) /\ h[j + 1] - 1 = h[j]
      BY <1>2, <2>2, <2>5
    <3>2. t[h[j + 1]] # t[h[j]]
      BY <3>1
    <3> QED BY <1>4, <2>1, <2>3, <2>5, <3>2
  <2> QED BY <1>3, <2>4, <2>5
<1>8. \A q : IsFiniteSet(Upto(q))
  <2>1. IsFiniteSet(1 .. Len(s))
    BY <1>2, FS_Interval
  <2>2. \A q : Upto(q) \subseteq 1 .. Len(s)
    BY <1>5
  <2> HIDE DEF Upto
  <2> QED BY <2>1, <2>2, FS_Subset
<1>9. 0 \in I
  <2> SUFFICES ASSUME 1 <= Len(s) PROVE Cardinality(Upto(1)) = h[1]
    OBVIOUS
  <2>1. 1 \in P
    BY <1>2 DEF Changes
  <2>2. Upto(1) = {1}
    BY <1>5, <2>1
  <2>3. Cardinality({1}) = 1
    BY FS_Singleton
  <2>4. h[1] = 1
    BY <1>2, <1>3
  <2> HIDE DEF Upto
  <2> QED BY <2>2, <2>3, <2>4
<1>10. ASSUME NEW q \in Nat, q \in I PROVE q + 1 \in I
  <2> SUFFICES ASSUME q + 2 <= Len(s) PROVE Cardinality(Upto(q + 2)) = h[q + 2]
    BY <1>2
  <2>1. Cardinality(Upto(q + 1)) = h[q + 1]
    BY <1>2, <1>10
  <2>2. q + 1 \in 1 .. Len(s) - 1 /\ (q + 1) + 1 = q + 2
    BY <1>2
  <2>3. h[q + 1] \in Nat /\ (h[q + 2] = h[q + 1] \/ h[q + 2] = h[q + 1] + 1)
    BY <1>2, <1>3, <1>4, <2>2
  <2>4. q + 2 \in P <=> h[q + 2] = h[q + 1] + 1
    BY <1>7, <2>2
  <2>5. CASE q + 2 \in P
    <3>1. Upto(q + 2) = Upto(q + 1) \cup {q + 2} /\ q + 2 \notin Upto(q + 1)
      BY <1>5, <2>5
    <3> HIDE DEF Upto
    <3>2. Cardinality(Upto(q + 2)) = Cardinality(Upto(q + 1)) + 1
      BY <1>8, <3>1, OneMore
    <3> QED BY <2>1, <2>4, <2>5, <3>2
  <2>6. CASE q + 2 \notin P
    <3>1. Upto(q + 2) = Upto(q + 1)
      BY <1>5, <2>6
    <3> QED BY <2>1, <2>3, <2>4, <2>6, <3>1
  <2> QED BY <2>5, <2>6
<1>11. Nat \subseteq I
  <2> HIDE DEF I
  <2> QED BY <1>9, <1>10, SetInduction
<1>12. ASSUME NEW q \in 1 .. Len(s) PROVE Cardinality(Upto(q)) = h[q]
  <2>1. q - 1 \in Nat /\ (q - 1) + 1 = q /\ q <= Len(s)
    BY <1>2
  <2>2. q - 1 \in I
    <3> HIDE DEF I
    <3> QED BY <1>11, <2>1
  <2> HIDE DEF Upto
  <2> QED BY <2>1, <2>2
<1>13. Cardinality(P) = Len(t)
  <2>1. CASE Len(s) = 0
    <3>1. P = {}
      BY <1>5, <2>1
    <3> QED BY <1>3, <2>1, <3>1, FS_EmptySet
  <2>2. CASE Len(s) # 0
    <3>1. Len(s) \in 1 .. Len(s)
      BY <1>2, <2>2
    <3>2. Upto(Len(s)) = P
      BY <1>2, <1>5
    <3> HIDE DEF Upto
    <3> QED BY <1>3, <1>12, <2>2, <3>1, <3>2
  <2> QED BY <2>1, <2>2
<1>14. P \subseteq Nat /\ IsFiniteSet(P)
  BY <1>6, PickedRows
<1> DEFINE out == Squeezed(s)
<1>15. out = Picked(s, P)
  BY DEF Squeezed, Changes
<1>16. out \in Seq(S) /\ Len(out) = Len(t)
  BY <1>6, <1>13, <1>15, PickedRows
<1>17. ASSUME NEW n \in 1 .. Len(t) PROVE out[n] = t[n]
  <2> DEFINE p == Ascending(P)[n]
  <2>1. p \in P /\ out[n] = s[p]
    BY <1>6, <1>13, <1>15, PickedRows
  <2>2. Cardinality(Upto(p)) = n
    BY <1>13, <1>14, AscendingPlaces
  <2>3. p \in 1 .. Len(s)
    BY <1>5, <2>1
  <2> HIDE DEF p, Upto, P
  <2>4. h[p] = n
    BY <1>12, <2>2, <2>3
  <2> QED BY <1>4, <2>1, <2>3, <2>4
<1> HIDE DEF out
<1>18. out = t
  <2>1. out = [n \in 1 .. Len(t) |-> out[n]] /\ t = [n \in 1 .. Len(t) |-> t[n]]
    BY <1>2, <1>16, LenProperties
  <2> QED BY <1>17, <2>1
<1> QED BY <1>18 DEF out

\* Where the rows' numbers are.
TagAt(x) == ColIndex(x.cols, "i")
LEMMA TagsAre ==
  ASSUME NEW x \in Result, TagAt(x) # 0
  PROVE  /\ Tags(x) \in Seq(Value) /\ Len(Tags(x)) = Len(x.rows)
         /\ TagAt(x) \in 1 .. Len(x.cols)
         /\ \A j \in 1 .. Len(x.rows) : Tags(x)[j] = x.rows[j][TagAt(x)]
<1> DEFINE at == TagAt(x)
           n == Len(x.cols)
           f == Tags(x)
<1>1. /\ x.cols \in Seq(STRING) /\ n \in Nat /\ x.rows \in Seq(Wide(n))
      /\ Len(x.rows) \in Nat /\ DOMAIN x.rows = 1 .. Len(x.rows)
  BY ResultShape
<1>2. at \in 1 .. n
  <2>1. at \in 0 .. n /\ at # 0
    BY <1>1, Indices DEF TagAt
  <2> HIDE DEF at, n
  <2> QED BY <1>1, <2>1
<1>3. f = [j \in 1 .. Len(x.rows) |-> x.rows[j][at]]
  BY <1>1 DEF Tags, TagAt
<1>4. \A j \in 1 .. Len(x.rows) : f[j] \in Value
  BY <1>1, <1>2, <1>3, ColumnTyped
<1>5. DOMAIN f = 1 .. Len(x.rows) /\ f = [j \in 1 .. Len(x.rows) |-> f[j]]
  BY <1>3
<1> HIDE DEF f
<1>6. f \in Seq(Value) /\ Len(f) = Len(x.rows)
  BY <1>1, <1>4, <1>5, MadeSeq
<1> QED BY <1>2, <1>3, <1>6 DEF f

\* A name's index is the first place of its name.
LEMMA IndexIs ==
  ASSUME NEW cols \in Seq(STRING), NEW name, NEW p \in 1 .. Len(cols), Folded[cols[p]] = Folded[name],
         \A c \in 1 .. p - 1 : Folded[cols[c]] # Folded[name]
  PROVE  ColIndex(cols, name) = p
<1> DEFINE at == ColIndex(cols, name)
<1>1. Len(cols) \in Nat /\ DOMAIN cols = 1 .. Len(cols)
  BY LenProperties
<1>2. /\ at \in 0 .. Len(cols)
      /\ at = 0 <=> \A c \in DOMAIN cols : Folded[cols[c]] # Folded[name]
      /\ at # 0 => /\ Folded[cols[at]] = Folded[name]
                   /\ \A c \in 1 .. at - 1 : Folded[cols[c]] # Folded[name]
  BY Indices
<1> HIDE DEF at
<1>3. at \in 1 .. Len(cols)
  BY <1>1, <1>2
<1>4. ~ (at < p)
  BY <1>1, <1>2, <1>3
<1>5. ~ (p < at)
  BY <1>1, <1>2, <1>3
<1>6. at = p
  BY <1>1, <1>3, <1>4, <1>5
<1> QED BY <1>6 DEF at

\* Rows with the same values at the numbering column, one after the other, follow.
LEMMA SameRows ==
  ASSUME NEW x \in Result, NEW y \in Result, TagAt(x) # 0, TagAt(y) # 0, Len(y.rows) = Len(x.rows),
         \A j \in 1 .. Len(x.rows) : y.rows[j][TagAt(y)] = x.rows[j][TagAt(x)]
  PROVE  Follows(Tags(y), Tags(x))
<1> DEFINE s == Tags(y)
           t == Tags(x)
<1>1. /\ t \in Seq(Value) /\ Len(t) = Len(x.rows) /\ s \in Seq(Value) /\ Len(s) = Len(x.rows)
      /\ \A j \in 1 .. Len(x.rows) : s[j] = t[j]
  BY TagsAre
<1>2. Len(x.rows) \in Nat
  BY ResultShape
<1> HIDE DEF s, t
<1>3. s = t
  <2>1. s = [j \in 1 .. Len(s) |-> s[j]] /\ t = [j \in 1 .. Len(t) |-> t[j]]
    BY <1>1, LenProperties
  <2> QED BY <1>1, <2>1
<1>4. Follows(t, t)
  BY <1>1, <1>2, FollowsItself
<1> QED BY <1>3, <1>4 DEF s, t

\* Exploding rows at a column leaves the other columns' values, each as often as its row
\* was exploded, and at least once.
LEMMA ExplodedFollows ==
  ASSUME NEW x \in Result, NEW at \in 1 .. Len(x.cols), NEW c \in 1 .. Len(x.cols), c # at
  PROVE  Follows(Column(FlattenSeq(Exploded(x, at)), c), Column(x.rows, c))
<1> DEFINE n == Len(x.cols)
           ss == Exploded(x, at)
           W == Wide(n)
           From(h, m, f) == /\ h \in [1 .. Len(f[m]) -> 1 .. m]
                            /\ \A j, l \in 1 .. Len(f[m]) : j <= l => h[j] <= h[l]
                            /\ \A q \in 1 .. m : \E j \in 1 .. Len(f[m]) : h[j] = q
                            /\ \A j \in 1 .. Len(f[m]) : f[m][j][c] = x.rows[h[j]][c]
<1>1. /\ n \in Nat /\ Len(x.rows) \in Nat /\ DOMAIN x.rows = 1 .. Len(x.rows)
      /\ \A j \in 1 .. Len(x.rows) : x.rows[j] \in W
  BY ResultShape
<1>2. ss \in Seq(Seq(W)) /\ Len(ss) = Len(x.rows)
  BY ExplodedTyped
<1>3. ASSUME NEW m \in 1 .. Len(x.rows)
      PROVE  ss[m] \in Seq(W) /\ Len(ss[m]) \in Nat \ {0} /\ \A e \in 1 .. Len(ss[m]) : ss[m][e][c] = x.rows[m][c]
  <2>1. ss[m] = ExplodeRow(x.rows[m], at)
    BY <1>1 DEF Exploded
  <2> HIDE DEF ss, n
  <2> QED BY <1>1, <2>1, ExplodedRow DEF n
<1>4. PICK f : Joins(f, ss, W) /\ FlattenSeq(ss) = f[Len(ss)]
  BY <1>2, Flattens
<1> HIDE DEF ss, n
<1>5. /\ f \in [0 .. Len(x.rows) -> Seq(W)] /\ f[0] = <<>>
      /\ \A m \in 0 .. Len(x.rows) - 1 : f[m + 1] = f[m] \o ss[m + 1]
  BY <1>2, <1>4 DEF Joins
<1> DEFINE I == {m \in Nat : m <= Len(x.rows) => \E h : From(h, m, f)}
<1>6. 0 \in I
  <2>1. Len(f[0]) = 0
    BY <1>5
  <2> DEFINE h == [j \in 1 .. 0 |-> j]
  <2>2. From(h, 0, f)
    BY <2>1
  <2> QED BY <2>2
<1>7. ASSUME NEW m \in Nat, m \in I PROVE m + 1 \in I
  <2> SUFFICES ASSUME m + 1 <= Len(x.rows) PROVE \E h : From(h, m + 1, f)
    OBVIOUS
  <2>1. m \in 0 .. Len(x.rows) - 1 /\ m + 1 \in 1 .. Len(x.rows) /\ m \in 0 .. Len(x.rows)
    BY <1>1
  <2>2. PICK h : From(h, m, f)
    <3>1. m <= Len(x.rows)
      BY <1>1
    <3> HIDE DEF From
    <3> QED BY <1>7, <3>1
  <2> DEFINE a == Len(f[m])
             b == Len(ss[m + 1])
             g == [j \in 1 .. a + b |-> IF j <= a THEN h[j] ELSE m + 1]
  <2>3. f[m] \in Seq(W) /\ ss[m + 1] \in Seq(W) /\ f[m + 1] = f[m] \o ss[m + 1]
    BY <1>3, <1>5, <2>1
  <2>4. /\ a \in Nat /\ b \in Nat \ {0} /\ Len(f[m + 1]) = a + b
        /\ \A j \in 1 .. a : f[m + 1][j] = f[m][j]
        /\ \A j \in a + 1 .. a + b : f[m + 1][j] = ss[m + 1][j - a]
    <3>1. a \in Nat /\ b \in Nat \ {0}
      BY <1>3, <2>1, <2>3, LenProperties
    <3>2. Len(f[m] \o ss[m + 1]) = a + b
      BY <2>3, ConcatProperties
    <3>3. \A j \in 1 .. a + b : (f[m] \o ss[m + 1])[j] = IF j <= a THEN f[m][j] ELSE ss[m + 1][j - a]
      BY <2>3, ConcatProperties
    <3> HIDE DEF a, b
    <3>4. /\ \A j \in 1 .. a : j \in 1 .. a + b /\ j <= a
          /\ \A j \in a + 1 .. a + b : j \in 1 .. a + b /\ ~ (j <= a)
      BY <3>1
    <3> QED BY <2>3, <3>1, <3>2, <3>3, <3>4
  <2>5. /\ h \in [1 .. a -> 1 .. m]
        /\ \A j, l \in 1 .. a : j <= l => h[j] <= h[l]
        /\ \A q \in 1 .. m : \E j \in 1 .. a : h[j] = q
        /\ \A j \in 1 .. a : f[m][j][c] = x.rows[h[j]][c]
    BY <2>2
  <2>6. \A j \in 1 .. a + b : (j \in 1 .. a /\ g[j] = h[j]) \/ (j \in a + 1 .. a + b /\ g[j] = m + 1)
    <3>1. a \in Nat /\ b \in Nat \ {0}
      BY <2>4
    <3> HIDE DEF a, b
    <3> QED BY <3>1
  <2>7. \A j \in 1 .. a : h[j] \in 1 .. m
    BY <2>5
  <2>8. g \in [1 .. a + b -> 1 .. m + 1]
    <3>1. m + 1 \in 1 .. m + 1 /\ \A q \in 1 .. m : q \in 1 .. m + 1
      OBVIOUS
    <3>2. DOMAIN g = 1 .. a + b /\ g = [j \in 1 .. a + b |-> g[j]]
      OBVIOUS
    <3> HIDE DEF g, a, b
    <3>3. \A j \in 1 .. a + b : g[j] \in 1 .. m + 1
      BY <2>6, <2>7, <3>1
    <3> QED BY <3>2, <3>3
  <2> HIDE DEF g, a, b, I
  <2>9. ASSUME NEW j \in 1 .. a + b, NEW l \in 1 .. a + b, j <= l PROVE g[j] <= g[l]
    <3>1. CASE l \in 1 .. a
      <4>1. j \in 1 .. a
        BY <2>4, <2>9, <3>1
      <4>2. g[j] = h[j] /\ g[l] = h[l]
        BY <2>4, <2>6, <3>1, <4>1
      <4> QED BY <2>5, <2>9, <3>1, <4>1, <4>2
    <3>2. CASE l \in a + 1 .. a + b
      <4>1. g[l] = m + 1
        BY <2>4, <2>6, <3>2
      <4>2. g[j] \in 1 .. m + 1
        BY <2>8
      <4> QED BY <4>1, <4>2
    <3> QED BY <2>4, <3>1, <3>2
  <2>10. ASSUME NEW q \in 1 .. m + 1 PROVE \E j \in 1 .. a + b : g[j] = q
    <3>1. CASE q = m + 1
      <4>1. a + b \in 1 .. a + b /\ ~ (a + b \in 1 .. a)
        BY <2>4
      <4>2. g[a + b] = m + 1
        BY <2>6, <4>1
      <4> QED BY <3>1, <4>1, <4>2
    <3>2. CASE q # m + 1
      <4>1. q \in 1 .. m
        BY <3>2
      <4>2. PICK j \in 1 .. a : h[j] = q
        BY <2>5, <4>1
      <4>3. j \in 1 .. a + b /\ ~ (j \in a + 1 .. a + b)
        BY <2>4
      <4>4. g[j] = h[j]
        BY <2>6, <4>3
      <4> QED BY <4>2, <4>3, <4>4
    <3> QED BY <3>1, <3>2
  <2>11. ASSUME NEW j \in 1 .. a + b PROVE f[m + 1][j][c] = x.rows[g[j]][c]
    <3>1. CASE j \in 1 .. a /\ g[j] = h[j]
      BY <2>4, <2>5, <3>1
    <3>2. CASE j \in a + 1 .. a + b /\ g[j] = m + 1
      <4>1. j - a \in 1 .. b
        BY <2>4, <3>2
      <4>2. ss[m + 1][j - a][c] = x.rows[m + 1][c]
        BY <1>3, <2>1, <4>1 DEF b
      <4> QED BY <2>4, <3>2, <4>2
    <3> QED BY <2>6, <3>1, <3>2
  <2>12. From(g, m + 1, f)
    BY <2>4, <2>8, <2>9, <2>10, <2>11
  <2> QED BY <2>12
<1>8. Nat \subseteq I
  <2> HIDE DEF I
  <2> QED BY <1>6, <1>7, SetInduction
<1> DEFINE m == Len(x.rows)
           s == Column(f[m], c)
           t == Column(x.rows, c)
<1>9. PICK h : From(h, m, f)
  <2>1. m \in I
    <3> HIDE DEF I
    <3> QED BY <1>1, <1>8
  <2>2. m <= Len(x.rows)
    BY <1>1
  <2> HIDE DEF From, m
  <2> QED BY <2>1, <2>2
<1>10. f[m] \in Seq(W) /\ FlattenSeq(ss) = f[m]
  BY <1>1, <1>2, <1>4, <1>5
<1>11. /\ Len(s) = Len(f[m]) /\ \A j \in 1 .. Len(f[m]) : s[j] = f[m][j][c]
       /\ Len(t) = m /\ \A j \in 1 .. m : t[j] = x.rows[j][c]
  <2>1. Len(f[m]) \in Nat /\ DOMAIN f[m] = 1 .. Len(f[m])
    BY <1>10, LenProperties
  <2> HIDE DEF m
  <2>2. s = [j \in 1 .. Len(f[m]) |-> f[m][j][c]] /\ t = [j \in 1 .. m |-> x.rows[j][c]]
    BY <1>1, <2>1 DEF Column, m
  <2> HIDE DEF s, t
  <2> QED BY <1>1, <2>1, <2>2 DEF m
<1> HIDE DEF s, t, m
<1>12. Shows(h, s, t)
  <2>1. \A j \in 1 .. Len(f[m]) : h[j] \in 1 .. m
    BY <1>9
  <2>2. /\ h \in [1 .. Len(s) -> 1 .. Len(t)]
        /\ \A j, l \in 1 .. Len(s) : j <= l => h[j] <= h[l]
        /\ \A q \in 1 .. Len(t) : \E j \in 1 .. Len(s) : h[j] = q
    BY <1>9, <1>11
  <2>3. \A j \in 1 .. Len(s) : s[j] = t[h[j]]
    <3> SUFFICES ASSUME NEW j \in 1 .. Len(s) PROVE s[j] = t[h[j]]
      OBVIOUS
    <3>1. j \in 1 .. Len(f[m]) /\ h[j] \in 1 .. m /\ f[m][j][c] = x.rows[h[j]][c]
      BY <1>9, <1>11, <2>1
    <3> HIDE DEF From
    <3> QED BY <1>11, <3>1
  <2> QED BY <2>2, <2>3 DEF Shows
<1>13. Follows(s, t)
  BY <1>12 DEF Follows
<1> QED BY <1>10, <1>13 DEF s, t, ss

\* mv-expand of another column.
LEMMA MvExpandFollows ==
  ASSUME NEW x \in Result, NEW st \in Stages, TagAt(x) # 0, ~ IsTag(Source(st)), ~ IsTag(st.name)
  PROVE  TagAt(MvExpandRows(x, st)) # 0 /\ Follows(Tags(MvExpandRows(x, st)), Tags(x))
<1> DEFINE n == Len(x.cols)
           at == ExactIndex(x.cols, Source(st))
           c == TagAt(x)
           name == IF st.name = "" THEN Source(st) ELSE st.name
           y == MvExpandRows(x, st)
           rows == FlattenSeq(Exploded(x, at))
<1>1. /\ x.cols \in Seq(STRING) /\ n \in Nat /\ DOMAIN x.cols = 1 .. n
      /\ Len(x.rows) \in Nat /\ DOMAIN x.rows = 1 .. Len(x.rows) /\ x.rows \in Seq(Wide(n))
  BY ResultShape
<1>2. CASE at = 0
  <2>1. y = x
    BY <1>2 DEF MvExpandRows
  <2>2. Len(Tags(x)) \in Nat
    BY <1>1, TagsAre
  <2>3. Follows(Tags(x), Tags(x))
    BY <2>2, FollowsItself
  <2> QED BY <2>1, <2>3
<1>3. CASE at # 0
  <2>1. at \in 1 .. n /\ x.cols[at] = Source(st)
    <3>1. at \in 0 .. n /\ (at # 0 => x.cols[at] = Source(st))
      BY <1>1, Indices
    <3> HIDE DEF at, n
    <3> QED BY <1>1, <1>3, <3>1
  <2>2. /\ c \in 1 .. n /\ Folded[x.cols[c]] = Folded["i"]
        /\ \A b \in 1 .. c - 1 : Folded[x.cols[b]] # Folded["i"]
    BY <1>1, TagsAre, Indices DEF TagAt
  <2>3. c # at
    BY <2>1, <2>2 DEF IsTag
  <2>4. Folded[name] # Folded["i"]
    BY DEF IsTag
  <2>5. y = [cols |-> [x.cols EXCEPT ![at] = name], rows |-> rows]
    BY <1>3 DEF MvExpandRows, Exploded
  <2> DEFINE cols == [x.cols EXCEPT ![at] = name]
  <2>6. y \in Result
    BY MvExpandTyped
  <2>7. y.cols = cols /\ y.rows = rows
    <3> HIDE DEF y, rows, at, name
    <3>1. y = [cols |-> cols, rows |-> rows]
      BY <2>5
    <3> HIDE DEF cols
    <3> QED BY <3>1
  <2>8. y.cols \in Seq(STRING)
    BY <2>6, ResultShape
  <2>9. DOMAIN cols = 1 .. n /\ \A b \in 1 .. n : cols[b] = IF b = at THEN name ELSE x.cols[b]
    BY <1>1
  <2> HIDE DEF y, rows, name, cols, at, c
  <2>10. ColIndex(cols, "i") = c
    <3>1. cols \in Seq(STRING) /\ Len(cols) = n
      BY <1>1, <2>7, <2>8, <2>9, LenProperties
    <3>2. Folded[cols[c]] = Folded["i"]
      BY <2>2, <2>3, <2>9
    <3>3. \A b \in 1 .. c - 1 : Folded[cols[b]] # Folded["i"]
      BY <1>1, <2>2, <2>4, <2>9
    <3> HIDE DEF n
    <3> QED BY <2>2, <3>1, <3>2, <3>3, IndexIs
  <2>11. TagAt(y) = c /\ TagAt(y) # 0
    BY <2>2, <2>7, <2>10 DEF TagAt
  <2>12. Tags(y) = Column(rows, c) /\ Tags(x) = Column(x.rows, c)
    BY <2>7, <2>11 DEF Tags, TagAt, Column, c
  <2>13. Follows(Column(rows, c), Column(x.rows, c))
    BY <2>1, <2>2, <2>3, ExplodedFollows DEF rows
  <2> QED BY <2>11, <2>12, <2>13 DEF y
<1> QED BY <1>2, <1>3

\* parse of every row.
LEMMA ParseFollows ==
  ASSUME NEW x \in Result, NEW st \in Stages, TagAt(x) # 0, ~ st.where
  PROVE  TagAt(ParseRows(x, st)) # 0 /\ Follows(Tags(ParseRows(x, st)), Tags(x))
<1> DEFINE n == Len(x.cols)
           at == ExactIndex(x.cols, st.target)
           c == TagAt(x)
           y == ParseRows(x, st)
           C == Captures(st.pattern)
           names == [i \in DOMAIN C |-> st.pattern[C[i]].name]
<1>1. /\ x.cols \in Seq(STRING) /\ n \in Nat /\ DOMAIN x.cols = 1 .. n
      /\ Len(x.rows) \in Nat /\ DOMAIN x.rows = 1 .. Len(x.rows) /\ x.rows \in Seq(Wide(n))
      /\ \A j \in 1 .. Len(x.rows) : x.rows[j] \in Wide(n)
  BY ResultShape
<1>2. CASE at = 0
  <2>1. y = x
    BY <1>2 DEF ParseRows
  <2>2. Len(Tags(x)) \in Nat
    BY <1>1, TagsAre
  <2>3. Follows(Tags(x), Tags(x))
    BY <2>2, FollowsItself
  <2> QED BY <2>1, <2>3
<1>3. CASE at # 0
  <2>1. at \in 1 .. n
    <3>1. at \in 0 .. n
      BY <1>1, Indices
    <3> HIDE DEF at, n
    <3> QED BY <1>1, <1>3, <3>1
  <2>2. /\ c \in 1 .. n /\ Folded[x.cols[c]] = Folded["i"]
        /\ \A b \in 1 .. c - 1 : Folded[x.cols[b]] # Folded["i"]
    BY <1>1, TagsAre, Indices DEF TagAt
  <2>3. y = [cols |-> x.cols \o names, rows |-> ParsedRows(x, at, st)]
    BY <1>3, ParseIs DEF ParsedCols
  <2>4. y \in Result /\ y.cols = x.cols \o names /\ y.rows = ParsedRows(x, at, st)
    <3>1. y \in Result
      BY ParseTyped
    <3> HIDE DEF y, names, at
    <3> QED BY <2>3, <3>1
  <2>5. Kept(x, at, st) = x.rows
    BY DEF Kept
  <2>6. y.rows = [j \in 1 .. Len(x.rows) |-> x.rows[j] \o ParsedVals(x.rows[j], at, st)]
    BY <1>1, <2>4, <2>5 DEF ParsedRows
  <2>7. y.cols \in Seq(STRING) /\ Len(y.rows) \in Nat /\ DOMAIN y.rows = 1 .. Len(y.rows)
    BY <2>4, ResultShape
  <2> HIDE DEF y, c, at
  <2>8. \A b \in 1 .. n : y.cols[b] = x.cols[b] /\ n <= Len(y.cols)
    <3>1. /\ Len(C) \in Nat /\ DOMAIN C = 1 .. Len(C)
          /\ \A i \in 1 .. Len(C) : st.pattern[C[i]].name \in STRING
      BY StagesAssumption, CapturesInOrder DEF WellFormed
    <3>2. names \in Seq(STRING) /\ Len(names) = Len(C)
      <4>1. DOMAIN names = 1 .. Len(C) /\ names = [i \in 1 .. Len(C) |-> names[i]] /\ \A i \in 1 .. Len(C) : names[i] \in STRING
        BY <3>1
      <4> HIDE DEF names, C
      <4> QED BY <3>1, <4>1, MadeSeq
    <3> HIDE DEF names, C
    <3>3. Len(x.cols \o names) = n + Len(names)
      BY <1>1, <3>2, ConcatProperties
    <3>5. \A b \in 1 .. n + Len(names) : (x.cols \o names)[b] = IF b <= n THEN x.cols[b] ELSE names[b - n]
      BY <1>1, <3>2, ConcatProperties
    <3> HIDE DEF n
    <3>4. \A b \in 1 .. n : b \in 1 .. n + Len(names) /\ b <= n
      BY <1>1, <3>1, <3>2
    <3> QED BY <1>1, <2>4, <3>1, <3>2, <3>3, <3>4, <3>5
  <2>9. ColIndex(y.cols, "i") = c
    <3>1. c \in 1 .. Len(y.cols) /\ \A b \in 1 .. c : b \in 1 .. n
      BY <1>1, <2>2, <2>7, <2>8, LenProperties
    <3>2. Folded[y.cols[c]] = Folded["i"]
      BY <2>2, <2>8
    <3>3. \A b \in 1 .. c - 1 : Folded[y.cols[b]] # Folded["i"]
      BY <2>2, <2>8, <3>1
    <3> HIDE DEF n
    <3> QED BY <2>7, <3>1, <3>2, <3>3, IndexIs
  <2>10. TagAt(y) = c /\ TagAt(y) # 0 /\ TagAt(x) = c
    BY <2>2, <2>9 DEF TagAt, c
  <2>11. Len(y.rows) = Len(x.rows)
    BY <1>1, <2>6, <2>7
  <2>12. ASSUME NEW j \in 1 .. Len(x.rows) PROVE y.rows[j][c] = x.rows[j][c]
    <3>1. y.rows[j] = x.rows[j] \o ParsedVals(x.rows[j], at, st)
      BY <2>6
    <3> HIDE DEF n
    <3>2. ParsedVals(x.rows[j], at, st) \in Wide(Len(C)) /\ Len(C) \in Nat
      BY <1>1, <2>1, ParsedRow
    <3> DEFINE m == Len(C)
               row == x.rows[j]
               vals == ParsedVals(row, at, st)
    <3>3. n \in Nat /\ m \in Nat /\ row \in Wide(n) /\ vals \in Wide(m) /\ c \in 1 .. n
      BY <1>1, <2>2, <3>2
    <3> HIDE DEF m, row, vals
    <3>4. (row \o vals)[c] = row[c]
      BY <3>3, WiderRow
    <3> QED BY <3>1, <3>4 DEF row, vals
  <2>13. Follows(Tags(y), Tags(x))
    BY <2>4, <2>10, <2>11, <2>12, SameRows
  <2> QED BY <2>10, <2>13 DEF y
<1> QED BY <1>2, <1>3

\* project of everything, or of the numbers among others.
LEMMA ProjectFollows ==
  ASSUME NEW x \in Result, NEW st \in Stages, TagAt(x) # 0, Starred(st) \/ KeepsTag(st.items)
  PROVE  TagAt(ProjectRows(x, st)) # 0 /\ Follows(Tags(ProjectRows(x, st)), Tags(x))
<1> DEFINE n == Len(x.cols)
           a == Len(st.items)
           idx == ItemIndex(x, st)
           c == TagAt(x)
           y == ProjectRows(x, st)
           p == TagAt(y)
<1>1. Len(x.rows) \in Nat /\ DOMAIN x.rows = 1 .. Len(x.rows) /\ x.cols \in Seq(STRING)
  BY ResultShape
<1>2. CASE Starred(st)
  <2>1. y = x
    BY <1>2, ProjectIs
  <2>2. Len(Tags(x)) \in Nat
    BY <1>1, TagsAre
  <2>3. Follows(Tags(x), Tags(x))
    BY <2>2, FollowsItself
  <2> QED BY <2>1, <2>3
<1>3. CASE ~ Starred(st)
  <2>1. y = [cols |-> ItemCols(st), rows |-> ItemRows(x, st)] /\ y \in Result
    BY <1>3, ProjectIs, ProjectTyped
  <2>2. a \in Nat /\ DOMAIN st.items = 1 .. a /\ ItemCols(st) \in Seq(STRING) /\ Len(ItemCols(st)) = a
    BY NamesTyped DEF ItemCols
  <2>3. y.cols = ItemCols(st) /\ y.rows = ItemRows(x, st)
    BY <2>1
  <2> HIDE DEF y
  <2>4. \A i \in 1 .. a : y.cols[i] = KeyName(st.items[i])
    BY <2>2, <2>3 DEF ItemCols
  <2>5. p # 0
    <3>1. PICK i \in 1 .. a : Folded[KeyName(st.items[i])] = Folded["i"]
      BY <1>3, <2>2 DEF KeepsTag, IsTag
    <3>2. y.cols \in Seq(STRING) /\ DOMAIN y.cols = 1 .. a
      BY <2>2, <2>3, LenProperties
    <3>3. i \in DOMAIN y.cols /\ Folded[y.cols[i]] = Folded["i"]
      BY <2>4, <3>1, <3>2
    <3> QED BY <3>2, <3>3, Indices DEF TagAt
  <2>6. p \in 1 .. a /\ Folded[y.cols[p]] = Folded["i"]
    <3>1. p \in 1 .. Len(y.cols)
      BY <2>1, <2>5, TagsAre
    <3>2. y.cols \in Seq(STRING) /\ Folded[y.cols[p]] = Folded["i"]
      BY <2>2, <2>3, <2>5, Indices DEF TagAt
    <3> QED BY <2>2, <2>3, <3>1, <3>2
  <2> HIDE DEF p
  <2>7. st.items[p].col # "" /\ Folded[st.items[p].col] = Folded["i"]
    BY <1>3, <2>2, <2>4, <2>6 DEF KeepsTag, IsTag
  <2>8. ColIndex(x.cols, st.items[p].col) = c
    <3> DEFINE name == st.items[p].col
    <3>1. /\ c \in 1 .. Len(x.cols) /\ Folded[x.cols[c]] = Folded["i"]
          /\ \A b \in 1 .. c - 1 : Folded[x.cols[b]] # Folded["i"]
      BY <1>1, TagsAre, Indices DEF TagAt
    <3>2. Folded[name] = Folded["i"]
      BY <2>7
    <3> HIDE DEF name, c
    <3>3. ColIndex(x.cols, name) = c
      BY <1>1, <3>1, <3>2, IndexIs
    <3> QED BY <3>3 DEF name
  <2>9. idx[p] = c /\ DOMAIN idx = 1 .. a
    BY <2>2, <2>6, <2>7, <2>8 DEF ItemIndex
  <2>10. ASSUME NEW j \in 1 .. Len(x.rows) PROVE y.rows[j][p] = x.rows[j][c]
    <3>1. y.rows[j] = KeyValues(x.rows[j], idx)
      BY <1>1, <2>3 DEF ItemRows
    <3>2. idx[p] # 0
      BY <2>9
    <3> HIDE DEF idx, c
    <3> QED BY <2>6, <2>9, <3>1, <3>2 DEF KeyValues
  <2>11. Len(y.rows) = Len(x.rows)
    <3>1. y.rows = [j \in 1 .. Len(x.rows) |-> KeyValues(x.rows[j], idx)]
      BY <1>1, <2>3 DEF ItemRows
    <3>2. Len(y.rows) \in Nat /\ DOMAIN y.rows = 1 .. Len(y.rows)
      BY <2>1, ResultShape
    <3> HIDE DEF idx
    <3> QED BY <1>1, <3>1, <3>2
  <2>12. Follows(Tags(y), Tags(x))
    BY <2>1, <2>5, <2>10, <2>11, SameRows DEF p
  <2> QED BY <2>5, <2>12 DEF y, p
<1> QED BY <1>2, <1>3

\* An mv-apply with nothing inside explodes.
LEMMA EmptyApply ==
  ASSUME NEW x \in Result, NEW st \in Stages, st.sub = <<>>
  PROVE  MvApplyRows(x, st) = MvExpandRows(x, st)
<1> DEFINE y == MvExpandRows(x, st)
<1>1. y \in Result /\ st.sub \in Seq(Stages) /\ Len(st.sub) = 0
  BY MvExpandTyped, SubTyped
<1>2. MvApplyRows(x, st) = FoldLeft(Executed, y, st.sub)
  BY DEF MvApplyRows
<1> HIDE DEF y
<1>3. PICK g : Iterates(g, Result, Len(st.sub), y, Runs(st.sub)) /\ FoldLeft(Executed, y, st.sub) = g[Len(st.sub)]
  BY <1>1, RunsIterate
<1>4. g[Len(st.sub)] = y
  BY <1>1, <1>3 DEF Iterates
<1> QED BY <1>2, <1>3, <1>4 DEF y

\* What a stage that keeps the rows makes of a result follows it.
KeepsRows(y, x) == TagAt(y) # 0 /\ Follows(Tags(y), Tags(x))
LEMMA SameKeeps ==
  ASSUME NEW x \in Result, TagAt(x) # 0
  PROVE  KeepsRows(x, x)
<1>1. Len(Tags(x)) \in Nat
  BY TagsAre, ResultShape
<1> QED BY <1>1, FollowsItself DEF KeepsRows

\* The rows the stages so far, if they all keep the rows, have left.
RowsFollow ==
  Tagged(read) /\ (\A j \in DOMAIN Done : Keeping(Done[j])) => KeepsRows(res, read)

\* The stages run so far.
LEMMA DoneIs ==
  ASSUME NEW r \in Seq(Stages), NEW m, m \in 1 .. Len(r) + 1
  PROVE  DOMAIN SubSeq(r, 1, m - 1) = 1 .. m - 1 /\ \A j \in 1 .. m - 1 : SubSeq(r, 1, m - 1)[j] = r[j]
<1> DEFINE e == m - 1
           s == SubSeq(r, 1, e)
<1>1. e \in 0 .. Len(r)
  <2>1. Len(r) \in Nat
    BY LenProperties
  <2> QED BY <2>1
<1> HIDE DEF e
<1>2. s \in Seq(Stages) /\ Len(s) = e /\ \A j \in 1 .. e : s[j] = r[j]
  BY <1>1, SubSeqProperties
<1>3. DOMAIN s = 1 .. e
  <2> HIDE DEF s
  <2> QED BY <1>2, LenProperties
<1> QED BY <1>2, <1>3 DEF e

\* A stage that keeps the rows, run next.
LEMMA StepFollows ==
  ASSUME TypeOK, TypeOK', RowsFollow, k <= Len(region), NEW out \in Result, Apply(out),
         TagAt(res) # 0 /\ Keeping(Stage) => KeepsRows(out, res)
  PROVE  RowsFollow'
<1>1. region' = region /\ read' = read /\ k' = k + 1 /\ res' = out
  BY DEF Apply
<1>2. Len(region) \in Nat /\ k \in 1 .. Len(region)
  <2>1. Len(region) \in Nat
    BY LenProperties DEF TypeOK
  <2> QED BY <2>1 DEF TypeOK
<1>3. DOMAIN Done = 1 .. k - 1 /\ \A j \in 1 .. k - 1 : Done[j] = region[j]
  BY DoneIs DEF TypeOK, Done
<1>4. DOMAIN Done' = 1 .. k /\ \A j \in 1 .. k : Done'[j] = region[j]
  <2>1. DOMAIN Done' = 1 .. k' - 1 /\ \A j \in 1 .. k' - 1 : Done'[j] = region'[j]
    BY DoneIs DEF TypeOK, Done
  <2>2. k' - 1 = k
    BY <1>1, <1>2
  <2> QED BY <1>1, <2>1, <2>2
<1> SUFFICES ASSUME Tagged(read)', (\A j \in DOMAIN Done : Keeping(Done[j]))'
             PROVE  KeepsRows(res, read)'
  BY DEF RowsFollow
<1>5. Tagged(read)
  BY <1>1
<1>6. \A j \in 1 .. k : Keeping(region[j])
  <2> SUFFICES ASSUME NEW j \in 1 .. k PROVE Keeping(region[j])
    OBVIOUS
  <2>1. Keeping(Done[j])'
    BY <1>4
  <2>2. Done'[j] = region[j]
    BY <1>4
  <2> QED BY <2>1, <2>2 DEF Keeping, KeepsTag, IsTag, Source
<1>7. \A j \in DOMAIN Done : Keeping(Done[j])
  BY <1>2, <1>3, <1>6
<1>8. KeepsRows(res, read)
  BY <1>5, <1>7 DEF RowsFollow
<1>9. KeepsRows(out, res)
  BY <1>2, <1>6, <1>8 DEF KeepsRows, Stage
<1>10. res \in Result /\ read \in Result /\ TagAt(read) # 0
  BY <1>5 DEF TypeOK, Tagged, TagAt
<1>11. Len(Tags(out)) \in Nat /\ Len(Tags(res)) \in Nat /\ Len(Tags(read)) \in Nat
  BY <1>8, <1>9, <1>10, TagsAre, ResultShape DEF KeepsRows
<1>12. Follows(Tags(out), Tags(read))
  BY <1>8, <1>9, <1>11, FollowsOn DEF KeepsRows
<1>13. KeepsRows(out, read)
  BY <1>9, <1>12 DEF KeepsRows
<1> QED BY <1>1, <1>13

\* The answer follows itself.
LEMMA InitRowsFollow == Init => RowsFollow
<1> SUFFICES ASSUME Init, Tagged(read) PROVE KeepsRows(res, read)
  BY DEF RowsFollow
<1>1. res \in Result /\ res = read /\ TagAt(read) # 0
  BY InitTypeOK DEF Init, TypeOK, Tagged, TagAt
<1> QED BY <1>1, SameKeeps

\* Every step of a stage that keeps rows follows on.
LEMMA NextRowsFollow == TypeOK /\ TypeOK' /\ RowsFollow /\ [Next]_vars => RowsFollow'
<1> SUFFICES ASSUME TypeOK, TypeOK', RowsFollow, [Next]_vars PROVE RowsFollow'
  OBVIOUS
<1>r. res \in Result
  BY DEF TypeOK
<1>s. k <= Len(region) => Stage \in Stages
  BY StageTyped
<1>1. CASE ExecMvExpand
  <2> DEFINE out == MvExpandRows(res, Stage)
  <2>1. k <= Len(region) /\ Stage.op = "MvExpand" /\ Apply(out)
    BY <1>1 DEF ExecMvExpand, At
  <2>2. out \in Result
    BY <1>r, <1>s, <2>1, MvExpandTyped
  <2>3. TagAt(res) # 0 /\ Keeping(Stage) => KeepsRows(out, res)
    BY <1>r, <1>s, <2>1, MvExpandFollows DEF Keeping, KeepsRows
  <2> HIDE DEF out
  <2> QED BY <2>1, <2>2, <2>3, StepFollows
<1>2. CASE ExecMvApply
  <2> DEFINE out == MvApplyRows(res, Stage)
  <2>1. k <= Len(region) /\ Stage.op = "MvApply" /\ Apply(out)
    BY <1>2 DEF ExecMvApply, At
  <2>2. out \in Result
    BY <1>r, <1>s, <2>1, MvApplyTyped
  <2>3. TagAt(res) # 0 /\ Keeping(Stage) => KeepsRows(out, res)
    <3> SUFFICES ASSUME TagAt(res) # 0, Keeping(Stage) PROVE KeepsRows(out, res)
      OBVIOUS
    <3>1. Stage.sub = <<>> /\ ~ IsTag(Source(Stage)) /\ ~ IsTag(Stage.name)
      BY <2>1 DEF Keeping
    <3>2. out = MvExpandRows(res, Stage)
      BY <1>r, <1>s, <2>1, <3>1, EmptyApply
    <3> HIDE DEF out
    <3> QED BY <1>r, <1>s, <2>1, <3>1, <3>2, MvExpandFollows DEF KeepsRows
  <2> HIDE DEF out
  <2> QED BY <2>1, <2>2, <2>3, StepFollows
<1>3. CASE ExecParse
  <2> DEFINE out == ParseRows(res, Stage)
  <2>1. k <= Len(region) /\ Stage.op = "Parse" /\ Apply(out)
    BY <1>3 DEF ExecParse, At
  <2>2. out \in Result
    BY <1>r, <1>s, <2>1, ParseTyped
  <2>3. TagAt(res) # 0 /\ Keeping(Stage) => KeepsRows(out, res)
    BY <1>r, <1>s, <2>1, ParseFollows DEF Keeping, KeepsRows
  <2> HIDE DEF out
  <2> QED BY <2>1, <2>2, <2>3, StepFollows
<1>4. CASE ExecMakeSeries
  <2> DEFINE out == MakeSeriesRows(res, Stage)
  <2>1. k <= Len(region) /\ Stage.op = "MakeSeries" /\ Apply(out)
    BY <1>4 DEF ExecMakeSeries, At
  <2>2. out \in Result
    BY <1>r, <1>s, <2>1, MakeSeriesTyped
  <2>3. ~ Keeping(Stage)
    BY <2>1 DEF Keeping
  <2> HIDE DEF out
  <2> QED BY <2>1, <2>2, <2>3, StepFollows
<1>5. CASE ExecAggregate
  <2> DEFINE out == AggregateRows(res, Stage)
  <2>1. k <= Len(region) /\ Stage.op = "Aggregate" /\ Apply(out)
    BY <1>5 DEF ExecAggregate, At
  <2>2. out \in Result
    BY <1>r, <1>s, <2>1, AggregateTyped
  <2>3. ~ Keeping(Stage)
    BY <2>1 DEF Keeping
  <2> HIDE DEF out
  <2> QED BY <2>1, <2>2, <2>3, StepFollows
<1>6. CASE ExecLimit
  <2> DEFINE out == LimitRows(res, Stage)
  <2>1. k <= Len(region) /\ Stage.op = "Limit" /\ Apply(out)
    BY <1>6 DEF ExecLimit, At
  <2>2. out \in Result
    BY <1>r, <1>s, <2>1, LimitTyped
  <2>3. ~ Keeping(Stage)
    BY <2>1 DEF Keeping
  <2> HIDE DEF out
  <2> QED BY <2>1, <2>2, <2>3, StepFollows
<1>7. CASE ExecProject
  <2> DEFINE out == ProjectRows(res, Stage)
  <2>1. k <= Len(region) /\ Stage.op = "Project" /\ Apply(out)
    BY <1>7 DEF ExecProject, At
  <2>2. out \in Result
    BY <1>r, <1>s, <2>1, ProjectTyped
  <2>3. TagAt(res) # 0 /\ Keeping(Stage) => KeepsRows(out, res)
    BY <1>r, <1>s, <2>1, ProjectFollows DEF Keeping, KeepsRows, Starred
  <2> HIDE DEF out
  <2> QED BY <2>1, <2>2, <2>3, StepFollows
<1>8. CASE PassThrough
  <2>1. k <= Len(region) /\ Apply(res)
    BY <1>8 DEF PassThrough
  <2>2. TagAt(res) # 0 => KeepsRows(res, res)
    BY <1>r, SameKeeps
  <2> QED BY <1>r, <2>1, <2>2, StepFollows
<1>9. CASE UNCHANGED vars
  BY <1>9 DEF RowsFollow, Done, vars
<1> QED BY <1>1, <1>2, <1>3, <1>4, <1>5, <1>6, <1>7, <1>8, <1>9 DEF Next

\* Rows that follow rows numbered apart are those, each once or more.
LEMMA FollowedOnce == TypeOK /\ RowsFollow => NoRowLost
<1> SUFFICES ASSUME TypeOK, RowsFollow, Tagged(read), \A j \in DOMAIN Done : Keeping(Done[j])
             PROVE  Squeezed(Tags(res)) = Tags(read)
  BY DEF NoRowLost
<1>1. KeepsRows(res, read)
  BY DEF RowsFollow
<1>2. res \in Result /\ read \in Result /\ TagAt(read) # 0
  BY DEF TypeOK, Tagged, TagAt
<1>3. /\ Tags(res) \in Seq(Value) /\ Tags(read) \in Seq(Value)
      /\ Len(Tags(read)) = Len(read.rows) /\ Len(read.rows) \in Nat /\ DOMAIN read.rows = 1 .. Len(read.rows)
  BY <1>1, <1>2, TagsAre, ResultShape DEF KeepsRows
<1>4. \A j \in 2 .. Len(Tags(read)) : Tags(read)[j] # Tags(read)[j - 1]
  BY <1>3 DEF Tagged
<1>5. Follows(Tags(res), Tags(read))
  BY <1>1 DEF KeepsRows
<1> QED BY <1>3, <1>4, <1>5, SqueezedIs

\* No row the backend answered is lost, made up or moved by exploding, parsing, sorting and
\* renaming, however many rows there are and however the stages are combined: the column
\* that numbers the rows reads the same after them, one row's copies next to each other
\* (exec.go:164-181, postproc_register.go:175-178).
THEOREM RowsKept == Spec => []NoRowLost
<1>1. Init => TypeOK /\ RowsFollow
  BY InitTypeOK, InitRowsFollow
<1>2. (TypeOK /\ RowsFollow) /\ [Next]_vars => (TypeOK /\ RowsFollow)'
  BY NextTypeOK, NextRowsFollow
<1> QED BY <1>1, <1>2, FollowedOnce, PTL DEF Spec

-----------------------------------------------------------------------------
(* One row after the other *)

\* A set of sequences that has the empty one and with every one its extensions has all.
LEMMA SequenceInduction ==
  ASSUME NEW S, NEW Q, <<>> \in Q, \A s \in Seq(S) : \A e \in S : s \in Q => s \o << e >> \in Q
  PROVE  Seq(S) \subseteq Q
<1> DEFINE I == {m \in Nat : \A s \in Seq(S) : Len(s) = m => s \in Q}
<1>1. 0 \in I
  BY EmptySeq
<1>2. ASSUME NEW m \in Nat, m \in I PROVE m + 1 \in I
  <2> SUFFICES ASSUME NEW s \in Seq(S), Len(s) = m + 1 PROVE s \in Q
    OBVIOUS
  <2> DEFINE r == SubSeq(s, 1, m)
  <2>1. r \in Seq(S) /\ Len(r) = m
    <3>1. \A i \in 1 .. m : s[i] \in S
      BY ElementOfSeq
    <3> QED BY <3>1, SubSeqProperties
  <2>2. s = r \o << s[m + 1] >> /\ s[m + 1] \in S
    <3>1. m + 1 \in 1 .. Len(s) /\ 1 \in 1 .. Len(s) /\ m + 1 \in 1 .. Len(s) /\ (m + 1) - 1 = m
      OBVIOUS
    <3>2. SubSeq(s, 1, m + 1) = SubSeq(s, 1, (m + 1) - 1) \o << s[m + 1] >>
      BY <3>1, SubSeqRecursiveSecond
    <3>3. SubSeq(s, 1, m + 1) = s
      BY SubSeqFull
    <3>4. s[m + 1] \in S
      BY <3>1, ElementOfSeq
    <3> QED BY <3>1, <3>2, <3>3, <3>4
  <2>3. r \in Q
    BY <1>2, <2>1
  <2> HIDE DEF r
  <2> QED BY <2>1, <2>2, <2>3
<1>3. Nat \subseteq I
  <2> HIDE DEF I
  <2> QED BY <1>1, <1>2, SetInduction
<1> SUFFICES ASSUME NEW s \in Seq(S) PROVE s \in Q
  OBVIOUS
<1>4. Len(s) \in Nat
  BY LenProperties
<1>5. Len(s) \in I
  <2> HIDE DEF I
  <2> QED BY <1>3, <1>4
<1> QED BY <1>5

\* The values of g along a sequence.
Along(g, r) == [j \in DOMAIN r |-> g[r[j]]]

LEMMA OneLonger ==
  ASSUME NEW S, NEW r \in Seq(S), NEW e \in S
  PROVE  /\ r \o << e >> \in Seq(S) /\ Len(r \o << e >>) = Len(r) + 1 /\ Len(r) \in Nat
         /\ DOMAIN (r \o << e >>) = 1 .. Len(r) + 1
         /\ \A j \in 1 .. Len(r) : (r \o << e >>)[j] = r[j]
         /\ (r \o << e >>)[Len(r) + 1] = e
<1>1. << e >> \in Seq(S) /\ Len(<< e >>) = 1
  OBVIOUS
<1> DEFINE one == << e >>
           m == Len(r)
<1>2. one \in Seq(S) /\ Len(one) = 1 /\ one[1] = e /\ m \in Nat
  BY <1>1, LenProperties
<1> HIDE DEF one
<1>3. r \o one \in Seq(S) /\ Len(r \o one) = m + 1
  BY <1>2, ConcatProperties
<1>4. \A i \in 1 .. m + 1 : (r \o one)[i] = IF i <= m THEN r[i] ELSE one[i - m]
  BY <1>2, ConcatProperties
<1>5. DOMAIN (r \o one) = 1 .. m + 1
  BY <1>3, LenProperties
<1> HIDE DEF m
<1> DEFINE q == r \o one
<1>6. ASSUME NEW j \in 1 .. m PROVE q[j] = r[j]
  <2>1. j \in 1 .. m + 1 /\ j <= m
    BY <1>2
  <2> QED BY <1>4, <2>1
<1>7. q[m + 1] = e
  <2>1. m + 1 \in 1 .. m + 1 /\ ~ (m + 1 <= m) /\ (m + 1) - m = 1
    BY <1>2
  <2> QED BY <1>2, <1>4, <2>1
<1> QED BY <1>2, <1>3, <1>5, <1>6, <1>7 DEF one, m

\* g's values on S are in U.
Into(g, S, U) == \A e \in S : g[e] \in U

LEMMA AlongTyped ==
  ASSUME NEW S, NEW U, NEW g, Into(g, S, U), NEW r \in Seq(S)
  PROVE  Along(g, r) \in Seq(U) /\ Len(Along(g, r)) = Len(r)
<1> DEFINE a == Along(g, r)
<1>1. Len(r) \in Nat /\ DOMAIN r = 1 .. Len(r) /\ \A j \in 1 .. Len(r) : r[j] \in S
  BY LenProperties, ElementOfSeq
<1>2. DOMAIN a = 1 .. Len(r) /\ a = [j \in 1 .. Len(r) |-> a[j]] /\ \A j \in 1 .. Len(r) : a[j] \in U
  BY <1>1 DEF Along, Into
<1> HIDE DEF a
<1>3. a \in Seq(U) /\ Len(a) = Len(r)
  BY <1>1, <1>2, MadeSeq
<1> QED BY <1>3 DEF a

Longer(q, r, e) == q = r \o << e >>

\* One value more.
LEMMA AlongLonger ==
  ASSUME NEW S, NEW U, NEW g, Into(g, S, U), NEW r \in Seq(S), NEW e \in S,
         NEW q, Longer(q, r, e)
  PROVE  Along(g, q) = Along(g, r) \o << g[e] >>
<1> DEFINE m == Len(r)
           a == Along(g, q)
           b == Along(g, r)
           c == b \o << g[e] >>
<1>1. /\ q \in Seq(S) /\ Len(q) = m + 1 /\ m \in Nat
      /\ DOMAIN q = 1 .. m + 1
      /\ \A j \in 1 .. m : q[j] = r[j]
      /\ q[m + 1] = e
  BY OneLonger DEF Longer
<1>2. a \in Seq(U) /\ Len(a) = m + 1
  <2>1. q \in Seq(S) /\ Len(q) = m + 1
    BY <1>1
  <2>2. Along(g, q) \in Seq(U) /\ Len(Along(g, q)) = Len(q)
    BY <2>1, AlongTyped
  <2> QED BY <2>1, <2>2
<1>3. b \in Seq(U) /\ Len(b) = m /\ DOMAIN r = 1 .. m
  <2>1. DOMAIN r = 1 .. m
    BY LenProperties
  <2>2. b \in Seq(U) /\ Len(b) = Len(r)
    BY AlongTyped
  <2> QED BY <2>1, <2>2
<1>4. g[e] \in U
  BY DEF Into
<1>5. /\ \A j \in 1 .. m + 1 : a[j] = g[q[j]]
      /\ \A j \in 1 .. m : b[j] = g[r[j]]
  BY <1>1, <1>3 DEF Along
<1> HIDE DEF a, b, m
<1>6. c \in Seq(U) /\ Len(c) = m + 1 /\ (\A j \in 1 .. m : c[j] = b[j]) /\ c[m + 1] = g[e]
  BY <1>3, <1>4, OneLonger
<1> HIDE DEF c
<1>7. ASSUME NEW j \in 1 .. m + 1 PROVE a[j] = c[j]
  <2>1. CASE j \in 1 .. m
    BY <1>1, <1>5, <1>6, <2>1
  <2>2. CASE j = m + 1
    BY <1>1, <1>5, <1>6, <2>2
  <2> QED BY <1>1, <2>1, <2>2
<1>8. a = c
  BY <1>2, <1>6, <1>7, SeqEqual
<1> QED BY <1>8 DEF a, b, c

\* Flattening one sequence more.
LEMMA FlattenLonger ==
  ASSUME NEW S, NEW ss \in Seq(Seq(S)), NEW s \in Seq(S)
  PROVE  FlattenSeq(ss \o << s >>) = FlattenSeq(ss) \o s
<1> DEFINE n == Len(ss)
           tt == ss \o << s >>
<1>1. /\ tt \in Seq(Seq(S)) /\ Len(tt) = n + 1 /\ n \in Nat
      /\ \A j \in 1 .. n : tt[j] = ss[j]
      /\ tt[n + 1] = s
  BY OneLonger
<1> HIDE DEF tt
<1>2. PICK f : Joins(f, ss, S) /\ FlattenSeq(ss) = f[n]
  BY Flattens
<1>3. PICK g : Joins(g, tt, S) /\ FlattenSeq(tt) = g[Len(tt)]
  BY <1>1, Flattens
<1> HIDE DEF n
<1>4. /\ f \in [0 .. n -> Seq(S)] /\ f[0] = <<>>
      /\ \A m \in 0 .. n - 1 : f[m + 1] = f[m] \o ss[m + 1]
  BY <1>2 DEF Joins, n
<1>5. f[n] \in Seq(S)
  BY <1>1, <1>4
<1> DEFINE h == [m \in 0 .. n + 1 |-> IF m \in 0 .. n THEN f[m] ELSE f[n] \o s]
<1>6. h \in [0 .. n + 1 -> Seq(S)]
  <2>1. f[n] \o s \in Seq(S)
    BY <1>5, ConcatProperties
  <2> QED BY <1>4, <2>1
<1>7. h[0] = <<>> /\ h[n + 1] = f[n] \o s /\ \A m \in 0 .. n : h[m] = f[m]
  BY <1>1, <1>4
<1> HIDE DEF h
<1>8. ASSUME NEW m \in 0 .. n PROVE h[m + 1] = h[m] \o tt[m + 1]
  <2>1. CASE m = n
    BY <1>1, <1>7, <2>1
  <2>2. CASE m # n
    <3>1. m \in 0 .. n - 1 /\ m + 1 \in 0 .. n /\ m + 1 \in 1 .. n
      BY <1>1, <2>2
    <3> QED BY <1>1, <1>4, <1>7, <3>1
  <2> QED BY <2>1, <2>2
<1>9. Joins(h, tt, S)
  <2>1. (n + 1) - 1 = n
    BY <1>1
  <2> QED BY <1>1, <1>6, <1>7, <1>8, <2>1 DEF Joins
<1>10. g = h
  BY <1>1, <1>3, <1>9, JoinsOnce
<1> QED BY <1>1, <1>2, <1>3, <1>7, <1>10 DEF tt, n

\* Flattening none.
LEMMA FlattenNone == FlattenSeq(<<>>) = <<>>
<1> DEFINE none == <<>>
<1>1. none \in Seq(Seq({})) /\ Len(none) = 0
  BY EmptySeq
<1>2. PICK f : Joins(f, none, {}) /\ FlattenSeq(none) = f[Len(none)]
  BY <1>1, Flattens
<1> QED BY <1>1, <1>2 DEF Joins

\* H makes rows of rows one after the other.
OneByOne(H, S, U) ==
  /\ H \in [Seq(S) -> Seq(U)]
  /\ H[<<>>] = <<>>
  /\ \A r \in Seq(S) : \A e \in S : H[r \o << e >>] = H[r] \o H[<< e >>]

\* It makes of rows behind rows what it makes of each.
Joined(z, x, y) == z = x \o y
LEMMA OneByOneConcat ==
  ASSUME NEW S, NEW U, NEW H, OneByOne(H, S, U)
  PROVE  \A a, b \in Seq(S) : Joined(H[a \o b], H[a], H[b])
<1> SUFFICES ASSUME NEW a \in Seq(S), NEW b \in Seq(S) PROVE H[a \o b] = H[a] \o H[b]
  BY DEF Joined
<1> DEFINE Q == {s \in Seq(S) : H[a \o s] = H[a] \o H[s]}
<1>1. H \in [Seq(S) -> Seq(U)] /\ H[<<>>] = <<>>
  BY DEF OneByOne
<1>2. \A s \in Seq(S) : H[s] \in Seq(U)
  BY <1>1
<1>3. <<>> \in Q
  <2>1. a \o <<>> = a /\ H[a] \o <<>> = H[a] /\ <<>> \in Seq(S)
    BY <1>2, ConcatEmptySeq, EmptySeq
  <2> QED BY <1>1, <2>1
<1>4. ASSUME NEW s \in Seq(S), NEW e \in S, s \in Q PROVE s \o << e >> \in Q
  <2>1. s \o << e >> \in Seq(S) /\ << e >> \in Seq(S) /\ a \o s \in Seq(S)
    BY OneLonger, ConcatProperties
  <2>2. a \o (s \o << e >>) = (a \o s) \o << e >>
    BY <2>1, ConcatAssociative
  <2>3. H[(a \o s) \o << e >>] = H[a \o s] \o H[<< e >>]
    BY <2>1 DEF OneByOne
  <2>4. H[s \o << e >>] = H[s] \o H[<< e >>]
    BY DEF OneByOne
  <2>5. H[a \o s] = H[a] \o H[s]
    BY <1>4
  <2>6. (H[a] \o H[s]) \o H[<< e >>] = H[a] \o (H[s] \o H[<< e >>])
    <3> DEFINE x == H[a]
               y == H[s]
               z == H[<< e >>]
    <3>1. x \in Seq(U) /\ y \in Seq(U) /\ z \in Seq(U)
      BY <1>2, <2>1
    <3> HIDE DEF x, y, z
    <3>2. (x \o y) \o z = x \o (y \o z)
      BY <3>1, ConcatAssociative
    <3> QED BY <3>2 DEF x, y, z
  <2> QED BY <2>1, <2>2, <2>3, <2>4, <2>5, <2>6
<1>5. Seq(S) \subseteq Q
  <2> HIDE DEF Q
  <2> QED BY <1>3, <1>4, SequenceInduction
<1> QED BY <1>5

\* So it is what it makes of single rows, put behind one another.
LEMMA OneByOneFlat ==
  ASSUME NEW S, NEW U, NEW H, OneByOne(H, S, U), NEW r \in Seq(S)
  PROVE  H[r] = FlattenSeq([j \in DOMAIN r |-> H[<< r[j] >>]])
<1> DEFINE E == [e \in S |-> H[<< e >>]]
           Q == {s \in Seq(S) : H[s] = FlattenSeq(Along(E, s))}
<1>1. H \in [Seq(S) -> Seq(U)] /\ H[<<>>] = <<>>
  BY DEF OneByOne
<1>2. Into(E, S, Seq(U)) /\ \A e \in S : E[e] = H[<< e >>] /\ E[e] \in Seq(U)
  <2>1. \A e \in S : << e >> \in Seq(S)
    OBVIOUS
  <2> QED BY <1>1, <2>1 DEF Into
<1> HIDE DEF E
<1>3. <<>> \in Q
  <2>1. Along(E, <<>>) = <<>>
    BY DEF Along
  <2> QED BY <1>1, <2>1, FlattenNone, EmptySeq
<1>4. ASSUME NEW s \in Seq(S), NEW e \in S, s \in Q PROVE s \o << e >> \in Q
  <2>1. s \o << e >> \in Seq(S)
    BY OneLonger
  <2>2. Along(E, s \o << e >>) = Along(E, s) \o << E[e] >>
    <3> DEFINE W == Seq(U)
               q == s \o << e >>
    <3>1. Into(E, S, W) /\ Longer(q, s, e)
      BY <1>2 DEF Longer
    <3> HIDE DEF W, Q, q
    <3>2. Along(E, q) = Along(E, s) \o << E[e] >>
      BY <3>1, AlongLonger
    <3> QED BY <3>2 DEF q
  <2>3. Along(E, s) \in Seq(Seq(U)) /\ E[e] \in Seq(U)
    BY <1>2, AlongTyped
  <2>4. FlattenSeq(Along(E, s) \o << E[e] >>) = FlattenSeq(Along(E, s)) \o E[e]
    BY <2>3, FlattenLonger
  <2>5. H[s \o << e >>] = H[s] \o H[<< e >>]
    BY DEF OneByOne
  <2> QED BY <1>2, <1>4, <2>1, <2>2, <2>4, <2>5
<1>5. Seq(S) \subseteq Q
  <2> HIDE DEF Q
  <2> QED BY <1>3, <1>4, SequenceInduction
<1>6. H[r] = FlattenSeq(Along(E, r))
  BY <1>5
<1>7. Along(E, r) = [j \in DOMAIN r |-> H[<< r[j] >>]]
  <2>1. \A j \in DOMAIN r : r[j] \in S
    BY LenProperties, ElementOfSeq
  <2> QED BY <1>2, <2>1 DEF Along
<1> QED BY <1>6, <1>7

-----------------------------------------------------------------------------
(* What works on one row after the other *)

\* D is what one row more adds.
Adding(H, D, S, U) ==
  /\ H \in [Seq(S) -> Seq(U)]
  /\ H[<<>>] = <<>>
  /\ \A e \in S : D[e] \in Seq(U)
  /\ \A r \in Seq(S) : \A e \in S : H[r \o << e >>] = H[r] \o D[e]

LEMMA AddingOneByOne ==
  ASSUME NEW S, NEW U, NEW H, NEW D, Adding(H, D, S, U)
  PROVE  OneByOne(H, S, U)
<1>1. ASSUME NEW e \in S PROVE H[<< e >>] = D[e]
  <2> DEFINE one == << e >>
             none == <<>>
             x == D[e]
  <2>1. one \in Seq(S) /\ none \in Seq(S) /\ none \in Seq(U) /\ x \in Seq(U) /\ H[none] = none
    BY EmptySeq DEF Adding
  <2>2. H[none \o one] = H[none] \o x
    BY <2>1 DEF Adding
  <2> HIDE DEF one, none, x
  <2>3. <<>> \o one = one /\ <<>> \o x = x
    BY <2>1, ConcatEmptySeq
  <2>4. H[one] = x
    BY <2>1, <2>2, <2>3 DEF none
  <2> QED BY <2>4 DEF one, x
<1>2. ASSUME NEW r \in Seq(S), NEW e \in S PROVE H[r \o << e >>] = H[r] \o H[<< e >>]
  <2>1. H[r \o << e >>] = H[r] \o D[e]
    BY DEF Adding
  <2> QED BY <1>1, <2>1
<1> QED BY <1>2 DEF OneByOne, Adding

\* One value for each row.
MapsRows(H, g, S) == H = [r \in Seq(S) |-> Along(g, r)]
LEMMA AlongOneByOne ==
  ASSUME NEW S, NEW U, NEW g, Into(g, S, U), NEW H, MapsRows(H, g, S)
  PROVE  OneByOne(H, S, U)
<1> DEFINE D == [e \in S |-> << g[e] >>]
<1>1. H \in [Seq(S) -> Seq(U)]
  <2>1. \A r \in Seq(S) : Along(g, r) \in Seq(U)
    BY AlongTyped
  <2> QED BY <2>1 DEF MapsRows
<1>2. H[<<>>] = <<>>
  <2>1. Along(g, <<>>) = <<>>
    BY DEF Along
  <2> QED BY <2>1, EmptySeq DEF MapsRows
<1>3. \A e \in S : D[e] \in Seq(U) /\ D[e] = << g[e] >>
  BY DEF Into
<1> HIDE DEF D
<1>4. ASSUME NEW r \in Seq(S), NEW e \in S PROVE H[r \o << e >>] = H[r] \o D[e]
  <2> DEFINE q == r \o << e >>
  <2>1. q \in Seq(S) /\ Longer(q, r, e)
    BY OneLonger DEF Longer
  <2> HIDE DEF q
  <2>2. Along(g, q) = Along(g, r) \o << g[e] >>
    BY <2>1, AlongLonger
  <2>3. H[q] = H[r] \o D[e]
    BY <1>3, <2>1, <2>2 DEF MapsRows
  <2> QED BY <2>3 DEF q
<1>5. Adding(H, D, S, U)
  BY <1>1, <1>2, <1>3, <1>4 DEF Adding
<1> QED BY <1>5, AddingOneByOne

\* Some rows for each row.
SpreadsRows(H, g, S) == H = [r \in Seq(S) |-> FlattenSeq(Along(g, r))]
LEMMA FlatOneByOne ==
  ASSUME NEW S, NEW U, NEW g, NEW V, V = Seq(U), Into(g, S, V), NEW H, SpreadsRows(H, g, S)
  PROVE  OneByOne(H, S, U)
<1>1. \A r \in Seq(S) : Along(g, r) \in Seq(Seq(U))
  <2>1. \A r \in Seq(S) : Along(g, r) \in Seq(V)
    BY AlongTyped
  <2> QED BY <2>1
<1>2. H \in [Seq(S) -> Seq(U)]
  <2>1. \A r \in Seq(S) : FlattenSeq(Along(g, r)) \in Seq(U)
    BY <1>1, FlattenTyped
  <2> QED BY <2>1 DEF SpreadsRows
<1>3. H[<<>>] = <<>>
  <2>1. Along(g, <<>>) = <<>>
    BY DEF Along
  <2> QED BY <2>1, EmptySeq, FlattenNone DEF SpreadsRows
<1>4. ASSUME NEW r \in Seq(S), NEW e \in S PROVE H[r \o << e >>] = H[r] \o g[e]
  <2> DEFINE q == r \o << e >>
             a == Along(g, r)
  <2>1. q \in Seq(S) /\ Longer(q, r, e)
    BY OneLonger DEF Longer
  <2> HIDE DEF q
  <2>2. Along(g, q) = a \o << g[e] >>
    BY <2>1, AlongLonger
  <2>3. a \in Seq(Seq(U)) /\ g[e] \in Seq(U)
    BY <1>1 DEF Into
  <2> HIDE DEF a
  <2>4. FlattenSeq(a \o << g[e] >>) = FlattenSeq(a) \o g[e]
    BY <2>3, FlattenLonger
  <2>5. H[q] = FlattenSeq(Along(g, q)) /\ H[r] = FlattenSeq(a)
    BY <2>1 DEF SpreadsRows, a
  <2>6. H[q] = H[r] \o g[e]
    BY <2>2, <2>4, <2>5
  <2> QED BY <2>6 DEF q
<1>5. Adding(H, g, S, U)
  BY <1>2, <1>3, <1>4 DEF Adding, Into
<1> QED BY <1>5, AddingOneByOne

\* The rows that are in a set.
Those(r, M) == {j \in DOMAIN r : r[j] \in M}
LEMMA ThoseLonger ==
  ASSUME NEW S, NEW r \in Seq(S), NEW e \in S, NEW M, NEW q, Longer(q, r, e)
  PROVE  Picked(q, Those(q, M)) = IF e \in M THEN Picked(r, Those(r, M)) \o << e >> ELSE Picked(r, Those(r, M))
<1> DEFINE m == Len(r)
           P == Those(r, M)
           Q == Those(q, M)
           c == Cardinality(P)
           a == Picked(r, P)
           b == Picked(q, Q)
<1>1. /\ q \in Seq(S) /\ Len(q) = m + 1 /\ m \in Nat
      /\ DOMAIN q = 1 .. m + 1 /\ DOMAIN r = 1 .. m
      /\ \A j \in 1 .. m : q[j] = r[j]
      /\ q[m + 1] = e
  BY OneLonger, LenProperties DEF Longer
<1>2. P = {j \in 1 .. m : r[j] \in M} /\ Q = {j \in 1 .. m + 1 : q[j] \in M}
  BY <1>1 DEF Those
<1> HIDE DEF m, P, Q
<1>3. P \subseteq 1 .. m /\ Q = IF e \in M THEN P \cup {m + 1} ELSE P
  <2>1. \A j : j \in Q <=> j \in P \/ (j = m + 1 /\ e \in M)
    BY <1>1, <1>2
  <2>2. P \subseteq 1 .. m
    BY <1>2
  <2> QED BY <2>1, <2>2
<1>4. P \subseteq DOMAIN r /\ Q \subseteq DOMAIN q
  BY <1>1, <1>2
<1>5. /\ IsFiniteSet(P) /\ P \subseteq Nat /\ c \in Nat
      /\ a \in Seq(S) /\ Len(a) = c
      /\ \A n \in 1 .. c : Ascending(P)[n] \in P /\ a[n] = r[Ascending(P)[n]]
  BY <1>4, PickedRows
<1>6. /\ IsFiniteSet(Q) /\ Q \subseteq Nat /\ Cardinality(Q) \in Nat
      /\ b \in Seq(S) /\ Len(b) = Cardinality(Q)
      /\ \A n \in 1 .. Cardinality(Q) : Ascending(Q)[n] \in Q /\ b[n] = q[Ascending(Q)[n]]
  BY <1>1, <1>4, PickedRows
<1> HIDE DEF a, b, c
<1>7. CASE e \notin M
  <2>1. Q = P
    BY <1>3, <1>7
  <2>2. ASSUME NEW n \in 1 .. c PROVE b[n] = a[n]
    <3>1. a[n] = r[Ascending(P)[n]] /\ Ascending(P)[n] \in 1 .. m
      BY <1>3, <1>5
    <3>2. b[n] = q[Ascending(P)[n]]
      BY <1>6, <2>1 DEF c
    <3> QED BY <1>1, <3>1, <3>2
  <2>3. b = a
    BY <1>5, <1>6, <2>1, <2>2, SeqEqual DEF c
  <2> QED BY <1>7, <2>3 DEF a, b, P, Q
<1>8. CASE e \in M
  <2>1. Q = P \cup {m + 1} /\ m + 1 \notin P
    BY <1>1, <1>3, <1>8
  <2>2. Cardinality(Q) = c + 1
    BY <1>5, <2>1, OneMore DEF c
  <2>3. ASSUME NEW n \in 1 .. c PROVE Ascending(Q)[n] = Ascending(P)[n]
    <3> DEFINE p == Ascending(P)[n]
    <3>1. p \in P /\ Cardinality({j \in P : j <= p}) = n
      BY <1>5, AscendingPlaces DEF c
    <3> HIDE DEF p
    <3>2. {j \in Q : j <= p} = {j \in P : j <= p}
      BY <1>1, <1>3, <2>1, <3>1
    <3>3. p \in Q
      BY <2>1, <3>1
    <3>4. Ascending(Q)[Cardinality({j \in Q : j <= p})] = p
      BY <1>6, <3>3, AscendingPlaces
    <3> QED BY <3>1, <3>2, <3>4 DEF p
  <2>4. Ascending(Q)[c + 1] = m + 1
    <3>1. m + 1 \in Q
      BY <2>1
    <3>2. {j \in Q : j <= m + 1} = Q
      <4>1. ASSUME NEW j \in Q PROVE j <= m + 1
        <5>1. j \in 1 .. m + 1
          BY <1>1, <1>4
        <5> QED BY <1>1, <5>1
      <4> QED BY <4>1
    <3>3. Ascending(Q)[Cardinality({j \in Q : j <= m + 1})] = m + 1
      BY <1>6, <3>1, AscendingPlaces
    <3> QED BY <2>2, <3>2, <3>3
  <2> DEFINE d == a \o << e >>
  <2>5. d \in Seq(S) /\ Len(d) = c + 1 /\ (\A n \in 1 .. c : d[n] = a[n]) /\ d[c + 1] = e
    BY <1>5, OneLonger
  <2> HIDE DEF d
  <2>6. ASSUME NEW n \in 1 .. c + 1 PROVE b[n] = d[n]
    <3>1. CASE n \in 1 .. c
      <4>1. b[n] = q[Ascending(P)[n]] /\ Ascending(P)[n] \in P /\ a[n] = r[Ascending(P)[n]]
        BY <1>5, <1>6, <2>2, <2>3, <3>1
      <4>2. Ascending(P)[n] \in 1 .. m
        BY <1>3, <4>1
      <4> QED BY <1>1, <2>5, <3>1, <4>1, <4>2
    <3>2. CASE n = c + 1
      BY <1>1, <1>6, <2>2, <2>4, <2>5, <3>2
    <3> QED BY <1>5, <3>1, <3>2
  <2>7. b = d
    BY <1>5, <1>6, <2>2, <2>5, <2>6, SeqEqual
  <2> QED BY <1>8, <2>7 DEF a, b, d, P, Q
<1> QED BY <1>7, <1>8

PicksRows(H, M, S) == H = [r \in Seq(S) |-> Picked(r, Those(r, M))]
\* Some of the rows.
LEMMA PickedOneByOne ==
  ASSUME NEW S, NEW M, NEW H, PicksRows(H, M, S)
  PROVE  OneByOne(H, S, S)
<1> DEFINE D == [e \in S |-> IF e \in M THEN << e >> ELSE <<>>]
<1>1. \A r \in Seq(S) : Picked(r, Those(r, M)) \in Seq(S)
  <2> SUFFICES ASSUME NEW r \in Seq(S) PROVE Picked(r, Those(r, M)) \in Seq(S)
    OBVIOUS
  <2> DEFINE P == Those(r, M)
  <2>1. P \subseteq DOMAIN r
    BY DEF Those
  <2> HIDE DEF P
  <2>2. Picked(r, P) \in Seq(S)
    BY <2>1, PickedRows
  <2> QED BY <2>2 DEF P
<1>2. H \in [Seq(S) -> Seq(S)]
  BY <1>1 DEF PicksRows
<1>3. H[<<>>] = <<>>
  <2> DEFINE none == <<>>
             P == Those(none, M)
  <2>1. none \in Seq(S) /\ P = {} /\ DOMAIN none = {}
    BY EmptySeq DEF Those
  <2> HIDE DEF P, none
  <2>2. Picked(none, P) \in Seq(S) /\ Len(Picked(none, P)) = Cardinality(P)
    BY <2>1, PickedRows
  <2>3. Picked(none, P) = <<>>
    BY <2>1, <2>2, FS_EmptySet, EmptySeq
  <2> QED BY <2>1, <2>3 DEF PicksRows, P, none
<1>4. \A e \in S : D[e] \in Seq(S) /\ D[e] = IF e \in M THEN << e >> ELSE <<>>
  BY EmptySeq
<1> HIDE DEF D
<1>5. ASSUME NEW r \in Seq(S), NEW e \in S PROVE H[r \o << e >>] = H[r] \o D[e]
  <2> DEFINE q == r \o << e >>
             a == Picked(r, Those(r, M))
  <2>1. q \in Seq(S) /\ Longer(q, r, e) /\ a \in Seq(S)
    BY <1>1, OneLonger DEF Longer
  <2> HIDE DEF q
  <2>2. Picked(q, Those(q, M)) = IF e \in M THEN a \o << e >> ELSE a
    BY <2>1, ThoseLonger
  <2>3. H[q] = Picked(q, Those(q, M)) /\ H[r] = a
    BY <2>1 DEF PicksRows
  <2> HIDE DEF a
  <2>4. a \o <<>> = a
    BY <2>1, ConcatEmptySeq
  <2>5. H[q] = H[r] \o D[e]
    BY <1>4, <2>2, <2>3, <2>4
  <2> QED BY <2>5 DEF q
<1>6. Adding(H, D, S, S)
  BY <1>2, <1>3, <1>4, <1>5 DEF Adding
<1> QED BY <1>6, AddingOneByOne

\* One such after another is one.
Composed(K, H, G, S) == K = [r \in Seq(S) |-> H[G[r]]]
LEMMA ComposedOneByOne ==
  ASSUME NEW S, NEW U, NEW V, NEW G, OneByOne(G, S, U), NEW H, OneByOne(H, U, V), NEW K, Composed(K, H, G, S)
  PROVE  OneByOne(K, S, V)
<1>1. /\ G \in [Seq(S) -> Seq(U)] /\ G[<<>>] = <<>>
      /\ H \in [Seq(U) -> Seq(V)] /\ H[<<>>] = <<>>
  BY DEF OneByOne
<1>2. K \in [Seq(S) -> Seq(V)] /\ K[<<>>] = <<>>
  BY <1>1, EmptySeq DEF Composed
<1>4. \A x, y \in Seq(U) : Joined(H[x \o y], H[x], H[y])
  BY OneByOneConcat
<1>3. ASSUME NEW r \in Seq(S), NEW e \in S PROVE K[r \o << e >>] = K[r] \o K[<< e >>]
  <2> DEFINE q == r \o << e >>
             one == << e >>
             a == G[r]
             b == G[one]
  <2>1. q \in Seq(S) /\ one \in Seq(S) /\ G[q] = a \o b
    BY OneLonger DEF OneByOne
  <2>2. a \in Seq(U) /\ b \in Seq(U)
    BY <1>1, <2>1
  <2>3. K[q] = H[G[q]] /\ K[r] = H[a] /\ K[one] = H[b]
    BY <2>1 DEF Composed
  <2> HIDE DEF q, one, a, b
  <2>4. H[a \o b] = H[a] \o H[b]
    BY <1>4, <2>2 DEF Joined
  <2>5. K[q] = K[r] \o K[one]
    BY <2>1, <2>3, <2>4
  <2> QED BY <2>5 DEF q, one
<1> QED BY <1>2, <1>3 DEF OneByOne

\* Leaving the rows is one.
LEMMA SameOneByOne ==
  ASSUME NEW S, NEW H, H = [r \in Seq(S) |-> r]
  PROVE  OneByOne(H, S, S)
<1>1. \A r \in Seq(S) : \A e \in S : r \o << e >> \in Seq(S) /\ << e >> \in Seq(S)
  BY OneLonger
<1> QED BY <1>1, EmptySeq DEF OneByOne

-----------------------------------------------------------------------------
(* The stages that do *)

\* What H makes of rows is what the stage makes of them; the columns are the same for
\* all.
Works(H, u, cols, out) ==
  /\ out \in Seq(STRING)
  /\ OneByOne(H, Wide(Len(cols)), Wide(Len(out)))
  /\ \A rows \in Seq(Wide(Len(cols))) : Executed([cols |-> cols, rows |-> rows], u) = [cols |-> out, rows |-> H[rows]]

LEMMA SameWorks ==
  ASSUME NEW cols \in Seq(STRING), NEW u,
         \A rows \in Seq(Wide(Len(cols))) : Executed([cols |-> cols, rows |-> rows], u) = [cols |-> cols, rows |-> rows]
  PROVE  \E H, out : Works(H, u, cols, out)
<1> DEFINE S == Wide(Len(cols))
           H == [r \in Seq(S) |-> r]
<1>1. H = [r \in Seq(S) |-> r]
  OBVIOUS
<1>2. \A r \in Seq(S) : H[r] = r
  OBVIOUS
<1>3. OneByOne(H, S, S)
  <2> HIDE DEF H, S
  <2> QED BY <1>1, SameOneByOne
<1> HIDE DEF H
<1>4. Works(H, u, cols, cols)
  BY <1>2, <1>3 DEF Works
<1> QED BY <1>4

\* mv-expand makes some rows of each row.
LEMMA MvExpandWorks ==
  ASSUME NEW cols \in Seq(STRING), NEW u \in Stages, u.op = "MvExpand"
  PROVE  \E H, out : Works(H, u, cols, out)
<1> DEFINE at == ExactIndex(cols, Source(u))
           name == IF u.name = "" THEN Source(u) ELSE u.name
           out == [cols EXCEPT ![at] = name]
           n == Len(cols)
           S == Wide(n)
           V == Seq(S)
           g == [row \in S |-> ExplodeRow(row, at)]
           H == [r \in Seq(S) |-> FlattenSeq(Along(g, r))]
<1>1. \A x : Executed(x, u) = MvExpandRows(x, u)
  BY DEF Executed
<1>2. CASE at = 0
  <2>1. ASSUME NEW rows PROVE Executed([cols |-> cols, rows |-> rows], u) = [cols |-> cols, rows |-> rows]
    <3> DEFINE x == [cols |-> cols, rows |-> rows]
    <3>1. x.cols = cols
      OBVIOUS
    <3> HIDE DEF x
    <3>2. MvExpandRows(x, u) = x
      BY <1>2, <3>1 DEF MvExpandRows
    <3>3. Executed(x, u) = x
      BY <1>1, <3>2
    <3> QED BY <3>3 DEF x
  <2> QED BY <2>1, SameWorks
<1>3. CASE at # 0
  <2>1. at \in 1 .. n /\ n \in Nat
    BY <1>3, Indices, LenProperties
  <2>2. name \in STRING
    BY StagesAssumption DEF WellFormed, Source
  <2>3. out \in Seq(STRING) /\ Len(out) = n
    <3> HIDE DEF at, name
    <3> QED BY <2>1, <2>2, ExceptSeq
  <2>4. ASSUME NEW rows \in Seq(S)
        PROVE  Executed([cols |-> cols, rows |-> rows], u) = [cols |-> out, rows |-> FlattenSeq(Along(g, rows))]
    <3> DEFINE x == [cols |-> cols, rows |-> rows]
               each == [j \in DOMAIN rows |-> ExplodeRow(rows[j], at)]
    <3>1. \A j \in DOMAIN rows : rows[j] \in S
      <4> HIDE DEF S
      <4> QED BY LenProperties, ElementOfSeq
    <3>2. Along(g, rows) = each
      <4> HIDE DEF S, at
      <4> QED BY <3>1 DEF Along
    <3>3. MvExpandRows(x, u) = [cols |-> out, rows |-> FlattenSeq(each)]
      BY <1>3 DEF MvExpandRows
    <3> HIDE DEF each, g, out
    <3> QED BY <1>1, <3>2, <3>3
  <2>5. Into(g, S, V)
    <3>1. \A row \in S : ExplodeRow(row, at) \in V
      <4> HIDE DEF at
      <4> QED BY <2>1, ExplodedRow
    <3> QED BY <3>1 DEF Into
  <2>6. SpreadsRows(H, g, S)
    BY DEF SpreadsRows
  <2>7. OneByOne(H, S, S)
    <3>1. V = Seq(S)
      OBVIOUS
    <3> HIDE DEF V, g, H, S
    <3> QED BY <2>5, <2>6, <3>1, FlatOneByOne
  <2>8. \A rows \in Seq(S) : H[rows] = FlattenSeq(Along(g, rows))
    OBVIOUS
  <2> HIDE DEF H, g, V, out
  <2>9. Works(H, u, cols, out)
    BY <2>3, <2>4, <2>7, <2>8 DEF Works
  <2> QED BY <2>9
<1> QED BY <1>2, <1>3

\* project makes one row of each row.
LEMMA ProjectWorks ==
  ASSUME NEW cols \in Seq(STRING), NEW u \in Stages, u.op = "Project"
  PROVE  \E H, out : Works(H, u, cols, out)
<1> DEFINE out == ItemCols(u)
           n == Len(cols)
           m == Len(u.items)
           S == Wide(n)
           U == Wide(m)
           idx == [i \in DOMAIN u.items |-> IF u.items[i].col = "" THEN 0 ELSE ColIndex(cols, u.items[i].col)]
           g == [row \in S |-> KeyValues(row, idx)]
           H == [r \in Seq(S) |-> Along(g, r)]
<1>1. \A x : Executed(x, u) = ProjectRows(x, u)
  BY DEF Executed
<1>2. CASE Starred(u)
  <2>1. \A rows : Executed([cols |-> cols, rows |-> rows], u) = [cols |-> cols, rows |-> rows]
    BY <1>1, <1>2, ProjectIs
  <2> QED BY <2>1, SameWorks
<1>3. CASE ~ Starred(u)
  <2>1. m \in Nat /\ DOMAIN u.items = 1 .. m /\ out \in Seq(STRING) /\ Len(out) = m /\ n \in Nat
    BY NamesTyped, LenProperties DEF ItemCols
  <2>2. DOMAIN idx = 1 .. m /\ \A i \in 1 .. m : idx[i] \in 0 .. n
    <3>1. 0 \in 0 .. n
      BY <2>1
    <3>2. \A name : ColIndex(cols, name) \in 0 .. n
      BY Indices
    <3> HIDE DEF n
    <3> QED BY <2>1, <3>1, <3>2
  <2>3. ASSUME NEW rows \in Seq(S)
        PROVE  Executed([cols |-> cols, rows |-> rows], u) = [cols |-> out, rows |-> Along(g, rows)]
    <3> DEFINE x == [cols |-> cols, rows |-> rows]
               each == [j \in DOMAIN rows |-> KeyValues(rows[j], idx)]
    <3>1. \A j \in DOMAIN rows : rows[j] \in S
      <4> HIDE DEF S
      <4> QED BY LenProperties, ElementOfSeq
    <3>2. Along(g, rows) = each
      <4> HIDE DEF S, idx
      <4> QED BY <3>1 DEF Along
    <3>3. ItemRows(x, u) = each
      BY DEF ItemRows, ItemIndex
    <3>4. ProjectRows(x, u) = [cols |-> out, rows |-> ItemRows(x, u)]
      BY <1>3, ProjectIs
    <3> HIDE DEF each, g, out
    <3> QED BY <1>1, <3>2, <3>3, <3>4
  <2>4. Into(g, S, U)
    <3>1. \A row \in S : KeyValues(row, idx) \in U
      <4> HIDE DEF idx
      <4> QED BY <2>1, <2>2, ValuesTyped
    <3> HIDE DEF idx
    <3> QED BY <3>1 DEF Into
  <2>5. MapsRows(H, g, S)
    BY DEF MapsRows
  <2>6. OneByOne(H, S, U)
    <3> HIDE DEF g, H, S, U
    <3> QED BY <2>4, <2>5, AlongOneByOne
  <2>7. \A rows \in Seq(S) : H[rows] = Along(g, rows)
    OBVIOUS
  <2> HIDE DEF H, g, out, m
  <2>8. Works(H, u, cols, out)
    BY <2>1, <2>3, <2>6, <2>7 DEF Works
  <2> QED BY <2>8
<1> QED BY <1>2, <1>3

\* parse makes one row of each row it keeps.
LEMMA ParseWorks ==
  ASSUME NEW cols \in Seq(STRING), NEW u \in Stages, u.op = "Parse"
  PROVE  \E H, out : Works(H, u, cols, out)
<1> DEFINE at == ExactIndex(cols, u.target)
           C == Captures(u.pattern)
           names == [i \in DOMAIN C |-> u.pattern[C[i]].name]
           out == cols \o names
           n == Len(cols)
           S == Wide(n)
           U == Wide(n + Len(C))
           M == {row \in S : MatchParsePattern(u.pattern, ParsedText(row, at)).matched}
           g == [row \in S |-> row \o ParsedVals(row, at, u)]
           A == [r \in Seq(S) |-> Along(g, r)]
           B == [r \in Seq(S) |-> Picked(r, Those(r, M))]
           AB == [r \in Seq(S) |-> A[B[r]]]
<1>1. \A x : Executed(x, u) = ParseRows(x, u)
  BY DEF Executed
<1>2. CASE at = 0
  <2>1. ASSUME NEW rows PROVE Executed([cols |-> cols, rows |-> rows], u) = [cols |-> cols, rows |-> rows]
    <3> DEFINE x == [cols |-> cols, rows |-> rows]
    <3>1. x.cols = cols
      OBVIOUS
    <3> HIDE DEF x
    <3>2. ParseRows(x, u) = x
      BY <1>2, <3>1 DEF ParseRows
    <3>3. Executed(x, u) = x
      BY <1>1, <3>2
    <3> QED BY <3>3 DEF x
  <2> QED BY <2>1, SameWorks
<1>3. CASE at # 0
  <2>1. at \in 1 .. n /\ n \in Nat
    BY <1>3, Indices, LenProperties
  <2>2. /\ Len(C) \in Nat /\ DOMAIN C = 1 .. Len(C)
        /\ \A i \in 1 .. Len(C) : u.pattern[C[i]].name \in STRING
    BY StagesAssumption, CapturesInOrder DEF WellFormed
  <2>3. out \in Seq(STRING) /\ Len(out) = n + Len(C)
    <3>1. names \in Seq(STRING) /\ Len(names) = Len(C)
      <4>1. DOMAIN names = 1 .. Len(C) /\ names = [i \in 1 .. Len(C) |-> names[i]] /\ \A i \in 1 .. Len(C) : names[i] \in STRING
        BY <2>2
      <4> HIDE DEF names, C
      <4> QED BY <2>2, <4>1, MadeSeq
    <3> HIDE DEF names, C
    <3>2. cols \o names \in Seq(STRING) /\ Len(cols \o names) = Len(cols) + Len(names)
      BY <3>1, ConcatProperties
    <3> QED BY <3>1, <3>2
  <2>4. Into(g, S, U)
    <3>1. ASSUME NEW row \in S PROVE row \o ParsedVals(row, at, u) \in U
      <4> HIDE DEF at
      <4>1. ParsedVals(row, at, u) \in Wide(Len(C))
        BY <2>1, ParsedRow
      <4> HIDE DEF C
      <4> QED BY <2>1, <2>2, <4>1, WiderRow
    <3> HIDE DEF at
    <3> QED BY <3>1 DEF Into
  <2>5. OneByOne(A, S, U)
    <3>1. MapsRows(A, g, S)
      BY DEF MapsRows
    <3> HIDE DEF A, g, S, U
    <3> QED BY <2>4, <3>1, AlongOneByOne
  <2>6. OneByOne(B, S, S)
    <3>1. PicksRows(B, M, S)
      BY DEF PicksRows
    <3> HIDE DEF B, M, S
    <3> QED BY <3>1, PickedOneByOne
  <2>7. OneByOne(AB, S, U)
    <3>1. Composed(AB, A, B, S)
      <4> HIDE DEF A, B, S
      <4> QED BY DEF Composed
    <3> HIDE DEF A, B, AB, S, U
    <3> QED BY <2>5, <2>6, <3>1, ComposedOneByOne
  <2>8. \A r \in Seq(S) : A[r] = Along(g, r) /\ B[r] = Picked(r, Those(r, M))
    <3> HIDE DEF g, S, M
    <3> QED OBVIOUS
  <2>9. \A r \in Seq(S) : B[r] \in Seq(S)
    BY <2>6 DEF OneByOne
  <2>10. ASSUME NEW rows \in Seq(S)
         PROVE  Executed([cols |-> cols, rows |-> rows], u)
                  = [cols |-> out, rows |-> Along(g, IF u.where THEN B[rows] ELSE rows)]
    <3> DEFINE x == [cols |-> cols, rows |-> rows]
               kept == IF u.where THEN B[rows] ELSE rows
    <3>1. x \in Result /\ x.cols = cols /\ x.rows = rows
      BY ShapeResult
    <3>2. ParseRows(x, u) = [cols |-> ParsedCols(x, u), rows |-> ParsedRows(x, at, u)]
      BY <1>3, <3>1, ParseIs
    <3>3. ParsedCols(x, u) = out
      BY <3>1 DEF ParsedCols
    <3>4. \A j \in DOMAIN rows : rows[j] \in S
      <4> HIDE DEF S
      <4> QED BY LenProperties, ElementOfSeq
    <3>5. {j \in DOMAIN rows : MatchParsePattern(u.pattern, ParsedText(rows[j], at)).matched} = Those(rows, M)
      <4> HIDE DEF S, at
      <4> QED BY <3>4 DEF Those
    <3>6. Kept(x, at, u) = kept
      <4> HIDE DEF x, at, M, B
      <4> QED BY <2>8, <3>1, <3>5 DEF Kept
    <3>7. kept \in Seq(S)
      BY <2>9
    <3> HIDE DEF kept, x
    <3>8. \A j \in DOMAIN kept : kept[j] \in S
      <4> HIDE DEF S
      <4> QED BY <3>7, LenProperties, ElementOfSeq
    <3>9. ParsedRows(x, at, u) = Along(g, kept)
      <4>1. ParsedRows(x, at, u) = [j \in DOMAIN kept |-> kept[j] \o ParsedVals(kept[j], at, u)]
        BY <3>6 DEF ParsedRows
      <4>2. \A j \in DOMAIN kept : g[kept[j]] = kept[j] \o ParsedVals(kept[j], at, u)
        BY <3>8
      <4> HIDE DEF g, at
      <4> QED BY <4>1, <4>2 DEF Along
    <3> HIDE DEF out, g
    <3> QED BY <1>1, <3>2, <3>3, <3>9 DEF kept, x
  <2>11. \A r \in Seq(S) : AB[r] = A[B[r]]
    <3> HIDE DEF A, B, S
    <3> QED OBVIOUS
  <2> HIDE DEF A, B, AB, out, g, C
  <2>12. CASE u.where
    <3>1. ASSUME NEW rows \in Seq(S)
          PROVE  Executed([cols |-> cols, rows |-> rows], u) = [cols |-> out, rows |-> AB[rows]]
      <4>1. Executed([cols |-> cols, rows |-> rows], u) = [cols |-> out, rows |-> Along(g, B[rows])]
        BY <2>10, <2>12
      <4>2. AB[rows] = Along(g, B[rows])
        BY <2>8, <2>9, <2>11
      <4> QED BY <4>1, <4>2
    <3>2. Works(AB, u, cols, out)
      BY <2>3, <2>7, <3>1 DEF Works
    <3> QED BY <3>2
  <2>13. CASE ~ u.where
    <3>1. Works(A, u, cols, out)
      BY <2>3, <2>5, <2>8, <2>10, <2>13 DEF Works
    <3> QED BY <3>1
  <2> QED BY <2>12, <2>13
<1> QED BY <1>2, <1>3

\* So does every stage that works row by row.
LEMMA RowwiseWorks ==
  ASSUME NEW cols \in Seq(STRING), NEW u \in Stages, Rowwise(u)
  PROVE  \E H, out : Works(H, u, cols, out)
<1>1. CASE u.op \in {"Sort", "Other"}
  <2>1. \A rows : Executed([cols |-> cols, rows |-> rows], u) = [cols |-> cols, rows |-> rows]
    BY <1>1 DEF Executed
  <2> QED BY <2>1, SameWorks
<1>2. CASE u.op \in {"MvExpand", "Parse", "Project"}
  BY <1>2, MvExpandWorks, ParseWorks, ProjectWorks
<1> QED BY <1>1, <1>2 DEF Rowwise

-----------------------------------------------------------------------------
(* mv-apply, one element after the other *)

\* The first d stages of sub make H's rows of rows under cols, with the columns out.
Reaches(d, sub, cols, H, out) ==
  /\ out \in Seq(STRING)
  /\ OneByOne(H, Wide(Len(cols)), Wide(Len(out)))
  /\ \A rows \in Seq(Wide(Len(cols))) : \A g :
       Iterates(g, Result, Len(sub), [cols |-> cols, rows |-> rows], Runs(sub)) => g[d] = [cols |-> out, rows |-> H[rows]]

LEMMA ReachesNone ==
  ASSUME NEW cols \in Seq(STRING), NEW sub \in Seq(Stages)
  PROVE  \E H, out : Reaches(0, sub, cols, H, out)
<1> DEFINE S == Wide(Len(cols))
           H == [r \in Seq(S) |-> r]
<1>1. OneByOne(H, S, S)
  <2>1. H = [r \in Seq(S) |-> r]
    OBVIOUS
  <2> HIDE DEF H, S
  <2> QED BY <2>1, SameOneByOne
<1>2. \A r \in Seq(S) : H[r] = r
  OBVIOUS
<1> HIDE DEF H
<1>3. Reaches(0, sub, cols, H, cols)
  BY <1>1, <1>2 DEF Reaches, Iterates
<1> QED BY <1>3

\* One stage more.
LEMMA ReachesNext ==
  ASSUME NEW cols \in Seq(STRING), NEW sub \in Seq(Stages), NEW d \in Nat, d + 1 <= Len(sub),
         NEW G, NEW mid, Reaches(d, sub, cols, G, mid),
         NEW H, NEW out, Works(H, sub[d + 1], mid, out)
  PROVE  \E K : Reaches(d + 1, sub, cols, K, out)
<1> DEFINE S == Wide(Len(cols))
           K == [r \in Seq(S) |-> H[G[r]]]
           n == Len(sub)
           T == Runs(sub)
<1>1. n \in Nat /\ DOMAIN sub = 1 .. n
  BY LenProperties
<1>2. \A y \in Result : T[d + 1][y] = Executed(y, sub[d + 1])
  <2>1. d + 1 \in 1 .. n
    BY <1>1
  <2> QED BY <2>1 DEF Runs
<1>3. OneByOne(G, S, Wide(Len(mid))) /\ mid \in Seq(STRING)
  BY DEF Reaches
<1>4. OneByOne(H, Wide(Len(mid)), Wide(Len(out))) /\ out \in Seq(STRING)
  BY DEF Works
<1>5. Composed(K, H, G, S)
  BY DEF Composed
<1>6. OneByOne(K, S, Wide(Len(out)))
  <2> HIDE DEF K, S
  <2> QED BY <1>3, <1>4, <1>5, ComposedOneByOne
<1> HIDE DEF K
<1>7. ASSUME NEW rows \in Seq(S), NEW g, Iterates(g, Result, n, [cols |-> cols, rows |-> rows], T)
      PROVE  g[d + 1] = [cols |-> out, rows |-> K[rows]]
  <2> DEFINE more == G[rows]
             y == [cols |-> mid, rows |-> more]
  <2>1. g[d] = y
    BY <1>7 DEF Reaches
  <2>2. more \in Seq(Wide(Len(mid)))
    BY <1>3 DEF OneByOne
  <2>3. y \in Result
    <3> HIDE DEF more
    <3> QED BY <1>3, <2>2, ShapeResult
  <2>4. g[d + 1] = T[d + 1][g[d]]
    <3>1. d + 1 \in 1 .. n /\ (d + 1) - 1 = d
      BY <1>1
    <3> HIDE DEF T, n
    <3> QED BY <1>7, <3>1 DEF Iterates
  <2>5. Executed(y, sub[d + 1]) = [cols |-> out, rows |-> H[more]]
    <3> HIDE DEF more
    <3> QED BY <2>2 DEF Works
  <2>6. K[rows] = H[more]
    BY <1>5 DEF Composed
  <2> HIDE DEF y, T, more
  <2> QED BY <1>2, <2>1, <2>3, <2>4, <2>5, <2>6
<1>8. Reaches(d + 1, sub, cols, K, out)
  BY <1>4, <1>6, <1>7 DEF Reaches
<1> QED BY <1>8

\* Stages that work on one row at a time, run over rows, work on one row at a time.
AllRowwise(sub) == \A j \in DOMAIN sub : Rowwise(sub[j])
LEMMA ReachesAll ==
  ASSUME NEW cols \in Seq(STRING), NEW sub \in Seq(Stages), AllRowwise(sub)
  PROVE  \E H, out : Reaches(Len(sub), sub, cols, H, out)
<1> DEFINE n == Len(sub)
           D == {d \in Nat : d <= n => \E H, out : Reaches(d, sub, cols, H, out)}
<1>1. n \in Nat /\ DOMAIN sub = 1 .. n /\ \A j \in 1 .. n : sub[j] \in Stages
  BY LenProperties, ElementOfSeq
<1>2. 0 \in D
  BY ReachesNone
<1>3. ASSUME NEW d \in Nat, d \in D PROVE d + 1 \in D
  <2> SUFFICES ASSUME d + 1 <= n PROVE \E H, out : Reaches(d + 1, sub, cols, H, out)
    OBVIOUS
  <2>1. d <= n /\ d + 1 \in 1 .. n
    BY <1>1
  <2>2. PICK G, mid : Reaches(d, sub, cols, G, mid)
    BY <1>3, <2>1
  <2>3. sub[d + 1] \in Stages /\ Rowwise(sub[d + 1]) /\ mid \in Seq(STRING)
    BY <1>1, <2>1, <2>2 DEF AllRowwise, Reaches
  <2>4. PICK H, out : Works(H, sub[d + 1], mid, out)
    BY <2>3, RowwiseWorks
  <2>5. \E K : Reaches(d + 1, sub, cols, K, out)
    BY <2>2, <2>4, ReachesNext
  <2> QED BY <2>5
<1>4. Nat \subseteq D
  <2> HIDE DEF D
  <2> QED BY <1>2, <1>3, SetInduction
<1>5. n \in D
  <2> HIDE DEF D
  <2> QED BY <1>1, <1>4
<1> QED BY <1>1, <1>5

\* So running them once over all the rows is running them for each.
LEMMA FoldRowwise ==
  ASSUME NEW cols \in Seq(STRING), NEW sub \in Seq(Stages), AllRowwise(sub)
  PROVE  \E H, out : /\ OneByOne(H, Wide(Len(cols)), Wide(Len(out)))
                     /\ \A rows \in Seq(Wide(Len(cols))) :
                          FoldLeft(Executed, [cols |-> cols, rows |-> rows], sub).rows = H[rows]
<1>1. PICK H, out : Reaches(Len(sub), sub, cols, H, out)
  BY ReachesAll
<1>2. OneByOne(H, Wide(Len(cols)), Wide(Len(out)))
  BY <1>1 DEF Reaches
<1>3. ASSUME NEW rows \in Seq(Wide(Len(cols)))
      PROVE  FoldLeft(Executed, [cols |-> cols, rows |-> rows], sub).rows = H[rows]
  <2> DEFINE x == [cols |-> cols, rows |-> rows]
  <2>1. x \in Result
    BY ShapeResult
  <2> HIDE DEF x
  <2>2. PICK g : Iterates(g, Result, Len(sub), x, Runs(sub)) /\ FoldLeft(Executed, x, sub) = g[Len(sub)]
    BY <2>1, RunsIterate
  <2>3. g[Len(sub)] = [cols |-> out, rows |-> H[rows]]
    BY <1>1, <2>2 DEF Reaches, x
  <2>4. FoldLeft(Executed, x, sub).rows = H[rows]
    BY <2>2, <2>3
  <2> QED BY <2>4 DEF x
<1> QED BY <1>2, <1>3

\* mv-apply is per element.
LEMMA ApplyRowwise ==
  ASSUME NEW x \in Result, NEW st \in Stages, AllRowwise(st.sub)
  PROVE  MvApplyRows(x, st).rows = PerElement(x, st)
<1> DEFINE all == MvExpandRows(x, st)
           cols == all.cols
           rows == all.rows
           sub == st.sub
           S == Wide(Len(cols))
<1>1. all \in Result /\ sub \in Seq(Stages) /\ AllRowwise(sub)
  BY MvExpandTyped, SubTyped
<1>2. cols \in Seq(STRING) /\ rows \in Seq(S) /\ all = [cols |-> cols, rows |-> rows]
  <2> HIDE DEF all
  <2> QED BY <1>1, ResultShape
<1>3. PICK H, out : /\ OneByOne(H, S, Wide(Len(out)))
                    /\ \A r \in Seq(S) : FoldLeft(Executed, [cols |-> cols, rows |-> r], sub).rows = H[r]
  <2> HIDE DEF cols, sub
  <2> QED BY <1>1, <1>2, FoldRowwise
<1>4. MvApplyRows(x, st) = FoldLeft(Executed, all, sub)
  BY DEF MvApplyRows
<1>5. PerElement(x, st)
        = FlattenSeq([j \in DOMAIN rows |-> FoldLeft(Executed, [all EXCEPT !.rows = << rows[j] >>], sub).rows])
  BY DEF PerElement
<1> HIDE DEF all
<1>6. MvApplyRows(x, st).rows = H[rows]
  <2> HIDE DEF cols, rows
  <2> QED BY <1>2, <1>3, <1>4
<1>7. ASSUME NEW j \in DOMAIN rows
      PROVE  FoldLeft(Executed, [all EXCEPT !.rows = << rows[j] >>], sub).rows = H[<< rows[j] >>]
  <2> DEFINE one == << rows[j] >>
  <2>1. rows[j] \in S
    <3> HIDE DEF rows, S
    <3> QED BY <1>2, LenProperties, ElementOfSeq
  <2>2. one \in Seq(S)
    BY <2>1
  <2> HIDE DEF one
  <2>3. [all EXCEPT !.rows = one] = [cols |-> cols, rows |-> one]
    BY <1>2
  <2>4. FoldLeft(Executed, [cols |-> cols, rows |-> one], sub).rows = H[one]
    BY <1>3, <2>2
  <2>5. FoldLeft(Executed, [all EXCEPT !.rows = one], sub).rows = H[one]
    BY <2>3, <2>4
  <2> QED BY <2>5 DEF one
<1>8. H[rows] = FlattenSeq([j \in DOMAIN rows |-> H[<< rows[j] >>]])
  <2> HIDE DEF rows, S
  <2> QED BY <1>2, <1>3, OneByOneFlat
<1>9. [j \in DOMAIN rows |-> FoldLeft(Executed, [all EXCEPT !.rows = << rows[j] >>], sub).rows]
        = [j \in DOMAIN rows |-> H[<< rows[j] >>]]
  BY <1>7
<1> QED BY <1>5, <1>6, <1>8, <1>9

\* As long as every stage of the sub-pipeline works on one row at a time, running it once
\* over all the exploded rows is running it for each, however many rows and stages there
\* are (postproc_register.go:186-221).
THEOREM ApplyIsRowwise == Spec => MvApplyRowwise
<1> DEFINE Want == At("MvApply") /\ (\A j \in DOMAIN Stage.sub : Rowwise(Stage.sub[j])) =>
                     res'.rows = PerElement(res, Stage)
<1>1. TypeOK /\ [Next]_vars => [Want]_vars
  <2> SUFFICES ASSUME TypeOK, Next, At("MvApply"), \A j \in DOMAIN Stage.sub : Rowwise(Stage.sub[j])
               PROVE  res'.rows = PerElement(res, Stage)
    OBVIOUS
  <2>1. res' = MvApplyRows(res, Stage)
    BY DEF Next, At, Apply, ExecMvExpand, ExecMvApply, ExecParse, ExecMakeSeries, ExecAggregate, ExecLimit, ExecProject, PassThrough
  <2>2. Stage \in Stages
    BY StageTyped DEF At
  <2>3. res \in Result
    BY DEF TypeOK
  <2>4. AllRowwise(Stage.sub)
    BY DEF AllRowwise
  <2> QED BY <2>1, <2>2, <2>3, <2>4, ApplyRowwise
<1> QED BY <1>1, TypeCorrect, PTL DEF Spec, MvApplyRowwise

-----------------------------------------------------------------------------
(* Filling in a pattern, and what parse reads back *)

\* b is where the sequences of w start in a text.
Lays(b, w, text) ==
  /\ b \in [1 .. Len(w) + 1 -> 0 .. Len(text)]
  /\ b[1] = 0 /\ b[Len(w) + 1] = Len(text)
  /\ \A t \in 1 .. Len(w) : b[t + 1] = b[t] + Len(w[t])
  /\ \A t \in 1 .. Len(w) : \A c \in 1 .. Len(w[t]) : text[b[t] + c] = w[t][c]

LEMMA FlatLays ==
  ASSUME NEW S, NEW w \in Seq(Seq(S)), NEW text, text = FlattenSeq(w)
  PROVE  \E b : Lays(b, w, text)
<1> DEFINE n == Len(w)
<1>1. PICK f : Joins(f, w, S) /\ FlattenSeq(w) = f[n]
  BY Flattens
<1>2. n \in Nat /\ \A t \in 1 .. n : w[t] \in Seq(S)
  BY LenProperties, ElementOfSeq
<1> HIDE DEF n
<1>3. /\ f \in [0 .. n -> Seq(S)] /\ f[0] = <<>>
      /\ \A m \in 0 .. n - 1 : f[m + 1] = f[m] \o w[m + 1]
  BY <1>1 DEF Joins, n
<1> DEFINE L(m) == Len(f[m])
<1>4. \A m \in 0 .. n : L(m) \in Nat /\ f[m] \in Seq(S)
  BY <1>3, LenProperties
<1>5. \A t \in 1 .. n : Len(w[t]) \in Nat
  BY <1>2, LenProperties
<1>6. L(0) = 0
  BY <1>3
<1>7. ASSUME NEW m \in 0 .. n - 1
      PROVE  /\ L(m + 1) = L(m) + Len(w[m + 1])
             /\ \A i \in 1 .. L(m) : f[m + 1][i] = f[m][i]
             /\ \A c \in 1 .. Len(w[m + 1]) : f[m + 1][L(m) + c] = w[m + 1][c]
  <2> DEFINE x == f[m]
             y == w[m + 1]
  <2>1. m \in 0 .. n /\ m + 1 \in 1 .. n
    BY <1>2
  <2>2. x \in Seq(S) /\ y \in Seq(S) /\ f[m + 1] = x \o y /\ Len(x) \in Nat /\ Len(y) \in Nat
    BY <1>2, <1>3, <1>4, <1>5, <2>1
  <2> HIDE DEF x, y
  <2>3. /\ Len(x \o y) = Len(x) + Len(y)
        /\ \A i \in 1 .. Len(x) + Len(y) : (x \o y)[i] = IF i <= Len(x) THEN x[i] ELSE y[i - Len(x)]
    BY <2>2, ConcatProperties
  <2>4. ASSUME NEW i \in 1 .. Len(x) PROVE (x \o y)[i] = x[i]
    <3>1. i \in 1 .. Len(x) + Len(y) /\ i <= Len(x)
      BY <2>2
    <3> QED BY <2>3, <3>1
  <2>5. ASSUME NEW c \in 1 .. Len(y) PROVE (x \o y)[Len(x) + c] = y[c]
    <3>1. Len(x) + c \in 1 .. Len(x) + Len(y) /\ ~ (Len(x) + c <= Len(x)) /\ (Len(x) + c) - Len(x) = c
      BY <2>2
    <3> QED BY <2>3, <3>1
  <2> QED BY <2>2, <2>3, <2>4, <2>5 DEF x, y
<1> HIDE DEF L
<1> DEFINE D == {m \in Nat : m <= n =>
                   \A t \in 1 .. m : L(t) <= L(m) /\ \A c \in 1 .. Len(w[t]) : f[m][L(t - 1) + c] = w[t][c]}
<1>8. 0 \in D
  OBVIOUS
<1>9. ASSUME NEW m \in Nat, m \in D PROVE m + 1 \in D
  <2> SUFFICES ASSUME m + 1 <= n, NEW t \in 1 .. m + 1
               PROVE  L(t) <= L(m + 1) /\ \A c \in 1 .. Len(w[t]) : f[m + 1][L(t - 1) + c] = w[t][c]
    OBVIOUS
  <2>1. m \in 0 .. n - 1 /\ m \in 0 .. n /\ m + 1 \in 0 .. n /\ m + 1 \in 1 .. n /\ m <= n
    BY <1>2
  <2>2. L(m) \in Nat /\ L(m + 1) \in Nat /\ Len(w[m + 1]) \in Nat /\ L(m + 1) = L(m) + Len(w[m + 1])
    BY <1>4, <1>5, <1>7, <2>1
  <2>3. CASE t = m + 1
    <3>1. t - 1 = m
      BY <2>3
    <3> QED BY <1>7, <2>1, <2>2, <2>3, <3>1
  <2>4. CASE t # m + 1
    <3> DEFINE u == t - 1
    <3>1. t \in 1 .. m /\ t \in 1 .. n /\ t \in 0 .. n
      BY <1>2, <2>1, <2>4
    <3>2. u \in 0 .. n - 1 /\ u \in 0 .. n /\ u + 1 = t
      BY <1>2, <3>1
    <3>3. L(t) <= L(m) /\ \A c \in 1 .. Len(w[t]) : f[m][L(u) + c] = w[t][c]
      BY <1>9, <2>1, <3>1
    <3> HIDE DEF u
    <3>4. L(t) \in Nat /\ L(u) \in Nat /\ Len(w[t]) \in Nat /\ L(t) = L(u) + Len(w[t])
      BY <1>4, <1>5, <1>7, <3>1, <3>2
    <3> DEFINE a == L(u)
               z == Len(w[t])
               r == L(m)
    <3>5. a \in Nat /\ z \in Nat /\ r \in Nat /\ a + z <= r
      BY <2>2, <3>3, <3>4
    <3>6. ASSUME NEW c \in 1 .. z PROVE f[m + 1][a + c] = w[t][c]
      <4>1. f[m][a + c] = w[t][c]
        BY <3>3
      <4>2. \A d \in 1 .. r : f[m + 1][d] = f[m][d]
        BY <1>7, <2>1
      <4> HIDE DEF a, z, r
      <4>3. a + c \in 1 .. r
        BY <3>5
      <4> QED BY <4>1, <4>2, <4>3
    <3>7. L(t) <= L(m + 1)
      <4> DEFINE v == L(t)
                 x == L(m + 1)
                 y == Len(w[m + 1])
      <4>1. v \in Nat /\ x \in Nat /\ y \in Nat /\ r \in Nat /\ v <= r /\ x = r + y
        BY <2>2, <3>3, <3>4
      <4> HIDE DEF v, x, y, r
      <4>2. v <= x
        BY <4>1
      <4> QED BY <4>2 DEF v, x
    <3> QED BY <3>6, <3>7 DEF u
  <2> QED BY <2>3, <2>4
<1>10. Nat \subseteq D
  <2> HIDE DEF D
  <2> QED BY <1>8, <1>9, SetInduction
<1>11. n \in D
  <2> HIDE DEF D
  <2> QED BY <1>2, <1>10
<1>12. \A t \in 1 .. n : L(t) <= L(n) /\ \A c \in 1 .. Len(w[t]) : f[n][L(t - 1) + c] = w[t][c]
  BY <1>2, <1>11
<1> HIDE DEF D
<1> DEFINE b == [t \in 1 .. n + 1 |-> L(t - 1)]
<1>13. text = f[n] /\ Len(text) = L(n)
  BY <1>1 DEF L
<1>14. ASSUME NEW t \in 1 .. n + 1 PROVE b[t] \in 0 .. L(n) /\ b[t] = L(t - 1)
  <2>1. t - 1 \in 0 .. n /\ (t - 1 = 0 \/ t - 1 \in 1 .. n) /\ n \in 0 .. n
    BY <1>2
  <2>2. L(t - 1) \in Nat /\ L(n) \in Nat /\ L(t - 1) <= L(n)
    BY <1>4, <1>6, <1>12, <2>1
  <2> QED BY <2>2
<1>15. b \in [1 .. n + 1 -> 0 .. L(n)] /\ b[1] = 0 /\ b[n + 1] = L(n)
  <2>1. 1 \in 1 .. n + 1 /\ n + 1 \in 1 .. n + 1 /\ 1 - 1 = 0 /\ (n + 1) - 1 = n
    BY <1>2
  <2> QED BY <1>6, <1>14, <2>1
<1> HIDE DEF b
<1>16. ASSUME NEW t \in 1 .. n
       PROVE  b[t + 1] = b[t] + Len(w[t]) /\ \A c \in 1 .. Len(w[t]) : text[b[t] + c] = w[t][c]
  <2>1. t \in 1 .. n + 1 /\ t + 1 \in 1 .. n + 1 /\ (t + 1) - 1 = t /\ t - 1 \in 0 .. n - 1 /\ (t - 1) + 1 = t
    BY <1>2
  <2>2. b[t] = L(t - 1) /\ b[t + 1] = L(t)
    BY <1>14, <2>1
  <2>3. L(t) = L(t - 1) + Len(w[t])
    BY <1>7, <2>1
  <2> QED BY <1>12, <1>13, <2>2, <2>3
<1>17. Lays(b, w, text)
  BY <1>13, <1>15, <1>16 DEF Lays, n
<1> QED BY <1>17

\* w fills in a pattern: its literals, and texts without their characters.
Fills(w, pattern) ==
  /\ w \in Seq(Seq(Char)) /\ Len(w) = Len(pattern)
  /\ \A t \in 1 .. Len(pattern) :
       IF pattern[t].kind = "literal" THEN w[t] = pattern[t].text ELSE Range(w[t]) \cap Literals(pattern) = {}

LEMMA FillsCover ==
  ASSUME NEW pattern \in Seq(Token), NEW text \in Seq(Char), NEW w, Fills(w, pattern), NEW b, Lays(b, w, text)
  PROVE  /\ b \in Covers(pattern, text)
         /\ \A t \in 1 .. Len(pattern) : SubSeq(text, b[t] + 1, b[t + 1]) = w[t]
<1> DEFINE n == Len(pattern)
<1>1. n \in Nat /\ DOMAIN pattern = 1 .. n /\ Len(w) = n /\ Len(text) \in Nat
  BY LenProperties DEF Fills
<1>2. \A t \in 1 .. n : w[t] \in Seq(Char) /\ Len(w[t]) \in Nat
  <2>1. \A t \in 1 .. n : w[t] \in Seq(Char)
    BY <1>1, ElementOfSeq DEF Fills
  <2> QED BY <2>1, LenProperties
<1>3. /\ b \in [1 .. n + 1 -> 0 .. Len(text)] /\ b[1] = 0 /\ b[n + 1] = Len(text)
      /\ \A t \in 1 .. n : b[t + 1] = b[t] + Len(w[t])
      /\ \A t \in 1 .. n : \A c \in 1 .. Len(w[t]) : text[b[t] + c] = w[t][c]
  BY <1>1 DEF Lays
<1> HIDE DEF n
<1>4. ASSUME NEW t \in 1 .. n PROVE b[t] <= b[t + 1] /\ SubSeq(text, b[t] + 1, b[t + 1]) = w[t]
  <2> DEFINE p == b[t]
             q == b[t + 1]
             y == w[t]
             s == SubSeq(text, p + 1, q)
  <2>1. t \in 1 .. n + 1 /\ t + 1 \in 1 .. n + 1
    BY <1>1
  <2>2. p \in 0 .. Len(text) /\ q \in 0 .. Len(text) /\ y \in Seq(Char) /\ Len(y) \in Nat /\ q = p + Len(y)
    BY <1>2, <1>3, <2>1
  <2>3. \A c \in 1 .. Len(y) : text[p + c] = y[c]
    BY <1>3
  <2> HIDE DEF p, q, y
  <2>4. \A i \in p + 1 .. q : text[i] \in Char
    <3> SUFFICES ASSUME NEW i \in p + 1 .. q PROVE text[i] \in Char
      OBVIOUS
    <3>1. i \in 1 .. Len(text)
      BY <1>1, <2>2
    <3> QED BY <3>1, ElementOfSeq
  <2>5. p + 1 \in Int /\ q \in Int
    BY <1>1, <2>2
  <2>6. /\ s \in Seq(Char) /\ Len(s) = IF p + 1 <= q THEN q - (p + 1) + 1 ELSE 0
        /\ \A i \in 1 .. q - (p + 1) + 1 : s[i] = text[p + 1 + i - 1]
    BY <2>4, <2>5, SubSeqProperties
  <2> HIDE DEF s
  <2>7. Len(s) = Len(y)
    BY <1>1, <2>2, <2>6
  <2>8. ASSUME NEW i \in 1 .. Len(y) PROVE s[i] = y[i]
    <3>1. i \in 1 .. q - (p + 1) + 1 /\ p + 1 + i - 1 = p + i
      BY <1>1, <2>2
    <3> QED BY <2>3, <2>6, <3>1
  <2>9. s = y
    BY <2>2, <2>6, <2>7, <2>8, SeqEqual
  <2>10. p <= q
    BY <1>1, <2>2
  <2> QED BY <2>9, <2>10 DEF s, p, q, y
<1>5. \A t \in 1 .. n : pattern[t].kind = "literal" => w[t] = pattern[t].text
  BY DEF Fills, n
<1>6. b \in Covers(pattern, text)
  <2>1. \A t \in 1 .. n : b[t] <= b[t + 1] /\ Fits(pattern[t], SubSeq(text, b[t] + 1, b[t + 1]))
    BY <1>4, <1>5 DEF Fits
  <2> QED BY <1>1, <1>3, <2>1 DEF Covers, n
<1> QED BY <1>4, <1>6 DEF n

\* The literals of a cover.
LEMMA CoverLiteral ==
  ASSUME NEW pattern \in Seq(Token), NEW text \in Seq(Char), NEW at \in Covers(pattern, text),
         NEW t \in 1 .. Len(pattern), pattern[t].kind = "literal"
  PROVE  /\ Len(pattern[t].text) \in Nat /\ at[t + 1] = at[t] + Len(pattern[t].text)
         /\ \A c \in 1 .. Len(pattern[t].text) : text[at[t] + c] = pattern[t].text[c]
<1> DEFINE p == at[t]
           q == at[t + 1]
           y == pattern[t].text
<1>1. Len(pattern) \in Nat /\ DOMAIN pattern = 1 .. Len(pattern) /\ Len(text) \in Nat
  BY LenProperties
<1>2. t \in 1 .. Len(pattern) + 1 /\ t + 1 \in 1 .. Len(pattern) + 1
  BY <1>1
<1>3. p \in 0 .. Len(text) /\ q \in 0 .. Len(text) /\ p <= q
  BY <1>1, <1>2 DEF Covers
<1>4. SubSeq(text, p + 1, q) = y
  BY <1>1 DEF Covers, Fits
<1>5. y \in Seq(Char) /\ Len(y) \in Nat
  <2>1. pattern[t] \in Token
    BY ElementOfSeq
  <2>2. y \in Seq(Char)
    BY <2>1 DEF Token
  <2> QED BY <2>2, LenProperties
<1> HIDE DEF p, q, y
<1>6. \A i \in p + 1 .. q : text[i] \in Char
  <2> SUFFICES ASSUME NEW i \in p + 1 .. q PROVE text[i] \in Char
    OBVIOUS
  <2>1. i \in 1 .. Len(text)
    BY <1>1, <1>3
  <2> QED BY <2>1, ElementOfSeq
<1>7. p + 1 \in Int /\ q \in Int
  BY <1>1, <1>3
<1>8. /\ Len(y) = IF p + 1 <= q THEN q - (p + 1) + 1 ELSE 0
      /\ \A i \in 1 .. q - (p + 1) + 1 : y[i] = text[p + 1 + i - 1]
  <2> DEFINE s == SubSeq(text, p + 1, q)
  <2>1. /\ Len(s) = IF p + 1 <= q THEN q - (p + 1) + 1 ELSE 0
        /\ \A i \in 1 .. q - (p + 1) + 1 : s[i] = text[p + 1 + i - 1]
    BY <1>6, <1>7, SubSeqProperties
  <2>2. s = y
    BY <1>4
  <2> HIDE DEF s
  <2> QED BY <2>1, <2>2
<1>9. q = p + Len(y)
  BY <1>1, <1>3, <1>8
<1>10. ASSUME NEW c \in 1 .. Len(y) PROVE text[p + c] = y[c]
  <2>1. c \in 1 .. q - (p + 1) + 1 /\ p + 1 + c - 1 = p + c
    BY <1>1, <1>3, <1>5, <1>9
  <2> QED BY <1>8, <2>1
<1> QED BY <1>5, <1>9, <1>10 DEF p, q, y

\* Of all the ways a pattern covers a text it was filled in to, the leftmost is that one:
\* a shorter capture would have its next literal begin inside the text filled in.
LEMMA LeftmostFills ==
  ASSUME NEW pattern \in Seq(Token), Apart(pattern), NEW text \in Seq(Char),
         NEW w, Fills(w, pattern), NEW b, Lays(b, w, text)
  PROVE  Covers(pattern, text) # {} /\ Leftmost(Covers(pattern, text)) = b
<1> DEFINE n == Len(pattern)
           S == Covers(pattern, text)
           at == Leftmost(S)
<1>1. n \in Nat /\ DOMAIN pattern = 1 .. n /\ Len(w) = n /\ Len(text) \in Nat
  BY LenProperties DEF Fills
<1>2. b \in S
  BY FillsCover
<1>3. S \subseteq [1 .. n + 1 -> 0 .. Len(text)] /\ S \subseteq [1 .. n + 1 -> Nat] /\ n + 1 \in Nat
  <2>1. 0 .. Len(text) \subseteq Nat
    BY <1>1
  <2>2. S \subseteq [1 .. n + 1 -> 0 .. Len(text)]
    BY DEF Covers
  <2> HIDE DEF S
  <2> QED BY <1>1, <2>1, <2>2
<1>4. at \in S /\ \A c \in S \ {at} : Shorter(at, c)
  <2> HIDE DEF S, n
  <2> QED BY <1>2, <1>3, LeftmostIsOne
<1>5. at[1] = 0 /\ at[n + 1] = Len(text) /\ at \in [1 .. n + 1 -> 0 .. Len(text)]
  <2>1. at \in Covers(pattern, text)
    BY <1>4
  <2> HIDE DEF at
  <2> QED BY <2>1 DEF Covers
<1>6. /\ b \in [1 .. n + 1 -> 0 .. Len(text)] /\ b[1] = 0 /\ b[n + 1] = Len(text)
      /\ \A t \in 1 .. n : b[t + 1] = b[t] + Len(w[t])
      /\ \A t \in 1 .. n : \A c \in 1 .. Len(w[t]) : text[b[t] + c] = w[t][c]
  BY <1>1 DEF Lays
<1>7. ASSUME at # b PROVE FALSE
  <2>1. Shorter(at, b)
    BY <1>2, <1>4, <1>7
  <2> HIDE DEF at
  <2>2. PICK q \in 1 .. n + 1 : at[q] < b[q] /\ \A j \in 1 .. q - 1 : at[j] = b[j]
    BY <1>5, <2>1 DEF Shorter
  <2>3. q # 1 /\ q # n + 1 /\ at[q] \in 0 .. Len(text) /\ b[q] \in 0 .. Len(text)
    <3>1. at[q] \in 0 .. Len(text) /\ b[q] \in 0 .. Len(text)
      BY <1>5, <1>6
    <3>2. at[q] # b[q]
      BY <1>1, <2>2, <3>1
    <3> QED BY <1>5, <1>6, <3>1, <3>2
  <2> HIDE DEF n, S
  <2> DEFINE t == q - 1
  <2>4. t \in 1 .. n /\ t + 1 = q /\ q \in 1 .. n /\ t \in 1 .. n + 1 /\ t \in 1 .. q - 1
    BY <1>1, <2>3
  <2> HIDE DEF t
  <2>5. at[t] = b[t] /\ b[t] \in 0 .. Len(text) /\ b[q] = b[t] + Len(w[t])
    BY <1>6, <2>2, <2>4
  <2>6. at \in Covers(pattern, text) /\ b \in Covers(pattern, text)
    BY <1>2, <1>4 DEF S
  <2>7. w[t] \in Seq(Char) /\ Len(w[t]) \in Nat
    <3>1. w[t] \in Seq(Char)
      BY <1>1, <2>4, ElementOfSeq DEF Fills
    <3> QED BY <3>1, LenProperties
  <2>8. pattern[t].kind # "literal"
    <3> SUFFICES ASSUME pattern[t].kind = "literal" PROVE FALSE
      OBVIOUS
    <3>1. at[t + 1] = at[t] + Len(pattern[t].text)
      BY <2>4, <2>6, CoverLiteral DEF n
    <3>2. w[t] = pattern[t].text
      BY <2>4 DEF Fills, n
    <3> QED BY <1>1, <2>2, <2>3, <2>4, <2>5, <2>7, <3>1, <3>2
  <2>9. pattern[q].kind = "literal" /\ pattern[q].text # <<>>
    <3>1. q \in DOMAIN pattern \ {1} /\ q - 1 = t
      BY <1>1, <2>3, <2>4
    <3> QED BY <2>8, <3>1 DEF Apart
  <2>10. pattern[q].text \in Seq(Char) /\ Len(pattern[q].text) \in Nat \ {0}
    <3>1. pattern[q] \in Token
      BY <2>4, ElementOfSeq DEF n
    <3>2. pattern[q].text \in Seq(Char)
      BY <2>9, <3>1 DEF Token
    <3> QED BY <2>9, <3>2, LenProperties, EmptySeq
  <2> DEFINE lit == pattern[q].text
             c == at[q] + 1 - b[t]
  <2>11. text[at[q] + 1] = lit[1]
    <3>1. 1 \in 1 .. Len(lit)
      BY <2>10
    <3>2. \A d \in 1 .. Len(lit) : text[at[q] + d] = lit[d]
      BY <2>4, <2>6, <2>9, CoverLiteral DEF n
    <3> QED BY <3>1, <3>2
  <2>12. lit[1] \in Literals(pattern)
    <3>1. 1 \in DOMAIN lit
      BY <2>10
    <3>2. lit[1] \in Range(lit)
      BY <3>1 DEF Range
    <3>3. q \in {u \in DOMAIN pattern : pattern[u].kind = "literal"}
      BY <1>1, <2>4, <2>9
    <3> QED BY <3>2, <3>3 DEF Literals
  <2>13. at[t] <= at[q]
    BY <1>1, <2>4, <2>6 DEF Covers, n
  <2>14. c \in 1 .. Len(w[t]) /\ b[t] + c = at[q] + 1
    BY <1>1, <2>2, <2>3, <2>5, <2>7, <2>13
  <2> HIDE DEF c, lit
  <2>15. text[at[q] + 1] = w[t][c]
    BY <1>6, <2>4, <2>14
  <2>16. w[t][c] \in Range(w[t])
    <3>1. c \in DOMAIN w[t]
      BY <2>7, <2>14, LenProperties
    <3> QED BY <3>1 DEF Range
  <2>17. Range(w[t]) \cap Literals(pattern) = {}
    BY <2>4, <2>8 DEF Fills, n
  <2> QED BY <2>11, <2>12, <2>15, <2>16, <2>17
<1> QED BY <1>2, <1>7

\* So matching gives back what was filled in.
LEMMA MatchRecovers ==
  ASSUME NEW pattern \in Seq(Token), Apart(pattern), NEW text \in Seq(Char),
         NEW w, Fills(w, pattern), text = FlattenSeq(w)
  PROVE  /\ MatchParsePattern(pattern, text).matched
         /\ MatchParsePattern(pattern, text).vals = [i \in DOMAIN Captures(pattern) |-> Str(w[Captures(pattern)[i]])]
<1> DEFINE C == Captures(pattern)
           S == Covers(pattern, text)
           at == Leftmost(S)
           vals == [i \in DOMAIN C |-> Str(SubSeq(text, at[C[i]] + 1, at[C[i] + 1]))]
<1>1. PICK b : Lays(b, w, text)
  BY FlatLays DEF Fills
<1>2. S # {} /\ at = b
  BY <1>1, LeftmostFills
<1>3. \A t \in 1 .. Len(pattern) : SubSeq(text, b[t] + 1, b[t + 1]) = w[t]
  BY <1>1, FillsCover
<1>4. \A i \in DOMAIN C : C[i] \in 1 .. Len(pattern)
  BY CapturesInOrder
<1>5. MatchParsePattern(pattern, text) = [matched |-> TRUE, vals |-> vals]
  <2>1. S # {}
    BY <1>2
  <2> QED BY <2>1 DEF MatchParsePattern
<1> HIDE DEF C, S, at
<1>6. vals = [i \in DOMAIN C |-> Str(w[C[i]])]
  <2>1. \A i \in DOMAIN C : SubSeq(text, at[C[i]] + 1, at[C[i] + 1]) = w[C[i]]
    BY <1>2, <1>3, <1>4
  <2> QED BY <2>1
<1> HIDE DEF vals
<1> QED BY <1>5, <1>6 DEF C

\* A kept row is parsed where it is kept.
LEMMA KeptRow ==
  ASSUME NEW x \in Result, NEW st \in Stages, NEW at, NEW j \in DOMAIN x.rows,
         MatchParsePattern(st.pattern, ParsedText(x.rows[j], at)).matched
  PROVE  \E o \in DOMAIN ParsedRows(x, at, st) :
           ParsedRows(x, at, st)[o] = x.rows[j] \o ParsedVals(x.rows[j], at, st)
<1> DEFINE rows == x.rows
           P == {l \in DOMAIN rows : MatchParsePattern(st.pattern, ParsedText(rows[l], at)).matched}
           kept == Kept(x, at, st)
<1>1. PICK o : o \in DOMAIN kept /\ kept[o] = rows[j]
  <2>1. CASE ~ st.where
    BY <2>1 DEF Kept
  <2>2. CASE st.where
    <3>1. rows \in Seq(Wide(Len(x.cols)))
      BY ResultShape
    <3>2. P \subseteq DOMAIN rows /\ j \in P
      OBVIOUS
    <3>3. kept = Picked(rows, P)
      BY <2>2 DEF Kept
    <3> HIDE DEF rows, P, kept
    <3>4. /\ IsFiniteSet(P) /\ P \subseteq Nat /\ Picked(rows, P) \in Seq(Wide(Len(x.cols)))
          /\ Len(Picked(rows, P)) = Cardinality(P)
          /\ \A m \in 1 .. Cardinality(P) : Picked(rows, P)[m] = rows[Ascending(P)[m]]
      BY <3>1, <3>2, PickedRows
    <3> DEFINE m == Cardinality({l \in P : l <= j})
    <3>5. m \in 1 .. Cardinality(P) /\ Ascending(P)[m] = j
      BY <3>2, <3>4, AscendingPlaces
    <3> HIDE DEF m
    <3>6. DOMAIN kept = 1 .. Cardinality(P)
      BY <3>3, <3>4, LenProperties
    <3>7. kept[m] = rows[j]
      BY <3>3, <3>4, <3>5
    <3> QED BY <3>5, <3>6, <3>7
  <2> QED BY <2>1, <2>2
<1> HIDE DEF kept
<1>2. ParsedRows(x, at, st) = [l \in DOMAIN kept |-> kept[l] \o ParsedVals(kept[l], at, st)]
  BY DEF ParsedRows, kept
<1>3. o \in DOMAIN ParsedRows(x, at, st) /\ ParsedRows(x, at, st)[o] = rows[j] \o ParsedVals(rows[j], at, st)
  BY <1>1, <1>2
<1> QED BY <1>3

\* A row whose text is a pattern filled in is parsed into what it was filled in with.
TargetAt(x, st) == ExactIndex(x.cols, st.target)
TextOf(x, st, j) == ParsedText(x.rows[j], TargetAt(x, st))
FilledIn(fill, pattern, text) ==
  /\ \A t \in DOMAIN pattern : fill[t] \in Subtexts(text) /\ Range(fill[t]) \cap Literals(pattern) = {}
  /\ Filled(pattern, fill) = text
ReadBack(y, row, fill, pattern) ==
  \E o \in DOMAIN y.rows : y.rows[o] = row \o [c \in DOMAIN Captures(pattern) |-> Str(fill[Captures(pattern)[c]])]
LEMMA RowRecovers ==
  ASSUME NEW x \in Result, NEW st \in Stages, TargetAt(x, st) # 0, Apart(st.pattern), NEW j \in DOMAIN x.rows,
         NEW fill, FilledIn(fill, st.pattern, TextOf(x, st, j))
  PROVE  ReadBack(ParseRows(x, st), x.rows[j], fill, st.pattern)
<1> DEFINE at == TargetAt(x, st)
           text == TextOf(x, st, j)
           pattern == st.pattern
           C == Captures(pattern)
           w == [t \in DOMAIN pattern |-> IF pattern[t].kind = "literal" THEN pattern[t].text ELSE fill[t]]
<1>1. pattern \in Seq(Token)
  BY StagesAssumption DEF WellFormed
<1>0. at = ExactIndex(x.cols, st.target) /\ at # 0 /\ text = ParsedText(x.rows[j], at)
  BY DEF TargetAt, TextOf
<1> HIDE DEF pattern, at, text
<1>2. Len(pattern) \in Nat /\ DOMAIN pattern = 1 .. Len(pattern) /\ \A t \in 1 .. Len(pattern) : pattern[t] \in Token
  BY <1>1, LenProperties, ElementOfSeq
<1>3. text \in Seq(Char)
  <2>1. x.cols \in Seq(STRING) /\ x.rows[j] \in Wide(Len(x.cols)) /\ Len(x.cols) \in Nat
    BY ResultShape
  <2>2. at \in 1 .. Len(x.cols)
    BY <1>0, <2>1, Indices
  <2> QED BY <1>0, <2>1, <2>2, ParsedRow
<1>4. \A s \in Subtexts(text) : s \in Seq(Char)
  <2> SUFFICES ASSUME NEW s \in Subtexts(text) PROVE s \in Seq(Char)
    OBVIOUS
  <2>4. PICK a \in 1 .. Len(text) + 1, b \in 0 .. Len(text) : s = SubSeq(text, a, b)
    BY DEF Subtexts
  <2>1. Len(text) \in Nat
    BY <1>3, LenProperties
  <2>2. \A i \in a .. b : text[i] \in Char
    <3> SUFFICES ASSUME NEW i \in a .. b PROVE text[i] \in Char
      OBVIOUS
    <3>1. i \in 1 .. Len(text)
      BY <2>1
    <3> QED BY <1>3, <3>1, ElementOfSeq
  <2>3. a \in Int /\ b \in Int
    BY <2>1
  <2>5. SubSeq(text, a, b) \in Seq(Char)
    BY <2>2, <2>3, SubSeqProperties
  <2> QED BY <2>4, <2>5
<1>5. \A t \in 1 .. Len(pattern) : fill[t] \in Seq(Char) /\ Range(fill[t]) \cap Literals(pattern) = {}
  BY <1>2, <1>4 DEF pattern, FilledIn, text
<1>6. \A t \in 1 .. Len(pattern) : pattern[t].kind = "literal" => pattern[t].text \in Seq(Char)
  BY <1>2 DEF Token
<1>7. Fills(w, pattern)
  <2>1. \A t \in 1 .. Len(pattern) : w[t] \in Seq(Char)
    BY <1>2, <1>5, <1>6
  <2>2. DOMAIN w = 1 .. Len(pattern) /\ w = [t \in 1 .. Len(pattern) |-> w[t]]
    BY <1>2
  <2>3. \A t \in 1 .. Len(pattern) :
          IF pattern[t].kind = "literal" THEN w[t] = pattern[t].text ELSE Range(w[t]) \cap Literals(pattern) = {}
    BY <1>2, <1>5
  <2> HIDE DEF w
  <2>4. w \in Seq(Seq(Char)) /\ Len(w) = Len(pattern)
    BY <1>2, <2>1, <2>2, MadeSeq
  <2> QED BY <2>3, <2>4 DEF Fills
<1>8. text = FlattenSeq(w)
  BY DEF Filled, FilledIn, pattern, text
<1>9. \A c \in DOMAIN C : w[C[c]] = fill[C[c]]
  <2>1. \A c \in DOMAIN C : C[c] \in DOMAIN pattern /\ pattern[C[c]].kind # "literal"
    <3>1. \A c \in DOMAIN C : C[c] \in 1 .. Len(pattern) /\ pattern[C[c]].kind = "capture"
      BY <1>1, CapturesInOrder
    <3> QED BY <1>2, <3>1
  <2> QED BY <2>1
<1> HIDE DEF w
<1>10. /\ MatchParsePattern(pattern, text).matched
       /\ MatchParsePattern(pattern, text).vals = [i \in DOMAIN C |-> Str(w[C[i]])]
  BY <1>1, <1>3, <1>7, <1>8, MatchRecovers DEF pattern
<1>11. ParsedVals(x.rows[j], at, st) = [c \in DOMAIN C |-> Str(fill[C[c]])]
  <2>1. ParsedVals(x.rows[j], at, st) = [i \in DOMAIN C |-> Str(w[C[i]])]
    BY <1>0, <1>10 DEF ParsedVals, pattern
  <2> HIDE DEF C
  <2> QED BY <1>9, <2>1
<1>12. \E o \in DOMAIN ParsedRows(x, at, st) :
         ParsedRows(x, at, st)[o] = x.rows[j] \o ParsedVals(x.rows[j], at, st)
  <2>1. MatchParsePattern(st.pattern, ParsedText(x.rows[j], at)).matched
    BY <1>0, <1>10 DEF pattern
  <2> QED BY <2>1, KeptRow
<1>13. ParseRows(x, st).rows = ParsedRows(x, at, st)
  BY <1>0, ParseIs
<1>14. \E o \in DOMAIN ParseRows(x, st).rows :
         ParseRows(x, st).rows[o] = x.rows[j] \o [c \in DOMAIN C |-> Str(fill[C[c]])]
  BY <1>11, <1>12, <1>13
<1> QED BY <1>14 DEF C, pattern, ReadBack

\* A text that is a pattern with its captures filled in gives the captures back, each under
\* its own name, in a row otherwise unchanged, whatever the pattern and however long the
\* text (exec.go:226-264, 341-378).
THEOREM ParseReadsBack == Spec => ParseRecovers
<1> DEFINE pattern == Stage.pattern
           at == ExactIndex(res.cols, Stage.target)
           Want == At("Parse") /\ ExactIndex(res.cols, Stage.target) # 0 /\ Apart(Stage.pattern) =>
       \A j \in DOMAIN res.rows :
         LET target == res.rows[j][ExactIndex(res.cols, Stage.target)]
             text  == IF target = Null THEN <<>> ELSE Text(target)
             clean == {s \in Subtexts(text) : Range(s) \cap Literals(Stage.pattern) = {}}
         IN  \A fill \in [DOMAIN Stage.pattern -> clean] :
               Filled(Stage.pattern, fill) = text =>
               \E o \in DOMAIN res'.rows :
                 res'.rows[o] = res.rows[j]
                   \o [c \in DOMAIN Captures(Stage.pattern) |-> Str(fill[Captures(Stage.pattern)[c]])]
<1>1. TypeOK /\ [Next]_vars => [Want]_vars
  <2> SUFFICES ASSUME TypeOK, Next, At("Parse"), at # 0, Apart(pattern), NEW j \in DOMAIN res.rows,
                      NEW fill \in [DOMAIN pattern -> {s \in Subtexts(TextOf(res, Stage, j)) :
                                                          Range(s) \cap Literals(pattern) = {}}],
                      Filled(pattern, fill) = TextOf(res, Stage, j)
               PROVE  ReadBack(res', res.rows[j], fill, pattern)
    BY DEF ParsedText, TextOf, TargetAt, ReadBack
  <2>1. res' = ParseRows(res, Stage)
    BY DEF Next, At, Apply, ExecMvExpand, ExecMvApply, ExecParse, ExecMakeSeries, ExecAggregate, ExecLimit, ExecProject, PassThrough
  <2>2. Stage \in Stages
    BY StageTyped DEF At
  <2>3. res \in Result
    BY DEF TypeOK
  <2>4. FilledIn(fill, Stage.pattern, TextOf(res, Stage, j)) /\ TargetAt(res, Stage) # 0
    BY DEF FilledIn, TargetAt
  <2>5. ReadBack(ParseRows(res, Stage), res.rows[j], fill, Stage.pattern)
    BY <2>2, <2>3, <2>4, RowRecovers
  <2> QED BY <2>1, <2>5
<1> QED BY <1>1, TypeCorrect, PTL DEF Spec, ParseRecovers

-----------------------------------------------------------------------------
(* Groups, and the rows in a bucket *)

\* Every key has one first row.
LEMMA HeadsOnce ==
  ASSUME NEW m \in Nat, NEW keys, DOMAIN keys = 1 .. m
  PROVE  /\ \A p \in 1 .. m : \E g \in DOMAIN Firsts(keys) : keys[Firsts(keys)[g]] = keys[p]
         /\ \A g, h \in DOMAIN Firsts(keys) : keys[Firsts(keys)[g]] = keys[Firsts(keys)[h]] => g = h
<1> DEFINE P == {j \in DOMAIN keys : \A l \in 1 .. j - 1 : keys[l] # keys[j]}
           heads == Firsts(keys)
           c == Cardinality(P)
<1>1. heads = Ascending(P)
  BY DEF Firsts
<1>2. P \subseteq 1 .. m
  OBVIOUS
<1>3. \A j \in 1 .. m : (\A l \in 1 .. j - 1 : keys[l] # keys[j]) => j \in P
  OBVIOUS
<1>4. \A j \in P : j \in 1 .. m /\ \A l \in 1 .. j - 1 : keys[l] # keys[j]
  OBVIOUS
<1> HIDE DEF P, heads
<1>5. P \subseteq Nat /\ IsFiniteSet(P)
  <2>1. IsFiniteSet(1 .. m)
    BY FS_Interval
  <2>2. IsFiniteSet(P)
    BY <1>2, <2>1, FS_Subset
  <2>3. \A j \in P : j \in Nat
    BY <1>4
  <2> QED BY <2>2, <2>3
<1>6. /\ c \in Nat
      /\ DOMAIN heads = 1 .. c /\ \A g \in 1 .. c : heads[g] \in P
      /\ \A j \in P : \E g \in 1 .. c : heads[g] = j
      /\ \A g, h \in 1 .. c : g < h <=> heads[g] < heads[h]
  <2>1. /\ c \in Nat /\ heads \in [1 .. c -> P]
        /\ \A g, h \in 1 .. c : g < h <=> heads[g] < heads[h]
    BY <1>1, <1>5, AscendingPlaces
  <2>2. ASSUME NEW j \in P PROVE \E g \in 1 .. c : heads[g] = j
    <3> DEFINE g == Cardinality({q \in P : q <= j})
    <3>1. g \in 1 .. c /\ heads[g] = j
      BY <1>1, <1>5, AscendingPlaces
    <3> HIDE DEF g
    <3> QED BY <3>1
  <2> QED BY <2>1, <2>2
<1> HIDE DEF c
<1>7. ASSUME NEW p \in 1 .. m PROVE \E g \in DOMAIN heads : keys[heads[g]] = keys[p]
  <2> DEFINE I == {l \in 1 .. m : keys[l] = keys[p]}
             first == Min(I)
  <2>1. I \subseteq 1 .. m /\ p \in I
    OBVIOUS
  <2>2. first \in I /\ \A i \in I : first <= i
    <3> HIDE DEF I
    <3> DEFINE at == IF I # {} THEN Min(I) ELSE 0
    <3>1. (at = 0 <=> I = {}) /\ (at # 0 => at \in I /\ \A i \in I : at <= i)
      BY <2>1, FirstPlace
    <3> QED BY <2>1, <3>1
  <2>3. first \in 1 .. m /\ keys[first] = keys[p]
    BY <2>2
  <2>4. ASSUME NEW l \in 1 .. first - 1 PROVE keys[l] # keys[first]
    <3>1. l \in 1 .. m /\ ~ (first <= l)
      BY <2>3
    <3> QED BY <2>2, <2>3, <3>1
  <2> HIDE DEF first, I
  <2>5. first \in P
    BY <1>3, <2>3, <2>4
  <2>6. PICK g \in 1 .. c : heads[g] = first
    BY <1>6, <2>5
  <2> QED BY <1>6, <2>3, <2>6
<1>8. ASSUME NEW g \in DOMAIN heads, NEW h \in DOMAIN heads, keys[heads[g]] = keys[heads[h]] PROVE g = h
  <2> DEFINE a == heads[g]
             b == heads[h]
  <2>1. g \in 1 .. c /\ h \in 1 .. c /\ a \in P /\ b \in P
    BY <1>6
  <2>2. a \in 1 .. m /\ b \in 1 .. m
    BY <1>4, <2>1
  <2>3. ~ (a < b)
    <3> SUFFICES ASSUME a < b PROVE FALSE
      OBVIOUS
    <3>1. a \in 1 .. b - 1
      BY <2>2
    <3> QED BY <1>4, <1>8, <2>1, <3>1
  <2>4. ~ (b < a)
    <3> SUFFICES ASSUME b < a PROVE FALSE
      OBVIOUS
    <3>1. b \in 1 .. a - 1
      BY <2>2
    <3> QED BY <1>4, <1>8, <2>1, <3>1
  <2>5. ~ (g < h) /\ ~ (h < g)
    BY <1>6, <2>1, <2>3, <2>4
  <2> QED BY <1>6, <2>1, <2>5
<1> QED BY <1>7, <1>8 DEF heads

\* The rows of a group.
Members(keys, first) == {p \in DOMAIN keys : keys[p] = keys[first]}

\* Every row is in one group: the groups' sizes add up to the number of rows.
LEMMA GroupsAddUp ==
  ASSUME NEW m \in Nat, NEW keys, DOMAIN keys = 1 .. m, NEW u \in Int,
         NEW xs \in Seq(Int), Len(xs) = Len(Firsts(keys)),
         \A g \in 1 .. Len(xs) : xs[g] = Cardinality(Members(keys, Firsts(keys)[g])) * u
  PROVE  Total(xs) = m * u
<1> DEFINE heads == Firsts(keys)
           n == Len(xs)
           U(d) == {p \in 1 .. m : \E h \in 1 .. d : keys[p] = keys[heads[h]]}
<1>1. n \in Nat /\ DOMAIN heads = 1 .. n /\ \A g \in 1 .. n : heads[g] \in 1 .. m
  BY FirstsTyped
<1>2. /\ \A p \in 1 .. m : \E g \in 1 .. n : keys[heads[g]] = keys[p]
      /\ \A g, h \in 1 .. n : keys[heads[g]] = keys[heads[h]] => g = h
  <2>1. /\ \A p \in 1 .. m : \E g \in DOMAIN Firsts(keys) : keys[Firsts(keys)[g]] = keys[p]
        /\ \A g, h \in DOMAIN Firsts(keys) : keys[Firsts(keys)[g]] = keys[Firsts(keys)[h]] => g = h
    BY HeadsOnce
  <2> HIDE DEF n
  <2>2. DOMAIN Firsts(keys) = 1 .. n
    BY <1>1
  <2> QED BY <2>1, <2>2, Zenon
<1>3. PICK f : Adds(f, xs) /\ Total(xs) = f[n]
  BY TotalAdds
<1>4. f[0] = 0 /\ \A d \in 0 .. n - 1 : f[d + 1] = f[d] + xs[d + 1]
  BY <1>3 DEF Adds
<1>5. \A g \in 1 .. n : xs[g] = Cardinality(Members(keys, heads[g])) * u
  OBVIOUS
<1> HIDE DEF n, heads
<1>6. IsFiniteSet(1 .. m) /\ Cardinality(1 .. m) = m
  BY FS_Interval
<1>7. \A S : S \subseteq 1 .. m => IsFiniteSet(S) /\ Cardinality(S) \in Nat
  <2>1. \A S : S \subseteq 1 .. m => IsFiniteSet(S)
    BY <1>6, FS_Subset
  <2> QED BY <2>1, FS_CardinalityType
<1> DEFINE D == {d \in Nat : d <= n => f[d] = Cardinality(U(d)) * u}
<1>8. 0 \in D
  <2>1. U(0) = {}
    OBVIOUS
  <2>2. Cardinality(U(0)) = 0
    BY <2>1, FS_EmptySet
  <2>3. 0 * u = 0
    OBVIOUS
  <2> HIDE DEF U
  <2> QED BY <1>4, <2>2, <2>3
<1>9. ASSUME NEW d \in Nat, d \in D PROVE d + 1 \in D
  <2> SUFFICES ASSUME d + 1 <= n PROVE f[d + 1] = Cardinality(U(d + 1)) * u
    OBVIOUS
  <2> DEFINE A == U(d)
             B == Members(keys, heads[d + 1])
             V == U(d + 1)
  <2>1. d <= n /\ d \in 0 .. n - 1 /\ d + 1 \in 1 .. n
    BY <1>1
  <2>2. f[d] = Cardinality(A) * u /\ f[d + 1] = f[d] + xs[d + 1] /\ xs[d + 1] = Cardinality(B) * u
    BY <1>4, <1>5, <1>9, <2>1
  <2>3. A \subseteq 1 .. m /\ B \subseteq 1 .. m
    BY DEF Members
  <2>4. V = A \cup B
    <3>1. \A h : h \in 1 .. d + 1 <=> h \in 1 .. d \/ h = d + 1
      OBVIOUS
    <3>2. \A p : p \in B <=> p \in 1 .. m /\ keys[p] = keys[heads[d + 1]]
      BY DEF Members
    <3> HIDE DEF B
    <3> QED BY <3>1, <3>2
  <2>5. A \cap B = {}
    <3> SUFFICES ASSUME NEW p \in A, p \in B PROVE FALSE
      OBVIOUS
    <3>1. PICK h \in 1 .. d : keys[p] = keys[heads[h]]
      OBVIOUS
    <3>2. keys[p] = keys[heads[d + 1]]
      BY DEF Members
    <3>3. h \in 1 .. n /\ h # d + 1
      BY <1>1, <2>1
    <3>4. keys[heads[h]] = keys[heads[d + 1]]
      BY <3>1, <3>2
    <3> DEFINE e == d + 1
    <3>5. h \in 1 .. n /\ e \in 1 .. n /\ h # e /\ keys[heads[h]] = keys[heads[e]]
      BY <2>1, <3>3, <3>4
    <3> HIDE DEF e
    <3> QED BY <1>2, <3>5
  <2> HIDE DEF A, B, V
  <2>6. IsFiniteSet(A) /\ IsFiniteSet(B) /\ Cardinality(A) \in Nat /\ Cardinality(B) \in Nat
    BY <1>7, <2>3
  <2>7. Cardinality(V) = Cardinality(A) + Cardinality(B)
    <3>1. Cardinality(A \cup B) = Cardinality(A) + Cardinality(B) - Cardinality(A \cap B)
      BY <2>6, FS_Union
    <3>2. Cardinality(A \cap B) = 0
      BY <2>5, FS_EmptySet
    <3> QED BY <2>4, <2>6, <3>1, <3>2
  <2> DEFINE a == Cardinality(A)
             b == Cardinality(B)
  <2>8. a \in Int /\ b \in Int /\ f[d + 1] = a * u + b * u /\ Cardinality(V) = a + b
    BY <2>2, <2>6, <2>7
  <2> HIDE DEF a, b
  <2>9. (a + b) * u = a * u + b * u
    BY <2>8
  <2>10. f[d + 1] = Cardinality(V) * u
    BY <2>8, <2>9
  <2> QED BY <2>10 DEF V
<1>10. Nat \subseteq D
  <2> HIDE DEF D
  <2> QED BY <1>8, <1>9, SetInduction
<1>11. n \in D
  <2> HIDE DEF D
  <2> QED BY <1>1, <1>10
<1>12. U(n) = 1 .. m
  <2>1. \A p \in 1 .. m : \E g \in 1 .. n : keys[p] = keys[heads[g]]
    BY <1>2
  <2> QED BY <2>1
<1>13. f[n] = Cardinality(U(n)) * u
  BY <1>1, <1>11
<1> HIDE DEF U
<1> QED BY <1>3, <1>6, <1>12, <1>13

\* A bucket is where its times are.
LEMMA Buckets ==
  ASSUME NEW v \in Int, NEW a \in Int, NEW s \in Nat \ {0}
  PROVE  /\ Bucket(v, a, s) \in Int /\ Bucket(v, a, s) <= v /\ v < Bucket(v, a, s) + s
         /\ \A w \in Int : Bucket(w, a, s) <= v /\ v < Bucket(w, a, s) + s => Bucket(w, a, s) = Bucket(v, a, s)
<1>1. ASSUME NEW e \in Int PROVE (e \div s) \in Int /\ (e \div s) * s <= e /\ e < (e \div s) * s + s
  OBVIOUS
<1>2. ASSUME NEW e \in Int, NEW q \in Int, NEW r \in Int, q * s <= e, e < q * s + s, r * s <= e, e < r * s + s
      PROVE  q = r
  BY <1>2
<1> DEFINE e == v - a
           q == e \div s
<1>3. e \in Int /\ q \in Int /\ q * s <= e /\ e < q * s + s /\ Bucket(v, a, s) = a + q * s
  BY <1>1 DEF Bucket
<1> HIDE DEF q
<1>4. Bucket(v, a, s) \in Int /\ Bucket(v, a, s) <= v /\ v < Bucket(v, a, s) + s
  <2> DEFINE z == q * s
  <2>1. z \in Int
    BY <1>3
  <2> HIDE DEF z
  <2>2. z <= v - a /\ v - a < z + s /\ Bucket(v, a, s) = a + z
    BY <1>3 DEF z
  <2> QED BY <2>1, <2>2
<1>5. ASSUME NEW w \in Int, Bucket(w, a, s) <= v, v < Bucket(w, a, s) + s
      PROVE  Bucket(w, a, s) = Bucket(v, a, s)
  <2> DEFINE r == (w - a) \div s
             z == r * s
  <2>1. r \in Int /\ Bucket(w, a, s) = a + z
    BY <1>1 DEF Bucket
  <2> HIDE DEF r
  <2>2. z \in Int
    BY <2>1
  <2> HIDE DEF z
  <2>3. z <= e /\ e < z + s
    BY <1>5, <2>1, <2>2
  <2>4. q = r
    BY <1>2, <1>3, <2>1, <2>3 DEF z
  <2> QED BY <1>3, <2>1, <2>4 DEF z
<1> QED BY <1>4, <1>5

IsRowFor(row, idx, x, st, f) == idx = KeyIndex(st.keys, x.cols) /\ row = SeriesRow(x, st, f)

HasParts(row, idx, x, st, f) ==
  /\ \A i \in 1 .. Len(st.keys) : idx[i] # 0 => row[i] = Inside(x, st)[f][idx[i]]
  /\ row[Len(st.keys) + 1] = Real(BucketOf(x, st, Inside(x, st)[f]))
  /\ \A i \in 1 .. Len(st.aggs) :
       row[Len(st.keys) + 1 + i]
         = ComputeAggregate(st.aggs[i], GroupOf(Inside(x, st), SeriesKeys(x, st), f), x.cols)

\* The row of a bucket: its keys, its time, and its group's aggregates.
LEMMA SeriesRowParts ==
  ASSUME NEW x \in Result, NEW st \in Stages, AtTime(x, st) # 0, NEW f \in 1 .. Len(Inside(x, st)),
         NEW idx, NEW row, IsRowFor(row, idx, x, st, f)
  PROVE  /\ row \in Wide(Len(st.keys) + 1 + Len(st.aggs))
         /\ HasParts(row, idx, x, st, f)
<1> DEFINE n == Len(x.cols)
           a == Len(st.keys)
           b == Len(st.aggs)
           inside == Inside(x, st)
           keys == SeriesKeys(x, st)
           group == GroupOf(inside, keys, f)
           values == KeyValues(inside[f], idx)
           bucket == BucketOf(x, st, inside[f])
           front == SeriesFront(x, st, f)
           back == Aggregated(st.aggs, group, x.cols)
<1>1. x.cols \in Seq(STRING) /\ n \in Nat
  BY ResultShape
<1>2. a \in Nat /\ b \in Nat /\ DOMAIN st.keys = 1 .. a /\ DOMAIN st.aggs = 1 .. b
  BY NamesTyped
<1>3. DOMAIN idx = 1 .. a /\ \A i \in 1 .. a : idx[i] \in 0 .. n
  BY <1>1, <1>2, KeysTyped DEF IsRowFor
<1>4. inside \in Seq(Wide(n))
  BY SeriesRangeTyped
<1>5. Len(inside) \in Nat /\ DOMAIN inside = 1 .. Len(inside) /\ \A j \in 1 .. Len(inside) : inside[j] \in Wide(n)
  <2> HIDE DEF inside, n
  <2> QED BY <1>4, LenProperties, ElementOfSeq
<1>6. DOMAIN keys = DOMAIN inside
  BY <1>5 DEF SeriesKeys
<1>7. group \in Seq(Wide(n))
  <2> HIDE DEF keys, n, inside
  <2> QED BY <1>4, <1>6, GroupTyped
<1>8. row = front \o back /\ front = Append(values, Real(bucket))
  BY DEF SeriesRow, SeriesFront, IsRowFor
<1>9. bucket \in Int
  BY <1>5, SeriesRangeTyped
<1>10. \A i \in 1 .. b : back[i] = ComputeAggregate(st.aggs[i], group, x.cols)
  BY <1>2 DEF Aggregated
<1>11. \A i \in 1 .. a : idx[i] # 0 => values[i] = inside[f][idx[i]]
  BY <1>3 DEF KeyValues
<1> HIDE DEF group, keys, bucket
<1>12. back \in Wide(b)
  BY <1>1, <1>2, <1>7, AggregatedTyped
<1> HIDE DEF back, n, inside
<1>13. values \in Wide(a)
  BY <1>1, <1>2, <1>3, <1>5, ValuesTyped DEF inside
<1> HIDE DEF values, front, a, b
<1>14. front \in Wide(a + 1) /\ (\A i \in 1 .. a : front[i] = values[i]) /\ front[a + 1] = Real(bucket)
  <2>1. values \in Seq(Value) /\ Len(values) = a /\ Real(bucket) \in Value
    BY <1>9, <1>13, MadeValues DEF Wide
  <2> DEFINE e == Real(bucket)
             y == Append(values, e)
  <2>2. /\ y \in Seq(Value) /\ Len(y) = Len(values) + 1
        /\ \A i \in 1 .. Len(values) : y[i] = values[i]
        /\ y[Len(values) + 1] = e
    BY <2>1, AppendProperties
  <2> HIDE DEF e
  <2> QED BY <1>8, <2>1, <2>2 DEF Wide, e
<1> DEFINE m == a + 1
<1>15. m \in Nat /\ front \in Wide(m)
  BY <1>2, <1>14
<1> HIDE DEF m
<1>16. /\ front \o back \in Wide(m + b)
       /\ \A c \in 1 .. m : (front \o back)[c] = front[c]
       /\ \A c \in 1 .. b : (front \o back)[m + c] = back[c]
  BY <1>2, <1>12, <1>15, WiderRow
<1>17. row \in Wide(a + 1 + b)
  BY <1>8, <1>16 DEF m
<1>18. ASSUME NEW i \in 1 .. a, idx[i] # 0 PROVE row[i] = inside[f][idx[i]]
  <2>1. i \in 1 .. m
    BY <1>2 DEF m
  <2>2. row[i] = front[i]
    BY <1>8, <1>16, <2>1
  <2>3. front[i] = values[i]
    BY <1>14
  <2> QED BY <1>11, <1>18, <2>2, <2>3
<1>19. row[m] = Real(bucket)
  <2>1. m \in 1 .. m /\ m = a + 1
    BY <1>2 DEF m
  <2> QED BY <1>8, <1>14, <1>16, <2>1
<1>20. \A i \in 1 .. b : row[m + i] = ComputeAggregate(st.aggs[i], group, x.cols)
  BY <1>8, <1>10, <1>16
<1> QED BY <1>17, <1>18, <1>19, <1>20 DEF m, a, b, inside, bucket, group, keys, HasParts

\* A row of the answer is for a row inside the range: its keys look alike, and its bucket
\* is where the row's time is.
InSeries(out, row, x, st) ==
  /\ \A i \in DOMAIN KeyIndex(st.keys, x.cols) :
       KeyIndex(st.keys, x.cols)[i] # 0 => Text(out[i]) = Text(row[KeyIndex(st.keys, x.cols)[i]])
  /\ out[Len(st.keys) + 1][2] <= ToFloat64(row[AtTime(x, st)])
  /\ ToFloat64(row[AtTime(x, st)]) < out[Len(st.keys) + 1][2] + StepOf(st)

LEMMA InSeriesIs ==
  ASSUME NEW x \in Result, NEW st \in Stages, AtTime(x, st) # 0, NEW f \in 1 .. Len(Inside(x, st)),
         NEW l \in 1 .. Len(Inside(x, st))
  PROVE  InSeries(SeriesRow(x, st, f), Inside(x, st)[l], x, st) <=> SeriesKeys(x, st)[f] = SeriesKeys(x, st)[l]
<1> DEFINE inside == Inside(x, st)
           idx == KeyIndex(st.keys, x.cols)
           keys == SeriesKeys(x, st)
           row == SeriesRow(x, st, f)
           a == Len(st.keys)
           r == inside[f]
           q == inside[l]
           V(e) == ToFloat64(e[AtTime(x, st)])
           B(e) == BucketOf(x, st, e)
           s == StepOf(st)
           start == RangeOf(x, st)[1]
<1>1. a \in Nat /\ DOMAIN idx = 1 .. a /\ x.cols \in Seq(STRING)
  <2>1. x.cols \in Seq(STRING) /\ a \in Nat /\ DOMAIN st.keys = 1 .. a
    BY ResultShape, NamesTyped
  <2> HIDE DEF a
  <2> QED BY <2>1, KeysTyped
<1>2. inside \in Seq(Wide(Len(x.cols))) /\ start \in Int /\ s \in Nat \ {0}
  BY SeriesRangeTyped
<1>3. r \in Wide(Len(x.cols)) /\ q \in Wide(Len(x.cols)) /\ DOMAIN inside = 1 .. Len(inside)
  <2> DEFINE S == Wide(Len(x.cols))
  <2> HIDE DEF inside, S
  <2>1. inside[f] \in S /\ inside[l] \in S /\ DOMAIN inside = 1 .. Len(inside)
    BY <1>2, LenProperties, ElementOfSeq DEF S, inside
  <2> QED BY <2>1 DEF S
<1>4. V(r) \in Int /\ V(q) \in Int
  BY <1>3, SeriesRangeTyped
<1>5. keys[f] = << KeyText(r, idx), B(r) >> /\ keys[l] = << KeyText(q, idx), B(q) >>
  BY <1>3 DEF SeriesKeys
<1>6. B(r) = Bucket(V(r), start, s) /\ B(q) = Bucket(V(q), start, s)
  BY DEF BucketOf
<1>7. /\ \A i \in 1 .. a : idx[i] # 0 => row[i] = r[idx[i]]
      /\ row[a + 1] = Real(B(r))
  <2>1. IsRowFor(row, idx, x, st, f)
    BY DEF IsRowFor
  <2> HIDE DEF idx, row, r, B, inside, a
  <2>2. HasParts(row, idx, x, st, f)
    BY <2>1, SeriesRowParts
  <2> QED BY <2>2 DEF r, B, inside, a, HasParts
<1>8. InSeries(row, q, x, st) <=>
        /\ \A i \in 1 .. a : idx[i] # 0 => Text(row[i]) = Text(q[idx[i]])
        /\ row[a + 1][2] <= V(q) /\ V(q) < row[a + 1][2] + s
  BY <1>1 DEF InSeries
<1> HIDE DEF inside, keys, row, V, B, s, start, a, idx
<1>9. row[a + 1][2] = B(r)
  BY <1>7 DEF Real
<1>10. (B(r) <= V(q) /\ V(q) < B(r) + s) <=> B(r) = B(q)
  <2> DEFINE v == V(q)
             w == V(r)
  <2>1. v \in Int /\ w \in Int /\ B(q) = Bucket(v, start, s) /\ B(r) = Bucket(w, start, s)
    BY <1>4, <1>6
  <2> HIDE DEF v, w
  <2>2. /\ Bucket(v, start, s) <= v /\ v < Bucket(v, start, s) + s
        /\ \A y \in Int : Bucket(y, start, s) <= v /\ v < Bucket(y, start, s) + s => Bucket(y, start, s) = Bucket(v, start, s)
    BY <1>2, <2>1, Buckets
  <2>3. (Bucket(w, start, s) <= v /\ v < Bucket(w, start, s) + s) <=> Bucket(w, start, s) = Bucket(v, start, s)
    BY <2>1, <2>2
  <2> QED BY <2>1, <2>3 DEF v
<1>11. (\A i \in 1 .. a : idx[i] # 0 => Text(row[i]) = Text(q[idx[i]])) <=> KeyText(r, idx) = KeyText(q, idx)
  <2> DEFINE kr == KeyText(r, idx)
             kq == KeyText(q, idx)
  <2>1. /\ kr = [i \in 1 .. a |-> IF idx[i] = 0 THEN <<>> ELSE Text(r[idx[i]])]
        /\ kq = [i \in 1 .. a |-> IF idx[i] = 0 THEN <<>> ELSE Text(q[idx[i]])]
    BY <1>1 DEF KeyText
  <2> HIDE DEF kr, kq
  <2>2. kr = kq <=> \A i \in 1 .. a : kr[i] = kq[i]
    BY <2>1
  <2>3. \A i \in 1 .. a : kr[i] = kq[i] <=> (idx[i] # 0 => Text(row[i]) = Text(q[idx[i]]))
    BY <1>7, <2>1
  <2> QED BY <2>2, <2>3 DEF kr, kq
<1>12. keys[f] = keys[l] <=> KeyText(r, idx) = KeyText(q, idx) /\ B(r) = B(q)
  BY <1>5
<1> QED BY <1>8, <1>9, <1>10, <1>11, <1>12 DEF keys, row, inside

\* The rows inside a range.
InRange(x, st) == {j \in DOMAIN x.rows : /\ st.from <= ToFloat64(x.rows[j][AtTime(x, st)])
                                         /\ ToFloat64(x.rows[j][AtTime(x, st)]) < st.to}
LEMMA InsideRows ==
  ASSUME NEW x \in Result, NEW st \in Stages, AtTime(x, st) # 0, Ranged(st)
  PROVE  /\ Len(Inside(x, st)) = Cardinality(InRange(x, st)) /\ Len(Inside(x, st)) \in Nat /\ StepOf(st) = st.step
         /\ DOMAIN SeriesKeys(x, st) = 1 .. Len(Inside(x, st)) /\ DOMAIN Inside(x, st) = 1 .. Len(Inside(x, st))
         /\ \A j \in InRange(x, st) : \E l \in 1 .. Len(Inside(x, st)) : Inside(x, st)[l] = x.rows[j]
<1> DEFINE P == InRange(x, st)
           rows == x.rows
           inside == Inside(x, st)
<1>1. rows \in Seq(Wide(Len(x.cols)))
  BY ResultShape
<1>2. {st.from, st.to, st.step} \subseteq Int
  BY StagesAssumption DEF WellFormed
<1>3. RangeOf(x, st) = << st.from, st.to >> /\ StepOf(st) = st.step
  <2>1. ~ (st.step <= 0)
    BY <1>2 DEF Ranged
  <2> QED BY <2>1 DEF RangeOf, SeriesRange, StepOf, Ranged
<1>4. inside = Picked(rows, P)
  BY <1>3 DEF Inside, InRange
<1>5. P \subseteq DOMAIN rows
  BY DEF InRange
<1> HIDE DEF P, rows, inside
<1>6. /\ IsFiniteSet(P) /\ P \subseteq Nat /\ Cardinality(P) \in Nat
      /\ Picked(rows, P) \in Seq(Wide(Len(x.cols))) /\ Len(Picked(rows, P)) = Cardinality(P)
      /\ \A m \in 1 .. Cardinality(P) : Picked(rows, P)[m] = rows[Ascending(P)[m]]
  BY <1>1, <1>5, PickedRows
<1>7. DOMAIN inside = 1 .. Len(inside)
  BY <1>4, <1>6, LenProperties
<1>8. DOMAIN SeriesKeys(x, st) = 1 .. Len(inside)
  BY <1>7 DEF SeriesKeys, inside
<1>9. ASSUME NEW j \in P PROVE \E l \in 1 .. Len(inside) : inside[l] = rows[j]
  <2> DEFINE m == Cardinality({l \in P : l <= j})
  <2>1. m \in 1 .. Cardinality(P) /\ Ascending(P)[m] = j
    BY <1>6, AscendingPlaces
  <2> HIDE DEF m
  <2>2. inside[m] = rows[j] /\ m \in 1 .. Len(inside)
    BY <1>4, <1>6, <2>1
  <2> QED BY <2>2
<1> QED BY <1>3, <1>4, <1>6, <1>7, <1>8, <1>9 DEF P, rows, inside

\* A row inside the range is in one row of the answer.
LEMMA SeriesOnce ==
  ASSUME NEW x \in Result, NEW st \in Stages, AtTime(x, st) # 0, Ranged(st), NEW j \in InRange(x, st)
  PROVE  Cardinality({o \in DOMAIN SeriesRows(x, st) : InSeries(SeriesRows(x, st)[o], x.rows[j], x, st)}) = 1
<1> DEFINE inside == Inside(x, st)
           keys == SeriesKeys(x, st)
           heads == Firsts(keys)
           out == SeriesRows(x, st)
           m == Len(inside)
           O == {o \in DOMAIN out : InSeries(out[o], x.rows[j], x, st)}
<1>1. m \in Nat /\ DOMAIN keys = 1 .. m
  BY InsideRows
<1>2. PICK l \in 1 .. m : inside[l] = x.rows[j]
  BY InsideRows
<1>3. \A f \in 1 .. m : InSeries(SeriesRow(x, st, f), inside[l], x, st) <=> keys[f] = keys[l]
  BY InSeriesIs
<1>4. DOMAIN out = DOMAIN heads /\ \A o \in DOMAIN heads : out[o] = SeriesRow(x, st, heads[o])
  BY DEF SeriesRows
<1> HIDE DEF keys, m
<1>5. \A o \in DOMAIN heads : heads[o] \in 1 .. m
  BY <1>1, FirstsTyped
<1>6. /\ \E g \in DOMAIN heads : keys[heads[g]] = keys[l]
      /\ \A g, h \in DOMAIN heads : keys[heads[g]] = keys[heads[h]] => g = h
  BY <1>1, HeadsOnce
<1> HIDE DEF heads, out, inside
<1>7. PICK g \in DOMAIN heads : keys[heads[g]] = keys[l]
  BY <1>6
<1>8. O = {g}
  <2>1. \A o \in DOMAIN heads : InSeries(out[o], x.rows[j], x, st) <=> keys[heads[o]] = keys[l]
    BY <1>2, <1>3, <1>4, <1>5
  <2>2. \A o \in DOMAIN heads : keys[heads[o]] = keys[l] <=> o = g
    BY <1>6, <1>7
  <2> QED BY <1>4, <1>7, <2>1, <2>2
<1> HIDE DEF O
<1>9. Cardinality(O) = 1
  BY <1>8, FS_Singleton
<1> QED BY <1>9 DEF O, out

\* The counts of the answer are those of its groups.
LEMMA SeriesCounts ==
  ASSUME NEW x \in Result, NEW st \in Stages, AtTime(x, st) # 0, Ranged(st), Numbered(st)
  PROVE  Total([o \in DOMAIN SeriesRows(x, st) |-> Last(SeriesRows(x, st)[o])[2]]) = Cardinality(InRange(x, st)) * Unit
<1> DEFINE inside == Inside(x, st)
           keys == SeriesKeys(x, st)
           heads == Firsts(keys)
           out == SeriesRows(x, st)
           m == Len(inside)
           b == Len(st.aggs)
           xs == [o \in DOMAIN out |-> Last(out[o])[2]]
<1>1. m \in Nat /\ DOMAIN keys = 1 .. m /\ DOMAIN inside = 1 .. m /\ m = Cardinality(InRange(x, st))
  BY InsideRows
<1>2. Len(st.keys) \in Nat /\ b \in Nat \ {0}
  <2>1. Len(st.keys) \in Nat /\ b \in Nat
    BY NamesTyped
  <2>2. st.aggs \in Seq([name : STRING, fn : STRING, col : STRING])
    BY StagesAssumption DEF WellFormed
  <2>3. b # 0
    BY <2>1, <2>2, EmptySeq DEF Numbered
  <2> QED BY <2>1, <2>3
<1>3. \A rows : ComputeAggregate(st.aggs[b], rows, x.cols) = Whole(Len(rows))
  BY DEF Numbered, Last, ComputeAggregate
<1>4. inside \in Seq(Wide(Len(x.cols)))
  BY SeriesRangeTyped
<1>5. ASSUME NEW f \in 1 .. m PROVE Last(SeriesRow(x, st, f))[2] = Cardinality(Members(keys, f)) * Unit
  <2> DEFINE row == SeriesRow(x, st, f)
             idx == KeyIndex(st.keys, x.cols)
             group == GroupOf(inside, keys, f)
             a == Len(st.keys)
  <2>1. IsRowFor(row, idx, x, st, f)
    BY DEF IsRowFor
  <2> HIDE DEF row, idx
  <2>2. row \in Wide(a + 1 + b) /\ HasParts(row, idx, x, st, f)
    BY <2>1, SeriesRowParts
  <2>3. Len(row) = a + 1 + b
    BY <2>2 DEF Wide
  <2>4. row[a + 1 + b] = ComputeAggregate(st.aggs[b], group, x.cols)
    <3>1. b \in 1 .. b
      BY <1>2
    <3> QED BY <2>2, <3>1 DEF HasParts
  <2> HIDE DEF group, a
  <2>5. Last(row)[2] = Len(group) * Unit
    <3>1. Last(row) = Whole(Len(group))
      BY <1>3, <2>3, <2>4 DEF Last
    <3> QED BY <3>1 DEF Whole
  <2>6. Len(group) = Cardinality(Members(keys, f))
    <3> DEFINE M == Members(keys, f)
    <3>1. M \subseteq DOMAIN inside
      BY <1>1 DEF Members
    <3>2. group = Picked(inside, M)
      BY DEF group, GroupOf, Members
    <3> HIDE DEF M, inside
    <3>3. Len(Picked(inside, M)) = Cardinality(M)
      BY <1>4, <3>1, PickedRows
    <3> QED BY <3>2, <3>3 DEF M
  <2> QED BY <2>5, <2>6 DEF row
<1>6. DOMAIN out = DOMAIN heads /\ \A o \in DOMAIN heads : out[o] = SeriesRow(x, st, heads[o])
  BY DEF SeriesRows
<1> HIDE DEF keys, m
<1>7. Len(heads) \in Nat /\ DOMAIN heads = 1 .. Len(heads) /\ \A o \in DOMAIN heads : heads[o] \in 1 .. m
  BY <1>1, FirstsTyped
<1> HIDE DEF heads, out, inside
<1>8. \A S : S \subseteq 1 .. m => Cardinality(S) \in Nat
  <2>1. IsFiniteSet(1 .. m)
    BY FS_Interval, <1>1
  <2> QED BY <2>1, FS_Subset, FS_CardinalityType
<1>9. \A o \in 1 .. Len(heads) : xs[o] = Cardinality(Members(keys, heads[o])) * Unit
  BY <1>5, <1>6, <1>7
<1>10. \A o \in 1 .. Len(heads) : xs[o] \in Int
  <2> SUFFICES ASSUME NEW o \in 1 .. Len(heads) PROVE xs[o] \in Int
    OBVIOUS
  <2> DEFINE M == Members(keys, heads[o])
             c == Cardinality(M)
  <2>1. M \subseteq 1 .. m
    BY <1>1 DEF Members
  <2>2. c \in Nat
    BY <1>8, <2>1
  <2>3. xs[o] = c * Unit
    BY <1>9
  <2> HIDE DEF c, xs
  <2>4. c * Unit \in Int
    BY <2>2, UnitAssumption
  <2> QED BY <2>3, <2>4
<1>11. DOMAIN xs = 1 .. Len(heads) /\ xs = [o \in 1 .. Len(heads) |-> xs[o]]
  BY <1>6, <1>7
<1> HIDE DEF xs
<1>12. xs \in Seq(Int) /\ Len(xs) = Len(heads)
  BY <1>7, <1>10, <1>11, MadeSeq
<1>13. Unit \in Int
  BY UnitAssumption
<1>14. Total(xs) = m * Unit
  BY <1>1, <1>9, <1>12, <1>13, GroupsAddUp DEF heads
<1> QED BY <1>1, <1>14 DEF xs, out

\* Every row inside the range of a make-series is in one bucket of its keys, the bucket its
\* time falls into, and the counts add up to the rows inside, whatever the range, the step
\* and the rows: no row is counted twice at a boundary (postproc_register.go:109-128).
THEOREM SeriesIsPartition == Spec => SeriesPartitions
<1> DEFINE Want ==
       At("MakeSeries") /\ Numbered(Stage) /\ Ranged(Stage) /\ ColIndex(res.cols, Stage.on) # 0 =>
       LET T(r) == ToFloat64(r[ColIndex(res.cols, Stage.on)])
           by   == KeyIndex(Stage.keys, res.cols)
           from == Len(Stage.keys) + 1
           inside == {j \in DOMAIN res.rows : Stage.from <= T(res.rows[j]) /\ T(res.rows[j]) < Stage.to}
           Holds(out, r) == /\ \A i \in DOMAIN by : by[i] # 0 => Text(out[i]) = Text(r[by[i]])
                            /\ out[from][2] <= T(r) /\ T(r) < out[from][2] + Stage.step
       IN  /\ \A j \in inside :
                Cardinality({o \in DOMAIN res'.rows : Holds(res'.rows[o], res.rows[j])}) = 1
           /\ Total([o \in DOMAIN res'.rows |-> Last(res'.rows[o])[2]]) = Cardinality(inside) * Unit
<1>1. TypeOK /\ [Next]_vars => [Want]_vars
  <2> SUFFICES ASSUME TypeOK, Next, At("MakeSeries"), Numbered(Stage), Ranged(Stage), AtTime(res, Stage) # 0
               PROVE  Want
    BY DEF AtTime
  <2> DEFINE out == SeriesRows(res, Stage)
  <2>1. res' = MakeSeriesRows(res, Stage)
    BY DEF Next, At, Apply, ExecMvExpand, ExecMvApply, ExecParse, ExecMakeSeries, ExecAggregate, ExecLimit, ExecProject, PassThrough
  <2>2. Stage \in Stages
    BY StageTyped DEF At
  <2>3. res \in Result
    BY DEF TypeOK
  <2>4. res'.rows = out
    BY <2>1, SeriesIs
  <2>5. StepOf(Stage) = Stage.step
    BY <2>2, <2>3, InsideRows
  <2>6. \A j \in InRange(res, Stage) : Cardinality({o \in DOMAIN out : InSeries(out[o], res.rows[j], res, Stage)}) = 1
    BY <2>2, <2>3, SeriesOnce
  <2>7. Total([o \in DOMAIN out |-> Last(out[o])[2]]) = Cardinality(InRange(res, Stage)) * Unit
    BY <2>2, <2>3, SeriesCounts
  <2> HIDE DEF out
  <2> QED BY <2>4, <2>5, <2>6, <2>7 DEF InRange, InSeries, AtTime
<1> QED BY <1>1, TypeCorrect, PTL DEF Spec, SeriesPartitions

\* Numbers at the places in T, 0 elsewhere.
Mask(T, w, n) == [j \in 1 .. n |-> IF j \in T THEN w[j] ELSE 0]

LEMMA MaskTyped ==
  ASSUME NEW n \in Nat, NEW w \in [1 .. n -> Int], NEW T
  PROVE  /\ Mask(T, w, n) \in Seq(Int) /\ Len(Mask(T, w, n)) = n
         /\ \A j \in 1 .. n : Mask(T, w, n)[j] = IF j \in T THEN w[j] ELSE 0
<1> DEFINE f == Mask(T, w, n)
<1>1. DOMAIN f = 1 .. n /\ f = [j \in 1 .. n |-> f[j]] /\ \A j \in 1 .. n : f[j] = IF j \in T THEN w[j] ELSE 0
  BY DEF Mask
<1>2. \A j \in 1 .. n : f[j] \in Int
  BY <1>1
<1> HIDE DEF f
<1>3. f \in Seq(Int) /\ Len(f) = n
  BY <1>1, <1>2, MadeSeq
<1> QED BY <1>1, <1>3 DEF f

\* The total over no places.
LEMMA MaskNone ==
  ASSUME NEW n \in Nat, NEW w \in [1 .. n -> Int]
  PROVE  Total(Mask({}, w, n)) = 0
<1> DEFINE xs == Mask({}, w, n)
<1>1. xs \in Seq(Int) /\ Len(xs) = n /\ \A j \in 1 .. n : xs[j] = 0
  BY MaskTyped
<1> HIDE DEF xs
<1>2. PICK g : Adds(g, xs) /\ Total(xs) = g[n]
  BY <1>1, TotalAdds
<1>3. g[0] = 0 /\ \A m \in 0 .. n - 1 : g[m + 1] = g[m] + xs[m + 1]
  BY <1>1, <1>2 DEF Adds
<1> DEFINE D == {d \in Nat : d <= n => g[d] = 0}
<1>4. 0 \in D
  BY <1>3
<1>5. ASSUME NEW d \in Nat, d \in D PROVE d + 1 \in D
  <2> SUFFICES ASSUME d + 1 <= n PROVE g[d + 1] = 0
    OBVIOUS
  <2>1. d \in 0 .. n - 1 /\ d + 1 \in 1 .. n /\ g[d] = 0
    BY <1>5
  <2>2. g[d + 1] = g[d] + xs[d + 1] /\ xs[d + 1] = 0
    BY <1>1, <1>3, <2>1
  <2> QED BY <2>1, <2>2
<1>6. Nat \subseteq D
  <2> HIDE DEF D
  <2> QED BY <1>4, <1>5, SetInduction
<1>7. n \in D
  <2> HIDE DEF D
  <2> QED BY <1>6
<1> QED BY <1>2, <1>7 DEF xs

\* The total over one place more.
OnePlaceMore(U, T, e) == e \notin T /\ U = T \cup {e}

LEMMA MaskMore ==
  ASSUME NEW n \in Nat, NEW w \in [1 .. n -> Int], NEW T, NEW e \in 1 .. n, NEW U, OnePlaceMore(U, T, e)
  PROVE  Total(Mask(U, w, n)) = Total(Mask(T, w, n)) + w[e] /\ Total(Mask(T, w, n)) \in Int
<1> DEFINE xs == Mask(T, w, n)
           ys == Mask(U, w, n)
<1>1. xs \in Seq(Int) /\ Len(xs) = n /\ \A j \in 1 .. n : xs[j] = IF j \in T THEN w[j] ELSE 0
  BY MaskTyped
<1>2. ys \in Seq(Int) /\ Len(ys) = n /\ \A j \in 1 .. n : ys[j] = IF j \in U THEN w[j] ELSE 0
  BY MaskTyped
<1> HIDE DEF xs, ys
<1>3. \A j \in 1 .. n : xs[j] \in Int /\ ys[j] = IF j = e THEN w[e] ELSE xs[j]
  <2>1. \A j : j \in U <=> j \in T \/ j = e
    BY DEF OnePlaceMore
  <2>2. \A j \in 1 .. n : w[j] \in Int
    OBVIOUS
  <2>3. e \notin T
    BY DEF OnePlaceMore
  <2>4. ASSUME NEW j \in 1 .. n PROVE xs[j] \in Int /\ ys[j] = IF j = e THEN w[e] ELSE xs[j]
    <3>1. xs[j] = (IF j \in T THEN w[j] ELSE 0) /\ ys[j] = (IF j \in U THEN w[j] ELSE 0) /\ w[j] \in Int
      BY <1>1, <1>2, <2>2
    <3>2. CASE j = e
      BY <2>1, <2>3, <3>1, <3>2
    <3>3. CASE j # e
      BY <2>1, <3>1, <3>3
    <3> QED BY <3>2, <3>3
  <2> QED BY <2>4
<1>4. xs[e] = 0
  BY <1>1 DEF OnePlaceMore
<1>5. PICK g : Adds(g, xs) /\ Total(xs) = g[n]
  BY <1>1, TotalAdds
<1>6. PICK h : Adds(h, ys) /\ Total(ys) = h[n]
  BY <1>2, TotalAdds
<1>7. /\ g \in [0 .. n -> Int] /\ g[0] = 0 /\ \A m \in 0 .. n - 1 : g[m + 1] = g[m] + xs[m + 1]
      /\ h[0] = 0 /\ \A m \in 0 .. n - 1 : h[m + 1] = h[m] + ys[m + 1]
  BY <1>1, <1>2, <1>5, <1>6 DEF Adds
<1>8. w[e] \in Int
  OBVIOUS
<1> DEFINE D == {d \in Nat : d <= n => h[d] = g[d] + (IF e <= d THEN w[e] ELSE 0)}
<1>9. 0 \in D
  <2>1. ~ (e <= 0) /\ h[0] = g[0] + 0
    BY <1>7
  <2> QED BY <2>1
<1>10. ASSUME NEW d \in Nat, d \in D PROVE d + 1 \in D
  <2> SUFFICES ASSUME d + 1 <= n PROVE h[d + 1] = g[d + 1] + (IF e <= d + 1 THEN w[e] ELSE 0)
    OBVIOUS
  <2>1. d \in 0 .. n - 1 /\ d \in 0 .. n /\ d + 1 \in 1 .. n /\ h[d] = g[d] + (IF e <= d THEN w[e] ELSE 0)
    BY <1>10
  <2>2. g[d + 1] = g[d] + xs[d + 1] /\ h[d + 1] = h[d] + ys[d + 1] /\ g[d] \in Int
    BY <1>7, <2>1
  <2>3. xs[d + 1] \in Int /\ ys[d + 1] = IF d + 1 = e THEN w[e] ELSE xs[d + 1]
    BY <1>3, <2>1
  <2>4. CASE d + 1 = e
    <3>1. ys[d + 1] = w[e] /\ xs[d + 1] = 0 /\ ~ (e <= d) /\ e <= d + 1
      BY <1>4, <2>3, <2>4
    <3> QED BY <1>8, <2>1, <2>2, <3>1
  <2>5. CASE d + 1 # e
    <3>1. ys[d + 1] = xs[d + 1] /\ (e <= d + 1 <=> e <= d)
      BY <2>3, <2>5
    <3> QED BY <1>8, <2>1, <2>2, <2>3, <3>1
  <2> QED BY <2>4, <2>5
<1>11. Nat \subseteq D
  <2> HIDE DEF D
  <2> QED BY <1>9, <1>10, SetInduction
<1>12. n \in D
  <2> HIDE DEF D
  <2> QED BY <1>11
<1>13. h[n] = g[n] + w[e] /\ g[n] \in Int
  BY <1>7, <1>12
<1> QED BY <1>5, <1>6, <1>13 DEF xs, ys

\* p counts a set up, each element once.
Enumerates(p, n, S) ==
  /\ \A d \in 1 .. n : p[d] \in S
  /\ \A c, d \in 1 .. n : p[c] = p[d] => c = d
  /\ \A s \in S : \E d \in 1 .. n : p[d] = s

\* A sum does not depend on the order in which places are counted up.
LEMMA EnumeratedSum ==
  ASSUME NEW n \in Nat, NEW w \in [1 .. n -> Int], NEW S, S \subseteq 1 .. n,
         NEW xs \in Seq(Int), NEW p, Enumerates(p, Len(xs), S), \A d \in 1 .. Len(xs) : xs[d] = w[p[d]]
  PROVE  Total(xs) = Total(Mask(S, w, n))
<1> DEFINE m == Len(xs)
           T(d) == {p[c] : c \in 1 .. d}
<1>1. m \in Nat
  BY LenProperties
<1>2. PICK g : Adds(g, xs) /\ Total(xs) = g[m]
  BY TotalAdds
<1>3. g[0] = 0 /\ \A d \in 0 .. m - 1 : g[d + 1] = g[d] + xs[d + 1]
  BY <1>2 DEF Adds
<1>4. \A d \in 1 .. m : xs[d] = w[p[d]]
  OBVIOUS
<1>5. /\ \A d \in 1 .. m : p[d] \in S
      /\ \A c, d \in 1 .. m : p[c] = p[d] => c = d
      /\ \A s \in S : \E d \in 1 .. m : p[d] = s
  BY DEF Enumerates
<1> HIDE DEF m
<1> DEFINE D == {d \in Nat : d <= m => g[d] = Total(Mask(T(d), w, n))}
<1>6. 0 \in D
  <2>1. T(0) = {}
    OBVIOUS
  <2> HIDE DEF T
  <2>2. Total(Mask(T(0), w, n)) = 0
    BY <2>1, MaskNone
  <2> QED BY <1>3, <2>2
<1>7. ASSUME NEW d \in Nat, d \in D PROVE d + 1 \in D
  <2> SUFFICES ASSUME d + 1 <= m PROVE g[d + 1] = Total(Mask(T(d + 1), w, n))
    OBVIOUS
  <2> DEFINE e == p[d + 1]
             A == T(d)
             B == T(d + 1)
  <2>1. d \in 0 .. m - 1 /\ d + 1 \in 1 .. m /\ g[d] = Total(Mask(A, w, n))
    BY <1>1, <1>7
  <2>2. g[d + 1] = g[d] + xs[d + 1] /\ xs[d + 1] = w[e]
    BY <1>3, <1>4, <2>1
  <2>3. e \in 1 .. n
    BY <1>5, <2>1
  <2>4. e \notin A
    <3> SUFFICES ASSUME NEW c \in 1 .. d, p[c] = p[d + 1] PROVE FALSE
      OBVIOUS
    <3> DEFINE l == d + 1
    <3>1. c \in 1 .. m /\ l \in 1 .. m /\ c # l /\ p[c] = p[l]
      BY <1>1, <2>1
    <3> HIDE DEF l
    <3> QED BY <1>5, <3>1
  <2>5. B = A \cup {e}
    <3>1. \A c : c \in 1 .. d + 1 <=> c \in 1 .. d \/ c = d + 1
      OBVIOUS
    <3> QED BY <3>1
  <2> HIDE DEF A, B, e
  <2>6. Total(Mask(B, w, n)) = Total(Mask(A, w, n)) + w[e]
    <3>1. OnePlaceMore(B, A, e)
      BY <2>4, <2>5 DEF OnePlaceMore
    <3> QED BY <2>3, <3>1, MaskMore
  <2>7. g[d + 1] = Total(Mask(B, w, n))
    BY <2>1, <2>2, <2>6
  <2> QED BY <2>7 DEF B
<1>8. Nat \subseteq D
  <2> HIDE DEF D
  <2> QED BY <1>6, <1>7, SetInduction
<1>9. m \in D
  <2> HIDE DEF D
  <2> QED BY <1>1, <1>8
<1>10. T(m) = S
  <2>1. \A s \in S : s \in T(m)
    BY <1>5
  <2>2. \A s \in T(m) : s \in S
    BY <1>5
  <2> HIDE DEF T
  <2> QED BY <2>1, <2>2
<1>11. g[m] = Total(Mask(T(m), w, n))
  BY <1>1, <1>9
<1> HIDE DEF T
<1> QED BY <1>2, <1>10, <1>11

\* What counts a set up says how large it is.
LEMMA EnumeratedSize ==
  ASSUME NEW n \in Nat, NEW S, NEW p, Enumerates(p, n, S)
  PROVE  IsFiniteSet(S) /\ Cardinality(S) = n
<1> DEFINE f == [d \in 1 .. n |-> p[d]]
<1>1. f \in [1 .. n -> S] /\ (\A c, d \in 1 .. n : f[c] = f[d] => c = d) /\ \A s \in S : \E d \in 1 .. n : f[d] = s
  BY DEF Enumerates
<1> HIDE DEF f
<1>2. f \in Bijection(1 .. n, S)
  BY <1>1, Fun_IsBij
<1>3. ExistsBijection(1 .. n, S)
  BY <1>2 DEF ExistsBijection
<1>4. IsFiniteSet(1 .. n) /\ Cardinality(1 .. n) = n
  BY FS_Interval
<1> QED BY <1>3, <1>4, FS_Bijection

\* SetToSeq counts its set up.
LEMMA SequenceOfSet ==
  ASSUME NEW S, IsFiniteSet(S), S \subseteq Nat
  PROVE  /\ SetToSeq(S) \in Seq(Nat) /\ Len(SetToSeq(S)) = Cardinality(S) /\ Cardinality(S) \in Nat
         /\ Enumerates(SetToSeq(S), Cardinality(S), S)
<1> DEFINE c == Cardinality(S)
           q == SetToSeq(S)
<1>1. c \in Nat /\ ExistsBijection(1 .. c, S)
  BY FS_CardinalityType
<1> HIDE DEF c
<1>2. PICK f : f \in Bijection(1 .. c, S)
  BY <1>1 DEF ExistsBijection
<1>3. f \in [1 .. c -> S] /\ IsInjective(f)
  BY <1>2 DEF Bijection, Injection
<1>4. q \in [1 .. c -> S] /\ IsInjective(q)
  BY <1>3 DEF SetToSeq, c
<1> HIDE DEF q
<1>5. \A a, b \in 1 .. c : q[a] = q[b] => a = b
  BY <1>4 DEF IsInjective
<1>6. q \in Injection(1 .. c, S)
  BY <1>4 DEF Injection
<1>7. IsFiniteSet(1 .. c) /\ Cardinality(1 .. c) = c
  BY <1>1, FS_Interval
<1>8. q \in Surjection(1 .. c, S)
  BY <1>6, <1>7, FS_Injection DEF c
<1>9. \A s \in S : \E d \in 1 .. c : q[d] = s
  BY <1>8 DEF Surjection
<1>10. q \in Seq(Nat) /\ Len(q) = c
  <2>1. q \in [1 .. c -> Nat]
    BY <1>4
  <2>2. DOMAIN q = 1 .. c /\ q = [d \in 1 .. c |-> q[d]] /\ \A d \in 1 .. c : q[d] \in Nat
    BY <2>1
  <2> QED BY <1>1, <2>2, MadeSeq
<1> QED BY <1>1, <1>4, <1>5, <1>9, <1>10 DEF Enumerates, q, c

\* SQL's sum takes the places in some order.
SummedInOrder(rows, at, q) == FoldLeft(LAMBDA n, j : n + rows[j][at][2], 0, q)

InOrder(ys, rows, at, q) == Len(ys) = Len(q) /\ \A d \in 1 .. Len(q) : ys[d] = rows[q[d]][at][2]

LEMMA OrderedSum ==
  ASSUME NEW rows, NEW at, NEW q \in Seq(Nat), NEW ys \in Seq(Int), InOrder(ys, rows, at, q)
  PROVE  SummedInOrder(rows, at, q) = Total(ys)
<1> DEFINE n == Len(q)
           T == [d \in 1 .. n |-> [v \in Int |-> v + ys[d]]]
           Sums(f) == f = [S \in SUBSET (1 .. n) |->
                             IF S = {} THEN 0 ELSE f[S \ {Max(S)}] + rows[q[Max(S)]][at][2]]
           s == CHOOSE f : Sums(f)
<1>1. n \in Nat /\ DOMAIN q = 1 .. n /\ (\A d \in 1 .. n : ys[d] \in Int) /\ \A d \in 1 .. n : ys[d] = rows[q[d]][at][2]
  BY LenProperties, ElementOfSeq DEF InOrder
<1>2. T \in [1 .. n -> [Int -> Int]]
  BY <1>1
<1>3. 0 \in Int
  OBVIOUS
<1>4. PICK f \in [SUBSET (1 .. n) -> Int] : FoldsOver(f, n, 0, T)
  <2> HIDE DEF T, n
  <2> QED BY <1>1, <1>2, <1>3, FoldOfSteps
<1>5. Sums(f)
  <2>1. ASSUME NEW S \in SUBSET (1 .. n), S # {}
        PROVE  T[Max(S)][f[S \ {Max(S)}]] = f[S \ {Max(S)}] + rows[q[Max(S)]][at][2]
    <3>1. Max(S) \in 1 .. n
      BY <1>1, <2>1, LastPlace
    <3>2. f[S \ {Max(S)}] \in Int
      OBVIOUS
    <3> DEFINE m == Max(S)
               v == f[S \ {m}]
    <3>3. m \in 1 .. n /\ v \in Int
      BY <3>1, <3>2
    <3> HIDE DEF m, v
    <3>4. T[m][v] = v + rows[q[m]][at][2]
      BY <1>1, <3>3
    <3> QED BY <3>4 DEF m, v
  <2> HIDE DEF T, n
  <2> QED BY <1>4, <2>1 DEF FoldsOver
<1>6. Sums(s)
  <2> HIDE DEF Sums
  <2> QED BY <1>5
<1>7. SummedInOrder(rows, at, q) = s[1 .. n]
  BY <1>1, SMT DEF SummedInOrder, FoldLeft, MapThenFoldSet
<1> HIDE DEF s
<1>8. s[{}] = 0
  BY <1>6
<1>9. ASSUME NEW S \in SUBSET (1 .. n), S # {}, s[S \ {Max(S)}] \in Int
      PROVE  s[S] = T[Max(S)][s[S \ {Max(S)}]]
  <2>1. Max(S) \in 1 .. n
    BY <1>1, <1>9, LastPlace
  <2>2. s[S] = s[S \ {Max(S)}] + rows[q[Max(S)]][at][2]
    <3> HIDE DEF n
    <3> QED BY <1>6, <1>9
  <2> DEFINE m == Max(S)
             v == s[S \ {m}]
  <2>3. m \in 1 .. n /\ v \in Int /\ s[S] = v + rows[q[m]][at][2]
    BY <1>9, <2>1, <2>2
  <2> HIDE DEF m, v
  <2>4. s[S] = T[m][v]
    BY <1>1, <2>3
  <2> QED BY <2>4 DEF m, v
<1> DEFINE g == [m \in 0 .. n |-> s[1 .. m]]
<1>10. Iterates(g, Int, n, 0, T)
  <2>1. FoldsIn(s, Int, n, 0, T)
    <3> HIDE DEF T, n
    <3> QED BY <1>8, <1>9 DEF FoldsIn
  <2> HIDE DEF T, n
  <2>2. g = [m \in 0 .. n |-> s[1 .. m]]
    OBVIOUS
  <2> HIDE DEF g
  <2> QED BY <1>1, <1>2, <1>3, <2>1, <2>2, FoldIterates
<1>11. g[n] = s[1 .. n]
  BY <1>1
<1> HIDE DEF g
<1>12. /\ g \in [0 .. n -> Int] /\ g[0] = 0
       /\ \A m \in 0 .. n - 1 : g[m + 1] = T[m + 1][g[m]]
  <2> HIDE DEF T, n
  <2> QED BY <1>1, <1>10 DEF Iterates
<1>13. \A m \in 0 .. n - 1 : g[m + 1] = g[m] + ys[m + 1]
  <2> SUFFICES ASSUME NEW m \in 0 .. n - 1 PROVE g[m + 1] = g[m] + ys[m + 1]
    OBVIOUS
  <2>1. g[m] \in Int /\ m + 1 \in 1 .. n
    BY <1>1, <1>12
  <2>2. T[m + 1][g[m]] = g[m] + ys[m + 1]
    BY <2>1
  <2> QED BY <1>12, <2>2
<1>14. PICK h : Adds(h, ys) /\ Total(ys) = h[n]
  BY TotalAdds DEF InOrder
<1>15. h[0] = 0 /\ \A m \in 0 .. n - 1 : h[m + 1] = h[m] + ys[m + 1]
  BY <1>14 DEF Adds, InOrder
<1> HIDE DEF T, n
<1> DEFINE D == {d \in Nat : d <= n => g[d] = h[d]}
<1>16. 0 \in D
  BY <1>12, <1>15
<1>17. ASSUME NEW d \in Nat, d \in D PROVE d + 1 \in D
  <2> SUFFICES ASSUME d + 1 <= n PROVE g[d + 1] = h[d + 1]
    OBVIOUS
  <2>1. d \in 0 .. n - 1 /\ g[d] = h[d]
    BY <1>1, <1>17
  <2> QED BY <1>13, <1>15, <2>1
<1>18. Nat \subseteq D
  <2> HIDE DEF D
  <2> QED BY <1>16, <1>17, SetInduction
<1>19. n \in D
  <2> HIDE DEF D
  <2> QED BY <1>1, <1>18
<1> QED BY <1>1, <1>7, <1>11, <1>14, <1>19

\* The rows with a value at a column, among those at some places.
WithValue(rows, at, P) == {j \in P : rows[j][at] # Null}

\* p counts up the places of the group's rows that have a value.
CountsUp(p, group, at, rows, P) ==
  /\ Enumerates(p, Len(SomeRows(group, at)), WithValue(rows, at, P))
  /\ \A d \in 1 .. Len(SomeRows(group, at)) : SomeRows(group, at)[d] = rows[p[d]]

LEMMA TwicePicked ==
  ASSUME NEW S, NEW rows \in Seq(S), NEW at, NEW P, P \subseteq DOMAIN rows, NEW group, group = Picked(rows, P)
  PROVE  /\ \E p : CountsUp(p, group, at, rows, P)
         /\ Len(SomeRows(group, at)) = Cardinality({j \in DOMAIN group : group[j][at] # Null})
<1> DEFINE Q == {j \in DOMAIN group : group[j][at] # Null}
           A == Ascending(P)
           B == Ascending(Q)
           c == Cardinality(P)
           m == Cardinality(Q)
           some == SomeRows(group, at)
           p == [d \in 1 .. m |-> A[B[d]]]
<1>1. IsFiniteSet(P) /\ P \subseteq Nat /\ c \in Nat /\ group \in Seq(S) /\ Len(group) = c
  BY PickedRows
<1>2. \A n \in 1 .. c : A[n] \in P /\ group[n] = rows[A[n]]
  BY PickedRows
<1>3. (\A q \in P : \E n \in 1 .. c : A[n] = q) /\ \A i, n \in 1 .. c : i < n <=> A[i] < A[n]
  BY <1>1, AscendingPlaces
<1>4. DOMAIN group = 1 .. c
  BY <1>1, LenProperties
<1>5. Q \subseteq DOMAIN group /\ \A n : n \in Q <=> n \in 1 .. c /\ group[n][at] # Null
  BY <1>4
<1>6. some = Picked(group, Q)
  BY DEF SomeRows
<1> HIDE DEF Q, A, c
<1>7. IsFiniteSet(Q) /\ Q \subseteq Nat /\ m \in Nat /\ Len(some) = m
  BY <1>1, <1>5, <1>6, PickedRows
<1>8. \A d \in 1 .. m : B[d] \in Q /\ some[d] = group[B[d]]
  BY <1>1, <1>5, <1>6, PickedRows
<1>9. (\A q \in Q : \E d \in 1 .. m : B[d] = q) /\ \A i, n \in 1 .. m : i < n <=> B[i] < B[n]
  BY <1>7, AscendingPlaces
<1> HIDE DEF B, m, some
<1>10. \A d \in 1 .. m : p[d] = A[B[d]] /\ B[d] \in 1 .. c /\ group[B[d]][at] # Null
  BY <1>5, <1>8
<1> HIDE DEF p
<1>11. ASSUME NEW d \in 1 .. m PROVE p[d] \in WithValue(rows, at, P) /\ some[d] = rows[p[d]]
  <2> DEFINE b == B[d]
  <2>1. b \in 1 .. c /\ group[b][at] # Null /\ p[d] = A[b] /\ some[d] = group[b]
    BY <1>8, <1>10
  <2> HIDE DEF b
  <2>2. A[b] \in P /\ group[b] = rows[A[b]]
    BY <1>2, <2>1
  <2> QED BY <2>1, <2>2 DEF WithValue
<1>12. ASSUME NEW i \in 1 .. m, NEW d \in 1 .. m, p[i] = p[d] PROVE i = d
  <2> DEFINE a == B[i]
             b == B[d]
  <2>1. a \in 1 .. c /\ b \in 1 .. c /\ A[a] = A[b]
    BY <1>10, <1>12
  <2>2. A[a] \in Nat /\ A[b] \in Nat
    BY <1>1, <1>2, <2>1
  <2>3. a = b
    <3> HIDE DEF a, b
    <3> QED BY <1>1, <1>3, <2>1, <2>2
  <2>4. ~ (i < d) /\ ~ (d < i)
    BY <1>1, <1>9, <2>1, <2>3
  <2> QED BY <1>7, <2>4
<1>13. ASSUME NEW q \in WithValue(rows, at, P) PROVE \E d \in 1 .. m : p[d] = q
  <2>1. q \in P /\ rows[q][at] # Null
    BY DEF WithValue
  <2>2. PICK n \in 1 .. c : A[n] = q
    BY <1>3, <2>1
  <2>3. n \in Q
    BY <1>2, <1>5, <2>1, <2>2
  <2>4. PICK d \in 1 .. m : B[d] = n
    BY <1>9, <2>3
  <2> QED BY <1>10, <2>2, <2>4
<1>14. Enumerates(p, m, WithValue(rows, at, P))
  BY <1>11, <1>12, <1>13 DEF Enumerates
<1>15. CountsUp(p, group, at, rows, P)
  BY <1>7, <1>11, <1>14 DEF CountsUp, some
<1> QED BY <1>7, <1>15 DEF m, some, Q

\* A column of numbers and nulls.
NumbersOrNull(rows, at) == \A j \in DOMAIN rows : rows[j][at] = Null \/ IsNumber(rows[j][at])

\* Some places, the numbers there, and their total, least and greatest, as SQL has them.
SqlSum(rows, at, P)   == SummedInOrder(rows, at, SetToSeq(WithValue(rows, at, P)))
ValuesAt(rows, at, P) == {rows[j][at][2] : j \in WithValue(rows, at, P)}
SqlLeast(rows, at, P) == CHOOSE u \in ValuesAt(rows, at, P) : \A j \in WithValue(rows, at, P) : u <= rows[j][at][2]
SqlMost(rows, at, P)  == CHOOSE u \in ValuesAt(rows, at, P) : \A j \in WithValue(rows, at, P) : u >= rows[j][at][2]

SqlCases(agg, rows, at, P, some, v) ==
  /\ agg.fn = "count" => v = Real((IF agg.col = "" THEN Cardinality(P) ELSE Cardinality(some)) * Unit)
  /\ agg.fn # "count" /\ some = {} => v = Null
  /\ agg.fn = "sum" /\ some # {} => v = Real(SqlSum(rows, at, P))
  /\ agg.fn = "avg" /\ some # {} => v = Real(SqlSum(rows, at, P) \div Cardinality(some))
  /\ agg.fn = "min" /\ some # {} => v = Real(SqlLeast(rows, at, P))
  /\ agg.fn = "max" /\ some # {} => v = Real(SqlMost(rows, at, P))

LEMMA SqlAggregateIs ==
  ASSUME NEW agg, NEW rows, NEW at, NEW P
  PROVE  SqlCases(agg, rows, at, P, WithValue(rows, at, P), SqlAggregate(agg, rows, at, P))
<1>1. agg.fn = "count" =>
        SqlAggregate(agg, rows, at, P)
          = Real((IF agg.col = "" THEN Cardinality(P) ELSE Cardinality(WithValue(rows, at, P))) * Unit)
  BY DEF SqlAggregate, WithValue
<1>2. agg.fn # "count" /\ WithValue(rows, at, P) = {} => SqlAggregate(agg, rows, at, P) = Null
  BY DEF SqlAggregate, WithValue
<1>3. agg.fn = "sum" /\ WithValue(rows, at, P) # {} => SqlAggregate(agg, rows, at, P) = Real(SqlSum(rows, at, P))
  BY DEF SqlAggregate, WithValue, SqlSum, SummedInOrder
<1>4. agg.fn = "avg" /\ WithValue(rows, at, P) # {} =>
        SqlAggregate(agg, rows, at, P) = Real(SqlSum(rows, at, P) \div Cardinality(WithValue(rows, at, P)))
  BY DEF SqlAggregate, WithValue, SqlSum, SummedInOrder
<1>5. agg.fn = "min" /\ WithValue(rows, at, P) # {} => SqlAggregate(agg, rows, at, P) = Real(SqlLeast(rows, at, P))
  BY DEF SqlAggregate, WithValue, SqlLeast, ValuesAt
<1>6. agg.fn = "max" /\ WithValue(rows, at, P) # {} => SqlAggregate(agg, rows, at, P) = Real(SqlMost(rows, at, P))
  BY DEF SqlAggregate, WithValue, SqlMost, ValuesAt
<1> QED BY <1>1, <1>2, <1>3, <1>4, <1>5, <1>6 DEF SqlCases

\* The numbers of a group are those at its places: as many, of the same total, and the
\* least and the greatest are the same.
SameNumbers(xs, rows, at, P) ==
  /\ Len(xs) = Cardinality(WithValue(rows, at, P))
  /\ xs = <<>> <=> WithValue(rows, at, P) = {}
  /\ Total(xs) = SqlSum(rows, at, P)
  /\ xs # <<>> => Min(Range(xs)) = SqlLeast(rows, at, P) /\ Max(Range(xs)) = SqlMost(rows, at, P)

LEMMA GroupNumbers ==
  ASSUME NEW n \in Nat, NEW rows \in Seq(Wide(n)), NEW at \in 1 .. n, NumbersOrNull(rows, at),
         NEW P, P \subseteq DOMAIN rows, NEW group, group = Picked(rows, P)
  PROVE  SameNumbers(NumbersAt(SomeRows(group, at), at), rows, at, P)
<1> DEFINE W == WithValue(rows, at, P)
           some == SomeRows(group, at)
           xs == NumbersAt(some, at)
           N == Len(rows)
           m == Len(xs)
           w == [j \in 1 .. N |-> ToFloat64(rows[j][at])]
           q == SetToSeq(W)
           ys == [d \in 1 .. Len(q) |-> ToFloat64(rows[q[d]][at])]
<1>1. N \in Nat /\ DOMAIN rows = 1 .. N
  BY LenProperties
<1>2. ASSUME NEW j \in 1 .. N PROVE ToFloat64(rows[j][at]) \in Int
  <2>1. rows[j][at] \in Value
    BY <1>1, ColumnTyped
  <2> QED BY <2>1, ReadValues
<1>3. ASSUME NEW j \in W PROVE j \in 1 .. N /\ ToFloat64(rows[j][at]) = rows[j][at][2]
  <2>1. j \in DOMAIN rows /\ rows[j][at] # Null
    BY DEF WithValue
  <2>2. IsNumber(rows[j][at])
    BY <2>1 DEF NumbersOrNull
  <2> QED BY <1>1, <2>1, <2>2 DEF ToFloat64
<1>4. w \in [1 .. N -> Int] /\ \A j \in 1 .. N : w[j] = ToFloat64(rows[j][at])
  BY <1>2
<1>5. W \subseteq 1 .. N /\ W \subseteq Nat
  BY <1>1, <1>3
<1>6. group \in Seq(Wide(n))
  <2> DEFINE S == Wide(n)
  <2> HIDE DEF S
  <2>1. rows \in Seq(S)
    BY DEF S
  <2>2. Picked(rows, P) \in Seq(S)
    BY <2>1, PickedRows
  <2> QED BY <2>2 DEF S
<1>7. PICK p : CountsUp(p, group, at, rows, P)
  BY TwicePicked
<1>8. some \in Seq(Wide(n))
  <2> DEFINE S == Wide(n)
             Q == {j \in DOMAIN group : group[j][at] # Null}
  <2>1. Q \subseteq DOMAIN group
    OBVIOUS
  <2> HIDE DEF S, Q
  <2>2. group \in Seq(S)
    BY <1>6 DEF S
  <2>3. Picked(group, Q) \in Seq(S)
    BY <2>1, <2>2, PickedRows
  <2> QED BY <2>3 DEF S, Q, SomeRows
<1> HIDE DEF some
<1>9. xs \in Seq(Int) /\ m = Len(some)
  BY <1>8, NumbersTyped
<1>10. m \in Nat /\ DOMAIN xs = 1 .. m /\ DOMAIN some = 1 .. m
  BY <1>8, <1>9, LenProperties
<1>11. Enumerates(p, m, W) /\ \A d \in 1 .. m : some[d] = rows[p[d]]
  BY <1>7, <1>9 DEF CountsUp, some
<1>12. \A d \in 1 .. m : xs[d] = ToFloat64(some[d][at])
  BY <1>10 DEF NumbersAt
<1> HIDE DEF W, xs, N, m
<1>13. \A d \in 1 .. m : p[d] \in W
  BY <1>11 DEF Enumerates
<1>14. \A d \in 1 .. m : p[d] \in 1 .. N /\ xs[d] = w[p[d]] /\ xs[d] = rows[p[d]][at][2]
  BY <1>3, <1>4, <1>11, <1>12, <1>13
<1>15. IsFiniteSet(W) /\ Cardinality(W) = m
  BY <1>10, <1>11, EnumeratedSize
<1> HIDE DEF w
<1>16. Total(xs) = Total(Mask(W, w, N))
  BY <1>1, <1>4, <1>5, <1>9, <1>11, <1>14, EnumeratedSum DEF m
<1>17. q \in Seq(Nat) /\ Len(q) = m /\ Enumerates(q, m, W)
  BY <1>5, <1>15, SequenceOfSet
<1> HIDE DEF q
<1>18. \A d \in 1 .. m : q[d] \in W
  BY <1>17 DEF Enumerates
<1>19. \A d \in 1 .. m : ys[d] = w[q[d]] /\ ys[d] = rows[q[d]][at][2] /\ ys[d] \in Int
  BY <1>2, <1>3, <1>4, <1>17, <1>18
<1>20. ys \in Seq(Int) /\ Len(ys) = m
  <2>1. DOMAIN ys = 1 .. m /\ ys = [d \in 1 .. m |-> ys[d]]
    BY <1>17
  <2> HIDE DEF ys
  <2> QED BY <1>10, <1>19, <2>1, MadeSeq
<1> HIDE DEF ys
<1>21. Total(ys) = Total(Mask(W, w, N))
  <2>1. Enumerates(q, Len(ys), W) /\ \A d \in 1 .. Len(ys) : ys[d] = w[q[d]]
    BY <1>17, <1>19, <1>20
  <2> QED BY <1>1, <1>4, <1>5, <1>20, <2>1, EnumeratedSum
<1>22. Total(ys) = SqlSum(rows, at, P)
  <2>1. SummedInOrder(rows, at, q) = Total(ys)
    <3>1. InOrder(ys, rows, at, q)
      BY <1>17, <1>19, <1>20 DEF InOrder
    <3> QED BY <1>17, <1>20, <3>1, OrderedSum
  <2> QED BY <2>1 DEF SqlSum, q, W
<1>23. xs = <<>> <=> W = {}
  <2>1. xs = <<>> <=> m = 0
    BY <1>9, EmptySeq DEF m
  <2>2. m = 0 <=> W = {}
    BY <1>15, FS_EmptySet
  <2> QED BY <2>1, <2>2
<1>24. ASSUME xs # <<>> PROVE Min(Range(xs)) = SqlLeast(rows, at, P) /\ Max(Range(xs)) = SqlMost(rows, at, P)
  <2> DEFINE V == ValuesAt(rows, at, P)
             least == Min(Range(xs))
             most == Max(Range(xs))
  <2>1. /\ least \in Range(xs) /\ \A y \in Range(xs) : least <= y
        /\ most \in Range(xs) /\ \A y \in Range(xs) : y <= most
    BY <1>9, <1>24, ExtremesTyped
  <2>2. \A y : y \in Range(xs) <=> \E d \in 1 .. m : y = xs[d]
    BY <1>10 DEF Range
  <2>3. \A y : y \in V <=> \E j \in W : y = rows[j][at][2]
    BY DEF ValuesAt, W
  <2>4. \A j \in W : \E d \in 1 .. m : p[d] = j
    BY <1>11 DEF Enumerates
  <2> HIDE DEF least, most, V
  <2>5. \A y : y \in V => y \in Range(xs)
    BY <1>14, <2>2, <2>3, <2>4
  <2>6. \A y : y \in Range(xs) => y \in V
    BY <1>13, <1>14, <2>2, <2>3
  <2>7. \A y \in V : y \in Int
    <3>1. \A d \in 1 .. m : xs[d] \in Int
      BY <1>9, ElementOfSeq DEF m
    <3> QED BY <2>2, <2>5, <3>1
  <2>8. \A j \in W : rows[j][at][2] \in V
    BY <2>3
  <2>9. SqlLeast(rows, at, P) = least
    <3> DEFINE c == SqlLeast(rows, at, P)
    <3>1. least \in V /\ \A j \in W : least <= rows[j][at][2]
      BY <2>1, <2>5, <2>6, <2>8
    <3>2. c \in V /\ \A j \in W : c <= rows[j][at][2]
      BY <3>1 DEF SqlLeast, V, W
    <3> HIDE DEF c
    <3>3. least <= c
      BY <2>1, <2>5, <3>2
    <3>4. c <= least
      BY <2>3, <3>1, <3>2
    <3> QED BY <2>7, <3>1, <3>2, <3>3, <3>4 DEF c
  <2>10. SqlMost(rows, at, P) = most
    <3> DEFINE c == SqlMost(rows, at, P)
    <3>1. most \in V /\ \A j \in W : rows[j][at][2] <= most
      BY <2>1, <2>5, <2>6, <2>8
    <3>2. most \in V /\ \A j \in W : most >= rows[j][at][2]
      BY <2>7, <2>8, <3>1
    <3>3. c \in V /\ \A j \in W : c >= rows[j][at][2]
      BY <3>2 DEF SqlMost, V, W
    <3> HIDE DEF c
    <3>4. c <= most
      BY <2>1, <2>5, <3>3
    <3>5. most <= c
      BY <2>3, <2>7, <3>1, <3>3
    <3> QED BY <2>7, <3>1, <3>3, <3>4, <3>5 DEF c
  <2> QED BY <2>9, <2>10 DEF least, most
<1> QED BY <1>15, <1>16, <1>21, <1>22, <1>23, <1>24 DEF SameNumbers, W, xs, m, some

\* An aggregate both can compute, over a column of numbers; a sum, a least or a greatest
\* of at least one.
SqlAt(agg, cols) == IF agg.col = "" THEN 1 ELSE ColIndex(cols, agg.col)
Computes(agg, cols, rows, P) ==
  /\ agg.fn = "count" \/ (agg.fn \in {"sum", "avg", "min", "max"} /\ agg.col # "")
  /\ agg.col # "" => ColIndex(cols, agg.col) # 0 /\ NumbersOrNull(rows, ColIndex(cols, agg.col))
  /\ agg.fn \in {"sum", "min", "max"} => WithValue(rows, ColIndex(cols, agg.col), P) # {}

\* A count is SQL's.
LEMMA CountAsSql ==
  ASSUME NEW cols \in Seq(STRING), NEW rows \in Seq(Wide(Len(cols))), NEW P, P \subseteq DOMAIN rows,
         NEW agg, Computes(agg, cols, rows, P), agg.fn = "count", NEW group, group = Picked(rows, P)
  PROVE  Alike(ComputeAggregate(agg, group, cols)) = SqlAggregate(agg, rows, SqlAt(agg, cols), P)
<1> DEFINE at == ColIndex(cols, agg.col)
           W == WithValue(rows, at, P)
           value == ComputeAggregate(agg, group, cols)
           sql == SqlAggregate(agg, rows, SqlAt(agg, cols), P)
<1>1. \A u : Alike(Whole(u)) = Real(u * Unit)
  BY DEF Alike, Whole, Real, IsNumber
<1>2. CASE agg.col = ""
  <2>1. Len(group) = Cardinality(P)
    <3> DEFINE S == Wide(Len(cols))
    <3> HIDE DEF S
    <3>1. rows \in Seq(S)
      BY DEF S
    <3>2. Len(Picked(rows, P)) = Cardinality(P)
      BY <3>1, PickedRows
    <3> QED BY <3>2
  <2>2. value = Whole(Cardinality(P))
    BY <1>2, <2>1 DEF ComputeAggregate
  <2>3. sql = Real(Cardinality(P) * Unit)
    <3>1. SqlCases(agg, rows, SqlAt(agg, cols), P, WithValue(rows, SqlAt(agg, cols), P), sql)
      BY SqlAggregateIs
    <3> HIDE DEF sql
    <3> QED BY <1>2, <3>1 DEF SqlCases
  <2> HIDE DEF value, sql
  <2>4. Alike(value) = sql
    BY <1>1, <2>2, <2>3
  <2> QED BY <2>4 DEF value, sql
<1>3. CASE agg.col # ""
  <2> DEFINE Q == {j \in DOMAIN group : group[j][at] # Null}
  <2>1. at # 0 /\ SqlAt(agg, cols) = at
    BY <1>3 DEF Computes, SqlAt
  <2>2. PICK p : CountsUp(p, group, at, rows, P)
    <3> DEFINE S == Wide(Len(cols))
    <3> HIDE DEF S, at
    <3>1. rows \in Seq(S)
      BY DEF S
    <3> QED BY <3>1, TwicePicked
  <2>3. Len(SomeRows(group, at)) = Cardinality(Q)
    <3> DEFINE S == Wide(Len(cols))
    <3> HIDE DEF S, at
    <3>1. rows \in Seq(S)
      BY DEF S
    <3> QED BY <3>1, TwicePicked
  <2>4. Len(SomeRows(group, at)) \in Nat
    <3> DEFINE S == Wide(Len(cols))
    <3>1. rows \in Seq(S) /\ Q \subseteq DOMAIN group
      OBVIOUS
    <3> HIDE DEF S, Q
    <3>2. group \in Seq(S)
      BY <3>1, PickedRows
    <3>3. Picked(group, Q) \in Seq(S)
      BY <3>1, <3>2, PickedRows
    <3>4. Len(Picked(group, Q)) \in Nat
      BY <3>3, LenProperties
    <3> QED BY <3>4 DEF SomeRows, Q
  <2>5. Cardinality(W) = Len(SomeRows(group, at))
    BY <2>2, <2>4, EnumeratedSize DEF CountsUp
  <2>6. value = Whole(Cardinality(Q))
    BY <1>3, <2>1 DEF ComputeAggregate
  <2>7. sql = Real(Cardinality(W) * Unit)
    <3> HIDE DEF at
    <3>1. SqlCases(agg, rows, at, P, W, sql)
      BY <2>1, SqlAggregateIs
    <3> HIDE DEF sql, W
    <3> QED BY <1>3, <3>1 DEF SqlCases
  <2> HIDE DEF value, sql, W, Q
  <2>8. Alike(value) = sql
    BY <1>1, <2>3, <2>5, <2>6, <2>7
  <2> QED BY <2>8 DEF value, sql
<1> QED BY <1>2, <1>3

\* A sum, an average, a least or a greatest is SQL's.
LEMMA NumericAsSql ==
  ASSUME NEW cols \in Seq(STRING), NEW rows \in Seq(Wide(Len(cols))), NEW P, P \subseteq DOMAIN rows,
         NEW agg, Computes(agg, cols, rows, P), agg.fn \in {"sum", "avg", "min", "max"},
         NEW group, group = Picked(rows, P)
  PROVE  Alike(ComputeAggregate(agg, group, cols)) = SqlAggregate(agg, rows, SqlAt(agg, cols), P)
<1> DEFINE at == ColIndex(cols, agg.col)
           W == WithValue(rows, at, P)
           xs == NumbersAt(SomeRows(group, at), at)
           value == ComputeAggregate(agg, group, cols)
           sql == SqlAggregate(agg, rows, SqlAt(agg, cols), P)
           sum == SqlSum(rows, at, P)
<1>1. agg.col # "" /\ at # 0 /\ NumbersOrNull(rows, at) /\ SqlAt(agg, cols) = at
  BY DEF Computes, SqlAt
<1>2. agg.fn \in {"sum", "min", "max"} => W # {}
  BY DEF Computes
<1>3. at \in 1 .. Len(cols) /\ Len(cols) \in Nat
  <2>1. at \in 0 .. Len(cols)
    BY Indices
  <2>2. Len(cols) \in Nat /\ at # 0
    BY <1>1, LenProperties
  <2> HIDE DEF at
  <2> QED BY <2>1, <2>2
<1>4. value = CASE agg.fn = "sum" -> Real(Total(xs))
                [] agg.fn = "avg" -> IF xs = <<>> THEN Null ELSE Real(Total(xs) \div Len(xs))
                [] agg.fn = "min" -> IF xs = <<>> THEN Real(0) ELSE Real(Min(Range(xs)))
                [] agg.fn = "max" -> IF xs = <<>> THEN Real(0) ELSE Real(Max(Range(xs)))
  BY <1>1 DEF ComputeAggregate, NumericAggregate, SomeRows, NumbersAt
<1> HIDE DEF at
<1>5. SameNumbers(xs, rows, at, P)
  <2> DEFINE n == Len(cols)
  <2>1. rows \in Seq(Wide(n)) /\ n \in Nat /\ at \in 1 .. n
    BY <1>3
  <2> HIDE DEF n
  <2> QED BY <1>1, <2>1, GroupNumbers
<1> HIDE DEF xs, W
<1>6. /\ Len(xs) = Cardinality(W) /\ (xs = <<>> <=> W = {}) /\ Total(xs) = sum
      /\ xs # <<>> => Min(Range(xs)) = SqlLeast(rows, at, P) /\ Max(Range(xs)) = SqlMost(rows, at, P)
  BY <1>5 DEF SameNumbers, W
<1>7. /\ W = {} => sql = Null
      /\ agg.fn = "sum" /\ W # {} => sql = Real(sum)
      /\ agg.fn = "avg" /\ W # {} => sql = Real(sum \div Cardinality(W))
      /\ agg.fn = "min" /\ W # {} => sql = Real(SqlLeast(rows, at, P))
      /\ agg.fn = "max" /\ W # {} => sql = Real(SqlMost(rows, at, P))
  <2>1. SqlCases(agg, rows, at, P, W, sql)
    BY <1>1, SqlAggregateIs DEF W
  <2> HIDE DEF sql, sum
  <2> QED BY <2>1 DEF SqlCases, sum
<1>8. (\A u : Alike(Real(u)) = Real(u)) /\ Alike(Null) = Null
  BY DEF Alike, Real, Null, IsNumber
<1> HIDE DEF value, sql, sum
<1>9. CASE agg.fn = "sum"
  <2>1. value = Real(Total(xs))
    BY <1>4, <1>9
  <2>2. W # {}
    BY <1>2, <1>9
  <2>3. value = Real(sum) /\ sql = Real(sum)
    BY <1>6, <1>7, <1>9, <2>1, <2>2
  <2> QED BY <1>8, <2>3 DEF value, sql
<1>10. CASE agg.fn = "avg"
  <2>1. value = IF xs = <<>> THEN Null ELSE Real(Total(xs) \div Len(xs))
    BY <1>4, <1>10
  <2>2. value = sql /\ (value = Null \/ value = Real(sum \div Cardinality(W)))
    BY <1>6, <1>7, <1>10, <2>1
  <2>3. Alike(value) = value
    BY <1>8, <2>2
  <2> QED BY <2>2, <2>3 DEF value, sql
<1>11. CASE agg.fn = "min"
  <2>1. value = IF xs = <<>> THEN Real(0) ELSE Real(Min(Range(xs)))
    BY <1>4, <1>11
  <2>2. W # {}
    BY <1>2, <1>11
  <2>3. value = sql /\ value = Real(SqlLeast(rows, at, P))
    BY <1>6, <1>7, <1>11, <2>1, <2>2
  <2>4. Alike(value) = value
    BY <1>8, <2>3
  <2> QED BY <2>3, <2>4 DEF value, sql
<1>12. CASE agg.fn = "max"
  <2>1. value = IF xs = <<>> THEN Real(0) ELSE Real(Max(Range(xs)))
    BY <1>4, <1>12
  <2>2. W # {}
    BY <1>2, <1>12
  <2>3. value = sql /\ value = Real(SqlMost(rows, at, P))
    BY <1>6, <1>7, <1>12, <2>1, <2>2
  <2>4. Alike(value) = value
    BY <1>8, <2>3
  <2> QED BY <2>3, <2>4 DEF value, sql
<1> QED BY <1>9, <1>10, <1>11, <1>12

\* So an aggregate of a group is what SQL answers for the rows at its places.
LEMMA AggregateAsSql ==
  ASSUME NEW cols \in Seq(STRING), NEW rows \in Seq(Wide(Len(cols))), NEW P, P \subseteq DOMAIN rows,
         NEW agg, Computes(agg, cols, rows, P), NEW group, group = Picked(rows, P)
  PROVE  Alike(ComputeAggregate(agg, group, cols)) = SqlAggregate(agg, rows, SqlAt(agg, cols), P)
<1>1. agg.fn = "count" \/ agg.fn \in {"sum", "avg", "min", "max"}
  BY DEF Computes
<1> QED BY <1>1, CountAsSql, NumericAsSql

\* A row's keys, the rows with such keys, and SQL's row for them.
KeyOf(x, st, j) == AlikeRow(KeyValues(x.rows[j], KeyIndex(st.keys, x.cols)))
RowsOf(x, st, v) == {j \in DOMAIN x.rows : KeyOf(x, st, j) = v}
SqlAggregates(x, st, v) ==
  [i \in DOMAIN st.aggs |-> SqlAggregate(st.aggs[i], x.rows, SqlAt(st.aggs[i], x.cols), RowsOf(x, st, v))]
SqlRow(x, st, v) == v \o SqlAggregates(x, st, v)

\* SQL answers such a row for all the keys there are.
LEMMA SqlSummaryIs ==
  ASSUME NEW x, NEW st
  PROVE  SqlSummary(x, st) = {SqlRow(x, st, v) : v \in {KeyOf(x, st, j) : j \in DOMAIN x.rows}}
BY DEF SqlSummary, SqlRow, SqlAggregates, SqlAt, RowsOf, KeyOf

\* Values that count as one number or are the same read the same.
LEMMA AlikeText ==
  ASSUME NEW v \in Value, NEW w \in Value, Alike(v) = Alike(w)
  PROVE  Text(v) = Text(w)
<1>1. CASE IsNumber(v) /\ IsNumber(w)
  <2>1. Alike(v) = << "real", v[2] >> /\ Alike(w) = << "real", w[2] >>
    BY <1>1 DEF Alike, Real
  <2> DEFINE c == v[2]
             d == w[2]
  <2>2. << "real", c >> = << "real", d >>
    BY <2>1
  <2> HIDE DEF c, d
  <2>3. c = d
    BY <2>2
  <2>4. Text(v) = << c >> /\ Text(w) = << d >>
    BY <1>1 DEF Text, IsNumber, c, d
  <2> QED BY <2>3, <2>4
<1>2. CASE IsNumber(v) /\ ~ IsNumber(w)
  <2>1. Alike(v) = << "real", v[2] >> /\ Alike(w) = w
    BY <1>2 DEF Alike, Real
  <2> DEFINE a == Alike(v)
  <2>2. a = << "real", v[2] >> /\ a = w
    BY <2>1
  <2> HIDE DEF a
  <2>3. w[1] = "real"
    BY <2>2
  <2> QED BY <1>2, <2>3 DEF IsNumber
<1>3. CASE ~ IsNumber(v) /\ IsNumber(w)
  <2>1. Alike(w) = << "real", w[2] >> /\ Alike(v) = v
    BY <1>3 DEF Alike, Real
  <2>2. v = << "real", w[2] >>
    BY <2>1
  <2>3. v[1] = "real"
    BY <2>2
  <2> QED BY <1>3, <2>3 DEF IsNumber
<1>4. CASE ~ IsNumber(v) /\ ~ IsNumber(w)
  BY <1>4 DEF Alike
<1> QED BY <1>1, <1>2, <1>3, <1>4

\* A row with its numbers alike is as wide.
LEMMA AlikeTyped ==
  ASSUME NEW n \in Nat, NEW row \in Wide(n)
  PROVE  AlikeRow(row) \in Wide(n) /\ \A c \in 1 .. n : AlikeRow(row)[c] = Alike(row[c])
<1> DEFINE f == AlikeRow(row)
<1>1. row \in Seq(Value) /\ DOMAIN row = 1 .. n /\ \A c \in 1 .. n : row[c] \in Value
  BY LenProperties, ElementOfSeq DEF Wide
<1>2. DOMAIN f = 1 .. n /\ f = [c \in 1 .. n |-> f[c]] /\ \A c \in 1 .. n : f[c] = Alike(row[c])
  BY <1>1 DEF AlikeRow
<1>3. ASSUME NEW c \in 1 .. n PROVE f[c] \in Value
  <2>1. row[c] \in Value
    BY <1>1
  <2>2. Alike(row[c]) \in Value
    BY <2>1, ReadValues, MadeValues DEF Alike
  <2> QED BY <1>2, <2>2
<1> HIDE DEF f
<1>4. f \in Seq(Value) /\ Len(f) = n
  BY <1>2, <1>3, MadeSeq
<1> QED BY <1>2, <1>4 DEF f, Wide

\* Rows behind rows are alike in parts.
LEMMA AlikeConcat ==
  ASSUME NEW m \in Nat, NEW n \in Nat, NEW a \in Wide(m), NEW b \in Wide(n)
  PROVE  AlikeRow(a \o b) = AlikeRow(a) \o AlikeRow(b)
<1> DEFINE x == AlikeRow(a)
           y == AlikeRow(b)
           ab == a \o b
           z == AlikeRow(ab)
           xy == x \o y
<1>1. x \in Wide(m) /\ y \in Wide(n) /\ (\A c \in 1 .. m : x[c] = Alike(a[c])) /\ \A c \in 1 .. n : y[c] = Alike(b[c])
  BY AlikeTyped
<1>2. /\ ab \in Wide(m + n) /\ (\A c \in 1 .. m : ab[c] = a[c])
      /\ \A c \in 1 .. n : ab[m + c] = b[c]
  BY WiderRow
<1> HIDE DEF x, y, ab
<1>3. /\ xy \in Wide(m + n) /\ (\A c \in 1 .. m : xy[c] = x[c])
      /\ \A c \in 1 .. n : xy[m + c] = y[c]
  BY <1>1, WiderRow
<1>4. z \in Wide(m + n) /\ \A c \in 1 .. m + n : z[c] = Alike(ab[c])
  <2> DEFINE l == m + n
  <2>1. l \in Nat /\ ab \in Wide(l)
    BY <1>2
  <2> HIDE DEF l
  <2>2. AlikeRow(ab) \in Wide(l) /\ \A c \in 1 .. l : AlikeRow(ab)[c] = Alike(ab[c])
    BY <2>1, AlikeTyped
  <2> QED BY <2>2 DEF l
<1> HIDE DEF z, xy
<1>5. ASSUME NEW c \in 1 .. m + n PROVE z[c] = xy[c]
  <2>1. CASE c \in 1 .. m
    BY <1>1, <1>2, <1>3, <1>4, <2>1
  <2>2. CASE c \notin 1 .. m
    <3> DEFINE d == c - m
    <3>1. d \in 1 .. n /\ c = m + d
      BY <2>2
    <3> HIDE DEF d
    <3>2. xy[c] = Alike(b[d])
      BY <1>1, <1>3, <3>1
    <3>3. ab[c] = b[d]
      BY <1>2, <3>1
    <3> QED BY <1>4, <3>2, <3>3
  <2> QED BY <2>1, <2>2
<1>6. z \in Seq(Value) /\ xy \in Seq(Value) /\ Len(z) = m + n /\ Len(xy) = m + n
  BY <1>3, <1>4 DEF Wide
<1>7. z = xy
  BY <1>5, <1>6, SeqEqual
<1> QED BY <1>7 DEF z, xy, ab, x, y

\* Where a key is a column and what looks alike is alike, rows are in one group exactly if
\* their keys are the same for SQL.
SameKeys(x, st, keys) ==
  \A j, l \in DOMAIN x.rows : keys[j] = keys[l] <=> KeyOf(x, st, j) = KeyOf(x, st, l)

LEMMA GroupsAsSql ==
  ASSUME NEW x \in Result, NEW st \in Stages, Resolved(x, st), LookDifferent(x, st)
  PROVE  /\ SameKeys(x, st, KeysOf(x, st))
         /\ \A j \in DOMAIN x.rows : KeyOf(x, st, j) \in Wide(Len(st.keys))
         /\ \A j, l \in DOMAIN x.rows :
              LookAlike(x.rows[l], x.rows[j], KeyIndex(st.keys, x.cols)) => KeyOf(x, st, l) = KeyOf(x, st, j)
<1> DEFINE by == KeyIndex(st.keys, x.cols)
           a == Len(st.keys)
           n == Len(x.cols)
           keys == KeysOf(x, st)
           R(j) == x.rows[j]
           K(j) == KeyValues(x.rows[j], by)
<1>1. a \in Nat /\ n \in Nat /\ DOMAIN st.keys = 1 .. a /\ x.cols \in Seq(STRING)
  BY NamesTyped, ResultShape
<1>2. DOMAIN by = 1 .. a /\ \A i \in 1 .. a : by[i] \in 0 .. n
  <2> HIDE DEF a
  <2> QED BY <1>1, KeysTyped
<1>3. \A i \in 1 .. a : by[i] \in 1 .. n
  <2>1. \A i \in 1 .. a : by[i] # 0
    BY <1>1 DEF Resolved
  <2> HIDE DEF by, a, n
  <2> QED BY <1>1, <1>2, <2>1
<1>4. \A j \in DOMAIN x.rows : R(j) \in Wide(n)
  BY ResultShape
<1>5. \A j, l \in DOMAIN x.rows : LookAlike(R(j), R(l), by) => KeyOf(x, st, j) = KeyOf(x, st, l)
  BY DEF LookDifferent, KeyOf
<1>6. \A j \in DOMAIN x.rows : keys[j] = KeyText(R(j), by)
  BY DEF KeysOf
<1> HIDE DEF by, a, n, keys
<1>7. ASSUME NEW j \in DOMAIN x.rows
      PROVE  /\ K(j) \in Wide(a) /\ \A i \in 1 .. a : K(j)[i] = R(j)[by[i]] /\ R(j)[by[i]] \in Value
  <2>1. R(j) \in Wide(n)
    BY <1>4
  <2>2. K(j) \in Wide(a)
    BY <1>1, <1>2, <2>1, ValuesTyped
  <2>3. R(j) \in Seq(Value) /\ Len(R(j)) = n
    BY <2>1 DEF Wide
  <2>4. \A i \in 1 .. a : R(j)[by[i]] \in Value
    <3> DEFINE r == R(j)
    <3> HIDE DEF r
    <3>1. \A c \in 1 .. n : r[c] \in Value
      BY <2>3, ElementOfSeq DEF r
    <3>2. \A i \in 1 .. a : r[by[i]] \in Value
      BY <1>3, <3>1
    <3> QED BY <3>2 DEF r
  <2>5. \A i \in 1 .. a : K(j)[i] = R(j)[by[i]]
    BY <1>1, <1>2, <1>3 DEF KeyValues
  <2> QED BY <2>2, <2>4, <2>5
<1>8. ASSUME NEW j \in DOMAIN x.rows
      PROVE  KeyOf(x, st, j) \in Wide(a) /\ \A i \in 1 .. a : KeyOf(x, st, j)[i] = Alike(R(j)[by[i]])
  <2> DEFINE v == K(j)
  <2>1. v \in Wide(a) /\ \A i \in 1 .. a : v[i] = R(j)[by[i]]
    BY <1>7
  <2>2. KeyOf(x, st, j) = AlikeRow(v)
    BY DEF KeyOf, by
  <2> HIDE DEF v
  <2>3. AlikeRow(v) \in Wide(a) /\ \A i \in 1 .. a : AlikeRow(v)[i] = Alike(v[i])
    BY <1>1, <2>1, AlikeTyped
  <2> QED BY <2>1, <2>2, <2>3
<1>9. \A j, l \in DOMAIN x.rows : LookAlike(R(j), R(l), by) <=> \A i \in 1 .. a : Text(R(j)[by[i]]) = Text(R(l)[by[i]])
  BY <1>2 DEF LookAlike
<1>10. ASSUME NEW j \in DOMAIN x.rows, NEW l \in DOMAIN x.rows, KeyOf(x, st, j) = KeyOf(x, st, l)
       PROVE  LookAlike(R(j), R(l), by)
  <2>1. ASSUME NEW i \in 1 .. a PROVE Text(R(j)[by[i]]) = Text(R(l)[by[i]])
    <3>1. Alike(R(j)[by[i]]) = Alike(R(l)[by[i]])
      BY <1>8, <1>10
    <3>2. R(j)[by[i]] \in Value /\ R(l)[by[i]] \in Value
      BY <1>7
    <3> QED BY <3>1, <3>2, AlikeText
  <2> QED BY <1>9, <2>1
<1>11. ASSUME NEW j \in DOMAIN x.rows, NEW l \in DOMAIN x.rows
       PROVE  KeyText(R(j), by) = KeyText(R(l), by) <=> LookAlike(R(j), R(l), by)
  <2> DEFINE f == KeyText(R(j), by)
             g == KeyText(R(l), by)
  <2>1. /\ f = [i \in 1 .. a |-> f[i]] /\ \A i \in 1 .. a : f[i] = Text(R(j)[by[i]])
        /\ g = [i \in 1 .. a |-> g[i]] /\ \A i \in 1 .. a : g[i] = Text(R(l)[by[i]])
    BY <1>1, <1>2, <1>3 DEF KeyText
  <2> HIDE DEF f, g
  <2>2. f = g <=> \A i \in 1 .. a : f[i] = g[i]
    BY <2>1
  <2>3. f = g <=> LookAlike(R(j), R(l), by)
    BY <1>9, <2>1, <2>2
  <2> QED BY <2>3 DEF f, g
<1>12. SameKeys(x, st, keys)
  <2> SUFFICES ASSUME NEW j \in DOMAIN x.rows, NEW l \in DOMAIN x.rows
               PROVE  keys[j] = keys[l] <=> KeyOf(x, st, j) = KeyOf(x, st, l)
    BY DEF SameKeys
  <2>1. keys[j] = keys[l] <=> LookAlike(R(j), R(l), by)
    BY <1>6, <1>11
  <2> QED BY <1>5, <1>10, <2>1
<1> QED BY <1>5, <1>8, <1>12 DEF by, a, keys

\* The rows of a row's group are those SQL groups with it, and both can compute every
\* aggregate of them.
LEMMA GroupIsSqls ==
  ASSUME NEW x \in Result, NEW st \in Stages, Comparable(x, st), NEW f \in DOMAIN x.rows,
         NEW P, P = RowsOf(x, st, KeyOf(x, st, f))
  PROVE  /\ P \subseteq DOMAIN x.rows
         /\ GroupOf(x.rows, KeysOf(x, st), f) = Picked(x.rows, P)
         /\ \A i \in DOMAIN st.aggs : Computes(st.aggs[i], x.cols, x.rows, P)
<1> DEFINE keys == KeysOf(x, st)
           by == KeyIndex(st.keys, x.cols)
<1>1. Resolved(x, st) /\ LookDifferent(x, st) /\ SomeValue(x, st)
  BY DEF Comparable
<1>2. SameKeys(x, st, keys)
  BY <1>1, GroupsAsSql
<1>3. \A l \in DOMAIN x.rows : LookAlike(x.rows[l], x.rows[f], by) => KeyOf(x, st, l) = KeyOf(x, st, f)
  BY <1>1, GroupsAsSql
<1>4. DOMAIN keys = DOMAIN x.rows
  BY DEF KeysOf
<1>5. GroupOf(x.rows, keys, f) = Picked(x.rows, {j \in DOMAIN keys : keys[j] = keys[f]})
  BY DEF GroupOf
<1> HIDE DEF keys, by
<1>6. P = {j \in DOMAIN keys : keys[j] = keys[f]}
  BY <1>2, <1>4 DEF RowsOf, SameKeys
<1>7. P \subseteq DOMAIN x.rows
  BY DEF RowsOf
<1>8. ASSUME NEW i \in DOMAIN st.aggs PROVE Computes(st.aggs[i], x.cols, x.rows, P)
  <2> DEFINE agg == st.aggs[i]
             at == ColIndex(x.cols, agg.col)
  <2>1. agg.fn = "count" \/ (agg.fn \in {"sum", "avg", "min", "max"} /\ agg.col # "")
    BY <1>1 DEF Resolved
  <2>2. agg.col # "" => at # 0 /\ \A j \in DOMAIN x.rows : x.rows[j][at] = Null \/ IsNumber(x.rows[j][at])
    BY <1>1 DEF Resolved
  <2>3. agg.fn \in {"sum", "min", "max"} =>
          \E l \in DOMAIN x.rows : LookAlike(x.rows[l], x.rows[f], by) /\ x.rows[l][at] # Null
    BY <1>1 DEF SomeValue, by
  <2> HIDE DEF agg, at
  <2>4. agg.fn \in {"sum", "min", "max"} => WithValue(x.rows, at, P) # {}
    <3> SUFFICES ASSUME agg.fn \in {"sum", "min", "max"} PROVE WithValue(x.rows, at, P) # {}
      OBVIOUS
    <3>1. PICK l \in DOMAIN x.rows : LookAlike(x.rows[l], x.rows[f], by) /\ x.rows[l][at] # Null
      BY <2>3
    <3>2. l \in P
      BY <1>3, <3>1 DEF RowsOf
    <3> QED BY <3>1, <3>2 DEF WithValue
  <2>5. agg.col # "" => at # 0 /\ NumbersOrNull(x.rows, at)
    BY <2>2 DEF NumbersOrNull
  <2>6. Computes(agg, x.cols, x.rows, P)
    BY <2>1, <2>4, <2>5 DEF Computes, at
  <2> QED BY <2>6 DEF agg
<1> QED BY <1>5, <1>6, <1>7, <1>8 DEF keys

\* A row of the summary is SQL's for its keys.
LEMMA SummaryRowAsSql ==
  ASSUME NEW x \in Result, NEW st \in Stages, Comparable(x, st), NEW f \in DOMAIN x.rows
  PROVE  /\ AlikeRow(SummaryRow(x, st, f)) = SqlRow(x, st, KeyOf(x, st, f))
         /\ KeyOf(x, st, f) \in Wide(Len(st.keys))
         /\ SqlAggregates(x, st, KeyOf(x, st, f)) \in Wide(Len(st.aggs))
<1> DEFINE a == Len(st.keys)
           b == Len(st.aggs)
           n == Len(x.cols)
           by == KeyIndex(st.keys, x.cols)
           v == KeyOf(x, st, f)
           P == RowsOf(x, st, v)
           group == GroupOf(x.rows, KeysOf(x, st), f)
           values == KeyValues(x.rows[f], by)
           back == Aggregated(st.aggs, group, x.cols)
           sqls == SqlAggregates(x, st, v)
<1>1. a \in Nat /\ b \in Nat /\ n \in Nat /\ DOMAIN st.aggs = 1 .. b /\ DOMAIN st.keys = 1 .. a
      /\ x.cols \in Seq(STRING) /\ x.rows \in Seq(Wide(n)) /\ x.rows[f] \in Wide(n)
  BY NamesTyped, ResultShape
<1>2. v \in Wide(a)
  BY GroupsAsSql DEF Comparable
<1>3. /\ P \subseteq DOMAIN x.rows /\ group = Picked(x.rows, P)
      /\ \A i \in 1 .. b : Computes(st.aggs[i], x.cols, x.rows, P)
  BY <1>1, GroupIsSqls
<1>4. values \in Wide(a)
  <2> HIDE DEF a, n
  <2>1. DOMAIN by = 1 .. a /\ \A i \in 1 .. a : by[i] \in 0 .. n
    BY <1>1, KeysTyped DEF n
  <2> HIDE DEF by
  <2> QED BY <1>1, <2>1, ValuesTyped
<1>5. SummaryRow(x, st, f) = values \o back
  BY DEF SummaryRow
<1>6. v = AlikeRow(values)
  BY DEF KeyOf
<1>7. \A i \in 1 .. b : back[i] = ComputeAggregate(st.aggs[i], group, x.cols)
  BY <1>1 DEF Aggregated
<1>8. sqls = [i \in 1 .. b |-> sqls[i]] /\ \A i \in 1 .. b : sqls[i] = SqlAggregate(st.aggs[i], x.rows, SqlAt(st.aggs[i], x.cols), P)
  BY <1>1 DEF SqlAggregates
<1>9. group \in Seq(Wide(n))
  <2> DEFINE S == Wide(n)
  <2> HIDE DEF S, P, group, n
  <2>1. x.rows \in Seq(S)
    BY <1>1 DEF S
  <2>2. Picked(x.rows, P) \in Seq(S)
    BY <1>3, <2>1, PickedRows
  <2> QED BY <1>3, <2>2 DEF S
<1>10. back \in Wide(b)
  <2> HIDE DEF group, b
  <2> QED BY <1>1, <1>9, AggregatedTyped
<1> HIDE DEF v, P, group, values, back, sqls, a, b
<1>11. ASSUME NEW i \in 1 .. b PROVE Alike(back[i]) = sqls[i]
  <2> DEFINE agg == st.aggs[i]
             value == ComputeAggregate(agg, group, x.cols)
             sql == SqlAggregate(agg, x.rows, SqlAt(agg, x.cols), P)
  <2>1. Computes(agg, x.cols, x.rows, P) /\ back[i] = value /\ sqls[i] = sql
    BY <1>3, <1>7, <1>8
  <2> HIDE DEF agg
  <2>2. Alike(value) = sql
    BY <1>1, <1>3, <2>1, AggregateAsSql DEF n
  <2> HIDE DEF value, sql
  <2> QED BY <2>1, <2>2
<1>12. AlikeRow(back) = sqls /\ sqls \in Wide(b)
  <2>1. AlikeRow(back) \in Wide(b) /\ \A i \in 1 .. b : AlikeRow(back)[i] = Alike(back[i])
    BY <1>1, <1>10, AlikeTyped
  <2> DEFINE y == AlikeRow(back)
  <2>2. y = [i \in 1 .. b |-> y[i]]
    BY <1>10 DEF AlikeRow, Wide
  <2>3. \A i \in 1 .. b : y[i] = sqls[i]
    BY <1>11, <2>1
  <2> HIDE DEF y
  <2>4. y = sqls
    BY <1>8, <2>2, <2>3
  <2> QED BY <2>1, <2>4 DEF y
<1>13. AlikeRow(values \o back) = v \o sqls
  <2>1. AlikeRow(values \o back) = AlikeRow(values) \o AlikeRow(back)
    BY <1>1, <1>4, <1>10, AlikeConcat
  <2> QED BY <1>6, <1>12, <2>1
<1> QED BY <1>2, <1>5, <1>12, <1>13 DEF v, sqls, a, b, SqlRow

\* So the summary is SQL's: one row for each combination of keys.
LEMMA SummaryAsSql ==
  ASSUME NEW x \in Result, NEW st \in Stages, Comparable(x, st)
  PROVE  /\ RowSet(SummaryRows(x, st)) = SqlSummary(x, st)
         /\ Len(SummaryRows(x, st)) = Cardinality(SqlSummary(x, st))
<1> DEFINE keys == KeysOf(x, st)
           heads == Firsts(keys)
           out == SummaryRows(x, st)
           m == Len(x.rows)
           c == Len(heads)
           Key(j) == KeyOf(x, st, j)
           Sql(j) == SqlRow(x, st, Key(j))
           p == [g \in 1 .. c |-> Sql(heads[g])]
           All == SqlSummary(x, st)
<1>1. m \in Nat /\ DOMAIN x.rows = 1 .. m /\ DOMAIN keys = 1 .. m
  BY ResultShape DEF KeysOf
<1>2. \A j \in 1 .. m : AlikeRow(SummaryRow(x, st, j)) = Sql(j)
  BY <1>1, SummaryRowAsSql
<1>3. \A j, l \in 1 .. m : keys[j] = keys[l] <=> Key(j) = Key(l)
  BY <1>1, GroupsAsSql DEF Comparable, SameKeys
<1>4. DOMAIN out = DOMAIN heads /\ \A g \in DOMAIN heads : out[g] = SummaryRow(x, st, heads[g])
  BY DEF SummaryRows
<1>5. \A v : v \in All <=> \E j \in 1 .. m : v = Sql(j)
  BY <1>1, SqlSummaryIs
<1>6. ASSUME NEW j \in 1 .. m, NEW l \in 1 .. m, Sql(j) = Sql(l) PROVE Key(j) = Key(l)
  <2> DEFINE a == Len(st.keys)
             b == Len(st.aggs)
             u == Key(j)
             v == Key(l)
             y == SqlAggregates(x, st, u)
             z == SqlAggregates(x, st, v)
  <2>1. u \in Wide(a) /\ v \in Wide(a) /\ y \in Wide(b) /\ z \in Wide(b) /\ a \in Nat /\ b \in Nat
    BY <1>1, SummaryRowAsSql, NamesTyped
  <2>2. u \o y = v \o z
    BY <1>6 DEF SqlRow
  <2> HIDE DEF u, v, y, z, a, b
  <2>3. \A i \in 1 .. a : (u \o y)[i] = u[i] /\ (v \o z)[i] = v[i]
    BY <2>1, WiderRow
  <2>4. \A i \in 1 .. a : u[i] = v[i]
    BY <2>2, <2>3
  <2>5. u \in Seq(Value) /\ v \in Seq(Value) /\ Len(u) = a /\ Len(v) = a
    BY <2>1 DEF Wide
  <2>6. u = v
    BY <2>4, <2>5, SeqEqual
  <2> QED BY <2>6 DEF u, v
<1> HIDE DEF Sql, Key, All, keys, m
<1>7. c \in Nat /\ DOMAIN heads = 1 .. c /\ \A g \in 1 .. c : heads[g] \in 1 .. m
  BY <1>1, FirstsTyped
<1>8. /\ \A j \in 1 .. m : \E g \in 1 .. c : keys[heads[g]] = keys[j]
      /\ \A g, h \in 1 .. c : keys[heads[g]] = keys[heads[h]] => g = h
  BY <1>1, <1>7, HeadsOnce
<1> HIDE DEF heads, c, out
<1>9. \A g \in 1 .. c : AlikeRow(out[g]) = Sql(heads[g]) /\ p[g] = Sql(heads[g])
  BY <1>2, <1>4, <1>7
<1> HIDE DEF p
<1>10. ASSUME NEW v \in All PROVE \E g \in 1 .. c : v = Sql(heads[g])
  <2>1. PICK j \in 1 .. m : v = Sql(j)
    BY <1>5
  <2>2. PICK g \in 1 .. c : keys[heads[g]] = keys[j]
    BY <1>8
  <2>3. Key(heads[g]) = Key(j)
    BY <1>3, <1>7, <2>2
  <2>4. Sql(heads[g]) = Sql(j)
    BY <2>3 DEF Sql
  <2> QED BY <2>1, <2>4
<1>11. \A g \in 1 .. c : Sql(heads[g]) \in All
  BY <1>5, <1>7
<1>12. RowSet(out) = All
  <2>1. \A v : v \in RowSet(out) <=> \E g \in 1 .. c : v = AlikeRow(out[g])
    BY <1>4, <1>7 DEF RowSet
  <2> QED BY <1>9, <1>10, <1>11, <2>1
<1>13. Enumerates(p, c, All)
  <2>1. ASSUME NEW g \in 1 .. c, NEW h \in 1 .. c, p[g] = p[h] PROVE g = h
    <3>1. Sql(heads[g]) = Sql(heads[h])
      BY <1>9, <2>1
    <3>2. Key(heads[g]) = Key(heads[h])
      BY <1>6, <1>7, <3>1
    <3>3. keys[heads[g]] = keys[heads[h]]
      BY <1>3, <1>7, <3>2
    <3> QED BY <1>8, <3>3
  <2>2. \A g \in 1 .. c : p[g] \in All
    BY <1>9, <1>11
  <2>3. \A v \in All : \E g \in 1 .. c : p[g] = v
    BY <1>9, <1>10
  <2> QED BY <2>1, <2>2, <2>3 DEF Enumerates
<1>14. Cardinality(All) = c
  BY <1>7, <1>13, EnumeratedSize
<1>15. Len(out) = c
  <2>1. DOMAIN out = 1 .. c /\ out = [g \in 1 .. c |-> out[g]]
    BY <1>4, <1>7 DEF out, SummaryRows, heads
  <2>2. \A g \in 1 .. c : out[g] \in {out[h] : h \in 1 .. c}
    OBVIOUS
  <2> QED BY <1>7, <2>1, <2>2, MadeSeq
<1> QED BY <1>12, <1>14, <1>15 DEF out, All

\* A summarize run here answers the rows the backend would have answered, one for every
\* combination of keys, wherever the two are comparable, whatever the rows, the keys and
\* the aggregates (exec_client.go:16-18).
THEOREM SummaryIsSqls == Spec => SummaryAsBackend
<1> DEFINE Want ==
       At("Aggregate") /\ Comparable(res, Stage) =>
         /\ RowSet(res'.rows) = SqlSummary(res, Stage)
         /\ Len(res'.rows) = Cardinality(SqlSummary(res, Stage))
<1>1. TypeOK /\ [Next]_vars => [Want]_vars
  <2> SUFFICES ASSUME TypeOK, Next, At("Aggregate"), Comparable(res, Stage) PROVE Want
    OBVIOUS
  <2> DEFINE out == SummaryRows(res, Stage)
  <2>1. res' = AggregateRows(res, Stage)
    BY DEF Next, At, Apply, ExecMvExpand, ExecMvApply, ExecParse, ExecMakeSeries, ExecAggregate, ExecLimit, ExecProject, PassThrough
  <2>2. Stage \in Stages
    BY StageTyped DEF At
  <2>3. res \in Result
    BY DEF TypeOK
  <2>4. res'.rows = out
    BY <2>1, SummaryIs
  <2>5. RowSet(out) = SqlSummary(res, Stage) /\ Len(out) = Cardinality(SqlSummary(res, Stage))
    BY <2>2, <2>3, SummaryAsSql
  <2> HIDE DEF out
  <2> QED BY <2>4, <2>5
<1> QED BY <1>1, TypeCorrect, PTL DEF Spec, SummaryAsBackend

=============================================================================
