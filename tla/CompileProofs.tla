---------------------------- MODULE CompileProofs ----------------------------
(***************************************************************************)
(* Proofs about Compile, for pipelines of any length over any columns.       *)
(***************************************************************************)
EXTENDS Compile, SequenceTheorems, FunctionTheorems, Induction

-----------------------------------------------------------------------------
(* What the stages make of rows: sorting puts every row at one place, and    *)
(* each stage leaves rows that have its columns.                             *)

\* Rows at finitely many places, with the columns C and integers in them.
Typed(r, C) ==
  /\ DOMAIN r \subseteq Nat /\ IsFiniteSet(DOMAIN r)
  /\ r \in [DOMAIN r -> [C -> Int]]

\* Sequences of rows are rows at places.
LEMMA SequenceTyped ==
  ASSUME NEW C, NEW s \in Seq([C -> Int])
  PROVE  Typed(s, C)
<1>1. Len(s) \in Nat /\ DOMAIN s = 1 .. Len(s) /\ s \in [1 .. Len(s) -> [C -> Int]]
  BY LenProperties
<1>2. IsFiniteSet(1 .. Len(s)) /\ 1 .. Len(s) \subseteq Nat
  BY <1>1, FS_Interval
<1> QED BY <1>1, <1>2 DEF Typed

-----------------------------------------------------------------------------
(* Sorting *)

\* By one key, rows are in order or agree.
LEMMA EarlierOrder ==
  ASSUME NEW C, NEW key, key.col \in C, NEW x \in [C -> Int], NEW y \in [C -> Int], NEW z \in [C -> Int]
  PROVE  /\ Earlier(x, y, key) => x[key.col] # y[key.col]
         /\ x[key.col] = y[key.col] \/ Earlier(x, y, key) \/ Earlier(y, x, key)
         /\ Earlier(x, y, key) /\ Earlier(y, z, key) => Earlier(x, z, key)
         /\ Earlier(x, y, key) /\ y[key.col] = z[key.col] => Earlier(x, z, key)
         /\ x[key.col] = y[key.col] /\ Earlier(y, z, key) => Earlier(x, z, key)
<1>1. x[key.col] \in Int /\ y[key.col] \in Int /\ z[key.col] \in Int
  OBVIOUS
<1> QED BY <1>1 DEF Earlier

\* x comes before y by key n and agrees with it on the ones before n.
ByKey(r, keys, j, k, n) ==
  Earlier(r[j], r[k], keys[n]) /\ \A m \in 1 .. n - 1 : r[j][keys[m].col] = r[k][keys[m].col]
AllAgree(r, keys, j, k) == \A n \in DOMAIN keys : r[j][keys[n].col] = r[k][keys[n].col]

\* By all keys, and the scan order where they agree, no row is before itself, one of two
\* rows is before the other, and a row before another is before all behind that.
LEMMA PrecedesOrder ==
  ASSUME NEW C, NEW r, Typed(r, C), NEW keys, Len(keys) \in Nat, DOMAIN keys = 1 .. Len(keys),
         KeyColumns(keys) \subseteq C
  PROVE  /\ \A j \in DOMAIN r : ~Precedes(r, keys, j, j)
         /\ \A j, k \in DOMAIN r : j # k => Precedes(r, keys, j, k) \/ Precedes(r, keys, k, j)
         /\ \A j, k, l \in DOMAIN r :
              Precedes(r, keys, j, k) /\ Precedes(r, keys, k, l) => Precedes(r, keys, j, l)
<1> DEFINE N == Len(keys)
           D == DOMAIN r
<1>1. \A j \in D : r[j] \in [C -> Int] /\ j \in Nat
  BY DEF Typed
<1>2. \A n \in 1 .. N : keys[n].col \in C
  BY DEF KeyColumns
<1>3. \A j, k \in D : Precedes(r, keys, j, k) <=>
        (\E n \in 1 .. N : ByKey(r, keys, j, k, n)) \/ (j < k /\ AllAgree(r, keys, j, k))
  BY DEF Precedes, ByKey, AllAgree
<1>4. \A j, k \in D : AllAgree(r, keys, j, k) <=> \A n \in 1 .. N : r[j][keys[n].col] = r[k][keys[n].col]
  BY DEF AllAgree
<1>5. ASSUME NEW j \in D PROVE ~Precedes(r, keys, j, j)
  <2>1. ASSUME NEW n \in 1 .. N PROVE ~ByKey(r, keys, j, j, n)
    BY <1>1, <1>2, EarlierOrder DEF ByKey
  <2> QED BY <1>1, <1>3, <2>1
<1>6. ASSUME NEW j \in D, NEW k \in D, j # k PROVE Precedes(r, keys, j, k) \/ Precedes(r, keys, k, j)
  <2> DEFINE Differ == {n \in 1 .. N : r[j][keys[n].col] # r[k][keys[n].col]}
  <2>1. CASE Differ = {}
    <3>1. AllAgree(r, keys, j, k) /\ AllAgree(r, keys, k, j)
      BY <1>4, <2>1
    <3>2. j < k \/ k < j
      BY <1>1, <1>6
    <3> QED BY <1>3, <3>1, <3>2
  <2>2. CASE Differ # {}
    <3>1. Differ \subseteq Nat
      OBVIOUS
    <3>2. PICK n \in Differ : \A m \in Differ : n <= m
      <4> HIDE DEF Differ
      <4> QED BY <2>2, <3>1, LeastElement
    <3>3. n \in 1 .. N /\ \A m \in 1 .. n - 1 : r[j][keys[m].col] = r[k][keys[m].col]
      BY <3>2
    <3>4. Earlier(r[j], r[k], keys[n]) \/ Earlier(r[k], r[j], keys[n])
      BY <1>1, <1>2, <3>2, EarlierOrder
    <3>5. ByKey(r, keys, j, k, n) \/ ByKey(r, keys, k, j, n)
      BY <3>3, <3>4 DEF ByKey
    <3> QED BY <1>3, <3>3, <3>5
  <2> QED BY <2>1, <2>2
<1>7. ASSUME NEW j \in D, NEW k \in D, NEW l \in D, Precedes(r, keys, j, k), Precedes(r, keys, k, l)
      PROVE  Precedes(r, keys, j, l)
  <2>0. r[j] \in [C -> Int] /\ r[k] \in [C -> Int] /\ r[l] \in [C -> Int] /\ j \in Nat /\ k \in Nat /\ l \in Nat
    BY <1>1
  <2>1. ASSUME NEW n \in 1 .. N, NEW m \in 1 .. N, ByKey(r, keys, j, k, n), ByKey(r, keys, k, l, m)
        PROVE  \E i \in 1 .. N : ByKey(r, keys, j, l, i)
    <3>1. CASE n < m
      <4>1. Earlier(r[j], r[l], keys[n])
        <5>1. n \in 1 .. m - 1 /\ keys[n].col \in C
          BY <1>2, <2>1, <3>1
        <5>2. r[k][keys[n].col] = r[l][keys[n].col] /\ Earlier(r[j], r[k], keys[n])
          BY <2>1, <5>1 DEF ByKey
        <5> QED BY <2>0, <5>1, <5>2, EarlierOrder
      <4>2. ByKey(r, keys, j, l, n)
        BY <2>1, <3>1, <4>1 DEF ByKey
      <4> QED BY <4>2
    <3>2. CASE m < n
      <4>1. Earlier(r[j], r[l], keys[m])
        <5>1. m \in 1 .. n - 1 /\ keys[m].col \in C
          BY <1>2, <2>1, <3>2
        <5>2. r[j][keys[m].col] = r[k][keys[m].col] /\ Earlier(r[k], r[l], keys[m])
          BY <2>1, <5>1 DEF ByKey
        <5> QED BY <2>0, <5>1, <5>2, EarlierOrder
      <4>2. ByKey(r, keys, j, l, m)
        BY <2>1, <3>2, <4>1 DEF ByKey
      <4> QED BY <4>2
    <3>3. CASE n = m
      <4>1. Earlier(r[j], r[l], keys[n])
        BY <1>2, <2>0, <2>1, <3>3, EarlierOrder DEF ByKey
      <4>2. ByKey(r, keys, j, l, n)
        BY <2>1, <3>3, <4>1 DEF ByKey
      <4> QED BY <4>2
    <3> QED BY <3>1, <3>2, <3>3
  <2>2. ASSUME NEW n \in 1 .. N, ByKey(r, keys, j, k, n), AllAgree(r, keys, k, l)
        PROVE  ByKey(r, keys, j, l, n)
    <3>1. \A m \in 1 .. N : r[k][keys[m].col] = r[l][keys[m].col]
      BY <1>4, <2>2
    <3>2. Earlier(r[j], r[l], keys[n])
      BY <1>2, <2>0, <2>2, <3>1, EarlierOrder DEF ByKey
    <3> QED BY <2>2, <3>1, <3>2 DEF ByKey
  <2>3. ASSUME NEW n \in 1 .. N, AllAgree(r, keys, j, k), ByKey(r, keys, k, l, n)
        PROVE  ByKey(r, keys, j, l, n)
    <3>1. \A m \in 1 .. N : r[j][keys[m].col] = r[k][keys[m].col]
      BY <1>4, <2>3
    <3>2. Earlier(r[j], r[l], keys[n])
      BY <1>2, <2>0, <2>3, <3>1, EarlierOrder DEF ByKey
    <3> QED BY <2>3, <3>1, <3>2 DEF ByKey
  <2>4. ASSUME j < k, k < l, AllAgree(r, keys, j, k), AllAgree(r, keys, k, l)
        PROVE  j < l /\ AllAgree(r, keys, j, l)
    BY <2>0, <2>4 DEF AllAgree
  <2> QED BY <1>3, <1>7, <2>1, <2>2, <2>3, <2>4
<1> QED BY <1>5, <1>6, <1>7

\* The place a row came from.
CameFrom(r, keys, p) == CHOOSE k \in DOMAIN r : Rank(r, keys, k) = p

\* Sorting puts each row at a place of its own.
LEMMA SortedFrom ==
  ASSUME NEW C, NEW r, Typed(r, C), NEW keys, Len(keys) \in Nat, DOMAIN keys = 1 .. Len(keys),
         KeyColumns(keys) \subseteq C
  PROVE  /\ Cardinality(DOMAIN r) \in Nat
         /\ Sorted(r, keys) = [p \in 1 .. Cardinality(DOMAIN r) |-> r[CameFrom(r, keys, p)]]
         /\ \A p \in 1 .. Cardinality(DOMAIN r) : CameFrom(r, keys, p) \in DOMAIN r /\ Rank(r, keys, CameFrom(r, keys, p)) = p
         /\ \A k \in DOMAIN r : Rank(r, keys, k) \in 1 .. Cardinality(DOMAIN r) /\ CameFrom(r, keys, Rank(r, keys, k)) = k
<1> DEFINE D == DOMAIN r
           f == [k \in D |-> {j \in D : Precedes(r, keys, j, k)}]
           n == Cardinality(D)
<1>1. IsFiniteSet(D) /\ n \in Nat
  BY FS_CardinalityType DEF Typed
<1>2. /\ \A j \in D : ~Precedes(r, keys, j, j)
      /\ \A j, k \in D : j # k => Precedes(r, keys, j, k) \/ Precedes(r, keys, k, j)
      /\ \A j, k, l \in D : Precedes(r, keys, j, k) /\ Precedes(r, keys, k, l) => Precedes(r, keys, j, l)
  BY PrecedesOrder
<1>3. Precedence(D, f)
  <2>1. \A j, k \in D : j \in f[k] <=> Precedes(r, keys, j, k)
    OBVIOUS
  <2>2. f \in [D -> SUBSET D]
    OBVIOUS
  <2> HIDE DEF f, D
  <2> QED BY <1>2, <2>1, <2>2 DEF Precedence
<1>4. /\ \A k \in D : Cardinality(f[k]) + 1 \in 1 .. n
      /\ \A p \in 1 .. n : \E k \in D : Cardinality(f[k]) + 1 = p
      /\ \A j, k \in D : Cardinality(f[j]) = Cardinality(f[k]) => j = k
  <2> HIDE DEF f, D
  <2> QED BY <1>1, <1>3, Places
<1>5. \A k \in D : Rank(r, keys, k) = Cardinality(f[k]) + 1 /\ Cardinality(f[k]) \in Nat
  <2>1. \A k \in D : Rank(r, keys, k) = Cardinality(f[k]) + 1
    BY DEF Rank
  <2>2. \A k \in D : f[k] \in SUBSET D
    OBVIOUS
  <2> HIDE DEF f, D
  <2> QED BY <1>1, <2>1, <2>2, FS_Subset, FS_CardinalityType
<1> HIDE DEF f
<1>6. \A p \in 1 .. n : \E k \in D : Rank(r, keys, k) = p
  BY <1>4, <1>5
<1>7. ASSUME NEW p \in 1 .. n PROVE CameFrom(r, keys, p) \in D /\ Rank(r, keys, CameFrom(r, keys, p)) = p
  BY <1>6 DEF CameFrom
<1>8. ASSUME NEW k \in D PROVE Rank(r, keys, k) \in 1 .. n /\ CameFrom(r, keys, Rank(r, keys, k)) = k
  <2>1. Rank(r, keys, k) \in 1 .. n
    BY <1>4, <1>5
  <2> DEFINE m == CameFrom(r, keys, Rank(r, keys, k))
  <2>2. m \in D /\ Rank(r, keys, m) = Rank(r, keys, k)
    BY <1>7, <2>1
  <2> HIDE DEF m
  <2>3. Cardinality(f[m]) = Cardinality(f[k])
    BY <1>5, <2>2
  <2>4. m = k
    BY <1>4, <2>2, <2>3
  <2> QED BY <2>1, <2>4 DEF m
<1>9. Sorted(r, keys) = [p \in 1 .. n |-> r[CameFrom(r, keys, p)]]
  BY DEF Sorted, CameFrom
<1> QED BY <1>1, <1>7, <1>8, <1>9

\* So sorted rows are the same rows in a sequence.
LEMMA SortedTyped ==
  ASSUME NEW C, NEW r, Typed(r, C), NEW keys, Len(keys) \in Nat, DOMAIN keys = 1 .. Len(keys),
         KeyColumns(keys) \subseteq C
  PROVE  /\ Typed(Sorted(r, keys), C) /\ Sorted(r, keys) \in Seq([C -> Int])
         /\ DOMAIN Sorted(r, keys) = 1 .. Cardinality(DOMAIN r)
<1> DEFINE n == Cardinality(DOMAIN r)
           s == Sorted(r, keys)
<1>1. /\ n \in Nat /\ s = [p \in 1 .. n |-> r[CameFrom(r, keys, p)]]
      /\ \A p \in 1 .. n : CameFrom(r, keys, p) \in DOMAIN r
  BY SortedFrom
<1> HIDE DEF s, n
<1>2. \A p \in 1 .. n : r[CameFrom(r, keys, p)] \in [C -> Int]
  BY <1>1 DEF Typed
<1>3. s \in [1 .. n -> [C -> Int]] /\ DOMAIN s = 1 .. n
  BY <1>1, <1>2
<1>4. IsFiniteSet(1 .. n) /\ 1 .. n \subseteq Nat
  BY <1>1, FS_Interval
<1>5. s \in Seq([C -> Int])
  BY <1>1, <1>3, IsASeq
<1> QED BY <1>3, <1>4, <1>5 DEF Typed, s, n

-----------------------------------------------------------------------------
(* What the other stages make of typed rows *)

\* An expression computes an integer from an integer.
Computes == \A v \in Int : Compute(v) \in Int

\* Rows that are dropped leave the others.
LEMMA KeepTyped ==
  ASSUME NEW C, NEW r, Typed(r, C), NEW S, S \subseteq DOMAIN r
  PROVE  Typed(Keep(r, S), C) /\ DOMAIN Keep(r, S) = S /\ \A k \in S : Keep(r, S)[k] = r[k]
<1>1. IsFiniteSet(S)
  BY FS_Subset DEF Typed
<1> QED BY <1>1 DEF Typed, Keep

\* A row of computed columns.
LEMMA OutRowTyped ==
  ASSUME Computes, NEW C, NEW row \in [C -> Int], NEW items, \A i \in items : i.ref \in C
  PROVE  OutRow(items, row) \in [{i.name : i \in items} -> Int]
<1>1. ASSUME NEW c \in {i.name : i \in items}
      PROVE  Item(CHOOSE i \in items : i.name = c, row) \in Int
  <2> DEFINE i == CHOOSE i \in items : i.name = c
  <2>1. i \in items
    OBVIOUS
  <2> HIDE DEF i
  <2>2. row[i.ref] \in Int
    BY <2>1
  <2>3. Item(i, row) \in Int
    BY <2>2 DEF Item, Computes
  <2> QED BY <2>3 DEF i
<1> QED BY <1>1 DEF OutRow

\* An extend adds its columns.
LEMMA ExtendedTyped ==
  ASSUME Computes, NEW C, NEW r, Typed(r, C), NEW items, \A i \in items : i.ref \in C
  PROVE  Typed(Extended(r, items), C \cup {i.name : i \in items})
<1> DEFINE names == {i.name : i \in items}
           Row(k) == [c \in DOMAIN r[k] \cup names |->
                        IF c \in DOMAIN r[k] THEN r[k][c] ELSE OutRow(items, r[k])[c]]
<1>1. ASSUME NEW k \in DOMAIN r PROVE Row(k) \in [C \cup names -> Int]
  <2>1. r[k] \in [C -> Int] /\ DOMAIN r[k] = C
    BY DEF Typed
  <2>2. OutRow(items, r[k]) \in [names -> Int]
    BY <2>1, OutRowTyped
  <2> HIDE DEF names
  <2>3. ASSUME NEW c \in C \cup names
        PROVE  (IF c \in DOMAIN r[k] THEN r[k][c] ELSE OutRow(items, r[k])[c]) \in Int
    <3>1. CASE c \in C
      BY <2>1, <3>1
    <3>2. CASE c \notin C
      BY <2>1, <2>2, <3>2
    <3> QED BY <3>1, <3>2
  <2> QED BY <2>1, <2>3
<1>2. Extended(r, items) = [k \in DOMAIN r |-> Row(k)]
  BY DEF Extended
<1> HIDE DEF Row, names
<1>3. Extended(r, items) \in [DOMAIN r -> [C \cup names -> Int]] /\ DOMAIN Extended(r, items) = DOMAIN r
  BY <1>1, <1>2
<1> QED BY <1>3 DEF Typed, names

\* A projection has no others.
LEMMA ProjectedTyped ==
  ASSUME Computes, NEW C, NEW r, Typed(r, C), NEW items, \A i \in items : i.ref \in C
  PROVE  Typed(Projected(r, items), {i.name : i \in items})
<1> DEFINE names == {i.name : i \in items}
<1>1. ASSUME NEW k \in DOMAIN r PROVE OutRow(items, r[k]) \in [names -> Int]
  <2>1. r[k] \in [C -> Int]
    BY DEF Typed
  <2> QED BY <2>1, OutRowTyped
<1> HIDE DEF names
<1>2. Projected(r, items) \in [DOMAIN r -> [names -> Int]] /\ DOMAIN Projected(r, items) = DOMAIN r
  BY <1>1 DEF Projected
<1> QED BY <1>2 DEF Typed, names

\* A row cut down to some of its columns.
LEMMA CutTyped ==
  ASSUME NEW C, NEW row \in [C -> Int], NEW cols, cols \subseteq C
  PROVE  Cut(row, cols) \in [cols -> Int] /\ \A c \in cols : Cut(row, cols)[c] = row[c]
BY DEF Cut

\* The leaders of groups are some of the rows.
LEMMA LeadersTyped ==
  ASSUME NEW C, NEW r, Typed(r, C), NEW cols
  PROVE  Leaders(r, cols) \subseteq DOMAIN r /\ Leaders(r, cols) \subseteq Nat /\ IsFiniteSet(Leaders(r, cols))
<1>1. Leaders(r, cols) \in SUBSET DOMAIN r
  BY DEF Leaders
<1>2. IsFiniteSet(Leaders(r, cols))
  BY <1>1, FS_Subset DEF Typed
<1> QED BY <1>1, <1>2 DEF Typed

\* One row of each group, cut down.
LEMMA DistinctTyped ==
  ASSUME NEW C, NEW r, Typed(r, C), NEW cols, cols \subseteq C
  PROVE  Typed(DistinctRows(r, cols), IF cols = {} THEN C ELSE cols)
<1>1. CASE DOMAIN r = {}
  <2>1. DistinctRows(r, cols) = r
    BY <1>1 DEF DistinctRows
  <2>2. \A X : r \in [DOMAIN r -> X]
    BY <1>1 DEF Typed
  <2> QED BY <2>1, <2>2 DEF Typed
<1>2. CASE DOMAIN r # {}
  <2> DEFINE on == IF cols = {} THEN DOMAIN r[CHOOSE k \in DOMAIN r : TRUE] ELSE cols
             after == IF cols = {} THEN C ELSE cols
  <2>1. on = after
    <3>1. (CHOOSE k \in DOMAIN r : TRUE) \in DOMAIN r
      BY <1>2
    <3>2. DOMAIN r[CHOOSE k \in DOMAIN r : TRUE] = C
      BY <3>1 DEF Typed
    <3> QED BY <3>2
  <2>2. DistinctRows(r, cols) = [k \in Leaders(r, on) |-> Cut(r[k], on)]
    BY <1>2 DEF DistinctRows
  <2>3. after \subseteq C
    OBVIOUS
  <2> HIDE DEF on, after
  <2>4. DistinctRows(r, cols) = [k \in Leaders(r, after) |-> Cut(r[k], after)]
    BY <2>1, <2>2
  <2>5. ASSUME NEW k \in Leaders(r, after) PROVE Cut(r[k], after) \in [after -> Int]
    <3>1. r[k] \in [C -> Int]
      BY LeadersTyped DEF Typed
    <3> QED BY <2>3, <3>1, CutTyped
  <2>6. /\ DistinctRows(r, cols) \in [Leaders(r, after) -> [after -> Int]]
        /\ DOMAIN DistinctRows(r, cols) = Leaders(r, after)
    BY <2>4, <2>5
  <2>7. Typed(DistinctRows(r, cols), after)
    BY <2>6, LeadersTyped DEF Typed
  <2> QED BY <2>7 DEF after
<1> QED BY <1>1, <1>2

\* One row of each group, counted.
LEMMA AggregatedTyped ==
  ASSUME Computes, NEW C, NEW r, Typed(r, C), NEW cols, cols \subseteq C, NEW items, \A i \in items : i.ref \in C
  PROVE  Typed(Aggregated(r, cols, items), cols \cup {i.name : i \in items} \cup {CountColumn})
<1> DEFINE names == {i.name : i \in items}
           by == cols \cup {i.ref : i \in items}
           after == cols \cup names \cup {CountColumn}
<1>1. Cardinality(DOMAIN r) \in Nat
  BY FS_CardinalityType DEF Typed
<1>2. CASE by = {}
  <2>1. Aggregated(r, cols, items) = [k \in {1} |-> [c \in {CountColumn} |-> Cardinality(DOMAIN r)]]
    BY <1>2 DEF Aggregated
  <2>2. after = {CountColumn}
    BY <1>2
  <2> HIDE DEF after, by, names
  <2>3. /\ Aggregated(r, cols, items) \in [{1} -> [{CountColumn} -> Int]]
        /\ DOMAIN Aggregated(r, cols, items) = {1}
    BY <1>1, <2>1
  <2>4. IsFiniteSet({1}) /\ {1} \subseteq Nat
    <3>1. IsFiniteSet({1})
      BY FS_Singleton
    <3> QED BY <3>1
  <2>5. Typed(Aggregated(r, cols, items), after)
    BY <2>2, <2>3, <2>4 DEF Typed
  <2> QED BY <2>5 DEF after, names
<1>3. CASE by # {}
  <2> DEFINE Value(k, c) == IF c = CountColumn THEN Cardinality(Group(r, by, k))
                            ELSE IF c \in cols THEN r[k][c] ELSE OutRow(items, r[k])[c]
  <2>1. Aggregated(r, cols, items) = [k \in Leaders(r, by) |-> [c \in after |-> Value(k, c)]]
    BY <1>3 DEF Aggregated
  <2>2. ASSUME NEW k \in Leaders(r, by), NEW c \in after PROVE Value(k, c) \in Int
    <3>1. r[k] \in [C -> Int]
      BY LeadersTyped DEF Typed
    <3>2. Group(r, by, k) \in SUBSET DOMAIN r
      BY DEF Group
    <3>3. Cardinality(Group(r, by, k)) \in Nat
      BY <3>2, FS_Subset, FS_CardinalityType DEF Typed
    <3>4. OutRow(items, r[k]) \in [names -> Int]
      BY <3>1, OutRowTyped
    <3>5. CASE c = CountColumn
      BY <3>3, <3>5
    <3>6. CASE c # CountColumn /\ c \in cols
      <4>1. r[k][c] \in Int
        BY <3>1, <3>6
      <4> QED BY <3>6, <4>1
    <3>7. CASE c # CountColumn /\ c \notin cols
      <4>1. c \in names
        BY <3>7
      <4>2. OutRow(items, r[k])[c] \in Int
        BY <3>4, <4>1
      <4> QED BY <3>7, <4>2
    <3> QED BY <3>5, <3>6, <3>7
  <2> HIDE DEF Value, after, by
  <2>3. /\ Aggregated(r, cols, items) \in [Leaders(r, by) -> [after -> Int]]
        /\ DOMAIN Aggregated(r, cols, items) = Leaders(r, by)
    BY <2>1, <2>2
  <2>4. Typed(Aggregated(r, cols, items), after)
    BY <2>3, LeadersTyped DEF Typed
  <2> QED BY <2>4 DEF after, names
<1> QED BY <1>2, <1>3

\* A stage without sub-pipelines leaves rows that have its columns.
LEMMA PlainTyped ==
  ASSUME Computes, NEW C, NEW r, Typed(r, C), NEW st, References(st) \subseteq C,
         Len(st.keys) \in Nat, DOMAIN st.keys = 1 .. Len(st.keys)
  PROVE  Typed(ApplyPlain(st, r), ColumnsAfter(st, C))
<1>1. /\ \A i \in st.items : i.ref \in C
      /\ KeyColumns(st.keys) \subseteq C /\ st.cols \subseteq C
  BY DEF References
<1>2. CASE st.op = "Filter"
  <2>1. ApplyPlain(st, r) = Where(r, st.preds) /\ ColumnsAfter(st, C) = C
    BY <1>2 DEF ApplyPlain, ColumnsAfter
  <2>2. Typed(Where(r, st.preds), C)
    <3> DEFINE S == {k \in DOMAIN r : \A p \in st.preds : Holds(p, r[k])}
    <3>1. S \subseteq DOMAIN r /\ Where(r, st.preds) = Keep(r, S)
      BY DEF Where
    <3> HIDE DEF S
    <3> QED BY <3>1, KeepTyped
  <2> QED BY <2>1, <2>2
<1>3. CASE st.op = "Extend"
  <2>1. ApplyPlain(st, r) = Extended(r, st.items) /\ ColumnsAfter(st, C) = C \cup {i.name : i \in st.items}
    BY <1>3 DEF ApplyPlain, ColumnsAfter
  <2> QED BY <1>1, <2>1, ExtendedTyped
<1>4. CASE st.op = "Project"
  <2>1. ApplyPlain(st, r) = Projected(r, st.items) /\ ColumnsAfter(st, C) = {i.name : i \in st.items}
    BY <1>4 DEF ApplyPlain, ColumnsAfter
  <2> QED BY <1>1, <2>1, ProjectedTyped
<1>5. CASE st.op = "Sort"
  <2>1. ApplyPlain(st, r) = (IF st.keys = <<>> THEN r ELSE Sorted(r, st.keys)) /\ ColumnsAfter(st, C) = C
    BY <1>5 DEF ApplyPlain, ColumnsAfter
  <2>2. Typed(Sorted(r, st.keys), C)
    BY <1>1, SortedTyped
  <2> QED BY <2>1, <2>2
<1>6. CASE st.op = "Limit"
  <2>1. ApplyPlain(st, r) = FirstRows(r, st.n) /\ ColumnsAfter(st, C) = C
    BY <1>6 DEF ApplyPlain, ColumnsAfter
  <2>2. Typed(FirstRows(r, st.n), C)
    <3> DEFINE S == {k \in DOMAIN r : Cardinality({j \in DOMAIN r : j < k}) < st.n}
    <3>1. S \subseteq DOMAIN r /\ FirstRows(r, st.n) = Keep(r, S)
      BY DEF FirstRows
    <3> HIDE DEF S
    <3> QED BY <3>1, KeepTyped
  <2> QED BY <2>1, <2>2
<1>7. CASE st.op = "Distinct"
  <2>1. ApplyPlain(st, r) = DistinctRows(r, st.cols) /\ ColumnsAfter(st, C) = IF st.cols = {} THEN C ELSE st.cols
    BY <1>7 DEF ApplyPlain, ColumnsAfter
  <2> QED BY <1>1, <2>1, DistinctTyped
<1>8. CASE st.op = "Aggregate"
  <2>1. /\ ApplyPlain(st, r) = Aggregated(r, st.cols, st.items)
        /\ ColumnsAfter(st, C) = st.cols \cup {i.name : i \in st.items} \cup {CountColumn}
    BY <1>8 DEF ApplyPlain, ColumnsAfter
  <2> QED BY <1>1, <2>1, AggregatedTyped
<1>9. CASE st.op \notin {"Filter", "Extend", "Project", "Sort", "Limit", "Distinct", "Aggregate"}
  <2>1. ApplyPlain(st, r) = r /\ ColumnsAfter(st, C) = C
    BY <1>9 DEF ApplyPlain, ColumnsAfter
  <2> QED BY <2>1
<1> QED BY <1>2, <1>3, <1>4, <1>5, <1>6, <1>7, <1>8, <1>9

\* One rowset behind another.
LEMMA ConcatTyped ==
  ASSUME NEW C, NEW r, Typed(r, C), NEW s, Typed(s, C)
  PROVE  Typed(Concat(r, s), C) /\ Concat(r, s) \in Seq([C -> Int])
<1>1. Len(<<>>) \in Nat /\ DOMAIN <<>> = 1 .. Len(<<>>) /\ KeyColumns(<<>>) \subseteq C
  BY DEF KeyColumns
<1>2. InOrder(r) \in Seq([C -> Int]) /\ InOrder(s) \in Seq([C -> Int])
  BY <1>1, SortedTyped DEF InOrder
<1>3. Concat(r, s) \in Seq([C -> Int])
  BY <1>2, ConcatProperties DEF Concat
<1> QED BY <1>3, SequenceTyped

-----------------------------------------------------------------------------
(* Rows that agree on some columns *)

\* At the same places, and the same there in the columns N.
Agree(q, r, N) ==
  /\ DOMAIN q = DOMAIN r
  /\ \A k \in DOMAIN r : \A c \in N : q[k][c] = r[k][c]

\* A filter on those columns drops the same rows.
LEMMA WhereAgrees ==
  ASSUME NEW N, NEW q, NEW r, Agree(q, r, N), NEW preds, PredColumns(preds) \subseteq N
  PROVE  Agree(Where(q, preds), Where(r, preds), N)
<1> DEFINE Q == {k \in DOMAIN q : \A p \in preds : Holds(p, q[k])}
           R == {k \in DOMAIN r : \A p \in preds : Holds(p, r[k])}
<1>1. ASSUME NEW k \in DOMAIN r, NEW p \in preds
      PROVE  Holds(p, q[k]) <=> Holds(p, r[k])
  <2>1. CASE p.kind = "eq"
    <3>1. p.col \in N
      BY <2>1 DEF PredColumns
    <3>2. q[k][p.col] = r[k][p.col]
      BY <3>1 DEF Agree
    <3> QED
      BY <2>1, <3>2 DEF Holds
  <2>2. CASE p.kind # "eq"
    BY <2>2 DEF Holds
  <2> QED
    BY <2>1, <2>2
<1>2. Q = R
  BY <1>1 DEF Agree
<1>3. Where(q, preds) = [k \in Q |-> q[k]] /\ Where(r, preds) = [k \in R |-> r[k]]
  BY DEF Where, Keep
<1>4. R \subseteq DOMAIN r
  OBVIOUS
<1> HIDE DEF Q, R
<1> QED
  BY <1>2, <1>3, <1>4 DEF Agree

\* A limit keeps rows by their places.
LEMMA FirstRowsAgree ==
  ASSUME NEW N, NEW q, NEW r, Agree(q, r, N), NEW n
  PROVE  Agree(FirstRows(q, n), FirstRows(r, n), N)
<1> DEFINE R == {k \in DOMAIN r : Cardinality({j \in DOMAIN r : j < k}) < n}
<1>1. FirstRows(q, n) = [k \in R |-> q[k]] /\ FirstRows(r, n) = [k \in R |-> r[k]]
  BY DEF FirstRows, Keep, Agree
<1>2. R \subseteq DOMAIN r
  OBVIOUS
<1> HIDE DEF R
<1> QED
  BY <1>1, <1>2 DEF Agree

\* A sort by those columns puts the same rows at the same places.
LEMMA SortedAgree ==
  ASSUME NEW N, NEW C, NEW D, NEW q, Typed(q, D), NEW r, Typed(r, C), Agree(q, r, N), NEW keys,
         Len(keys) \in Nat, DOMAIN keys = 1 .. Len(keys),
         KeyColumns(keys) \subseteq N, KeyColumns(keys) \subseteq C, KeyColumns(keys) \subseteq D
  PROVE  Agree(Sorted(q, keys), Sorted(r, keys), N)
<1>0. DOMAIN q = DOMAIN r
  BY DEF Agree
<1>1. \A k \in DOMAIN r : \A n \in DOMAIN keys : q[k][keys[n].col] = r[k][keys[n].col]
  BY DEF Agree, KeyColumns
<1>2. ASSUME NEW j \in DOMAIN r, NEW k \in DOMAIN r
      PROVE  Precedes(q, keys, j, k) <=> Precedes(r, keys, j, k)
  <2>1. \A n \in DOMAIN keys : q[j][keys[n].col] = r[j][keys[n].col] /\ q[k][keys[n].col] = r[k][keys[n].col]
    BY <1>1
  <2>2. \A n \in DOMAIN keys : Earlier(q[j], q[k], keys[n]) <=> Earlier(r[j], r[k], keys[n])
    BY <2>1 DEF Earlier
  <2>3. \A n \in DOMAIN keys : 1 .. n - 1 \subseteq DOMAIN keys
    OBVIOUS
  <2>4. \A n \in DOMAIN keys : ByKey(q, keys, j, k, n) <=> ByKey(r, keys, j, k, n)
    BY <2>1, <2>2, <2>3 DEF ByKey
  <2>5. AllAgree(q, keys, j, k) <=> AllAgree(r, keys, j, k)
    BY <2>1 DEF AllAgree
  <2>6. Precedes(q, keys, j, k) <=>
          ((\E n \in DOMAIN keys : ByKey(q, keys, j, k, n)) \/ (j < k /\ AllAgree(q, keys, j, k)))
    BY DEF Precedes, ByKey, AllAgree
  <2>7. Precedes(r, keys, j, k) <=>
          ((\E n \in DOMAIN keys : ByKey(r, keys, j, k, n)) \/ (j < k /\ AllAgree(r, keys, j, k)))
    BY DEF Precedes, ByKey, AllAgree
  <2> QED
    BY <2>4, <2>5, <2>6, <2>7
<1>3. ASSUME NEW k \in DOMAIN r
      PROVE  Rank(q, keys, k) = Rank(r, keys, k)
  <2>1. {j \in DOMAIN q : Precedes(q, keys, j, k)} = {j \in DOMAIN r : Precedes(r, keys, j, k)}
    BY <1>0, <1>2
  <2> QED
    BY <2>1 DEF Rank
<1>4. /\ Sorted(q, keys) = [p \in 1 .. Cardinality(DOMAIN q) |-> q[CameFrom(q, keys, p)]]
      /\ \A p \in 1 .. Cardinality(DOMAIN q) :
           CameFrom(q, keys, p) \in DOMAIN q /\ Rank(q, keys, CameFrom(q, keys, p)) = p
  BY SortedFrom
<1>5. /\ Sorted(r, keys) = [p \in 1 .. Cardinality(DOMAIN r) |-> r[CameFrom(r, keys, p)]]
      /\ \A k \in DOMAIN r : CameFrom(r, keys, Rank(r, keys, k)) = k
  BY SortedFrom
<1>6. \A p \in 1 .. Cardinality(DOMAIN r) :
        CameFrom(q, keys, p) \in DOMAIN r /\ CameFrom(r, keys, p) = CameFrom(q, keys, p)
  BY <1>0, <1>3, <1>4, <1>5
<1>7. DOMAIN Sorted(q, keys) = 1 .. Cardinality(DOMAIN r) /\ DOMAIN Sorted(r, keys) = 1 .. Cardinality(DOMAIN r)
  BY <1>0, <1>4, <1>5
<1>8. ASSUME NEW p \in 1 .. Cardinality(DOMAIN r), NEW c \in N
      PROVE  Sorted(q, keys)[p][c] = Sorted(r, keys)[p][c]
  <2>1. Sorted(q, keys)[p] = q[CameFrom(q, keys, p)] /\ Sorted(r, keys)[p] = r[CameFrom(q, keys, p)]
    BY <1>0, <1>4, <1>5, <1>6
  <2> QED
    BY <1>6, <2>1 DEF Agree
<1> QED
  BY <1>7, <1>8 DEF Agree

\* Rows that are distinct in those columns are the same rows.
LEMMA DistinctAgrees ==
  ASSUME NEW N, NEW q, NEW r, Agree(q, r, N), NEW cols, cols # {}, cols \subseteq N
  PROVE  Agree(DistinctRows(q, cols), DistinctRows(r, cols), N)
<1>0. DOMAIN q = DOMAIN r
  BY DEF Agree
<1>1. CASE DOMAIN r = {}
  BY <1>0, <1>1 DEF DistinctRows
<1>2. CASE DOMAIN r # {}
  <2>1. \A k \in DOMAIN r : Cut(q[k], cols) = Cut(r[k], cols)
    BY DEF Cut, Agree
  <2>2. \A k \in DOMAIN r : Group(q, cols, k) = Group(r, cols, k)
    BY <1>0, <2>1 DEF Group
  <2>3. Leaders(q, cols) = Leaders(r, cols) /\ Leaders(r, cols) \subseteq DOMAIN r
    BY <1>0, <2>2 DEF Leaders
  <2>4. DistinctRows(q, cols) = [k \in Leaders(q, cols) |-> Cut(q[k], cols)]
    BY <1>0, <1>2 DEF DistinctRows
  <2>5. DistinctRows(r, cols) = [k \in Leaders(r, cols) |-> Cut(r[k], cols)]
    BY <1>2 DEF DistinctRows
  <2>6. DistinctRows(q, cols) = DistinctRows(r, cols)
    BY <2>1, <2>3, <2>4, <2>5
  <2> QED
    BY <2>6 DEF Agree
<1> QED
  BY <1>1, <1>2

\* Stages that pass on rows whole or by columns they name, all of them among some columns.
PassesOn(st, cols) ==
  /\ st.op \in {"Filter", "Sort", "Limit", "Distinct"} /\ (st.op = "Distinct" => st.cols # {})
  /\ References(st) \subseteq cols
  /\ Len(st.keys) \in Nat /\ DOMAIN st.keys = 1 .. Len(st.keys)

\* They look at no other columns.
LEMMA PassAgrees ==
  ASSUME NEW N, NEW C, NEW D, NEW q, Typed(q, D), NEW r, Typed(r, C), Agree(q, r, N),
         NEW st, PassesOn(st, N), PassesOn(st, C), PassesOn(st, D)
  PROVE  Agree(ApplyPlain(st, q), ApplyPlain(st, r), N)
<1>1. /\ PredColumns(st.preds) \subseteq N /\ st.cols \subseteq N
      /\ KeyColumns(st.keys) \subseteq N /\ KeyColumns(st.keys) \subseteq C /\ KeyColumns(st.keys) \subseteq D
      /\ Len(st.keys) \in Nat /\ DOMAIN st.keys = 1 .. Len(st.keys)
      /\ st.op \in {"Filter", "Sort", "Limit", "Distinct"} /\ (st.op = "Distinct" => st.cols # {})
  BY DEF References, PassesOn
<1>2. CASE st.op = "Filter"
  <2>1. ApplyPlain(st, q) = Where(q, st.preds) /\ ApplyPlain(st, r) = Where(r, st.preds)
    BY <1>2 DEF ApplyPlain
  <2> QED
    BY <1>1, <2>1, WhereAgrees
<1>3. CASE st.op = "Sort"
  <2>1. CASE st.keys = <<>>
    <3>1. ApplyPlain(st, q) = q /\ ApplyPlain(st, r) = r
      BY <1>3, <2>1 DEF ApplyPlain
    <3> QED
      BY <3>1
  <2>2. CASE st.keys # <<>>
    <3>1. ApplyPlain(st, q) = Sorted(q, st.keys) /\ ApplyPlain(st, r) = Sorted(r, st.keys)
      BY <1>3, <2>2 DEF ApplyPlain
    <3>2. Agree(Sorted(q, st.keys), Sorted(r, st.keys), N)
      BY <1>1, SortedAgree
    <3> QED
      BY <3>1, <3>2
  <2> QED
    BY <2>1, <2>2
<1>4. CASE st.op = "Limit"
  <2>1. ApplyPlain(st, q) = FirstRows(q, st.n) /\ ApplyPlain(st, r) = FirstRows(r, st.n)
    BY <1>4 DEF ApplyPlain
  <2> QED
    BY <2>1, FirstRowsAgree
<1>5. CASE st.op = "Distinct"
  <2>1. ApplyPlain(st, q) = DistinctRows(q, st.cols) /\ ApplyPlain(st, r) = DistinctRows(r, st.cols)
    BY <1>5 DEF ApplyPlain
  <2>2. Agree(DistinctRows(q, st.cols), DistinctRows(r, st.cols), N)
    BY <1>1, <1>5, DistinctAgrees
  <2> QED
    BY <2>1, <2>2
<1> QED
  BY <1>1, <1>2, <1>3, <1>4, <1>5

\* The items of a projection of columns.
BareItems(items) == \A i \in items : i.how = "bare" /\ i.name = i.ref

\* Such a projection keeps its columns of a row.
LEMMA BareRow ==
  ASSUME NEW items, BareItems(items), NEW row, NEW c \in {i.name : i \in items}
  PROVE  OutRow(items, row)[c] = row[c]
<1> DEFINE it == CHOOSE i \in items : i.name = c
<1>1. it \in items /\ it.name = c
  OBVIOUS
<1>2. Item(it, row) = row[c]
  BY <1>1 DEF Item, BareItems
<1>3. OutRow(items, row)[c] = Item(it, row)
  BY DEF OutRow
<1> QED
  BY <1>2, <1>3

\* It leaves the same rows of rows that agree on its columns.
LEMMA BareAgrees ==
  ASSUME NEW N, NEW q, NEW r, Agree(q, r, N), NEW items, BareItems(items), {i.name : i \in items} \subseteq N
  PROVE  Projected(q, items) = Projected(r, items)
<1>1. ASSUME NEW k \in DOMAIN r
      PROVE  OutRow(items, q[k]) = OutRow(items, r[k])
  <2>1. \A c \in {i.name : i \in items} : OutRow(items, q[k])[c] = OutRow(items, r[k])[c]
    BY BareRow DEF Agree
  <2>2. /\ OutRow(items, q[k]) = [c \in {i.name : i \in items} |-> OutRow(items, q[k])[c]]
        /\ OutRow(items, r[k]) = [c \in {i.name : i \in items} |-> OutRow(items, r[k])[c]]
    BY DEF OutRow
  <2> QED
    BY <2>1, <2>2
<1> QED
  BY <1>1 DEF Projected, Agree

\* And it leaves rows that agree with those it reads.
LEMMA BareKeeps ==
  ASSUME NEW r, NEW items, BareItems(items)
  PROVE  Agree(Projected(r, items), r, {i.name : i \in items})
BY BareRow DEF Projected, Agree

-----------------------------------------------------------------------------
(* The same rows in the same order, at whatever places *)

\* h takes the places of q to those of r, in their order and each to an equal row.
Matches(h, q, r) ==
  /\ h \in [DOMAIN q -> DOMAIN r]
  /\ \A k \in DOMAIN r : \E j \in DOMAIN q : h[j] = k
  /\ \A j, k \in DOMAIN q : j < k <=> h[j] < h[k]
  /\ \A k \in DOMAIN q : q[k] = r[h[k]]
Alike(q, r) == \E h : Matches(h, q, r)

\* Every rowset is like itself.
LEMMA AlikeItself ==
  ASSUME NEW r
  PROVE  Alike(r, r)
<1> DEFINE h == [k \in DOMAIN r |-> k]
<1>1. h \in [DOMAIN r -> DOMAIN r] /\ \A k \in DOMAIN r : h[k] = k
  OBVIOUS
<1> HIDE DEF h
<1>2. Matches(h, r, r)
  BY <1>1 DEF Matches
<1> QED
  BY <1>2 DEF Alike

\* What is like something like a third is like the third.
LEMMA AlikeTransitive ==
  ASSUME NEW q, NEW r, NEW s, Alike(q, r), Alike(r, s)
  PROVE  Alike(q, s)
<1>1. PICK g : Matches(g, q, r)
  BY DEF Alike
<1>2. PICK h : Matches(h, r, s)
  BY DEF Alike
<1> DEFINE f == [k \in DOMAIN q |-> h[g[k]]]
<1>3. /\ \A k \in DOMAIN q : g[k] \in DOMAIN r /\ q[k] = r[g[k]]
      /\ \A k \in DOMAIN r : \E j \in DOMAIN q : g[j] = k
      /\ \A j, k \in DOMAIN q : j < k <=> g[j] < g[k]
  BY <1>1 DEF Matches
<1>4. /\ \A k \in DOMAIN r : h[k] \in DOMAIN s /\ r[k] = s[h[k]]
      /\ \A k \in DOMAIN s : \E j \in DOMAIN r : h[j] = k
      /\ \A j, k \in DOMAIN r : j < k <=> h[j] < h[k]
  BY <1>2 DEF Matches
<1>5. f \in [DOMAIN q -> DOMAIN s] /\ \A k \in DOMAIN q : f[k] = h[g[k]]
  BY <1>3, <1>4
<1> HIDE DEF f
<1>6. ASSUME NEW k \in DOMAIN s PROVE \E j \in DOMAIN q : f[j] = k
  <2>1. PICK i \in DOMAIN r : h[i] = k
    BY <1>4
  <2>2. PICK j \in DOMAIN q : g[j] = i
    BY <1>3
  <2> QED
    BY <1>5, <2>1, <2>2
<1>7. \A j, k \in DOMAIN q : j < k <=> f[j] < f[k]
  BY <1>3, <1>4, <1>5
<1>8. \A k \in DOMAIN q : q[k] = s[f[k]]
  BY <1>3, <1>4, <1>5
<1>9. Matches(f, q, s)
  BY <1>5, <1>6, <1>7, <1>8 DEF Matches
<1> QED
  BY <1>9 DEF Alike

\* No two places are taken to one.
LEMMA MatchesOnce ==
  ASSUME NEW C, NEW h, NEW q, Typed(q, C), NEW r, Typed(r, C), Matches(h, q, r)
  PROVE  \A j, k \in DOMAIN q : /\ h[j] \in DOMAIN r /\ (h[j] = h[k] => j = k)
                                /\ (j <= k <=> h[j] <= h[k])
<1> TAKE j, k \in DOMAIN q
<1>1. /\ j \in Nat /\ k \in Nat /\ h[j] \in Nat /\ h[k] \in Nat /\ h[j] \in DOMAIN r
      /\ (j < k <=> h[j] < h[k]) /\ (k < j <=> h[k] < h[j])
  BY DEF Typed, Matches
<1>2. j = k => h[j] = h[k]
  OBVIOUS
<1> QED
  BY <1>1, <1>2

\* So as many places are taken into a set as there are in it.
LEMMA MatchedCount ==
  ASSUME NEW C, NEW h, NEW q, Typed(q, C), NEW r, Typed(r, C), Matches(h, q, r), NEW T, T \subseteq DOMAIN r
  PROVE  Cardinality({j \in DOMAIN q : h[j] \in T}) = Cardinality(T)
<1> DEFINE S == {j \in DOMAIN q : h[j] \in T}
           g == [j \in S |-> h[j]]
<1>1. IsFiniteSet(S)
  <2>1. S \subseteq DOMAIN q
    OBVIOUS
  <2> HIDE DEF S
  <2> QED
    BY <2>1, FS_Subset DEF Typed
<1>2. g \in [S -> T]
  OBVIOUS
<1>3. \A a, b \in S : g[a] = g[b] => a = b
  BY MatchesOnce
<1>4. \A t \in T : \E a \in S : g[a] = t
  BY DEF Matches
<1> HIDE DEF S, g
<1>5. g \in Bijection(S, T)
  BY <1>2, <1>3, <1>4, Fun_IsBij
<1>6. ExistsBijection(S, T)
  BY <1>5 DEF ExistsBijection
<1> QED
  BY <1>1, <1>6, FS_Bijection DEF S

\* Dropping the same rows of both leaves rows that match.
LEMMA MatchesSome ==
  ASSUME NEW h, NEW q, NEW r, Matches(h, q, r), NEW x, NEW y,
         DOMAIN y \subseteq DOMAIN r, DOMAIN x = {k \in DOMAIN q : h[k] \in DOMAIN y},
         \A k \in DOMAIN x : x[k] = y[h[k]]
  PROVE  Alike(x, y)
<1> DEFINE g == [k \in DOMAIN x |-> h[k]]
<1>1. g \in [DOMAIN x -> DOMAIN y] /\ \A k \in DOMAIN x : g[k] = h[k]
  OBVIOUS
<1> HIDE DEF g
<1>2. ASSUME NEW k \in DOMAIN y PROVE \E j \in DOMAIN x : g[j] = k
  <2>1. PICK j \in DOMAIN q : h[j] = k
    BY DEF Matches
  <2> QED
    BY <1>1, <2>1
<1>3. \A j, k \in DOMAIN x : j < k <=> g[j] < g[k]
  BY <1>1 DEF Matches
<1>4. Matches(g, x, y)
  BY <1>1, <1>2, <1>3 DEF Matches
<1> QED
  BY <1>4 DEF Alike

\* A filter keeps like rows alike.
LEMMA WhereAlike ==
  ASSUME NEW q, NEW r, Alike(q, r), NEW preds
  PROVE  Alike(Where(q, preds), Where(r, preds))
<1>1. PICK h : Matches(h, q, r)
  BY DEF Alike
<1> DEFINE Q == {k \in DOMAIN q : \A p \in preds : Holds(p, q[k])}
           R == {k \in DOMAIN r : \A p \in preds : Holds(p, r[k])}
<1>2. Where(q, preds) = [k \in Q |-> q[k]] /\ Where(r, preds) = [k \in R |-> r[k]]
  BY DEF Where, Keep
<1>3. \A k \in DOMAIN q : h[k] \in DOMAIN r /\ q[k] = r[h[k]]
  BY <1>1 DEF Matches
<1>4. Q = {k \in DOMAIN q : h[k] \in R} /\ R \subseteq DOMAIN r /\ Q \subseteq DOMAIN q
  BY <1>3
<1> HIDE DEF Q, R
<1>5. /\ DOMAIN Where(r, preds) = R /\ DOMAIN Where(q, preds) = Q
      /\ \A k \in Q : Where(q, preds)[k] = q[k]
      /\ \A k \in R : Where(r, preds)[k] = r[k]
  BY <1>2
<1>6. \A k \in Q : Where(q, preds)[k] = Where(r, preds)[h[k]]
  BY <1>3, <1>4, <1>5
<1> QED
  BY <1>1, <1>4, <1>5, <1>6, MatchesSome

\* So does a limit.
LEMMA FirstRowsAlike ==
  ASSUME NEW C, NEW q, Typed(q, C), NEW r, Typed(r, C), Alike(q, r), NEW n
  PROVE  Alike(FirstRows(q, n), FirstRows(r, n))
<1>1. PICK h : Matches(h, q, r)
  BY DEF Alike
<1> DEFINE In(x, k) == Cardinality({j \in DOMAIN x : j < k})
           Q == {k \in DOMAIN q : In(q, k) < n}
           R == {k \in DOMAIN r : In(r, k) < n}
<1>2. FirstRows(q, n) = [k \in Q |-> q[k]] /\ FirstRows(r, n) = [k \in R |-> r[k]]
  BY DEF FirstRows, Keep
<1>3. \A k \in DOMAIN q : h[k] \in DOMAIN r /\ q[k] = r[h[k]]
  BY <1>1 DEF Matches
<1>4. ASSUME NEW k \in DOMAIN q PROVE In(q, k) = In(r, h[k])
  <2> DEFINE T == {j \in DOMAIN r : j < h[k]}
  <2>1. {j \in DOMAIN q : j < k} = {j \in DOMAIN q : h[j] \in T}
    BY <1>1, <1>3 DEF Matches
  <2>2. T \subseteq DOMAIN r
    OBVIOUS
  <2>3. Cardinality({j \in DOMAIN q : h[j] \in T}) = Cardinality(T)
    <3> HIDE DEF T
    <3> QED
      BY <1>1, <2>2, MatchedCount
  <2> QED
    BY <2>1, <2>3
<1> HIDE DEF In
<1>5. Q = {k \in DOMAIN q : h[k] \in R} /\ R \subseteq DOMAIN r /\ Q \subseteq DOMAIN q
  BY <1>3, <1>4
<1> HIDE DEF Q, R
<1>6. /\ DOMAIN FirstRows(r, n) = R /\ DOMAIN FirstRows(q, n) = Q
      /\ \A k \in Q : FirstRows(q, n)[k] = q[k]
      /\ \A k \in R : FirstRows(r, n)[k] = r[k]
  BY <1>2
<1>7. \A k \in Q : FirstRows(q, n)[k] = FirstRows(r, n)[h[k]]
  BY <1>3, <1>5, <1>6
<1> QED
  BY <1>1, <1>5, <1>6, <1>7, MatchesSome

\* A sort puts like rows at the same places.
LEMMA SortedAlike ==
  ASSUME NEW C, NEW q, Typed(q, C), NEW r, Typed(r, C), Alike(q, r), NEW keys,
         Len(keys) \in Nat, DOMAIN keys = 1 .. Len(keys), KeyColumns(keys) \subseteq C
  PROVE  Sorted(q, keys) = Sorted(r, keys)
<1>1. PICK h : Matches(h, q, r)
  BY DEF Alike
<1>2. \A k \in DOMAIN q : h[k] \in DOMAIN r /\ q[k] = r[h[k]]
  BY <1>1 DEF Matches
<1>3. ASSUME NEW j \in DOMAIN q, NEW k \in DOMAIN q
      PROVE  Precedes(q, keys, j, k) <=> Precedes(r, keys, h[j], h[k])
  <2>1. q[j] = r[h[j]] /\ q[k] = r[h[k]] /\ (j < k <=> h[j] < h[k])
    BY <1>1, <1>2 DEF Matches
  <2> QED
    BY <2>1 DEF Precedes
<1>4. ASSUME NEW k \in DOMAIN q PROVE Rank(q, keys, k) = Rank(r, keys, h[k])
  <2> DEFINE T == {j \in DOMAIN r : Precedes(r, keys, j, h[k])}
  <2>1. {j \in DOMAIN q : Precedes(q, keys, j, k)} = {j \in DOMAIN q : h[j] \in T}
    BY <1>2, <1>3
  <2>2. T \subseteq DOMAIN r
    OBVIOUS
  <2>3. Cardinality({j \in DOMAIN q : h[j] \in T}) = Cardinality(T)
    <3> HIDE DEF T
    <3> QED
      BY <1>1, <2>2, MatchedCount
  <2> QED
    BY <2>1, <2>3 DEF Rank
<1>5. Cardinality(DOMAIN q) = Cardinality(DOMAIN r)
  <2>1. {j \in DOMAIN q : h[j] \in DOMAIN r} = DOMAIN q
    BY <1>2
  <2> QED
    BY <1>1, <2>1, MatchedCount
<1>6. /\ Sorted(q, keys) = [p \in 1 .. Cardinality(DOMAIN q) |-> q[CameFrom(q, keys, p)]]
      /\ \A p \in 1 .. Cardinality(DOMAIN q) :
           CameFrom(q, keys, p) \in DOMAIN q /\ Rank(q, keys, CameFrom(q, keys, p)) = p
  BY SortedFrom
<1>7. /\ Sorted(r, keys) = [p \in 1 .. Cardinality(DOMAIN r) |-> r[CameFrom(r, keys, p)]]
      /\ \A k \in DOMAIN r : CameFrom(r, keys, Rank(r, keys, k)) = k
  BY SortedFrom
<1>8. \A p \in 1 .. Cardinality(DOMAIN q) : q[CameFrom(q, keys, p)] = r[CameFrom(r, keys, p)]
  BY <1>2, <1>4, <1>6, <1>7
<1> QED
  BY <1>5, <1>6, <1>7, <1>8

\* The places are in the order the keys and the scan make.
LEMMA RankOrder ==
  ASSUME NEW C, NEW r, Typed(r, C), NEW keys, Len(keys) \in Nat, DOMAIN keys = 1 .. Len(keys),
         KeyColumns(keys) \subseteq C
  PROVE  \A j, k \in DOMAIN r : Precedes(r, keys, j, k) <=> Rank(r, keys, j) < Rank(r, keys, k)
<1> DEFINE f(k) == {j \in DOMAIN r : Precedes(r, keys, j, k)}
<1>1. /\ \A j \in DOMAIN r : ~Precedes(r, keys, j, j)
      /\ \A j, k \in DOMAIN r : j # k => Precedes(r, keys, j, k) \/ Precedes(r, keys, k, j)
      /\ \A j, k, l \in DOMAIN r :
           Precedes(r, keys, j, k) /\ Precedes(r, keys, k, l) => Precedes(r, keys, j, l)
  BY PrecedesOrder
<1>2. \A k \in DOMAIN r : IsFiniteSet(f(k)) /\ Cardinality(f(k)) \in Nat /\ Rank(r, keys, k) = Cardinality(f(k)) + 1
  <2> TAKE k \in DOMAIN r
  <2>1. f(k) \in SUBSET DOMAIN r
    OBVIOUS
  <2>2. Rank(r, keys, k) = Cardinality(f(k)) + 1
    BY DEF Rank
  <2> HIDE DEF f
  <2> QED
    BY <2>1, <2>2, FS_Subset, FS_CardinalityType DEF Typed
<1>3. ASSUME NEW j \in DOMAIN r, NEW k \in DOMAIN r, Precedes(r, keys, j, k)
      PROVE  Rank(r, keys, j) < Rank(r, keys, k)
  <2>1. f(j) \subseteq f(k) /\ j \in f(k) /\ j \notin f(j)
    BY <1>1, <1>3
  <2> HIDE DEF f
  <2>2. Cardinality(f(j)) <= Cardinality(f(k)) /\ Cardinality(f(j)) # Cardinality(f(k))
    BY <1>2, <2>1, FS_Subset
  <2> QED
    BY <1>2, <2>2
<1> HIDE DEF f
<1>4. \A k \in DOMAIN r : Rank(r, keys, k) \in Nat
  BY <1>2
<1> QED
  BY <1>1, <1>3, <1>4

\* Filtering sorted rows leaves the rows sorted that the filter leaves.
LEMMA SortWhere ==
  ASSUME NEW C, NEW r, Typed(r, C), NEW preds, NEW keys, Len(keys) \in Nat, DOMAIN keys = 1 .. Len(keys),
         KeyColumns(keys) \subseteq C
  PROVE  Alike(Sorted(Where(r, preds), keys), Where(Sorted(r, keys), preds))
<1> DEFINE S == {k \in DOMAIN r : \A p \in preds : Holds(p, r[k])}
           w == Where(r, preds)
           s == Sorted(r, keys)
           y == Sorted(w, keys)
           x == Where(s, preds)
           n == Cardinality(DOMAIN r)
           m == Cardinality(S)
           T == {t \in 1 .. n : \A p \in preds : Holds(p, s[t])}
           h == [p \in 1 .. m |-> Rank(r, keys, CameFrom(w, keys, p))]
<1>1. w = Keep(r, S) /\ S \subseteq DOMAIN r
  BY DEF Where
<1> HIDE DEF w
<1>2. \A k \in S : \A p \in preds : Holds(p, r[k])
  OBVIOUS
<1>3. \A k \in DOMAIN r : (\A p \in preds : Holds(p, r[k])) => k \in S
  OBVIOUS
<1> HIDE DEF S
<1>4. Typed(w, C) /\ DOMAIN w = S /\ \A k \in S : w[k] = r[k]
  BY <1>1, KeepTyped
<1>5. /\ s = [p \in 1 .. n |-> r[CameFrom(r, keys, p)]]
      /\ \A p \in 1 .. n : CameFrom(r, keys, p) \in DOMAIN r /\ Rank(r, keys, CameFrom(r, keys, p)) = p
      /\ \A k \in DOMAIN r : Rank(r, keys, k) \in 1 .. n /\ CameFrom(r, keys, Rank(r, keys, k)) = k
  BY SortedFrom
<1>6. /\ y = [p \in 1 .. m |-> w[CameFrom(w, keys, p)]]
      /\ \A p \in 1 .. m : CameFrom(w, keys, p) \in S /\ Rank(w, keys, CameFrom(w, keys, p)) = p
      /\ \A k \in S : Rank(w, keys, k) \in 1 .. m /\ CameFrom(w, keys, Rank(w, keys, k)) = k
  BY <1>4, SortedFrom
<1> HIDE DEF s, y
<1>7. x = [t \in T |-> s[t]]
  BY <1>5 DEF Where, Keep
<1>8. \A t \in T : t \in 1 .. n /\ \A p \in preds : Holds(p, s[t])
  OBVIOUS
<1>9. \A t \in 1 .. n : (\A p \in preds : Holds(p, s[t])) => t \in T
  OBVIOUS
<1> HIDE DEF T, x
<1>10. ASSUME NEW k \in S PROVE Rank(r, keys, k) \in T /\ s[Rank(r, keys, k)] = r[k]
  <2>1. Rank(r, keys, k) \in 1 .. n /\ s[Rank(r, keys, k)] = r[k]
    BY <1>1, <1>5
  <2> QED
    BY <1>2, <1>9, <2>1
<1>11. h \in [1 .. m -> T] /\ \A p \in 1 .. m : h[p] = Rank(r, keys, CameFrom(w, keys, p))
  BY <1>6, <1>10
<1> HIDE DEF h
<1>12. ASSUME NEW t \in T PROVE \E p \in 1 .. m : h[p] = t
  <2> DEFINE k == CameFrom(r, keys, t)
  <2>1. t \in 1 .. n /\ k \in DOMAIN r /\ s[t] = r[k] /\ Rank(r, keys, k) = t
    BY <1>5, <1>8
  <2>2. k \in S
    BY <1>3, <1>8, <2>1
  <2>3. Rank(w, keys, k) \in 1 .. m /\ h[Rank(w, keys, k)] = t
    BY <1>6, <1>11, <2>1, <2>2
  <2> QED
    BY <2>3
<1>13. \A j, k \in S : Precedes(w, keys, j, k) <=> Precedes(r, keys, j, k)
  BY <1>4 DEF Precedes
<1>14. \A j, k \in S : Rank(w, keys, j) < Rank(w, keys, k) <=> Rank(r, keys, j) < Rank(r, keys, k)
  <2>1. \A j, k \in S : Precedes(w, keys, j, k) <=> Rank(w, keys, j) < Rank(w, keys, k)
    BY <1>4, RankOrder
  <2>2. \A j, k \in DOMAIN r : Precedes(r, keys, j, k) <=> Rank(r, keys, j) < Rank(r, keys, k)
    BY RankOrder
  <2> QED
    BY <1>1, <1>13, <2>1, <2>2
<1>15. ASSUME NEW j \in 1 .. m, NEW k \in 1 .. m PROVE j < k <=> h[j] < h[k]
  BY <1>6, <1>11, <1>14
<1>16. \A p \in 1 .. m : y[p] = x[h[p]]
  <2> TAKE p \in 1 .. m
  <2>1. CameFrom(w, keys, p) \in S /\ y[p] = r[CameFrom(w, keys, p)]
    BY <1>4, <1>6
  <2>2. h[p] \in T /\ s[h[p]] = r[CameFrom(w, keys, p)]
    BY <1>10, <1>11, <2>1
  <2> QED
    BY <1>7, <2>1, <2>2
<1>17. DOMAIN y = 1 .. m /\ DOMAIN x = T
  BY <1>6, <1>7
<1>18. Matches(h, y, x)
  BY <1>11, <1>12, <1>15, <1>16, <1>17 DEF Matches
<1> QED
  BY <1>18 DEF Alike, x, y, w, s

\* Places in one group go to places in one group, and the first of it to the first.
LEMMA LeadersMatch ==
  ASSUME NEW C, NEW h, NEW q, Typed(q, C), NEW r, Typed(r, C), Matches(h, q, r), NEW cols
  PROVE  \A k \in DOMAIN q : /\ Group(q, cols, k) = {j \in DOMAIN q : h[j] \in Group(r, cols, h[k])}
                             /\ (k \in Leaders(q, cols) <=> h[k] \in Leaders(r, cols))
<1> TAKE k \in DOMAIN q
<1>1. \A j \in DOMAIN q : h[j] \in DOMAIN r /\ q[j] = r[h[j]]
  BY DEF Matches
<1>2. \A j \in DOMAIN q : j \in Group(q, cols, k) <=> h[j] \in Group(r, cols, h[k])
  BY <1>1 DEF Group
<1>3. Group(q, cols, k) = {j \in DOMAIN q : h[j] \in Group(r, cols, h[k])}
  BY <1>2 DEF Group
<1>4. ASSUME k \in Leaders(q, cols) PROVE h[k] \in Leaders(r, cols)
  <2>1. ASSUME NEW i \in Group(r, cols, h[k]) PROVE h[k] <= i
    <3>1. PICK j \in DOMAIN q : h[j] = i
      BY <2>1 DEF Group, Matches
    <3>2. k <= j
      BY <1>2, <1>4, <2>1, <3>1 DEF Leaders
    <3> QED
      BY <3>1, <3>2, MatchesOnce
  <2> QED
    BY <1>1, <2>1 DEF Leaders
<1>5. ASSUME h[k] \in Leaders(r, cols) PROVE k \in Leaders(q, cols)
  <2>1. ASSUME NEW j \in Group(q, cols, k) PROVE k <= j
    <3>1. j \in DOMAIN q /\ h[j] \in Group(r, cols, h[k])
      BY <1>2, <2>1 DEF Group
    <3>2. h[k] <= h[j]
      BY <1>5, <3>1 DEF Leaders
    <3> QED
      BY <3>1, <3>2, MatchesOnce
  <2> QED
    BY <2>1 DEF Leaders
<1> QED
  BY <1>3, <1>4, <1>5

\* One of each group of like rows.
LEMMA DistinctAlike ==
  ASSUME NEW C, NEW q, Typed(q, C), NEW r, Typed(r, C), Alike(q, r), NEW cols
  PROVE  Alike(DistinctRows(q, cols), DistinctRows(r, cols))
<1>1. PICK h : Matches(h, q, r)
  BY DEF Alike
<1>2. /\ \A k \in DOMAIN q : h[k] \in DOMAIN r /\ q[k] = r[h[k]]
      /\ \A k \in DOMAIN r : \E j \in DOMAIN q : h[j] = k
  BY <1>1 DEF Matches
<1>3. CASE DOMAIN q = {}
  <2>1. DOMAIN r = {}
    BY <1>2, <1>3
  <2> QED
    BY <1>3, <2>1 DEF DistinctRows
<1>4. CASE DOMAIN q # {}
  <2>1. DOMAIN r # {}
    BY <1>2, <1>4
  <2> DEFINE on == IF cols = {} THEN C ELSE cols
             x == DistinctRows(q, cols)
             y == DistinctRows(r, cols)
  <2>2. /\ DOMAIN q[CHOOSE k \in DOMAIN q : TRUE] = C
        /\ DOMAIN r[CHOOSE k \in DOMAIN r : TRUE] = C
    BY <1>4, <2>1 DEF Typed
  <2>3. x = [k \in Leaders(q, on) |-> Cut(q[k], on)] /\ y = [k \in Leaders(r, on) |-> Cut(r[k], on)]
    BY <1>4, <2>1, <2>2 DEF DistinctRows
  <2> HIDE DEF on, x, y
  <2>4. \A k \in DOMAIN q : k \in Leaders(q, on) <=> h[k] \in Leaders(r, on)
    BY <1>1, LeadersMatch
  <2>5. /\ DOMAIN x = Leaders(q, on) /\ DOMAIN y = Leaders(r, on)
        /\ Leaders(q, on) \subseteq DOMAIN q /\ Leaders(r, on) \subseteq DOMAIN r
    BY <2>3 DEF Leaders
  <2>6. DOMAIN x = {k \in DOMAIN q : h[k] \in DOMAIN y}
    BY <2>4, <2>5
  <2>7. \A k \in DOMAIN x : x[k] = y[h[k]]
    BY <1>2, <2>3, <2>5, <2>6
  <2> QED
    BY <1>1, <2>5, <2>6, <2>7, MatchesSome DEF x, y
<1> QED
  BY <1>3, <1>4

\* The count of each group of like rows.
LEMMA AggregatedAlike ==
  ASSUME NEW C, NEW q, Typed(q, C), NEW r, Typed(r, C), Alike(q, r), NEW cols, NEW items
  PROVE  Alike(Aggregated(q, cols, items), Aggregated(r, cols, items))
<1>1. PICK h : Matches(h, q, r)
  BY DEF Alike
<1>2. \A k \in DOMAIN q : h[k] \in DOMAIN r /\ q[k] = r[h[k]]
  BY <1>1 DEF Matches
<1> DEFINE by == cols \cup {i.ref : i \in items}
           x == Aggregated(q, cols, items)
           y == Aggregated(r, cols, items)
<1>3. CASE by = {}
  <2>1. {j \in DOMAIN q : h[j] \in DOMAIN r} = DOMAIN q
    BY <1>2
  <2>2. Cardinality(DOMAIN q) = Cardinality(DOMAIN r)
    BY <1>1, <2>1, MatchedCount
  <2>3. x = y
    BY <1>3, <2>2 DEF Aggregated
  <2> QED
    BY <2>3, AlikeItself
<1>4. CASE by # {}
  <2> DEFINE Row(row, n) ==
               [c \in cols \cup {i.name : i \in items} \cup {CountColumn} |->
                  IF c = CountColumn THEN n
                  ELSE IF c \in cols THEN row[c] ELSE OutRow(items, row)[c]]
  <2>1. /\ x = [k \in Leaders(q, by) |-> Row(q[k], Cardinality(Group(q, by, k)))]
        /\ y = [k \in Leaders(r, by) |-> Row(r[k], Cardinality(Group(r, by, k)))]
    BY <1>4 DEF Aggregated
  <2> HIDE DEF by, x, y, Row
  <2>2. \A k \in DOMAIN q : /\ Group(q, by, k) = {j \in DOMAIN q : h[j] \in Group(r, by, h[k])}
                            /\ (k \in Leaders(q, by) <=> h[k] \in Leaders(r, by))
    BY <1>1, LeadersMatch
  <2>3. /\ DOMAIN x = Leaders(q, by) /\ DOMAIN y = Leaders(r, by)
        /\ Leaders(q, by) \subseteq DOMAIN q /\ Leaders(r, by) \subseteq DOMAIN r
    BY <2>1 DEF Leaders
  <2>4. DOMAIN x = {k \in DOMAIN q : h[k] \in DOMAIN y}
    BY <2>2, <2>3
  <2>5. \A k \in DOMAIN q : Cardinality(Group(q, by, k)) = Cardinality(Group(r, by, h[k]))
    <3> TAKE k \in DOMAIN q
    <3> DEFINE T == Group(r, by, h[k])
    <3>1. T \subseteq DOMAIN r
      BY DEF Group
    <3>2. Group(q, by, k) = {j \in DOMAIN q : h[j] \in T}
      BY <2>2
    <3> HIDE DEF T
    <3>3. Cardinality({j \in DOMAIN q : h[j] \in T}) = Cardinality(T)
      BY <1>1, <3>1, MatchedCount
    <3> QED
      BY <3>2, <3>3 DEF T
  <2>6. \A k \in DOMAIN x : x[k] = y[h[k]]
    <3> TAKE k \in DOMAIN x
    <3>1. k \in Leaders(q, by) /\ k \in DOMAIN q /\ h[k] \in Leaders(r, by)
      BY <2>2, <2>3
    <3>2. x[k] = Row(q[k], Cardinality(Group(q, by, k)))
      BY <2>1, <3>1
    <3>3. y[h[k]] = Row(r[h[k]], Cardinality(Group(r, by, h[k])))
      BY <2>1, <3>1
    <3> QED
      BY <1>2, <2>5, <3>1, <3>2, <3>3
  <2> QED
    BY <1>1, <2>3, <2>4, <2>6, MatchesSome DEF x, y
<1> QED
  BY <1>3, <1>4

\* Computing columns of like rows.
LEMMA ComputedAlike ==
  ASSUME NEW q, NEW r, Alike(q, r), NEW items
  PROVE  /\ Alike(Extended(q, items), Extended(r, items))
         /\ Alike(Projected(q, items), Projected(r, items))
<1>1. PICK h : Matches(h, q, r)
  BY DEF Alike
<1>2. \A k \in DOMAIN q : h[k] \in DOMAIN r /\ q[k] = r[h[k]]
  BY <1>1 DEF Matches
<1>3. DOMAIN q = {k \in DOMAIN q : h[k] \in DOMAIN r}
  BY <1>2
<1>4. Alike(Extended(q, items), Extended(r, items))
  <2> DEFINE x == Extended(q, items)
             y == Extended(r, items)
             Row(row) == [c \in DOMAIN row \cup {i.name : i \in items} |->
                            IF c \in DOMAIN row THEN row[c] ELSE OutRow(items, row)[c]]
  <2>1. x = [k \in DOMAIN q |-> Row(q[k])] /\ y = [k \in DOMAIN r |-> Row(r[k])]
    BY DEF Extended
  <2> HIDE DEF x, y, Row
  <2>2. DOMAIN x = DOMAIN q /\ DOMAIN y = DOMAIN r /\ \A k \in DOMAIN x : x[k] = y[h[k]]
    BY <1>2, <2>1
  <2> QED
    BY <1>1, <1>3, <2>2, MatchesSome DEF x, y
<1>5. Alike(Projected(q, items), Projected(r, items))
  <2> DEFINE x == Projected(q, items)
             y == Projected(r, items)
  <2>1. x = [k \in DOMAIN q |-> OutRow(items, q[k])] /\ y = [k \in DOMAIN r |-> OutRow(items, r[k])]
    BY DEF Projected
  <2> HIDE DEF x, y
  <2>2. DOMAIN x = DOMAIN q /\ DOMAIN y = DOMAIN r /\ \A k \in DOMAIN x : x[k] = y[h[k]]
    BY <1>2, <2>1
  <2> QED
    BY <1>1, <1>3, <2>2, MatchesSome DEF x, y
<1> QED
  BY <1>4, <1>5

\* No stage without sub-pipelines tells like rows apart.
LEMMA PlainAlike ==
  ASSUME NEW C, NEW q, Typed(q, C), NEW r, Typed(r, C), Alike(q, r), NEW st, References(st) \subseteq C,
         Len(st.keys) \in Nat, DOMAIN st.keys = 1 .. Len(st.keys)
  PROVE  Alike(ApplyPlain(st, q), ApplyPlain(st, r))
<1>1. KeyColumns(st.keys) \subseteq C
  BY DEF References
<1>2. CASE st.op = "Filter"
  BY <1>2, WhereAlike DEF ApplyPlain
<1>3. CASE st.op = "Extend"
  BY <1>3, ComputedAlike DEF ApplyPlain
<1>4. CASE st.op = "Project"
  BY <1>4, ComputedAlike DEF ApplyPlain
<1>5. CASE st.op = "Sort"
  <2>1. CASE st.keys = <<>>
    BY <1>5, <2>1 DEF ApplyPlain
  <2>2. CASE st.keys # <<>>
    <3>1. ApplyPlain(st, q) = Sorted(q, st.keys) /\ ApplyPlain(st, r) = Sorted(r, st.keys)
      BY <1>5, <2>2 DEF ApplyPlain
    <3>2. Sorted(q, st.keys) = Sorted(r, st.keys)
      BY <1>1, SortedAlike
    <3> QED
      BY <3>1, <3>2, AlikeItself
  <2> QED
    BY <2>1, <2>2
<1>6. CASE st.op = "Limit"
  <2>1. ApplyPlain(st, q) = FirstRows(q, st.n) /\ ApplyPlain(st, r) = FirstRows(r, st.n)
    BY <1>6 DEF ApplyPlain
  <2> QED
    BY <2>1, FirstRowsAlike
<1>7. CASE st.op = "Distinct"
  <2>1. ApplyPlain(st, q) = DistinctRows(q, st.cols) /\ ApplyPlain(st, r) = DistinctRows(r, st.cols)
    BY <1>7 DEF ApplyPlain
  <2> QED
    BY <2>1, DistinctAlike
<1>8. CASE st.op = "Aggregate"
  <2>1. /\ ApplyPlain(st, q) = Aggregated(q, st.cols, st.items)
        /\ ApplyPlain(st, r) = Aggregated(r, st.cols, st.items)
    BY <1>8 DEF ApplyPlain
  <2> QED
    BY <2>1, AggregatedAlike
<1>9. CASE st.op \notin {"Filter", "Extend", "Project", "Sort", "Limit", "Distinct", "Aggregate"}
  BY <1>9 DEF ApplyPlain
<1> QED
  BY <1>2, <1>3, <1>4, <1>5, <1>6, <1>7, <1>8, <1>9

\* Like rows come in the same order.
LEMMA InOrderAlike ==
  ASSUME NEW C, NEW q, Typed(q, C), NEW r, Typed(r, C), Alike(q, r)
  PROVE  InOrder(q) = InOrder(r)
<1>1. Len(<<>>) \in Nat /\ DOMAIN <<>> = 1 .. Len(<<>>) /\ KeyColumns(<<>>) \subseteq C
  BY DEF KeyColumns
<1> QED
  BY <1>1, SortedAlike DEF InOrder

\* Two rowsets without rows are alike.
LEMMA EmptyAlike ==
  ASSUME NEW q, NEW r, DOMAIN q = {}, DOMAIN r = {}
  PROVE  Alike(q, r)
<1> DEFINE h == [k \in {} |-> 0]
<1>1. Matches(h, q, r)
  BY DEF Matches
<1> QED
  BY <1>1 DEF Alike

\* No rows are the first none.
LEMMA NoFirstRows ==
  ASSUME NEW C, NEW r, Typed(r, C)
  PROVE  DOMAIN FirstRows(r, 0) = {}
<1>1. ASSUME NEW k \in DOMAIN r PROVE Cardinality({j \in DOMAIN r : j < k}) \in Nat
  <2>1. {j \in DOMAIN r : j < k} \in SUBSET DOMAIN r
    OBVIOUS
  <2> QED
    BY <2>1, FS_Subset, FS_CardinalityType DEF Typed
<1> QED
  BY <1>1 DEF FirstRows, Keep

-----------------------------------------------------------------------------
(* What is computed stage by stage *)

\* f[k] are the columns in front of stage k.
ColumnsChain(f, ss, source, n) ==
  f = [k \in 1 .. n |-> IF k = 1 THEN source ELSE ColumnsAfter(ss[k - 1], f[k - 1])]

\* There is such a function for any number of stages.
LEMMA ColumnsExist ==
  ASSUME NEW ss, NEW source, NEW n \in Nat, n >= 1
  PROVE  \E f : ColumnsChain(f, ss, source, n)
<1> DEFINE S == {m \in Nat : m >= 1 => \E f : ColumnsChain(f, ss, source, m)}
<1>1. \E f : ColumnsChain(f, ss, source, 1)
  <2> DEFINE f == [k \in 1 .. 1 |-> source]
  <2>1. [k \in 1 .. 1 |-> IF k = 1 THEN source ELSE ColumnsAfter(ss[k - 1], f[k - 1])] = f
    OBVIOUS
  <2> QED BY <2>1 DEF ColumnsChain
<1>2. 0 \in S
  BY <1>1
<1>3. ASSUME NEW m \in Nat, m \in S PROVE m + 1 \in S
  <2> SUFFICES ASSUME m >= 1 PROVE \E f : ColumnsChain(f, ss, source, m + 1)
    BY <1>1
  <2>1. PICK f : ColumnsChain(f, ss, source, m)
    BY <1>3
  <2> DEFINE g == [k \in 1 .. m + 1 |-> IF k = m + 1 THEN ColumnsAfter(ss[m], f[m]) ELSE f[k]]
  <2>2. ASSUME NEW k \in 1 .. m + 1
        PROVE  g[k] = IF k = 1 THEN source ELSE ColumnsAfter(ss[k - 1], g[k - 1])
    <3>1. CASE k = m + 1
      <4>1. g[k] = ColumnsAfter(ss[m], f[m]) /\ g[k - 1] = f[m] /\ k # 1
        BY <3>1
      <4> QED BY <3>1, <4>1
    <3>2. CASE k # m + 1
      <4>1. k \in 1 .. m /\ g[k] = f[k] /\ (k # 1 => g[k - 1] = f[k - 1])
        BY <3>2
      <4>2. f[k] = IF k = 1 THEN source ELSE ColumnsAfter(ss[k - 1], f[k - 1])
        BY <2>1, <4>1 DEF ColumnsChain
      <4> QED BY <4>1, <4>2
    <3> QED BY <3>1, <3>2
  <2>3. ColumnsChain(g, ss, source, m + 1)
    <3>1. g = [k \in 1 .. m + 1 |-> g[k]]
      OBVIOUS
    <3> HIDE DEF g
    <3> QED BY <2>2, <3>1 DEF ColumnsChain
  <2> QED BY <2>3
<1>4. Nat \subseteq S
  <2> HIDE DEF S
  <2> QED BY <1>2, <1>3, SetInduction
<1> QED BY <1>4


\* The columns in front of a stage are those behind the one before it.
LEMMA ColumnsUnfold ==
  ASSUME NEW ss, NEW source, Len(ss) \in Nat
  PROVE  /\ Columns(ss, source)[1] = source
         /\ \A k \in 2 .. Len(ss) + 1 : Columns(ss, source)[k] = ColumnsAfter(ss[k - 1], Columns(ss, source)[k - 1])
<1> DEFINE f == Columns(ss, source)
<1>1. \E g : ColumnsChain(g, ss, source, Len(ss) + 1)
  BY ColumnsExist
<1>2. ColumnsChain(f, ss, source, Len(ss) + 1)
  <2>1. f = CHOOSE g : ColumnsChain(g, ss, source, Len(ss) + 1)
    BY DEF Columns, ColumnsChain
  <2> HIDE DEF f
  <2> QED BY <1>1, <2>1
<1> HIDE DEF f
<1>4. \A k \in 1 .. Len(ss) + 1 : f[k] = IF k = 1 THEN source ELSE ColumnsAfter(ss[k - 1], f[k - 1])
  BY <1>2 DEF ColumnsChain
<1>5. f[1] = source
  BY <1>4
<1>6. ASSUME NEW k \in 2 .. Len(ss) + 1 PROVE f[k] = ColumnsAfter(ss[k - 1], f[k - 1])
  <2>1. k \in 1 .. Len(ss) + 1 /\ k # 1
    OBVIOUS
  <2> QED BY <1>4, <2>1
<1> QED BY <1>5, <1>6 DEF f

\* f[k] are the rows behind stage k.
RowsChain(f, ss, r, n) ==
  f = [k \in 0 .. n |-> IF k = 0 THEN r ELSE ApplyStage(ss[k], f[k - 1], Tables)]

\* There is such a function for any number of stages.
LEMMA RowsExist ==
  ASSUME NEW ss, NEW r, NEW n \in Nat
  PROVE  \E f : RowsChain(f, ss, r, n)
<1> DEFINE S == {m \in Nat : \E f : RowsChain(f, ss, r, m)}
<1>1. \E f : RowsChain(f, ss, r, 0)
  <2> DEFINE f == [k \in 0 .. 0 |-> r]
  <2>1. [k \in 0 .. 0 |-> IF k = 0 THEN r ELSE ApplyStage(ss[k], f[k - 1], Tables)] = f
    OBVIOUS
  <2> QED BY <2>1 DEF RowsChain
<1>2. 0 \in S
  BY <1>1
<1>3. ASSUME NEW m \in Nat, m \in S PROVE m + 1 \in S
  <2>1. PICK f : RowsChain(f, ss, r, m)
    BY <1>3
  <2> DEFINE g == [k \in 0 .. m + 1 |-> IF k = m + 1 THEN ApplyStage(ss[m + 1], f[m], Tables) ELSE f[k]]
  <2>2. ASSUME NEW k \in 0 .. m + 1
        PROVE  g[k] = IF k = 0 THEN r ELSE ApplyStage(ss[k], g[k - 1], Tables)
    <3>1. CASE k = m + 1
      <4>1. g[k] = ApplyStage(ss[m + 1], f[m], Tables) /\ g[k - 1] = f[m] /\ k # 0
        BY <3>1
      <4> QED BY <3>1, <4>1
    <3>2. CASE k # m + 1
      <4>1. k \in 0 .. m /\ g[k] = f[k] /\ (k # 0 => g[k - 1] = f[k - 1])
        BY <3>2
      <4>2. f[k] = IF k = 0 THEN r ELSE ApplyStage(ss[k], f[k - 1], Tables)
        BY <2>1, <4>1 DEF RowsChain
      <4> QED BY <4>1, <4>2
    <3> QED BY <3>1, <3>2
  <2>3. RowsChain(g, ss, r, m + 1)
    <3>1. g = [k \in 0 .. m + 1 |-> g[k]]
      OBVIOUS
    <3> HIDE DEF g
    <3> QED BY <2>2, <3>1 DEF RowsChain
  <2> QED BY <2>3
<1>4. Nat \subseteq S
  <2> HIDE DEF S
  <2> QED BY <1>2, <1>3, SetInduction
<1> QED BY <1>4

AppliedBy(ss, r) == CHOOSE f : RowsChain(f, ss, r, Len(ss))

\* Applied takes the rows through the stages.
LEMMA AppliedUnfolds ==
  ASSUME NEW ss, NEW r, Len(ss) \in Nat
  PROVE  /\ Applied(ss, r, Tables) = AppliedBy(ss, r)[Len(ss)]
         /\ AppliedBy(ss, r)[0] = r
         /\ \A k \in 1 .. Len(ss) : AppliedBy(ss, r)[k] = ApplyStage(ss[k], AppliedBy(ss, r)[k - 1], Tables)
<1> DEFINE f == AppliedBy(ss, r)
<1>1. \E g : RowsChain(g, ss, r, Len(ss))
  BY RowsExist
<1>2. RowsChain(f, ss, r, Len(ss))
  BY <1>1 DEF AppliedBy
<1>3. Applied(ss, r, Tables) = AppliedBy(ss, r)[Len(ss)]
  BY DEF Applied, AppliedBy, RowsChain
<1> HIDE DEF f
<1>4. \A k \in 0 .. Len(ss) : f[k] = IF k = 0 THEN r ELSE ApplyStage(ss[k], f[k - 1], Tables)
  BY <1>2 DEF RowsChain
<1>5. f[0] = r
  BY <1>4
<1>6. ASSUME NEW k \in 1 .. Len(ss) PROVE f[k] = ApplyStage(ss[k], f[k - 1], Tables)
  <2>1. k \in 0 .. Len(ss) /\ k # 0
    OBVIOUS
  <2> QED BY <1>4, <2>1
<1> QED BY <1>3, <1>5, <1>6 DEF f

\* Pipelines that begin with the same stages have the same columns there.
LEMMA SameColumns ==
  ASSUME NEW s, NEW t, NEW source, Len(s) \in Nat, Len(t) \in Nat,
         NEW n \in Nat, n <= Len(s), n <= Len(t), \A k \in 1 .. n : s[k] = t[k]
  PROVE  \A k \in 1 .. n + 1 : Columns(s, source)[k] = Columns(t, source)[k]
<1> DEFINE f == Columns(s, source)
           g == Columns(t, source)
           M == {k \in Nat : k <= n => f[k + 1] = g[k + 1]}
<1>1. f[1] = source /\ \A k \in 2 .. Len(s) + 1 : f[k] = ColumnsAfter(s[k - 1], f[k - 1])
  BY ColumnsUnfold
<1>2. g[1] = source /\ \A k \in 2 .. Len(t) + 1 : g[k] = ColumnsAfter(t[k - 1], g[k - 1])
  BY ColumnsUnfold
<1> HIDE DEF f, g
<1>3. 0 \in M
  BY <1>1, <1>2
<1>4. ASSUME NEW k \in Nat, k \in M PROVE k + 1 \in M
  <2> SUFFICES ASSUME k + 1 <= n PROVE f[k + 2] = g[k + 2]
    OBVIOUS
  <2>1. /\ k + 2 \in 2 .. Len(s) + 1 /\ k + 2 \in 2 .. Len(t) + 1 /\ (k + 2) - 1 = k + 1
        /\ s[k + 1] = t[k + 1] /\ f[k + 1] = g[k + 1]
    BY <1>4
  <2>2. f[k + 2] = ColumnsAfter(s[k + 1], f[k + 1])
    BY <1>1, <2>1
  <2>3. g[k + 2] = ColumnsAfter(t[k + 1], g[k + 1])
    BY <1>2, <2>1
  <2> QED BY <2>1, <2>2, <2>3
<1>5. Nat \subseteq M
  <2> HIDE DEF M
  <2> QED BY <1>3, <1>4, SetInduction
<1>6. ASSUME NEW k \in 1 .. n + 1 PROVE f[k] = g[k]
  <2>1. k - 1 \in Nat /\ k - 1 <= n /\ (k - 1) + 1 = k
    OBVIOUS
  <2>2. k - 1 \in M
    BY <1>5, <2>1
  <2> QED BY <2>1, <2>2
<1> QED BY <1>6 DEF f, g

\* Pipelines that begin with the same stages have the same rows there.
LEMMA SameRows ==
  ASSUME NEW s, NEW t, NEW r, Len(s) \in Nat, Len(t) \in Nat,
         NEW n \in Nat, n <= Len(s), n <= Len(t), \A k \in 1 .. n : s[k] = t[k]
  PROVE  \A k \in 0 .. n : AppliedBy(s, r)[k] = AppliedBy(t, r)[k]
<1> DEFINE f == AppliedBy(s, r)
           g == AppliedBy(t, r)
           M == {k \in Nat : k <= n => f[k] = g[k]}
<1>1. f[0] = r /\ \A k \in 1 .. Len(s) : f[k] = ApplyStage(s[k], f[k - 1], Tables)
  BY AppliedUnfolds
<1>2. g[0] = r /\ \A k \in 1 .. Len(t) : g[k] = ApplyStage(t[k], g[k - 1], Tables)
  BY AppliedUnfolds
<1> HIDE DEF f, g
<1>3. 0 \in M
  BY <1>1, <1>2
<1>4. ASSUME NEW k \in Nat, k \in M PROVE k + 1 \in M
  <2> SUFFICES ASSUME k + 1 <= n PROVE f[k + 1] = g[k + 1]
    OBVIOUS
  <2>1. /\ k + 1 \in 1 .. Len(s) /\ k + 1 \in 1 .. Len(t) /\ (k + 1) - 1 = k
        /\ s[k + 1] = t[k + 1] /\ f[k] = g[k]
    BY <1>4
  <2>2. f[k + 1] = ApplyStage(s[k + 1], f[k], Tables)
    BY <1>1, <2>1
  <2>3. g[k + 1] = ApplyStage(t[k + 1], g[k], Tables)
    BY <1>2, <2>1
  <2> QED BY <2>1, <2>2, <2>3
<1>5. Nat \subseteq M
  <2> HIDE DEF M
  <2> QED BY <1>3, <1>4, SetInduction
<1> QED BY <1>5 DEF f, g

\* The columns behind a pipeline.
Behind(ss, source) == Columns(ss, source)[Len(ss) + 1]

\* One more stage goes on with the columns and the rows behind the others.
LEMMA OneMoreStage ==
  ASSUME NEW S, NEW s \in Seq(S), NEW st \in S, NEW source
  PROVE  /\ Append(s, st) \in Seq(S)
         /\ Behind(Append(s, st), source) = ColumnsAfter(st, Behind(s, source))
         /\ Resolves(Append(s, st), source) <=>
              Resolves(s, source) /\ References(st) \subseteq Behind(s, source)
         /\ \A r : Applied(Append(s, st), r, Tables) = ApplyStage(st, Applied(s, r, Tables), Tables)
<1> DEFINE t == Append(s, st)
           n == Len(s)
<1>1. /\ n \in Nat /\ DOMAIN s = 1 .. n /\ t \in Seq(S) /\ Len(t) = n + 1 /\ DOMAIN t = 1 .. n + 1
      /\ t[n + 1] = st /\ \A k \in 1 .. n : t[k] = s[k]
  BY AppendProperties, LenProperties
<1> HIDE DEF t, n
<1>2. \A k \in 1 .. n + 1 : Columns(t, source)[k] = Columns(s, source)[k]
  BY <1>1, SameColumns DEF n
<1>3. Behind(t, source) = ColumnsAfter(st, Behind(s, source))
  <2>1. Columns(t, source)[n + 2] = ColumnsAfter(t[(n + 2) - 1], Columns(t, source)[(n + 2) - 1])
    BY <1>1, ColumnsUnfold
  <2>2. (n + 2) - 1 = n + 1 /\ Len(t) + 1 = n + 2 /\ n + 1 \in 1 .. n + 1
    BY <1>1
  <2> QED BY <1>1, <1>2, <2>1, <2>2 DEF Behind, n
<1>4. Resolves(t, source) <=> Resolves(s, source) /\ References(st) \subseteq Behind(s, source)
  <2>1. Resolves(t, source) <=> \A k \in 1 .. n + 1 : References(t[k]) \subseteq Columns(t, source)[k]
    BY <1>1 DEF Resolves
  <2>2. \A k \in 1 .. n : t[k] = s[k] /\ Columns(t, source)[k] = Columns(s, source)[k]
    BY <1>1, <1>2
  <2>3. t[n + 1] = st /\ Columns(t, source)[n + 1] = Behind(s, source)
    BY <1>1, <1>2 DEF Behind, n
  <2>4. Resolves(s, source) <=> \A k \in 1 .. n : References(s[k]) \subseteq Columns(s, source)[k]
    BY <1>1 DEF Resolves
  <2>5. \A k \in 1 .. n + 1 : k \in 1 .. n \/ k = n + 1
    BY <1>1
  <2>6. n + 1 \in 1 .. n + 1 /\ \A k \in 1 .. n : k \in 1 .. n + 1
    BY <1>1
  <2> QED BY <2>1, <2>2, <2>3, <2>4, <2>5, <2>6
<1>5. ASSUME NEW r PROVE Applied(t, r, Tables) = ApplyStage(st, Applied(s, r, Tables), Tables)
  <2>1. AppliedBy(t, r)[n] = AppliedBy(s, r)[n]
    BY <1>1, SameRows DEF n
  <2>2. Applied(s, r, Tables) = AppliedBy(s, r)[n]
    BY <1>1, AppliedUnfolds DEF n
  <2>3. /\ Applied(t, r, Tables) = AppliedBy(t, r)[n + 1]
        /\ AppliedBy(t, r)[n + 1] = ApplyStage(t[n + 1], AppliedBy(t, r)[(n + 1) - 1], Tables)
    BY <1>1, AppliedUnfolds
  <2> QED BY <1>1, <2>1, <2>2, <2>3
<1> QED BY <1>1, <1>3, <1>4, <1>5 DEF t

\* Keeping some of the stages, one turn of the loop.
Kept(ss, K, s, k) == IF k \in K THEN Append(s, ss[k]) ELSE s

\* f[k] are the stages kept of the first k.
KeepChain(f, ss, K, n) ==
  f = [k \in 0 .. n |-> IF k = 0 THEN <<>> ELSE Kept(ss, K, f[k - 1], k)]

\* There is such a function for any number of stages.
LEMMA KeepExists ==
  ASSUME NEW ss, NEW K, NEW n \in Nat
  PROVE  \E f : KeepChain(f, ss, K, n)
<1> DEFINE S == {m \in Nat : \E f : KeepChain(f, ss, K, m)}
<1>1. \E f : KeepChain(f, ss, K, 0)
  <2> DEFINE f == [k \in 0 .. 0 |-> <<>>]
  <2>1. [k \in 0 .. 0 |-> IF k = 0 THEN <<>> ELSE Kept(ss, K, f[k - 1], k)] = f
    OBVIOUS
  <2> QED BY <2>1 DEF KeepChain
<1>2. 0 \in S
  BY <1>1
<1>3. ASSUME NEW m \in Nat, m \in S PROVE m + 1 \in S
  <2>1. PICK f : KeepChain(f, ss, K, m)
    BY <1>3
  <2> DEFINE g == [k \in 0 .. m + 1 |-> IF k = m + 1 THEN Kept(ss, K, f[m], m + 1) ELSE f[k]]
  <2>2. ASSUME NEW k \in 0 .. m + 1
        PROVE  g[k] = IF k = 0 THEN <<>> ELSE Kept(ss, K, g[k - 1], k)
    <3>1. CASE k = m + 1
      <4>1. g[k] = Kept(ss, K, f[m], m + 1) /\ g[k - 1] = f[m] /\ k # 0
        BY <3>1
      <4> QED BY <3>1, <4>1
    <3>2. CASE k # m + 1
      <4>1. k \in 0 .. m /\ g[k] = f[k] /\ (k # 0 => g[k - 1] = f[k - 1])
        BY <3>2
      <4>2. f[k] = IF k = 0 THEN <<>> ELSE Kept(ss, K, f[k - 1], k)
        BY <2>1, <4>1 DEF KeepChain
      <4> QED BY <4>1, <4>2
    <3> QED BY <3>1, <3>2
  <2>3. KeepChain(g, ss, K, m + 1)
    <3>1. g = [k \in 0 .. m + 1 |-> g[k]]
      OBVIOUS
    <3> HIDE DEF g
    <3> QED BY <2>2, <3>1 DEF KeepChain
  <2> QED BY <2>3
<1>4. Nat \subseteq S
  <2> HIDE DEF S
  <2> QED BY <1>2, <1>3, SetInduction
<1> QED BY <1>4

KeptBy(ss, K) == CHOOSE f : KeepChain(f, ss, K, Len(ss))

\* Only keeps them place by place.
LEMMA OnlyUnfolds ==
  ASSUME NEW ss, NEW K, Len(ss) \in Nat
  PROVE  /\ Only(ss, K) = KeptBy(ss, K)[Len(ss)]
         /\ KeptBy(ss, K)[0] = <<>>
         /\ \A k \in 1 .. Len(ss) : KeptBy(ss, K)[k] = Kept(ss, K, KeptBy(ss, K)[k - 1], k)
<1> DEFINE f == KeptBy(ss, K)
<1>1. \E g : KeepChain(g, ss, K, Len(ss))
  BY KeepExists
<1>2. KeepChain(f, ss, K, Len(ss))
  BY <1>1 DEF KeptBy
<1>3. Only(ss, K) = KeptBy(ss, K)[Len(ss)]
  BY DEF Only, Kept, KeptBy, KeepChain
<1> HIDE DEF f
<1>4. \A k \in 0 .. Len(ss) : f[k] = IF k = 0 THEN <<>> ELSE Kept(ss, K, f[k - 1], k)
  BY <1>2 DEF KeepChain
<1>5. f[0] = <<>>
  BY <1>4
<1>6. ASSUME NEW k \in 1 .. Len(ss) PROVE f[k] = Kept(ss, K, f[k - 1], k)
  <2>1. k \in 0 .. Len(ss) /\ k # 0
    OBVIOUS
  <2> QED BY <1>4, <2>1
<1> QED BY <1>3, <1>5, <1>6 DEF f

\* What is kept is a sequence of the stages there were.
LEMMA OnlyIsSequence ==
  ASSUME NEW S, NEW ss \in Seq(S), NEW K
  PROVE  \A k \in 0 .. Len(ss) : KeptBy(ss, K)[k] \in Seq(S)
<1> DEFINE f == KeptBy(ss, K)
           n == Len(ss)
           M == {k \in Nat : k <= n => f[k] \in Seq(S)}
<1>1. n \in Nat /\ \A k \in 1 .. n : ss[k] \in S
  BY LenProperties
<1>2. f[0] = <<>> /\ \A k \in 1 .. n : f[k] = Kept(ss, K, f[k - 1], k)
  BY <1>1, OnlyUnfolds
<1> HIDE DEF f
<1>3. 0 \in M
  BY <1>2, EmptySeq
<1>4. ASSUME NEW k \in Nat, k \in M PROVE k + 1 \in M
  <2> SUFFICES ASSUME k + 1 <= n PROVE f[k + 1] \in Seq(S)
    OBVIOUS
  <2>1. k + 1 \in 1 .. n /\ (k + 1) - 1 = k /\ f[k] \in Seq(S) /\ ss[k + 1] \in S
    BY <1>1, <1>4
  <2>2. f[k + 1] = Kept(ss, K, f[k], k + 1)
    BY <1>2, <2>1
  <2> QED BY <2>1, <2>2, AppendProperties DEF Kept
<1>5. Nat \subseteq M
  <2> HIDE DEF M
  <2> QED BY <1>3, <1>4, SetInduction
<1> QED BY <1>1, <1>5 DEF f

-----------------------------------------------------------------------------
(* PredicatePushdown *)

\* One turn of the walk.
Pushed(seen, i) == IF Pushable(seen, i) THEN Swapped(seen, i) ELSE seen

\* f[i] is what the walk has made of the stages behind place i.
WalkChain(f, ss, n) ==
  f = [k \in 0 .. n |-> IF k = 0 THEN ss ELSE Pushed(f[k - 1], k)]

\* There is such a function for any number of stages.
LEMMA WalkExists ==
  ASSUME NEW ss, NEW n \in Nat
  PROVE  \E f : WalkChain(f, ss, n)
<1> DEFINE S == {m \in Nat : \E f : WalkChain(f, ss, m)}
<1>1. \E f : WalkChain(f, ss, 0)
  <2> DEFINE f == [k \in 0 .. 0 |-> ss]
  <2>1. [k \in 0 .. 0 |-> IF k = 0 THEN ss ELSE Pushed(f[k - 1], k)] = f
    OBVIOUS
  <2> QED BY <2>1 DEF WalkChain
<1>2. 0 \in S
  BY <1>1
<1>3. ASSUME NEW m \in Nat, m \in S PROVE m + 1 \in S
  <2>1. PICK f : WalkChain(f, ss, m)
    BY <1>3
  <2> DEFINE g == [k \in 0 .. m + 1 |-> IF k = m + 1 THEN Pushed(f[m], m + 1) ELSE f[k]]
  <2>2. ASSUME NEW k \in 0 .. m + 1
        PROVE  g[k] = IF k = 0 THEN ss ELSE Pushed(g[k - 1], k)
    <3>1. CASE k = m + 1
      <4>1. g[k] = Pushed(f[m], m + 1) /\ g[k - 1] = f[m] /\ k # 0
        BY <3>1
      <4> QED BY <3>1, <4>1
    <3>2. CASE k # m + 1
      <4>1. k \in 0 .. m /\ g[k] = f[k] /\ (k # 0 => g[k - 1] = f[k - 1])
        BY <3>2
      <4>2. f[k] = IF k = 0 THEN ss ELSE Pushed(f[k - 1], k)
        BY <2>1, <4>1 DEF WalkChain
      <4> QED BY <4>1, <4>2
    <3> QED BY <3>1, <3>2
  <2>3. WalkChain(g, ss, m + 1)
    <3>1. g = [k \in 0 .. m + 1 |-> g[k]]
      OBVIOUS
    <3> HIDE DEF g
    <3> QED BY <2>2, <3>1 DEF WalkChain
  <2> QED BY <2>3
<1>4. Nat \subseteq S
  <2> HIDE DEF S
  <2> QED BY <1>2, <1>3, SetInduction
<1> QED BY <1>4

WalkBy(ss) == CHOOSE f : WalkChain(f, ss, Len(ss))

\* The walk takes one turn per place.
LEMMA WalkUnfolds ==
  ASSUME NEW ss, Len(ss) \in Nat
  PROVE  /\ PushdownPass(ss) = WalkBy(ss)[Len(ss)]
         /\ WalkBy(ss)[0] = ss
         /\ \A k \in 1 .. Len(ss) : WalkBy(ss)[k] = Pushed(WalkBy(ss)[k - 1], k)
<1> DEFINE f == WalkBy(ss)
<1>1. \E g : WalkChain(g, ss, Len(ss))
  BY WalkExists
<1>2. WalkChain(f, ss, Len(ss))
  BY <1>1 DEF WalkBy
<1>3. PushdownPass(ss) = WalkBy(ss)[Len(ss)]
  BY DEF PushdownPass, Pushed, WalkBy, WalkChain
<1> HIDE DEF f
<1>4. \A k \in 0 .. Len(ss) : f[k] = IF k = 0 THEN ss ELSE Pushed(f[k - 1], k)
  BY <1>2 DEF WalkChain
<1>5. f[0] = ss
  BY <1>4
<1>6. ASSUME NEW k \in 1 .. Len(ss) PROVE f[k] = Pushed(f[k - 1], k)
  <2>1. k \in 0 .. Len(ss) /\ k # 0
    OBVIOUS
  <2> QED BY <1>4, <2>1
<1> QED BY <1>3, <1>5, <1>6 DEF f

\* A swap exchanges two neighbours and leaves the other stages.
LEMMA SwapsTwo ==
  ASSUME NEW S, NEW ss \in Seq(S), NEW i \in 2 .. Len(ss)
  PROVE  /\ Swapped(ss, i) \in Seq(S) /\ Len(Swapped(ss, i)) = Len(ss)
         /\ Swapped(ss, i)[i - 1] = ss[i] /\ Swapped(ss, i)[i] = ss[i - 1]
         /\ \A k \in 1 .. Len(ss) : k # i /\ k # i - 1 => Swapped(ss, i)[k] = ss[k]
<1>1. Len(ss) \in Nat /\ ss \in [1 .. Len(ss) -> S]
  BY LenProperties
<1>2. i - 1 \in 1 .. Len(ss) /\ i \in 1 .. Len(ss) /\ i - 1 # i
  BY <1>1
<1> DEFINE t == Swapped(ss, i)
<1>3. t = [ss EXCEPT ![i - 1] = ss[i], ![i] = ss[i - 1]]
  BY DEF Swapped
<1>4. t \in [1 .. Len(ss) -> S]
  BY <1>1, <1>2, <1>3
<1>5. t \in Seq(S) /\ Len(t) = Len(ss)
  <2> HIDE DEF t
  <2> QED BY <1>1, <1>4, IsASeq, LenProperties
<1>6. t[i - 1] = ss[i] /\ t[i] = ss[i - 1] /\ \A k \in 1 .. Len(ss) : k # i /\ k # i - 1 => t[k] = ss[k]
  BY <1>1, <1>2, <1>3
<1> QED BY <1>5, <1>6

\* Whatever a turn of the walk does, there are as many stages as before.
LEMMA TurnKeepsLength ==
  ASSUME NEW S, NEW ss \in Seq(S), NEW i \in 1 .. Len(ss)
  PROVE  Pushed(ss, i) \in Seq(S) /\ Len(Pushed(ss, i)) = Len(ss)
<1>1. CASE Pushable(ss, i)
  <2>1. i \in 2 .. Len(ss)
    BY <1>1, LenProperties DEF Pushable
  <2>2. Swapped(ss, i) \in Seq(S) /\ Len(Swapped(ss, i)) = Len(ss)
    BY <2>1, SwapsTwo
  <2> QED BY <1>1, <2>2 DEF Pushed
<1>2. CASE ~Pushable(ss, i)
  BY <1>2 DEF Pushed
<1> QED BY <1>1, <1>2

\* The stages stay a sequence of the same length all the walk.
LEMMA WalkKeepsLength ==
  ASSUME NEW S, NEW ss \in Seq(S)
  PROVE  \A k \in 0 .. Len(ss) : WalkBy(ss)[k] \in Seq(S) /\ Len(WalkBy(ss)[k]) = Len(ss)
<1> DEFINE f == WalkBy(ss)
           n == Len(ss)
           M == {k \in Nat : k <= n => f[k] \in Seq(S) /\ Len(f[k]) = n}
<1>1. n \in Nat
  BY LenProperties
<1>2. f[0] = ss /\ \A k \in 1 .. n : f[k] = Pushed(f[k - 1], k)
  BY <1>1, WalkUnfolds
<1> HIDE DEF f
<1>3. 0 \in M
  BY <1>2
<1>4. ASSUME NEW k \in Nat, k \in M PROVE k + 1 \in M
  <2> SUFFICES ASSUME k + 1 <= n PROVE f[k + 1] \in Seq(S) /\ Len(f[k + 1]) = n
    OBVIOUS
  <2>1. k + 1 \in 1 .. n /\ (k + 1) - 1 = k /\ f[k] \in Seq(S) /\ Len(f[k]) = n
    BY <1>1, <1>4
  <2>2. f[k + 1] = Pushed(f[k], k + 1)
    BY <1>2, <2>1
  <2> QED BY <2>1, <2>2, TurnKeepsLength
<1>5. Nat \subseteq M
  <2> HIDE DEF M
  <2> QED BY <1>3, <1>4, SetInduction
<1> QED BY <1>1, <1>5 DEF f

\* A walk that ends where it began found no filter to move.
LEMMA IdleWalk ==
  ASSUME NEW S, NEW ss \in Seq(S), PushdownPass(ss) = ss
  PROVE  \A i \in DOMAIN ss : ~Pushable(ss, i)
<1> DEFINE f == WalkBy(ss)
           n == Len(ss)
           P == {i \in 1 .. n : Pushable(ss, i)}
<1>1. n \in Nat /\ DOMAIN ss = 1 .. n
  BY LenProperties
<1>2. f[n] = ss /\ f[0] = ss /\ \A k \in 1 .. n : f[k] = Pushed(f[k - 1], k)
  BY <1>1, WalkUnfolds
<1>3. \A k \in 0 .. n : f[k] \in Seq(S) /\ Len(f[k]) = n
  BY WalkKeepsLength
<1> HIDE DEF f
<1> SUFFICES ASSUME P # {} PROVE FALSE
  BY <1>1
<1>4. PICK i \in P : \A j \in P : i <= j
  <2>1. P \subseteq Nat
    BY <1>1
  <2> HIDE DEF P
  <2> QED BY <2>1, LeastElement
<1>5. /\ i \in 2 .. n /\ i \in 1 .. n /\ i - 1 \in 1 .. n /\ Pushable(ss, i)
      /\ \A j \in 1 .. i - 1 : ~Pushable(ss, j)
  BY <1>1, <1>4 DEF Pushable
<1> HIDE DEF P
<1>6. f[i - 1] = ss
  <2> DEFINE M == {k \in Nat : k <= i - 1 => f[k] = ss}
  <2>1. 0 \in M
    BY <1>2
  <2>2. ASSUME NEW k \in Nat, k \in M PROVE k + 1 \in M
    <3> SUFFICES ASSUME k + 1 <= i - 1 PROVE f[k + 1] = ss
      OBVIOUS
    <3>1. k + 1 \in 1 .. n /\ k + 1 \in 1 .. i - 1 /\ (k + 1) - 1 = k /\ f[k] = ss
      BY <1>1, <1>5, <2>2
    <3>2. f[k + 1] = Pushed(ss, k + 1) /\ ~Pushable(ss, k + 1)
      BY <1>2, <1>5, <3>1
    <3> QED BY <3>2 DEF Pushed
  <2>3. Nat \subseteq M
    <3> HIDE DEF M
    <3> QED BY <2>1, <2>2, SetInduction
  <2> QED BY <1>1, <1>5, <2>3
<1>7. f[i] = Swapped(ss, i)
  BY <1>2, <1>5, <1>6 DEF Pushed
<1>8. f[i][i - 1] = ss[i]
  BY <1>5, <1>7, SwapsTwo
<1>9. f[n][i - 1] = ss[i]
  <2> DEFINE M == {k \in Nat : i <= k /\ k <= n => f[k][i - 1] = ss[i]}
  <2>1. 0 \in M
    BY <1>5
  <2>2. ASSUME NEW k \in Nat, k \in M PROVE k + 1 \in M
    <3> SUFFICES ASSUME i <= k + 1, k + 1 <= n PROVE f[k + 1][i - 1] = ss[i]
      OBVIOUS
    <3>1. CASE i = k + 1
      BY <1>8, <3>1
    <3>2. CASE i <= k
      <4>1. k + 1 \in 1 .. n /\ (k + 1) - 1 = k /\ k \in 0 .. n /\ f[k][i - 1] = ss[i]
        BY <1>1, <1>5, <2>2, <3>2
      <4>2. f[k + 1] = Pushed(f[k], k + 1) /\ f[k] \in Seq(S) /\ Len(f[k]) = n
        BY <1>2, <1>3, <4>1
      <4>3. CASE Pushable(f[k], k + 1)
        <5>1. k + 1 \in 2 .. Len(f[k]) /\ i - 1 \in 1 .. Len(f[k]) /\ i - 1 # k + 1 /\ i - 1 # (k + 1) - 1
          BY <1>5, <3>2, <4>1, <4>2
        <5>2. Swapped(f[k], k + 1)[i - 1] = f[k][i - 1]
          BY <4>2, <5>1, SwapsTwo
        <5> QED BY <4>1, <4>2, <4>3, <5>2 DEF Pushed
      <4>4. CASE ~Pushable(f[k], k + 1)
        BY <4>1, <4>2, <4>4 DEF Pushed
      <4> QED BY <4>3, <4>4
    <3> QED BY <1>5, <3>1, <3>2
  <2>3. Nat \subseteq M
    <3> HIDE DEF M
    <3> QED BY <2>1, <2>2, SetInduction
  <2> QED BY <1>1, <1>5, <2>3
<1>10. ss[i].op = "Filter" /\ ss[i - 1].op \in {"Extend", "Project"}
  BY <1>5 DEF Pushable, IsFilter, CanPushPast
<1>11. ss[i - 1] = ss[i]
  BY <1>2, <1>9
<1> QED BY <1>10, <1>11

\* Stages that change no columns.
LEMMA SameColumnsAfter ==
  ASSUME NEW st, NEW cols, st.op \in {"Filter", "Sort", "Limit", "Union"}
  PROVE  ColumnsAfter(st, cols) = cols
BY DEF ColumnsAfter

\* A filter that may be moved past a stage does not need the columns the stage makes.
LEMMA PushableResolves ==
  ASSUME NEW st, NEW ft, NEW cols, WellFormed(st), IsFilter(ft), CanPushPast(st, ft.preds),
         References(st) \subseteq cols, PredColumns(ft.preds) \subseteq ColumnsAfter(st, cols)
  PROVE  /\ PredColumns(ft.preds) \subseteq cols
         /\ \A c \in PredColumns(ft.preds) :
              \/ ~ \E i \in st.items : i.name = c
              \/ \A i \in st.items : i.name = c => i.how = "bare" /\ i.ref = c
         /\ st.op = "Project" => \A c \in PredColumns(ft.preds) : \E i \in st.items : i.name = c
<1>1. \A i \in st.items : i.ref \in cols
  BY DEF References
<1>2. \A i \in st.items : i.how = "bare" => i.name = i.ref
  BY DEF WellFormed
<1>3. CASE /\ st.op = "Extend"
           /\ PredColumns(ft.preds) \cap {i.name : i \in {j \in st.items : j.how # "bare"}} = {}
  <2>1. \A c \in PredColumns(ft.preds), i \in st.items : i.name = c => i.how = "bare" /\ i.ref = c
    BY <1>2, <1>3
  <2>2. ColumnsAfter(st, cols) = cols \cup {i.name : i \in st.items}
    BY <1>3 DEF ColumnsAfter
  <2>3. PredColumns(ft.preds) \subseteq cols
    BY <1>1, <2>1, <2>2
  <2> QED BY <1>3, <2>1, <2>3
<1>4. CASE st.op = "Project" /\ AllBare(st) /\ PredColumns(ft.preds) \subseteq Names(st)
  <2>1. \A i \in st.items : i.how = "bare" /\ i.ref = i.name
    BY <1>2, <1>4 DEF AllBare
  <2>2. \A c \in PredColumns(ft.preds) : \E i \in st.items : i.name = c
    BY <1>4 DEF Names
  <2> QED BY <1>1, <2>1, <2>2
<1> QED BY <1>3, <1>4 DEF CanPushPast

\* After a swap there are the same columns everywhere but between the two, and every
\* stage still has the columns it mentions.
LEMMA SwapColumns ==
  ASSUME NEW S, NEW ss \in Seq(S), NEW i \in 1 .. Len(ss), Pushable(ss, i), NEW source,
         \A k \in 1 .. Len(ss) : WellFormed(ss[k]), Resolves(ss, source)
  PROVE  /\ i \in 2 .. Len(ss)
         /\ \A k \in 1 .. Len(ss) + 1 : k # i => Columns(Swapped(ss, i), source)[k] = Columns(ss, source)[k]
         /\ Columns(Swapped(ss, i), source)[i] = Columns(ss, source)[i - 1]
         /\ Resolves(Swapped(ss, i), source)
<1> DEFINE n == Len(ss)
           t == Swapped(ss, i)
           f == Columns(ss, source)
           g == Columns(t, source)
<1>1. /\ n \in Nat /\ DOMAIN ss = 1 .. n /\ i \in 2 .. n /\ i - 1 \in 1 .. n /\ i - 1 \in Nat /\ i \in Nat
      /\ IsFilter(ss[i]) /\ CanPushPast(ss[i - 1], ss[i].preds)
  BY LenProperties DEF Pushable
<1>2. /\ t \in Seq(S) /\ Len(t) = n /\ DOMAIN t = 1 .. n /\ t[i - 1] = ss[i] /\ t[i] = ss[i - 1]
      /\ \A k \in 1 .. n : k # i /\ k # i - 1 => t[k] = ss[k]
  BY <1>1, SwapsTwo, LenProperties
<1> HIDE DEF t
<1>3. f[1] = source /\ \A k \in 2 .. n + 1 : f[k] = ColumnsAfter(ss[k - 1], f[k - 1])
  BY <1>1, ColumnsUnfold
<1>4. g[1] = source /\ \A k \in 2 .. n + 1 : g[k] = ColumnsAfter(t[k - 1], g[k - 1])
  BY <1>1, <1>2, ColumnsUnfold
<1>5. \A k \in 1 .. i - 1 : g[k] = f[k]
  <2> DEFINE m == i - 2
  <2>1. /\ m \in Nat /\ m <= Len(ss) /\ m <= Len(t) /\ m + 1 = i - 1
        /\ Len(ss) \in Nat /\ Len(t) \in Nat
    BY <1>1, <1>2
  <2>2. \A k \in 1 .. m : t[k] = ss[k]
    BY <1>1, <1>2
  <2> HIDE DEF m
  <2>3. \A k \in 1 .. m + 1 : Columns(t, source)[k] = Columns(ss, source)[k]
    BY <2>1, <2>2, SameColumns
  <2> QED BY <2>1, <2>3
<1> HIDE DEF f, g
<1>6. g[i] = f[i - 1]
  <2>1. g[i] = ColumnsAfter(ss[i], g[i - 1]) /\ g[i - 1] = f[i - 1]
    BY <1>1, <1>2, <1>4, <1>5
  <2> QED BY <1>1, <2>1, SameColumnsAfter DEF IsFilter
<1>7. g[i + 1] = f[i + 1]
  <2>1. i + 1 \in 2 .. n + 1 /\ (i + 1) - 1 = i /\ i \in 2 .. n + 1
    BY <1>1
  <2>2. g[i + 1] = ColumnsAfter(ss[i - 1], f[i - 1])
    BY <1>2, <1>4, <1>6, <2>1
  <2>3. f[i + 1] = ColumnsAfter(ss[i], f[i]) /\ f[i] = ColumnsAfter(ss[i - 1], f[i - 1])
    BY <1>3, <2>1
  <2> QED BY <1>1, <2>2, <2>3, SameColumnsAfter DEF IsFilter
<1>8. \A k \in 1 .. n + 1 : k # i => g[k] = f[k]
  <2> DEFINE M == {k \in Nat : i <= k /\ k <= n => g[k + 1] = f[k + 1]}
  <2>1. 0 \in M
    BY <1>1
  <2>2. ASSUME NEW k \in Nat, k \in M PROVE k + 1 \in M
    <3> SUFFICES ASSUME i <= k + 1, k + 1 <= n PROVE g[k + 2] = f[k + 2]
      OBVIOUS
    <3>1. CASE i = k + 1
      BY <1>7, <3>1
    <3>2. CASE i <= k
      <4>1. k + 2 \in 2 .. n + 1 /\ (k + 2) - 1 = k + 1 /\ k + 1 \in 1 .. n /\ k + 1 # i /\ k + 1 # i - 1
            /\ g[k + 1] = f[k + 1]
        BY <1>1, <2>2, <3>2
      <4>2. g[k + 2] = ColumnsAfter(t[k + 1], g[k + 1]) /\ f[k + 2] = ColumnsAfter(ss[k + 1], f[k + 1])
        BY <1>3, <1>4, <4>1
      <4> QED BY <1>2, <4>1, <4>2
    <3> QED BY <1>1, <3>1, <3>2
  <2>3. Nat \subseteq M
    <3> HIDE DEF M
    <3> QED BY <2>1, <2>2, SetInduction
  <2>4. ASSUME NEW k \in 1 .. n + 1, k # i PROVE g[k] = f[k]
    <3>1. CASE k \in 1 .. i - 1
      BY <1>5, <3>1
    <3>2. CASE k > i
      <4>1. k - 1 \in Nat /\ i <= k - 1 /\ k - 1 <= n /\ (k - 1) + 1 = k
        BY <1>1, <3>2
      <4>2. k - 1 \in M
        BY <2>3, <4>1
      <4> QED BY <4>1, <4>2
    <3> QED BY <1>1, <2>4, <3>1, <3>2
  <2> QED BY <2>4
<1>9. \A k \in 1 .. n : References(ss[k]) \subseteq f[k]
  BY <1>1 DEF Resolves, f
<1>10. References(ss[i]) \subseteq f[i - 1]
  <2>1. f[i] = ColumnsAfter(ss[i - 1], f[i - 1])
    BY <1>1, <1>3
  <2>2. References(ss[i]) = PredColumns(ss[i].preds)
    BY <1>1 DEF WellFormed, IsFilter
  <2>3. PredColumns(ss[i].preds) \subseteq f[i - 1]
    BY <1>1, <1>9, <2>1, <2>2, PushableResolves
  <2> QED BY <2>2, <2>3
<1>11. Resolves(t, source)
  <2>1. ASSUME NEW k \in 1 .. n PROVE References(t[k]) \subseteq g[k]
    <3>1. CASE k = i - 1
      <4>1. g[k] = f[k]
        BY <1>1, <1>5, <3>1
      <4> QED BY <1>2, <1>10, <3>1, <4>1
    <3>2. CASE k = i
      BY <1>1, <1>2, <1>6, <1>9, <3>2
    <3>3. CASE k # i /\ k # i - 1
      <4>1. t[k] = ss[k] /\ g[k] = f[k]
        BY <1>1, <1>2, <1>8, <3>3
      <4> QED BY <1>9, <4>1
    <3> QED BY <3>1, <3>2, <3>3
  <2> QED BY <1>2, <2>1 DEF Resolves, g
<1> QED BY <1>1, <1>6, <1>8, <1>11 DEF f, g, t

-----------------------------------------------------------------------------
(* Every rule makes a sequence of a sequence *)

\* The set a sequence is over does not matter.
LEMMA SequenceOfAny ==
  ASSUME NEW S, NEW s \in Seq(S)
  PROVE  IsSequence(s)
<1>1. Len(s) \in Nat /\ s \in [1 .. Len(s) -> S] /\ DOMAIN s = 1 .. Len(s)
  BY LenProperties
<1> DEFINE R == {s[k] : k \in DOMAIN s}
<1>2. s \in [1 .. Len(s) -> R]
  BY <1>1
<1>3. s \in Seq(R)
  <2> HIDE DEF R
  <2> QED BY <1>1, <1>2, SeqDef
<1> QED BY <1>3 DEF IsSequence

\* A sequence has a length and its places.
LEMMA SequenceShape ==
  ASSUME NEW s, IsSequence(s)
  PROVE  /\ s \in Seq({s[k] : k \in DOMAIN s})
         /\ Len(s) \in Nat /\ DOMAIN s = 1 .. Len(s)
BY LenProperties DEF IsSequence

\* A function on the first naturals is a sequence.
LEMMA SequenceFromFunction ==
  ASSUME NEW n \in Nat, NEW s, DOMAIN s = 1 .. n, s = [k \in 1 .. n |-> s[k]]
  PROVE  IsSequence(s) /\ Len(s) = n
<1> DEFINE R == {s[k] : k \in DOMAIN s}
<1>1. s \in [1 .. n -> R]
  OBVIOUS
<1>2. s \in Seq(R) /\ Len(s) = n
  <2> HIDE DEF R
  <2> QED BY <1>1, SeqDef, LenProperties
<1> QED BY <1>2 DEF IsSequence

\* Folding constants.
LEMMA FoldIsSequence ==
  ASSUME NEW ss, IsSequence(ss)
  PROVE  IsSequence(ConstantFold(ss))
<1> DEFINE folded == [k \in DOMAIN ss |-> IF Contradiction(ss[k]) THEN Limit(0) ELSE ss[k]]
           K == {k \in DOMAIN ss : ~Tautology(ss[k])}
<1>1. Len(ss) \in Nat /\ DOMAIN folded = 1 .. Len(ss) /\ folded = [k \in 1 .. Len(ss) |-> folded[k]]
  BY SequenceShape
<1>2. ConstantFold(ss) = Only(folded, K)
  BY DEF ConstantFold
<1> HIDE DEF folded, K
<1>3. IsSequence(folded)
  BY <1>1, SequenceFromFunction
<1> DEFINE S == {folded[k] : k \in DOMAIN folded}
<1>4. folded \in Seq(S) /\ Len(folded) \in Nat
  BY <1>3, SequenceShape
<1> HIDE DEF S
<1>5. Only(folded, K) = KeptBy(folded, K)[Len(folded)]
  BY <1>4, OnlyUnfolds
<1>6. KeptBy(folded, K)[Len(folded)] \in Seq(S)
  BY <1>4, OnlyIsSequence
<1> QED BY <1>2, <1>5, <1>6, SequenceOfAny

\* Dropping idempotent distincts.
LEMMA SaturationIsSequence ==
  ASSUME NEW ss, IsSequence(ss)
  PROVE  IsSequence(SaturationRewrite(ss))
<1> DEFINE K == {k \in DOMAIN ss : ~Idempotent(ss[k])}
           S == {ss[k] : k \in DOMAIN ss}
<1>1. SaturationRewrite(ss) = Only(ss, K)
  BY DEF SaturationRewrite
<1>2. ss \in Seq(S) /\ Len(ss) \in Nat
  BY SequenceShape
<1> HIDE DEF K, S
<1>3. Only(ss, K) = KeptBy(ss, K)[Len(ss)]
  BY <1>2, OnlyUnfolds
<1>4. KeptBy(ss, K)[Len(ss)] \in Seq(S)
  BY <1>2, OnlyIsSequence
<1> QED BY <1>1, <1>3, <1>4, SequenceOfAny

\* Moving filters forward.
LEMMA WalkIsSequence ==
  ASSUME NEW ss, IsSequence(ss)
  PROVE  IsSequence(PushdownPass(ss))
<1> DEFINE S == {ss[k] : k \in DOMAIN ss}
<1>1. ss \in Seq(S) /\ Len(ss) \in Nat
  BY SequenceShape
<1> HIDE DEF S
<1>2. PushdownPass(ss) = WalkBy(ss)[Len(ss)]
  BY <1>1, WalkUnfolds
<1>3. WalkBy(ss)[Len(ss)] \in Seq(S)
  BY <1>1, WalkKeepsLength
<1> QED BY <1>2, <1>3, SequenceOfAny

\* Inserting a stage and removing one.
LEMMA InsertIsSequence ==
  ASSUME NEW ss, IsSequence(ss), NEW i, NEW st
  PROVE  IsSequence(InsertAt(ss, i, st))
<1> DEFINE t == InsertAt(ss, i, st)
           m == Len(ss) + 1
<1>1. m \in Nat
  BY SequenceShape
<1>2. DOMAIN t = 1 .. m /\ t = [k \in 1 .. m |-> t[k]]
  BY DEF InsertAt
<1> HIDE DEF t, m
<1>3. IsSequence(t)
  BY <1>1, <1>2, SequenceFromFunction
<1> QED BY <1>3 DEF t

\* Removing a stage leaves the ones before it where they are and moves the others up.
LEMMA WithoutOne ==
  ASSUME NEW ss, IsSequence(ss), NEW i \in 1 .. Len(ss)
  PROVE  /\ IsSequence(Without(ss, i)) /\ Len(Without(ss, i)) = Len(ss) - 1
         /\ \A k \in 1 .. Len(ss) - 1 : Without(ss, i)[k] = IF k < i THEN ss[k] ELSE ss[k + 1]
<1> DEFINE t == Without(ss, i)
           m == Len(ss) - 1
<1>1. m \in Nat
  BY SequenceShape
<1>2. DOMAIN t = 1 .. m /\ t = [k \in 1 .. m |-> t[k]]
  BY DEF Without
<1>3. \A k \in 1 .. m : t[k] = IF k < i THEN ss[k] ELSE ss[k + 1]
  BY DEF Without
<1> HIDE DEF t, m
<1>4. IsSequence(t) /\ Len(t) = m
  BY <1>1, <1>2, SequenceFromFunction
<1> QED BY <1>3, <1>4 DEF t, m

\* Where the next filter behind a union is.
NextBehind(ss) == CHOOSE k \in BehindUnion(ss) : \A m \in BehindUnion(ss) : k <= m
Fed(ss, i) ==
  [ss EXCEPT ![i - 1].inputs =
     [k \in DOMAIN ss[i - 1].inputs |-> [ss[i - 1].inputs[k] EXCEPT !.stages = Append(@, ss[i])]]]

\* Pushing a filter into a union removes it and changes nothing else but the inputs.
LEMMA PushIntoUnionEffect ==
  ASSUME NEW ss, IsSequence(ss), BehindUnion(ss) # {}
  PROVE  LET i == NextBehind(ss)
         IN  /\ i \in 2 .. Len(ss) /\ IsFilter(ss[i]) /\ ss[i - 1].op = "Union"
             /\ PushIntoUnion(ss) = Without(Fed(ss, i), i)
             /\ IsSequence(Fed(ss, i)) /\ Len(Fed(ss, i)) = Len(ss)
             /\ \A k \in 1 .. Len(ss) : k # i - 1 => Fed(ss, i)[k] = ss[k]
             /\ \E x : Fed(ss, i)[i - 1] = [ss[i - 1] EXCEPT !.inputs = x]
<1> DEFINE i == NextBehind(ss)
           n == Len(ss)
           t == Fed(ss, i)
<1>1. n \in Nat /\ DOMAIN ss = 1 .. n
  BY SequenceShape
<1>2. i \in BehindUnion(ss)
  <2>1. BehindUnion(ss) \subseteq Nat
    BY <1>1 DEF BehindUnion
  <2> QED BY <2>1, ChosenLeast DEF NextBehind
<1>3. i \in 2 .. n /\ IsFilter(ss[i]) /\ ss[i - 1].op = "Union" /\ i - 1 \in 1 .. n
  BY <1>1, <1>2 DEF BehindUnion
<1>4. PushIntoUnion(ss) = Without(Fed(ss, i), i)
  BY DEF PushIntoUnion, NextBehind, Fed
<1> HIDE DEF i
<1> DEFINE x == [k \in DOMAIN ss[i - 1].inputs |-> [ss[i - 1].inputs[k] EXCEPT !.stages = Append(@, ss[i])]]
<1>5. t = [ss EXCEPT ![i - 1] = [ss[i - 1] EXCEPT !.inputs = x]]
  BY DEF Fed
<1> HIDE DEF x, t
<1>6. /\ DOMAIN t = 1 .. n /\ t = [k \in 1 .. n |-> t[k]]
      /\ \A k \in 1 .. n : k # i - 1 => t[k] = ss[k]
      /\ t[i - 1] = [ss[i - 1] EXCEPT !.inputs = x]
  BY <1>1, <1>3, <1>5
<1>7. IsSequence(t) /\ Len(t) = n
  BY <1>1, <1>6, SequenceFromFunction
<1> QED BY <1>3, <1>4, <1>6, <1>7 DEF i, t

\* Pushing a filter into a union.
LEMMA PushIntoUnionIsSequence ==
  ASSUME NEW ss, IsSequence(ss)
  PROVE  IsSequence(PushIntoUnion(ss))
<1>1. CASE BehindUnion(ss) = {}
  BY <1>1 DEF PushIntoUnion
<1>2. CASE BehindUnion(ss) # {}
  <2> DEFINE i == NextBehind(ss)
  <2>1. /\ i \in 2 .. Len(ss) /\ Len(ss) \in Nat /\ PushIntoUnion(ss) = Without(Fed(ss, i), i)
        /\ IsSequence(Fed(ss, i)) /\ Len(Fed(ss, i)) = Len(ss)
    BY <1>2, PushIntoUnionEffect, SequenceShape
  <2>2. i \in 1 .. Len(Fed(ss, i))
    BY <2>1
  <2> HIDE DEF i
  <2> QED BY <2>1, <2>2, WithoutOne
<1> QED BY <1>1, <1>2

\* Putting a projection in front.
LEMMA PruneIsSequence ==
  ASSUME NEW ss, IsSequence(ss)
  PROVE  IsSequence(ColumnPrune(ss))
<1> DEFINE p == Project({Bare(c) : c \in Needed(ss)})
           S == {ss[k] : k \in DOMAIN ss} \cup {p}
<1>1. ss \in Seq({ss[k] : k \in DOMAIN ss}) /\ {ss[k] : k \in DOMAIN ss} \subseteq S
  BY SequenceShape
<1>2. p \in S
  OBVIOUS
<1>3. ColumnPrune(ss) = <<p>> \o ss \/ ColumnPrune(ss) = ss
  BY DEF ColumnPrune
<1> HIDE DEF p, S
<1>4. ss \in Seq(S)
  BY <1>1, SeqMonotonic
<1>5. <<p>> \in Seq(S)
  BY <1>2
<1>6. <<p>> \o ss \in Seq(S)
  BY <1>4, <1>5, ConcatProperties
<1> QED BY <1>3, <1>6, SequenceOfAny

\* Splitting an aggregate.
LEMMA SplitIsSequence ==
  ASSUME NEW ss, IsSequence(ss), NEW l, NEW out \in TwoStageAgg(ss, l)
  PROVE  IsSequence(out)
<1>1. out = ss \/ \E i, st : out = InsertAt(ss, i, st)
  BY DEF TwoStageAgg
<1> QED BY <1>1, InsertIsSequence

-----------------------------------------------------------------------------
(* Every rule but TwoStageAgg leaves stages that have their columns *)

AllWellFormed(ss) == \A k \in DOMAIN ss : WellFormed(ss[k])

\* More columns in front of a stage are more behind it.
LEMMA MoreColumns ==
  ASSUME NEW st, NEW C, NEW D, C \subseteq D
  PROVE  ColumnsAfter(st, C) \subseteq ColumnsAfter(st, D)
BY DEF ColumnsAfter

\* A walk over the stages keeps them resolved.
LEMMA WalkResolves ==
  ASSUME NEW ss, IsSequence(ss), AllWellFormed(ss), NEW source, Resolves(ss, source)
  PROVE  AllWellFormed(PushdownPass(ss)) /\ Resolves(PushdownPass(ss), source)
<1> DEFINE S == {ss[k] : k \in DOMAIN ss}
           f == WalkBy(ss)
           n == Len(ss)
           M == {k \in Nat : k <= n => Resolves(f[k], source)}
<1>1. ss \in Seq(S) /\ n \in Nat /\ \A st \in S : WellFormed(st)
  BY SequenceShape DEF AllWellFormed
<1> HIDE DEF S
<1>2. PushdownPass(ss) = f[n] /\ f[0] = ss /\ \A k \in 1 .. n : f[k] = Pushed(f[k - 1], k)
  BY <1>1, WalkUnfolds
<1>3. \A k \in 0 .. n : f[k] \in Seq(S) /\ Len(f[k]) = n
  BY <1>1, WalkKeepsLength
<1> HIDE DEF f
<1>4. \A k \in 0 .. n : AllWellFormed(f[k])
  <2> SUFFICES ASSUME NEW k \in 0 .. n PROVE AllWellFormed(f[k])
    OBVIOUS
  <2>1. f[k] \in Seq(S)
    BY <1>3
  <2>2. \A j \in DOMAIN f[k] : f[k][j] \in S
    BY <2>1, LenProperties
  <2> QED BY <1>1, <2>2 DEF AllWellFormed
<1>5. 0 \in M
  BY <1>2
<1>6. ASSUME NEW k \in Nat, k \in M PROVE k + 1 \in M
  <2> SUFFICES ASSUME k + 1 <= n PROVE Resolves(f[k + 1], source)
    OBVIOUS
  <2>1. k + 1 \in 1 .. n /\ (k + 1) - 1 = k /\ k \in 0 .. n /\ Resolves(f[k], source)
    BY <1>1, <1>6
  <2>2. f[k + 1] = Pushed(f[k], k + 1) /\ f[k] \in Seq(S) /\ Len(f[k]) = n /\ DOMAIN f[k] = 1 .. n
    BY <1>2, <1>3, <2>1, LenProperties
  <2>3. CASE Pushable(f[k], k + 1)
    <3>1. \A j \in 1 .. Len(f[k]) : WellFormed(f[k][j])
      BY <1>4, <2>1, <2>2 DEF AllWellFormed
    <3>2. Resolves(Swapped(f[k], k + 1), source)
      BY <2>1, <2>2, <2>3, <3>1, SwapColumns
    <3> QED BY <2>2, <2>3, <3>2 DEF Pushed
  <2>4. CASE ~Pushable(f[k], k + 1)
    BY <2>1, <2>2, <2>4 DEF Pushed
  <2> QED BY <2>3, <2>4
<1>7. Nat \subseteq M
  <2> HIDE DEF M
  <2> QED BY <1>5, <1>6, SetInduction
<1>8. n \in M /\ n \in 0 .. n
  BY <1>1, <1>7
<1> QED BY <1>2, <1>4, <1>8

\* t[k] mentions no more than ss[k], and makes what it makes.
NoLess(t, ss) ==
  /\ References(t) \subseteq References(ss)
  /\ \A C : ColumnsAfter(t, C) = ColumnsAfter(ss, C)
\* Where it mentions what is there, it adds no column.
AddsNothing(st) == \A C : References(st) \subseteq C => ColumnsAfter(st, C) \subseteq C

\* Stages that add no column can be dropped and others replaced by ones that mention no
\* more: what is left has its columns.
LEMMA OnlyResolves ==
  ASSUME NEW ss, IsSequence(ss), NEW t, IsSequence(t), Len(t) = Len(ss), NEW K, NEW source,
         Resolves(ss, source),
         \A k \in 1 .. Len(ss) : IF k \in K THEN NoLess(t[k], ss[k]) ELSE AddsNothing(ss[k])
  PROVE  Resolves(Only(t, K), source)
<1> DEFINE n == Len(ss)
           C == Columns(ss, source)
           f == KeptBy(t, K)
           S == {t[k] : k \in DOMAIN t}
           M == {k \in Nat : k <= n => Resolves(f[k], source) /\ C[k + 1] \subseteq Behind(f[k], source)}
<1>1. /\ n \in Nat /\ DOMAIN ss = 1 .. n /\ DOMAIN t = 1 .. n /\ t \in Seq(S) /\ Len(t) = n
      /\ \A k \in 1 .. n : t[k] \in S
  BY SequenceShape
<1> HIDE DEF S
<1>2. C[1] = source /\ \A k \in 2 .. n + 1 : C[k] = ColumnsAfter(ss[k - 1], C[k - 1])
  BY <1>1, ColumnsUnfold
<1>3. \A k \in 1 .. n : References(ss[k]) \subseteq C[k]
  BY <1>1 DEF Resolves
<1>4. Only(t, K) = f[n] /\ f[0] = <<>> /\ \A k \in 1 .. n : f[k] = Kept(t, K, f[k - 1], k)
  BY <1>1, OnlyUnfolds
<1>5. \A k \in 0 .. n : f[k] \in Seq(S)
  BY <1>1, OnlyIsSequence
<1> HIDE DEF C, f
<1>6. 0 \in M
  <2>1. Len(<<>>) = 0 /\ DOMAIN <<>> = {}
    OBVIOUS
  <2>2. Behind(<<>>, source) = source
    BY <2>1, ColumnsUnfold DEF Behind
  <2>3. Resolves(<<>>, source)
    BY <2>1 DEF Resolves
  <2> QED BY <1>2, <1>4, <2>2, <2>3
<1>7. ASSUME NEW k \in Nat, k \in M PROVE k + 1 \in M
  <2> SUFFICES ASSUME k + 1 <= n
               PROVE  Resolves(f[k + 1], source) /\ C[k + 2] \subseteq Behind(f[k + 1], source)
    OBVIOUS
  <2>1. /\ k + 1 \in 1 .. n /\ k + 2 \in 2 .. n + 1 /\ (k + 1) - 1 = k /\ (k + 2) - 1 = k + 1 /\ k \in 0 .. n
        /\ Resolves(f[k], source) /\ C[k + 1] \subseteq Behind(f[k], source)
    BY <1>1, <1>7
  <2>2. /\ f[k] \in Seq(S) /\ t[k + 1] \in S /\ f[k + 1] = Kept(t, K, f[k], k + 1)
        /\ C[k + 2] = ColumnsAfter(ss[k + 1], C[k + 1]) /\ References(ss[k + 1]) \subseteq C[k + 1]
    BY <1>1, <1>2, <1>3, <1>4, <1>5, <2>1
  <2>3. CASE k + 1 \in K
    <3>1. f[k + 1] = Append(f[k], t[k + 1]) /\ NoLess(t[k + 1], ss[k + 1])
      BY <2>1, <2>2, <2>3 DEF Kept
    <3>2. References(t[k + 1]) \subseteq Behind(f[k], source)
      BY <2>1, <2>2, <3>1 DEF NoLess
    <3>3. C[k + 2] = ColumnsAfter(t[k + 1], C[k + 1])
      BY <2>2, <3>1 DEF NoLess
    <3>4. ColumnsAfter(t[k + 1], C[k + 1]) \subseteq ColumnsAfter(t[k + 1], Behind(f[k], source))
      BY <2>1, MoreColumns
    <3> DEFINE s == f[k]
               st == t[k + 1]
    <3>5. /\ Behind(Append(s, st), source) = ColumnsAfter(st, Behind(s, source))
          /\ (Resolves(Append(s, st), source) <=>
               Resolves(s, source) /\ References(st) \subseteq Behind(s, source))
      <4>1. s \in Seq(S) /\ st \in S
        BY <2>2
      <4> HIDE DEF s, st
      <4> QED BY <4>1, OneMoreStage
    <3> QED BY <2>1, <3>1, <3>2, <3>3, <3>4, <3>5
  <2>4. CASE k + 1 \notin K
    <3>1. f[k + 1] = f[k] /\ AddsNothing(ss[k + 1])
      BY <2>1, <2>2, <2>4 DEF Kept
    <3>2. C[k + 2] \subseteq C[k + 1]
      BY <2>2, <3>1 DEF AddsNothing
    <3> QED BY <2>1, <3>1, <3>2
  <2> QED BY <2>3, <2>4
<1>8. Nat \subseteq M
  <2> HIDE DEF M
  <2> QED BY <1>6, <1>7, SetInduction
<1> QED BY <1>1, <1>4, <1>8

\* Only stages there were are kept.
LEMMA OnlyWellFormed ==
  ASSUME NEW t, IsSequence(t), AllWellFormed(t), NEW K
  PROVE  AllWellFormed(Only(t, K))
<1> DEFINE S == {t[k] : k \in DOMAIN t}
<1>1. t \in Seq(S) /\ Len(t) \in Nat /\ \A st \in S : WellFormed(st)
  BY SequenceShape DEF AllWellFormed
<1> HIDE DEF S
<1>2. Only(t, K) \in Seq(S)
  <2>1. Only(t, K) = KeptBy(t, K)[Len(t)]
    BY <1>1, OnlyUnfolds
  <2> QED BY <1>1, <2>1, OnlyIsSequence
<1>3. \A k \in DOMAIN Only(t, K) : Only(t, K)[k] \in S
  BY <1>2, LenProperties
<1> QED BY <1>1, <1>3 DEF AllWellFormed

\* The fold of one stage: a contradiction becomes a limit of no rows.
Folded(st) == IF Contradiction(st) THEN Limit(0) ELSE st

\* The stage a contradiction becomes.
LEMMA NoRowsStage ==
  /\ WellFormed(Limit(0)) /\ References(Limit(0)) = {} /\ Limit(0).op = "Limit" /\ Limit(0).n = 0
  /\ Limit(0).inputs = <<>>
<1>1. /\ DOMAIN Limit(0) = DOMAIN Blank /\ Limit(0).items = {} /\ Limit(0).keys = <<>> /\ Limit(0).cols = {}
      /\ Limit(0).preds = {} /\ Limit(0).op = "Limit" /\ Limit(0).n = 0 /\ Limit(0).inputs = <<>>
  BY DEF Limit, Blank
<1>2. IsSequence(<<>>) /\ DOMAIN <<>> = {}
  <2>1. <<>> \in Seq({}) /\ DOMAIN <<>> = {}
    OBVIOUS
  <2> QED BY <2>1, SequenceOfAny
<1>3. References(Limit(0)) = {}
  BY <1>1, <1>2 DEF References, PredColumns, KeyColumns
<1> QED BY <1>1, <1>2, <1>3 DEF WellFormed

\* Folding constants keeps the stages resolved.
LEMMA FoldResolves ==
  ASSUME NEW ss, IsSequence(ss), AllWellFormed(ss), NEW source, Resolves(ss, source)
  PROVE  AllWellFormed(ConstantFold(ss)) /\ Resolves(ConstantFold(ss), source)
<1> DEFINE t == [k \in DOMAIN ss |-> Folded(ss[k])]
           K == {k \in DOMAIN ss : ~Tautology(ss[k])}
           n == Len(ss)
<1>1. n \in Nat /\ DOMAIN ss = 1 .. n
  BY SequenceShape
<1>2. ConstantFold(ss) = Only(t, K)
  BY DEF ConstantFold, Folded
<1>3. IsSequence(t) /\ Len(t) = n /\ \A k \in 1 .. n : t[k] = Folded(ss[k])
  <2>1. DOMAIN t = 1 .. n /\ t = [k \in 1 .. n |-> t[k]] /\ \A k \in 1 .. n : t[k] = Folded(ss[k])
    BY <1>1
  <2> HIDE DEF t
  <2> QED BY <1>1, <2>1, SequenceFromFunction
<1>4. \A k \in 1 .. n : k \notin K => ss[k].op = "Filter"
  BY <1>1 DEF Tautology, IsFilter
<1> HIDE DEF t, K
<1>5. AllWellFormed(t)
  <2>1. ASSUME NEW k \in 1 .. n PROVE WellFormed(t[k])
    BY <1>1, <1>3, NoRowsStage DEF Folded, AllWellFormed
  <2>2. DOMAIN t = 1 .. n
    BY <1>3, SequenceShape
  <2> QED BY <2>1, <2>2 DEF AllWellFormed
<1>6. ASSUME NEW k \in 1 .. n PROVE IF k \in K THEN NoLess(t[k], ss[k]) ELSE AddsNothing(ss[k])
  <2>1. CASE k \in K
    <3>1. CASE Contradiction(ss[k])
      <4>1. t[k] = Limit(0) /\ ss[k].op = "Filter"
        BY <1>3, <3>1 DEF Folded, Contradiction, IsFilter
      <4>2. References(t[k]) = {} /\ t[k].op = "Limit"
        BY <4>1, NoRowsStage
      <4>3. \A C : ColumnsAfter(t[k], C) = ColumnsAfter(ss[k], C)
        BY <4>1, <4>2, SameColumnsAfter
      <4> QED BY <2>1, <4>2, <4>3 DEF NoLess
    <3>2. CASE ~Contradiction(ss[k])
      <4>1. t[k] = ss[k]
        BY <1>3, <3>2 DEF Folded
      <4> QED BY <2>1, <4>1 DEF NoLess
    <3> QED BY <3>1, <3>2
  <2>2. CASE k \notin K
    <3>1. \A C : ColumnsAfter(ss[k], C) = C
      BY <1>4, <2>2, SameColumnsAfter
    <3> QED BY <2>2, <3>1 DEF AddsNothing
  <2> QED BY <2>1, <2>2
<1>7. Resolves(Only(t, K), source)
  BY <1>3, <1>6, OnlyResolves
<1> QED BY <1>2, <1>3, <1>5, <1>7, OnlyWellFormed

\* So does dropping distincts: what comes after one has more columns.
LEMMA SaturationResolves ==
  ASSUME NEW ss, IsSequence(ss), AllWellFormed(ss), NEW source, Resolves(ss, source)
  PROVE  AllWellFormed(SaturationRewrite(ss)) /\ Resolves(SaturationRewrite(ss), source)
<1> DEFINE K == {k \in DOMAIN ss : ~Idempotent(ss[k])}
<1>1. DOMAIN ss = 1 .. Len(ss)
  BY SequenceShape
<1>2. \A k \in 1 .. Len(ss) : k \notin K => ss[k].op = "Distinct" /\ ss[k].cols # {}
  BY <1>1 DEF Idempotent
<1>3. SaturationRewrite(ss) = Only(ss, K)
  BY DEF SaturationRewrite
<1> HIDE DEF K
<1>4. ASSUME NEW k \in 1 .. Len(ss) PROVE IF k \in K THEN NoLess(ss[k], ss[k]) ELSE AddsNothing(ss[k])
  <2>1. k \in K => NoLess(ss[k], ss[k])
    BY DEF NoLess
  <2>2. ASSUME k \notin K PROVE AddsNothing(ss[k])
    <3>1. \A C : ColumnsAfter(ss[k], C) = ss[k].cols
      BY <1>2, <2>2 DEF ColumnsAfter
    <3>2. ss[k].cols \subseteq References(ss[k])
      BY DEF References
    <3> QED BY <3>1, <3>2 DEF AddsNothing
  <2> QED BY <2>1, <2>2
<1>5. Resolves(Only(ss, K), source)
  BY <1>4, OnlyResolves
<1> QED BY <1>3, <1>5, OnlyWellFormed

\* Stages that pass the columns on leave the ones that are needed behind them.
LEMMA PassthroughKeeps ==
  ASSUME NEW st, IsPassthrough(st), NEW C, References(st) \subseteq C
  PROVE  /\ ColumnsAfter(st, C) \subseteq C
         /\ \A N, D : C \cap N \subseteq D => ColumnsAfter(st, C) \cap N \subseteq ColumnsAfter(st, D)
<1>1. CASE st.op = "Distinct"
  <2>1. st.cols \subseteq C
    BY DEF References
  <2>2. \A D : ColumnsAfter(st, D) = IF st.cols = {} THEN D ELSE st.cols
    BY <1>1 DEF ColumnsAfter
  <2> QED BY <2>1, <2>2
<1>2. CASE st.op # "Distinct"
  <2>1. \A D : ColumnsAfter(st, D) = D
    BY <1>2, SameColumnsAfter DEF IsPassthrough
  <2> QED BY <2>1
<1> QED BY <1>1, <1>2

\* The projection ColumnPrune inserts.
PruneStage(ss) == Project({Bare(c) : c \in Needed(ss)})

\* What it mentions and makes.
LEMMA PruneStageColumns ==
  ASSUME NEW ss
  PROVE  /\ WellFormed(PruneStage(ss)) /\ PruneStage(ss).op = "Project" /\ PruneStage(ss).inputs = <<>>
         /\ PruneStage(ss).items = {Bare(c) : c \in Needed(ss)}
         /\ References(PruneStage(ss)) = Needed(ss)
         /\ \A C : ColumnsAfter(PruneStage(ss), C) = Needed(ss)
<1> DEFINE p == PruneStage(ss)
           N == Needed(ss)
<1>1. /\ DOMAIN p = DOMAIN Blank /\ p.items = {Bare(c) : c \in N} /\ p.keys = <<>> /\ p.cols = {}
      /\ p.preds = {} /\ p.op = "Project" /\ p.n = 0 /\ p.inputs = <<>>
  BY DEF PruneStage, Project, Blank
<1> HIDE DEF p, N
<1>2. \A c \in N : Bare(c).name = c /\ Bare(c).ref = c /\ Bare(c).how = "bare"
  BY DEF Bare
<1>3. IsSequence(<<>>) /\ DOMAIN <<>> = {}
  <2>1. <<>> \in Seq({}) /\ DOMAIN <<>> = {}
    OBVIOUS
  <2> QED BY <2>1, SequenceOfAny
<1>4. {j.ref : j \in p.items} = N /\ {j.name : j \in p.items} = N
  BY <1>1, <1>2
<1>5. References(p) = N
  BY <1>1, <1>3, <1>4 DEF References, PredColumns, KeyColumns
<1>6. \A C : ColumnsAfter(p, C) = N
  BY <1>1, <1>4 DEF ColumnsAfter
<1>7. WellFormed(p)
  BY <1>1, <1>2, <1>3 DEF WellFormed
<1> QED BY <1>1, <1>5, <1>6, <1>7 DEF p, N

\* The pruned pipeline is the pipeline behind that projection.
LEMMA PrunedShape ==
  ASSUME NEW ss, IsSequence(ss), Prunes(ss)
  PROVE  /\ IsSequence(ColumnPrune(ss)) /\ Len(ColumnPrune(ss)) = Len(ss) + 1
         /\ ColumnPrune(ss)[1] = PruneStage(ss) /\ \A k \in 1 .. Len(ss) : ColumnPrune(ss)[k + 1] = ss[k]
<1> DEFINE p == PruneStage(ss)
           S == {ss[k] : k \in DOMAIN ss} \cup {p}
           t == <<p>> \o ss
<1>1. ColumnPrune(ss) = t
  BY DEF ColumnPrune, PruneStage
<1>2. ss \in Seq({ss[k] : k \in DOMAIN ss}) /\ Len(ss) \in Nat
  BY SequenceShape
<1>3. ss \in Seq(S) /\ <<p>> \in Seq(S) /\ Len(<<p>>) = 1 /\ <<p>>[1] = p
  <2>1. {ss[k] : k \in DOMAIN ss} \subseteq S /\ p \in S
    OBVIOUS
  <2> HIDE DEF S, p
  <2>2. ss \in Seq(S)
    BY <1>2, <2>1, SeqMonotonic
  <2> QED BY <2>1, <2>2
<1> HIDE DEF S, p
<1>4. t \in Seq(S) /\ Len(t) = 1 + Len(ss)
  BY <1>2, <1>3, ConcatProperties
<1>5. \A k \in 1 .. 1 + Len(ss) : t[k] = IF k <= 1 THEN <<p>>[k] ELSE ss[k - 1]
  BY <1>2, <1>3, ConcatProperties
<1> HIDE DEF t
<1>6. t[1] = p
  BY <1>2, <1>3, <1>5
<1>7. ASSUME NEW k \in 1 .. Len(ss) PROVE t[k + 1] = ss[k]
  <2>1. k + 1 \in 1 .. 1 + Len(ss) /\ ~(k + 1 <= 1) /\ (k + 1) - 1 = k
    BY <1>2
  <2>2. t[k + 1] = ss[(k + 1) - 1]
    BY <1>5, <2>1
  <2> QED BY <2>1, <2>2
<1>8. IsSequence(t)
  BY <1>4, SequenceOfAny
<1> QED BY <1>1, <1>2, <1>4, <1>6, <1>7, <1>8 DEF p

\* A projection in front of all that is needed keeps the stages resolved.
LEMMA PruneResolves ==
  ASSUME NEW ss, IsSequence(ss), AllWellFormed(ss), NEW source, Resolves(ss, source)
  PROVE  AllWellFormed(ColumnPrune(ss)) /\ Resolves(ColumnPrune(ss), source)
<1> SUFFICES ASSUME Prunes(ss) PROVE AllWellFormed(ColumnPrune(ss)) /\ Resolves(ColumnPrune(ss), source)
  BY DEF ColumnPrune
<1> DEFINE n == Len(ss)
           N == Needed(ss)
           t == ColumnPrune(ss)
           f == Columns(ss, source)
           g == Columns(t, source)
           M == {k \in Nat : k + 1 <= n => f[k + 1] \subseteq source /\ f[k + 1] \cap N \subseteq g[k + 2]}
<1>1. n \in Nat /\ DOMAIN ss = 1 .. n /\ \A k \in 1 .. n - 1 : IsPassthrough(ss[k])
  BY SequenceShape DEF Prunes
<1>2. /\ IsSequence(t) /\ Len(t) = n + 1 /\ DOMAIN t = 1 .. n + 1
      /\ t[1] = PruneStage(ss) /\ \A k \in 1 .. n : t[k + 1] = ss[k]
  BY PrunedShape, SequenceShape
<1> HIDE DEF t
<1>3. f[1] = source /\ \A k \in 2 .. n + 1 : f[k] = ColumnsAfter(ss[k - 1], f[k - 1])
  BY <1>1, ColumnsUnfold
<1>4. g[1] = source /\ \A k \in 2 .. n + 2 : g[k] = ColumnsAfter(t[k - 1], g[k - 1])
  <2>1. Len(t) \in Nat /\ Len(t) + 1 = n + 2
    BY <1>1, <1>2
  <2> QED BY <2>1, ColumnsUnfold
<1>5. \A k \in 1 .. n : References(ss[k]) \subseteq f[k] /\ References(ss[k]) \subseteq N
  BY <1>1 DEF Resolves, Needed
<1> HIDE DEF f, g
<1>6. 0 \in M
  <2>1. ASSUME 1 <= n PROVE f[1] \subseteq source /\ f[1] \cap N \subseteq g[2]
    <3>1. g[2] = ColumnsAfter(t[1], g[1])
      <4>1. 2 \in 2 .. n + 2 /\ 2 - 1 = 1
        BY <1>1
      <4>2. g[2] = ColumnsAfter(t[2 - 1], g[2 - 1])
        BY <1>4, <4>1
      <4> QED BY <4>1, <4>2
    <3>2. g[2] = N
      BY <1>2, <3>1, PruneStageColumns
    <3> QED BY <1>3, <3>2
  <2> QED BY <2>1
<1>7. ASSUME NEW k \in Nat, k \in M PROVE k + 1 \in M
  <2> SUFFICES ASSUME k + 2 <= n PROVE f[k + 2] \subseteq source /\ f[k + 2] \cap N \subseteq g[k + 3]
    OBVIOUS
  <2>1. /\ k + 1 \in 1 .. n - 1 /\ k + 1 \in 1 .. n /\ k + 2 \in 2 .. n + 1 /\ (k + 2) - 1 = k + 1
        /\ k + 3 \in 2 .. n + 2 /\ (k + 3) - 1 = k + 2 /\ (k + 1) + 1 = k + 2
        /\ f[k + 1] \subseteq source /\ f[k + 1] \cap N \subseteq g[k + 2]
    BY <1>1, <1>7
  <2>2. f[k + 2] = ColumnsAfter(ss[k + 1], f[k + 1])
    BY <1>3, <2>1
  <2>3. g[k + 3] = ColumnsAfter(t[k + 2], g[k + 2]) /\ t[k + 2] = ss[k + 1]
    BY <1>2, <1>4, <2>1
  <2>4. IsPassthrough(ss[k + 1]) /\ References(ss[k + 1]) \subseteq f[k + 1]
    BY <1>1, <1>5, <2>1
  <2>5. /\ ColumnsAfter(ss[k + 1], f[k + 1]) \subseteq f[k + 1]
        /\ ColumnsAfter(ss[k + 1], f[k + 1]) \cap N \subseteq ColumnsAfter(ss[k + 1], g[k + 2])
    BY <2>1, <2>4, PassthroughKeeps
  <2> QED BY <2>1, <2>2, <2>3, <2>5
<1>8. Nat \subseteq M
  <2> HIDE DEF M
  <2> QED BY <1>6, <1>7, SetInduction
<1>9. ASSUME NEW k \in 1 .. n PROVE f[k] \subseteq source /\ References(ss[k]) \subseteq g[k + 1]
  <2>1. k - 1 \in Nat /\ (k - 1) + 1 = k /\ (k - 1) + 2 = k + 1 /\ k <= n
    BY <1>1
  <2>2. k - 1 \in M
    BY <1>8, <2>1
  <2>3. f[(k - 1) + 1] \subseteq source /\ f[(k - 1) + 1] \cap N \subseteq g[(k - 1) + 2]
    BY <2>1, <2>2
  <2> QED BY <1>5, <2>1, <2>3
<1> HIDE DEF M
<1>10. Resolves(t, source)
  <2>1. References(t[1]) \subseteq g[1]
    <3>1. N \subseteq source
      BY <1>1, <1>5, <1>9 DEF Needed
    <3> QED BY <1>2, <1>4, <3>1, PruneStageColumns
  <2>2. ASSUME NEW k \in 1 .. n + 1 PROVE References(t[k]) \subseteq g[k]
    <3>1. CASE k = 1
      BY <2>1, <3>1
    <3>2. CASE k # 1
      <4>1. k - 1 \in 1 .. n /\ (k - 1) + 1 = k
        BY <1>1, <3>2
      <4>2. t[(k - 1) + 1] = ss[k - 1] /\ References(ss[k - 1]) \subseteq g[(k - 1) + 1]
        BY <1>2, <1>9, <4>1
      <4> QED BY <4>1, <4>2
    <3> QED BY <3>1, <3>2
  <2> QED BY <1>2, <2>2 DEF Resolves, g
<1>11. AllWellFormed(t)
  <2>1. ASSUME NEW k \in 1 .. n + 1 PROVE WellFormed(t[k])
    <3>1. CASE k = 1
      BY <1>2, <3>1, PruneStageColumns
    <3>2. CASE k # 1
      <4>1. k - 1 \in 1 .. n /\ (k - 1) + 1 = k
        BY <1>1, <3>2
      <4>2. t[(k - 1) + 1] = ss[k - 1] /\ WellFormed(ss[k - 1])
        BY <1>1, <1>2, <4>1 DEF AllWellFormed
      <4> QED BY <4>1, <4>2
    <3> QED BY <3>1, <3>2
  <2> QED BY <1>2, <2>1 DEF AllWellFormed
<1> QED BY <1>10, <1>11 DEF t

\* Another list of inputs changes neither what a union mentions nor what it makes.
LEMMA InputsDoNotCount ==
  ASSUME NEW u, WellFormed(u), NEW x
  PROVE  LET w == [u EXCEPT !.inputs = x] IN WellFormed(w) /\ NoLess(w, u) /\ w.op = u.op
<1> DEFINE w == [u EXCEPT !.inputs = x]
<1>1. DOMAIN u = {"op", "preds", "items", "keys", "n", "cols", "inputs"}
  BY DEF WellFormed, Blank
<1>2. /\ DOMAIN w = DOMAIN u /\ w.op = u.op /\ w.preds = u.preds /\ w.items = u.items /\ w.keys = u.keys
      /\ w.n = u.n /\ w.cols = u.cols
  BY <1>1
<1> HIDE DEF w
<1>3. References(w) = References(u) /\ \A C : ColumnsAfter(w, C) = ColumnsAfter(u, C)
  BY <1>2 DEF References, ColumnsAfter
<1>4. WellFormed(w)
  BY <1>2, <1>3 DEF WellFormed
<1> QED BY <1>2, <1>3, <1>4 DEF w, NoLess

\* Nor does a filter count that leaves the pipeline for the inputs of a union.
LEMMA PushIntoUnionResolves ==
  ASSUME NEW ss, IsSequence(ss), AllWellFormed(ss), NEW source, Resolves(ss, source)
  PROVE  /\ AllWellFormed(PushIntoUnion(ss)) /\ Resolves(PushIntoUnion(ss), source)
         /\ BehindUnion(ss) # {} =>
              \A k \in 1 .. Len(ss) - 1 :
                Columns(PushIntoUnion(ss), source)[k] =
                  IF k < NextBehind(ss) THEN Columns(ss, source)[k] ELSE Columns(ss, source)[k + 1]
<1> SUFFICES ASSUME BehindUnion(ss) # {}
             PROVE  /\ AllWellFormed(PushIntoUnion(ss)) /\ Resolves(PushIntoUnion(ss), source)
                    /\ \A k \in 1 .. Len(ss) - 1 :
                         Columns(PushIntoUnion(ss), source)[k] =
                           IF k < NextBehind(ss) THEN Columns(ss, source)[k] ELSE Columns(ss, source)[k + 1]
  BY DEF PushIntoUnion
<1> DEFINE i == NextBehind(ss)
           n == Len(ss)
           u == Fed(ss, i)
           t == PushIntoUnion(ss)
           f == Columns(ss, source)
           g == Columns(t, source)
<1>1. n \in Nat /\ DOMAIN ss = 1 .. n
  BY SequenceShape
<1>2. /\ i \in 2 .. n /\ i \in 1 .. n /\ i - 1 \in 1 .. n /\ IsFilter(ss[i]) /\ t = Without(u, i)
      /\ IsSequence(u) /\ Len(u) = n
      /\ \A k \in 1 .. n : k # i - 1 => u[k] = ss[k]
      /\ \E x : u[i - 1] = [ss[i - 1] EXCEPT !.inputs = x]
  <2> DEFINE E(j) == /\ j \in 2 .. Len(ss) /\ IsFilter(ss[j]) /\ ss[j - 1].op = "Union"
                     /\ PushIntoUnion(ss) = Without(Fed(ss, j), j)
                     /\ IsSequence(Fed(ss, j)) /\ Len(Fed(ss, j)) = Len(ss)
                     /\ \A k \in 1 .. Len(ss) : k # j - 1 => Fed(ss, j)[k] = ss[k]
                     /\ \E x : Fed(ss, j)[j - 1] = [ss[j - 1] EXCEPT !.inputs = x]
  <2>1. E(NextBehind(ss))
    BY PushIntoUnionEffect, Zenon
  <2> HIDE DEF i
  <2>2. E(i)
    BY <2>1 DEF i
  <2>3. i \in 2 .. n /\ IsFilter(ss[i]) /\ t = Without(u, i) /\ IsSequence(u) /\ Len(u) = n
    BY <2>2
  <2>4. i \in 1 .. n /\ i - 1 \in 1 .. n
    BY <1>1, <2>3
  <2>5. (\A k \in 1 .. n : k # i - 1 => u[k] = ss[k]) /\ \E x : u[i - 1] = [ss[i - 1] EXCEPT !.inputs = x]
    BY <2>2
  <2> HIDE DEF u, t, E
  <2> QED BY <2>3, <2>4, <2>5
<1> HIDE DEF i, u
<1>3. \A k \in 1 .. n : WellFormed(u[k]) /\ NoLess(u[k], ss[k])
  <2>1. \A k \in 1 .. n : WellFormed(ss[k]) /\ NoLess(ss[k], ss[k])
    BY <1>1 DEF AllWellFormed, NoLess
  <2>2. WellFormed(u[i - 1]) /\ NoLess(u[i - 1], ss[i - 1])
    BY <1>2, <2>1, InputsDoNotCount
  <2> QED BY <1>2, <2>1, <2>2
<1>4. /\ IsSequence(t) /\ Len(t) = n - 1 /\ DOMAIN t = 1 .. n - 1
      /\ \A k \in 1 .. n - 1 : t[k] = IF k < i THEN u[k] ELSE u[k + 1]
  <2>1. i \in 1 .. Len(u)
    BY <1>2
  <2>2. /\ IsSequence(Without(u, i)) /\ Len(Without(u, i)) = Len(u) - 1
        /\ \A k \in 1 .. Len(u) - 1 : Without(u, i)[k] = IF k < i THEN u[k] ELSE u[k + 1]
    BY <1>2, <2>1, WithoutOne
  <2> HIDE DEF t
  <2>3. IsSequence(t) /\ Len(t) = n - 1 /\ \A k \in 1 .. n - 1 : t[k] = IF k < i THEN u[k] ELSE u[k + 1]
    BY <1>2, <2>2
  <2> QED BY <2>3, SequenceShape
<1> HIDE DEF t
<1>5. f[1] = source /\ \A k \in 2 .. n + 1 : f[k] = ColumnsAfter(ss[k - 1], f[k - 1])
  BY <1>1, ColumnsUnfold
<1>6. g[1] = source /\ \A k \in 2 .. n : g[k] = ColumnsAfter(t[k - 1], g[k - 1])
  <2>1. Len(t) \in Nat /\ Len(t) + 1 = n
    BY <1>1, <1>2, <1>4
  <2> QED BY <2>1, ColumnsUnfold
<1>7. f[i + 1] = f[i]
  <2>1. i + 1 \in 2 .. n + 1 /\ (i + 1) - 1 = i
    BY <1>1, <1>2
  <2> QED BY <1>2, <1>5, <2>1, SameColumnsAfter DEF IsFilter
<1>8. \A k \in 1 .. n : References(ss[k]) \subseteq f[k]
  BY <1>1 DEF Resolves
<1> HIDE DEF f, g
<1> DEFINE M == {k \in Nat : k + 1 <= n => g[k + 1] = IF k + 1 < i THEN f[k + 1] ELSE f[k + 2]}
<1>9. 0 \in M
  BY <1>1, <1>2, <1>5, <1>6
<1>10. ASSUME NEW k \in Nat, k \in M PROVE k + 1 \in M
  <2> SUFFICES ASSUME k + 2 <= n PROVE g[k + 2] = IF k + 2 < i THEN f[k + 2] ELSE f[k + 3]
    OBVIOUS
  <2>1. /\ k + 1 \in 1 .. n - 1 /\ k + 1 \in 1 .. n /\ k + 2 \in 1 .. n /\ k + 2 \in 2 .. n
        /\ k + 2 \in 2 .. n + 1 /\ (k + 2) - 1 = k + 1 /\ k + 3 \in 2 .. n + 1 /\ (k + 3) - 1 = k + 2
        /\ (k + 1) + 1 = k + 2 /\ i \in Nat
        /\ g[k + 1] = IF k + 1 < i THEN f[k + 1] ELSE f[k + 2]
    BY <1>1, <1>2, <1>10
  <2>2. /\ g[k + 2] = ColumnsAfter(t[k + 1], g[k + 1])
        /\ f[k + 2] = ColumnsAfter(ss[k + 1], f[k + 1]) /\ f[k + 3] = ColumnsAfter(ss[k + 2], f[k + 2])
    BY <1>5, <1>6, <2>1
  <2>3. CASE k + 1 < i
    <3>1. t[k + 1] = u[k + 1] /\ g[k + 1] = f[k + 1]
      BY <1>4, <2>1, <2>3
    <3>2. g[k + 2] = f[k + 2]
      BY <1>3, <2>1, <2>2, <3>1 DEF NoLess
    <3>3. k + 2 = i => f[k + 3] = f[k + 2]
      BY <1>7, <2>1
    <3>4. k + 2 < i \/ k + 2 = i
      BY <2>1, <2>3
    <3> QED BY <2>1, <3>2, <3>3, <3>4
  <2>4. CASE ~(k + 1 < i)
    <3>1. t[k + 1] = u[k + 2] /\ g[k + 1] = f[k + 2] /\ ~(k + 2 < i)
      BY <1>4, <2>1, <2>4
    <3> QED BY <1>3, <2>1, <2>2, <3>1 DEF NoLess
  <2> QED BY <2>3, <2>4
<1>11. Nat \subseteq M
  <2> HIDE DEF M
  <2> QED BY <1>9, <1>10, SetInduction
<1>12. ASSUME NEW k \in 1 .. n - 1
       PROVE  /\ WellFormed(t[k]) /\ References(t[k]) \subseteq g[k]
              /\ g[k] = IF k < i THEN f[k] ELSE f[k + 1]
  <2>1. k - 1 \in Nat /\ (k - 1) + 1 = k /\ (k - 1) + 2 = k + 1 /\ k <= n /\ k \in 1 .. n /\ k + 1 \in 1 .. n
    BY <1>1
  <2>2. k - 1 \in M
    BY <1>11, <2>1
  <2>3. g[k] = IF k < i THEN f[k] ELSE f[k + 1]
    BY <2>1, <2>2
  <2>4. CASE k < i
    <3>1. t[k] = u[k] /\ g[k] = f[k]
      BY <1>4, <2>3, <2>4
    <3> QED BY <1>3, <1>8, <2>1, <2>3, <3>1 DEF NoLess
  <2>5. CASE ~(k < i)
    <3>1. t[k] = u[k + 1] /\ g[k] = f[k + 1]
      BY <1>4, <2>3, <2>5
    <3> QED BY <1>3, <1>8, <2>1, <2>3, <3>1 DEF NoLess
  <2> QED BY <2>4, <2>5
<1>13. AllWellFormed(t) /\ Resolves(t, source)
  BY <1>4, <1>12 DEF AllWellFormed, Resolves, g
<1>14. \A k \in 1 .. n - 1 : g[k] = IF k < i THEN f[k] ELSE f[k + 1]
  BY <1>12
<1> QED BY <1>13, <1>14 DEF f, g, i, n, t

-----------------------------------------------------------------------------
(* A pipeline whose stages have their columns is emitted as a statement that has its own *)

\* One turn of splitSegments.
Splitting(acc, st) ==
  IF IsBreakpoint(st) THEN [segs |-> Append(Flush(acc), <<st>>), cur |-> <<>>]
  ELSE [acc EXCEPT !.cur = Append(@, st)]

\* f[k] is what splitSegments holds after k stages.
SplitChain(f, ss, n) ==
  f = [k \in 0 .. n |-> IF k = 0 THEN [segs |-> <<>>, cur |-> <<>>] ELSE Splitting(f[k - 1], ss[k])]

\* There is such a function for any number of stages.
LEMMA SplitExists ==
  ASSUME NEW ss, NEW n \in Nat
  PROVE  \E f : SplitChain(f, ss, n)
<1> DEFINE S == {m \in Nat : \E f : SplitChain(f, ss, m)}
<1>1. \E f : SplitChain(f, ss, 0)
  <2> DEFINE f == [k \in 0 .. 0 |-> [segs |-> <<>>, cur |-> <<>>]]
  <2>1. [k \in 0 .. 0 |-> IF k = 0 THEN [segs |-> <<>>, cur |-> <<>>] ELSE Splitting(f[k - 1], ss[k])] = f
    OBVIOUS
  <2> QED BY <2>1 DEF SplitChain
<1>2. 0 \in S
  BY <1>1
<1>3. ASSUME NEW m \in Nat, m \in S PROVE m + 1 \in S
  <2>1. PICK f : SplitChain(f, ss, m)
    BY <1>3
  <2> DEFINE g == [k \in 0 .. m + 1 |-> IF k = m + 1 THEN Splitting(f[m], ss[m + 1]) ELSE f[k]]
  <2>2. ASSUME NEW k \in 0 .. m + 1
        PROVE  g[k] = IF k = 0 THEN [segs |-> <<>>, cur |-> <<>>] ELSE Splitting(g[k - 1], ss[k])
    <3>1. CASE k = m + 1
      <4>1. g[k] = Splitting(f[m], ss[m + 1]) /\ g[k - 1] = f[m] /\ k # 0
        BY <3>1
      <4> QED BY <3>1, <4>1
    <3>2. CASE k # m + 1
      <4>1. k \in 0 .. m /\ g[k] = f[k] /\ (k # 0 => g[k - 1] = f[k - 1])
        BY <3>2
      <4>2. f[k] = IF k = 0 THEN [segs |-> <<>>, cur |-> <<>>] ELSE Splitting(f[k - 1], ss[k])
        BY <2>1, <4>1 DEF SplitChain
      <4> QED BY <4>1, <4>2
    <3> QED BY <3>1, <3>2
  <2>3. SplitChain(g, ss, m + 1)
    <3>1. g = [k \in 0 .. m + 1 |-> g[k]]
      OBVIOUS
    <3> HIDE DEF g
    <3> QED BY <2>2, <3>1 DEF SplitChain
  <2> QED BY <2>3
<1>4. Nat \subseteq S
  <2> HIDE DEF S
  <2> QED BY <1>2, <1>3, SetInduction
<1> QED BY <1>4

SplitBy(ss) == CHOOSE f : SplitChain(f, ss, Len(ss))

\* SplitSegments takes one turn per stage.
LEMMA SplitUnfolds ==
  ASSUME NEW ss, Len(ss) \in Nat
  PROVE  /\ SplitSegments(ss) = Flush(SplitBy(ss)[Len(ss)])
         /\ SplitBy(ss)[0] = [segs |-> <<>>, cur |-> <<>>]
         /\ \A k \in 1 .. Len(ss) : SplitBy(ss)[k] = Splitting(SplitBy(ss)[k - 1], ss[k])
<1> DEFINE f == SplitBy(ss)
<1>1. \E g : SplitChain(g, ss, Len(ss))
  BY SplitExists
<1>2. SplitChain(f, ss, Len(ss))
  BY <1>1 DEF SplitBy
<1>3. SplitSegments(ss) = Flush(SplitBy(ss)[Len(ss)])
  BY DEF SplitSegments, Splitting, SplitBy, SplitChain
<1> HIDE DEF f
<1>4. \A k \in 0 .. Len(ss) : f[k] = IF k = 0 THEN [segs |-> <<>>, cur |-> <<>>] ELSE Splitting(f[k - 1], ss[k])
  BY <1>2 DEF SplitChain
<1>5. f[0] = [segs |-> <<>>, cur |-> <<>>]
  BY <1>4
<1>6. ASSUME NEW k \in 1 .. Len(ss) PROVE f[k] = Splitting(f[k - 1], ss[k])
  <2>1. k \in 0 .. Len(ss) /\ k # 0
    OBVIOUS
  <2> QED BY <1>4, <2>1
<1> QED BY <1>3, <1>5, <1>6 DEF f

\* f[k] is the select of the first k stages of a run.
MergeChain(f, seg, n) ==
  f = [k \in 0 .. n |-> IF k = 0 THEN Passthrough ELSE Absorb(f[k - 1], seg[k])]

\* There is such a function for any number of stages.
LEMMA MergeExists ==
  ASSUME NEW seg, NEW n \in Nat
  PROVE  \E f : MergeChain(f, seg, n)
<1> DEFINE S == {m \in Nat : \E f : MergeChain(f, seg, m)}
<1>1. \E f : MergeChain(f, seg, 0)
  <2> DEFINE f == [k \in 0 .. 0 |-> Passthrough]
  <2>1. [k \in 0 .. 0 |-> IF k = 0 THEN Passthrough ELSE Absorb(f[k - 1], seg[k])] = f
    OBVIOUS
  <2> QED BY <2>1 DEF MergeChain
<1>2. 0 \in S
  BY <1>1
<1>3. ASSUME NEW m \in Nat, m \in S PROVE m + 1 \in S
  <2>1. PICK f : MergeChain(f, seg, m)
    BY <1>3
  <2> DEFINE g == [k \in 0 .. m + 1 |-> IF k = m + 1 THEN Absorb(f[m], seg[m + 1]) ELSE f[k]]
  <2>2. ASSUME NEW k \in 0 .. m + 1
        PROVE  g[k] = IF k = 0 THEN Passthrough ELSE Absorb(g[k - 1], seg[k])
    <3>1. CASE k = m + 1
      <4>1. g[k] = Absorb(f[m], seg[m + 1]) /\ g[k - 1] = f[m] /\ k # 0
        BY <3>1
      <4> QED BY <3>1, <4>1
    <3>2. CASE k # m + 1
      <4>1. k \in 0 .. m /\ g[k] = f[k] /\ (k # 0 => g[k - 1] = f[k - 1])
        BY <3>2
      <4>2. f[k] = IF k = 0 THEN Passthrough ELSE Absorb(f[k - 1], seg[k])
        BY <2>1, <4>1 DEF MergeChain
      <4> QED BY <4>1, <4>2
    <3> QED BY <3>1, <3>2
  <2>3. MergeChain(g, seg, m + 1)
    <3>1. g = [k \in 0 .. m + 1 |-> g[k]]
      OBVIOUS
    <3> HIDE DEF g
    <3> QED BY <2>2, <3>1 DEF MergeChain
  <2> QED BY <2>3
<1>4. Nat \subseteq S
  <2> HIDE DEF S
  <2> QED BY <1>2, <1>3, SetInduction
<1> QED BY <1>4

MergeBy(seg) == CHOOSE f : MergeChain(f, seg, Len(seg))

\* MergedSelect takes one turn per stage.
LEMMA MergeUnfolds ==
  ASSUME NEW seg, Len(seg) \in Nat
  PROVE  /\ MergedSelect(seg) = MergeBy(seg)[Len(seg)]
         /\ MergeBy(seg)[0] = Passthrough
         /\ \A k \in 1 .. Len(seg) : MergeBy(seg)[k] = Absorb(MergeBy(seg)[k - 1], seg[k])
<1> DEFINE f == MergeBy(seg)
<1>1. \E g : MergeChain(g, seg, Len(seg))
  BY MergeExists
<1>2. MergeChain(f, seg, Len(seg))
  BY <1>1 DEF MergeBy
<1>3. MergedSelect(seg) = MergeBy(seg)[Len(seg)]
  BY DEF MergedSelect, MergeBy, MergeChain
<1> HIDE DEF f
<1>4. \A k \in 0 .. Len(seg) : f[k] = IF k = 0 THEN Passthrough ELSE Absorb(f[k - 1], seg[k])
  BY <1>2 DEF MergeChain
<1>5. f[0] = Passthrough
  BY <1>4
<1>6. ASSUME NEW k \in 1 .. Len(seg) PROVE f[k] = Absorb(f[k - 1], seg[k])
  <2>1. k \in 0 .. Len(seg) /\ k # 0
    OBVIOUS
  <2> QED BY <1>4, <2>1
<1> QED BY <1>3, <1>5, <1>6 DEF f

\* The keys of two sorts.
LEMMA KeysOfBoth ==
  ASSUME NEW s, IsSequence(s), NEW t, IsSequence(t)
  PROVE  IsSequence(s \o t) /\ KeyColumns(s \o t) \subseteq KeyColumns(s) \cup KeyColumns(t)
<1> DEFINE A == {s[k] : k \in DOMAIN s}
           B == {t[k] : k \in DOMAIN t}
<1>1. s \in Seq(A) /\ t \in Seq(B)
  BY SequenceShape
<1>2. s \in Seq(A \cup B) /\ t \in Seq(A \cup B)
  <2>1. A \subseteq A \cup B /\ B \subseteq A \cup B
    OBVIOUS
  <2> HIDE DEF A, B
  <2> QED BY <1>1, <2>1, SeqMonotonic
<1>3. s \o t \in Seq(A \cup B)
  <2> HIDE DEF A, B
  <2> QED BY <1>2, ConcatProperties
<1>4. IsSequence(s \o t)
  BY <1>3, SequenceOfAny
<1>5. ASSUME NEW k \in DOMAIN (s \o t) PROVE (s \o t)[k] \in A \cup B
  <2> HIDE DEF A, B
  <2> QED BY <1>3, LenProperties
<1>6. ASSUME NEW k \in DOMAIN (s \o t) PROVE (s \o t)[k].col \in KeyColumns(s) \cup KeyColumns(t)
  BY <1>5 DEF KeyColumns
<1> QED BY <1>4, <1>6 DEF KeyColumns

\* A select that only filters, sorts and limits rows with the columns E.
Plain(q, E) ==
  /\ DOMAIN q = {"where", "select", "project", "order", "limit"}
  /\ q.select = {} /\ q.project = FALSE
  /\ PredColumns(q.where) \subseteq E
  /\ IsSequence(q.order) /\ KeyColumns(q.order) \subseteq E

\* Taking in one more stage of a run keeps it so.
LEMMA AbsorbPlain ==
  ASSUME NEW E, NEW q, Plain(q, E), NEW st, WellFormed(st), ~IsBreakpoint(st), References(st) \subseteq E
  PROVE  Plain(Absorb(q, st), E)
<1>1. PredColumns(st.preds) \subseteq E /\ KeyColumns(st.keys) \subseteq E /\ IsSequence(st.keys)
  BY DEF References, WellFormed
<1>2. CASE st.op = "Filter"
  <2> DEFINE p == [q EXCEPT !.where = @ \cup st.preds]
  <2>1. Absorb(q, st) = p
    BY <1>2 DEF Absorb
  <2>2. /\ DOMAIN p = DOMAIN q /\ p.select = q.select /\ p.project = q.project /\ p.order = q.order
        /\ p.where = q.where \cup st.preds
    BY DEF Plain
  <2> HIDE DEF p
  <2>3. PredColumns(p.where) \subseteq E
    BY <1>1, <2>2 DEF PredColumns, Plain
  <2> QED BY <2>1, <2>2, <2>3 DEF Plain
<1>3. CASE st.op = "Sort"
  <2> DEFINE p == [q EXCEPT !.order = @ \o st.keys]
  <2>1. Absorb(q, st) = p
    BY <1>3 DEF Absorb
  <2>2. /\ DOMAIN p = DOMAIN q /\ p.select = q.select /\ p.project = q.project /\ p.where = q.where
        /\ p.order = q.order \o st.keys
    BY DEF Plain
  <2> HIDE DEF p
  <2>3. IsSequence(p.order) /\ KeyColumns(p.order) \subseteq E
    <3>1. IsSequence(q.order) /\ KeyColumns(q.order) \subseteq E
      BY DEF Plain
    <3> QED BY <1>1, <2>2, <3>1, KeysOfBoth
  <2> QED BY <2>1, <2>2, <2>3 DEF Plain
<1>4. CASE st.op = "Limit"
  <2> DEFINE p == [q EXCEPT !.limit = st.n]
  <2>1. Absorb(q, st) = p
    BY <1>4 DEF Absorb
  <2>2. /\ DOMAIN p = DOMAIN q /\ p.select = q.select /\ p.project = q.project /\ p.where = q.where
        /\ p.order = q.order
    BY DEF Plain
  <2> HIDE DEF p
  <2> QED BY <2>1, <2>2 DEF Plain
<1>5. CASE st.op \notin {"Filter", "Sort", "Limit"}
  <2>1. Absorb(q, st) = q
    BY <1>5 DEF Absorb, IsBreakpoint
  <2> QED BY <2>1
<1> QED BY <1>2, <1>3, <1>4, <1>5

\* A run of stages that are no breakpoints and mention columns of E.
Run(seg, E) == \A k \in DOMAIN seg : WellFormed(seg[k]) /\ ~IsBreakpoint(seg[k]) /\ References(seg[k]) \subseteq E

\* Its select names columns of E and passes them on.
LEMMA RunSelect ==
  ASSUME NEW E, NEW seg, IsSequence(seg), Run(seg, E)
  PROVE  /\ ~IsBreak(seg) /\ SelectReferences(seg) \subseteq E /\ SelectColumns(seg, E) = E
         /\ Plain(MergedSelect(seg), E)
<1> DEFINE f == MergeBy(seg)
           n == Len(seg)
           q == MergedSelect(seg)
           M == {k \in Nat : k <= n => Plain(f[k], E)}
<1>1. n \in Nat /\ DOMAIN seg = 1 .. n
  BY SequenceShape
<1>2. q = f[n] /\ f[0] = Passthrough /\ \A k \in 1 .. n : f[k] = Absorb(f[k - 1], seg[k])
  BY <1>1, MergeUnfolds
<1> HIDE DEF f, q
<1>3. 0 \in M
  <2>1. IsSequence(<< >>)
    BY EmptySeq, SequenceOfAny
  <2>2. Plain(Passthrough, E)
    BY <2>1 DEF Plain, Passthrough, PredColumns, KeyColumns
  <2> QED BY <1>2, <2>2
<1>4. ASSUME NEW k \in Nat, k \in M PROVE k + 1 \in M
  <2> SUFFICES ASSUME k + 1 <= n PROVE Plain(f[k + 1], E)
    OBVIOUS
  <2>1. k + 1 \in 1 .. n /\ (k + 1) - 1 = k /\ Plain(f[k], E)
    BY <1>1, <1>4
  <2>2. f[k + 1] = Absorb(f[k], seg[k + 1])
    BY <1>2, <2>1
  <2>3. WellFormed(seg[k + 1]) /\ ~IsBreakpoint(seg[k + 1]) /\ References(seg[k + 1]) \subseteq E
    BY <1>1, <2>1 DEF Run
  <2> QED BY <2>1, <2>2, <2>3, AbsorbPlain
<1>5. Nat \subseteq M
  <2> HIDE DEF M
  <2> QED BY <1>3, <1>4, SetInduction
<1>6. Plain(q, E)
  BY <1>1, <1>2, <1>5
<1>7. ~IsBreak(seg)
  BY <1>1 DEF IsBreak, Run
<1>8. SelectReferences(seg) = PredColumns(q.where) \cup KeyColumns(q.order) \cup {i.ref : i \in q.select}
  BY <1>7 DEF SelectReferences, q
<1>9. SelectColumns(seg, E) = {i.name : i \in q.select} \cup (IF q.project THEN {} ELSE E)
  BY <1>7 DEF SelectColumns, q
<1> QED BY <1>6, <1>7, <1>8, <1>9 DEF Plain, q

\* f holds the columns between the segments, from the table's to E behind the last,
\* and every segment names columns it has.
Chained(f, segs, source, E) ==
  /\ f[1] = source /\ f[Len(segs) + 1] = E
  /\ \A k \in 1 .. Len(segs) :
       f[k + 1] = SelectColumns(segs[k], f[k]) /\ SelectReferences(segs[k]) \subseteq f[k]

\* One more segment goes on with the columns behind the others.
LEMMA OneMoreSegment ==
  ASSUME NEW S, NEW segs \in Seq(S), NEW seg \in S, NEW source, NEW E,
         \E f : Chained(f, segs, source, E), SelectReferences(seg) \subseteq E
  PROVE  \E g : Chained(g, Append(segs, seg), source, SelectColumns(seg, E))
<1> DEFINE n == Len(segs)
           t == Append(segs, seg)
           D == SelectColumns(seg, E)
<1>1. PICK f : Chained(f, segs, source, E)
  OBVIOUS
<1> DEFINE g == [k \in 1 .. n + 2 |-> IF k = n + 2 THEN D ELSE f[k]]
<1>2. n \in Nat /\ Len(t) = n + 1 /\ t[n + 1] = seg /\ \A k \in 1 .. n : t[k] = segs[k]
  BY AppendProperties, LenProperties
<1>3. g[n + 2] = D /\ \A k \in 1 .. n + 1 : g[k] = f[k]
  BY <1>2
<1> HIDE DEF g, t, D
<1>4. g[1] = source /\ g[Len(t) + 1] = D
  <2>1. 1 \in 1 .. n + 1 /\ (n + 1) + 1 = n + 2
    BY <1>2
  <2> QED BY <1>1, <1>2, <1>3, <2>1 DEF Chained
<1>5. ASSUME NEW k \in 1 .. Len(t)
      PROVE  g[k + 1] = SelectColumns(t[k], g[k]) /\ SelectReferences(t[k]) \subseteq g[k]
  <2>1. CASE k = n + 1
    <3>1. t[k] = seg /\ g[k] = E /\ g[k + 1] = D
      <4>1. n + 1 \in 1 .. n + 1 /\ k + 1 = n + 2
        BY <1>2, <2>1
      <4> QED BY <1>1, <1>2, <1>3, <2>1, <4>1 DEF Chained
    <3> QED BY <3>1 DEF D
  <2>2. CASE k # n + 1
    <3>1. k \in 1 .. n /\ k \in 1 .. n + 1 /\ k + 1 \in 1 .. n + 1
      BY <1>2, <2>2
    <3>2. t[k] = segs[k] /\ g[k] = f[k] /\ g[k + 1] = f[k + 1]
      BY <1>2, <1>3, <3>1
    <3> QED BY <1>1, <3>1, <3>2 DEF Chained
  <2> QED BY <2>1, <2>2
<1>6. Chained(g, t, source, D)
  BY <1>4, <1>5 DEF Chained
<1> QED BY <1>6 DEF t, D

\* A chain of segments is what Accepted asks for.
LEMMA ChainedAccepted ==
  ASSUME NEW ss, NEW source, IsSequence(SplitSegments(ss)),
         NEW E, \E f : Chained(f, SplitSegments(ss), source, E)
  PROVE  Accepted(ss, source)
<1> DEFINE segs == SplitSegments(ss)
           n == Len(segs)
           Step(f, k) == IF k = 1 THEN source ELSE SelectColumns(segs[k - 1], f[k - 1])
           From(f) == f = [k \in 1 .. n + 1 |-> Step(f, k)]
           from == CHOOSE f : From(f)
<1>1. n \in Nat /\ DOMAIN segs = 1 .. n
  BY SequenceShape
<1>2. Accepted(ss, source) <=> \A k \in DOMAIN segs : SelectReferences(segs[k]) \subseteq from[k]
  BY DEF Accepted
<1> HIDE DEF segs
<1>3. PICK f : Chained(f, segs, source, E)
  BY DEF segs
<1> DEFINE g == [k \in 1 .. n + 1 |-> f[k]]
<1>4. ASSUME NEW k \in 1 .. n + 1 PROVE g[k] = Step(g, k)
  <2>1. CASE k = 1
    BY <1>3, <2>1 DEF Chained
  <2>2. CASE k # 1
    <3>1. k - 1 \in 1 .. n /\ k - 1 \in 1 .. n + 1 /\ (k - 1) + 1 = k
      BY <1>1, <2>2
    <3>2. f[(k - 1) + 1] = SelectColumns(segs[k - 1], f[k - 1])
      BY <1>3, <3>1 DEF Chained
    <3>3. g[k] = f[k] /\ g[k - 1] = f[k - 1]
      BY <3>1
    <3> HIDE DEF g
    <3> QED BY <2>2, <3>1, <3>2, <3>3
  <2> QED BY <2>1, <2>2
<1>5. From(g)
  <2>1. g = [k \in 1 .. n + 1 |-> g[k]]
    OBVIOUS
  <2> HIDE DEF g, Step
  <2> QED BY <1>4, <2>1
<1>6. From(from)
  <2> HIDE DEF From, g
  <2> QED BY <1>5
<1> HIDE DEF from
<1>7. from[1] = source /\ \A k \in 1 .. n : from[k + 1] = SelectColumns(segs[k], from[k])
  <2>1. \A k \in 1 .. n + 1 : from[k] = Step(from, k)
    <3> HIDE DEF Step
    <3> QED BY <1>6
  <2>2. ASSUME NEW k \in 1 .. n PROVE from[k + 1] = SelectColumns(segs[k], from[k])
    <3>1. k + 1 \in 1 .. n + 1 /\ k + 1 # 1 /\ (k + 1) - 1 = k
      BY <1>1
    <3> QED BY <2>1, <3>1
  <2>3. 1 \in 1 .. n + 1
    BY <1>1
  <2> QED BY <2>1, <2>2, <2>3
<1> DEFINE M == {k \in Nat : k <= n => from[k + 1] = f[k + 1]}
<1>8. 0 \in M
  BY <1>3, <1>7 DEF Chained
<1>9. ASSUME NEW k \in Nat, k \in M PROVE k + 1 \in M
  <2> SUFFICES ASSUME k + 1 <= n PROVE from[(k + 1) + 1] = f[(k + 1) + 1]
    OBVIOUS
  <2>1. k + 1 \in 1 .. n /\ from[k + 1] = f[k + 1]
    BY <1>1, <1>9
  <2> QED BY <1>3, <1>7, <2>1 DEF Chained
<1>10. Nat \subseteq M
  <2> HIDE DEF M
  <2> QED BY <1>8, <1>9, SetInduction
<1>11. ASSUME NEW k \in 1 .. n PROVE SelectReferences(segs[k]) \subseteq from[k]
  <2>1. k - 1 \in Nat /\ k - 1 <= n /\ (k - 1) + 1 = k
    BY <1>1
  <2>2. k - 1 \in M
    BY <1>10, <2>1
  <2>3. from[(k - 1) + 1] = f[(k - 1) + 1]
    BY <2>1, <2>2
  <2> QED BY <1>3, <2>1, <2>3 DEF Chained
<1> HIDE DEF M
<1> QED BY <1>1, <1>2, <1>11

\* What splitSegments holds where the pipeline has the columns E: finished segments that
\* end there, and a run that only mentions them.
HeldAt(acc, S, source, E) ==
  /\ DOMAIN acc = {"segs", "cur"}
  /\ acc.segs \in Seq(Seq(S)) /\ acc.cur \in Seq(S)
  /\ \E f : Chained(f, acc.segs, source, E)
  /\ Run(acc.cur, E)

\* Finishing the run leaves segments that end there.
LEMMA FlushChained ==
  ASSUME NEW S, NEW source, NEW E, NEW acc, HeldAt(acc, S, source, E)
  PROVE  Flush(acc) \in Seq(Seq(S)) /\ \E f : Chained(f, Flush(acc), source, E)
<1>1. CASE acc.cur = <<>>
  BY <1>1 DEF Flush, HeldAt
<1>2. CASE acc.cur # <<>>
  <2>1. Flush(acc) = Append(acc.segs, acc.cur)
    BY <1>2 DEF Flush
  <2>2. IsSequence(acc.cur)
    BY SequenceOfAny DEF HeldAt
  <2>3. SelectReferences(acc.cur) \subseteq E /\ SelectColumns(acc.cur, E) = E
    BY <2>2, RunSelect DEF HeldAt
  <2>4. acc.segs \in Seq(Seq(S)) /\ acc.cur \in Seq(S) /\ \E f : Chained(f, acc.segs, source, E)
    BY DEF HeldAt
  <2>5. \E g : Chained(g, Append(acc.segs, acc.cur), source, SelectColumns(acc.cur, E))
    BY <2>3, <2>4, OneMoreSegment
  <2> QED BY <2>1, <2>3, <2>4, <2>5, AppendProperties
<1> QED BY <1>1, <1>2

\* One turn of splitSegments.
LEMMA SplittingHeld ==
  ASSUME NEW S, NEW source, NEW E, NEW acc, HeldAt(acc, S, source, E),
         NEW st \in S, WellFormed(st), References(st) \subseteq E
  PROVE  HeldAt(Splitting(acc, st), S, source, ColumnsAfter(st, E))
<1>1. CASE IsBreakpoint(st)
  <2> DEFINE seg == <<st>>
             a == Splitting(acc, st)
  <2>1. Flush(acc) \in Seq(Seq(S)) /\ \E f : Chained(f, Flush(acc), source, E)
    BY FlushChained
  <2>2. a = [segs |-> Append(Flush(acc), seg), cur |-> <<>>]
    BY <1>1 DEF Splitting
  <2>3. seg \in Seq(S) /\ Len(seg) = 1 /\ seg[1] = st
    OBVIOUS
  <2> HIDE DEF seg, a
  <2>4. IsBreak(seg)
    BY <1>1, <2>3 DEF IsBreak
  <2>5. SelectReferences(seg) \subseteq E /\ SelectColumns(seg, E) = ColumnsAfter(st, E)
    BY <2>3, <2>4 DEF SelectReferences, SelectColumns
  <2>6. \E g : Chained(g, Append(Flush(acc), seg), source, SelectColumns(seg, E))
    BY <2>1, <2>3, <2>5, OneMoreSegment
  <2>7. Append(Flush(acc), seg) \in Seq(Seq(S)) /\ <<>> \in Seq(S)
    BY <2>1, <2>3, AppendProperties, EmptySeq
  <2>8. Run(<<>>, ColumnsAfter(st, E))
    BY DEF Run
  <2>9. DOMAIN a = {"segs", "cur"} /\ a.segs = Append(Flush(acc), seg) /\ a.cur = <<>>
    BY <2>2
  <2>10. \E g : Chained(g, a.segs, source, ColumnsAfter(st, E))
    BY <2>5, <2>6, <2>9
  <2>11. a.segs \in Seq(Seq(S)) /\ a.cur \in Seq(S) /\ Run(a.cur, ColumnsAfter(st, E))
    BY <2>7, <2>8, <2>9
  <2>12. HeldAt(a, S, source, ColumnsAfter(st, E))
    BY <2>9, <2>10, <2>11 DEF HeldAt
  <2> QED BY <2>12 DEF a
<1>2. CASE ~IsBreakpoint(st)
  <2> DEFINE a == Splitting(acc, st)
  <2>1. a = [acc EXCEPT !.cur = Append(@, st)]
    BY <1>2 DEF Splitting
  <2>2. DOMAIN a = {"segs", "cur"} /\ a.segs = acc.segs /\ a.cur = Append(acc.cur, st)
    BY <2>1 DEF HeldAt
  <2> HIDE DEF a
  <2>3. ColumnsAfter(st, E) = E
    BY <1>2 DEF ColumnsAfter, IsBreakpoint
  <2>4. acc.cur \in Seq(S) /\ Len(acc.cur) \in Nat /\ DOMAIN acc.cur = 1 .. Len(acc.cur)
    BY LenProperties DEF HeldAt
  <2>5. /\ a.cur \in Seq(S) /\ DOMAIN a.cur = 1 .. Len(acc.cur) + 1
        /\ a.cur[Len(acc.cur) + 1] = st /\ \A k \in 1 .. Len(acc.cur) : a.cur[k] = acc.cur[k]
    BY <2>2, <2>4, AppendProperties, LenProperties
  <2>6. Run(a.cur, E)
    <3>1. ASSUME NEW k \in 1 .. Len(acc.cur) + 1
          PROVE  WellFormed(a.cur[k]) /\ ~IsBreakpoint(a.cur[k]) /\ References(a.cur[k]) \subseteq E
      <4>1. CASE k = Len(acc.cur) + 1
        BY <1>2, <2>5, <4>1
      <4>2. CASE k # Len(acc.cur) + 1
        <5>1. k \in 1 .. Len(acc.cur)
          BY <2>4, <4>2
        <5> QED BY <2>4, <2>5, <5>1 DEF HeldAt, Run
      <4> QED BY <4>1, <4>2
    <3> QED BY <2>5, <3>1 DEF Run
  <2>7. a.segs \in Seq(Seq(S)) /\ \E f : Chained(f, a.segs, source, E)
    BY <2>2 DEF HeldAt
  <2>8. HeldAt(a, S, source, E)
    BY <2>2, <2>5, <2>6, <2>7 DEF HeldAt
  <2> QED BY <2>3, <2>8 DEF a
<1> QED BY <1>1, <1>2

\* The columns of the stages are those of the segments.
LEMMA ResolvedAccepted ==
  ASSUME NEW ss, IsSequence(ss), AllWellFormed(ss), NEW source, Resolves(ss, source)
  PROVE  Accepted(ss, source)
<1> DEFINE S == {ss[k] : k \in DOMAIN ss}
           n == Len(ss)
           f == SplitBy(ss)
           C == Columns(ss, source)
           M == {k \in Nat : k <= n => HeldAt(f[k], S, source, C[k + 1])}
<1>1. ss \in Seq(S) /\ n \in Nat /\ DOMAIN ss = 1 .. n
  BY SequenceShape
<1>2. \A k \in 1 .. n : ss[k] \in S /\ WellFormed(ss[k]) /\ References(ss[k]) \subseteq C[k]
  BY <1>1 DEF AllWellFormed, Resolves
<1>3. C[1] = source /\ \A k \in 2 .. n + 1 : C[k] = ColumnsAfter(ss[k - 1], C[k - 1])
  BY <1>1, ColumnsUnfold
<1>4. /\ SplitSegments(ss) = Flush(f[n]) /\ f[0] = [segs |-> <<>>, cur |-> <<>>]
      /\ \A k \in 1 .. n : f[k] = Splitting(f[k - 1], ss[k])
  BY <1>1, SplitUnfolds
<1> HIDE DEF f, S, C
<1>5. 0 \in M
  <2> DEFINE g == [k \in 1 .. 1 |-> source]
             a == [segs |-> <<>>, cur |-> <<>>]
  <2>1. Chained(g, <<>>, source, source)
    BY DEF Chained
  <2>2. Run(<<>>, source)
    BY DEF Run
  <2>3. <<>> \in Seq(S) /\ <<>> \in Seq(Seq(S))
    BY EmptySeq
  <2>4. DOMAIN a = {"segs", "cur"} /\ a.segs = <<>> /\ a.cur = <<>>
    OBVIOUS
  <2> HIDE DEF g, a
  <2>5. HeldAt(a, S, source, source)
    BY <2>1, <2>2, <2>3, <2>4 DEF HeldAt
  <2> QED BY <1>3, <1>4, <2>5 DEF a
<1>6. ASSUME NEW k \in Nat, k \in M PROVE k + 1 \in M
  <2> SUFFICES ASSUME k + 1 <= n PROVE HeldAt(f[k + 1], S, source, C[(k + 1) + 1])
    OBVIOUS
  <2>1. /\ k + 1 \in 1 .. n /\ (k + 1) - 1 = k /\ (k + 1) + 1 \in 2 .. n + 1 /\ ((k + 1) + 1) - 1 = k + 1
        /\ HeldAt(f[k], S, source, C[k + 1])
    BY <1>1, <1>6
  <2>2. f[k + 1] = Splitting(f[k], ss[k + 1])
    BY <1>4, <2>1
  <2>3. C[(k + 1) + 1] = ColumnsAfter(ss[k + 1], C[k + 1])
    BY <1>3, <2>1
  <2>4. ss[k + 1] \in S /\ WellFormed(ss[k + 1]) /\ References(ss[k + 1]) \subseteq C[k + 1]
    BY <1>2, <2>1
  <2> QED BY <2>1, <2>2, <2>3, <2>4, SplittingHeld
<1>7. Nat \subseteq M
  <2> HIDE DEF M
  <2> QED BY <1>5, <1>6, SetInduction
<1>8. HeldAt(f[n], S, source, C[n + 1])
  BY <1>1, <1>7
<1>9. IsSequence(SplitSegments(ss)) /\ \E g : Chained(g, SplitSegments(ss), source, C[n + 1])
  <2>1. Flush(f[n]) \in Seq(Seq(S)) /\ \E g : Chained(g, Flush(f[n]), source, C[n + 1])
    BY <1>8, FlushChained
  <2> QED BY <1>4, <2>1, SequenceOfAny
<1> QED BY <1>9, ChainedAccepted

-----------------------------------------------------------------------------
(* The inputs of the unions *)

\* The stages of t have the inputs stages of ss have.
InputsFrom(t, ss) ==
  \A k \in DOMAIN t : t[k].inputs = <<>> \/ \E j \in DOMAIN ss : t[k].inputs = ss[j].inputs

\* What is kept are stages there were.
LEMMA OnlyOfThem ==
  ASSUME NEW ss, IsSequence(ss), NEW K
  PROVE  \A k \in DOMAIN Only(ss, K) : \E j \in DOMAIN ss : Only(ss, K)[k] = ss[j]
<1> DEFINE S == {ss[j] : j \in DOMAIN ss}
           t == Only(ss, K)
<1>1. ss \in Seq(S) /\ Len(ss) \in Nat
  BY SequenceShape
<1>2. t \in Seq(S)
  <2> HIDE DEF S
  <2> QED BY <1>1, OnlyUnfolds, OnlyIsSequence
<1>3. \A k \in DOMAIN t : t[k] \in S
  <2> HIDE DEF S, t
  <2> QED BY <1>2, LenProperties
<1> QED BY <1>3

\* So are the stages a walk leaves.
LEMMA WalkOfThem ==
  ASSUME NEW ss, IsSequence(ss)
  PROVE  \A k \in DOMAIN PushdownPass(ss) : \E j \in DOMAIN ss : PushdownPass(ss)[k] = ss[j]
<1> DEFINE S == {ss[j] : j \in DOMAIN ss}
           t == PushdownPass(ss)
<1>1. ss \in Seq(S) /\ Len(ss) \in Nat
  BY SequenceShape
<1>2. t \in Seq(S)
  <2> HIDE DEF S
  <2>1. Len(ss) \in 0 .. Len(ss) /\ t = WalkBy(ss)[Len(ss)]
    BY <1>1, WalkUnfolds
  <2>2. \A k \in 0 .. Len(ss) : WalkBy(ss)[k] \in Seq(S)
    BY <1>1, WalkKeepsLength
  <2> HIDE DEF t
  <2> QED BY <2>1, <2>2
<1>3. \A k \in DOMAIN t : t[k] \in S
  <2> HIDE DEF S, t
  <2> QED BY <1>2, LenProperties
<1> QED BY <1>3

\* The rules that move, drop or add plain stages keep the inputs.
LEMMA RulesKeepInputs ==
  ASSUME NEW ss, IsSequence(ss)
  PROVE  /\ InputsFrom(PushdownPass(ss), ss) /\ InputsFrom(SaturationRewrite(ss), ss)
         /\ InputsFrom(ConstantFold(ss), ss) /\ InputsFrom(ColumnPrune(ss), ss)
<1>1. InputsFrom(PushdownPass(ss), ss)
  BY WalkOfThem DEF InputsFrom
<1>2. InputsFrom(SaturationRewrite(ss), ss)
  <2> DEFINE K == {k \in DOMAIN ss : ~Idempotent(ss[k])}
  <2>1. SaturationRewrite(ss) = Only(ss, K)
    BY DEF SaturationRewrite
  <2> HIDE DEF K
  <2>2. \A k \in DOMAIN Only(ss, K) : \E j \in DOMAIN ss : Only(ss, K)[k] = ss[j]
    BY OnlyOfThem
  <2> QED BY <2>1, <2>2 DEF InputsFrom
<1>3. InputsFrom(ConstantFold(ss), ss)
  <2> DEFINE t == [k \in DOMAIN ss |-> Folded(ss[k])]
             K == {k \in DOMAIN ss : ~Tautology(ss[k])}
             n == Len(ss)
  <2>1. ConstantFold(ss) = Only(t, K)
    BY DEF ConstantFold, Folded
  <2>2. n \in Nat /\ DOMAIN ss = 1 .. n
    BY SequenceShape
  <2>3. DOMAIN t = 1 .. n /\ t = [k \in 1 .. n |-> t[k]] /\ \A k \in 1 .. n : t[k] = Folded(ss[k])
    BY <2>2
  <2> HIDE DEF t, K
  <2>4. IsSequence(t)
    BY <2>2, <2>3, SequenceFromFunction
  <2>5. \A j \in 1 .. n : t[j].inputs = <<>> \/ t[j].inputs = ss[j].inputs
    BY <2>3, NoRowsStage DEF Folded
  <2>6. \A k \in DOMAIN Only(t, K) : \E j \in 1 .. n : Only(t, K)[k] = t[j]
    BY <2>3, <2>4, OnlyOfThem
  <2> QED BY <2>1, <2>2, <2>5, <2>6 DEF InputsFrom
<1>4. InputsFrom(ColumnPrune(ss), ss)
  <2> DEFINE t == ColumnPrune(ss)
             n == Len(ss)
  <2>1. CASE ~Prunes(ss)
    BY <2>1 DEF ColumnPrune, InputsFrom
  <2>2. CASE Prunes(ss)
    <3>1. /\ IsSequence(t) /\ Len(t) = n + 1 /\ t[1] = PruneStage(ss)
          /\ \A k \in 1 .. n : t[k + 1] = ss[k]
      BY <2>2, PrunedShape
    <3>2. n \in Nat /\ DOMAIN ss = 1 .. n /\ DOMAIN t = 1 .. n + 1
      BY <3>1, SequenceShape
    <3> HIDE DEF t
    <3>3. ASSUME NEW k \in 1 .. n + 1
          PROVE  t[k].inputs = <<>> \/ \E j \in 1 .. n : t[k].inputs = ss[j].inputs
      <4>1. CASE k = 1
        BY <3>1, <4>1, PruneStageColumns
      <4>2. CASE k # 1
        <5>1. k - 1 \in 1 .. n /\ (k - 1) + 1 = k
          BY <3>2, <4>2
        <5>2. t[(k - 1) + 1] = ss[k - 1]
          BY <3>1, <5>1
        <5> QED BY <5>1, <5>2
      <4> QED BY <4>1, <4>2
    <3>4. InputsFrom(t, ss)
      BY <3>2, <3>3 DEF InputsFrom
    <3> QED BY <3>4 DEF t
  <2> QED BY <2>1, <2>2
<1> QED BY <1>1, <1>2, <1>3, <1>4

-----------------------------------------------------------------------------
(* Legal pipelines make rows that have their columns *)

\* f[k] are the rows behind k stages of an input.
PlainChain(f, ss, r, n) ==
  f = [k \in 0 .. n |-> IF k = 0 THEN r ELSE ApplyPlain(ss[k], f[k - 1])]

\* There is such a function for any number of stages.
LEMMA PlainExist ==
  ASSUME NEW ss, NEW r, NEW n \in Nat
  PROVE  \E f : PlainChain(f, ss, r, n)
<1> DEFINE S == {m \in Nat : \E f : PlainChain(f, ss, r, m)}
<1>1. \E f : PlainChain(f, ss, r, 0)
  <2> DEFINE f == [k \in 0 .. 0 |-> r]
  <2>1. [k \in 0 .. 0 |-> IF k = 0 THEN r ELSE ApplyPlain(ss[k], f[k - 1])] = f
    OBVIOUS
  <2> QED BY <2>1 DEF PlainChain
<1>2. 0 \in S
  BY <1>1
<1>3. ASSUME NEW m \in Nat, m \in S PROVE m + 1 \in S
  <2>1. PICK f : PlainChain(f, ss, r, m)
    BY <1>3
  <2> DEFINE g == [k \in 0 .. m + 1 |-> IF k = m + 1 THEN ApplyPlain(ss[m + 1], f[m]) ELSE f[k]]
  <2>2. ASSUME NEW k \in 0 .. m + 1
        PROVE  g[k] = IF k = 0 THEN r ELSE ApplyPlain(ss[k], g[k - 1])
    <3>1. CASE k = m + 1
      <4>1. g[k] = ApplyPlain(ss[m + 1], f[m]) /\ g[k - 1] = f[m] /\ k # 0
        BY <3>1
      <4> QED BY <3>1, <4>1
    <3>2. CASE k # m + 1
      <4>1. k \in 0 .. m /\ g[k] = f[k] /\ (k # 0 => g[k - 1] = f[k - 1])
        BY <3>2
      <4>2. f[k] = IF k = 0 THEN r ELSE ApplyPlain(ss[k], f[k - 1])
        BY <2>1, <4>1 DEF PlainChain
      <4> QED BY <4>1, <4>2
    <3> QED BY <3>1, <3>2
  <2>3. PlainChain(g, ss, r, m + 1)
    <3>1. g = [k \in 0 .. m + 1 |-> g[k]]
      OBVIOUS
    <3> HIDE DEF g
    <3> QED BY <2>2, <3>1 DEF PlainChain
  <2> QED BY <2>3
<1>4. Nat \subseteq S
  <2> HIDE DEF S
  <2> QED BY <1>2, <1>3, SetInduction
<1> QED BY <1>4

PlainBy(ss, r) == CHOOSE f : PlainChain(f, ss, r, Len(ss))

\* PlainRows takes the rows through the stages.
LEMMA PlainUnfolds ==
  ASSUME NEW ss, NEW r, Len(ss) \in Nat
  PROVE  /\ PlainRows(ss, r) = PlainBy(ss, r)[Len(ss)]
         /\ PlainBy(ss, r)[0] = r
         /\ \A k \in 1 .. Len(ss) : PlainBy(ss, r)[k] = ApplyPlain(ss[k], PlainBy(ss, r)[k - 1])
<1> DEFINE f == PlainBy(ss, r)
<1>1. \E g : PlainChain(g, ss, r, Len(ss))
  BY PlainExist
<1>2. PlainChain(f, ss, r, Len(ss))
  BY <1>1 DEF PlainBy
<1>3. PlainRows(ss, r) = PlainBy(ss, r)[Len(ss)]
  BY DEF PlainRows, PlainBy, PlainChain
<1> HIDE DEF f
<1>4. \A k \in 0 .. Len(ss) : f[k] = IF k = 0 THEN r ELSE ApplyPlain(ss[k], f[k - 1])
  BY <1>2 DEF PlainChain
<1>5. f[0] = r
  BY <1>4
<1>6. ASSUME NEW k \in 1 .. Len(ss) PROVE f[k] = ApplyPlain(ss[k], f[k - 1])
  <2>1. k \in 0 .. Len(ss) /\ k # 0
    OBVIOUS
  <2> QED BY <1>4, <2>1
<1> QED BY <1>3, <1>5, <1>6 DEF f

\* The rows of an input.
InputRows(input) == PlainRows(input.stages, Tables[input.table])

\* f[k] are the rows with those of k inputs behind them.
UnionChain(f, inputs, r, n) ==
  f = [k \in 0 .. n |-> IF k = 0 THEN r ELSE Concat(f[k - 1], InputRows(inputs[k]))]

\* There is such a function for any number of stages.
LEMMA UnionExist ==
  ASSUME NEW inputs, NEW r, NEW n \in Nat
  PROVE  \E f : UnionChain(f, inputs, r, n)
<1> DEFINE S == {m \in Nat : \E f : UnionChain(f, inputs, r, m)}
<1>1. \E f : UnionChain(f, inputs, r, 0)
  <2> DEFINE f == [k \in 0 .. 0 |-> r]
  <2>1. [k \in 0 .. 0 |-> IF k = 0 THEN r ELSE Concat(f[k - 1], InputRows(inputs[k]))] = f
    OBVIOUS
  <2> QED BY <2>1 DEF UnionChain
<1>2. 0 \in S
  BY <1>1
<1>3. ASSUME NEW m \in Nat, m \in S PROVE m + 1 \in S
  <2>1. PICK f : UnionChain(f, inputs, r, m)
    BY <1>3
  <2> DEFINE g == [k \in 0 .. m + 1 |-> IF k = m + 1 THEN Concat(f[m], InputRows(inputs[m + 1])) ELSE f[k]]
  <2>2. ASSUME NEW k \in 0 .. m + 1
        PROVE  g[k] = IF k = 0 THEN r ELSE Concat(g[k - 1], InputRows(inputs[k]))
    <3>1. CASE k = m + 1
      <4>1. g[k] = Concat(f[m], InputRows(inputs[m + 1])) /\ g[k - 1] = f[m] /\ k # 0
        BY <3>1
      <4> QED BY <3>1, <4>1
    <3>2. CASE k # m + 1
      <4>1. k \in 0 .. m /\ g[k] = f[k] /\ (k # 0 => g[k - 1] = f[k - 1])
        BY <3>2
      <4>2. f[k] = IF k = 0 THEN r ELSE Concat(f[k - 1], InputRows(inputs[k]))
        BY <2>1, <4>1 DEF UnionChain
      <4> QED BY <4>1, <4>2
    <3> QED BY <3>1, <3>2
  <2>3. UnionChain(g, inputs, r, m + 1)
    <3>1. g = [k \in 0 .. m + 1 |-> g[k]]
      OBVIOUS
    <3> HIDE DEF g
    <3> QED BY <2>2, <3>1 DEF UnionChain
  <2> QED BY <2>3
<1>4. Nat \subseteq S
  <2> HIDE DEF S
  <2> QED BY <1>2, <1>3, SetInduction
<1> QED BY <1>4

UnionBy(inputs, r) == CHOOSE f : UnionChain(f, inputs, r, Len(inputs))

\* UnionRows puts the inputs one behind another.
LEMMA UnionUnfolds ==
  ASSUME NEW inputs, NEW r, Len(inputs) \in Nat
  PROVE  /\ UnionRows(inputs, r, Tables) = IF inputs = <<>> THEN r ELSE DistinctRows(UnionBy(inputs, r)[Len(inputs)], {})
         /\ UnionBy(inputs, r)[0] = r
         /\ \A k \in 1 .. Len(inputs) : UnionBy(inputs, r)[k] = Concat(UnionBy(inputs, r)[k - 1], InputRows(inputs[k]))
<1> DEFINE f == UnionBy(inputs, r)
<1>1. \E g : UnionChain(g, inputs, r, Len(inputs))
  BY UnionExist
<1>2. UnionChain(f, inputs, r, Len(inputs))
  BY <1>1 DEF UnionBy
<1>3. UnionRows(inputs, r, Tables) = IF inputs = <<>> THEN r ELSE DistinctRows(UnionBy(inputs, r)[Len(inputs)], {})
  BY DEF UnionRows, InputRows, UnionBy, UnionChain
<1> HIDE DEF f
<1>4. \A k \in 0 .. Len(inputs) : f[k] = IF k = 0 THEN r ELSE Concat(f[k - 1], InputRows(inputs[k]))
  BY <1>2 DEF UnionChain
<1>5. f[0] = r
  BY <1>4
<1>6. ASSUME NEW k \in 1 .. Len(inputs) PROVE f[k] = Concat(f[k - 1], InputRows(inputs[k]))
  <2>1. k \in 0 .. Len(inputs) /\ k # 0
    OBVIOUS
  <2> QED BY <1>4, <2>1
<1> QED BY <1>3, <1>5, <1>6 DEF f

\* Stages without sub-pipelines.
LEMMA PlainRowsTyped ==
  ASSUME Computes, NEW ss, IsSequence(ss), AllWellFormed(ss), NEW C, Resolves(ss, C), NEW r, Typed(r, C)
  PROVE  /\ Typed(PlainRows(ss, r), Columns(ss, C)[Len(ss) + 1])
         /\ \A k \in 0 .. Len(ss) : Typed(PlainBy(ss, r)[k], Columns(ss, C)[k + 1])
<1> DEFINE n == Len(ss)
           f == PlainBy(ss, r)
           c == Columns(ss, C)
           M == {k \in Nat : k <= n => Typed(f[k], c[k + 1])}
<1>1. n \in Nat /\ DOMAIN ss = 1 .. n
  BY SequenceShape
<1>2. PlainRows(ss, r) = f[n] /\ f[0] = r /\ \A k \in 1 .. n : f[k] = ApplyPlain(ss[k], f[k - 1])
  BY <1>1, PlainUnfolds
<1>3. c[1] = C /\ \A k \in 2 .. n + 1 : c[k] = ColumnsAfter(ss[k - 1], c[k - 1])
  BY <1>1, ColumnsUnfold
<1>4. \A k \in 1 .. n : WellFormed(ss[k]) /\ References(ss[k]) \subseteq c[k]
  BY <1>1 DEF AllWellFormed, Resolves
<1> HIDE DEF f, c
<1>5. 0 \in M
  BY <1>2, <1>3
<1>6. ASSUME NEW k \in Nat, k \in M PROVE k + 1 \in M
  <2> SUFFICES ASSUME k + 1 <= n PROVE Typed(f[k + 1], c[(k + 1) + 1])
    OBVIOUS
  <2>1. /\ k + 1 \in 1 .. n /\ (k + 1) - 1 = k /\ (k + 1) + 1 \in 2 .. n + 1 /\ ((k + 1) + 1) - 1 = k + 1
        /\ Typed(f[k], c[k + 1])
    BY <1>1, <1>6
  <2>2. f[k + 1] = ApplyPlain(ss[k + 1], f[k]) /\ c[(k + 1) + 1] = ColumnsAfter(ss[k + 1], c[k + 1])
    BY <1>2, <1>3, <2>1
  <2>3. References(ss[k + 1]) \subseteq c[k + 1] /\ IsSequence(ss[k + 1].keys)
    BY <1>4, <2>1 DEF WellFormed
  <2>4. Len(ss[k + 1].keys) \in Nat /\ DOMAIN ss[k + 1].keys = 1 .. Len(ss[k + 1].keys)
    BY <2>3, SequenceShape
  <2>5. Typed(ApplyPlain(ss[k + 1], f[k]), ColumnsAfter(ss[k + 1], c[k + 1]))
    BY <2>1, <2>3, <2>4, PlainTyped
  <2> QED BY <2>2, <2>5
<1>7. Nat \subseteq M
  <2> HIDE DEF M
  <2> QED BY <1>5, <1>6, SetInduction
<1>8. Typed(f[n], c[n + 1])
  BY <1>1, <1>7
<1>9. \A k \in 0 .. n : Typed(f[k], c[k + 1])
  BY <1>1, <1>7
<1> QED BY <1>2, <1>8, <1>9 DEF f, c

\* An input that has the columns C, and a stage all of whose inputs have.
InputFits(input, C) ==
  LET cols == TableColumn[input.table]
  IN  /\ DOMAIN input = {"table", "stages"} /\ input.table \in DOMAIN Tables
      /\ IsSequence(input.stages)
      /\ \A j \in DOMAIN input.stages : WellFormed(input.stages[j])
      /\ Resolves(input.stages, cols)
      /\ Columns(input.stages, cols)[Len(input.stages) + 1] = C
UnionFits(st, C) ==
  st.op = "Union" => IsSequence(st.inputs) /\ \A i \in DOMAIN st.inputs : InputFits(st.inputs[i], C)

\* What Legal asks for, stage by stage.
LEMMA LegalFits ==
  ASSUME NEW ss
  PROVE  Legal(ss) <=>
           /\ IsSequence(ss) /\ AllWellFormed(ss) /\ Resolves(ss, SourceColumn)
           /\ \A k \in DOMAIN ss : UnionFits(ss[k], Columns(ss, SourceColumn)[k])
BY DEF Legal, UnionsMatch, AllWellFormed, UnionFits, InputFits

\* The rows of an input.
LEMMA InputTyped ==
  ASSUME Computes, NEW C, NEW input, InputFits(input, C)
  PROVE  Typed(InputRows(input), C)
<1> DEFINE t == input.table
           cols == TableColumn[t]
<1>1. Tables[t] \in Seq([cols -> Int])
  BY RowsAssumption DEF InputFits
<1>2. Typed(Tables[t], cols)
  BY <1>1, SequenceTyped
<1>3. /\ IsSequence(input.stages) /\ AllWellFormed(input.stages) /\ Resolves(input.stages, cols)
      /\ Columns(input.stages, cols)[Len(input.stages) + 1] = C
  BY DEF InputFits, AllWellFormed
<1> HIDE DEF t, cols
<1>4. Typed(PlainRows(input.stages, Tables[t]), Columns(input.stages, cols)[Len(input.stages) + 1])
  BY <1>2, <1>3, PlainRowsTyped
<1> QED BY <1>3, <1>4 DEF InputRows, t

\* The rows of a union.
LEMMA UnionTyped ==
  ASSUME Computes, NEW C, NEW inputs, IsSequence(inputs), \A i \in DOMAIN inputs : InputFits(inputs[i], C),
         NEW r, Typed(r, C)
  PROVE  Typed(UnionRows(inputs, r, Tables), C)
<1> DEFINE n == Len(inputs)
           f == UnionBy(inputs, r)
           M == {k \in Nat : k <= n => Typed(f[k], C)}
<1>1. n \in Nat /\ DOMAIN inputs = 1 .. n
  BY SequenceShape
<1>2. /\ UnionRows(inputs, r, Tables) = IF inputs = <<>> THEN r ELSE DistinctRows(f[n], {})
      /\ f[0] = r /\ \A k \in 1 .. n : f[k] = Concat(f[k - 1], InputRows(inputs[k]))
  BY <1>1, UnionUnfolds
<1> HIDE DEF f
<1>3. 0 \in M
  BY <1>2
<1>4. ASSUME NEW k \in Nat, k \in M PROVE k + 1 \in M
  <2> SUFFICES ASSUME k + 1 <= n PROVE Typed(f[k + 1], C)
    OBVIOUS
  <2>1. k + 1 \in 1 .. n /\ (k + 1) - 1 = k /\ Typed(f[k], C)
    BY <1>1, <1>4
  <2>2. f[k + 1] = Concat(f[k], InputRows(inputs[k + 1]))
    BY <1>2, <2>1
  <2>3. Typed(InputRows(inputs[k + 1]), C)
    BY <1>1, <2>1, InputTyped
  <2> QED BY <2>1, <2>2, <2>3, ConcatTyped
<1>5. Nat \subseteq M
  <2> HIDE DEF M
  <2> QED BY <1>3, <1>4, SetInduction
<1>6. Typed(f[n], C)
  BY <1>1, <1>5
<1>7. Typed(DistinctRows(f[n], {}), C)
  <2>1. {} \subseteq C
    OBVIOUS
  <2>2. Typed(DistinctRows(f[n], {}), IF {} = {} THEN C ELSE {})
    BY <1>6, <2>1, DistinctTyped
  <2> QED BY <2>2
<1> QED BY <1>2, <1>7

\* Any stage.
LEMMA StageTyped ==
  ASSUME Computes, NEW C, NEW r, Typed(r, C), NEW st, WellFormed(st), References(st) \subseteq C, UnionFits(st, C)
  PROVE  Typed(ApplyStage(st, r, Tables), ColumnsAfter(st, C))
<1>1. CASE st.op = "Union"
  <2>1. ApplyStage(st, r, Tables) = UnionRows(st.inputs, r, Tables) /\ ColumnsAfter(st, C) = C
    BY <1>1, SameColumnsAfter DEF ApplyStage
  <2>2. Typed(UnionRows(st.inputs, r, Tables), C)
    BY <1>1, UnionTyped DEF UnionFits
  <2> QED BY <2>1, <2>2
<1>2. CASE st.op # "Union"
  <2>1. ApplyStage(st, r, Tables) = ApplyPlain(st, r)
    BY <1>2 DEF ApplyStage
  <2>2. Len(st.keys) \in Nat /\ DOMAIN st.keys = 1 .. Len(st.keys)
    BY SequenceShape DEF WellFormed
  <2> QED BY <2>1, <2>2, PlainTyped
<1> QED BY <1>1, <1>2

\* The rows behind each stage of a legal pipeline.
LEMMA AppliedTyped ==
  ASSUME Computes, NEW ss, Legal(ss), NEW r \in Sources
  PROVE  \A k \in 0 .. Len(ss) : Typed(AppliedBy(ss, r)[k], Columns(ss, SourceColumn)[k + 1])
<1> DEFINE n == Len(ss)
           f == AppliedBy(ss, r)
           c == Columns(ss, SourceColumn)
           M == {k \in Nat : k <= n => Typed(f[k], c[k + 1])}
<1>0. /\ IsSequence(ss) /\ AllWellFormed(ss) /\ Resolves(ss, SourceColumn)
      /\ \A k \in DOMAIN ss : UnionFits(ss[k], c[k])
  BY LegalFits
<1>1. n \in Nat /\ DOMAIN ss = 1 .. n
  BY <1>0, SequenceShape
<1>2. f[0] = r /\ \A k \in 1 .. n : f[k] = ApplyStage(ss[k], f[k - 1], Tables)
  BY <1>1, AppliedUnfolds
<1>3. c[1] = SourceColumn /\ \A k \in 2 .. n + 1 : c[k] = ColumnsAfter(ss[k - 1], c[k - 1])
  BY <1>1, ColumnsUnfold
<1>4. \A k \in 1 .. n : WellFormed(ss[k]) /\ References(ss[k]) \subseteq c[k] /\ UnionFits(ss[k], c[k])
  BY <1>0, <1>1 DEF AllWellFormed, Resolves
<1> HIDE DEF f, c
<1>5. 0 \in M
  <2>1. r \in Seq([SourceColumn -> Int])
    BY RowsAssumption
  <2>2. Typed(r, SourceColumn)
    BY <2>1, SequenceTyped
  <2> QED BY <1>2, <1>3, <2>2
<1>6. ASSUME NEW k \in Nat, k \in M PROVE k + 1 \in M
  <2> SUFFICES ASSUME k + 1 <= n PROVE Typed(f[k + 1], c[(k + 1) + 1])
    OBVIOUS
  <2>1. /\ k + 1 \in 1 .. n /\ (k + 1) - 1 = k /\ (k + 1) + 1 \in 2 .. n + 1 /\ ((k + 1) + 1) - 1 = k + 1
        /\ Typed(f[k], c[k + 1])
    BY <1>1, <1>6
  <2>2. f[k + 1] = ApplyStage(ss[k + 1], f[k], Tables) /\ c[(k + 1) + 1] = ColumnsAfter(ss[k + 1], c[k + 1])
    BY <1>2, <1>3, <2>1
  <2>3. WellFormed(ss[k + 1]) /\ References(ss[k + 1]) \subseteq c[k + 1] /\ UnionFits(ss[k + 1], c[k + 1])
    BY <1>4, <2>1
  <2>4. Typed(ApplyStage(ss[k + 1], f[k], Tables), ColumnsAfter(ss[k + 1], c[k + 1]))
    BY <2>1, <2>3, StageTyped
  <2> QED BY <2>2, <2>4
<1>7. Nat \subseteq M
  <2> HIDE DEF M
  <2> QED BY <1>5, <1>6, SetInduction
<1> QED BY <1>1, <1>7 DEF f, c

-----------------------------------------------------------------------------
(* The rules that move, drop or add a stage soundly keep the rows *)

\* A row with the columns of an extend.
ExtendedRow(items, row) ==
  [c \in DOMAIN row \cup {i.name : i \in items} |->
     IF c \in DOMAIN row THEN row[c] ELSE OutRow(items, row)[c]]

\* A stage a filter may be moved past changes each row alone, and no column of the filter.
LEMMA PushPast ==
  ASSUME NEW C, NEW r, Typed(r, C), NEW st, WellFormed(st), NEW ft, IsFilter(ft), CanPushPast(st, ft.preds),
         References(st) \subseteq C, PredColumns(ft.preds) \subseteq ColumnsAfter(st, C)
  PROVE  ApplyPlain(ft, ApplyPlain(st, r)) = ApplyPlain(st, ApplyPlain(ft, r))
<1> DEFINE X(row) == IF st.op = "Extend" THEN ExtendedRow(st.items, row) ELSE OutRow(st.items, row)
           S == {k \in DOMAIN r : \A p \in ft.preds : Holds(p, r[k])}
<1>1. st.op = "Extend" \/ (st.op = "Project" /\ PredColumns(ft.preds) \subseteq Names(st))
  BY DEF CanPushPast
<1>2. /\ PredColumns(ft.preds) \subseteq C
      /\ \A c \in PredColumns(ft.preds) :
           \/ ~ \E i \in st.items : i.name = c
           \/ \A i \in st.items : i.name = c => i.how = "bare" /\ i.ref = c
  BY PushableResolves
<1>3. \A q : ApplyPlain(ft, q) = Where(q, ft.preds)
  BY DEF ApplyPlain, IsFilter
<1>4. \A q : ApplyPlain(st, q) = [k \in DOMAIN q |-> X(q[k])]
  BY <1>1 DEF ApplyPlain, Extended, ExtendedRow, Projected
<1>5. ASSUME NEW row \in [C -> Int], NEW c \in PredColumns(ft.preds) PROVE X(row)[c] = row[c]
  <2>1. c \in C /\ DOMAIN row = C
    BY <1>2
  <2>2. CASE st.op = "Extend"
    <3>1. ExtendedRow(st.items, row)[c] = row[c]
      BY <2>1 DEF ExtendedRow
    <3> QED BY <2>2, <3>1
  <2>3. CASE st.op # "Extend"
    <3> DEFINE i == CHOOSE i \in st.items : i.name = c
               names == {j.name : j \in st.items}
    <3>1. i \in st.items /\ i.name = c
      <4>1. \E j \in st.items : j.name = c
        BY <1>1, <2>3 DEF Names
      <4> QED BY <4>1
    <3> HIDE DEF i
    <3>2. i.how = "bare" /\ i.ref = c
      BY <1>2, <3>1
    <3>3. Item(i, row) = row[c]
      BY <3>2 DEF Item
    <3>4. c \in names
      BY <3>1
    <3>5. OutRow(st.items, row)[c] = Item(CHOOSE j \in st.items : j.name = c, row)
      BY <3>4 DEF OutRow
    <3>6. OutRow(st.items, row)[c] = row[c]
      BY <3>3, <3>5 DEF i
    <3> QED BY <2>3, <3>6
  <2> QED BY <2>2, <2>3
<1>6. ASSUME NEW k \in DOMAIN r, NEW p \in ft.preds PROVE Holds(p, X(r[k])) <=> Holds(p, r[k])
  <2>1. r[k] \in [C -> Int]
    BY DEF Typed
  <2> HIDE DEF X
  <2>2. CASE p.kind = "eq"
    <3>1. p.col \in PredColumns(ft.preds)
      BY <2>2 DEF PredColumns
    <3> QED BY <1>5, <2>1, <3>1 DEF Holds
  <2>3. CASE p.kind # "eq"
    BY <2>3 DEF Holds
  <2> QED BY <2>2, <2>3
<1> HIDE DEF X
<1>7. Where([k \in DOMAIN r |-> X(r[k])], ft.preds) = [k \in S |-> X(r[k])]
  <2> DEFINE m == [k \in DOMAIN r |-> X(r[k])]
             T == {k \in DOMAIN m : \A p \in ft.preds : Holds(p, m[k])}
  <2>1. DOMAIN m = DOMAIN r /\ \A k \in DOMAIN r : m[k] = X(r[k])
    OBVIOUS
  <2>2. Where(m, ft.preds) = [k \in T |-> m[k]]
    BY DEF Where, Keep
  <2> HIDE DEF m
  <2>3. T = S
    BY <1>6, <2>1
  <2>4. \A k \in S : m[k] = X(r[k])
    BY <2>1
  <2> HIDE DEF T, S
  <2>5. Where(m, ft.preds) = [k \in S |-> X(r[k])]
    BY <2>2, <2>3, <2>4
  <2> QED BY <2>5 DEF m
<1>8. Where(r, ft.preds) = [k \in S |-> r[k]]
  BY DEF Where, Keep
<1> HIDE DEF S
<1>9. [j \in DOMAIN [k \in S |-> r[k]] |-> X([k \in S |-> r[k]][j])] = [k \in S |-> X(r[k])]
  OBVIOUS
<1> QED BY <1>3, <1>4, <1>7, <1>8, <1>9

\* So it can be moved there in a legal pipeline.
LEMMA SwapRows ==
  ASSUME Computes, NEW ss, Legal(ss), NEW i \in 1 .. Len(ss), Pushable(ss, i)
  PROVE  /\ Legal(Swapped(ss, i))
         /\ \A r \in Sources : Applied(Swapped(ss, i), r, Tables) = Applied(ss, r, Tables)
<1> DEFINE S == {ss[k] : k \in DOMAIN ss}
           n == Len(ss)
           t == Swapped(ss, i)
           c == Columns(ss, SourceColumn)
           d == Columns(t, SourceColumn)
<1>0. /\ IsSequence(ss) /\ AllWellFormed(ss) /\ Resolves(ss, SourceColumn)
      /\ \A k \in DOMAIN ss : UnionFits(ss[k], c[k])
  BY LegalFits
<1>1. ss \in Seq(S) /\ n \in Nat /\ DOMAIN ss = 1 .. n
  BY <1>0, SequenceShape
<1> HIDE DEF S
<1>2. \A k \in 1 .. n : WellFormed(ss[k]) /\ References(ss[k]) \subseteq c[k]
  BY <1>0, <1>1 DEF AllWellFormed, Resolves
<1>3. /\ i \in 2 .. n
      /\ \A k \in 1 .. n + 1 : k # i => d[k] = c[k]
      /\ Resolves(t, SourceColumn)
  <2>1. \A k \in 1 .. Len(ss) : WellFormed(ss[k])
    BY <1>2
  <2> QED BY <1>0, <1>1, <2>1, SwapColumns
<1>4. t \in Seq(S) /\ Len(t) = n /\ DOMAIN t = 1 .. n /\ t[i - 1] = ss[i] /\ t[i] = ss[i - 1]
      /\ \A k \in 1 .. n : k # i /\ k # i - 1 => t[k] = ss[k]
  BY <1>1, <1>3, SwapsTwo, LenProperties
<1>5. IsFilter(ss[i]) /\ CanPushPast(ss[i - 1], ss[i].preds) /\ i - 1 \in 1 .. n /\ i - 1 \in 0 .. n
  BY <1>1, <1>3 DEF Pushable
<1> HIDE DEF t
<1>6. Legal(t)
  <2>1. AllWellFormed(t)
    <3>1. ASSUME NEW k \in 1 .. n PROVE WellFormed(t[k])
      BY <1>2, <1>4, <1>5
    <3> QED BY <1>4, <3>1 DEF AllWellFormed
  <2>2. ASSUME NEW k \in 1 .. n PROVE UnionFits(t[k], d[k])
    <3>1. CASE k = i \/ k = i - 1
      <4>1. t[k].op # "Union"
        BY <1>4, <1>5, <3>1 DEF IsFilter, CanPushPast
      <4> QED BY <4>1 DEF UnionFits
    <3>2. CASE k # i /\ k # i - 1
      <4>1. t[k] = ss[k] /\ d[k] = c[k]
        BY <1>1, <1>3, <1>4, <3>2
      <4> QED BY <1>0, <1>1, <4>1
    <3> QED BY <3>1, <3>2
  <2>3. IsSequence(t)
    BY <1>4, SequenceOfAny
  <2> QED BY <1>3, <1>4, <2>1, <2>2, <2>3, LegalFits
<1>7. ASSUME NEW r \in Sources PROVE Applied(t, r, Tables) = Applied(ss, r, Tables)
  <2> DEFINE f == AppliedBy(ss, r)
             g == AppliedBy(t, r)
             moved == ApplyStage(ss[i], f[i - 2], Tables)
             M == {k \in Nat : k <= n => g[k] = IF k = i - 1 THEN moved ELSE f[k]}
  <2>1. Applied(ss, r, Tables) = f[n] /\ f[0] = r /\ \A k \in 1 .. n : f[k] = ApplyStage(ss[k], f[k - 1], Tables)
    BY <1>1, AppliedUnfolds
  <2>2. Applied(t, r, Tables) = g[n] /\ g[0] = r /\ \A k \in 1 .. n : g[k] = ApplyStage(t[k], g[k - 1], Tables)
    BY <1>1, <1>4, AppliedUnfolds
  <2>3. \A k \in 0 .. n : Typed(f[k], c[k + 1])
    BY AppliedTyped
  <2> HIDE DEF f, g
  <2>4. ApplyStage(ss[i - 1], moved, Tables) = f[i]
    <3>1. i - 2 \in 0 .. n /\ (i - 2) + 1 = i - 1 /\ i - 1 \in 1 .. n /\ (i - 1) - 1 = i - 2 /\ i \in 2 .. n + 1
          /\ i \in 1 .. n
      BY <1>1, <1>3
    <3>2. Typed(f[i - 2], c[i - 1])
      BY <2>3, <3>1
    <3>3. f[i - 1] = ApplyStage(ss[i - 1], f[i - 2], Tables) /\ f[i] = ApplyStage(ss[i], f[i - 1], Tables)
      BY <2>1, <3>1
    <3>4. PredColumns(ss[i].preds) \subseteq ColumnsAfter(ss[i - 1], c[i - 1])
      <4>1. c[i] = ColumnsAfter(ss[i - 1], c[i - 1])
        BY <1>1, <3>1, ColumnsUnfold
      <4>2. PredColumns(ss[i].preds) \subseteq References(ss[i])
        BY DEF References
      <4> QED BY <1>2, <3>1, <4>1, <4>2
    <3>5. WellFormed(ss[i - 1]) /\ References(ss[i - 1]) \subseteq c[i - 1]
      BY <1>2, <3>1
    <3>6. ApplyPlain(ss[i], ApplyPlain(ss[i - 1], f[i - 2])) = ApplyPlain(ss[i - 1], ApplyPlain(ss[i], f[i - 2]))
      BY <1>5, <3>2, <3>4, <3>5, PushPast
    <3>7. /\ \A q : ApplyStage(ss[i], q, Tables) = ApplyPlain(ss[i], q)
          /\ \A q : ApplyStage(ss[i - 1], q, Tables) = ApplyPlain(ss[i - 1], q)
      BY <1>5 DEF ApplyStage, IsFilter, CanPushPast
    <3> QED BY <3>3, <3>6, <3>7
  <2> HIDE DEF moved
  <2>5. 0 \in M
    BY <1>3, <2>1, <2>2
  <2>6. ASSUME NEW k \in Nat, k \in M PROVE k + 1 \in M
    <3> SUFFICES ASSUME k + 1 <= n PROVE g[k + 1] = IF k + 1 = i - 1 THEN moved ELSE f[k + 1]
      OBVIOUS
    <3>1. k + 1 \in 1 .. n /\ (k + 1) - 1 = k /\ g[k] = IF k = i - 1 THEN moved ELSE f[k]
      BY <1>1, <2>6
    <3>2. g[k + 1] = ApplyStage(t[k + 1], g[k], Tables) /\ f[k + 1] = ApplyStage(ss[k + 1], f[k], Tables)
      BY <2>1, <2>2, <3>1
    <3>3. CASE k + 1 = i - 1
      <4>1. t[k + 1] = ss[i] /\ g[k] = f[k] /\ k = i - 2
        BY <1>3, <1>4, <3>1, <3>3
      <4> QED BY <3>2, <3>3, <4>1 DEF moved
    <3>4. CASE k + 1 = i
      <4>1. t[k + 1] = ss[i - 1] /\ g[k] = moved
        BY <1>3, <1>4, <3>1, <3>4
      <4>2. k + 1 # i - 1
        BY <1>3, <3>4
      <4> QED BY <2>4, <3>2, <3>4, <4>1, <4>2
    <3>5. CASE k + 1 # i - 1 /\ k + 1 # i
      <4>1. k # i - 1
        BY <1>3, <3>5
      <4>2. t[k + 1] = ss[k + 1] /\ g[k] = f[k]
        BY <1>4, <3>1, <3>5, <4>1
      <4> QED BY <3>2, <3>5, <4>2
    <3> QED BY <3>3, <3>4, <3>5
  <2>7. Nat \subseteq M
    <3> HIDE DEF M
    <3> QED BY <2>5, <2>6, SetInduction
  <2>8. n # i - 1 /\ n \in M
    BY <1>1, <1>3, <2>7
  <2> QED BY <2>1, <2>2, <2>8
<1> QED BY <1>6, <1>7 DEF t

\* And all of a walk keeps the rows.
LEMMA WalkRows ==
  ASSUME Computes, NEW ss, Legal(ss)
  PROVE  /\ Legal(PushdownPass(ss))
         /\ \A r \in Sources : Applied(PushdownPass(ss), r, Tables) = Applied(ss, r, Tables)
<1> DEFINE S == {ss[k] : k \in DOMAIN ss}
           f == WalkBy(ss)
           n == Len(ss)
           M == {k \in Nat : k <= n =>
                   Legal(f[k]) /\ \A r \in Sources : Applied(f[k], r, Tables) = Applied(ss, r, Tables)}
<1>1. ss \in Seq(S) /\ n \in Nat
  BY LegalFits, SequenceShape
<1> HIDE DEF S
<1>2. PushdownPass(ss) = f[n] /\ f[0] = ss /\ \A k \in 1 .. n : f[k] = Pushed(f[k - 1], k)
  BY <1>1, WalkUnfolds
<1>3. \A k \in 0 .. n : f[k] \in Seq(S) /\ Len(f[k]) = n
  BY <1>1, WalkKeepsLength
<1> HIDE DEF f
<1>4. 0 \in M
  BY <1>2
<1>5. ASSUME NEW k \in Nat, k \in M PROVE k + 1 \in M
  <2> SUFFICES ASSUME k + 1 <= n
               PROVE  Legal(f[k + 1]) /\ \A r \in Sources : Applied(f[k + 1], r, Tables) = Applied(ss, r, Tables)
    OBVIOUS
  <2>1. /\ k + 1 \in 1 .. n /\ (k + 1) - 1 = k /\ k \in 0 .. n
        /\ Legal(f[k]) /\ \A r \in Sources : Applied(f[k], r, Tables) = Applied(ss, r, Tables)
    BY <1>1, <1>5
  <2>2. f[k + 1] = Pushed(f[k], k + 1) /\ Len(f[k]) = n
    BY <1>2, <1>3, <2>1
  <2>3. CASE Pushable(f[k], k + 1)
    <3>1. f[k + 1] = Swapped(f[k], k + 1)
      BY <2>2, <2>3 DEF Pushed
    <3>2. k + 1 \in 1 .. Len(f[k])
      BY <2>1, <2>2
    <3>3. Legal(f[k + 1]) /\ \A r \in Sources : Applied(f[k + 1], r, Tables) = Applied(f[k], r, Tables)
      BY <2>1, <2>3, <3>1, <3>2, SwapRows
    <3> QED BY <2>1, <3>3
  <2>4. CASE ~Pushable(f[k], k + 1)
    BY <2>1, <2>2, <2>4 DEF Pushed
  <2> QED BY <2>3, <2>4
<1>6. Nat \subseteq M
  <2> HIDE DEF M
  <2> QED BY <1>4, <1>5, SetInduction
<1> QED BY <1>1, <1>2, <1>6

\* A stage that fits goes on with a legal pipeline.
LEMMA LegalAppend ==
  ASSUME NEW S, NEW s \in Seq(S), NEW st \in S, Legal(s), WellFormed(st),
         References(st) \subseteq Behind(s, SourceColumn), UnionFits(st, Behind(s, SourceColumn))
  PROVE  Legal(Append(s, st))
<1> DEFINE t == Append(s, st)
           n == Len(s)
           c == Columns(s, SourceColumn)
           d == Columns(t, SourceColumn)
<1>1. /\ n \in Nat /\ DOMAIN s = 1 .. n /\ t \in Seq(S) /\ Len(t) = n + 1 /\ DOMAIN t = 1 .. n + 1
      /\ t[n + 1] = st /\ \A k \in 1 .. n : t[k] = s[k]
  BY AppendProperties, LenProperties
<1>2. Resolves(t, SourceColumn)
  <2>1. Resolves(s, SourceColumn)
    BY LegalFits
  <2> QED BY <2>1, OneMoreStage
<1> HIDE DEF t
<1>3. \A k \in 1 .. n + 1 : d[k] = c[k]
  <2>1. \A k \in 1 .. n : t[k] = s[k]
    BY <1>1
  <2>2. n <= Len(t) /\ n <= Len(s) /\ Len(t) \in Nat /\ Len(s) \in Nat
    BY <1>1
  <2> QED BY <1>1, <2>1, <2>2, SameColumns
<1>4. ASSUME NEW k \in 1 .. n + 1 PROVE WellFormed(t[k]) /\ UnionFits(t[k], d[k])
  <2>1. CASE k = n + 1
    <3>1. t[k] = st /\ d[k] = Behind(s, SourceColumn)
      BY <1>1, <1>3, <2>1 DEF Behind
    <3> QED BY <3>1
  <2>2. CASE k # n + 1
    <3>1. k \in 1 .. n /\ t[k] = s[k] /\ d[k] = c[k]
      BY <1>1, <1>3, <2>2
    <3>2. WellFormed(s[k]) /\ UnionFits(s[k], c[k])
      BY <1>1, <3>1, LegalFits DEF AllWellFormed
    <3> QED BY <3>1, <3>2
  <2> QED BY <2>1, <2>2
<1>5. IsSequence(t)
  BY <1>1, SequenceOfAny
<1>6. Legal(t)
  BY <1>1, <1>2, <1>4, <1>5, LegalFits DEF AllWellFormed
<1> QED BY <1>6 DEF t

\* A tautology keeps all rows, and a contradiction none, as no rows are the first none.
LEMMA FoldedRows ==
  ASSUME NEW C, NEW r, Typed(r, C), NEW st
  PROVE  /\ Tautology(st) => ApplyStage(st, r, Tables) = r
         /\ ApplyStage(Folded(st), r, Tables) = ApplyStage(st, r, Tables)
<1>1. r = [k \in DOMAIN r |-> r[k]]
  BY DEF Typed
<1>2. ASSUME st.op = "Filter"
      PROVE  ApplyStage(st, r, Tables) = Keep(r, {k \in DOMAIN r : \A p \in st.preds : Holds(p, r[k])})
  BY <1>2 DEF ApplyStage, ApplyPlain, Where
<1>3. ASSUME Tautology(st) PROVE ApplyStage(st, r, Tables) = r
  <2> DEFINE S == {k \in DOMAIN r : \A p \in st.preds : Holds(p, r[k])}
  <2>1. st.op = "Filter" /\ st.preds = {Truth(TRUE)}
    BY <1>3 DEF Tautology, IsFilter
  <2>2. \A row : Holds(Truth(TRUE), row)
    BY DEF Holds, Truth
  <2>3. S = DOMAIN r
    BY <2>1, <2>2
  <2>4. ApplyStage(st, r, Tables) = Keep(r, S)
    BY <1>2, <2>1
  <2> HIDE DEF S
  <2> QED BY <1>1, <2>3, <2>4 DEF Keep
<1>4. ASSUME Contradiction(st) PROVE ApplyStage(Limit(0), r, Tables) = ApplyStage(st, r, Tables)
  <2> DEFINE S == {k \in DOMAIN r : \A p \in st.preds : Holds(p, r[k])}
             T == {k \in DOMAIN r : Cardinality({j \in DOMAIN r : j < k}) < 0}
  <2>1. st.op = "Filter" /\ st.preds = {Truth(FALSE)}
    BY <1>4 DEF Contradiction, IsFilter
  <2>2. \A row : ~Holds(Truth(FALSE), row)
    BY DEF Holds, Truth
  <2>3. S = {}
    BY <2>1, <2>2
  <2>4. ApplyStage(st, r, Tables) = Keep(r, S)
    BY <1>2, <2>1
  <2>5. ApplyStage(Limit(0), r, Tables) = Keep(r, T)
    <3>1. Limit(0).op = "Limit" /\ Limit(0).n = 0
      BY NoRowsStage
    <3>2. ApplyStage(Limit(0), r, Tables) = FirstRows(r, 0)
      BY <3>1 DEF ApplyStage, ApplyPlain
    <3> QED BY <3>2 DEF FirstRows
  <2>6. T = {}
    <3>1. ASSUME NEW k \in DOMAIN r PROVE Cardinality({j \in DOMAIN r : j < k}) \in Nat
      <4>1. {j \in DOMAIN r : j < k} \in SUBSET DOMAIN r
        OBVIOUS
      <4> QED BY <4>1, FS_Subset, FS_CardinalityType DEF Typed
    <3> QED BY <3>1
  <2> HIDE DEF S, T
  <2> QED BY <2>3, <2>4, <2>5, <2>6
<1> QED BY <1>3, <1>4 DEF Folded

\* So folding keeps the rows.
LEMMA FoldRows ==
  ASSUME Computes, NEW ss, Legal(ss)
  PROVE  /\ Legal(ConstantFold(ss))
         /\ \A r \in Sources : Applied(ConstantFold(ss), r, Tables) = Applied(ss, r, Tables)
<1> DEFINE t == [k \in DOMAIN ss |-> Folded(ss[k])]
           S == {t[k] : k \in DOMAIN t}
           K == {k \in DOMAIN ss : ~Tautology(ss[k])}
           n == Len(ss)
           f == KeptBy(t, K)
           c == Columns(ss, SourceColumn)
           M == {k \in Nat : k <= n =>
                   /\ Legal(f[k]) /\ Behind(f[k], SourceColumn) = c[k + 1]
                   /\ \A r \in Sources : Applied(f[k], r, Tables) = AppliedBy(ss, r)[k]}
<1>0. /\ IsSequence(ss) /\ AllWellFormed(ss) /\ Resolves(ss, SourceColumn)
      /\ \A k \in DOMAIN ss : UnionFits(ss[k], c[k])
  BY LegalFits
<1>1. n \in Nat /\ DOMAIN ss = 1 .. n
  BY <1>0, SequenceShape
<1>2. ConstantFold(ss) = Only(t, K)
  BY DEF ConstantFold, Folded
<1>3. IsSequence(t) /\ Len(t) = n /\ \A k \in 1 .. n : t[k] = Folded(ss[k])
  <2>1. DOMAIN t = 1 .. n /\ t = [k \in 1 .. n |-> t[k]] /\ \A k \in 1 .. n : t[k] = Folded(ss[k])
    BY <1>1
  <2> HIDE DEF t
  <2> QED BY <1>1, <2>1, SequenceFromFunction
<1>4. \A k \in 1 .. n : k \in K <=> ~Tautology(ss[k])
  BY <1>1
<1> HIDE DEF t, K
<1>5. t \in Seq(S) /\ \A k \in 1 .. n : t[k] \in S
  BY <1>3, SequenceShape
<1> HIDE DEF S
<1>6. Only(t, K) = f[n] /\ f[0] = <<>> /\ \A k \in 1 .. n : f[k] = Kept(t, K, f[k - 1], k)
  BY <1>1, <1>3, OnlyUnfolds
<1>7. \A k \in 0 .. n : f[k] \in Seq(S)
  BY <1>3, <1>5, OnlyIsSequence
<1> HIDE DEF f
<1>8. c[1] = SourceColumn /\ \A k \in 2 .. n + 1 : c[k] = ColumnsAfter(ss[k - 1], c[k - 1])
  BY <1>1, ColumnsUnfold
<1>9. \A r \in Sources : /\ Applied(ss, r, Tables) = AppliedBy(ss, r)[n] /\ AppliedBy(ss, r)[0] = r
                         /\ \A k \in 1 .. n : AppliedBy(ss, r)[k] = ApplyStage(ss[k], AppliedBy(ss, r)[k - 1], Tables)
  BY <1>1, AppliedUnfolds
<1>10. \A r \in Sources : \A k \in 0 .. n : Typed(AppliedBy(ss, r)[k], c[k + 1])
  BY AppliedTyped
<1>11. \A k \in 1 .. n : WellFormed(ss[k]) /\ References(ss[k]) \subseteq c[k] /\ UnionFits(ss[k], c[k])
  BY <1>0, <1>1 DEF AllWellFormed, Resolves
<1> HIDE DEF c
<1>12. 0 \in M
  <2>1. IsSequence(<< >>) /\ Len(<< >>) = 0
    BY EmptySeq, SequenceOfAny
  <2>2. Columns(<<>>, SourceColumn)[1] = SourceColumn
    BY <2>1, ColumnsUnfold
  <2>3. Legal(<<>>)
    BY <2>1, LegalFits DEF AllWellFormed, Resolves
  <2>4. Behind(<<>>, SourceColumn) = SourceColumn
    BY <2>1, <2>2 DEF Behind
  <2>5. \A r : Applied(<<>>, r, Tables) = r
    BY <2>1, AppliedUnfolds
  <2> QED BY <1>6, <1>8, <1>9, <2>3, <2>4, <2>5
<1>13. ASSUME NEW k \in Nat, k \in M PROVE k + 1 \in M
  <2> DEFINE s == f[k]
             st == t[k + 1]
  <2> SUFFICES ASSUME k + 1 <= n
               PROVE  /\ Legal(f[k + 1]) /\ Behind(f[k + 1], SourceColumn) = c[(k + 1) + 1]
                      /\ \A r \in Sources : Applied(f[k + 1], r, Tables) = AppliedBy(ss, r)[k + 1]
    OBVIOUS
  <2>1. /\ k + 1 \in 1 .. n /\ (k + 1) - 1 = k /\ k \in 0 .. n /\ (k + 1) + 1 \in 2 .. n + 1
        /\ ((k + 1) + 1) - 1 = k + 1
        /\ Legal(s) /\ Behind(s, SourceColumn) = c[k + 1]
        /\ \A r \in Sources : Applied(s, r, Tables) = AppliedBy(ss, r)[k]
    BY <1>1, <1>13
  <2>2. f[k + 1] = Kept(t, K, s, k + 1) /\ s \in Seq(S) /\ st \in S /\ st = Folded(ss[k + 1])
    BY <1>3, <1>5, <1>6, <1>7, <2>1
  <2>3. c[(k + 1) + 1] = ColumnsAfter(ss[k + 1], c[k + 1])
    BY <1>8, <2>1
  <2>4. \A r \in Sources : /\ Typed(AppliedBy(ss, r)[k], c[k + 1])
                           /\ AppliedBy(ss, r)[k + 1] = ApplyStage(ss[k + 1], AppliedBy(ss, r)[k], Tables)
    BY <1>9, <1>10, <2>1
  <2>5. WellFormed(ss[k + 1]) /\ References(ss[k + 1]) \subseteq c[k + 1] /\ UnionFits(ss[k + 1], c[k + 1])
    BY <1>11, <2>1
  <2> HIDE DEF s, st
  <2>6. CASE ~Tautology(ss[k + 1])
    <3>1. f[k + 1] = Append(s, st)
      BY <1>4, <2>1, <2>2, <2>6 DEF Kept, st
    <3>2. /\ WellFormed(st) /\ References(st) \subseteq c[k + 1] /\ UnionFits(st, c[k + 1])
          /\ ColumnsAfter(st, c[k + 1]) = ColumnsAfter(ss[k + 1], c[k + 1])
      <4>1. CASE Contradiction(ss[k + 1])
        <5>1. st = Limit(0) /\ ss[k + 1].op = "Filter"
          BY <2>2, <4>1 DEF Folded, Contradiction, IsFilter
        <5>2. WellFormed(st) /\ References(st) = {} /\ st.op = "Limit"
          BY <5>1, NoRowsStage
        <5> QED BY <5>1, <5>2, SameColumnsAfter DEF UnionFits
      <4>2. CASE ~Contradiction(ss[k + 1])
        <5>1. st = ss[k + 1]
          BY <2>2, <4>2 DEF Folded
        <5> QED BY <2>5, <5>1
      <4> QED BY <4>1, <4>2
    <3>3. Legal(Append(s, st))
      BY <2>1, <2>2, <3>2, LegalAppend
    <3>4. Behind(Append(s, st), SourceColumn) = ColumnsAfter(st, Behind(s, SourceColumn))
      BY <2>2, OneMoreStage
    <3>5. ASSUME NEW r \in Sources PROVE Applied(Append(s, st), r, Tables) = AppliedBy(ss, r)[k + 1]
      <4>1. Applied(Append(s, st), r, Tables) = ApplyStage(st, Applied(s, r, Tables), Tables)
        BY <2>2, OneMoreStage
      <4>2. Applied(s, r, Tables) = AppliedBy(ss, r)[k]
        BY <2>1
      <4>3. ApplyStage(Folded(ss[k + 1]), AppliedBy(ss, r)[k], Tables) = ApplyStage(ss[k + 1], AppliedBy(ss, r)[k], Tables)
        BY <2>4, FoldedRows
      <4> QED BY <2>2, <2>4, <4>1, <4>2, <4>3
    <3> QED BY <2>1, <2>3, <3>1, <3>2, <3>3, <3>4, <3>5
  <2>7. CASE Tautology(ss[k + 1])
    <3>1. f[k + 1] = s
      BY <1>4, <2>1, <2>2, <2>7 DEF Kept
    <3>2. ColumnsAfter(ss[k + 1], c[k + 1]) = c[k + 1]
      BY <2>7, SameColumnsAfter DEF Tautology, IsFilter
    <3>3. \A r \in Sources : AppliedBy(ss, r)[k + 1] = AppliedBy(ss, r)[k]
      BY <2>4, <2>7, FoldedRows
    <3> QED BY <2>1, <2>3, <3>1, <3>2, <3>3
  <2> QED BY <2>6, <2>7
<1>14. Nat \subseteq M
  <2> HIDE DEF M
  <2> QED BY <1>12, <1>13, SetInduction
<1>15. Legal(f[n]) /\ \A r \in Sources : Applied(f[n], r, Tables) = AppliedBy(ss, r)[n]
  BY <1>1, <1>14
<1> QED BY <1>2, <1>6, <1>9, <1>15

\* A projection in front keeps a pipeline legal, whatever it compares.
LEMMA PruneLegal ==
  ASSUME NEW ss, Legal(ss)
  PROVE  Legal(ColumnPrune(ss))
<1> SUFFICES ASSUME Prunes(ss) PROVE Legal(ColumnPrune(ss))
  BY DEF ColumnPrune
<1> DEFINE t == ColumnPrune(ss)
           n == Len(ss)
<1>1. IsSequence(ss) /\ AllWellFormed(ss) /\ Resolves(ss, SourceColumn)
  BY LegalFits
<1>2. /\ n \in Nat /\ n # 0 /\ ss[n].op = "Project" /\ \A k \in 1 .. n - 1 : IsPassthrough(ss[k])
  BY <1>1, SequenceShape DEF Prunes
<1>3. /\ IsSequence(t) /\ DOMAIN t = 1 .. n + 1
      /\ t[1] = PruneStage(ss) /\ \A k \in 1 .. n : t[k + 1] = ss[k]
  BY <1>1, PrunedShape, SequenceShape
<1>4. AllWellFormed(t) /\ Resolves(t, SourceColumn)
  BY <1>1, PruneResolves
<1>5. t[1].op = "Project"
  BY <1>3, PruneStageColumns
<1> HIDE DEF t
<1>6. ASSUME NEW k \in 1 .. n + 1 PROVE t[k].op # "Union"
  <2>1. CASE k = 1
    BY <1>5, <2>1
  <2>2. CASE k # 1
    <3>1. k - 1 \in 1 .. n /\ (k - 1) + 1 = k /\ (k - 1 = n \/ k - 1 \in 1 .. n - 1)
      BY <1>2, <2>2
    <3>2. t[k] = ss[k - 1] /\ (ss[k - 1].op = "Project" \/ IsPassthrough(ss[k - 1]))
      BY <1>2, <1>3, <3>1
    <3> QED
      BY <3>2 DEF IsPassthrough
  <2> QED
    BY <2>1, <2>2
<1>7. \A k \in DOMAIN t : UnionFits(t[k], Columns(t, SourceColumn)[k])
  BY <1>3, <1>6 DEF UnionFits
<1>8. Legal(t)
  BY <1>3, <1>4, <1>7, LegalFits
<1> QED
  BY <1>8 DEF t

\* Reading only the columns that are needed keeps the rows, if no stage compares whole
\* rows.
LEMMA PruneRows ==
  ASSUME Computes, NEW ss, Legal(ss), ~WholeRowDistinct(ss)
  PROVE  /\ Legal(ColumnPrune(ss))
         /\ \A r \in Sources : Applied(ColumnPrune(ss), r, Tables) = Applied(ss, r, Tables)
<1> SUFFICES ASSUME Prunes(ss)
             PROVE  /\ Legal(ColumnPrune(ss))
                    /\ \A r \in Sources : Applied(ColumnPrune(ss), r, Tables) = Applied(ss, r, Tables)
  BY DEF ColumnPrune
<1> DEFINE t == ColumnPrune(ss)
           n == Len(ss)
           N == Needed(ss)
           c == Columns(ss, SourceColumn)
           d == Columns(t, SourceColumn)
<1>0. IsSequence(ss) /\ AllWellFormed(ss) /\ Resolves(ss, SourceColumn)
  BY LegalFits
<1>1. /\ n \in Nat /\ DOMAIN ss = 1 .. n /\ n # 0
      /\ ss[n].op = "Project" /\ AllBare(ss[n]) /\ \A k \in 1 .. n - 1 : IsPassthrough(ss[k])
  BY <1>0, SequenceShape DEF Prunes
<1>2. /\ IsSequence(t) /\ Len(t) = n + 1 /\ DOMAIN t = 1 .. n + 1
      /\ t[1] = PruneStage(ss) /\ \A k \in 1 .. n : t[k + 1] = ss[k]
  BY <1>0, PrunedShape, SequenceShape
<1>3. AllWellFormed(t) /\ Resolves(t, SourceColumn)
  BY <1>0, PruneResolves
<1>4. /\ t[1].op = "Project" /\ t[1].items = {Bare(x) : x \in N}
  BY <1>2, PruneStageColumns
<1> HIDE DEF t
<1>5. \A k \in 1 .. n + 1 : t[k].op # "Union"
  <2> TAKE k \in 1 .. n + 1
  <2>1. CASE k = 1
    BY <1>4, <2>1
  <2>2. CASE k # 1
    <3>1. k - 1 \in 1 .. n /\ (k - 1) + 1 = k /\ (k - 1 = n \/ k - 1 \in 1 .. n - 1)
      BY <1>1, <2>2
    <3>2. t[k] = ss[k - 1] /\ (ss[k - 1].op = "Project" \/ IsPassthrough(ss[k - 1]))
      BY <1>1, <1>2, <3>1
    <3> QED BY <3>2 DEF IsPassthrough
  <2> QED BY <2>1, <2>2
<1>6. Legal(t)
  BY PruneLegal DEF t
<1>7. /\ \A k \in 1 .. n : /\ WellFormed(ss[k]) /\ References(ss[k]) \subseteq N
                           /\ References(ss[k]) \subseteq c[k] /\ References(ss[k]) \subseteq d[k + 1]
  <2>1. \A k \in 1 .. n : WellFormed(ss[k]) /\ References(ss[k]) \subseteq N /\ References(ss[k]) \subseteq c[k]
    BY <1>0, <1>1 DEF AllWellFormed, Needed, Resolves
  <2>2. \A k \in 1 .. n : References(t[k + 1]) \subseteq d[k + 1]
    BY <1>1, <1>2, <1>3 DEF Resolves
  <2> QED BY <1>2, <2>1, <2>2
<1>8. BareItems({Bare(x) : x \in N}) /\ {j.name : j \in {Bare(x) : x \in N}} = N
  <2>1. \A x : Bare(x).name = x /\ Bare(x).ref = x /\ Bare(x).how = "bare"
    BY DEF Bare
  <2> QED BY <2>1 DEF BareItems
<1>9. BareItems(ss[n].items) /\ {j.name : j \in ss[n].items} \subseteq N
  <2>1. WellFormed(ss[n]) /\ References(ss[n]) \subseteq N
    BY <1>1, <1>7
  <2>2. BareItems(ss[n].items)
    BY <1>1, <2>1 DEF AllBare, WellFormed, BareItems
  <2>3. {j.ref : j \in ss[n].items} \subseteq N
    BY <2>1 DEF References
  <2> QED BY <2>2, <2>3 DEF BareItems
<1> HIDE DEF N
<1>10. ASSUME NEW r \in Sources PROVE Applied(t, r, Tables) = Applied(ss, r, Tables)
  <2> DEFINE f == AppliedBy(ss, r)
             g == AppliedBy(t, r)
             M == {k \in Nat : k + 1 <= n => Agree(g[k + 1], f[k], N)}
  <2>1. /\ Applied(ss, r, Tables) = f[n] /\ f[0] = r
        /\ \A k \in 1 .. n : f[k] = ApplyStage(ss[k], f[k - 1], Tables)
    BY <1>1, AppliedUnfolds
  <2>2. /\ Applied(t, r, Tables) = g[n + 1] /\ g[0] = r
        /\ \A k \in 1 .. n + 1 : g[k] = ApplyStage(t[k], g[k - 1], Tables)
    <3>1. Len(t) \in Nat /\ Len(t) = n + 1
      BY <1>1, <1>2
    <3> QED BY <3>1, AppliedUnfolds
  <2>3. \A k \in 0 .. n : Typed(f[k], c[k + 1])
    BY AppliedTyped
  <2>4. \A k \in 0 .. n + 1 : Typed(g[k], d[k + 1])
    BY <1>2, <1>6, AppliedTyped
  <2> HIDE DEF f, g
  <2>5. 0 \in M
    <3>1. g[1] = ApplyStage(t[1], r, Tables)
      <4>1. 1 \in 1 .. n + 1 /\ 1 - 1 = 0
        BY <1>1
      <4> QED BY <2>2, <4>1
    <3>2. ApplyStage(t[1], r, Tables) = Projected(r, {Bare(x) : x \in N})
      BY <1>4 DEF ApplyStage, ApplyPlain
    <3>3. Agree(g[1], f[0], N)
      BY <1>8, <2>1, <3>1, <3>2, BareKeeps
    <3> QED BY <3>3
  <2>6. ASSUME NEW k \in Nat, k \in M PROVE k + 1 \in M
    <3> SUFFICES ASSUME (k + 1) + 1 <= n PROVE Agree(g[(k + 1) + 1], f[k + 1], N)
      OBVIOUS
    <3>1. /\ k + 1 \in 1 .. n - 1 /\ k + 1 \in 1 .. n /\ (k + 1) - 1 = k /\ k \in 0 .. n
          /\ (k + 1) + 1 \in 1 .. n + 1 /\ ((k + 1) + 1) - 1 = k + 1 /\ k + 1 \in 0 .. n + 1
          /\ Agree(g[k + 1], f[k], N)
      BY <1>1, <2>6
    <3> DEFINE st == ss[k + 1]
    <3>2. f[k + 1] = ApplyStage(st, f[k], Tables) /\ Typed(f[k], c[k + 1])
      BY <2>1, <2>3, <3>1
    <3>3. g[(k + 1) + 1] = ApplyStage(st, g[k + 1], Tables) /\ Typed(g[k + 1], d[(k + 1) + 1])
      BY <1>2, <2>2, <2>4, <3>1
    <3>4. /\ WellFormed(st) /\ References(st) \subseteq N
          /\ References(st) \subseteq c[k + 1] /\ References(st) \subseteq d[(k + 1) + 1]
      BY <1>7, <3>1
    <3>5. st.op \in {"Filter", "Sort", "Limit", "Distinct"}
      BY <1>1, <3>1 DEF IsPassthrough
    <3>6. st.op = "Distinct" => st.cols # {}
      BY <1>1, <3>1 DEF WholeRowDistinct
    <3> HIDE DEF st
    <3>7. Len(st.keys) \in Nat /\ DOMAIN st.keys = 1 .. Len(st.keys)
      BY <3>4, SequenceShape DEF WellFormed
    <3>8. Agree(ApplyPlain(st, g[k + 1]), ApplyPlain(st, f[k]), N)
      <4> DEFINE q == g[k + 1]
                 u == f[k]
                 C == c[k + 1]
                 D == d[(k + 1) + 1]
      <4>1. /\ Typed(q, D) /\ Typed(u, C) /\ Agree(q, u, N)
            /\ PassesOn(st, N) /\ PassesOn(st, C) /\ PassesOn(st, D)
        BY <3>1, <3>2, <3>3, <3>4, <3>5, <3>6, <3>7 DEF PassesOn
      <4> HIDE DEF q, u, C, D
      <4>2. Agree(ApplyPlain(st, q), ApplyPlain(st, u), N)
        BY <4>1, PassAgrees
      <4> QED BY <4>2 DEF q, u
    <3>9. \A q : ApplyStage(st, q, Tables) = ApplyPlain(st, q)
      BY <3>5 DEF ApplyStage
    <3> QED BY <3>2, <3>3, <3>8, <3>9
  <2>7. Nat \subseteq M
    <3> HIDE DEF M
    <3> QED BY <2>5, <2>6, SetInduction
  <2>8. Agree(g[n], f[n - 1], N)
    <3>1. n - 1 \in Nat /\ (n - 1) + 1 = n /\ (n - 1) + 1 <= n
      BY <1>1
    <3>2. n - 1 \in M
      BY <2>7, <3>1
    <3> QED BY <3>1, <3>2
  <2>9. f[n] = Projected(f[n - 1], ss[n].items)
    <3>1. n \in 1 .. n
      BY <1>1
    <3> QED BY <1>1, <2>1, <3>1 DEF ApplyStage, ApplyPlain
  <2>10. g[n + 1] = Projected(g[n], ss[n].items)
    <3>1. n \in 1 .. n /\ n + 1 \in 1 .. n + 1 /\ (n + 1) - 1 = n
      BY <1>1
    <3>2. g[n + 1] = ApplyStage(ss[n], g[n], Tables)
      BY <1>2, <2>2, <3>1
    <3> QED BY <1>1, <3>2 DEF ApplyStage, ApplyPlain
  <2>11. Projected(g[n], ss[n].items) = Projected(f[n - 1], ss[n].items)
    BY <1>9, <2>8, BareAgrees
  <2> QED BY <2>1, <2>2, <2>9, <2>10, <2>11
<1> QED BY <1>6, <1>10 DEF t

\* None of the three rules makes a stage that compares whole rows.
LEMMA RulesAddNoDistinct ==
  ASSUME NEW ss, IsSequence(ss)
  PROVE  /\ WholeRowDistinct(PushdownPass(ss)) => WholeRowDistinct(ss)
         /\ WholeRowDistinct(ConstantFold(ss)) => WholeRowDistinct(ss)
         /\ WholeRowDistinct(ColumnPrune(ss)) => WholeRowDistinct(ss)
<1>1. WholeRowDistinct(PushdownPass(ss)) => WholeRowDistinct(ss)
  BY WalkOfThem DEF WholeRowDistinct
<1>2. WholeRowDistinct(ConstantFold(ss)) => WholeRowDistinct(ss)
  <2> DEFINE t == [k \in DOMAIN ss |-> Folded(ss[k])]
             K == {k \in DOMAIN ss : ~Tautology(ss[k])}
  <2>1. ConstantFold(ss) = Only(t, K)
    BY DEF ConstantFold, Folded
  <2>2. DOMAIN t = DOMAIN ss /\ \A k \in DOMAIN ss : t[k] = Folded(ss[k])
    OBVIOUS
  <2>3. IsSequence(t)
    <3>1. Len(ss) \in Nat /\ DOMAIN ss = 1 .. Len(ss)
      BY SequenceShape
    <3>2. t = [k \in 1 .. Len(ss) |-> t[k]]
      BY <3>1
    <3> HIDE DEF t
    <3> QED BY <3>1, <3>2, SequenceFromFunction
  <2> HIDE DEF t, K
  <2>4. \A k \in DOMAIN Only(t, K) : \E j \in DOMAIN t : Only(t, K)[k] = t[j]
    BY <2>3, OnlyOfThem
  <2>5. \A st : Folded(st).op = "Distinct" => Folded(st) = st
    BY NoRowsStage DEF Folded
  <2> QED BY <2>1, <2>2, <2>4, <2>5 DEF WholeRowDistinct
<1>3. WholeRowDistinct(ColumnPrune(ss)) => WholeRowDistinct(ss)
  <2> SUFFICES ASSUME Prunes(ss), WholeRowDistinct(ColumnPrune(ss)) PROVE WholeRowDistinct(ss)
    BY DEF ColumnPrune
  <2> DEFINE t == ColumnPrune(ss)
             n == Len(ss)
  <2>1. n \in Nat /\ DOMAIN ss = 1 .. n
    BY SequenceShape
  <2>2. /\ DOMAIN t = 1 .. n + 1 /\ t[1] = PruneStage(ss) /\ \A k \in 1 .. n : t[k + 1] = ss[k]
    BY PrunedShape, SequenceShape
  <2>3. t[1].op = "Project"
    BY <2>2, PruneStageColumns
  <2>4. PICK k \in DOMAIN t : t[k].op = "Distinct" /\ t[k].cols = {}
    BY DEF WholeRowDistinct
  <2> HIDE DEF t
  <2>5. k - 1 \in 1 .. n /\ (k - 1) + 1 = k
    BY <2>1, <2>2, <2>3, <2>4
  <2>6. ss[k - 1].op = "Distinct" /\ ss[k - 1].cols = {}
    BY <2>2, <2>4, <2>5
  <2> QED BY <2>1, <2>5, <2>6 DEF WholeRowDistinct
<1> QED BY <1>1, <1>2, <1>3

-----------------------------------------------------------------------------
(* The engine *)

\* What a rule of a pass that changes nothing has left to do.
Idle(name) ==
  /\ name = "PredicatePushdown" => \A i \in DOMAIN stages : ~Pushable(stages, i)
  /\ name = "PredicatePushdownUnion" => BehindUnion(stages) = {}
IdleInv ==
  /\ IsSequence(stages)
  /\ phase \in {"rewrite", "emit", "done"} /\ rule \in 1 .. Len(RuleSet) + 1
  /\ ~changed =>
       \A k \in 1 .. Len(RuleSet) : k < rule \/ phase # "rewrite" => Idle(RuleSet[k])

\* A rule that reports what it changed, and goes on only if it has nothing left to do.
LEMMA RewriteIdle ==
  ASSUME IdleInv, NEW name, NEW out, At(name), Rewrite(name, out), IsSequence(out),
         rule' = rule \/ rule' = rule + 1,
         rule' = rule + 1 /\ out = stages => Idle(name)
  PROVE  IdleInv'
<1> DEFINE n == Len(RuleSet)
<1>1. n \in Nat /\ rule \in 1 .. n + 1 /\ rule <= n /\ RuleSet[rule] = name /\ phase = "rewrite" /\ phase' = phase
  BY RuleSetAssumption, LenProperties DEF IdleInv, At, Rewrite
<1>2. stages' = out /\ changed' = (changed \/ out # stages)
  BY DEF Rewrite
<1>3. rule' \in 1 .. n + 1
  BY <1>1
<1>4. ASSUME ~changed', NEW k \in 1 .. n, k < rule' \/ phase' # "rewrite" PROVE Idle(RuleSet[k])'
  <2>1. ~changed /\ out = stages /\ stages' = stages
    BY <1>2, <1>4
  <2>2. Idle(RuleSet[k])
    <3>1. CASE k < rule
      BY <2>1, <3>1 DEF IdleInv
    <3>2. CASE ~(k < rule)
      <4>1. rule' = rule + 1 /\ k = rule
        BY <1>1, <1>4, <3>2
      <4> QED BY <1>1, <2>1, <4>1
    <3> QED BY <3>1, <3>2
  <2> QED BY <2>1, <2>2 DEF Idle
<1> QED BY <1>1, <1>2, <1>3, <1>4 DEF IdleInv

\* Every step keeps what the rules of an idle pass have left.
LEMMA NextIdle == IdleInv /\ [Next]_vars => IdleInv'
<1> SUFFICES ASSUME IdleInv, [Next]_vars PROVE IdleInv'
  OBVIOUS
<1>0. IsSequence(stages) /\ rule \in Nat
  BY DEF IdleInv
<1>1. CASE Fold
  <2>1. At("ConstantFold") /\ Rewrite("ConstantFold", ConstantFold(stages)) /\ rule' = rule + 1
    BY <1>1 DEF Fold
  <2>2. IsSequence(ConstantFold(stages)) /\ Idle("ConstantFold")
    BY <1>0, FoldIsSequence DEF Idle
  <2> QED BY <2>1, <2>2, RewriteIdle
<1>2. CASE PushDown
  <2> DEFINE out == PushdownPass(stages)
  <2>1. /\ At("PredicatePushdown") /\ Rewrite("PredicatePushdown", out)
        /\ rule' = IF out = stages THEN rule + 1 ELSE rule
    BY <1>2 DEF PushDown
  <2>2. IsSequence(out)
    BY <1>0, WalkIsSequence
  <2>3. ASSUME out = stages PROVE Idle("PredicatePushdown")
    BY <1>0, <2>3, SequenceShape, IdleWalk DEF Idle
  <2> HIDE DEF out
  <2> QED BY <2>1, <2>2, <2>3, RewriteIdle
<1>3. CASE Prune
  <2>1. At("ColumnPrune") /\ Rewrite("ColumnPrune", ColumnPrune(stages)) /\ rule' = rule + 1
    BY <1>3 DEF Prune
  <2>2. IsSequence(ColumnPrune(stages)) /\ Idle("ColumnPrune")
    BY <1>0, PruneIsSequence DEF Idle
  <2> QED BY <2>1, <2>2, RewriteIdle
<1>4. CASE PushIntoInputs
  <2> DEFINE out == PushIntoUnion(stages)
  <2>1. /\ At("PredicatePushdownUnion") /\ Rewrite("PredicatePushdownUnion", out)
        /\ rule' = IF BehindUnion(stages) = {} THEN rule + 1 ELSE rule
    BY <1>4 DEF PushIntoInputs
  <2>2. IsSequence(out)
    BY <1>0, PushIntoUnionIsSequence
  <2>3. rule' = rule + 1 => Idle("PredicatePushdownUnion")
    BY <1>0, <2>1 DEF Idle
  <2> HIDE DEF out
  <2> QED BY <2>1, <2>2, <2>3, RewriteIdle
<1>5. CASE SplitAggregate
  <2>1. PICK out \in TwoStageAgg(stages, large) : Rewrite("TwoStageAgg", out)
    BY <1>5 DEF SplitAggregate
  <2>2. At("TwoStageAgg") /\ rule' = rule + 1
    BY <1>5 DEF SplitAggregate
  <2>3. IsSequence(out) /\ Idle("TwoStageAgg")
    BY <1>0, SplitIsSequence DEF Idle
  <2> QED BY <2>1, <2>2, <2>3, RewriteIdle
<1>6. CASE Saturate
  <2>1. /\ At("SaturationRewrite") /\ Rewrite("SaturationRewrite", SaturationRewrite(stages))
        /\ rule' = rule + 1
    BY <1>6 DEF Saturate
  <2>2. IsSequence(SaturationRewrite(stages)) /\ Idle("SaturationRewrite")
    BY <1>0, SaturationIsSequence DEF Idle
  <2> QED BY <2>1, <2>2, RewriteIdle
<1>7. CASE EndPass
  <2>1. stages' = stages /\ Len(RuleSet) \in Nat /\ rule = Len(RuleSet) + 1 /\ phase = "rewrite"
    BY <1>7, RuleSetAssumption, LenProperties DEF EndPass, IdleInv
  <2>2. CASE NextPass
    <3>1. rule' = 1 /\ phase' = "rewrite"
      BY <1>7, <2>2 DEF EndPass
    <3> QED BY <2>1, <3>1 DEF IdleInv
  <2>3. CASE ~NextPass
    <3>1. phase' = "emit" /\ rule' = rule /\ changed' = changed
      BY <1>7, <2>3 DEF EndPass
    <3>2. ASSUME ~changed, NEW k \in 1 .. Len(RuleSet) PROVE Idle(RuleSet[k])'
      <4>1. Idle(RuleSet[k])
        BY <2>1, <3>2 DEF IdleInv
      <4> QED BY <2>1, <4>1 DEF Idle
    <3> QED BY <2>1, <3>1, <3>2 DEF IdleInv
  <2> QED BY <2>2, <2>3
<1>8. CASE Emit
  <2>1. phase = "emit" /\ phase' = "done" /\ UNCHANGED <<stages, rule, changed>>
    BY <1>8 DEF Emit
  <2> QED BY <2>1 DEF IdleInv, Idle
<1>9. CASE UNCHANGED vars
  BY <1>9 DEF vars, IdleInv, Idle
<1> QED BY <1>1, <1>2, <1>3, <1>4, <1>5, <1>6, <1>7, <1>8, <1>9 DEF Next

\* At the start no rule has been passed.
LEMMA InitIdle == Init => IdleInv
<1> SUFFICES ASSUME Init PROVE IdleInv
  OBVIOUS
<1>1. stages \in Pipelines /\ rule = 1 /\ phase = "rewrite"
  BY DEF Init
<1>2. IsSequence(stages)
  BY <1>1, PipelineAssumption DEF Legal
<1>3. Len(RuleSet) \in Nat
  BY RuleSetAssumption, LenProperties
<1> QED BY <1>1, <1>2, <1>3 DEF IdleInv

\* Where the engine stops because nothing changed, no filter is left that a rule could
\* move, whatever the other rules of the engine are and however the passes went, as
\* long as both pushdown rules are among them (rule.go:97-118).
THEOREM FiltersAreEarly ==
  ASSUME {"PredicatePushdown", "PredicatePushdownUnion"} \subseteq {RuleSet[k] : k \in DOMAIN RuleSet}
  PROVE  Spec => []FiltersEarly
<1>1. IdleInv => FiltersEarly
  <2> SUFFICES ASSUME IdleInv, Rewritten, ~changed
               PROVE  (\A i \in DOMAIN stages : ~Pushable(stages, i)) /\ BehindUnion(stages) = {}
    BY DEF FiltersEarly
  <2>1. DOMAIN RuleSet = 1 .. Len(RuleSet)
    BY RuleSetAssumption, LenProperties
  <2>2. \A k \in 1 .. Len(RuleSet) : Idle(RuleSet[k])
    BY DEF IdleInv, Rewritten
  <2>3. Idle("PredicatePushdown") /\ Idle("PredicatePushdownUnion")
    <3>1. PICK k \in 1 .. Len(RuleSet) : RuleSet[k] = "PredicatePushdown"
      BY <2>1
    <3>2. PICK j \in 1 .. Len(RuleSet) : RuleSet[j] = "PredicatePushdownUnion"
      BY <2>1
    <3>3. Idle(RuleSet[k]) /\ Idle(RuleSet[j])
      BY <2>2
    <3> QED BY <3>1, <3>2, <3>3
  <2> QED BY <2>3 DEF Idle
<1> QED BY <1>1, InitIdle, NextIdle, PTL DEF Spec

-----------------------------------------------------------------------------
(* The statement *)

\* What the rules leave, as long as TwoStageAgg has changed nothing.
StatementInv ==
  /\ IsSequence(stages) /\ phase \in {"rewrite", "emit", "done"}
  /\ "TwoStageAgg" \notin fired => AllWellFormed(stages) /\ Resolves(stages, SourceColumn)
  /\ fired \cap {"TwoStageAgg", "PredicatePushdownUnion"} = {} => InputsFrom(stages, orig)

\* A rule that keeps stages and inputs what they must be.
LEMMA RewriteStatement ==
  ASSUME StatementInv, NEW name, NEW out, Rewrite(name, out), IsSequence(out),
         (name # "TwoStageAgg" /\ AllWellFormed(stages) /\ Resolves(stages, SourceColumn)) =>
            AllWellFormed(out) /\ Resolves(out, SourceColumn),
         name \notin {"TwoStageAgg", "PredicatePushdownUnion"} => InputsFrom(out, stages)
  PROVE  StatementInv'
<1>1. stages' = out /\ phase' = phase /\ orig' = orig
  BY DEF Rewrite
<1>2. CASE out = stages
  <2>1. fired' = fired
    BY <1>2 DEF Rewrite
  <2> QED BY <1>1, <1>2, <2>1 DEF StatementInv, AllWellFormed, InputsFrom
<1>3. CASE out # stages
  <2>1. fired' = fired \cup {name}
    BY <1>3 DEF Rewrite
  <2>2. ASSUME "TwoStageAgg" \notin fired' PROVE AllWellFormed(out) /\ Resolves(out, SourceColumn)
    BY <2>1, <2>2 DEF StatementInv
  <2>3. ASSUME fired' \cap {"TwoStageAgg", "PredicatePushdownUnion"} = {} PROVE InputsFrom(out, orig)
    <3>1. InputsFrom(out, stages) /\ InputsFrom(stages, orig)
      BY <2>1, <2>3 DEF StatementInv
    <3> QED BY <3>1 DEF InputsFrom
  <2>4. phase' \in {"rewrite", "emit", "done"}
    BY <1>1 DEF StatementInv
  <2> HIDE DEF Rewrite
  <2>5. AllWellFormed(stages)' <=> AllWellFormed(out)
    BY <1>1 DEF AllWellFormed
  <2>6. InputsFrom(stages, orig)' <=> InputsFrom(out, orig)
    BY <1>1 DEF InputsFrom
  <2>7. Resolves(stages, SourceColumn)' <=> Resolves(out, SourceColumn)
    BY <1>1
  <2> QED BY <1>1, <2>2, <2>3, <2>4, <2>5, <2>6, <2>7 DEF StatementInv
<1> QED BY <1>2, <1>3

\* Every step keeps it.
LEMMA NextStatement == StatementInv /\ [Next]_vars => StatementInv'
<1> SUFFICES ASSUME StatementInv, [Next]_vars PROVE StatementInv'
  OBVIOUS
<1>0. IsSequence(stages)
  BY DEF StatementInv
<1>1. CASE Fold
  <2>1. Rewrite("ConstantFold", ConstantFold(stages))
    BY <1>1 DEF Fold
  <2> QED BY <1>0, <2>1, FoldIsSequence, FoldResolves, RulesKeepInputs, RewriteStatement
<1>2. CASE PushDown
  <2>1. Rewrite("PredicatePushdown", PushdownPass(stages))
    BY <1>2 DEF PushDown
  <2> QED BY <1>0, <2>1, WalkIsSequence, WalkResolves, RulesKeepInputs, RewriteStatement
<1>3. CASE Prune
  <2>1. Rewrite("ColumnPrune", ColumnPrune(stages))
    BY <1>3 DEF Prune
  <2> QED BY <1>0, <2>1, PruneIsSequence, PruneResolves, RulesKeepInputs, RewriteStatement
<1>4. CASE PushIntoInputs
  <2>1. Rewrite("PredicatePushdownUnion", PushIntoUnion(stages))
    BY <1>4 DEF PushIntoInputs
  <2> QED BY <1>0, <2>1, PushIntoUnionIsSequence, PushIntoUnionResolves, RewriteStatement
<1>5. CASE SplitAggregate
  <2>1. PICK out \in TwoStageAgg(stages, large) : Rewrite("TwoStageAgg", out)
    BY <1>5 DEF SplitAggregate
  <2> QED BY <1>0, <2>1, SplitIsSequence, RewriteStatement
<1>6. CASE Saturate
  <2>1. Rewrite("SaturationRewrite", SaturationRewrite(stages))
    BY <1>6 DEF Saturate
  <2> QED BY <1>0, <2>1, SaturationIsSequence, SaturationResolves, RulesKeepInputs, RewriteStatement
<1>7. CASE EndPass
  <2>1. UNCHANGED <<stages, fired, orig>> /\ phase' \in {"rewrite", "emit", "done"}
    BY <1>7 DEF EndPass
  <2> QED BY <2>1 DEF StatementInv, AllWellFormed, InputsFrom
<1>8. CASE Emit
  <2>1. UNCHANGED <<stages, fired, orig>> /\ phase' = "done"
    BY <1>8 DEF Emit
  <2> QED BY <2>1 DEF StatementInv, AllWellFormed, InputsFrom
<1>9. CASE UNCHANGED vars
  BY <1>9 DEF vars, StatementInv, AllWellFormed, InputsFrom
<1> QED BY <1>1, <1>2, <1>3, <1>4, <1>5, <1>6, <1>7, <1>8, <1>9 DEF Next

\* A bound pipeline has its columns.
LEMMA InitStatement == Init => StatementInv
<1> SUFFICES ASSUME Init PROVE StatementInv
  OBVIOUS
<1>1. stages \in Pipelines /\ stages = orig /\ phase = "rewrite"
  BY DEF Init
<1>2. Legal(stages)
  BY <1>1, PipelineAssumption
<1> QED BY <1>1, <1>2 DEF StatementInv, Legal, AllWellFormed, InputsFrom

\* Whatever the rules of the engine are and however they feed each other, the statement
\* of the rewritten pipeline names only columns its FROMs have, unless TwoStageAgg has
\* split an aggregate (emit_cte.go, predicate_pushdown.go canPushPast).
THEOREM StatementsAreAccepted == Spec => []StatementAccepted
<1>1. StatementInv => StatementAccepted
  <2> SUFFICES ASSUME StatementInv, Emitted, "TwoStageAgg" \notin fired
               PROVE  /\ Accepted(stages, SourceColumn)
                      /\ (Nestable(orig) /\ "PredicatePushdownUnion" \notin fired) => Taken(stages)
    BY DEF StatementAccepted
  <2>1. Accepted(stages, SourceColumn)
    BY ResolvedAccepted DEF StatementInv
  <2>2. ASSUME Nestable(orig), "PredicatePushdownUnion" \notin fired PROVE Taken(stages)
    <3>1. InputsFrom(stages, orig)
      BY <2>2 DEF StatementInv
    <3>2. ASSUME dialect = "duckdb", NEW k \in DOMAIN stages, NEW i \in DOMAIN stages[k].inputs
          PROVE  NestedAccepted(stages[k].inputs[i].stages)
      <4>1. PICK j \in DOMAIN orig : stages[k].inputs = orig[j].inputs
        BY <3>1, <3>2 DEF InputsFrom
      <4> QED BY <2>2, <3>2, <4>1 DEF Nestable
    <3> QED BY <2>1, <3>2 DEF Taken, DuckAccepted
  <2> QED BY <2>1, <2>2
<1> QED BY <1>1, InitStatement, NextStatement, PTL DEF Spec

-----------------------------------------------------------------------------
(* The rows *)

\* What the sound rules leave means what was bound.
RowsInv ==
  /\ orig \in Pipelines /\ phase \in {"rewrite", "emit", "done"}
  /\ SoundlyRewritten =>
       /\ Legal(stages) /\ (WholeRowDistinct(stages) => WholeRowDistinct(orig))
       /\ \A r \in Sources : Applied(stages, r, Tables) = Applied(orig, r, Tables)

\* A rule that changes nothing, is not one of the three, or keeps the rows.
LEMMA RewriteRows ==
  ASSUME RowsInv, NEW name, NEW out, Rewrite(name, out),
         (/\ name \in {"ConstantFold", "PredicatePushdown", "ColumnPrune"} /\ Legal(stages)
          /\ (name = "ColumnPrune" => ~WholeRowDistinct(stages))) =>
            /\ Legal(out) /\ (WholeRowDistinct(out) => WholeRowDistinct(stages))
            /\ \A r \in Sources : Applied(out, r, Tables) = Applied(stages, r, Tables)
  PROVE  RowsInv'
<1>1. stages' = out /\ phase' = phase /\ orig' = orig
  BY DEF Rewrite
<1>2. orig' \in Pipelines /\ phase' \in {"rewrite", "emit", "done"}
  BY <1>1 DEF RowsInv
<1> DEFINE Kept1(s) == /\ Legal(s) /\ (WholeRowDistinct(s) => WholeRowDistinct(orig))
                       /\ \A r \in Sources : Applied(s, r, Tables) = Applied(orig, r, Tables)
<1>3. SoundlyRewritten' => SoundlyRewritten
  <2>1. fired \subseteq fired'
    BY DEF Rewrite
  <2> QED BY <1>1, <2>1 DEF SoundlyRewritten
<1>4. ASSUME SoundlyRewritten' PROVE Kept1(out)
  <2>1. Kept1(stages)
    BY <1>3, <1>4 DEF RowsInv
  <2>2. CASE out = stages
    BY <2>1, <2>2
  <2>3. CASE out # stages
    <3>1. fired' = fired \cup {name}
      BY <2>3 DEF Rewrite
    <3>2. /\ name \in {"ConstantFold", "PredicatePushdown", "ColumnPrune"}
          /\ (name = "ColumnPrune" => ~WholeRowDistinct(orig))
      BY <1>1, <1>4, <3>1 DEF SoundlyRewritten
    <3>3. name = "ColumnPrune" => ~WholeRowDistinct(stages)
      BY <2>1, <3>2
    <3>4. /\ Legal(out) /\ (WholeRowDistinct(out) => WholeRowDistinct(stages))
          /\ \A r \in Sources : Applied(out, r, Tables) = Applied(stages, r, Tables)
      BY <2>1, <3>2, <3>3
    <3> QED BY <2>1, <3>4
  <2> QED BY <2>2, <2>3
<1>5. Kept1(out) <=>
        /\ Legal(stages') /\ (WholeRowDistinct(stages') => WholeRowDistinct(orig'))
        /\ \A r \in Sources : Applied(stages', r, Tables) = Applied(orig', r, Tables)
  BY <1>1
<1> HIDE DEF Kept1
<1> QED BY <1>2, <1>4, <1>5 DEF RowsInv

\* Every step keeps it.
LEMMA NextRows ==
  ASSUME Computes
  PROVE  RowsInv /\ IsSequence(stages) /\ [Next]_vars => RowsInv'
<1> SUFFICES ASSUME RowsInv, IsSequence(stages), [Next]_vars PROVE RowsInv'
  OBVIOUS
<1>1. CASE Fold
  <2>1. Rewrite("ConstantFold", ConstantFold(stages))
    BY <1>1 DEF Fold
  <2> QED BY <2>1, FoldRows, RulesAddNoDistinct, RewriteRows
<1>2. CASE PushDown
  <2>1. Rewrite("PredicatePushdown", PushdownPass(stages))
    BY <1>2 DEF PushDown
  <2> QED BY <2>1, WalkRows, RulesAddNoDistinct, RewriteRows
<1>3. CASE Prune
  <2>1. Rewrite("ColumnPrune", ColumnPrune(stages))
    BY <1>3 DEF Prune
  <2> QED BY <2>1, PruneRows, RulesAddNoDistinct, RewriteRows
<1>4. CASE PushIntoInputs
  <2>1. Rewrite("PredicatePushdownUnion", PushIntoUnion(stages))
    BY <1>4 DEF PushIntoInputs
  <2> QED BY <2>1, RewriteRows
<1>5. CASE SplitAggregate
  <2>1. PICK out \in TwoStageAgg(stages, large) : Rewrite("TwoStageAgg", out)
    BY <1>5 DEF SplitAggregate
  <2> QED BY <2>1, RewriteRows
<1>6. CASE Saturate
  <2>1. Rewrite("SaturationRewrite", SaturationRewrite(stages))
    BY <1>6 DEF Saturate
  <2> QED BY <2>1, RewriteRows
<1>7. CASE EndPass
  <2>1. UNCHANGED <<stages, fired, orig>> /\ phase' \in {"rewrite", "emit", "done"}
    BY <1>7 DEF EndPass, RowsInv
  <2> QED BY <2>1 DEF RowsInv, SoundlyRewritten
<1>8. CASE Emit
  <2>1. UNCHANGED <<stages, fired, orig>> /\ phase' = "done"
    BY <1>8 DEF Emit
  <2> QED BY <2>1 DEF RowsInv, SoundlyRewritten
<1>9. CASE UNCHANGED vars
  BY <1>9 DEF vars, RowsInv, SoundlyRewritten
<1> QED BY <1>1, <1>2, <1>3, <1>4, <1>5, <1>6, <1>7, <1>8, <1>9 DEF Next

\* At the start the stages are what was bound.
LEMMA InitRows == Init => RowsInv
<1> SUFFICES ASSUME Init PROVE RowsInv
  OBVIOUS
<1>1. stages \in Pipelines /\ stages = orig /\ phase = "rewrite"
  BY DEF Init
<1>2. Legal(stages)
  BY <1>1, PipelineAssumption
<1> QED BY <1>1, <1>2 DEF RowsInv

\* Over any number of passes, folding constants, pushing filters down and pruning columns
\* keep the rows of every pipeline on all data, and the order they come in
\* (constant_fold.go, predicate_pushdown.go, column_prune.go).
THEOREM RowsArePreserved ==
  ASSUME Computes
  PROVE  Spec => []RowsPreserved
<1>1. RowsInv => RowsPreserved
  <2> SUFFICES ASSUME RowsInv, SoundlyRewritten PROVE SameMeaning
    BY DEF RowsPreserved
  <2>1. Legal(stages) /\ \A r \in Sources : Applied(stages, r, Tables) = Applied(orig, r, Tables)
    BY DEF RowsInv
  <2>2. Resolves(stages, SourceColumn)
    BY <2>1, LegalFits
  <2> QED BY <2>1, <2>2 DEF SameMeaning, Meaning
<1>2. StatementInv => IsSequence(stages)
  BY DEF StatementInv
<1>3. RowsInv /\ IsSequence(stages) /\ [Next]_vars => RowsInv'
  BY NextRows
<1> QED BY <1>1, <1>2, <1>3, InitRows, InitStatement, NextStatement, PTL DEF Spec

-----------------------------------------------------------------------------
(* The select of a run *)

\* One more stage of a run is one more turn of the loop.
LEMMA OneMoreMerged ==
  ASSUME NEW S, NEW seg \in Seq(S), NEW st \in S
  PROVE  MergedSelect(Append(seg, st)) = Absorb(MergedSelect(seg), st)
<1> DEFINE t == Append(seg, st)
           n == Len(seg)
           f == MergeBy(seg)
           g == MergeBy(t)
           M == {k \in Nat : k <= n => f[k] = g[k]}
<1>1. n \in Nat /\ Len(t) = n + 1 /\ t[n + 1] = st /\ \A k \in 1 .. n : t[k] = seg[k]
  BY AppendProperties, LenProperties
<1>2. MergedSelect(seg) = f[n] /\ f[0] = Passthrough /\ \A k \in 1 .. n : f[k] = Absorb(f[k - 1], seg[k])
  BY <1>1, MergeUnfolds
<1>3. MergedSelect(t) = g[n + 1] /\ g[0] = Passthrough /\ \A k \in 1 .. n + 1 : g[k] = Absorb(g[k - 1], t[k])
  <2>1. Len(t) = n + 1 /\ Len(t) \in Nat
    BY <1>1
  <2> HIDE DEF t, n
  <2>2. /\ MergedSelect(t) = MergeBy(t)[Len(t)] /\ MergeBy(t)[0] = Passthrough
        /\ \A k \in 1 .. Len(t) : MergeBy(t)[k] = Absorb(MergeBy(t)[k - 1], t[k])
    BY <2>1, MergeUnfolds
  <2> QED
    BY <2>1, <2>2
<1> HIDE DEF f, g, t, n
<1>4. 0 \in M
  BY <1>2, <1>3
<1>5. ASSUME NEW k \in Nat, k \in M PROVE k + 1 \in M
  <2> SUFFICES ASSUME k + 1 <= n PROVE f[k + 1] = g[k + 1]
    OBVIOUS
  <2>1. k + 1 \in 1 .. n /\ k + 1 \in 1 .. n + 1 /\ (k + 1) - 1 = k /\ t[k + 1] = seg[k + 1] /\ f[k] = g[k]
    BY <1>1, <1>5
  <2>2. f[k + 1] = Absorb(f[k], seg[k + 1])
    BY <1>2, <2>1
  <2>3. g[k + 1] = Absorb(g[k], t[k + 1])
    BY <1>3, <2>1
  <2> QED
    BY <2>1, <2>2, <2>3
<1>6. Nat \subseteq M
  <2> HIDE DEF M
  <2> QED
    BY <1>4, <1>5, SetInduction
<1>7. f[n] = g[n] /\ n + 1 \in 1 .. n + 1 /\ (n + 1) - 1 = n
  BY <1>1, <1>6
<1>8. g[n + 1] = Absorb(g[n], t[n + 1])
  BY <1>3, <1>7
<1> QED
  BY <1>1, <1>2, <1>3, <1>7, <1>8 DEF t

\* The runs one select can stand for: they sort once, and what follows a limit of more
\* than no rows is neither a limit nor anything else.
Fine(seg) ==
  /\ \A j, k \in DOMAIN seg : seg[j].op = "Sort" /\ seg[k].op = "Sort" => j = k
  /\ \A j, k \in DOMAIN seg : j < k /\ seg[j].op = "Limit" =>
       seg[j].n = 0 /\ (seg[k].op = "Limit" => seg[k].n = 0)

\* What taking in a stage makes of sort keys and limit.
LEMMA AbsorbClauses ==
  ASSUME NEW E, NEW q, Plain(q, E), NEW st
  PROVE  /\ st.op # "Sort" => Absorb(q, st).order = q.order
         /\ st.op # "Limit" => Absorb(q, st).limit = q.limit
         /\ st.op = "Limit" => Absorb(q, st).limit = st.n
BY DEF Absorb, Plain

\* A select has sort keys or a limit only from a sort or a limit of its run.
LEMMA SelectClauses ==
  ASSUME NEW E, NEW seg, IsSequence(seg), Run(seg, E)
  PROVE  LET q == MergedSelect(seg)
         IN  /\ (\A k \in DOMAIN seg : seg[k].op # "Sort") => q.order = <<>>
             /\ (\A k \in DOMAIN seg : seg[k].op # "Limit") => q.limit = NoLimit
             /\ (/\ \E k \in DOMAIN seg : seg[k].op = "Limit"
                 /\ \A k \in DOMAIN seg : seg[k].op = "Limit" => seg[k].n = 0) => q.limit = 0
<1> DEFINE f == MergeBy(seg)
           n == Len(seg)
           q == MergedSelect(seg)
           Clauses(k) == /\ Plain(f[k], E)
                         /\ (\A j \in 1 .. k : seg[j].op # "Sort") => f[k].order = <<>>
                         /\ (\A j \in 1 .. k : seg[j].op # "Limit") => f[k].limit = NoLimit
                         /\ (/\ \E j \in 1 .. k : seg[j].op = "Limit"
                             /\ \A j \in 1 .. k : seg[j].op = "Limit" => seg[j].n = 0) => f[k].limit = 0
           M == {k \in Nat : k <= n => Clauses(k)}
<1>1. n \in Nat /\ DOMAIN seg = 1 .. n
  BY SequenceShape
<1>2. q = f[n] /\ f[0] = Passthrough /\ \A k \in 1 .. n : f[k] = Absorb(f[k - 1], seg[k])
  BY <1>1, MergeUnfolds
<1> HIDE DEF f, q, n
<1>3. 0 \in M
  <2>1. IsSequence(<< >>)
    BY EmptySeq, SequenceOfAny
  <2>2. Plain(Passthrough, E)
    BY <2>1 DEF Plain, Passthrough, PredColumns, KeyColumns
  <2>3. Passthrough.order = <<>> /\ Passthrough.limit = NoLimit
    BY DEF Passthrough
  <2>4. 1 .. 0 = {}
    OBVIOUS
  <2> QED
    BY <1>2, <2>2, <2>3, <2>4
<1>4. ASSUME NEW k \in Nat, k \in M PROVE k + 1 \in M
  <2> SUFFICES ASSUME k + 1 <= n PROVE Clauses(k + 1)
    OBVIOUS
  <2>1. k + 1 \in 1 .. n /\ (k + 1) - 1 = k /\ Clauses(k)
    BY <1>1, <1>4
  <2> DEFINE st == seg[k + 1]
  <2>2. f[k + 1] = Absorb(f[k], st)
    BY <1>2, <2>1
  <2>3. WellFormed(st) /\ ~IsBreakpoint(st) /\ References(st) \subseteq E
    BY <1>1, <2>1 DEF Run
  <2>4. Plain(f[k + 1], E)
    BY <2>1, <2>2, <2>3, AbsorbPlain
  <2>5. /\ st.op # "Sort" => f[k + 1].order = f[k].order
        /\ st.op # "Limit" => f[k + 1].limit = f[k].limit
        /\ st.op = "Limit" => f[k + 1].limit = st.n
    BY <2>1, <2>2, AbsorbClauses
  <2>6. \A j \in 1 .. k + 1 : j \in 1 .. k \/ j = k + 1
    OBVIOUS
  <2>7. k + 1 \in 1 .. k + 1 /\ \A j \in 1 .. k : j \in 1 .. k + 1
    OBVIOUS
  <2>8. ASSUME \A j \in 1 .. k + 1 : seg[j].op # "Sort" PROVE f[k + 1].order = <<>>
    BY <2>1, <2>5, <2>7, <2>8
  <2>9. ASSUME \A j \in 1 .. k + 1 : seg[j].op # "Limit" PROVE f[k + 1].limit = NoLimit
    BY <2>1, <2>5, <2>7, <2>9
  <2>10. ASSUME NEW j \in 1 .. k + 1, seg[j].op = "Limit",
                \A i \in 1 .. k + 1 : seg[i].op = "Limit" => seg[i].n = 0
         PROVE  f[k + 1].limit = 0
    <3>1. CASE st.op = "Limit"
      BY <2>5, <2>7, <2>10, <3>1
    <3>2. CASE st.op # "Limit"
      <4>1. j \in 1 .. k
        BY <2>6, <2>10, <3>2
      <4> QED
        BY <2>1, <2>5, <2>7, <2>10, <3>2, <4>1
    <3> QED
      BY <3>1, <3>2
  <2> QED
    BY <2>4, <2>8, <2>9, <2>10
<1>5. Nat \subseteq M
  <2> HIDE DEF M
  <2> QED
    BY <1>3, <1>4, SetInduction
<1>6. Clauses(n)
  BY <1>1, <1>5
<1> QED
  BY <1>1, <1>2, <1>6 DEF q

\* The rows a select of whole rows keeps.
Ordered(q, A)  == IF q.order = <<>> THEN Where(A, q.where) ELSE Sorted(Where(A, q.where), q.order)
KeptRows(q, A) == IF q.limit = NoLimit THEN Ordered(q, A) ELSE FirstRows(Ordered(q, A), q.limit)

\* They are what it answers.
LEMMA PlainMerged ==
  ASSUME NEW E, NEW q, Plain(q, E), NEW A, Typed(A, E)
  PROVE  /\ Typed(Where(A, q.where), E) /\ Typed(Ordered(q, A), E) /\ Typed(KeptRows(q, A), E)
         /\ RunMerged(q, A) = KeptRows(q, A)
<1>1. /\ q.select = {} /\ q.project = FALSE /\ KeyColumns(q.order) \subseteq E
      /\ Len(q.order) \in Nat /\ DOMAIN q.order = 1 .. Len(q.order)
  BY SequenceShape DEF Plain
<1>2. Typed(Where(A, q.where), E)
  BY KeepTyped DEF Where
<1>3. Typed(Ordered(q, A), E)
  <2>1. Typed(Sorted(Where(A, q.where), q.order), E)
    BY <1>1, <1>2, SortedTyped
  <2> QED
    BY <1>2, <2>1 DEF Ordered
<1>4. Typed(KeptRows(q, A), E)
  <2>1. Typed(FirstRows(Ordered(q, A), q.limit), E)
    BY <1>3, KeepTyped DEF FirstRows
  <2> QED
    BY <1>3, <2>1 DEF KeptRows
<1>5. RunMerged(q, A) = Extended(KeptRows(q, A), {})
  BY <1>1 DEF RunMerged, KeptRows, Ordered
<1> DEFINE r == KeptRows(q, A)
<1>6. Typed(r, E)
  BY <1>4
<1> HIDE DEF r
<1>7. r = [k \in DOMAIN r |-> r[k]] /\ \A k \in DOMAIN r : r[k] \in [E -> Int]
  BY <1>6 DEF Typed
<1>8. Extended(r, {}) = [k \in DOMAIN r |-> [c \in DOMAIN r[k] |-> r[k][c]]]
  BY DEF Extended
<1>9. \A k \in DOMAIN r : [c \in DOMAIN r[k] |-> r[k][c]] = r[k]
  BY <1>7
<1>10. Extended(r, {}) = r
  BY <1>7, <1>8, <1>9
<1> QED
  BY <1>2, <1>3, <1>4, <1>5, <1>10 DEF r

\* A select that has taken in a run of stages takes in one more: what it keeps is what the
\* stage makes of what it kept.
LEMMA AbsorbFaithful ==
  ASSUME NEW E, NEW q, Plain(q, E), NEW A, Typed(A, E),
         NEW st, WellFormed(st), ~IsBreakpoint(st), References(st) \subseteq E,
         \/ q.limit = 0 /\ (st.op = "Limit" => st.n = 0)
         \/ q.limit = NoLimit /\ (st.op = "Sort" => q.order = <<>>)
  PROVE  Alike(KeptRows(Absorb(q, st), A), ApplyPlain(st, KeptRows(q, A)))
<1> DEFINE p == Absorb(q, st)
           w == Where(A, q.where)
<1>1. Plain(p, E)
  BY AbsorbPlain
<1>2. Typed(w, E) /\ Typed(Ordered(q, A), E) /\ Typed(KeptRows(q, A), E)
  BY PlainMerged
<1>3. Typed(Ordered(p, A), E)
  BY <1>1, PlainMerged
<1>4. /\ IsSequence(st.keys) /\ Len(st.keys) \in Nat /\ DOMAIN st.keys = 1 .. Len(st.keys)
      /\ KeyColumns(st.keys) \subseteq E /\ st.n \in Nat
  BY SequenceShape DEF WellFormed, References
<1>5. /\ IsSequence(q.order) /\ Len(q.order) \in Nat /\ DOMAIN q.order = 1 .. Len(q.order)
      /\ KeyColumns(q.order) \subseteq E
  BY SequenceShape DEF Plain
<1>6. CASE q.limit = 0 /\ (st.op = "Limit" => st.n = 0)
  <2>1. p.limit = 0
    BY <1>6, AbsorbClauses
  <2>2. KeptRows(p, A) = FirstRows(Ordered(p, A), 0) /\ KeptRows(q, A) = FirstRows(Ordered(q, A), 0)
    BY <1>6, <2>1 DEF KeptRows, NoLimit
  <2>3. DOMAIN KeptRows(p, A) = {} /\ DOMAIN KeptRows(q, A) = {}
    BY <1>2, <1>3, <2>2, NoFirstRows
  <2> DEFINE r == KeptRows(q, A)
  <2>4. DOMAIN Where(r, st.preds) = {} /\ DOMAIN FirstRows(r, st.n) = {}
    BY <2>3 DEF Where, FirstRows, Keep
  <2>5. DOMAIN Sorted(r, st.keys) = {}
    <3>1. Cardinality({}) = 0 /\ 1 .. 0 = {}
      BY FS_EmptySet
    <3> QED
      BY <2>3, <3>1 DEF Sorted
  <2>6. DOMAIN ApplyPlain(st, r) = {}
    <3>1. st.op \notin {"Aggregate", "Distinct", "Union", "Extend", "Project"}
      BY DEF IsBreakpoint
    <3> HIDE DEF r
    <3> QED
      BY <2>3, <2>4, <2>5, <3>1 DEF ApplyPlain, r
  <2> QED
    BY <2>3, <2>6, EmptyAlike
<1>7. CASE q.limit = NoLimit /\ (st.op = "Sort" => q.order = <<>>)
  <2>1. KeptRows(q, A) = Ordered(q, A)
    BY <1>7 DEF KeptRows
  <2>2. CASE st.op = "Filter"
    <3>1. p.limit = NoLimit /\ p.order = q.order /\ p.where = q.where \cup st.preds
      BY <1>7, <2>2 DEF Absorb, Plain
    <3> HIDE DEF p
    <3>2. Where(A, p.where) = Where(w, st.preds)
      <4> DEFINE S == {k \in DOMAIN A : \A x \in q.where : Holds(x, A[k])}
                 T == {k \in DOMAIN A : \A x \in p.where : Holds(x, A[k])}
                 U == {k \in DOMAIN w : \A x \in st.preds : Holds(x, w[k])}
      <4>1. w = [k \in S |-> A[k]] /\ Where(A, p.where) = [k \in T |-> A[k]]
        BY DEF Where, Keep
      <4>2. Where(w, st.preds) = [k \in U |-> w[k]]
        BY DEF Where, Keep
      <4> HIDE DEF w
      <4>3. DOMAIN w = S /\ \A k \in S : w[k] = A[k]
        BY <4>1
      <4>4. U = T
        BY <3>1, <4>3
      <4>5. \A k \in T : w[k] = A[k]
        BY <3>1, <4>3
      <4> QED
        BY <4>1, <4>2, <4>4, <4>5
    <3>3. KeptRows(p, A) = Ordered(p, A)
      BY <3>1 DEF KeptRows
    <3>4. ApplyPlain(st, KeptRows(q, A)) = Where(Ordered(q, A), st.preds)
      BY <2>1, <2>2 DEF ApplyPlain
    <3>5. CASE q.order = <<>>
      <4>1. Ordered(p, A) = Where(w, st.preds) /\ Ordered(q, A) = w
        BY <3>1, <3>2, <3>5 DEF Ordered
      <4> QED
        BY <3>3, <3>4, <4>1, AlikeItself DEF p
    <3>6. CASE q.order # <<>>
      <4>1. Ordered(p, A) = Sorted(Where(w, st.preds), q.order) /\ Ordered(q, A) = Sorted(w, q.order)
        BY <3>1, <3>2, <3>6 DEF Ordered
      <4> HIDE DEF w
      <4>2. Alike(Sorted(Where(w, st.preds), q.order), Where(Sorted(w, q.order), st.preds))
        BY <1>2, <1>5, SortWhere
      <4> QED
        BY <3>3, <3>4, <4>1, <4>2 DEF p
    <3> QED
      BY <3>5, <3>6
  <2>3. CASE st.op = "Sort"
    <3>1. p.limit = NoLimit /\ p.order = <<>> \o st.keys /\ p.where = q.where
      BY <1>7, <2>3 DEF Absorb, Plain
    <3>2. <<>> \o st.keys = st.keys
      <4>1. st.keys \in Seq({st.keys[k] : k \in DOMAIN st.keys})
        BY <1>4, SequenceShape
      <4> QED
        BY <4>1
    <3> HIDE DEF p
    <3>3. Ordered(q, A) = w
      BY <1>7, <2>3 DEF Ordered
    <3>4. KeptRows(p, A) = IF st.keys = <<>> THEN w ELSE Sorted(w, st.keys)
      BY <3>1, <3>2 DEF KeptRows, Ordered
    <3>5. ApplyPlain(st, KeptRows(q, A)) = IF st.keys = <<>> THEN w ELSE Sorted(w, st.keys)
      BY <2>1, <2>3, <3>3 DEF ApplyPlain
    <3> QED
      BY <3>4, <3>5, AlikeItself DEF p
  <2>4. CASE st.op = "Limit"
    <3>1. p.limit = st.n /\ p.order = q.order /\ p.where = q.where
      BY <2>4 DEF Absorb, Plain
    <3> HIDE DEF p
    <3>2. st.n # NoLimit
      BY <1>4 DEF NoLimit
    <3>3. KeptRows(p, A) = FirstRows(Ordered(q, A), st.n)
      BY <3>1, <3>2 DEF KeptRows, Ordered
    <3>4. ApplyPlain(st, KeptRows(q, A)) = FirstRows(Ordered(q, A), st.n)
      BY <2>1, <2>4 DEF ApplyPlain
    <3> QED
      BY <3>3, <3>4, AlikeItself DEF p
  <2>5. CASE st.op \notin {"Filter", "Sort", "Limit"}
    <3>1. st.op \notin {"Filter", "Sort", "Limit", "Aggregate", "Distinct", "Union", "Extend", "Project"}
      BY <2>5 DEF IsBreakpoint
    <3>2. p = q
      BY <3>1 DEF Absorb
    <3> HIDE DEF p
    <3>3. ApplyPlain(st, KeptRows(q, A)) = KeptRows(q, A)
      BY <3>1 DEF ApplyPlain
    <3> QED
      BY <3>2, <3>3, AlikeItself DEF p
  <2> QED
    BY <2>2, <2>3, <2>4, <2>5
<1> QED
  BY <1>6, <1>7

-----------------------------------------------------------------------------
(* What a segment answers *)

\* What a segment makes of rows in a statement of sqlite's or DuckDB's, or in that of an
\* input, where a union is no union; and what its stage means.
SegmentBy(mode, seg, r) ==
  IF ~IsBreak(seg) THEN RunMerged(MergedSelect(seg), r)
  ELSE IF mode = "input" \/ seg[1].op # "Union" THEN ApplyPlain(seg[1], r)
  ELSE IF mode = "sqlite" THEN RunUnion(seg[1].inputs, r, Tables)
  ELSE UnionRows(seg[1].inputs, r, Tables)
StageBy(mode, st, r) == IF mode = "input" THEN ApplyPlain(st, r) ELSE ApplyStage(st, r, Tables)

\* f[k] are the rows behind k segments.
SegmentChain(f, mode, segs, r, n) ==
  f = [k \in 0 .. n |-> IF k = 0 THEN r ELSE SegmentBy(mode, segs[k], f[k - 1])]

\* There is such a function for any number of segments.
LEMMA SegmentsExist ==
  ASSUME NEW mode, NEW segs, NEW r, NEW n \in Nat
  PROVE  \E f : SegmentChain(f, mode, segs, r, n)
<1> DEFINE S == {m \in Nat : \E f : SegmentChain(f, mode, segs, r, m)}
<1>1. \E f : SegmentChain(f, mode, segs, r, 0)
  <2> DEFINE f == [k \in 0 .. 0 |-> r]
  <2>1. [k \in 0 .. 0 |-> IF k = 0 THEN r ELSE SegmentBy(mode, segs[k], f[k - 1])] = f
    OBVIOUS
  <2> QED
    BY <2>1 DEF SegmentChain
<1>2. 0 \in S
  BY <1>1
<1>3. ASSUME NEW m \in Nat, m \in S PROVE m + 1 \in S
  <2>1. PICK f : SegmentChain(f, mode, segs, r, m)
    BY <1>3
  <2> DEFINE g == [k \in 0 .. m + 1 |-> IF k = m + 1 THEN SegmentBy(mode, segs[m + 1], f[m]) ELSE f[k]]
  <2>2. ASSUME NEW k \in 0 .. m + 1
        PROVE  g[k] = IF k = 0 THEN r ELSE SegmentBy(mode, segs[k], g[k - 1])
    <3>1. CASE k = m + 1
      <4>1. g[k] = SegmentBy(mode, segs[m + 1], f[m]) /\ g[k - 1] = f[m] /\ k # 0
        BY <3>1
      <4> QED
        BY <3>1, <4>1
    <3>2. CASE k # m + 1
      <4>1. k \in 0 .. m /\ g[k] = f[k] /\ (k # 0 => g[k - 1] = f[k - 1])
        BY <3>2
      <4>2. f[k] = IF k = 0 THEN r ELSE SegmentBy(mode, segs[k], f[k - 1])
        BY <2>1, <4>1 DEF SegmentChain
      <4> QED
        BY <4>1, <4>2
    <3> QED
      BY <3>1, <3>2
  <2>3. SegmentChain(g, mode, segs, r, m + 1)
    <3>1. g = [k \in 0 .. m + 1 |-> g[k]]
      OBVIOUS
    <3> HIDE DEF g
    <3> QED
      BY <2>2, <3>1 DEF SegmentChain
  <2> QED
    BY <2>3
<1>4. Nat \subseteq S
  <2> HIDE DEF S
  <2> QED
    BY <1>2, <1>3, SetInduction
<1> QED
  BY <1>4

\* The rows behind a chain of segments.
SegmentsBy(mode, segs, r) == CHOOSE f : SegmentChain(f, mode, segs, r, Len(segs))
RowsBehind(mode, segs, r) == SegmentsBy(mode, segs, r)[Len(segs)]

\* What such a function is place by place.
LEMMA ChainPlaces ==
  ASSUME NEW mode, NEW segs, NEW r, NEW n \in Nat, NEW f, SegmentChain(f, mode, segs, r, n)
  PROVE  f[0] = r /\ \A k \in 1 .. n : f[k] = SegmentBy(mode, segs[k], f[k - 1])
<1>1. \A k \in 0 .. n : f[k] = IF k = 0 THEN r ELSE SegmentBy(mode, segs[k], f[k - 1])
  BY DEF SegmentChain
<1>2. f[0] = r
  BY <1>1
<1>3. ASSUME NEW k \in 1 .. n PROVE f[k] = SegmentBy(mode, segs[k], f[k - 1])
  <2>1. k \in 0 .. n /\ k # 0
    OBVIOUS
  <2> QED
    BY <1>1, <2>1
<1> QED
  BY <1>2, <1>3

\* The same segments up to place l.
SameTo(s, t, l) == \A k \in 1 .. l : s[k] = t[k]

\* Two that begin with the same segments agree there.
LEMMA SameSegments ==
  ASSUME NEW mode, NEW s, NEW t, NEW r, NEW n \in Nat, NEW m \in Nat, NEW f, NEW g,
         SegmentChain(f, mode, s, r, n), SegmentChain(g, mode, t, r, m),
         NEW l \in Nat, l <= n, l <= m, SameTo(s, t, l)
  PROVE  f[l] = g[l]
<1> DEFINE M == {k \in Nat : k <= l => f[k] = g[k]}
<1>1. f[0] = r /\ \A k \in 1 .. n : f[k] = SegmentBy(mode, s[k], f[k - 1])
  <2>1. f[0] = r
    BY DEF SegmentChain
  <2>2. \A k \in 1 .. n : f[k] = SegmentBy(mode, s[k], f[k - 1])
    BY ChainPlaces
  <2> QED
    BY <2>1, <2>2
<1>2. g[0] = r /\ \A k \in 1 .. m : g[k] = SegmentBy(mode, t[k], g[k - 1])
  BY ChainPlaces
<1>3. 0 \in M
  BY <1>1, <1>2
<1>4. ASSUME NEW k \in Nat, k \in M PROVE k + 1 \in M
  <2> SUFFICES ASSUME k + 1 <= l PROVE f[k + 1] = g[k + 1]
    OBVIOUS
  <2>1. k + 1 \in 1 .. n /\ k + 1 \in 1 .. m /\ (k + 1) - 1 = k /\ s[k + 1] = t[k + 1] /\ f[k] = g[k]
    BY <1>4 DEF SameTo
  <2>2. f[k + 1] = SegmentBy(mode, s[k + 1], f[k])
    BY <1>1, <2>1
  <2>3. g[k + 1] = SegmentBy(mode, t[k + 1], g[k])
    BY <1>2, <2>1
  <2> QED
    BY <2>1, <2>2, <2>3
<1>5. Nat \subseteq M
  <2> HIDE DEF M
  <2> QED
    BY <1>3, <1>4, SetInduction
<1> QED
  BY <1>5

\* Any such function is the one RowsBehind takes.
LEMMA ChosenSegments ==
  ASSUME NEW mode, NEW segs, NEW r, Len(segs) \in Nat
  PROVE  /\ SegmentChain(SegmentsBy(mode, segs, r), mode, segs, r, Len(segs))
         /\ \A f : SegmentChain(f, mode, segs, r, Len(segs)) => f[Len(segs)] = RowsBehind(mode, segs, r)
<1> DEFINE n == Len(segs)
           g == SegmentsBy(mode, segs, r)
<1>1. SegmentChain(g, mode, segs, r, n)
  <2>1. \E f : SegmentChain(f, mode, segs, r, Len(segs))
    BY SegmentsExist
  <2> QED
    BY <2>1 DEF SegmentsBy
<1>2. n \in Nat /\ RowsBehind(mode, segs, r) = g[n]
  BY DEF RowsBehind
<1> HIDE DEF n, g
<1>3. ASSUME NEW f, SegmentChain(f, mode, segs, r, n) PROVE f[n] = g[n]
  <2>1. n <= n /\ SameTo(segs, segs, n)
    BY <1>2 DEF SameTo
  <2> QED
    BY <1>1, <1>2, <1>3, <2>1, SameSegments
<1> QED
  BY <1>1, <1>2, <1>3 DEF n, g

\* No segments leave the rows as they are.
LEMMA NoSegments ==
  ASSUME NEW mode, NEW r
  PROVE  RowsBehind(mode, <<>>, r) = r
<1> DEFINE g == SegmentsBy(mode, <<>>, r)
<1>1. Len(<<>>) = 0 /\ 0 \in Nat
  OBVIOUS
<1>2. SegmentChain(g, mode, <<>>, r, 0) /\ RowsBehind(mode, <<>>, r) = g[0]
  BY <1>1, ChosenSegments DEF RowsBehind
<1> HIDE DEF g
<1>3. g[0] = r
  BY <1>2 DEF SegmentChain
<1> QED
  BY <1>2, <1>3

\* One more segment goes on with the rows behind the others.
LEMMA OneMoreSegmentRows ==
  ASSUME NEW mode, NEW r, NEW S, NEW segs \in Seq(S), NEW seg \in S
  PROVE  RowsBehind(mode, Append(segs, seg), r) = SegmentBy(mode, seg, RowsBehind(mode, segs, r))
<1> DEFINE n == Len(segs)
           t == Append(segs, seg)
           f == SegmentsBy(mode, segs, r)
           g == SegmentsBy(mode, t, r)
           m == n + 1
<1>1. n \in Nat /\ Len(t) = m /\ t[m] = seg /\ \A k \in 1 .. n : t[k] = segs[k]
  BY AppendProperties, LenProperties
<1>2. m \in Nat /\ m - 1 = n /\ n <= m /\ n <= n /\ m \in 1 .. m
  BY <1>1
<1>3. SegmentChain(f, mode, segs, r, n) /\ RowsBehind(mode, segs, r) = f[n]
  BY <1>1, ChosenSegments DEF RowsBehind
<1> HIDE DEF t, m
<1>4. SegmentChain(g, mode, t, r, m) /\ RowsBehind(mode, t, r) = g[m]
  BY <1>1, <1>2, ChosenSegments DEF RowsBehind
<1> HIDE DEF f, g, n
<1>5. SameTo(segs, t, n)
  BY <1>1 DEF SameTo
<1>6. f[n] = g[n]
  BY <1>1, <1>2, <1>3, <1>4, <1>5, SameSegments
<1>7. \A k \in 1 .. m : g[k] = SegmentBy(mode, t[k], g[k - 1])
  BY <1>2, <1>4, ChainPlaces
<1> QED
  BY <1>1, <1>2, <1>3, <1>4, <1>6, <1>7 DEF t

\* The select of no stages answers the rows it reads.
LEMMA EmptyRun ==
  ASSUME NEW E, NEW r, Typed(r, E)
  PROVE  RunMerged(MergedSelect(<<>>), r) = r
<1>1. IsSequence(<<>>) /\ Len(<<>>) = 0 /\ Len(<<>>) \in Nat /\ Run(<<>>, E)
  <2>1. <<>> \in Seq({})
    BY EmptySeq
  <2>2. Run(<<>>, E)
    BY DEF Run
  <2> QED
    BY <2>1, <2>2, SequenceOfAny
<1>2. Plain(MergedSelect(<<>>), E)
  BY <1>1, RunSelect
<1>3. MergedSelect(<<>>) = Passthrough
  BY <1>1, MergeUnfolds
<1>4. RunMerged(MergedSelect(<<>>), r) = KeptRows(Passthrough, r)
  BY <1>2, <1>3, PlainMerged
<1>5. KeptRows(Passthrough, r) = Keep(r, {k \in DOMAIN r : TRUE})
  BY DEF KeptRows, Ordered, Where, Passthrough
<1>6. r = [k \in DOMAIN r |-> r[k]]
  BY DEF Typed
<1> QED
  BY <1>4, <1>5, <1>6 DEF Keep

\* What splitSegments holds where the pipeline has the rows y, with columns E: finished
\* segments and a run whose select, behind them, answers like rows.
HeldRows(acc, S, mode, r, y, E) ==
  /\ DOMAIN acc = {"segs", "cur"}
  /\ acc.segs \in Seq(Seq(S)) /\ acc.cur \in Seq(S)
  /\ Run(acc.cur, E)
  /\ Typed(RowsBehind(mode, acc.segs, r), E)
  /\ Alike(RunMerged(MergedSelect(acc.cur), RowsBehind(mode, acc.segs, r)), y)

\* Finishing the run leaves segments that answer them.
LEMMA FlushRows ==
  ASSUME NEW S, NEW mode, NEW r, NEW y, NEW E, NEW acc, HeldRows(acc, S, mode, r, y, E)
  PROVE  /\ Flush(acc) \in Seq(Seq(S))
         /\ Typed(RowsBehind(mode, Flush(acc), r), E) /\ Alike(RowsBehind(mode, Flush(acc), r), y)
<1> DEFINE A == RowsBehind(mode, acc.segs, r)
           q == MergedSelect(acc.cur)
<1>1. /\ acc.segs \in Seq(Seq(S)) /\ acc.cur \in Seq(S) /\ Run(acc.cur, E)
      /\ Typed(A, E) /\ Alike(RunMerged(q, A), y)
  BY DEF HeldRows
<1>2. IsSequence(acc.cur)
  BY <1>1, SequenceOfAny
<1>3. Plain(q, E) /\ ~IsBreak(acc.cur)
  BY <1>1, <1>2, RunSelect
<1> HIDE DEF A, q
<1>4. RunMerged(q, A) = KeptRows(q, A) /\ Typed(KeptRows(q, A), E)
  BY <1>1, <1>3, PlainMerged
<1>5. CASE acc.cur = <<>>
  <2>1. Flush(acc) = acc.segs
    BY <1>5 DEF Flush
  <2>2. RunMerged(q, A) = A
    BY <1>1, <1>5, EmptyRun DEF q
  <2> QED
    BY <1>1, <2>1, <2>2 DEF A
<1>6. CASE acc.cur # <<>>
  <2>1. Flush(acc) = Append(acc.segs, acc.cur)
    BY <1>6 DEF Flush
  <2>2. RowsBehind(mode, Append(acc.segs, acc.cur), r) = SegmentBy(mode, acc.cur, A)
    BY <1>1, OneMoreSegmentRows DEF A
  <2>3. SegmentBy(mode, acc.cur, A) = RunMerged(q, A)
    BY <1>3 DEF SegmentBy, q
  <2>4. Append(acc.segs, acc.cur) \in Seq(Seq(S))
    BY <1>1, AppendProperties
  <2> QED
    BY <1>1, <1>4, <2>1, <2>2, <2>3, <2>4
<1> QED
  BY <1>5, <1>6

\* A breakpoint's segment is faithful where it makes of like rows what its stage means.
Faithful(mode, st, E) ==
  \A x, y : Typed(x, E) /\ Typed(y, E) /\ Alike(x, y) =>
    /\ Typed(SegmentBy(mode, <<st>>, x), ColumnsAfter(st, E))
    /\ Alike(SegmentBy(mode, <<st>>, x), StageBy(mode, st, y))

\* One turn of splitSegments.
LEMMA SplittingRows ==
  ASSUME NEW S, NEW mode, NEW r, NEW y, NEW E, NEW acc, HeldRows(acc, S, mode, r, y, E), Typed(y, E),
         NEW st \in S, WellFormed(st), References(st) \subseteq E,
         IsBreakpoint(st) => Faithful(mode, st, E), Fine(Splitting(acc, st).cur)
  PROVE  HeldRows(Splitting(acc, st), S, mode, r, StageBy(mode, st, y), ColumnsAfter(st, E))
<1> DEFINE a == Splitting(acc, st)
           D == ColumnsAfter(st, E)
           z == StageBy(mode, st, y)
<1>1. CASE IsBreakpoint(st)
  <2> DEFINE seg == <<st>>
             x == RowsBehind(mode, Flush(acc), r)
  <2>1. Flush(acc) \in Seq(Seq(S)) /\ Typed(x, E) /\ Alike(x, y)
    BY FlushRows
  <2>2. a = [segs |-> Append(Flush(acc), seg), cur |-> <<>>]
    BY <1>1 DEF Splitting
  <2>3. seg \in Seq(S)
    OBVIOUS
  <2>4. Typed(SegmentBy(mode, seg, x), D) /\ Alike(SegmentBy(mode, seg, x), z)
    <3> HIDE DEF x
    <3> QED
      BY <1>1, <2>1 DEF Faithful
  <2>5. RowsBehind(mode, Append(Flush(acc), seg), r) = SegmentBy(mode, seg, x)
    <3> HIDE DEF seg
    <3> QED
      BY <2>1, <2>3, OneMoreSegmentRows
  <2> HIDE DEF seg, a, x, D, z
  <2>6. Append(Flush(acc), seg) \in Seq(Seq(S)) /\ <<>> \in Seq(S) /\ Run(<<>>, D)
    BY <2>1, <2>3, AppendProperties, EmptySeq DEF Run
  <2>7. DOMAIN a = {"segs", "cur"} /\ a.segs = Append(Flush(acc), seg) /\ a.cur = <<>>
    BY <2>2
  <2> DEFINE b == [segs |-> Append(Flush(acc), seg), cur |-> <<>>]
             B == SegmentBy(mode, seg, x)
  <2>8. Alike(RunMerged(MergedSelect(<<>>), B), z)
    <3> HIDE DEF B
    <3>1. RunMerged(MergedSelect(<<>>), B) = B
      BY <2>4, EmptyRun DEF B
    <3> QED
      BY <2>4, <3>1 DEF B
  <2>9. HeldRows(a, S, mode, r, z, D)
    BY <2>4, <2>5, <2>6, <2>7, <2>8 DEF HeldRows
  <2> QED
    BY <2>9 DEF a, D, z
<1>2. CASE ~IsBreakpoint(st)
  <2> DEFINE A == RowsBehind(mode, acc.segs, r)
             q == MergedSelect(acc.cur)
             n == Len(acc.cur)
  <2>1. a = [acc EXCEPT !.cur = Append(@, st)]
    BY <1>2 DEF Splitting
  <2>2. DOMAIN a = {"segs", "cur"} /\ a.segs = acc.segs /\ a.cur = Append(acc.cur, st)
    BY <2>1 DEF HeldRows
  <2>3. Fine(a.cur)
    OBVIOUS
  <2> HIDE DEF a
  <2>4. D = E
    BY <1>2 DEF ColumnsAfter, IsBreakpoint
  <2>5. z = ApplyPlain(st, y)
    BY <1>2 DEF StageBy, ApplyStage, IsBreakpoint
  <2> HIDE DEF D, z
  <2>6. /\ acc.cur \in Seq(S) /\ n \in Nat /\ DOMAIN acc.cur = 1 .. n
        /\ Run(acc.cur, E) /\ Typed(A, E) /\ Alike(RunMerged(q, A), y)
    BY LenProperties DEF HeldRows
  <2>7. /\ a.cur \in Seq(S) /\ DOMAIN a.cur = 1 .. n + 1
        /\ a.cur[n + 1] = st /\ \A k \in 1 .. n : a.cur[k] = acc.cur[k]
    BY <2>2, <2>6, AppendProperties, LenProperties
  <2> HIDE DEF n
  <2>8. Run(a.cur, E)
    <3>1. ASSUME NEW k \in 1 .. n + 1
          PROVE  WellFormed(a.cur[k]) /\ ~IsBreakpoint(a.cur[k]) /\ References(a.cur[k]) \subseteq E
      <4>1. CASE k = n + 1
        BY <1>2, <2>7, <4>1
      <4>2. CASE k # n + 1
        <5>1. k \in 1 .. n
          BY <2>6, <4>2
        <5> QED
          BY <2>6, <2>7, <5>1 DEF Run
      <4> QED
        BY <4>1, <4>2
    <3> QED
      BY <2>7, <3>1 DEF Run
  <2>9. MergedSelect(a.cur) = Absorb(q, st)
    BY <2>2, <2>6, OneMoreMerged
  <2>10. IsSequence(acc.cur) /\ Plain(q, E)
    BY <2>6, SequenceOfAny, RunSelect
  <2>11. \/ q.limit = 0 /\ (st.op = "Limit" => st.n = 0)
         \/ q.limit = NoLimit /\ (st.op = "Sort" => q.order = <<>>)
    <3>1. /\ (\A k \in 1 .. n : acc.cur[k].op # "Sort") => q.order = <<>>
          /\ (\A k \in 1 .. n : acc.cur[k].op # "Limit") => q.limit = NoLimit
          /\ (/\ \E k \in 1 .. n : acc.cur[k].op = "Limit"
              /\ \A k \in 1 .. n : acc.cur[k].op = "Limit" => acc.cur[k].n = 0) => q.limit = 0
      BY <2>6, <2>10, SelectClauses
    <3>2. \A k \in 1 .. n : k \in 1 .. n + 1 /\ k < n + 1 /\ k # n + 1
      BY <2>6
    <3>3. n + 1 \in 1 .. n + 1
      BY <2>6
    <3>4. CASE \A k \in 1 .. n : acc.cur[k].op # "Limit"
      <4>1. ASSUME st.op = "Sort" PROVE \A k \in 1 .. n : acc.cur[k].op # "Sort"
        BY <2>3, <2>7, <3>2, <3>3, <4>1 DEF Fine
      <4> QED
        BY <3>1, <3>4, <4>1
    <3>5. CASE \E k \in 1 .. n : acc.cur[k].op = "Limit"
      <4>1. \A k \in 1 .. n : acc.cur[k].op = "Limit" =>
              acc.cur[k].n = 0 /\ (st.op = "Limit" => st.n = 0)
        BY <2>3, <2>7, <3>2, <3>3 DEF Fine
      <4> QED
        BY <3>1, <3>5, <4>1
    <3> QED
      BY <3>4, <3>5
  <2> HIDE DEF A, q
  <2>12. RunMerged(q, A) = KeptRows(q, A) /\ Typed(KeptRows(q, A), E)
    BY <2>6, <2>10, PlainMerged
  <2>13. Alike(KeptRows(Absorb(q, st), A), ApplyPlain(st, KeptRows(q, A)))
    BY <1>2, <2>6, <2>10, <2>11, AbsorbFaithful
  <2>14. Alike(ApplyPlain(st, KeptRows(q, A)), ApplyPlain(st, y))
    <3>1. Len(st.keys) \in Nat /\ DOMAIN st.keys = 1 .. Len(st.keys)
      BY SequenceShape DEF WellFormed
    <3> QED
      BY <2>6, <2>12, <3>1, PlainAlike
  <2>15. Alike(KeptRows(Absorb(q, st), A), z)
    BY <2>5, <2>13, <2>14, AlikeTransitive
  <2>16. RunMerged(Absorb(q, st), A) = KeptRows(Absorb(q, st), A)
    <3>1. Plain(Absorb(q, st), E)
      BY <1>2, <2>10, AbsorbPlain
    <3> QED
      BY <2>6, <3>1, PlainMerged
  <2>17. Alike(RunMerged(MergedSelect(a.cur), RowsBehind(mode, a.segs, r)), z)
    BY <2>2, <2>9, <2>15, <2>16 DEF A
  <2>18. a.segs \in Seq(Seq(S)) /\ Typed(RowsBehind(mode, a.segs, r), E)
    BY <2>2, <2>6 DEF HeldRows, A
  <2>19. HeldRows(a, S, mode, r, z, E)
    BY <2>2, <2>7, <2>8, <2>17, <2>18 DEF HeldRows
  <2> QED
    BY <2>4, <2>19 DEF a, D, z
<1> QED
  BY <1>1, <1>2

-----------------------------------------------------------------------------
(* Segments and runs *)

\* No stage of a run is a breakpoint.
Unbroken(seg) == \A k \in DOMAIN seg : ~IsBreakpoint(seg[k])

\* What splitSegments holds: breakpoints alone, runs without any, and the run it is in.
Split(acc, S) ==
  /\ DOMAIN acc = {"segs", "cur"}
  /\ acc.segs \in Seq(Seq(S)) /\ acc.cur \in Seq(S) /\ Unbroken(acc.cur)
  /\ \A k \in DOMAIN acc.segs : IsBreak(acc.segs[k]) \/ Unbroken(acc.segs[k])

\* A segment more is one that was there or the new one.
LEMMA AppendedOne ==
  ASSUME NEW S, NEW s \in Seq(S), NEW x \in S
  PROVE  /\ Append(s, x) \in Seq(S) /\ Len(s) \in Nat /\ DOMAIN s = 1 .. Len(s)
         /\ DOMAIN Append(s, x) = 1 .. Len(s) + 1
         /\ Append(s, x)[Len(s) + 1] = x /\ Len(s) + 1 \in DOMAIN Append(s, x)
         /\ \A k \in DOMAIN s : k \in DOMAIN Append(s, x) /\ Append(s, x)[k] = s[k]
         /\ \A k \in DOMAIN Append(s, x) : k \in DOMAIN s \/ k = Len(s) + 1
<1> DEFINE t == Append(s, x)
           n == Len(s)
<1>1. /\ t \in Seq(S) /\ n \in Nat /\ DOMAIN s = 1 .. n /\ Len(t) = n + 1 /\ t[n + 1] = x
      /\ \A k \in 1 .. n : t[k] = s[k]
  BY AppendProperties, LenProperties
<1>2. DOMAIN t = 1 .. n + 1
  BY <1>1, LenProperties
<1> HIDE DEF t, n
<1> QED
  BY <1>1, <1>2 DEF t, n

\* Finishing the run keeps the segments so.
LEMMA FlushSplit ==
  ASSUME NEW S, NEW acc, Split(acc, S)
  PROVE  /\ Flush(acc) \in Seq(Seq(S))
         /\ \A k \in DOMAIN Flush(acc) : IsBreak(Flush(acc)[k]) \/ Unbroken(Flush(acc)[k])
<1>1. CASE acc.cur = <<>>
  BY <1>1 DEF Flush, Split
<1>2. CASE acc.cur # <<>>
  <2> DEFINE n == Len(acc.segs)
             t == Append(acc.segs, acc.cur)
  <2>1. acc.segs \in Seq(Seq(S)) /\ acc.cur \in Seq(S)
    BY DEF Split
  <2>2. /\ t \in Seq(Seq(S)) /\ t[n + 1] = acc.cur
        /\ \A k \in DOMAIN acc.segs : t[k] = acc.segs[k]
        /\ \A k \in DOMAIN t : k \in DOMAIN acc.segs \/ k = n + 1
    BY <2>1, AppendedOne
  <2>3. Flush(acc) = t
    BY <1>2 DEF Flush
  <2> HIDE DEF t, n
  <2> QED
    BY <2>2, <2>3 DEF Split
<1> QED
  BY <1>1, <1>2

\* One turn of splitSegments, whose run is one stage longer or new.
LEMMA SplittingSplit ==
  ASSUME NEW S, NEW acc, Split(acc, S), NEW st \in S
  PROVE  /\ Split(Splitting(acc, st), S)
         /\ IsBreakpoint(st) =>
              Splitting(acc, st).segs = Append(Flush(acc), <<st>>) /\ Splitting(acc, st).cur = <<>>
         /\ ~IsBreakpoint(st) =>
              Splitting(acc, st).segs = acc.segs /\ Splitting(acc, st).cur = Append(acc.cur, st)
<1> DEFINE a == Splitting(acc, st)
<1>1. CASE IsBreakpoint(st)
  <2> DEFINE t == Append(Flush(acc), <<st>>)
             n == Len(Flush(acc))
  <2>1. /\ Flush(acc) \in Seq(Seq(S)) /\ <<st>> \in Seq(S)
        /\ \A k \in DOMAIN Flush(acc) : IsBreak(Flush(acc)[k]) \/ Unbroken(Flush(acc)[k])
    BY FlushSplit
  <2>2. /\ t \in Seq(Seq(S)) /\ t[n + 1] = <<st>>
        /\ \A k \in DOMAIN Flush(acc) : t[k] = Flush(acc)[k]
        /\ \A k \in DOMAIN t : k \in DOMAIN Flush(acc) \/ k = n + 1
    BY <2>1, AppendedOne
  <2>3. a = [segs |-> t, cur |-> <<>>]
    BY <1>1 DEF Splitting
  <2>4. IsBreak(<<st>>)
    BY <1>1 DEF IsBreak
  <2> HIDE DEF t, a, n
  <2>5. DOMAIN a = {"segs", "cur"} /\ a.segs = t /\ a.cur = <<>>
    BY <2>3
  <2>6. <<>> \in Seq(S) /\ Unbroken(<<>>)
    BY EmptySeq DEF Unbroken
  <2>7. \A k \in DOMAIN t : IsBreak(t[k]) \/ Unbroken(t[k])
    BY <2>1, <2>2, <2>4
  <2>8. Split(a, S)
    BY <2>2, <2>5, <2>6, <2>7 DEF Split
  <2> QED
    BY <1>1, <2>5, <2>8 DEF a, t
<1>2. CASE ~IsBreakpoint(st)
  <2> DEFINE t == Append(acc.cur, st)
             n == Len(acc.cur)
  <2>1. a = [acc EXCEPT !.cur = Append(@, st)]
    BY <1>2 DEF Splitting
  <2>2. DOMAIN a = {"segs", "cur"} /\ a.segs = acc.segs /\ a.cur = t
    BY <2>1 DEF Split
  <2>3. acc.cur \in Seq(S)
    BY DEF Split
  <2>4. /\ t \in Seq(S) /\ t[n + 1] = st
        /\ \A k \in DOMAIN acc.cur : t[k] = acc.cur[k]
        /\ \A k \in DOMAIN t : k \in DOMAIN acc.cur \/ k = n + 1
    BY <2>3, AppendedOne
  <2> HIDE DEF t, a, n
  <2>5. Unbroken(t)
    BY <1>2, <2>4 DEF Split, Unbroken
  <2>6. Split(a, S)
    BY <2>2, <2>4, <2>5 DEF Split
  <2> QED
    BY <1>2, <2>2, <2>6 DEF a, t
<1> QED
  BY <1>1, <1>2

\* So it is all along the pipeline.
LEMMA SplitAlong ==
  ASSUME NEW ss, IsSequence(ss)
  PROVE  \A k \in 0 .. Len(ss) : Split(SplitBy(ss)[k], {ss[j] : j \in DOMAIN ss})
<1> DEFINE S == {ss[j] : j \in DOMAIN ss}
           n == Len(ss)
           f == SplitBy(ss)
           M == {k \in Nat : k <= n => Split(f[k], S)}
<1>1. n \in Nat /\ DOMAIN ss = 1 .. n /\ \A k \in 1 .. n : ss[k] \in S
  BY SequenceShape
<1>2. f[0] = [segs |-> <<>>, cur |-> <<>>] /\ \A k \in 1 .. n : f[k] = Splitting(f[k - 1], ss[k])
  BY <1>1, SplitUnfolds
<1> HIDE DEF S, f, n
<1>3. 0 \in M
  <2>1. <<>> \in Seq(S) /\ <<>> \in Seq(Seq(S)) /\ DOMAIN <<>> = {} /\ Unbroken(<<>>)
    BY EmptySeq DEF Unbroken
  <2>2. Split(f[0], S)
    BY <1>2, <2>1 DEF Split
  <2> QED
    BY <2>2
<1>4. ASSUME NEW k \in Nat, k \in M PROVE k + 1 \in M
  <2> SUFFICES ASSUME k + 1 <= n PROVE Split(f[k + 1], S)
    OBVIOUS
  <2>1. k + 1 \in 1 .. n /\ (k + 1) - 1 = k /\ Split(f[k], S) /\ ss[k + 1] \in S
    BY <1>1, <1>4
  <2>2. f[k + 1] = Splitting(f[k], ss[k + 1])
    BY <1>2, <2>1
  <2> QED
    BY <2>1, <2>2, SplittingSplit
<1>5. Nat \subseteq M
  <2> HIDE DEF M
  <2> QED
    BY <1>3, <1>4, SetInduction
<1>6. \A k \in 0 .. n : Split(f[k], S)
  BY <1>1, <1>5
<1> QED
  BY <1>6 DEF f, n, S

\* The run it is in holds the last stages there were.
Recent(cur, ss, k) ==
  /\ Len(cur) <= k
  /\ \A i \in 1 .. Len(cur) : cur[i] = ss[(k - Len(cur)) + i]

\* So the runs of a pipeline that is fine are fine.
LEMMA RunsFine ==
  ASSUME NEW ss, IsSequence(ss), Fine(ss)
  PROVE  \A k \in 0 .. Len(ss) : Fine(SplitBy(ss)[k].cur)
<1> DEFINE S == {ss[j] : j \in DOMAIN ss}
           n == Len(ss)
           f == SplitBy(ss)
           M == {k \in Nat : k <= n => Recent(f[k].cur, ss, k)}
<1>1. n \in Nat /\ DOMAIN ss = 1 .. n /\ \A k \in 1 .. n : ss[k] \in S
  BY SequenceShape
<1>2. f[0] = [segs |-> <<>>, cur |-> <<>>] /\ \A k \in 1 .. n : f[k] = Splitting(f[k - 1], ss[k])
  BY <1>1, SplitUnfolds
<1>3. \A k \in 0 .. n : Split(f[k], S)
  BY SplitAlong
<1> HIDE DEF S, f, n
<1>4. 0 \in M
  <2>1. f[0].cur = <<>> /\ Len(<<>>) = 0
    BY <1>2
  <2> QED
    BY <2>1 DEF Recent
<1>5. ASSUME NEW k \in Nat, k \in M PROVE k + 1 \in M
  <2> SUFFICES ASSUME k + 1 <= n PROVE Recent(f[k + 1].cur, ss, k + 1)
    OBVIOUS
  <2> DEFINE cur == f[k].cur
             st  == ss[k + 1]
             t   == Append(cur, st)
             m   == Len(cur)
  <2>1. k + 1 \in 1 .. n /\ (k + 1) - 1 = k /\ Recent(cur, ss, k) /\ st \in S /\ k \in 0 .. n
    BY <1>1, <1>5
  <2>2. f[k + 1] = Splitting(f[k], st)
    BY <1>2, <2>1
  <2>3. Split(f[k], S)
    BY <1>3, <2>1
  <2>4. cur \in Seq(S) /\ m \in Nat /\ m <= k /\ \A i \in 1 .. m : cur[i] = ss[(k - m) + i]
    BY <2>1, <2>3, LenProperties DEF Split, Recent
  <2>5. CASE IsBreakpoint(st)
    <3>1. f[k + 1].cur = <<>> /\ Len(<<>>) = 0
      BY <2>1, <2>2, <2>3, <2>5, SplittingSplit
    <3> QED
      BY <3>1 DEF Recent
  <2>6. CASE ~IsBreakpoint(st)
    <3>1. f[k + 1].cur = t
      BY <2>1, <2>2, <2>3, <2>6, SplittingSplit
    <3>2. Len(t) = m + 1 /\ t[m + 1] = st /\ \A i \in 1 .. m : t[i] = cur[i]
      BY <2>1, <2>4, AppendProperties
    <3> HIDE DEF t, m, cur
    <3>3. ASSUME NEW i \in 1 .. m + 1 PROVE t[i] = ss[((k + 1) - (m + 1)) + i]
      <4>1. (k + 1) - (m + 1) = k - m
        BY <2>4
      <4>2. CASE i = m + 1
        <5>1. (k - m) + i = k + 1
          BY <2>4, <4>2
        <5> QED
          BY <3>2, <4>1, <4>2, <5>1
      <4>3. CASE i # m + 1
        <5>1. i \in 1 .. m
          BY <2>4, <4>3
        <5> QED
          BY <2>4, <3>2, <4>1, <5>1
      <4> QED
        BY <4>2, <4>3
    <3> QED
      BY <2>4, <3>1, <3>2, <3>3 DEF Recent
  <2> QED
    BY <2>5, <2>6
<1>6. Nat \subseteq M
  <2> HIDE DEF M
  <2> QED
    BY <1>4, <1>5, SetInduction
<1>7. ASSUME NEW k \in 0 .. n PROVE Fine(f[k].cur)
  <2> DEFINE cur == f[k].cur
             m   == Len(cur)
  <2>1. Recent(cur, ss, k) /\ cur \in Seq(S)
    BY <1>1, <1>3, <1>6, <1>7 DEF Split
  <2>2. m \in Nat /\ DOMAIN cur = 1 .. m /\ m <= k /\ \A i \in 1 .. m : cur[i] = ss[(k - m) + i]
    BY <2>1, LenProperties DEF Recent
  <2> HIDE DEF cur, m
  <2>3. \A i \in 1 .. m : (k - m) + i \in 1 .. n
    BY <1>1, <2>2
  <2>4. ASSUME NEW i \in 1 .. m, NEW j \in 1 .. m, cur[i].op = "Sort", cur[j].op = "Sort" PROVE i = j
    <3>1. (k - m) + i = (k - m) + j
      BY <1>1, <2>2, <2>3, <2>4 DEF Fine
    <3> QED
      BY <2>2, <3>1
  <2>5. ASSUME NEW i \in 1 .. m, NEW j \in 1 .. m, i < j, cur[i].op = "Limit"
        PROVE  cur[i].n = 0 /\ (cur[j].op = "Limit" => cur[j].n = 0)
    <3>1. (k - m) + i < (k - m) + j
      BY <2>2, <2>5
    <3> QED
      BY <1>1, <2>2, <2>3, <2>5, <3>1 DEF Fine
  <2>6. Fine(cur)
    BY <2>2, <2>4, <2>5 DEF Fine
  <2> QED
    BY <2>6 DEF cur
<1> QED
  BY <1>7 DEF f, n

\* Segments that all can be merged.
AllMerge(segs) == \A k \in DOMAIN segs : IsBreak(segs[k]) \/ Mergeable(segs[k])

\* Runs that can be merged are fine, and so are runs they begin with.
LEMMA MergeableFine ==
  ASSUME NEW seg, Len(seg) \in Nat, DOMAIN seg = 1 .. Len(seg), Mergeable(seg)
  PROVE  Fine(seg)
<1>1. ASSUME NEW j \in 1 .. Len(seg), NEW k \in 1 .. Len(seg), seg[j].op = "Sort", seg[k].op = "Sort"
      PROVE  j = k
  <2>1. ~(j < k) /\ ~(k < j)
    BY <1>1 DEF Mergeable
  <2> QED
    BY <2>1
<1> QED
  BY <1>1 DEF Fine, Mergeable

\* If all segments can be merged that are there after a turn, all that were before it can.
LEMMA MergeBefore ==
  ASSUME NEW S, NEW acc, Split(acc, S), NEW st \in S, AllMerge(Flush(Splitting(acc, st)))
  PROVE  AllMerge(Flush(acc))
<1> DEFINE a == Splitting(acc, st)
<1>1. Split(a, S)
  BY SplittingSplit
<1>2. acc.segs \in Seq(Seq(S)) /\ acc.cur \in Seq(S) /\ Unbroken(acc.cur)
  BY DEF Split
<1>3. AllMerge(Flush(acc))
  <2>1. CASE IsBreakpoint(st)
    <3>1. a.segs = Append(Flush(acc), <<st>>) /\ a.cur = <<>>
      BY <2>1, SplittingSplit
    <3>2. Flush(a) = Append(Flush(acc), <<st>>)
      BY <3>1 DEF Flush
    <3>3. Flush(acc) \in Seq(Seq(S)) /\ <<st>> \in Seq(S)
      BY FlushSplit
    <3>4. \A k \in DOMAIN Flush(acc) : k \in DOMAIN Flush(a) /\ Flush(a)[k] = Flush(acc)[k]
      BY <3>2, <3>3, AppendedOne
    <3> HIDE DEF a
    <3> QED
      BY <3>4 DEF AllMerge, a
  <2>2. CASE ~IsBreakpoint(st)
    <3> DEFINE t == Append(acc.cur, st)
               n == Len(acc.cur)
    <3>1. a.segs = acc.segs /\ a.cur = t
      BY <2>2, SplittingSplit
    <3>2. /\ t \in Seq(S) /\ n \in Nat /\ DOMAIN acc.cur = 1 .. n /\ DOMAIN t = 1 .. n + 1 /\ t[n + 1] = st
          /\ \A k \in DOMAIN acc.cur : t[k] = acc.cur[k]
      BY <1>2, AppendedOne
    <3> HIDE DEF t, n
    <3>3. t # <<>>
      BY <3>2
    <3>4. Flush(a) = Append(acc.segs, t)
      BY <3>1, <3>3 DEF Flush
    <3>5. /\ \A k \in DOMAIN acc.segs : k \in DOMAIN Flush(a) /\ Flush(a)[k] = acc.segs[k]
          /\ Len(acc.segs) + 1 \in DOMAIN Flush(a) /\ Flush(a)[Len(acc.segs) + 1] = t
      BY <1>2, <3>2, <3>4, AppendedOne
    <3>6. AllMerge(Flush(a))
      OBVIOUS
    <3> HIDE DEF a
    <3>7. AllMerge(acc.segs)
      BY <3>5, <3>6 DEF AllMerge
    <3>8. Mergeable(t)
      <4>1. ~IsBreak(t)
        BY <1>1, <3>1, <3>2 DEF Split, Unbroken, IsBreak
      <4> QED
        BY <3>5, <3>6, <4>1 DEF AllMerge
    <3>9. Mergeable(acc.cur)
      BY <3>2, <3>8 DEF Mergeable
    <3>10. CASE acc.cur = <<>>
      BY <3>7, <3>10 DEF Flush
    <3>11. CASE acc.cur # <<>>
      <4> DEFINE u == Append(acc.segs, acc.cur)
                 m == Len(acc.segs)
      <4>1. /\ u[m + 1] = acc.cur
            /\ \A k \in DOMAIN acc.segs : u[k] = acc.segs[k]
            /\ \A k \in DOMAIN u : k \in DOMAIN acc.segs \/ k = m + 1
        BY <1>2, AppendedOne
      <4>2. Flush(acc) = u
        BY <3>11 DEF Flush
      <4> HIDE DEF u, m
      <4> QED
        BY <3>7, <3>9, <4>1, <4>2 DEF AllMerge
    <3> QED
      BY <3>10, <3>11
  <2> QED
    BY <2>1, <2>2
<1> QED
  BY <1>3

\* If all segments can be merged, the run that is still open is fine.
LEMMA OpenRunFine ==
  ASSUME NEW S, NEW acc, Split(acc, S), AllMerge(Flush(acc))
  PROVE  Fine(acc.cur)
<1>1. acc.segs \in Seq(Seq(S)) /\ acc.cur \in Seq(S) /\ Unbroken(acc.cur)
  BY DEF Split
<1>2. Len(acc.cur) \in Nat /\ DOMAIN acc.cur = 1 .. Len(acc.cur)
  BY <1>1, LenProperties
<1>3. CASE acc.cur = <<>>
  BY <1>3 DEF Fine
<1>4. CASE acc.cur # <<>>
  <2>1. Flush(acc) = Append(acc.segs, acc.cur)
    BY <1>4 DEF Flush
  <2>2. Len(acc.segs) + 1 \in DOMAIN Flush(acc) /\ Flush(acc)[Len(acc.segs) + 1] = acc.cur
    BY <1>1, <2>1, AppendedOne
  <2>3. ~IsBreak(acc.cur)
    BY <1>1, <1>2 DEF Unbroken, IsBreak
  <2>4. Mergeable(acc.cur)
    BY <2>2, <2>3 DEF AllMerge
  <2> QED
    BY <1>2, <2>4, MergeableFine
<1> QED
  BY <1>3, <1>4

\* If all segments of a pipeline can be merged, its runs are fine.
LEMMA MergeFreeFine ==
  ASSUME NEW ss, IsSequence(ss), AllMerge(SplitSegments(ss))
  PROVE  \A k \in 0 .. Len(ss) : Fine(SplitBy(ss)[k].cur)
<1> DEFINE S == {ss[j] : j \in DOMAIN ss}
           n == Len(ss)
           f == SplitBy(ss)
           M == {d \in Nat : d <= n => AllMerge(Flush(f[n - d]))}
<1>1. n \in Nat /\ DOMAIN ss = 1 .. n /\ \A k \in 1 .. n : ss[k] \in S
  BY SequenceShape
<1>2. SplitSegments(ss) = Flush(f[n]) /\ \A k \in 1 .. n : f[k] = Splitting(f[k - 1], ss[k])
  BY <1>1, SplitUnfolds
<1>3. \A k \in 0 .. n : Split(f[k], S)
  BY SplitAlong
<1> HIDE DEF S, f, n
<1>4. 0 \in M
  <2>1. n - 0 = n
    BY <1>1
  <2> QED
    BY <1>2, <2>1
<1>5. ASSUME NEW d \in Nat, d \in M PROVE d + 1 \in M
  <2> SUFFICES ASSUME d + 1 <= n PROVE AllMerge(Flush(f[n - (d + 1)]))
    OBVIOUS
  <2> DEFINE k == n - (d + 1)
  <2>1. n - d \in 1 .. n /\ (n - d) - 1 = k /\ k \in 0 .. n /\ AllMerge(Flush(f[n - d]))
    BY <1>1, <1>5
  <2> HIDE DEF k
  <2>2. f[n - d] = Splitting(f[k], ss[n - d]) /\ ss[n - d] \in S /\ Split(f[k], S)
    BY <1>1, <1>2, <1>3, <2>1
  <2>3. AllMerge(Flush(f[k]))
    BY <2>1, <2>2, MergeBefore
  <2> QED
    BY <2>3 DEF k
<1>6. Nat \subseteq M
  <2> HIDE DEF M
  <2> QED
    BY <1>4, <1>5, SetInduction
<1>7. ASSUME NEW k \in 0 .. n PROVE Fine(f[k].cur)
  <2>1. n - k \in Nat /\ n - k <= n /\ n - (n - k) = k
    BY <1>1
  <2>2. AllMerge(Flush(f[k]))
    BY <1>6, <2>1
  <2> QED
    BY <1>3, <2>2, OpenRunFine
<1> QED
  BY <1>7 DEF f, n

\* f[k] are the rows behind k stages that have their columns, and where a breakpoint is,
\* its segment is faithful.
StageRows(f, mode, ss, r, source) ==
  /\ f[0] = r /\ \A k \in 1 .. Len(ss) : f[k] = StageBy(mode, ss[k], f[k - 1])
  /\ \A k \in 0 .. Len(ss) : Typed(f[k], Columns(ss, source)[k + 1])
  /\ \A k \in 1 .. Len(ss) : IsBreakpoint(ss[k]) => Faithful(mode, ss[k], Columns(ss, source)[k])

\* Then the segments of a pipeline whose runs are fine answer what its stages mean.
LEMMA SplitFaithful ==
  ASSUME NEW ss, IsSequence(ss), AllWellFormed(ss), NEW source, Resolves(ss, source), NEW mode, NEW r,
         \A k \in 0 .. Len(ss) : Fine(SplitBy(ss)[k].cur),
         NEW f, StageRows(f, mode, ss, r, source)
  PROVE  LET A == RowsBehind(mode, SplitSegments(ss), r)
         IN  Typed(A, Behind(ss, source)) /\ Alike(A, f[Len(ss)])
<1> DEFINE S == {ss[j] : j \in DOMAIN ss}
           n == Len(ss)
           g == SplitBy(ss)
           c == Columns(ss, source)
           M == {k \in Nat : k <= n => HeldRows(g[k], S, mode, r, f[k], c[k + 1])}
<1>1. /\ n \in Nat /\ DOMAIN ss = 1 .. n /\ \A k \in 1 .. n : ss[k] \in S /\ WellFormed(ss[k])
      /\ \A k \in 1 .. n : References(ss[k]) \subseteq c[k]
  BY SequenceShape DEF AllWellFormed, Resolves
<1>2. /\ SplitSegments(ss) = Flush(g[n])
      /\ g[0] = [segs |-> <<>>, cur |-> <<>>] /\ \A k \in 1 .. n : g[k] = Splitting(g[k - 1], ss[k])
  BY <1>1, SplitUnfolds
<1>3. c[1] = source /\ \A k \in 2 .. n + 1 : c[k] = ColumnsAfter(ss[k - 1], c[k - 1])
  <2>1. Len(ss) \in Nat
    BY <1>1
  <2>2. c[1] = source
    BY <2>1, ColumnsUnfold
  <2>3. \A k \in 2 .. n + 1 : c[k] = ColumnsAfter(ss[k - 1], c[k - 1])
    BY <2>1, ColumnsUnfold
  <2> QED
    BY <2>2, <2>3
<1>4. /\ f[0] = r /\ \A k \in 1 .. n : f[k] = StageBy(mode, ss[k], f[k - 1])
      /\ \A k \in 0 .. n : Typed(f[k], c[k + 1])
      /\ \A k \in 1 .. n : IsBreakpoint(ss[k]) => Faithful(mode, ss[k], c[k])
  BY DEF StageRows
<1>5. \A k \in 0 .. n : Fine(g[k].cur)
  OBVIOUS
<1>6. Behind(ss, source) = c[n + 1]
  BY DEF Behind
<1> HIDE DEF S, n, g, c
<1>7. 0 \in M
  <2>1. DOMAIN g[0] = {"segs", "cur"} /\ g[0].segs = <<>> /\ g[0].cur = <<>>
    BY <1>2
  <2>2. <<>> \in Seq(Seq(S)) /\ <<>> \in Seq(S) /\ Run(<<>>, source)
    BY EmptySeq DEF Run
  <2>3. Typed(r, source)
    <3>1. 0 \in 0 .. n /\ 0 + 1 = 1
      BY <1>1
    <3> QED
      BY <1>3, <1>4, <3>1
  <2>4. RowsBehind(mode, <<>>, r) = r
    BY NoSegments
  <2>5. RunMerged(MergedSelect(<<>>), r) = r
    BY <2>3, EmptyRun
  <2>6. HeldRows(g[0], S, mode, r, f[0], source)
    BY <1>4, <2>1, <2>2, <2>3, <2>4, <2>5, AlikeItself DEF HeldRows
  <2>7. 0 + 1 = 1
    OBVIOUS
  <2> QED
    BY <1>3, <2>6, <2>7
<1>8. ASSUME NEW k \in Nat, k \in M PROVE k + 1 \in M
  <2> SUFFICES ASSUME k + 1 <= n PROVE HeldRows(g[k + 1], S, mode, r, f[k + 1], c[(k + 1) + 1])
    OBVIOUS
  <2> DEFINE st == ss[k + 1]
             E  == c[k + 1]
  <2>1. /\ k + 1 \in 1 .. n /\ (k + 1) - 1 = k /\ k \in 0 .. n /\ k + 1 \in 0 .. n
        /\ k + 2 \in 2 .. n + 1 /\ (k + 2) - 1 = k + 1 /\ (k + 1) + 1 = k + 2
    BY <1>1
  <2>2. HeldRows(g[k], S, mode, r, f[k], E)
    BY <1>8, <2>1
  <2>3. g[k + 1] = Splitting(g[k], st) /\ f[k + 1] = StageBy(mode, st, f[k])
    BY <1>2, <1>4, <2>1
  <2>4. c[(k + 1) + 1] = ColumnsAfter(st, E)
    BY <1>3, <2>1
  <2>5. /\ st \in S /\ WellFormed(st) /\ References(st) \subseteq E /\ Typed(f[k], E)
        /\ (IsBreakpoint(st) => Faithful(mode, st, E))
    BY <1>1, <1>4, <2>1
  <2>6. Fine(Splitting(g[k], st).cur)
    BY <1>5, <2>1, <2>3
  <2> HIDE DEF st, E
  <2>7. HeldRows(Splitting(g[k], st), S, mode, r, StageBy(mode, st, f[k]), ColumnsAfter(st, E))
    BY <2>2, <2>5, <2>6, SplittingRows
  <2> QED
    BY <2>3, <2>4, <2>7
<1>9. Nat \subseteq M
  <2> HIDE DEF M
  <2> QED
    BY <1>7, <1>8, SetInduction
<1>10. HeldRows(g[n], S, mode, r, f[n], c[n + 1])
  BY <1>1, <1>9
<1>11. /\ Typed(RowsBehind(mode, Flush(g[n]), r), c[n + 1])
       /\ Alike(RowsBehind(mode, Flush(g[n]), r), f[n])
  BY <1>10, FlushRows
<1> QED
  BY <1>2, <1>6, <1>11 DEF n

-----------------------------------------------------------------------------
(* The statement *)

\* The chains the statements of an input, of sqlite's and of DuckDB's emitter make.
InputChain(f, segs, r, n) ==
  f = [k \in 0 .. n |->
         IF k = 0 THEN r
         ELSE IF IsBreak(segs[k]) THEN ApplyPlain(segs[k][1], f[k - 1])
         ELSE RunMerged(MergedSelect(segs[k]), f[k - 1])]
StatementChain(f, segs, r, n) ==
  f = [k \in 0 .. n |-> IF k = 0 THEN r ELSE RunSegment(segs[k], f[k - 1], Tables)]
DuckChain(f, segs, r, n) ==
  f = [k \in 0 .. n |-> IF k = 0 THEN r ELSE DuckSegment(segs[k], f[k - 1], Tables)]

\* The statement of an input answers what its segments make of its rows.
LEMMA InputStatement ==
  ASSUME NEW ss, NEW r
  PROVE  RunPlain(ss, r) = RowsBehind("input", SplitSegments(ss), r)
<1> DEFINE segs == SplitSegments(ss)
           n == Len(segs)
<1>1. RunPlain(ss, r) = (CHOOSE f : InputChain(f, segs, r, n))[n]
  BY DEF RunPlain, InputChain
<1> HIDE DEF n, segs
<1>2. ASSUME NEW seg, NEW x
      PROVE  SegmentBy("input", seg, x) = IF IsBreak(seg) THEN ApplyPlain(seg[1], x) ELSE RunMerged(MergedSelect(seg), x)
  BY DEF SegmentBy
<1>3. ASSUME NEW f PROVE InputChain(f, segs, r, n) <=> SegmentChain(f, "input", segs, r, n)
  BY <1>2 DEF InputChain, SegmentChain
<1>4. (CHOOSE f : InputChain(f, segs, r, n)) = (CHOOSE f : SegmentChain(f, "input", segs, r, n))
  BY <1>3
<1> QED
  BY <1>1, <1>4 DEF RowsBehind, SegmentsBy, n, segs

\* The statement of sqlite's emitter answers what its segments make of the source.
LEMMA SqliteStatement ==
  ASSUME NEW ss, NEW r
  PROVE  Answer(ss, r, Tables) = InOrder(RowsBehind("sqlite", SplitSegments(ss), r))
<1> DEFINE segs == SplitSegments(ss)
           n == Len(segs)
<1>1. Answer(ss, r, Tables) = InOrder((CHOOSE f : StatementChain(f, segs, r, n))[n])
  BY DEF Answer, StatementChain
<1> HIDE DEF n, segs
<1>2. ASSUME NEW seg, NEW x
      PROVE  SegmentBy("sqlite", seg, x) = RunSegment(seg, x, Tables)
  BY DEF SegmentBy, RunSegment
<1>3. ASSUME NEW f PROVE StatementChain(f, segs, r, n) <=> SegmentChain(f, "sqlite", segs, r, n)
  BY <1>2 DEF StatementChain, SegmentChain
<1>4. (CHOOSE f : StatementChain(f, segs, r, n)) = (CHOOSE f : SegmentChain(f, "sqlite", segs, r, n))
  BY <1>3
<1> QED
  BY <1>1, <1>4 DEF RowsBehind, SegmentsBy, n, segs

\* f[k] is DuckDB's select of the first k stages of a run.
DuckMergeChain(f, seg, n) ==
  f = [k \in 0 .. n |-> IF k = 0 THEN Passthrough ELSE DuckAbsorb(f[k - 1], seg[k])]

\* Both emitters make the same select of a run.
LEMMA SameSelect ==
  ASSUME NEW seg, Len(seg) \in Nat, DOMAIN seg = 1 .. Len(seg), Unbroken(seg)
  PROVE  DuckSelect(seg) = MergedSelect(seg)
<1> DEFINE n == Len(seg)
<1>1. DuckSelect(seg) = (CHOOSE f : DuckMergeChain(f, seg, n))[n]
  BY DEF DuckSelect, DuckMergeChain
<1>2. MergedSelect(seg) = (CHOOSE f : MergeChain(f, seg, n))[n]
  BY DEF MergedSelect, MergeChain
<1>3. \A k \in 1 .. n : \A q : DuckAbsorb(q, seg[k]) = Absorb(q, seg[k])
  BY DEF DuckAbsorb, Absorb, Unbroken, IsBreakpoint
<1>4. n \in Nat
  OBVIOUS
<1> HIDE DEF n
<1>5. ASSUME NEW f PROVE DuckMergeChain(f, seg, n) <=> MergeChain(f, seg, n)
  <2>1. ASSUME NEW k \in 0 .. n
        PROVE  (IF k = 0 THEN Passthrough ELSE DuckAbsorb(f[k - 1], seg[k]))
               = (IF k = 0 THEN Passthrough ELSE Absorb(f[k - 1], seg[k]))
    BY <1>3, <1>4
  <2> QED
    BY <2>1 DEF DuckMergeChain, MergeChain
<1>6. (CHOOSE f : DuckMergeChain(f, seg, n)) = (CHOOSE f : MergeChain(f, seg, n))
  BY <1>5
<1> QED
  BY <1>1, <1>2, <1>6

\* So DuckDB's emitter makes of a segment what the model of both says.
LEMMA DuckSegmentBy ==
  ASSUME NEW seg, Len(seg) \in Nat, DOMAIN seg = 1 .. Len(seg), IsBreak(seg) \/ Unbroken(seg), NEW x
  PROVE  SegmentBy("duckdb", seg, x) = DuckSegment(seg, x, Tables)
<1>1. CASE IsBreak(seg)
  BY <1>1 DEF SegmentBy, DuckSegment, ApplyStage
<1>2. CASE ~IsBreak(seg)
  <2>1. DuckSelect(seg) = MergedSelect(seg)
    BY <1>2, SameSelect
  <2> QED
    BY <1>2, <2>1 DEF SegmentBy, DuckSegment
<1> QED
  BY <1>1, <1>2

\* The statement of DuckDB's emitter answers what its segments make of the source.
LEMMA DuckStatement ==
  ASSUME NEW ss, IsSequence(ss), NEW r
  PROVE  DuckAnswer(ss, r, Tables) = InOrder(RowsBehind("duckdb", SplitSegments(ss), r))
<1> DEFINE segs == SplitSegments(ss)
           n == Len(segs)
           S == {ss[j] : j \in DOMAIN ss}
<1>1. DuckAnswer(ss, r, Tables) = InOrder((CHOOSE f : DuckChain(f, segs, r, n))[n])
  BY DEF DuckAnswer, DuckChain
<1>2. /\ segs \in Seq(Seq(S)) /\ n \in Nat /\ DOMAIN segs = 1 .. n
      /\ \A k \in 1 .. n : IsBreak(segs[k]) \/ Unbroken(segs[k])
  <2>1. Len(ss) \in Nat
    BY SequenceShape
  <2> DEFINE acc == SplitBy(ss)[Len(ss)]
  <2>2. Len(ss) \in 0 .. Len(ss)
    BY <2>1
  <2>3. Split(acc, S)
    BY <2>2, SplitAlong
  <2>4. segs = Flush(acc)
    BY <2>1, SplitUnfolds
  <2> HIDE DEF acc, S, segs
  <2>5. segs \in Seq(Seq(S)) /\ \A k \in DOMAIN segs : IsBreak(segs[k]) \/ Unbroken(segs[k])
    BY <2>3, <2>4, FlushSplit
  <2> QED
    BY <2>5, LenProperties
<1> HIDE DEF n, segs, S
<1>3. ASSUME NEW k \in 1 .. n, NEW x
      PROVE  SegmentBy("duckdb", segs[k], x) = DuckSegment(segs[k], x, Tables)
  <2>1. segs[k] \in Seq(S) /\ (IsBreak(segs[k]) \/ Unbroken(segs[k]))
    BY <1>2
  <2>2. Len(segs[k]) \in Nat /\ DOMAIN segs[k] = 1 .. Len(segs[k])
    BY <2>1, LenProperties
  <2> QED
    BY <2>1, <2>2, DuckSegmentBy
<1>4. ASSUME NEW f PROVE DuckChain(f, segs, r, n) <=> SegmentChain(f, "duckdb", segs, r, n)
  <2>1. ASSUME NEW k \in 0 .. n
        PROVE  (IF k = 0 THEN r ELSE DuckSegment(segs[k], f[k - 1], Tables))
               = (IF k = 0 THEN r ELSE SegmentBy("duckdb", segs[k], f[k - 1]))
    BY <1>2, <1>3
  <2> QED
    BY <2>1 DEF DuckChain, SegmentChain
<1>5. (CHOOSE f : DuckChain(f, segs, r, n)) = (CHOOSE f : SegmentChain(f, "duckdb", segs, r, n))
  BY <1>4
<1> QED
  BY <1>1, <1>5 DEF RowsBehind, SegmentsBy, n, segs

\* The statement of an input whose segments can be merged answers its rows in order.
LEMMA InputFaithful ==
  ASSUME Computes, NEW C, NEW input, InputFits(input, C), AllMerge(SplitSegments(input.stages))
  PROVE  InOrder(RunPlain(input.stages, Tables[input.table])) = InOrder(InputRows(input))
<1> DEFINE t == Tables[input.table]
           cols == TableColumn[input.table]
           ss == input.stages
           f == PlainBy(ss, t)
           A == RowsBehind("input", SplitSegments(ss), t)
<1>1. t \in Seq([cols -> Int])
  BY RowsAssumption DEF InputFits
<1>2. Typed(t, cols)
  BY <1>1, SequenceTyped
<1>3. IsSequence(ss) /\ AllWellFormed(ss) /\ Resolves(ss, cols) /\ Behind(ss, cols) = C
  BY DEF InputFits, AllWellFormed, Behind
<1>4. AllMerge(SplitSegments(ss)) /\ InputRows(input) = PlainRows(ss, t)
  BY DEF InputRows
<1> HIDE DEF t, cols, ss
<1>5. Len(ss) \in Nat /\ DOMAIN ss = 1 .. Len(ss)
  BY <1>3, SequenceShape
<1>6. PlainRows(ss, t) = f[Len(ss)] /\ f[0] = t /\ \A k \in 1 .. Len(ss) : f[k] = ApplyPlain(ss[k], f[k - 1])
  BY <1>5, PlainUnfolds
<1>7. \A k \in 0 .. Len(ss) : Typed(f[k], Columns(ss, cols)[k + 1])
  BY <1>2, <1>3, PlainRowsTyped
<1>8. \A k \in 0 .. Len(ss) : Fine(SplitBy(ss)[k].cur)
  BY <1>3, <1>4, MergeFreeFine
<1> HIDE DEF f
<1>9. ASSUME NEW k \in 1 .. Len(ss), IsBreakpoint(ss[k]) PROVE Faithful("input", ss[k], Columns(ss, cols)[k])
  <2> DEFINE st == ss[k]
             E == Columns(ss, cols)[k]
  <2>1. /\ References(st) \subseteq E /\ IsBreakpoint(st)
        /\ Len(st.keys) \in Nat /\ DOMAIN st.keys = 1 .. Len(st.keys)
    BY <1>3, <1>5, <1>9, SequenceShape DEF AllWellFormed, Resolves, WellFormed
  <2> HIDE DEF st, E
  <2>2. \A x : SegmentBy("input", <<st>>, x) = ApplyPlain(st, x) /\ StageBy("input", st, x) = ApplyPlain(st, x)
    BY <2>1 DEF SegmentBy, StageBy, IsBreak
  <2>3. ASSUME NEW x, NEW y, Typed(x, E), Typed(y, E), Alike(x, y)
        PROVE  Typed(ApplyPlain(st, x), ColumnsAfter(st, E)) /\ Alike(ApplyPlain(st, x), ApplyPlain(st, y))
    BY <2>1, <2>3, PlainTyped, PlainAlike
  <2> QED
    BY <2>2, <2>3 DEF Faithful, st, E
<1>10. \A k \in 1 .. Len(ss) : f[k] = StageBy("input", ss[k], f[k - 1])
  BY <1>6 DEF StageBy
<1>11. StageRows(f, "input", ss, t, cols)
  BY <1>6, <1>7, <1>9, <1>10 DEF StageRows
<1>12. Typed(A, C) /\ Alike(A, f[Len(ss)])
  BY <1>3, <1>8, <1>11, SplitFaithful
<1>13. Typed(f[Len(ss)], C)
  BY <1>3, <1>5, <1>7 DEF Behind
<1>14. RunPlain(ss, t) = A
  BY InputStatement
<1> HIDE DEF A
<1>15. InOrder(A) = InOrder(f[Len(ss)])
  BY <1>12, <1>13, InOrderAlike
<1> QED
  BY <1>4, <1>6, <1>14, <1>15 DEF t, ss

\* f[k] are the rows with the answers of k inputs behind them.
AnswersChain(f, inputs, r, n) ==
  f = [k \in 0 .. n |->
         IF k = 0 THEN r ELSE Concat(f[k - 1], RunPlain(inputs[k].stages, Tables[inputs[k].table]))]

\* A union whose inputs' statements answer their rows answers its rows.
LEMMA UnionStatement ==
  ASSUME NEW inputs, NEW r, IsSequence(inputs),
         \A k \in DOMAIN inputs :
           InOrder(RunPlain(inputs[k].stages, Tables[inputs[k].table])) = InOrder(InputRows(inputs[k]))
  PROVE  RunUnion(inputs, r, Tables) = UnionRows(inputs, r, Tables)
<1> DEFINE n == Len(inputs)
<1>1. n \in Nat /\ DOMAIN inputs = 1 .. n
  BY SequenceShape
<1>2. RunUnion(inputs, r, Tables) = IF inputs = <<>> THEN r ELSE DistinctRows((CHOOSE f : AnswersChain(f, inputs, r, n))[n], {})
  BY DEF RunUnion, AnswersChain
<1>3. UnionRows(inputs, r, Tables) = IF inputs = <<>> THEN r ELSE DistinctRows((CHOOSE f : UnionChain(f, inputs, r, n))[n], {})
  BY DEF UnionRows, UnionChain, InputRows
<1> HIDE DEF n
<1>4. ASSUME NEW k \in 1 .. n, NEW x
      PROVE  Concat(x, RunPlain(inputs[k].stages, Tables[inputs[k].table])) = Concat(x, InputRows(inputs[k]))
  BY <1>1 DEF Concat
<1>5. ASSUME NEW f PROVE AnswersChain(f, inputs, r, n) <=> UnionChain(f, inputs, r, n)
  <2>1. ASSUME NEW k \in 0 .. n
        PROVE  (IF k = 0 THEN r ELSE Concat(f[k - 1], RunPlain(inputs[k].stages, Tables[inputs[k].table])))
               = (IF k = 0 THEN r ELSE Concat(f[k - 1], InputRows(inputs[k])))
    BY <1>1, <1>4
  <2> QED
    BY <2>1 DEF AnswersChain, UnionChain
<1>6. (CHOOSE f : AnswersChain(f, inputs, r, n)) = (CHOOSE f : UnionChain(f, inputs, r, n))
  BY <1>5
<1> QED
  BY <1>2, <1>3, <1>6

\* A union does not tell like rows apart.
LEMMA UnionAlike ==
  ASSUME NEW C, NEW q, Typed(q, C), NEW r, Typed(r, C), Alike(q, r), NEW inputs, IsSequence(inputs)
  PROVE  Alike(UnionRows(inputs, q, Tables), UnionRows(inputs, r, Tables))
<1> DEFINE n == Len(inputs)
           f == UnionBy(inputs, q)
           g == UnionBy(inputs, r)
           M == {k \in Nat : k + 1 <= n => f[k + 1] = g[k + 1]}
<1>1. n \in Nat /\ DOMAIN inputs = 1 .. n
  BY SequenceShape
<1>2. /\ UnionRows(inputs, q, Tables) = IF inputs = <<>> THEN q ELSE DistinctRows(f[n], {})
      /\ f[0] = q /\ \A k \in 1 .. n : f[k] = Concat(f[k - 1], InputRows(inputs[k]))
  BY <1>1, UnionUnfolds
<1>3. /\ UnionRows(inputs, r, Tables) = IF inputs = <<>> THEN r ELSE DistinctRows(g[n], {})
      /\ g[0] = r /\ \A k \in 1 .. n : g[k] = Concat(g[k - 1], InputRows(inputs[k]))
  BY <1>1, UnionUnfolds
<1> HIDE DEF f, g, n
<1>4. CASE inputs = <<>>
  BY <1>2, <1>3, <1>4
<1>5. CASE inputs # <<>>
  <2>1. n # 0
    BY <1>1, <1>5 DEF n
  <2>2. 0 \in M
    <3>1. 1 \in 1 .. n /\ 1 - 1 = 0 /\ 0 + 1 = 1
      BY <1>1, <2>1
    <3>2. f[1] = Concat(q, InputRows(inputs[1])) /\ g[1] = Concat(r, InputRows(inputs[1]))
      BY <1>2, <1>3, <3>1
    <3>3. InOrder(q) = InOrder(r)
      BY InOrderAlike
    <3>4. f[1] = g[1]
      BY <3>2, <3>3 DEF Concat
    <3> QED
      BY <3>1, <3>4
  <2>3. ASSUME NEW k \in Nat, k \in M PROVE k + 1 \in M
    <3> SUFFICES ASSUME (k + 1) + 1 <= n PROVE f[(k + 1) + 1] = g[(k + 1) + 1]
      OBVIOUS
    <3>1. (k + 1) + 1 \in 1 .. n /\ ((k + 1) + 1) - 1 = k + 1 /\ f[k + 1] = g[k + 1]
      BY <1>1, <2>3
    <3>2. f[(k + 1) + 1] = Concat(f[k + 1], InputRows(inputs[(k + 1) + 1]))
      BY <1>2, <3>1
    <3>3. g[(k + 1) + 1] = Concat(g[k + 1], InputRows(inputs[(k + 1) + 1]))
      BY <1>3, <3>1
    <3> QED
      BY <3>1, <3>2, <3>3
  <2>4. Nat \subseteq M
    <3> HIDE DEF M
    <3> QED
      BY <2>2, <2>3, SetInduction
  <2>5. f[n] = g[n]
    <3>1. n - 1 \in Nat /\ (n - 1) + 1 = n
      BY <1>1, <2>1
    <3>2. n - 1 \in M
      BY <2>4, <3>1
    <3> QED
      BY <1>1, <3>1, <3>2
  <2> QED
    BY <1>2, <1>3, <1>5, <2>5, AlikeItself
<1> QED
  BY <1>4, <1>5

\* The inputs of a stage can be merged.
InputsMerge(st) == \A i \in DOMAIN st.inputs : AllMerge(SplitSegments(st.inputs[i].stages))

\* So the segment of any breakpoint is faithful.
LEMMA BreakpointFaithful ==
  ASSUME Computes, NEW E, NEW st, WellFormed(st), IsBreakpoint(st), References(st) \subseteq E, UnionFits(st, E),
         NEW mode \in Dialects, mode = "sqlite" /\ st.op = "Union" => InputsMerge(st)
  PROVE  Faithful(mode, st, E)
<1>1. mode \in {"sqlite", "duckdb"}
  BY DEF Dialects
<1>2. IsBreak(<<st>>) /\ <<st>>[1] = st
  BY DEF IsBreak
<1>3. \A x : StageBy(mode, st, x) = ApplyStage(st, x, Tables)
  BY <1>1 DEF StageBy
<1>4. \A x : SegmentBy(mode, <<st>>, x) = ApplyStage(st, x, Tables)
  <2> TAKE x
  <2>1. CASE st.op # "Union"
    BY <1>1, <1>2, <2>1 DEF SegmentBy, ApplyStage
  <2>2. CASE st.op = "Union" /\ mode = "duckdb"
    BY <1>2, <2>2 DEF SegmentBy, ApplyStage
  <2>3. CASE st.op = "Union" /\ mode = "sqlite"
    <3>1. SegmentBy(mode, <<st>>, x) = RunUnion(st.inputs, x, Tables)
      BY <1>2, <2>3 DEF SegmentBy
    <3>2. IsSequence(st.inputs) /\ \A k \in DOMAIN st.inputs : InputFits(st.inputs[k], E)
      BY <2>3 DEF UnionFits
    <3>3. \A k \in DOMAIN st.inputs : AllMerge(SplitSegments(st.inputs[k].stages))
      BY <2>3 DEF InputsMerge
    <3>4. \A k \in DOMAIN st.inputs :
            InOrder(RunPlain(st.inputs[k].stages, Tables[st.inputs[k].table])) = InOrder(InputRows(st.inputs[k]))
      BY <3>2, <3>3, InputFaithful
    <3>5. RunUnion(st.inputs, x, Tables) = UnionRows(st.inputs, x, Tables)
      BY <3>2, <3>4, UnionStatement
    <3> QED
      BY <2>3, <3>1, <3>5 DEF ApplyStage
  <2> QED
    BY <1>1, <2>1, <2>2, <2>3
<1>5. ASSUME NEW x, NEW y, Typed(x, E), Typed(y, E), Alike(x, y)
      PROVE  /\ Typed(ApplyStage(st, x, Tables), ColumnsAfter(st, E))
             /\ Alike(ApplyStage(st, x, Tables), ApplyStage(st, y, Tables))
  <2>1. Typed(ApplyStage(st, x, Tables), ColumnsAfter(st, E))
    BY <1>5, StageTyped
  <2>2. CASE st.op = "Union"
    <3>1. Alike(UnionRows(st.inputs, x, Tables), UnionRows(st.inputs, y, Tables))
      BY <1>5, <2>2, UnionAlike DEF UnionFits
    <3> QED
      BY <2>1, <2>2, <3>1 DEF ApplyStage
  <2>3. CASE st.op # "Union"
    <3>1. Len(st.keys) \in Nat /\ DOMAIN st.keys = 1 .. Len(st.keys)
      BY SequenceShape DEF WellFormed
    <3>2. Alike(ApplyPlain(st, x), ApplyPlain(st, y))
      BY <1>5, <3>1, PlainAlike
    <3> QED
      BY <2>1, <2>3, <3>2 DEF ApplyStage
  <2> QED
    BY <2>2, <2>3
<1> QED
  BY <1>3, <1>4, <1>5 DEF Faithful

\* What a backend answers.
AnswerOf(mode, ss, r) == IF mode = "duckdb" THEN DuckAnswer(ss, r, Tables) ELSE Answer(ss, r, Tables)

\* So the statement of a legal pipeline whose runs are fine answers what it means.
LEMMA StatementFaithful ==
  ASSUME Computes, NEW ss, Legal(ss), \A k \in 0 .. Len(ss) : Fine(SplitBy(ss)[k].cur),
         NEW mode \in Dialects,
         mode = "sqlite" => \A k \in DOMAIN ss : ss[k].op = "Union" => InputsMerge(ss[k]),
         NEW r \in Sources
  PROVE  AnswerOf(mode, ss, r) = Meaning(ss, r, Tables)
<1> DEFINE f == AppliedBy(ss, r)
           n == Len(ss)
           c == Columns(ss, SourceColumn)
           A == RowsBehind(mode, SplitSegments(ss), r)
<1>1. /\ IsSequence(ss) /\ AllWellFormed(ss) /\ Resolves(ss, SourceColumn)
      /\ \A k \in DOMAIN ss : UnionFits(ss[k], c[k])
  BY LegalFits
<1>2. n \in Nat /\ DOMAIN ss = 1 .. n
  BY <1>1, SequenceShape
<1>3. /\ Applied(ss, r, Tables) = f[n]
      /\ f[0] = r /\ \A k \in 1 .. n : f[k] = ApplyStage(ss[k], f[k - 1], Tables)
  BY <1>2, AppliedUnfolds
<1>4. \A k \in 0 .. n : Typed(f[k], c[k + 1])
  BY AppliedTyped
<1> HIDE DEF f
<1>5. \A k \in 1 .. n : f[k] = StageBy(mode, ss[k], f[k - 1])
  BY <1>3 DEF StageBy, Dialects
<1>6. ASSUME NEW k \in 1 .. n, IsBreakpoint(ss[k]) PROVE Faithful(mode, ss[k], c[k])
  <2>1. WellFormed(ss[k]) /\ References(ss[k]) \subseteq c[k] /\ UnionFits(ss[k], c[k])
    BY <1>1, <1>2 DEF AllWellFormed, Resolves
  <2>2. mode = "sqlite" /\ ss[k].op = "Union" => InputsMerge(ss[k])
    BY <1>2
  <2> HIDE DEF c
  <2> QED
    BY <1>6, <2>1, <2>2, BreakpointFaithful
<1>7. StageRows(f, mode, ss, r, SourceColumn)
  BY <1>3, <1>4, <1>5, <1>6 DEF StageRows
<1>8. Typed(A, Behind(ss, SourceColumn)) /\ Alike(A, f[n])
  BY <1>1, <1>7, SplitFaithful
<1>9. Typed(f[n], Behind(ss, SourceColumn))
  BY <1>2, <1>4 DEF Behind
<1>10. AnswerOf(mode, ss, r) = InOrder(A)
  BY <1>1, SqliteStatement, DuckStatement DEF AnswerOf, Dialects
<1> HIDE DEF A
<1>11. InOrder(A) = InOrder(f[n])
  BY <1>8, <1>9, InOrderAlike
<1> QED
  BY <1>3, <1>10, <1>11 DEF Meaning

-----------------------------------------------------------------------------
(* Pipelines whose runs stay fine *)

\* It sorts once, and its limits either keep no row or are one at the end, with no
\* contradiction that could become another.
SortsOnce(ss)    == \A j, k \in DOMAIN ss : ss[j].op = "Sort" /\ ss[k].op = "Sort" => j = k
LimitsEmpty(ss)  == \A k \in DOMAIN ss : ss[k].op = "Limit" => ss[k].n = 0
LimitAtEnd(ss) ==
  /\ \A k \in 1 .. Len(ss) - 1 : ss[k].op # "Limit"
  /\ \A k \in DOMAIN ss : ~Contradiction(ss[k])
Shape(ss) == SortsOnce(ss) /\ (LimitsEmpty(ss) \/ LimitAtEnd(ss))
UnionsFree(ss) == \A k \in DOMAIN ss : ss[k].op = "Union" => InputsMerge(ss[k])

\* A pipeline whose limit comes last has that shape.
LEMMA LimitLastShape ==
  ASSUME NEW ss, LimitLast(ss)
  PROVE  Shape(ss)
<1>1. CASE Has(ss, "Limit")
  BY <1>1 DEF LimitLast, Shape, SortsOnce, LimitAtEnd
<1>2. CASE ~Has(ss, "Limit")
  BY <1>2 DEF LimitLast, Shape, SortsOnce, LimitsEmpty, Has
<1> QED
  BY <1>1, <1>2

\* What the inputs of a union must be, stage by stage.
LEMMA InputsMergeFreeUnions ==
  ASSUME NEW ss, InputsMergeFree(ss)
  PROVE  UnionsFree(ss)
<1> SUFFICES ASSUME NEW k \in DOMAIN ss, ss[k].op = "Union", NEW i \in DOMAIN ss[k].inputs
             PROVE  AllMerge(SplitSegments(ss[k].inputs[i].stages))
  BY DEF UnionsFree, InputsMerge
<1>1. MergeFree(<<ss[k]>>)
  BY DEF InputsMergeFree
<1>2. 1 \in DOMAIN <<ss[k]>> /\ <<ss[k]>>[1] = ss[k]
  OBVIOUS
<1> QED
  BY <1>1, <1>2 DEF MergeFree, AllMerge

\* A pipeline of that shape is fine.
LEMMA ShapeFine ==
  ASSUME NEW ss, IsSequence(ss), Shape(ss)
  PROVE  Fine(ss)
<1>1. Len(ss) \in Nat /\ DOMAIN ss = 1 .. Len(ss)
  BY SequenceShape
<1>2. \A j, k \in DOMAIN ss : j < k => j \in 1 .. Len(ss) - 1
  BY <1>1
<1> QED
  BY <1>2 DEF Shape, SortsOnce, LimitsEmpty, LimitAtEnd, Fine

\* A turn of the walk leaves sorts and limits where they are.
LEMMA TurnShape ==
  ASSUME NEW S, NEW ss \in Seq(S), NEW i \in 1 .. Len(ss), Shape(ss)
  PROVE  Shape(Pushed(ss, i))
<1>1. CASE ~Pushable(ss, i)
  BY <1>1 DEF Pushed
<1>2. CASE Pushable(ss, i)
  <2> DEFINE t == Swapped(ss, i)
             n == Len(ss)
  <2>1. n \in Nat /\ DOMAIN ss = 1 .. n
    BY LenProperties
  <2>2. i \in 2 .. n /\ ss[i].op = "Filter" /\ ss[i - 1].op \in {"Extend", "Project"}
    BY <1>2, <2>1 DEF Pushable, IsFilter, CanPushPast
  <2>3. /\ t \in Seq(S) /\ Len(t) = n /\ t[i - 1] = ss[i] /\ t[i] = ss[i - 1]
        /\ \A k \in 1 .. n : k # i /\ k # i - 1 => t[k] = ss[k]
    BY <2>2, SwapsTwo
  <2> HIDE DEF t, n
  <2>4. DOMAIN t = 1 .. n
    BY <2>3, LenProperties
  <2>5. \A k \in 1 .. n : t[k].op \in {"Sort", "Limit"} => t[k] = ss[k]
    BY <2>2, <2>3
  <2>6. \A k \in 1 .. n : \E j \in 1 .. n : t[k] = ss[j]
    BY <2>1, <2>2, <2>3
  <2>7. SortsOnce(t)
    BY <2>1, <2>4, <2>5 DEF Shape, SortsOnce
  <2>8. ASSUME LimitsEmpty(ss) PROVE LimitsEmpty(t)
    <3> SUFFICES ASSUME NEW k \in 1 .. n, t[k].op = "Limit" PROVE t[k].n = 0
      BY <2>4 DEF LimitsEmpty
    <3>1. PICK j \in 1 .. n : t[k] = ss[j]
      BY <2>6
    <3> QED
      BY <2>1, <2>8, <3>1 DEF LimitsEmpty
  <2>9. ASSUME LimitAtEnd(ss) PROVE LimitAtEnd(t)
    <3>1. \A k \in 1 .. n - 1 : t[k].op # "Limit"
      BY <2>1, <2>5, <2>9 DEF LimitAtEnd, n
    <3>2. \A k \in DOMAIN t : ~Contradiction(t[k])
      BY <2>1, <2>4, <2>6, <2>9 DEF LimitAtEnd
    <3> QED
      BY <2>3, <3>1, <3>2 DEF LimitAtEnd
  <2>10. Shape(t)
    BY <2>7, <2>8, <2>9 DEF Shape
  <2> QED
    BY <1>2, <2>10 DEF Pushed, t
<1> QED
  BY <1>1, <1>2

\* So does the walk.
LEMMA WalkShape ==
  ASSUME NEW ss, IsSequence(ss), Shape(ss)
  PROVE  Shape(PushdownPass(ss))
<1> DEFINE S == {ss[j] : j \in DOMAIN ss}
           n == Len(ss)
           f == WalkBy(ss)
           M == {k \in Nat : k <= n => Shape(f[k])}
<1>1. ss \in Seq(S) /\ n \in Nat
  BY SequenceShape
<1>2. PushdownPass(ss) = f[n] /\ f[0] = ss /\ \A k \in 1 .. n : f[k] = Pushed(f[k - 1], k)
  BY <1>1, WalkUnfolds
<1> HIDE DEF S
<1>3. \A k \in 0 .. n : f[k] \in Seq(S) /\ Len(f[k]) = n
  BY <1>1, WalkKeepsLength
<1> HIDE DEF f, n
<1>4. 0 \in M
  BY <1>2
<1>5. ASSUME NEW k \in Nat, k \in M PROVE k + 1 \in M
  <2> SUFFICES ASSUME k + 1 <= n PROVE Shape(f[k + 1])
    OBVIOUS
  <2>1. k \in 0 .. n /\ k + 1 \in 1 .. n /\ (k + 1) - 1 = k /\ Shape(f[k])
    BY <1>1, <1>5
  <2>2. f[k] \in Seq(S) /\ k + 1 \in 1 .. Len(f[k])
    BY <1>3, <2>1
  <2>3. f[k + 1] = Pushed(f[k], k + 1)
    BY <1>2, <2>1
  <2> QED
    BY <2>1, <2>2, <2>3, TurnShape
<1>6. Nat \subseteq M
  <2> HIDE DEF M
  <2> QED
    BY <1>4, <1>5, SetInduction
<1> QED
  BY <1>1, <1>2, <1>6

\* e says where the stages of s were among the first i of ss.
Embeds(e, s, ss, i) ==
  /\ \A k \in DOMAIN s : e[k] \in 1 .. i /\ s[k] = ss[e[k]]
  /\ \A j, k \in DOMAIN s : j < k => e[j] < e[k]

\* The next stage goes on with it.
LEMMA EmbedsOneMore ==
  ASSUME NEW S, NEW s \in Seq(S), NEW ss, NEW i \in Nat, NEW e, Embeds(e, s, ss, i), ss[i + 1] \in S
  PROVE  \E g : Embeds(g, Append(s, ss[i + 1]), ss, i + 1)
<1> DEFINE n == Len(s)
           t == Append(s, ss[i + 1])
           g == [k \in 1 .. n + 1 |-> IF k = n + 1 THEN i + 1 ELSE e[k]]
<1>1. /\ n \in Nat /\ DOMAIN s = 1 .. n /\ DOMAIN t = 1 .. n + 1 /\ t[n + 1] = ss[i + 1]
      /\ \A k \in 1 .. n : t[k] = s[k]
  BY LenProperties, AppendProperties
<1> HIDE DEF n, t
<1>2. g[n + 1] = i + 1 /\ \A k \in 1 .. n : g[k] = e[k]
  BY <1>1
<1> HIDE DEF g
<1>3. \A k \in 1 .. n : e[k] \in 1 .. i /\ s[k] = ss[e[k]]
  BY <1>1 DEF Embeds
<1>4. \A j, k \in 1 .. n : j < k => e[j] < e[k]
  BY <1>1 DEF Embeds
<1>5. ASSUME NEW k \in 1 .. n + 1 PROVE g[k] \in 1 .. i + 1 /\ t[k] = ss[g[k]]
  BY <1>1, <1>2, <1>3, k \in 1 .. n \/ k = n + 1
<1>6. ASSUME NEW j \in 1 .. n + 1, NEW k \in 1 .. n + 1, j < k PROVE g[j] < g[k]
  <2>1. j \in 1 .. n /\ g[j] = e[j] /\ e[j] \in 1 .. i
    BY <1>1, <1>2, <1>3, <1>6
  <2>2. CASE k = n + 1
    BY <1>2, <2>1, <2>2
  <2>3. CASE k \in 1 .. n
    BY <1>2, <1>4, <1>6, <2>1, <2>3
  <2> QED
    BY <1>1, <2>2, <2>3
<1>7. Embeds(g, t, ss, i + 1)
  BY <1>1, <1>5, <1>6 DEF Embeds
<1> QED
  BY <1>7 DEF t

\* What is kept is in the order it was.
LEMMA OnlyEmbeds ==
  ASSUME NEW ss, IsSequence(ss), NEW K
  PROVE  \E e : Embeds(e, Only(ss, K), ss, Len(ss))
<1> DEFINE S == {ss[j] : j \in DOMAIN ss}
           n == Len(ss)
           f == KeptBy(ss, K)
           M == {k \in Nat : k <= n => \E e : Embeds(e, f[k], ss, k)}
<1>1. ss \in Seq(S) /\ n \in Nat /\ \A k \in 1 .. n : ss[k] \in S
  BY SequenceShape
<1>2. Only(ss, K) = f[n] /\ f[0] = <<>> /\ \A k \in 1 .. n : f[k] = Kept(ss, K, f[k - 1], k)
  BY <1>1, OnlyUnfolds
<1> HIDE DEF S
<1>3. \A k \in 0 .. n : f[k] \in Seq(S)
  BY <1>1, OnlyIsSequence
<1> HIDE DEF f, n
<1>4. 0 \in M
  <2>1. Embeds(<<>>, <<>>, ss, 0)
    BY DEF Embeds
  <2> QED
    BY <1>2, <2>1
<1>5. ASSUME NEW k \in Nat, k \in M PROVE k + 1 \in M
  <2> SUFFICES ASSUME k + 1 <= n PROVE \E e : Embeds(e, f[k + 1], ss, k + 1)
    OBVIOUS
  <2>1. k \in 0 .. n /\ k + 1 \in 1 .. n /\ (k + 1) - 1 = k /\ \E e : Embeds(e, f[k], ss, k)
    BY <1>1, <1>5
  <2>2. PICK e : Embeds(e, f[k], ss, k)
    BY <2>1
  <2>3. f[k + 1] = Kept(ss, K, f[k], k + 1) /\ f[k] \in Seq(S) /\ ss[k + 1] \in S
    BY <1>1, <1>2, <1>3, <2>1
  <2>4. CASE k + 1 \in K
    <3>1. f[k + 1] = Append(f[k], ss[k + 1])
      BY <2>3, <2>4 DEF Kept
    <3> QED
      BY <2>2, <2>3, <3>1, EmbedsOneMore
  <2>5. CASE k + 1 \notin K
    <3>1. f[k + 1] = f[k]
      BY <2>3, <2>5 DEF Kept
    <3>2. Embeds(e, f[k], ss, k + 1)
      BY <2>2 DEF Embeds
    <3> QED
      BY <3>1, <3>2
  <2> QED
    BY <2>4, <2>5
<1>6. Nat \subseteq M
  <2> HIDE DEF M
  <2> QED
    BY <1>4, <1>5, SetInduction
<1> QED
  BY <1>1, <1>2, <1>6 DEF n

\* Folding constants adds no limit but of no rows, and only where every limit is one.
LEMMA FoldShape ==
  ASSUME NEW ss, IsSequence(ss), Shape(ss)
  PROVE  Shape(ConstantFold(ss))
<1> DEFINE t == [k \in DOMAIN ss |-> Folded(ss[k])]
           K == {k \in DOMAIN ss : ~Tautology(ss[k])}
           u == Only(t, K)
           n == Len(ss)
<1>1. ConstantFold(ss) = u
  BY DEF ConstantFold, Folded
<1>2. n \in Nat /\ DOMAIN ss = 1 .. n
  BY SequenceShape
<1>3. DOMAIN t = 1 .. n /\ \A k \in 1 .. n : t[k] = Folded(ss[k])
  BY <1>2
<1>4. IsSequence(t) /\ Len(t) = n
  BY <1>2, <1>3, SequenceFromFunction
<1>5. IsSequence(u)
  BY <1>1, FoldIsSequence
<1> HIDE DEF n, t, K
<1>6. PICK e : Embeds(e, u, t, n)
  BY <1>4, OnlyEmbeds
<1>7. Len(u) \in Nat /\ DOMAIN u = 1 .. Len(u)
  BY <1>5, SequenceShape
<1> HIDE DEF u
<1>8. \A k \in DOMAIN u : e[k] \in 1 .. n /\ u[k] = Folded(ss[e[k]])
  BY <1>3, <1>6 DEF Embeds
<1>9. \A j, k \in DOMAIN u : j < k => e[j] < e[k]
  BY <1>6 DEF Embeds
<1>10. \A st : Folded(st).op = "Sort" => st.op = "Sort"
  BY NoRowsStage DEF Folded
<1>11. \A st : Folded(st).op = "Limit" => Folded(st).n = 0 \/ (Folded(st) = st /\ ~Contradiction(st))
  BY NoRowsStage DEF Folded
<1>12. \A st : ~Contradiction(st) => Folded(st) = st
  BY DEF Folded
<1>13. ASSUME NEW j \in DOMAIN u, NEW k \in DOMAIN u, u[j].op = "Sort", u[k].op = "Sort" PROVE j = k
  <2>1. ss[e[j]].op = "Sort" /\ ss[e[k]].op = "Sort"
    BY <1>8, <1>10, <1>13
  <2>2. e[j] = e[k] /\ e[j] \in 1 .. n
    BY <1>2, <1>8, <2>1 DEF Shape, SortsOnce
  <2> QED
    BY <1>7, <1>9, <2>2
<1>14. ASSUME LimitsEmpty(ss) PROVE LimitsEmpty(u)
  BY <1>2, <1>8, <1>11, <1>14 DEF LimitsEmpty
<1>15. ASSUME LimitAtEnd(ss) PROVE LimitAtEnd(u)
  <2>1. \A k \in DOMAIN u : u[k] = ss[e[k]]
    BY <1>2, <1>8, <1>12, <1>15 DEF LimitAtEnd
  <2>2. ASSUME NEW k \in 1 .. Len(u) - 1 PROVE u[k].op # "Limit"
    <3>1. k \in DOMAIN u /\ k + 1 \in DOMAIN u /\ k < k + 1
      BY <1>7
    <3>2. e[k] \in 1 .. n /\ e[k + 1] \in 1 .. n /\ e[k] < e[k + 1]
      BY <1>8, <1>9, <3>1
    <3>3. e[k] \in 1 .. n - 1
      BY <1>2, <3>2
    <3> QED
      BY <1>15, <2>1, <3>1, <3>3 DEF LimitAtEnd, n
  <2>3. \A k \in DOMAIN u : ~Contradiction(u[k])
    BY <1>2, <1>8, <1>15, <2>1 DEF LimitAtEnd
  <2> QED
    BY <2>2, <2>3 DEF LimitAtEnd
<1>16. SortsOnce(u)
  BY <1>13 DEF SortsOnce
<1>17. Shape(u)
  BY <1>14, <1>15, <1>16 DEF Shape
<1> QED
  BY <1>1, <1>17 DEF u

\* A projection in front is neither a sort nor a limit.
LEMMA PruneShape ==
  ASSUME NEW ss, IsSequence(ss), Shape(ss)
  PROVE  Shape(ColumnPrune(ss))
<1>1. CASE ~Prunes(ss)
  BY <1>1 DEF ColumnPrune
<1>2. CASE Prunes(ss)
  <2> DEFINE n == Len(ss)
             t == ColumnPrune(ss)
  <2>1. n \in Nat /\ DOMAIN ss = 1 .. n
    BY SequenceShape
  <2>2. IsSequence(t) /\ Len(t) = n + 1 /\ t[1] = PruneStage(ss) /\ \A k \in 1 .. n : t[k + 1] = ss[k]
    BY <1>2, PrunedShape
  <2>3. t[1].op = "Project"
    BY <2>2, PruneStageColumns
  <2> HIDE DEF t, n
  <2>4. DOMAIN t = 1 .. n + 1
    BY <2>2, SequenceShape
  <2>5. \A k \in 1 .. n + 1 : k = 1 \/ (k - 1 \in 1 .. n /\ t[k] = ss[k - 1])
    <3> TAKE k \in 1 .. n + 1
    <3>1. k # 1 => k - 1 \in 1 .. n /\ (k - 1) + 1 = k
      BY <2>1
    <3> QED
      BY <2>2, <3>1
  <2>6. ASSUME NEW j \in DOMAIN t, NEW k \in DOMAIN t, t[j].op = "Sort", t[k].op = "Sort" PROVE j = k
    <3>1. j # 1 /\ k # 1 /\ j \in 1 .. n + 1 /\ k \in 1 .. n + 1
      BY <2>3, <2>4, <2>6
    <3>2. j - 1 \in DOMAIN ss /\ k - 1 \in DOMAIN ss /\ ss[j - 1].op = "Sort" /\ ss[k - 1].op = "Sort"
      BY <2>1, <2>5, <2>6, <3>1
    <3>3. j - 1 = k - 1
      BY <3>2 DEF Shape, SortsOnce
    <3> QED
      BY <2>1, <3>1, <3>3
  <2>7. ASSUME LimitsEmpty(ss) PROVE LimitsEmpty(t)
    BY <2>1, <2>3, <2>4, <2>5, <2>7 DEF LimitsEmpty
  <2>8. ASSUME LimitAtEnd(ss) PROVE LimitAtEnd(t)
    <3>1. ASSUME NEW k \in 1 .. Len(t) - 1 PROVE t[k].op # "Limit"
      <4>1. k \in 1 .. n + 1 /\ k <= n
        BY <2>1, <2>2
      <4>2. k # 1 => k - 1 \in 1 .. n - 1 /\ t[k] = ss[k - 1]
        BY <2>1, <2>5, <4>1
      <4> QED
        BY <2>3, <2>8, <4>2 DEF LimitAtEnd, n
    <3>2. \A k \in DOMAIN t : ~Contradiction(t[k])
      BY <2>1, <2>3, <2>4, <2>5, <2>8 DEF LimitAtEnd, Contradiction, IsFilter
    <3> QED
      BY <3>1, <3>2 DEF LimitAtEnd
  <2>9. SortsOnce(t)
    BY <2>6 DEF SortsOnce
  <2>10. Shape(t)
    BY <2>7, <2>8, <2>9 DEF Shape
  <2> QED
    BY <2>10 DEF t
<1> QED
  BY <1>1, <1>2

\* None of the three rules makes a union.
LEMMA RulesKeepUnions ==
  ASSUME NEW ss, IsSequence(ss), UnionsFree(ss)
  PROVE  /\ UnionsFree(PushdownPass(ss)) /\ UnionsFree(ConstantFold(ss)) /\ UnionsFree(ColumnPrune(ss))
<1>1. UnionsFree(PushdownPass(ss))
  BY WalkOfThem DEF UnionsFree
<1>2. UnionsFree(ConstantFold(ss))
  <2> DEFINE t == [k \in DOMAIN ss |-> Folded(ss[k])]
             K == {k \in DOMAIN ss : ~Tautology(ss[k])}
  <2>1. ConstantFold(ss) = Only(t, K)
    BY DEF ConstantFold, Folded
  <2>2. Len(ss) \in Nat /\ DOMAIN ss = 1 .. Len(ss)
    BY SequenceShape
  <2>3. DOMAIN t = DOMAIN ss /\ \A k \in DOMAIN ss : t[k] = Folded(ss[k])
    OBVIOUS
  <2>4. IsSequence(t)
    BY <2>2, <2>3, SequenceFromFunction
  <2> HIDE DEF t, K
  <2>5. \A k \in DOMAIN ConstantFold(ss) : \E j \in DOMAIN ss : ConstantFold(ss)[k] = Folded(ss[j])
    BY <2>1, <2>3, <2>4, OnlyOfThem
  <2>6. \A st : Folded(st).op = "Union" => Folded(st) = st
    BY NoRowsStage DEF Folded
  <2> QED
    BY <2>5, <2>6 DEF UnionsFree
<1>3. UnionsFree(ColumnPrune(ss))
  <2>1. CASE ~Prunes(ss)
    BY <2>1 DEF ColumnPrune
  <2>2. CASE Prunes(ss)
    <3> DEFINE n == Len(ss)
               t == ColumnPrune(ss)
    <3>1. n \in Nat /\ DOMAIN ss = 1 .. n
      BY SequenceShape
    <3>2. IsSequence(t) /\ Len(t) = n + 1 /\ t[1] = PruneStage(ss) /\ \A k \in 1 .. n : t[k + 1] = ss[k]
      BY <2>2, PrunedShape
    <3>3. t[1].op = "Project"
      BY <3>2, PruneStageColumns
    <3> HIDE DEF t, n
    <3>4. DOMAIN t = 1 .. n + 1
      BY <3>2, SequenceShape
    <3>5. \A k \in 1 .. n + 1 : k = 1 \/ (k - 1 \in 1 .. n /\ t[k] = ss[k - 1])
      <4> TAKE k \in 1 .. n + 1
      <4>1. k # 1 => k - 1 \in 1 .. n /\ (k - 1) + 1 = k
        BY <3>1
      <4> QED
        BY <3>2, <4>1
    <3>6. UnionsFree(t)
      BY <3>1, <3>3, <3>4, <3>5 DEF UnionsFree
    <3> QED
      BY <3>6 DEF t
  <2> QED
    BY <2>1, <2>2
<1> QED
  BY <1>1, <1>2, <1>3

-----------------------------------------------------------------------------
(* Optimizer and emitter together *)

\* What the sound rules leave of a pipeline whose limit comes last and whose unions'
\* inputs can be merged.
ShapeInv ==
  (SoundlyRewritten /\ LimitLast(orig) /\ InputsMergeFree(orig)) => Shape(stages) /\ UnionsFree(stages)

\* A rule that changes nothing, is not one of the three, or keeps the shape.
LEMMA RewriteShape ==
  ASSUME ShapeInv, NEW name, NEW out, Rewrite(name, out),
         (name \in {"ConstantFold", "PredicatePushdown", "ColumnPrune"} /\ Shape(stages) /\ UnionsFree(stages)) =>
            Shape(out) /\ UnionsFree(out)
  PROVE  ShapeInv'
<1> SUFFICES ASSUME SoundlyRewritten', LimitLast(orig'), InputsMergeFree(orig')
             PROVE  Shape(stages') /\ UnionsFree(stages')
  BY DEF ShapeInv
<1>1. stages' = out /\ orig' = orig /\ fired' = IF out # stages THEN fired \cup {name} ELSE fired
  BY DEF Rewrite
<1>2. fired \subseteq fired'
  BY <1>1
<1>3. SoundlyRewritten
  BY <1>1, <1>2 DEF SoundlyRewritten
<1>4. Shape(stages) /\ UnionsFree(stages)
  BY <1>1, <1>3 DEF ShapeInv
<1>5. CASE out = stages
  BY <1>1, <1>4, <1>5
<1>6. CASE out # stages
  <2>1. name \in {"ConstantFold", "PredicatePushdown", "ColumnPrune"}
    BY <1>1, <1>6 DEF SoundlyRewritten
  <2> QED
    BY <1>1, <1>4, <2>1
<1> QED
  BY <1>5, <1>6

\* Every step keeps it.
LEMMA NextShape == ShapeInv /\ IsSequence(stages) /\ [Next]_vars => ShapeInv'
<1> SUFFICES ASSUME ShapeInv, IsSequence(stages), [Next]_vars PROVE ShapeInv'
  OBVIOUS
<1>1. CASE Fold
  <2>1. Rewrite("ConstantFold", ConstantFold(stages))
    BY <1>1 DEF Fold
  <2> QED BY <2>1, FoldShape, RulesKeepUnions, RewriteShape
<1>2. CASE PushDown
  <2>1. Rewrite("PredicatePushdown", PushdownPass(stages))
    BY <1>2 DEF PushDown
  <2> QED BY <2>1, WalkShape, RulesKeepUnions, RewriteShape
<1>3. CASE Prune
  <2>1. Rewrite("ColumnPrune", ColumnPrune(stages))
    BY <1>3 DEF Prune
  <2> QED BY <2>1, PruneShape, RulesKeepUnions, RewriteShape
<1>4. CASE PushIntoInputs
  <2>1. Rewrite("PredicatePushdownUnion", PushIntoUnion(stages))
    BY <1>4 DEF PushIntoInputs
  <2> QED BY <2>1, RewriteShape
<1>5. CASE SplitAggregate
  <2>1. PICK out \in TwoStageAgg(stages, large) : Rewrite("TwoStageAgg", out)
    BY <1>5 DEF SplitAggregate
  <2> QED BY <2>1, RewriteShape
<1>6. CASE Saturate
  <2>1. Rewrite("SaturationRewrite", SaturationRewrite(stages))
    BY <1>6 DEF Saturate
  <2> QED BY <2>1, RewriteShape
<1>7. CASE EndPass
  <2>1. UNCHANGED <<stages, fired, orig>>
    BY <1>7 DEF EndPass
  <2> QED BY <2>1 DEF ShapeInv, SoundlyRewritten
<1>8. CASE Emit
  <2>1. UNCHANGED <<stages, fired, orig>>
    BY <1>8 DEF Emit
  <2> QED BY <2>1 DEF ShapeInv, SoundlyRewritten
<1>9. CASE UNCHANGED vars
  BY <1>9 DEF vars, ShapeInv, SoundlyRewritten
<1> QED BY <1>1, <1>2, <1>3, <1>4, <1>5, <1>6, <1>7, <1>8, <1>9 DEF Next

\* What is bound has that shape if its limit comes last.
LEMMA InitShape == Init => ShapeInv
<1> SUFFICES ASSUME Init, LimitLast(orig), InputsMergeFree(orig) PROVE Shape(stages) /\ UnionsFree(stages)
  BY DEF ShapeInv
<1>1. stages = orig
  BY DEF Init
<1> QED BY <1>1, LimitLastShape, InputsMergeFreeUnions

\* Optimizer and emitter together: whatever the passes make of a pipeline whose limit
\* comes last, both backends' statements answer, on all data, what the bound pipeline
\* means, and in its order (rule.go, emit_cte.go, duckdb/emit.go).
THEOREM AnswersAreRight ==
  ASSUME Computes
  PROVE  Spec => []EndToEnd
<1>1. RowsInv /\ StatementInv /\ StatementAccepted /\ ShapeInv => EndToEnd
  <2> SUFFICES ASSUME RowsInv, StatementInv, StatementAccepted, ShapeInv, Emitted, SoundlyRewritten,
                      LimitLast(orig), InputsMergeFree(orig), Nestable(orig)
               PROVE  Taken(stages) /\ \A r \in Sources : Answered(stages, r) = Meaning(orig, r, Tables)
    BY DEF EndToEnd
  <2>1. "TwoStageAgg" \notin fired /\ "PredicatePushdownUnion" \notin fired
    BY DEF SoundlyRewritten
  <2>2. Taken(stages)
    BY <2>1 DEF StatementAccepted
  <2>3. Legal(stages) /\ \A r \in Sources : Applied(stages, r, Tables) = Applied(orig, r, Tables)
    BY DEF RowsInv
  <2>4. IsSequence(stages)
    BY DEF StatementInv
  <2>5. Shape(stages) /\ UnionsFree(stages)
    BY DEF ShapeInv
  <2>6. Fine(stages)
    BY <2>4, <2>5, ShapeFine
  <2>7. \A k \in 0 .. Len(stages) : Fine(SplitBy(stages)[k].cur)
    BY <2>4, <2>6, RunsFine
  <2>8. \A k \in DOMAIN stages : stages[k].op = "Union" => InputsMerge(stages[k])
    BY <2>5 DEF UnionsFree
  <2>9. ASSUME NEW r \in Sources PROVE Answered(stages, r) = Meaning(orig, r, Tables)
    <3> DEFINE mode == IF dialect = "duckdb" THEN "duckdb" ELSE "sqlite"
    <3>1. mode \in Dialects /\ (mode = "duckdb" <=> dialect = "duckdb")
      BY DEF Dialects
    <3> HIDE DEF mode
    <3>2. AnswerOf(mode, stages, r) = Meaning(stages, r, Tables)
      BY <2>3, <2>7, <2>8, <3>1, StatementFaithful
    <3>3. AnswerOf(mode, stages, r) = Answered(stages, r)
      BY <3>1 DEF AnswerOf, Answered
    <3>4. Meaning(stages, r, Tables) = Meaning(orig, r, Tables)
      BY <2>3 DEF Meaning
    <3> QED BY <3>2, <3>3, <3>4
  <2> QED BY <2>2, <2>9
<1>2. StatementInv => IsSequence(stages)
  BY DEF StatementInv
<1>3. RowsInv /\ IsSequence(stages) /\ [Next]_vars => RowsInv'
  BY NextRows
<1>4. Spec => []StatementAccepted
  BY StatementsAreAccepted
<1> QED
  BY <1>1, <1>2, <1>3, <1>4, InitRows, InitStatement, NextStatement, InitShape, NextShape, PTL DEF Spec

-----------------------------------------------------------------------------
(* The emitter alone *)

\* An input that is filtered still fits.
LEMMA FedInputFits ==
  ASSUME NEW C, NEW input, InputFits(input, C), NEW ft, WellFormed(ft), IsFilter(ft), References(ft) \subseteq C
  PROVE  InputFits([input EXCEPT !.stages = Append(@, ft)], C)
<1> DEFINE cols == TableColumn[input.table]
           s == input.stages
           fed == [input EXCEPT !.stages = Append(@, ft)]
           t == Append(s, ft)
           S == {s[k] : k \in DOMAIN s} \cup {ft}
<1>1. fed.table = input.table /\ fed.stages = t /\ DOMAIN fed = {"table", "stages"} /\ input.table \in DOMAIN Tables
  BY DEF InputFits
<1>2. IsSequence(s) /\ AllWellFormed(s) /\ Resolves(s, cols) /\ Behind(s, cols) = C
  BY DEF InputFits, AllWellFormed, Behind
<1> HIDE DEF fed, s, cols, t
<1>3. s \in Seq(S) /\ Len(s) \in Nat /\ DOMAIN s = 1 .. Len(s) /\ ft \in S
  <2>1. s \in Seq({s[k] : k \in DOMAIN s}) /\ Len(s) \in Nat /\ DOMAIN s = 1 .. Len(s)
    BY <1>2, SequenceShape
  <2>2. \A k \in 1 .. Len(s) : s[k] \in S
    BY <2>1
  <2> HIDE DEF S
  <2>3. s \in Seq(S)
    BY <2>1, <2>2
  <2> QED
    BY <2>1, <2>3 DEF S
<1> HIDE DEF S
<1>4. Behind(t, cols) = ColumnsAfter(ft, C) /\ t \in Seq(S) /\ Resolves(t, cols)
  BY <1>2, <1>3, OneMoreStage DEF t
<1>5. ColumnsAfter(ft, C) = C
  BY SameColumnsAfter DEF IsFilter
<1>6. IsSequence(t)
  BY <1>4, SequenceOfAny
<1>7. AllWellFormed(t)
  <2>1. DOMAIN t = 1 .. Len(s) + 1 /\ t[Len(s) + 1] = ft /\ \A k \in 1 .. Len(s) : t[k] = s[k]
    BY <1>3, AppendProperties, LenProperties DEF t
  <2>2. \A k \in 1 .. Len(s) + 1 : k \in 1 .. Len(s) \/ k = Len(s) + 1
    BY <1>3
  <2> QED
    BY <1>2, <1>3, <2>1, <2>2 DEF AllWellFormed
<1>8. InputFits(fed, C)
  BY <1>1, <1>4, <1>5, <1>6, <1>7 DEF InputFits, AllWellFormed, Behind, cols
<1> QED
  BY <1>8 DEF fed

\* A filter that goes into the inputs of a union leaves them with its columns.
LEMMA FedFits ==
  ASSUME NEW C, NEW u, u.op = "Union", WellFormed(u), UnionFits(u, C),
         NEW ft, WellFormed(ft), IsFilter(ft), References(ft) \subseteq C
  PROVE  UnionFits([u EXCEPT !.inputs = [k \in DOMAIN u.inputs |-> [u.inputs[k] EXCEPT !.stages = Append(@, ft)]]], C)
<1> DEFINE x == [k \in DOMAIN u.inputs |-> [u.inputs[k] EXCEPT !.stages = Append(@, ft)]]
           w == [u EXCEPT !.inputs = x]
<1>1. w.inputs = x
  BY DEF WellFormed, Blank
<1>2. IsSequence(u.inputs) /\ \A k \in DOMAIN u.inputs : InputFits(u.inputs[k], C)
  BY DEF UnionFits
<1>3. Len(u.inputs) \in Nat /\ DOMAIN u.inputs = 1 .. Len(u.inputs)
  BY <1>2, SequenceShape
<1>4. DOMAIN x = 1 .. Len(u.inputs) /\ x = [k \in 1 .. Len(u.inputs) |-> x[k]]
  BY <1>3
<1>5. IsSequence(x)
  BY <1>3, <1>4, SequenceFromFunction
<1>6. ASSUME NEW k \in DOMAIN x PROVE InputFits(x[k], C)
  <2>1. InputFits(u.inputs[k], C) /\ x[k] = [u.inputs[k] EXCEPT !.stages = Append(@, ft)]
    BY <1>2
  <2> QED
    BY <2>1, FedInputFits
<1> HIDE DEF x
<1>7. UnionFits(w, C)
  BY <1>1, <1>5, <1>6 DEF UnionFits
<1> QED
  BY <1>7 DEF x

\* So a legal pipeline is legal behind it.
LEMMA PushIntoUnionLegal ==
  ASSUME NEW ss, Legal(ss)
  PROVE  Legal(PushIntoUnion(ss))
<1> SUFFICES ASSUME BehindUnion(ss) # {} PROVE Legal(PushIntoUnion(ss))
  BY DEF PushIntoUnion
<1> DEFINE i == NextBehind(ss)
           n == Len(ss)
           u == Fed(ss, i)
           t == PushIntoUnion(ss)
           f == Columns(ss, SourceColumn)
           g == Columns(t, SourceColumn)
<1>1. /\ IsSequence(ss) /\ AllWellFormed(ss) /\ Resolves(ss, SourceColumn)
      /\ \A k \in DOMAIN ss : UnionFits(ss[k], f[k])
  BY LegalFits
<1>2. n \in Nat /\ DOMAIN ss = 1 .. n
  BY <1>1, SequenceShape
<1>3. /\ i \in 2 .. n /\ IsFilter(ss[i]) /\ ss[i - 1].op = "Union" /\ t = Without(u, i)
      /\ IsSequence(u) /\ Len(u) = n
      /\ \A k \in 1 .. n : k # i - 1 => u[k] = ss[k]
  <2> DEFINE E(j) == /\ j \in 2 .. Len(ss) /\ IsFilter(ss[j]) /\ ss[j - 1].op = "Union"
                     /\ PushIntoUnion(ss) = Without(Fed(ss, j), j)
                     /\ IsSequence(Fed(ss, j)) /\ Len(Fed(ss, j)) = Len(ss)
                     /\ \A k \in 1 .. Len(ss) : k # j - 1 => Fed(ss, j)[k] = ss[k]
  <2>1. E(NextBehind(ss))
    BY <1>1, PushIntoUnionEffect, Zenon
  <2> HIDE DEF i
  <2>2. E(i)
    BY <2>1 DEF i
  <2> QED
    BY <2>2
<1>4. \A k \in 1 .. n - 1 : g[k] = IF k < i THEN f[k] ELSE f[k + 1]
  BY <1>1, PushIntoUnionResolves
<1>5. IsSequence(t) /\ AllWellFormed(t) /\ Resolves(t, SourceColumn)
  BY <1>1, PushIntoUnionResolves, PushIntoUnionIsSequence
<1>6. u[i - 1] = [ss[i - 1] EXCEPT !.inputs =
                    [k \in DOMAIN ss[i - 1].inputs |-> [ss[i - 1].inputs[k] EXCEPT !.stages = Append(@, ss[i])]]]
  <2>1. i - 1 \in DOMAIN ss
    BY <1>2, <1>3
  <2> HIDE DEF i
  <2> QED
    BY <2>1 DEF Fed
<1> HIDE DEF i, u
<1>7. i \in 1 .. n /\ i - 1 \in 1 .. n /\ (i - 1) + 1 = i
  BY <1>2, <1>3
<1>8. f[i] = f[i - 1]
  <2>1. i \in 2 .. n + 1
    BY <1>2, <1>3
  <2>2. f[i] = ColumnsAfter(ss[i - 1], f[i - 1])
    BY <1>2, <2>1, ColumnsUnfold
  <2> QED
    BY <1>3, <2>2, SameColumnsAfter
<1>9. /\ References(ss[i]) \subseteq f[i - 1] /\ WellFormed(ss[i]) /\ WellFormed(ss[i - 1])
      /\ UnionFits(ss[i - 1], f[i - 1])
  <2>1. References(ss[i]) \subseteq f[i]
    BY <1>1, <1>2, <1>7 DEF Resolves
  <2> HIDE DEF f
  <2> QED
    BY <1>1, <1>2, <1>7, <1>8, <2>1 DEF AllWellFormed
<1>10. UnionFits(u[i - 1], f[i - 1])
  <2> HIDE DEF f
  <2> QED
    BY <1>3, <1>6, <1>9, FedFits
<1>11. Len(t) = n - 1 /\ \A k \in 1 .. n - 1 : t[k] = IF k < i THEN u[k] ELSE u[k + 1]
  <2>1. i \in 1 .. Len(u)
    BY <1>3, <1>7
  <2>2. /\ Len(Without(u, i)) = Len(u) - 1
        /\ \A k \in 1 .. Len(u) - 1 : Without(u, i)[k] = IF k < i THEN u[k] ELSE u[k + 1]
    BY <1>3, <2>1, WithoutOne
  <2> HIDE DEF t
  <2> QED
    BY <1>3, <2>2
<1>12. DOMAIN t = 1 .. n - 1
  BY <1>5, <1>11, SequenceShape
<1> HIDE DEF t, f, g
<1>13. \A k \in 1 .. n : UnionFits(u[k], f[k])
  BY <1>1, <1>2, <1>3, <1>10
<1>14. ASSUME NEW k \in 1 .. n - 1 PROVE UnionFits(t[k], g[k])
  <2>1. k \in 1 .. n /\ k + 1 \in 1 .. n
    BY <1>2
  <2>2. CASE k < i
    <3>1. t[k] = u[k] /\ g[k] = f[k]
      BY <1>4, <1>11, <2>2
    <3> QED
      BY <1>13, <2>1, <3>1
  <2>3. CASE ~(k < i)
    <3>1. t[k] = u[k + 1] /\ g[k] = f[k + 1]
      BY <1>4, <1>11, <2>3
    <3> QED
      BY <1>13, <2>1, <3>1
  <2> QED
    BY <2>2, <2>3
<1>15. \A k \in DOMAIN t : UnionFits(t[k], g[k])
  BY <1>12, <1>14
<1>16. Legal(t)
  BY <1>5, <1>15, LegalFits DEF g
<1> QED
  BY <1>16 DEF t

\* The rules that leave a union with inputs of its columns.
LegalInv == fired \cap {"TwoStageAgg", "SaturationRewrite"} = {} => Legal(stages)

\* A rule that changes nothing, is one of those two, or keeps pipelines legal.
LEMMA RewriteLegal ==
  ASSUME LegalInv, NEW name, NEW out, Rewrite(name, out),
         name \notin {"TwoStageAgg", "SaturationRewrite"} /\ Legal(stages) => Legal(out)
  PROVE  LegalInv'
<1> SUFFICES ASSUME fired' \cap {"TwoStageAgg", "SaturationRewrite"} = {} PROVE Legal(stages')
  BY DEF LegalInv
<1>1. stages' = out /\ fired' = IF out # stages THEN fired \cup {name} ELSE fired
  BY DEF Rewrite
<1>2. Legal(stages)
  BY <1>1 DEF LegalInv
<1>3. CASE out = stages
  BY <1>1, <1>2, <1>3
<1>4. CASE out # stages
  <2>1. name \notin {"TwoStageAgg", "SaturationRewrite"}
    BY <1>1, <1>4
  <2> QED
    BY <1>1, <1>2, <2>1
<1> QED
  BY <1>3, <1>4

\* Every step keeps it.
LEMMA NextLegal ==
  ASSUME Computes
  PROVE  LegalInv /\ [Next]_vars => LegalInv'
<1> SUFFICES ASSUME LegalInv, [Next]_vars PROVE LegalInv'
  OBVIOUS
<1>1. CASE Fold
  <2>1. Rewrite("ConstantFold", ConstantFold(stages))
    BY <1>1 DEF Fold
  <2> QED BY <2>1, FoldRows, RewriteLegal
<1>2. CASE PushDown
  <2>1. Rewrite("PredicatePushdown", PushdownPass(stages))
    BY <1>2 DEF PushDown
  <2> QED BY <2>1, WalkRows, RewriteLegal
<1>3. CASE Prune
  <2>1. Rewrite("ColumnPrune", ColumnPrune(stages))
    BY <1>3 DEF Prune
  <2> QED BY <2>1, PruneLegal, RewriteLegal
<1>4. CASE PushIntoInputs
  <2>1. Rewrite("PredicatePushdownUnion", PushIntoUnion(stages))
    BY <1>4 DEF PushIntoInputs
  <2> QED BY <2>1, PushIntoUnionLegal, RewriteLegal
<1>5. CASE SplitAggregate
  <2>1. PICK out \in TwoStageAgg(stages, large) : Rewrite("TwoStageAgg", out)
    BY <1>5 DEF SplitAggregate
  <2> QED BY <2>1, RewriteLegal
<1>6. CASE Saturate
  <2>1. Rewrite("SaturationRewrite", SaturationRewrite(stages))
    BY <1>6 DEF Saturate
  <2> QED BY <2>1, RewriteLegal
<1>7. CASE EndPass
  <2>1. UNCHANGED <<stages, fired>>
    BY <1>7 DEF EndPass
  <2> QED BY <2>1 DEF LegalInv
<1>8. CASE Emit
  <2>1. UNCHANGED <<stages, fired>>
    BY <1>8 DEF Emit
  <2> QED BY <2>1 DEF LegalInv
<1>9. CASE UNCHANGED vars
  BY <1>9 DEF vars, LegalInv
<1> QED BY <1>1, <1>2, <1>3, <1>4, <1>5, <1>6, <1>7, <1>8, <1>9 DEF Next

\* What is bound is legal.
LEMMA InitLegal == Init => LegalInv
<1> SUFFICES ASSUME Init PROVE Legal(stages)
  BY DEF LegalInv
<1>1. stages \in Pipelines
  BY DEF Init
<1> QED BY <1>1, PipelineAssumption

\* The unions of the pipeline have inputs with the columns before them: no rule has fired
\* that changes the columns in front of a union, or there is no union.
UnionsStand ==
  "TwoStageAgg" \notin fired /\ ("SaturationRewrite" \notin fired \/ ~Has(stages, "Union"))

\* The emitter alone: where the runs of the rewritten pipeline can be merged, the
\* statements of both emitters answer, on all data, what its stages mean one by one and
\* in their order, whether the rules that made it were sound or not (emit_cte.go
\* splitSegments and emitMergedSelect, duckdb/emit.go).
THEOREM EmissionIsFaithful ==
  ASSUME Computes
  PROVE  Spec => [](UnionsStand => EmissionFaithful)
<1>1. LegalInv /\ StatementInv /\ UnionsStand => EmissionFaithful
  <2> SUFFICES ASSUME LegalInv, StatementInv, UnionsStand, MergeFree(stages), NEW r \in Sources
               PROVE  Answered(stages, r) = Meaning(stages, r, Tables)
    BY DEF EmissionFaithful
  <2>1. IsSequence(stages) /\ AllWellFormed(stages) /\ Resolves(stages, SourceColumn)
    BY DEF StatementInv, UnionsStand
  <2>2. Legal(stages)
    <3>1. CASE "SaturationRewrite" \notin fired
      BY <3>1 DEF LegalInv, UnionsStand
    <3>2. CASE ~Has(stages, "Union")
      <4>1. \A k \in DOMAIN stages : UnionFits(stages[k], Columns(stages, SourceColumn)[k])
        BY <3>2 DEF Has, UnionFits
      <4> QED
        BY <2>1, <4>1, LegalFits
    <3> QED
      BY <3>1, <3>2 DEF UnionsStand
  <2>3. /\ AllMerge(SplitSegments(stages))
        /\ \A k \in DOMAIN stages : InputsMerge(stages[k])
    BY DEF MergeFree, AllMerge, InputsMerge
  <2>4. \A k \in 0 .. Len(stages) : Fine(SplitBy(stages)[k].cur)
    BY <2>1, <2>3, MergeFreeFine
  <2> DEFINE mode == IF dialect = "duckdb" THEN "duckdb" ELSE "sqlite"
  <2>5. mode \in Dialects /\ (mode = "duckdb" <=> dialect = "duckdb")
    BY DEF Dialects
  <2> HIDE DEF mode
  <2>6. AnswerOf(mode, stages, r) = Meaning(stages, r, Tables)
    BY <2>2, <2>3, <2>4, <2>5, StatementFaithful
  <2>7. AnswerOf(mode, stages, r) = Answered(stages, r)
    BY <2>5 DEF AnswerOf, Answered
  <2> QED BY <2>6, <2>7
<1>2. LegalInv /\ [Next]_vars => LegalInv'
  BY NextLegal
<1> QED
  BY <1>1, <1>2, InitLegal, InitStatement, NextStatement, PTL DEF Spec

-----------------------------------------------------------------------------
(* The passes come to an end *)

NoFolds(ss)         == \A k \in DOMAIN ss : ~Tautology(ss[k]) /\ ~Contradiction(ss[k])
NoIdempotents(ss)   == \A k \in DOMAIN ss : ~Idempotent(ss[k])
NothingPushable(ss) == \A k \in DOMAIN ss : ~Pushable(ss, k)
\* ColumnPrune has put its projection in front of the last stage's.
Pruned(ss) ==
  /\ \E j, k \in DOMAIN ss : j # k /\ ss[j].op = "Project" /\ ss[k].op = "Project"
  /\ \A k \in DOMAIN ss : ss[k].op # "Union"

\* If no stage is left out, nothing changes.
LEMMA OnlyAll ==
  ASSUME NEW ss, IsSequence(ss), NEW K, DOMAIN ss \subseteq K
  PROVE  Only(ss, K) = ss
<1> DEFINE S == {ss[j] : j \in DOMAIN ss}
           n == Len(ss)
           f == KeptBy(ss, K)
           M == {k \in Nat : k <= n => Len(f[k]) = k /\ \A j \in 1 .. k : f[k][j] = ss[j]}
<1>1. ss \in Seq(S) /\ n \in Nat /\ DOMAIN ss = 1 .. n
  BY SequenceShape
<1>2. Only(ss, K) = f[n] /\ f[0] = <<>> /\ \A k \in 1 .. n : f[k] = Kept(ss, K, f[k - 1], k)
  BY <1>1, OnlyUnfolds
<1>3. \A k \in 0 .. n : f[k] \in Seq(S)
  <2> HIDE DEF S, f
  <2> QED BY <1>1, OnlyIsSequence DEF f
<1>4. \A k \in 1 .. n : ss[k] \in S
  BY <1>1
<1> HIDE DEF f, S, n
<1>5. 0 \in M
  BY <1>2
<1>6. ASSUME NEW k \in Nat, k \in M PROVE k + 1 \in M
  <2> SUFFICES ASSUME k + 1 <= n
               PROVE  Len(f[k + 1]) = k + 1 /\ \A j \in 1 .. k + 1 : f[k + 1][j] = ss[j]
    OBVIOUS
  <2>1. /\ k \in 0 .. n /\ k + 1 \in 1 .. n /\ (k + 1) - 1 = k
        /\ Len(f[k]) = k /\ \A j \in 1 .. k : f[k][j] = ss[j]
    BY <1>1, <1>6
  <2>2. f[k + 1] = Append(f[k], ss[k + 1]) /\ f[k] \in Seq(S) /\ ss[k + 1] \in S
    BY <1>1, <1>2, <1>3, <1>4, <2>1 DEF Kept
  <2>3. /\ Len(Append(f[k], ss[k + 1])) = k + 1 /\ Append(f[k], ss[k + 1])[k + 1] = ss[k + 1]
        /\ \A j \in 1 .. k : Append(f[k], ss[k + 1])[j] = f[k][j]
    BY <2>1, <2>2, AppendProperties
  <2> QED BY <2>1, <2>2, <2>3, \A j \in 1 .. k + 1 : j \in 1 .. k \/ j = k + 1
<1>7. Nat \subseteq M
  <2> HIDE DEF M
  <2> QED BY <1>5, <1>6, SetInduction
<1>8. f[n] \in Seq(S) /\ Len(f[n]) = n /\ \A j \in 1 .. n : f[n][j] = ss[j]
  BY <1>1, <1>3, <1>7
<1>9. f[n] = ss
  <2>1. f[n] \in [1 .. n -> S] /\ ss \in [1 .. n -> S]
    BY <1>1, <1>8, LenProperties DEF n
  <2> QED BY <1>8, <2>1
<1> QED BY <1>2, <1>9

\* What is left are stages at the places that are kept.
LEMMA OnlyFrom ==
  ASSUME NEW ss, IsSequence(ss), NEW K, NEW S, \A k \in DOMAIN ss : k \in K => ss[k] \in S
  PROVE  Only(ss, K) \in Seq(S)
<1> DEFINE n == Len(ss)
           f == KeptBy(ss, K)
           M == {k \in Nat : k <= n => f[k] \in Seq(S)}
<1>1. n \in Nat /\ DOMAIN ss = 1 .. n
  BY SequenceShape
<1>2. Only(ss, K) = f[n] /\ f[0] = <<>> /\ \A k \in 1 .. n : f[k] = Kept(ss, K, f[k - 1], k)
  BY <1>1, OnlyUnfolds
<1> HIDE DEF f, n
<1>3. 0 \in M
  BY <1>2, EmptySeq
<1>4. ASSUME NEW k \in Nat, k \in M PROVE k + 1 \in M
  <2> SUFFICES ASSUME k + 1 <= n PROVE f[k + 1] \in Seq(S)
    OBVIOUS
  <2>1. k + 1 \in 1 .. n /\ (k + 1) - 1 = k /\ f[k] \in Seq(S)
    BY <1>1, <1>4
  <2>2. f[k + 1] = Kept(ss, K, f[k], k + 1) /\ (k + 1 \in K => ss[k + 1] \in S)
    BY <1>1, <1>2, <2>1
  <2> QED BY <2>1, <2>2, AppendProperties DEF Kept
<1>5. Nat \subseteq M
  <2> HIDE DEF M
  <2> QED BY <1>3, <1>4, SetInduction
<1> QED BY <1>1, <1>2, <1>5

\* ConstantFold leaves nothing to fold and makes no distinct; behind it, it does nothing.
LEMMA FoldSettles ==
  ASSUME NEW ss, IsSequence(ss)
  PROVE  /\ NoFolds(ConstantFold(ss))
         /\ NoIdempotents(ss) => NoIdempotents(ConstantFold(ss))
         /\ NoFolds(ss) => ConstantFold(ss) = ss
<1> DEFINE t == [k \in DOMAIN ss |-> Folded(ss[k])]
           K == {k \in DOMAIN ss : ~Tautology(ss[k])}
           out == ConstantFold(ss)
<1>1. out = Only(t, K)
  BY DEF ConstantFold, Folded
<1>2. Len(ss) \in Nat /\ DOMAIN ss = 1 .. Len(ss) /\ DOMAIN t = DOMAIN ss /\ \A k \in DOMAIN ss : t[k] = Folded(ss[k])
  BY SequenceShape
<1>3. IsSequence(t)
  <2>1. t = [k \in 1 .. Len(ss) |-> t[k]]
    BY <1>2
  <2> HIDE DEF t
  <2> QED BY <1>2, <2>1, SequenceFromFunction
<1> HIDE DEF t, out
<1>4. \A st : Folded(st) = st \/ Folded(st).op = "Limit"
  BY NoRowsStage DEF Folded
<1>5. NoFolds(out)
  <2> DEFINE S == {t[k] : k \in {j \in DOMAIN t : ~Tautology(t[j]) /\ ~Contradiction(t[j])}}
  <2>1. \A k \in DOMAIN t : k \in K => t[k] \in S
    <3> SUFFICES ASSUME NEW k \in DOMAIN t, k \in K PROVE ~Tautology(t[k]) /\ ~Contradiction(t[k])
      OBVIOUS
    <3>1. CASE Contradiction(ss[k])
      <4>1. t[k].op = "Limit"
        BY <1>2, <3>1, NoRowsStage DEF Folded
      <4> QED BY <4>1 DEF Tautology, Contradiction, IsFilter
    <3>2. CASE ~Contradiction(ss[k])
      BY <1>2, <3>2 DEF Folded
    <3> QED BY <3>1, <3>2
  <2>2. out \in Seq(S)
    <3> HIDE DEF S, K
    <3> QED BY <1>1, <1>3, <2>1, OnlyFrom
  <2>3. \A k \in DOMAIN out : out[k] \in S
    <3> HIDE DEF S
    <3> QED BY <2>2, LenProperties
  <2> QED BY <2>3 DEF NoFolds
<1>6. ASSUME NoIdempotents(ss) PROVE NoIdempotents(out)
  <2>1. \A k \in DOMAIN out : \E j \in DOMAIN t : out[k] = t[j]
    <3> HIDE DEF K
    <3> QED BY <1>1, <1>3, OnlyOfThem
  <2>2. \A j \in DOMAIN t : ~Idempotent(t[j])
    BY <1>2, <1>4, <1>6 DEF NoIdempotents, Idempotent
  <2> QED BY <2>1, <2>2 DEF NoIdempotents
<1>7. ASSUME NoFolds(ss) PROVE out = ss
  <2>1. t = ss
    <3>1. \A k \in DOMAIN ss : t[k] = ss[k]
      BY <1>2, <1>7 DEF NoFolds, Folded
    <3>2. ss = [k \in DOMAIN ss |-> ss[k]] /\ t = [k \in DOMAIN ss |-> t[k]]
      <4>1. ss \in Seq({ss[k] : k \in DOMAIN ss})
        BY SequenceShape
      <4> QED BY <1>2, <4>1 DEF t
    <3> QED BY <3>1, <3>2
  <2>2. DOMAIN t \subseteq K
    BY <1>2, <1>7 DEF NoFolds
  <2> QED BY <1>1, <1>3, <2>1, <2>2, OnlyAll
<1> QED BY <1>5, <1>6, <1>7 DEF out

\* SaturationRewrite leaves no idempotent distinct; behind it, it does nothing.
LEMMA SaturationSettles ==
  ASSUME NEW ss, IsSequence(ss)
  PROVE  /\ NoIdempotents(SaturationRewrite(ss))
         /\ NoFolds(ss) => NoFolds(SaturationRewrite(ss))
         /\ NoIdempotents(ss) => SaturationRewrite(ss) = ss
<1> DEFINE K == {k \in DOMAIN ss : ~Idempotent(ss[k])}
           out == SaturationRewrite(ss)
           S == {ss[k] : k \in K}
<1>1. out = Only(ss, K)
  BY DEF SaturationRewrite
<1> HIDE DEF out
<1>2. out \in Seq(S)
  <2>1. \A k \in DOMAIN ss : k \in K => ss[k] \in S
    OBVIOUS
  <2> HIDE DEF S, K
  <2> QED BY <1>1, <2>1, OnlyFrom
<1>3. \A k \in DOMAIN out : out[k] \in S
  <2> HIDE DEF S
  <2> QED BY <1>2, LenProperties
<1>4. NoIdempotents(out)
  BY <1>3 DEF NoIdempotents
<1>5. NoFolds(ss) => NoFolds(out)
  BY <1>3 DEF NoFolds
<1>6. NoIdempotents(ss) => out = ss
  <2>1. NoIdempotents(ss) => DOMAIN ss \subseteq K
    BY DEF NoIdempotents
  <2> HIDE DEF K
  <2> QED BY <1>1, <2>1, OnlyAll
<1> QED BY <1>4, <1>5, <1>6 DEF out

\* A turn of the walk keeps two projections two.
LEMMA TurnKeepsPruned ==
  ASSUME NEW S, NEW ss \in Seq(S), NEW i \in 1 .. Len(ss), Pruned(ss)
  PROVE  Pruned(Pushed(ss, i))
<1>1. CASE ~Pushable(ss, i)
  BY <1>1 DEF Pushed
<1>2. CASE Pushable(ss, i)
  <2> DEFINE t == Swapped(ss, i)
             n == Len(ss)
  <2>1. n \in Nat /\ DOMAIN ss = 1 .. n /\ i \in 2 .. n
    BY <1>2, LenProperties DEF Pushable
  <2>2. /\ t \in Seq(S) /\ Len(t) = n /\ t[i - 1] = ss[i] /\ t[i] = ss[i - 1]
        /\ \A k \in 1 .. n : k # i /\ k # i - 1 => t[k] = ss[k]
    BY <2>1, SwapsTwo
  <2> HIDE DEF t
  <2>3. DOMAIN t = 1 .. n
    BY <2>2, LenProperties DEF n
  <2> HIDE DEF n
  <2>4. PICK j \in 1 .. n, m \in 1 .. n : j # m /\ ss[j].op = "Project" /\ ss[m].op = "Project"
    BY <2>1 DEF Pruned
  <2> DEFINE moved(k) == IF k = i THEN i - 1 ELSE IF k = i - 1 THEN i ELSE k
  <2>5. \A k \in 1 .. n : moved(k) \in 1 .. n /\ t[moved(k)] = ss[k] /\ t[k] = ss[moved(k)]
    BY <2>1, <2>2
  <2>6. moved(j) # moved(m)
    BY <2>1, <2>4
  <2> HIDE DEF moved
  <2>7. \E p, q \in DOMAIN t : p # q /\ t[p].op = "Project" /\ t[q].op = "Project"
    BY <2>3, <2>4, <2>5, <2>6
  <2>8. ASSUME NEW k \in DOMAIN t PROVE t[k].op # "Union"
    <3>1. moved(k) \in DOMAIN ss /\ t[k] = ss[moved(k)]
      BY <2>1, <2>3, <2>5
    <3> QED BY <3>1 DEF Pruned
  <2>9. Pruned(t)
    BY <2>7, <2>8 DEF Pruned
  <2> QED BY <1>2, <2>9 DEF Pushed, t
<1> QED BY <1>1, <1>2

\* So does the walk, which makes nothing to fold and no distinct, and moves nothing if
\* nothing can be moved.
LEMMA WalkSettles ==
  ASSUME NEW ss, IsSequence(ss)
  PROVE  /\ NoFolds(ss) => NoFolds(PushdownPass(ss))
         /\ NoIdempotents(ss) => NoIdempotents(PushdownPass(ss))
         /\ Pruned(ss) => Pruned(PushdownPass(ss))
         /\ NothingPushable(ss) <=> PushdownPass(ss) = ss
<1> DEFINE S == {ss[j] : j \in DOMAIN ss}
           n == Len(ss)
           f == WalkBy(ss)
<1>1. ss \in Seq(S) /\ n \in Nat /\ DOMAIN ss = 1 .. n
  BY SequenceShape
<1>2. PushdownPass(ss) = f[n] /\ f[0] = ss /\ \A k \in 1 .. n : f[k] = Pushed(f[k - 1], k)
  BY <1>1, WalkUnfolds
<1> HIDE DEF S
<1>3. \A k \in 0 .. n : f[k] \in Seq(S) /\ Len(f[k]) = n
  BY <1>1, WalkKeepsLength
<1> HIDE DEF f
<1>4. NoFolds(ss) => NoFolds(PushdownPass(ss))
  BY WalkOfThem DEF NoFolds
<1>5. NoIdempotents(ss) => NoIdempotents(PushdownPass(ss))
  BY WalkOfThem DEF NoIdempotents
<1>6. ASSUME Pruned(ss) PROVE Pruned(f[n])
  <2> HIDE DEF n
  <2> DEFINE M == {k \in Nat : k <= n => Pruned(f[k])}
  <2>1. 0 \in M
    BY <1>2, <1>6
  <2>2. ASSUME NEW k \in Nat, k \in M PROVE k + 1 \in M
    <3> SUFFICES ASSUME k + 1 <= n PROVE Pruned(f[k + 1])
      OBVIOUS
    <3>1. k \in 0 .. n /\ k + 1 \in 1 .. n /\ (k + 1) - 1 = k /\ Pruned(f[k])
      BY <1>1, <2>2
    <3>2. f[k] \in Seq(S) /\ k + 1 \in 1 .. Len(f[k]) /\ f[k + 1] = Pushed(f[k], k + 1)
      BY <1>2, <1>3, <3>1
    <3> QED BY <3>1, <3>2, TurnKeepsPruned
  <2>3. Nat \subseteq M
    <3> HIDE DEF M
    <3> QED BY <2>1, <2>2, SetInduction
  <2> QED BY <1>1, <2>3
<1>7. ASSUME NothingPushable(ss) PROVE f[n] = ss
  <2> HIDE DEF n
  <2> DEFINE M == {k \in Nat : k <= n => f[k] = ss}
  <2>1. 0 \in M
    BY <1>2
  <2>2. ASSUME NEW k \in Nat, k \in M PROVE k + 1 \in M
    <3> SUFFICES ASSUME k + 1 <= n PROVE f[k + 1] = ss
      OBVIOUS
    <3>1. k + 1 \in 1 .. n /\ (k + 1) - 1 = k /\ f[k] = ss
      BY <1>1, <2>2
    <3>2. f[k + 1] = Pushed(ss, k + 1) /\ ~Pushable(ss, k + 1)
      BY <1>1, <1>2, <1>7, <3>1 DEF NothingPushable
    <3> QED BY <3>2 DEF Pushed
  <2>3. Nat \subseteq M
    <3> HIDE DEF M
    <3> QED BY <2>1, <2>2, SetInduction
  <2> QED BY <1>1, <2>3
<1>8. PushdownPass(ss) = ss => NothingPushable(ss)
  BY <1>1, IdleWalk DEF NothingPushable
<1> QED BY <1>2, <1>4, <1>5, <1>6, <1>7, <1>8

\* ColumnPrune changes a pipeline once: behind a projection nothing is pruned, and where it
\* prunes there is no union.
LEMMA PruneSettles ==
  ASSUME NEW ss, IsSequence(ss)
  PROVE  /\ NoFolds(ss) => NoFolds(ColumnPrune(ss))
         /\ NoIdempotents(ss) => NoIdempotents(ColumnPrune(ss))
         /\ IF Prunes(ss) THEN Pruned(ColumnPrune(ss)) ELSE ColumnPrune(ss) = ss
         /\ Pruned(ss) => ~Prunes(ss) /\ BehindUnion(ss) = {}
<1> DEFINE n == Len(ss)
           t == ColumnPrune(ss)
<1>1. n \in Nat /\ DOMAIN ss = 1 .. n
  BY SequenceShape
<1>2. ~Prunes(ss) => t = ss
  BY DEF ColumnPrune
<1>3. ASSUME Prunes(ss)
      PROVE  /\ DOMAIN t = 1 .. n + 1 /\ t[1].op = "Project" /\ \A k \in 1 .. n : t[k + 1] = ss[k]
             /\ \A k \in 2 .. n + 1 : k - 1 \in 1 .. n /\ t[k] = ss[k - 1]
  <2> HIDE DEF t
  <2>1. IsSequence(t) /\ Len(t) = n + 1 /\ t[1] = PruneStage(ss) /\ \A k \in 1 .. n : t[k + 1] = ss[k]
    BY <1>3, PrunedShape DEF t
  <2>2. DOMAIN t = 1 .. n + 1 /\ t[1].op = "Project"
    BY <2>1, SequenceShape, PruneStageColumns
  <2>3. ASSUME NEW k \in 2 .. n + 1 PROVE k - 1 \in 1 .. n /\ t[k] = ss[k - 1]
    <3>1. k - 1 \in 1 .. n /\ (k - 1) + 1 = k
      BY <1>1
    <3>2. t[(k - 1) + 1] = ss[k - 1]
      BY <2>1, <3>1
    <3> QED BY <3>1, <3>2
  <2> QED BY <2>1, <2>2, <2>3
<1> HIDE DEF t
<1>4. ASSUME Prunes(ss) PROVE \A k \in DOMAIN t : t[k].op = "Project" \/ \E j \in DOMAIN ss : t[k] = ss[j]
  <2> TAKE k \in DOMAIN t
  <2>1. k = 1 \/ k \in 2 .. n + 1
    BY <1>1, <1>3, <1>4
  <2> QED BY <1>1, <1>3, <1>4, <2>1
<1>5. NoFolds(ss) => NoFolds(t)
  BY <1>2, <1>4 DEF NoFolds, Tautology, Contradiction, IsFilter
<1>6. NoIdempotents(ss) => NoIdempotents(t)
  BY <1>2, <1>4 DEF NoIdempotents, Idempotent
<1>7. ASSUME Prunes(ss) PROVE Pruned(t)
  <2>1. n \in 1 .. n /\ ss[n].op = "Project"
    <3>1. n # 0
      BY <1>7, EmptySeq, SequenceShape DEF Prunes
    <3> QED BY <1>1, <1>7, <3>1 DEF Prunes
  <2>2. t[1].op = "Project" /\ t[n + 1].op = "Project" /\ 1 \in DOMAIN t /\ n + 1 \in DOMAIN t /\ n + 1 # 1
    BY <1>1, <1>3, <1>7, <2>1
  <2>3. \A j \in DOMAIN ss : ss[j].op # "Union"
    <3> TAKE j \in DOMAIN ss
    <3>1. j = n \/ j \in 1 .. n - 1
      BY <1>1
    <3> QED BY <1>7, <2>1, <3>1 DEF Prunes, IsPassthrough
  <2>4. \A k \in DOMAIN t : t[k].op # "Union"
    BY <1>4, <1>7, <2>3
  <2> QED BY <2>2, <2>4 DEF Pruned
<1>8. ASSUME Pruned(ss) PROVE ~Prunes(ss)
  <2>1. PICK j \in 1 .. n, k \in 1 .. n : j # k /\ ss[j].op = "Project" /\ ss[k].op = "Project"
    BY <1>1, <1>8 DEF Pruned
  <2>2. j \in 1 .. n - 1 \/ k \in 1 .. n - 1
    BY <1>1, <2>1
  <2> QED BY <2>1, <2>2 DEF Prunes, IsPassthrough
<1>9. ASSUME Pruned(ss) PROVE BehindUnion(ss) = {}
  <2>1. \A i \in 2 .. n : i - 1 \in DOMAIN ss
    BY <1>1
  <2> QED BY <1>9, <2>1 DEF Pruned, BehindUnion
<1> QED BY <1>2, <1>5, <1>6, <1>7, <1>8, <1>9 DEF t

\* Pushing a filter into a union's inputs takes it out; the union stays, and no filter can be
\* pushed past that.
LEMMA PushIntoUnionSettles ==
  ASSUME NEW ss, IsSequence(ss), AllWellFormed(ss)
  PROVE  LET out == PushIntoUnion(ss)
         IN  /\ NoFolds(ss) => NoFolds(out)
             /\ NoIdempotents(ss) => NoIdempotents(out)
             /\ NothingPushable(ss) => NothingPushable(out)
             /\ Pruned(ss) => out = ss
             /\ BehindUnion(ss) = {} => out = ss
             /\ ~Prunes(ss) => ~Prunes(out)
<1> DEFINE i == NextBehind(ss)
           n == Len(ss)
           u == Fed(ss, i)
           t == PushIntoUnion(ss)
<1>0. BehindUnion(ss) = {} => t = ss
  BY DEF PushIntoUnion
<1>00. Pruned(ss) => BehindUnion(ss) = {}
  BY PruneSettles
<1> SUFFICES ASSUME BehindUnion(ss) # {}
             PROVE  /\ NoFolds(ss) => NoFolds(t)
                    /\ NoIdempotents(ss) => NoIdempotents(t)
                    /\ NothingPushable(ss) => NothingPushable(t)
                    /\ ~Prunes(t)
  BY <1>0, <1>00
<1>1. n \in Nat /\ DOMAIN ss = 1 .. n
  BY SequenceShape
<1>2. /\ i \in 2 .. n /\ i \in 1 .. n /\ i - 1 \in 1 .. n /\ ss[i - 1].op = "Union" /\ t = Without(u, i)
      /\ IsSequence(u) /\ Len(u) = n
      /\ \A k \in 1 .. n : k # i - 1 => u[k] = ss[k]
      /\ \E x : u[i - 1] = [ss[i - 1] EXCEPT !.inputs = x]
  <2> DEFINE E(j) == /\ j \in 2 .. Len(ss) /\ IsFilter(ss[j]) /\ ss[j - 1].op = "Union"
                     /\ PushIntoUnion(ss) = Without(Fed(ss, j), j)
                     /\ IsSequence(Fed(ss, j)) /\ Len(Fed(ss, j)) = Len(ss)
                     /\ \A k \in 1 .. Len(ss) : k # j - 1 => Fed(ss, j)[k] = ss[k]
                     /\ \E x : Fed(ss, j)[j - 1] = [ss[j - 1] EXCEPT !.inputs = x]
  <2>1. E(NextBehind(ss))
    BY PushIntoUnionEffect, Zenon
  <2> HIDE DEF i
  <2>2. E(i)
    BY <2>1 DEF i
  <2>3. i \in 2 .. n /\ ss[i - 1].op = "Union" /\ t = Without(u, i) /\ IsSequence(u) /\ Len(u) = n
    BY <2>2
  <2>4. i \in 1 .. n /\ i - 1 \in 1 .. n
    BY <1>1, <2>3
  <2>5. (\A k \in 1 .. n : k # i - 1 => u[k] = ss[k]) /\ \E x : u[i - 1] = [ss[i - 1] EXCEPT !.inputs = x]
    BY <2>2
  <2> HIDE DEF u, t, E
  <2> QED BY <2>3, <2>4, <2>5
<1> HIDE DEF i, u
<1>3. u[i - 1].op = "Union"
  BY <1>1, <1>2, InputsDoNotCount DEF AllWellFormed
<1>4. /\ IsSequence(t) /\ Len(t) = n - 1 /\ DOMAIN t = 1 .. n - 1
      /\ \A k \in 1 .. n - 1 : t[k] = IF k < i THEN u[k] ELSE u[k + 1]
  <2>1. i \in 1 .. Len(u)
    BY <1>2
  <2>2. /\ IsSequence(Without(u, i)) /\ Len(Without(u, i)) = Len(u) - 1
        /\ \A k \in 1 .. Len(u) - 1 : Without(u, i)[k] = IF k < i THEN u[k] ELSE u[k + 1]
    BY <1>2, <2>1, WithoutOne
  <2> HIDE DEF t
  <2>3. IsSequence(t) /\ Len(t) = n - 1 /\ \A k \in 1 .. n - 1 : t[k] = IF k < i THEN u[k] ELSE u[k + 1]
    BY <1>2, <2>2
  <2> QED BY <2>3, SequenceShape
<1> HIDE DEF t, n
<1>5. /\ i - 1 \in 1 .. n - 1 /\ t[i - 1].op = "Union"
      /\ \A k \in 1 .. n - 1 : k < i - 1 => t[k] = ss[k]
      /\ \A k \in 1 .. n - 1 : i <= k => k + 1 \in 1 .. n /\ t[k] = ss[k + 1]
  <2>1. i - 1 \in 1 .. n - 1 /\ i - 1 < i
    BY <1>1, <1>2
  <2>2. t[i - 1] = u[i - 1]
    BY <1>4, <2>1
  <2>3. ASSUME NEW k \in 1 .. n - 1, k < i - 1 PROVE t[k] = ss[k]
    <3>1. k \in 1 .. n /\ k # i - 1 /\ k < i
      BY <1>1, <1>2, <2>3
    <3> QED BY <1>2, <1>4, <3>1
  <2>4. ASSUME NEW k \in 1 .. n - 1, i <= k PROVE k + 1 \in 1 .. n /\ t[k] = ss[k + 1]
    <3>1. k + 1 \in 1 .. n /\ k + 1 # i - 1 /\ ~(k < i)
      BY <1>1, <1>2, <2>4
    <3> QED BY <1>2, <1>4, <3>1
  <2> QED BY <1>3, <2>1, <2>2, <2>3, <2>4
<1>6. \A k \in DOMAIN t : t[k].op = "Union" \/ \E j \in DOMAIN ss : t[k] = ss[j]
  <2> TAKE k \in DOMAIN t
  <2>1. CASE k < i - 1
    BY <1>1, <1>4, <1>5, <2>1
  <2>2. CASE k = i - 1
    BY <1>5, <2>2
  <2>3. CASE i <= k
    BY <1>1, <1>4, <1>5, <2>3
  <2> QED BY <1>2, <1>4, <2>1, <2>2, <2>3
<1>7. NoFolds(ss) => NoFolds(t)
  BY <1>6 DEF NoFolds, Tautology, Contradiction, IsFilter
<1>8. NoIdempotents(ss) => NoIdempotents(t)
  BY <1>6 DEF NoIdempotents, Idempotent
<1>9. ASSUME NothingPushable(ss) PROVE NothingPushable(t)
  <2> SUFFICES ASSUME NEW k \in 1 .. n - 1, Pushable(t, k) PROVE FALSE
    BY <1>4 DEF NothingPushable
  <2>1. k > 1 /\ IsFilter(t[k]) /\ CanPushPast(t[k - 1], t[k].preds)
    BY DEF Pushable
  <2>2. CASE k < i - 1
    <3>1. t[k] = ss[k] /\ t[k - 1] = ss[k - 1] /\ k \in DOMAIN ss
      BY <1>1, <1>2, <1>5, <2>1, <2>2
    <3> QED BY <1>9, <2>1, <3>1 DEF NothingPushable, Pushable
  <2>3. CASE k = i - 1
    BY <1>5, <2>1, <2>3 DEF IsFilter
  <2>4. CASE k = i
    <3>1. t[k - 1].op = "Union"
      BY <1>5, <2>4
    <3> QED BY <2>1, <3>1 DEF CanPushPast
  <2>5. CASE i < k
    <3>1. t[k] = ss[k + 1] /\ t[k - 1] = ss[(k + 1) - 1] /\ k + 1 \in DOMAIN ss /\ k + 1 > 1
      <4>1. k - 1 \in 1 .. n - 1 /\ i <= k - 1 /\ (k - 1) + 1 = k /\ (k + 1) - 1 = k
        BY <1>1, <1>2, <2>5
      <4>2. t[k - 1] = ss[(k - 1) + 1]
        BY <1>5, <4>1
      <4>3. t[k] = ss[k + 1] /\ k + 1 \in 1 .. n
        BY <1>2, <1>5, <2>5
      <4> QED BY <1>1, <4>1, <4>2, <4>3
    <3> QED BY <1>9, <2>1, <3>1 DEF NothingPushable, Pushable
  <2> QED BY <1>1, <1>2, <2>2, <2>3, <2>4, <2>5
<1>10. ~Prunes(t)
  <2>1. i - 1 = n - 1 \/ i - 1 \in 1 .. (n - 1) - 1
    BY <1>1, <1>5
  <2> QED BY <1>4, <1>5, <2>1 DEF Prunes, IsPassthrough
<1> QED BY <1>7, <1>8, <1>9, <1>10

\* What is so of the stages behind a rule in the p-th pass.
Settles(name, p, ss) ==
  /\ name = "ConstantFold" /\ p >= 1 => NoFolds(ss)
  /\ name = "SaturationRewrite" /\ p >= 1 => NoIdempotents(ss)
  /\ name = "PredicatePushdown" /\ p >= 2 => NothingPushable(ss) \/ Pruned(ss)
  /\ name = "PredicatePushdown" /\ p >= 4 => NothingPushable(ss)
  /\ name = "ColumnPrune" /\ p >= 3 => ~Prunes(ss)
  /\ name = "PredicatePushdownUnion" /\ p >= 3 => BehindUnion(ss) = {}

\* A step of the p-th pass from ss to out that undoes nothing of that, and changes nothing
\* from the fifth pass on.
Calm(p, ss, out) ==
  /\ \A name, q : q \in 0 .. p /\ Settles(name, q, ss) => Settles(name, q, out)
  /\ p >= 5 => out = ss

\* Folding.
LEMMA FoldIsCalm ==
  ASSUME NEW ss, IsSequence(ss), NEW p \in Nat, p >= 1,
         p > 1 => Settles("ConstantFold", p - 1, ss)
  PROVE  Calm(p, ss, ConstantFold(ss)) /\ Settles("ConstantFold", p, ConstantFold(ss))
<1> DEFINE out == ConstantFold(ss)
<1>1. NoFolds(out) /\ (NoIdempotents(ss) => NoIdempotents(out)) /\ (NoFolds(ss) => out = ss)
  BY FoldSettles
<1> HIDE DEF out
<1>2. p > 1 => out = ss
  BY <1>1 DEF Settles
<1>3. ASSUME NEW name, NEW q \in 0 .. p, Settles(name, q, ss) PROVE Settles(name, q, out)
  <2>1. CASE p > 1
    BY <1>2, <1>3, <2>1
  <2>2. CASE ~(p > 1)
    BY <1>1, <1>3, <2>2 DEF Settles
  <2> QED BY <2>1, <2>2
<1> QED BY <1>1, <1>2, <1>3 DEF Calm, Settles, out

\* Dropping distincts.
LEMMA SaturationIsCalm ==
  ASSUME NEW ss, IsSequence(ss), NEW p \in Nat, p >= 1,
         p > 1 => Settles("SaturationRewrite", p - 1, ss)
  PROVE  Calm(p, ss, SaturationRewrite(ss)) /\ Settles("SaturationRewrite", p, SaturationRewrite(ss))
<1> DEFINE out == SaturationRewrite(ss)
<1>1. NoIdempotents(out) /\ (NoFolds(ss) => NoFolds(out)) /\ (NoIdempotents(ss) => out = ss)
  BY SaturationSettles
<1> HIDE DEF out
<1>2. p > 1 => out = ss
  BY <1>1 DEF Settles
<1>3. ASSUME NEW name, NEW q \in 0 .. p, Settles(name, q, ss) PROVE Settles(name, q, out)
  <2>1. CASE p > 1
    BY <1>2, <1>3, <2>1
  <2>2. CASE ~(p > 1)
    BY <1>1, <1>3, <2>2 DEF Settles
  <2> QED BY <2>1, <2>2
<1> QED BY <1>1, <1>2, <1>3 DEF Calm, Settles, out

\* Moving filters: from the third pass on only behind the projection ColumnPrune has put in
\* front, and there neither it nor a union has anything left to do.
LEMMA WalkIsCalm ==
  ASSUME NEW ss, IsSequence(ss), NEW p \in Nat, p >= 1,
         p > 1 => Settles("PredicatePushdown", p - 1, ss)
  PROVE  /\ Calm(p, ss, PushdownPass(ss))
         /\ PushdownPass(ss) = ss => Settles("PredicatePushdown", p, PushdownPass(ss))
<1> DEFINE out == PushdownPass(ss)
<1>1. /\ NoFolds(ss) => NoFolds(out)
      /\ NoIdempotents(ss) => NoIdempotents(out)
      /\ Pruned(ss) => Pruned(out)
      /\ NothingPushable(ss) <=> out = ss
  BY WalkSettles
<1>2. Pruned(out) => ~Prunes(out) /\ BehindUnion(out) = {}
  BY WalkIsSequence, PruneSettles
<1> HIDE DEF out
<1>3. p >= 3 => out = ss \/ Pruned(out)
  BY <1>1 DEF Settles
<1>4. p >= 5 => out = ss
  BY <1>1 DEF Settles
<1>5. ASSUME NEW name, NEW q \in 0 .. p, Settles(name, q, ss) PROVE Settles(name, q, out)
  <2>1. CASE out = ss
    BY <1>5, <2>1
  <2>2. CASE out # ss
    <3>1. name = "ConstantFold" /\ q >= 1 => NoFolds(out)
      BY <1>1, <1>5 DEF Settles
    <3>2. name = "SaturationRewrite" /\ q >= 1 => NoIdempotents(out)
      BY <1>1, <1>5 DEF Settles
    <3>3. name = "PredicatePushdown" /\ q >= 2 => Pruned(out)
      BY <1>1, <1>5, <2>2 DEF Settles
    <3>4. ~(name = "PredicatePushdown" /\ q >= 4)
      BY <1>1, <1>5, <2>2 DEF Settles
    <3>5. q >= 3 => ~Prunes(out) /\ BehindUnion(out) = {}
      BY <1>2, <1>3, <2>2
    <3> QED BY <3>1, <3>2, <3>3, <3>4, <3>5 DEF Settles
  <2> QED BY <2>1, <2>2
<1>6. out = ss => Settles("PredicatePushdown", p, out)
  BY <1>1 DEF Settles
<1> QED BY <1>4, <1>5, <1>6 DEF Calm, out

\* Pruning.
LEMMA PruneIsCalm ==
  ASSUME NEW ss, IsSequence(ss), NEW p \in Nat, p >= 1,
         p > 1 => Settles("ColumnPrune", p - 1, ss)
  PROVE  Calm(p, ss, ColumnPrune(ss)) /\ Settles("ColumnPrune", p, ColumnPrune(ss))
<1> DEFINE out == ColumnPrune(ss)
<1>1. /\ NoFolds(ss) => NoFolds(out)
      /\ NoIdempotents(ss) => NoIdempotents(out)
      /\ IF Prunes(ss) THEN Pruned(out) ELSE out = ss
  BY PruneSettles
<1>2. Pruned(out) => ~Prunes(out) /\ BehindUnion(out) = {}
  BY PruneIsSequence, PruneSettles
<1> HIDE DEF out
<1>3. p >= 4 => out = ss
  BY <1>1 DEF Settles
<1>4. ASSUME NEW name, NEW q \in 0 .. p, Settles(name, q, ss) PROVE Settles(name, q, out)
  <2>1. CASE out = ss
    BY <1>4, <2>1
  <2>2. CASE out # ss
    <3>1. Pruned(out) /\ ~(q >= 4)
      BY <1>1, <1>3, <2>2
    <3> QED BY <1>1, <1>2, <1>4, <3>1 DEF Settles
  <2> QED BY <2>1, <2>2
<1>5. Settles("ColumnPrune", p, out)
  BY <1>1, <1>2 DEF Settles
<1> QED BY <1>3, <1>4, <1>5 DEF Calm, out

\* Pushing filters into unions.
LEMMA PushIntoUnionIsCalm ==
  ASSUME NEW ss, IsSequence(ss), AllWellFormed(ss), NEW p \in Nat, p >= 1,
         p > 1 => Settles("PredicatePushdownUnion", p - 1, ss)
  PROVE  /\ Calm(p, ss, PushIntoUnion(ss))
         /\ BehindUnion(ss) = {} => Settles("PredicatePushdownUnion", p, PushIntoUnion(ss))
<1> DEFINE out == PushIntoUnion(ss)
<1>1. /\ NoFolds(ss) => NoFolds(out)
      /\ NoIdempotents(ss) => NoIdempotents(out)
      /\ NothingPushable(ss) => NothingPushable(out)
      /\ Pruned(ss) => out = ss
      /\ BehindUnion(ss) = {} => out = ss
      /\ ~Prunes(ss) => ~Prunes(out)
  BY PushIntoUnionSettles
<1> HIDE DEF out
<1>2. p >= 4 => out = ss
  BY <1>1 DEF Settles
<1>3. ASSUME NEW name, NEW q \in 0 .. p, Settles(name, q, ss) PROVE Settles(name, q, out)
  <2>1. CASE out = ss
    BY <1>3, <2>1
  <2>2. CASE out # ss
    BY <1>1, <1>3, <2>2 DEF Settles
  <2> QED BY <2>1, <2>2
<1>4. BehindUnion(ss) = {} => Settles("PredicatePushdownUnion", p, out)
  BY <1>1 DEF Settles
<1> QED BY <1>2, <1>3, <1>4 DEF Calm, out

\* What the rules of this pass and of the last one have settled, as long as TwoStageAgg has
\* changed nothing; in the fifth pass that is everything.
SettledInv ==
  /\ pass \in Nat /\ pass >= 1
  /\ phase # "rewrite" /\ changed => pass >= MaxIter
  /\ "TwoStageAgg" \notin fired =>
       /\ pass >= 5 => ~changed
       /\ \A k \in 1 .. Len(RuleSet) :
            /\ k < rule => Settles(RuleSet[k], pass, stages)
            /\ pass > 1 => Settles(RuleSet[k], pass - 1, stages)

\* A rule that keeps calm.
LEMMA RewriteSettled ==
  ASSUME SettledInv, IdleInv, NEW name, NEW out, At(name), Rewrite(name, out),
         rule' = rule \/ rule' = rule + 1,
         ("TwoStageAgg" \notin fired /\ name # "TwoStageAgg" /\ (pass > 1 => Settles(name, pass - 1, stages)))
           => Calm(pass, stages, out) /\ (rule' = rule + 1 => Settles(name, pass, out))
  PROVE  SettledInv'
<1> DEFINE n == Len(RuleSet)
<1>1. n \in Nat /\ rule \in 1 .. n /\ RuleSet[rule] = name /\ phase = "rewrite"
  BY RuleSetAssumption, LenProperties DEF IdleInv, At
<1>2. /\ stages' = out /\ changed' = (changed \/ out # stages) /\ pass' = pass /\ phase' = "rewrite"
      /\ out = stages => fired' = fired
      /\ out # stages => fired' = fired \cup {name}
  BY <1>1 DEF Rewrite
<1>3. ASSUME "TwoStageAgg" \notin fired'
      PROVE  /\ pass >= 5 => ~changed'
             /\ \A k \in 1 .. n : /\ k < rule' => Settles(RuleSet[k], pass, out)
                                  /\ pass > 1 => Settles(RuleSet[k], pass - 1, out)
  <2>1. "TwoStageAgg" \notin fired /\ (name = "TwoStageAgg" => out = stages)
    BY <1>2, <1>3
  <2>2. pass >= 1 /\ pass \in Nat /\ (pass >= 5 => ~changed) /\ (pass > 1 => Settles(name, pass - 1, stages))
    BY <1>1, <2>1 DEF SettledInv
  <2>3. Calm(pass, stages, out) /\ (rule' = rule + 1 => Settles(name, pass, out))
    <3>1. CASE name = "TwoStageAgg"
      BY <2>1, <3>1 DEF Calm, Settles
    <3>2. CASE name # "TwoStageAgg"
      BY <2>1, <2>2, <3>2
    <3> QED BY <3>1, <3>2
  <2>4. pass >= 5 => ~changed'
    BY <1>2, <2>2, <2>3 DEF Calm
  <2>5. ASSUME NEW k \in 1 .. n, k < rule' PROVE Settles(RuleSet[k], pass, out)
    <3>1. CASE k < rule
      <4>1. Settles(RuleSet[k], pass, stages) /\ pass \in 0 .. pass
        BY <2>1, <2>2, <3>1 DEF SettledInv
      <4> QED BY <2>3, <4>1 DEF Calm
    <3>2. CASE ~(k < rule)
      <4>1. k = rule /\ rule' = rule + 1
        BY <1>1, <2>5, <3>2
      <4> QED BY <1>1, <2>3, <4>1
    <3> QED BY <3>1, <3>2
  <2>6. ASSUME NEW k \in 1 .. n, pass > 1 PROVE Settles(RuleSet[k], pass - 1, out)
    <3>1. Settles(RuleSet[k], pass - 1, stages) /\ pass - 1 \in 0 .. pass
      BY <2>1, <2>2, <2>6 DEF SettledInv
    <3> QED BY <2>3, <3>1 DEF Calm
  <2> QED BY <2>4, <2>5, <2>6
<1>4. pass' \in Nat /\ pass' >= 1
  BY <1>2 DEF SettledInv
<1> QED BY <1>2, <1>3, <1>4 DEF SettledInv

\* Every step keeps what is settled.
LEMMA NextSettled == SettledInv /\ IdleInv /\ StatementInv /\ [Next]_vars => SettledInv'
<1> SUFFICES ASSUME SettledInv, IdleInv, StatementInv, [Next]_vars PROVE SettledInv'
  OBVIOUS
<1>0. IsSequence(stages) /\ pass \in Nat /\ pass >= 1 /\ rule \in Nat
  BY DEF IdleInv, SettledInv
<1>1. CASE Fold
  <2>1. At("ConstantFold") /\ Rewrite("ConstantFold", ConstantFold(stages)) /\ rule' = rule + 1
    BY <1>1 DEF Fold
  <2> QED BY <1>0, <2>1, FoldIsCalm, RewriteSettled
<1>2. CASE PushDown
  <2> DEFINE out == PushdownPass(stages)
  <2>1. /\ At("PredicatePushdown") /\ Rewrite("PredicatePushdown", out)
        /\ rule' = IF out = stages THEN rule + 1 ELSE rule
    BY <1>2 DEF PushDown
  <2>2. (pass > 1 => Settles("PredicatePushdown", pass - 1, stages)) =>
          Calm(pass, stages, out) /\ (out = stages => Settles("PredicatePushdown", pass, out))
    BY <1>0, WalkIsCalm
  <2> HIDE DEF out
  <2>3. rule' = rule + 1 => out = stages
    BY <1>0, <2>1
  <2> QED BY <2>1, <2>2, <2>3, RewriteSettled
<1>3. CASE Prune
  <2>1. At("ColumnPrune") /\ Rewrite("ColumnPrune", ColumnPrune(stages)) /\ rule' = rule + 1
    BY <1>3 DEF Prune
  <2> QED BY <1>0, <2>1, PruneIsCalm, RewriteSettled
<1>4. CASE PushIntoInputs
  <2> DEFINE out == PushIntoUnion(stages)
  <2>1. /\ At("PredicatePushdownUnion") /\ Rewrite("PredicatePushdownUnion", out)
        /\ rule' = IF BehindUnion(stages) = {} THEN rule + 1 ELSE rule
    BY <1>4 DEF PushIntoInputs
  <2>2. "TwoStageAgg" \notin fired => AllWellFormed(stages)
    BY DEF StatementInv
  <2>3. AllWellFormed(stages) /\ (pass > 1 => Settles("PredicatePushdownUnion", pass - 1, stages)) =>
          Calm(pass, stages, out) /\ (BehindUnion(stages) = {} => Settles("PredicatePushdownUnion", pass, out))
    BY <1>0, PushIntoUnionIsCalm
  <2> HIDE DEF out
  <2>4. rule' = rule + 1 => BehindUnion(stages) = {}
    BY <1>0, <2>1
  <2> QED BY <2>1, <2>2, <2>3, <2>4, RewriteSettled
<1>5. CASE SplitAggregate
  <2>1. PICK out \in TwoStageAgg(stages, large) : Rewrite("TwoStageAgg", out)
    BY <1>5 DEF SplitAggregate
  <2>2. At("TwoStageAgg") /\ rule' = rule + 1
    BY <1>5 DEF SplitAggregate
  <2> QED BY <2>1, <2>2, RewriteSettled
<1>6. CASE Saturate
  <2>1. /\ At("SaturationRewrite") /\ Rewrite("SaturationRewrite", SaturationRewrite(stages))
        /\ rule' = rule + 1
    BY <1>6 DEF Saturate
  <2> QED BY <1>0, <2>1, SaturationIsCalm, RewriteSettled
<1>7. CASE EndPass
  <2>1. /\ stages' = stages /\ fired' = fired /\ Len(RuleSet) \in Nat /\ rule = Len(RuleSet) + 1
        /\ phase = "rewrite" /\ MaxIter \in Nat
    BY <1>7, RuleSetAssumption, LenProperties DEF EndPass, IdleInv
  <2>2. CASE NextPass
    <3>1. pass' = pass + 1 /\ rule' = 1 /\ changed' = FALSE /\ phase' = "rewrite"
      BY <1>7, <2>1, <2>2 DEF EndPass
    <3>2. (pass + 1) - 1 = pass /\ pass + 1 \in Nat /\ pass + 1 >= 1
      BY <1>0
    <3>3. ASSUME "TwoStageAgg" \notin fired, NEW k \in 1 .. Len(RuleSet)
          PROVE  Settles(RuleSet[k], (pass + 1) - 1, stages) /\ ~(k < 1)
      <4>1. k < rule
        BY <2>1
      <4> QED BY <3>2, <3>3, <4>1 DEF SettledInv
    <3> QED BY <2>1, <3>1, <3>2, <3>3 DEF SettledInv
  <2>3. CASE ~NextPass
    <3>1. phase' = "emit" /\ UNCHANGED <<pass, rule, changed>>
      BY <1>7, <2>3 DEF EndPass
    <3>2. changed => pass >= MaxIter
      BY <1>0, <2>1, <2>3 DEF NextPass
    <3> QED BY <2>1, <3>1, <3>2 DEF SettledInv
  <2> QED BY <2>2, <2>3
<1>8. CASE Emit
  <2>1. phase = "emit" /\ phase' = "done" /\ UNCHANGED <<stages, rule, changed, fired, pass>>
    BY <1>8 DEF Emit
  <2> QED BY <2>1 DEF SettledInv
<1>9. CASE UNCHANGED vars
  BY <1>9 DEF vars, SettledInv
<1> QED BY <1>1, <1>2, <1>3, <1>4, <1>5, <1>6, <1>7, <1>8, <1>9 DEF Next

\* With a cap of five passes or more (the code has 16), the engine stops because nothing
\* changes any more, however long the pipeline and whatever the rules and their order
\* (rule.go:95-118): unless TwoStageAgg has split an aggregate, which it may split again.
THEOREM StopsBelowCap ==
  ASSUME MaxIter >= 5
  PROVE  Spec => []OnlyTwoStageOscillates
<1>1. SettledInv => OnlyTwoStageOscillates
  <2> SUFFICES ASSUME SettledInv, Rewritten, changed, "TwoStageAgg" \notin fired PROVE FALSE
    BY DEF OnlyTwoStageOscillates
  <2>1. pass >= MaxIter /\ ~(pass >= 5) /\ pass \in Nat
    BY DEF SettledInv, Rewritten
  <2> QED BY <2>1, RuleSetAssumption
<1>2. Init => SettledInv
  <2> SUFFICES ASSUME Init PROVE SettledInv
    OBVIOUS
  <2>1. pass = 1 /\ rule = 1 /\ changed = FALSE /\ phase = "rewrite"
    BY DEF Init
  <2> QED BY <2>1, RuleSetAssumption, LenProperties DEF SettledInv
<1> QED BY <1>1, <1>2, InitIdle, InitStatement, NextIdle, NextStatement, NextSettled, PTL DEF Spec

=============================================================================
