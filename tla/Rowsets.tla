------------------------------- MODULE Rowsets -------------------------------
(***************************************************************************)
(* What the stages of internal/ir/stage.go mean on rows: the reference the  *)
(* optimizer's rewrites and the SQL emitter are compared with.               *)
(*                                                                          *)
(* A rowset is a function from positions, in the order of the scan, to rows;*)
(* positions may be sparse, so a stage that only drops rows restricts the    *)
(* domain.  A row is a function from columns to values.  The nested emitter  *)
(* (sqlite/emit.go) puts one subquery around another per stage, which reads  *)
(* each stage's rows in the order of the one inside it: Applied is that.     *)
(*                                                                          *)
(* Abstractions: values are small integers, a computed expression is         *)
(* Compute of one column, a predicate is a set of atoms that must all hold,  *)
(* the only aggregate is count(); NULLs and types are left out.              *)
(*                                                                          *)
(* An extend appends its columns and keeps the ones there are (stage.go:     *)
(* 103-104, emit.go:170-185), so a name may be held twice.  A row maps a     *)
(* name to what a later mention of it reads: the first column of that name,  *)
(* to which the binder resolves it (Lookup) and which SQLite and DuckDB take.*)
(* The columns that no mention can reach are left out of rows and of the      *)
(* sets of columns; they are computed from others that stay, so a distinct is *)
(* the same without them.  PostgreSQL calls such a mention ambiguous.         *)
(***************************************************************************)
EXTENDS Integers, Sequences, FiniteSets

CONSTANTS
  Compute(_),      \* the value an expression computes from a column's
  CountColumn      \* the column a count() is named

(***************************************************************************)
(* Atoms: [kind |-> "eq", col, val], or a literal [kind |-> "truth", col,   *)
(* val] whose truth is val = 1.                                              *)
(* Items of a projection or an extend: [name, ref, how], `how` being "bare"  *)
(* (a column), "named" (a column under another name) or "computed".          *)
(* Stages carry every field, the ones their operator does not use empty:     *)
(*   op, preds, items, keys, n, cols, inputs                                 *)
(***************************************************************************)
Blank == [op |-> "", preds |-> {}, items |-> {}, keys |-> <<>>, n |-> 0, cols |-> {}, inputs |-> <<>>]

Filter(preds)     == [Blank EXCEPT !.op = "Filter", !.preds = preds]
Extend(items)     == [Blank EXCEPT !.op = "Extend", !.items = items]
Project(items)    == [Blank EXCEPT !.op = "Project", !.items = items]
Sort(keys)        == [Blank EXCEPT !.op = "Sort", !.keys = keys]
Limit(n)          == [Blank EXCEPT !.op = "Limit", !.n = n]
Distinct(cols)    == [Blank EXCEPT !.op = "Distinct", !.cols = cols]   \* {} is `distinct *`
Aggregate(cols)   == [Blank EXCEPT !.op = "Aggregate", !.cols = cols]  \* and its named keys in items
UnionWith(inputs) == [Blank EXCEPT !.op = "Union", !.inputs = inputs]  \* each [table, stages]

Eq(col, val) == [kind |-> "eq", col |-> col, val |-> val]
Truth(b)     == [kind |-> "truth", col |-> CountColumn, val |-> IF b THEN 1 ELSE 0]
Bare(c)      == [name |-> c, ref |-> c, how |-> "bare"]

-----------------------------------------------------------------------------
(* Columns *)

\* walkColumns: the columns an expression references.
PredColumns(preds) == {p.col : p \in {q \in preds : q.kind = "eq"}}
KeyColumns(keys)   == {keys[k].col : k \in DOMAIN keys}
References(st) ==
  PredColumns(st.preds) \cup {i.ref : i \in st.items} \cup KeyColumns(st.keys) \cup st.cols

\* The columns that can be mentioned behind a stage.
ColumnsAfter(st, cols) ==
  CASE st.op = "Extend"    -> cols \cup {i.name : i \in st.items}
    [] st.op = "Project"   -> {i.name : i \in st.items}
    [] st.op = "Distinct"  -> IF st.cols = {} THEN cols ELSE st.cols
    [] st.op = "Aggregate" -> st.cols \cup {i.name : i \in st.items} \cup {CountColumn}
    [] OTHER               -> cols

\* The columns in front of each stage, and behind the last.
Columns(ss, source) ==
  LET before[k \in 1 .. Len(ss) + 1] ==
        IF k = 1 THEN source ELSE ColumnsAfter(ss[k - 1], before[k - 1])
  IN  before

\* The names held twice in front of each stage, and behind the last.
Twice(ss, source) ==
  LET before[k \in 1 .. Len(ss) + 1] ==
        IF k = 1 THEN {}
        ELSE LET st == ss[k - 1]
             IN  CASE st.op = "Extend" ->
                        before[k - 1] \cup ({i.name : i \in st.items} \cap Columns(ss, source)[k - 1])
                   [] st.op \in {"Project", "Aggregate"} \/ st.cols # {} -> {}
                   [] OTHER -> before[k - 1]
  IN  before

\* Every stage mentions columns it has.
Resolves(ss, source) ==
  \A k \in DOMAIN ss : References(ss[k]) \subseteq Columns(ss, source)[k]

-----------------------------------------------------------------------------
(* Rows *)

Keep(r, S)  == [k \in S |-> r[k]]
Holds(p, row) == IF p.kind = "eq" THEN row[p.col] = p.val ELSE p.val = 1
Where(r, preds) == Keep(r, {k \in DOMAIN r : \A p \in preds : Holds(p, r[k])})

Item(i, row) == IF i.how = "computed" THEN Compute(row[i.ref]) ELSE row[i.ref]
OutRow(items, row) ==
  [c \in {i.name : i \in items} |-> Item(CHOOSE i \in items : i.name = c, row)]

\* The value computed for a name that is taken stands behind the other, where nothing
\* reads it.
Extended(r, items) ==
  [k \in DOMAIN r |->
     [c \in DOMAIN r[k] \cup {i.name : i \in items} |->
        IF c \in DOMAIN r[k] THEN r[k][c] ELSE OutRow(items, r[k])[c]]]
Projected(r, items) == [k \in DOMAIN r |-> OutRow(items, r[k])]

FirstRows(r, n) == Keep(r, {k \in DOMAIN r : Cardinality({j \in DOMAIN r : j < k}) < n})

\* ORDER BY keys: x comes before y, the scan order deciding ties.
Earlier(x, y, key) == IF key.desc THEN x[key.col] > y[key.col] ELSE x[key.col] < y[key.col]
Precedes(r, keys, j, k) ==
  \/ \E n \in DOMAIN keys :
       /\ Earlier(r[j], r[k], keys[n])
       /\ \A m \in 1 .. n - 1 : r[j][keys[m].col] = r[k][keys[m].col]
  \/ j < k /\ \A n \in DOMAIN keys : r[j][keys[n].col] = r[k][keys[n].col]
Rank(r, keys, k) == Cardinality({j \in DOMAIN r : Precedes(r, keys, j, k)}) + 1
Sorted(r, keys) ==
  [p \in 1 .. Cardinality(DOMAIN r) |-> r[CHOOSE k \in DOMAIN r : Rank(r, keys, k) = p]]

\* The first of the rows that agree on some columns, cut down to them.
Cut(row, cols) == [c \in cols |-> row[c]]
Group(r, cols, k) == {j \in DOMAIN r : Cut(r[j], cols) = Cut(r[k], cols)}
Leaders(r, cols)  == {k \in DOMAIN r : \A j \in Group(r, cols, k) : k <= j}
DistinctRows(r, cols) ==
  IF DOMAIN r = {} THEN r
  ELSE LET on == IF cols = {} THEN DOMAIN r[CHOOSE k \in DOMAIN r : TRUE] ELSE cols
       IN  [k \in Leaders(r, on) |-> Cut(r[k], on)]
\* count() by some columns and some columns under other names.
Aggregated(r, cols, items) ==
  LET by == cols \cup {i.ref : i \in items}
  IN  IF by = {} THEN [k \in {1} |-> [c \in {CountColumn} |-> Cardinality(DOMAIN r)]]
      ELSE [k \in Leaders(r, by) |->
              [c \in cols \cup {i.name : i \in items} \cup {CountColumn} |->
                 IF c = CountColumn THEN Cardinality(Group(r, by, k))
                 ELSE IF c \in cols THEN r[k][c] ELSE OutRow(items, r[k])[c]]]

\* The rows in the order of their positions, and one rowset behind another.
InOrder(r) == Sorted(r, <<>>)
Concat(r, s) == InOrder(r) \o InOrder(s)

\* One stage without sub-pipelines, on rows that have the columns it mentions.
ApplyPlain(st, r) ==
  CASE st.op = "Filter"    -> Where(r, st.preds)
    [] st.op = "Extend"    -> Extended(r, st.items)
    [] st.op = "Project"   -> Projected(r, st.items)
    [] st.op = "Sort"      -> IF st.keys = <<>> THEN r ELSE Sorted(r, st.keys)
    [] st.op = "Limit"     -> FirstRows(r, st.n)
    [] st.op = "Distinct"  -> DistinctRows(r, st.cols)
    [] st.op = "Aggregate" -> Aggregated(r, st.cols, st.items)
    [] OTHER               -> r
PlainRows(ss, r) ==
  LET after[k \in 0 .. Len(ss)] == IF k = 0 THEN r ELSE ApplyPlain(ss[k], after[k - 1])
  IN  after[Len(ss)]

\* A union reads its inputs, whose pipelines hold no union of their own, behind
\* the rows it has, and keeps one of each.
UnionRows(inputs, r, tables) ==
  LET after[k \in 0 .. Len(inputs)] ==
        IF k = 0 THEN r ELSE Concat(after[k - 1], PlainRows(inputs[k].stages, tables[inputs[k].table]))
  IN  IF inputs = <<>> THEN r ELSE DistinctRows(after[Len(inputs)], {})

ApplyStage(st, r, tables) ==
  IF st.op = "Union" THEN UnionRows(st.inputs, r, tables) ELSE ApplyPlain(st, r)
Applied(ss, r, tables) ==
  LET after[k \in 0 .. Len(ss)] == IF k = 0 THEN r ELSE ApplyStage(ss[k], after[k - 1], tables)
  IN  after[Len(ss)]

\* The answer: the rows in order.
Meaning(ss, r, tables) == InOrder(Applied(ss, r, tables))

=============================================================================
