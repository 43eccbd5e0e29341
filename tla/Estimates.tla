------------------------------ MODULE Estimates ------------------------------
(***************************************************************************)
(* internal/optimizer/stats and internal/optimizer/cost: what the optimizer *)
(* reads out of a statistics catalog, and the costs it computes from it.     *)
(*                                                                          *)
(* A catalog is [source, tables]; a table [rows, width, cols, indexes]: its  *)
(* row count, the width of a row in units of 64 bytes, its columns'          *)
(* statistics and the leading columns of its indexes; a column [card, mcv,   *)
(* bounds, corr]: distinct values, frequency of each most common value,      *)
(* bounds of the histogram, whether a correlation is recorded.               *)
(*                                                                          *)
(* Abstractions: the code's floating-point numbers are integers in units     *)
(* named below, chosen so that the enumerated numbers are exact up to the    *)
(* roundings the code makes itself.  The correction for correlated keys      *)
(* (corr.go) is left out: it needs two keys with a recorded correlation.     *)
(***************************************************************************)
EXTENDS Integers, Sequences, FiniteSetsExt

CONSTANT Lower(_)     \* strings.ToLower

-----------------------------------------------------------------------------
(* The catalog *)

Unknown == [rows |-> 0, width |-> 0, cols |-> <<>>, indexes |-> {}]
Exactly(cat, t) == IF t \in DOMAIN cat.tables THEN cat.tables[t] ELSE Unknown

\* tableCard, colHasCorr and innerHasIndex try the lower-case name first;
\* columnStats and Confidence know the exact one only.
Table(cat, t) == IF Lower(t) \in DOMAIN cat.tables THEN cat.tables[Lower(t)] ELSE Exactly(cat, t)
Card(cat, t)  == Table(cat, t).rows

NoColumn == [card |-> 0, mcv |-> <<>>, bounds |-> 0, corr |-> FALSE]
ColumnOf(table, c) == IF c \in DOMAIN table.cols THEN table.cols[c] ELSE NoColumn
HasColumn(cat, t, c) == c \in DOMAIN Exactly(cat, t).cols

\* Confidence: the source's ceiling, scaled by the core fields each column has.
Ceiling(cat) == CASE cat.source = "pg_analyze" -> 90
                  [] cat.source = "sampling"   -> 70
                  [] cat.source = "manual"     -> 60
                  [] OTHER                     -> 50
CoreFields(col) == (IF col.card > 0 THEN 2 ELSE 0)
                 + (IF DOMAIN col.mcv # {} THEN 1 ELSE 0) + (IF col.bounds > 0 THEN 1 ELSE 0)
HighConfidence(cat, t) ==
  /\ t \in DOMAIN cat.tables
  /\ LET cols == cat.tables[t].cols
     IN  IF DOMAIN cols = {} THEN Ceiling(cat) >= 50
         ELSE Ceiling(cat) * MapThenSumSet(LAMBDA c : CoreFields(cols[c]), DOMAIN cols)
                >= 200 * Cardinality(DOMAIN cols)

-----------------------------------------------------------------------------
(* Selectivities of predicates [col, op, val], in thousandths *)

Default == 100      \* DefaultSelectivity

EqSelectivity(col, v) ==
  IF v \in DOMAIN col.mcv THEN col.mcv[v]
  ELSE IF col.card > 0 THEN 1000 \div col.card ELSE Default
EqualitySelectivity(col, p) ==
  IF p.val \in DOMAIN col.mcv \/ col.card > 0
  THEN IF p.op = "neq" THEN 1000 - EqSelectivity(col, p.val) ELSE EqSelectivity(col, p.val)
  ELSE Default
RangeSelectivity(col) == IF col.bounds > 0 THEN 1000 \div (2 * col.bounds) ELSE 330

Selectivity(cat, t, p) ==
  LET col == ColumnOf(Exactly(cat, t), p.col)
  IN  IF ~HasColumn(cat, t, p.col) THEN Default
      ELSE CASE p.op \in {"eq", "neq"} -> EqualitySelectivity(col, p)
             [] p.op = "less"          -> RangeSelectivity(col)
             [] OTHER                  -> Default     \* has, contains, a function

-----------------------------------------------------------------------------
(* Joins.  A condition is [form, l, r]:                                      *)
(*   "sides"  $left.l == $right.r, two member expressions;                   *)
(*   "pair"   l == r, two bare columns;                                      *)
(*   "key"    the bare column l.                                             *)
(* Only a pair has the two columns joinOperands and joinKeys look for.        *)

JoinKeys(on) == {on[k] : k \in {n \in DOMAIN on : on[n].form = "pair"}}

\* Every selectivity a join has is one over an integer.
EqJoinDivisor(cat, lt, rt, cond) ==
  LET most == Max({ColumnOf(Exactly(cat, lt), cond.l).card, ColumnOf(Exactly(cat, rt), cond.r).card})
  IN  IF most > 0 THEN most ELSE 10
JoinDivisor(cat, lt, rt, on) ==
  LET upto[k \in 0 .. Len(on)] ==
        IF k = 0 THEN 1
        ELSE upto[k - 1] * (IF on[k].form = "pair" THEN EqJoinDivisor(cat, lt, rt, on[k]) ELSE 10)
  IN  upto[Len(on)]
OutputCardinality(cat, lt, rt, on, lcard, rcard) ==
  IF lcard <= 0 \/ rcard <= 0 THEN 0 ELSE Max({1, (lcard * rcard) \div JoinDivisor(cat, lt, rt, on)})

-----------------------------------------------------------------------------
(* Costs, for weights [cpu, mem, io, tuple].  approxJoinCost multiplies by    *)
(* the CPU weight, and Total by it again: `cpu` is its square, `mem` the      *)
(* memory weight times 64 bytes, in one unit of the dialect's choice.         *)

Smaller(x, y) == Min({x, y})
ApproxJoinCost(lcard, rcard, w) ==
  LET small == Smaller(lcard, rcard)
      hash  == (lcard + rcard) * w.cpu + small * w.mem
      loop  == lcard * rcard * w.cpu
  IN  Smaller(hash, loop)

\* join_cost.go with PostgreSQL's page and tuple costs: `io`, `buffer` and
\* `tuple` weigh 64 bytes read, 64 bytes of hash table and a tuple; a page has
\* 128 units of 64 bytes, and 1000 pages stay in the cache.
Size(rows, width) == rows * (IF width <= 0 THEN 1 ELSE width)
HashJoinCost(l, r, w) ==
  LET swap  == r.rows > l.rows /\ l.rows > 0
      inner == IF swap THEN l ELSE r
      outer == IF swap THEN r ELSE l
  IN  (Size(inner.rows, inner.width) + Size(outer.rows, outer.width)) * w.io
        + (3 * inner.rows + outer.rows) * w.tuple
        + Size(inner.rows, inner.width) * w.buffer
NestLoopCost(l, r, w) ==
  LET outer == Max({1, l.rows})
      inner == Max({1, r.rows})
      spill == Size(inner, r.width) - 128 * 1000
  IN  (Size(inner, r.width) + Size(outer, l.width)) * w.io
        + (IF spill > 0 THEN spill * outer * w.io ELSE 0) + outer * inner * w.tuple
MergeJoinCost(l, r, w) ==
  (Size(l.rows, l.width) + Size(r.rows, r.width)) * w.io + (l.rows + r.rows) * w.tuple
IndexLookupCost(l, w) == Max({1, l.rows}) * (4 * 128 * w.io + w.tuple)

=============================================================================
