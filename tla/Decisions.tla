------------------------------ MODULE Decisions ------------------------------
(***************************************************************************)
(* The choices by cost ExecOnOpt makes of an optimized pipeline, in this     *)
(* order: PredicateOrder, ApplyJoinOrder and JoinPlan of                     *)
(* internal/optimizer/decision, each a walk over the stages that rewrites    *)
(* them in place.  One step is one filter, one chain of joins, one join.     *)
(*                                                                          *)
(* A stage is a filter [op, id, conds], its conjuncts in order, or a join    *)
(* [op, id, kind, right, on, hint] with a table.  The rows a pipeline        *)
(* answers are combinations of the tables' rows: which row of each join's    *)
(* table, or none of it, went into an answer.  So the order of the columns    *)
(* and of the rows is left out, and nothing else.                            *)
(***************************************************************************)
EXTENDS Estimates, SequencesExt

CONSTANTS
  Source,        \* the name of the pipeline's table
  Pipelines,     \* the sequences of stages considered
  Catalogs,      \* what the statistics may say
  Policies,      \* subset of {"Conservative", "Aggressive", "ConfidenceGated"}
  WeightSets,    \* the dialects' weights
  Rows           \* the rows of each table, by lower-case name

NoHint == "none"
Kinds  == {"default", "inner", "innerunique", "left", "right", "full"}
Hints  == {NoHint, "hash", "nestloop", "merge", "indexlookup"}
Condition   == [form : {"sides", "pair", "key"}, l : STRING, r : STRING]
Predicate   == [col : STRING, op : STRING, val : Int]
JoinStage   == [op : {"Join"}, id : Nat \ {0}, kind : Kinds, right : STRING, on : Seq(Condition), hint : Hints]
FilterStage == [op : {"Filter"}, id : Nat \ {0}, conds : Seq(Predicate)]

ASSUME PipelineAssumption ==
  \A ss \in Pipelines : /\ ss \in Seq(JoinStage \cup FilterStage)
                         /\ \A m, n \in DOMAIN ss : ss[m].id = ss[n].id => m = n
ASSUME CatalogAssumption ==
  \A c \in Catalogs : \A t \in DOMAIN c.tables :
    LET table == c.tables[t]
    IN  /\ table.rows \in Nat
        /\ \A col \in DOMAIN table.cols : table.cols[col].card \in Nat
ASSUME WeightsAssumption ==
  \A w \in WeightSets : w \in [cpu : Nat, mem : Nat, io : Nat, tuple : Nat, buffer : Nat]
ASSUME PolicyAssumption == Policies \subseteq {"Conservative", "Aggressive", "ConfidenceGated"}

VARIABLES
  stages,        \* pipe.Stages
  orig,          \* what the optimizer handed over
  cat, policy, weights,
  phase,         \* the pass: "predicates", "order", "plan", "done"
  k              \* its index into stages

vars == <<stages, orig, cat, policy, weights, phase, k>>
given == <<orig, cat, policy, weights>>

IsJoin(st)   == st.op = "Join"
IsFilter(st) == st.op = "Filter"

-----------------------------------------------------------------------------
(* PredicateOrder *)

\* sortBySelectivity: insertion sort, so conjuncts of equal selectivity stay as they are.
InsertBy(order, i, sels) ==
  LET at == Cardinality({n \in DOMAIN order : sels[order[n]] <= sels[i]})
  IN  InsertAt(order, at + 1, i)
SortBySelectivity(sels) ==
  LET upto[n \in 0 .. Len(sels)] == IF n = 0 THEN <<>> ELSE InsertBy(upto[n - 1], n, sels)
  IN  upto[Len(sels)]

AnyRealStat(sels) == \E n \in DOMAIN sels : sels[n] # Default

\* OrderPredicates of the three policies.
Trusting(t) ==
  \/ policy = "Aggressive"
  \/ policy = "ConfidenceGated" /\ HighConfidence(cat, t)
OrderPredicates(t, sels) ==
  IF Trusting(t) \/ AnyRealStat(sels) THEN SortBySelectivity(sels) ELSE [n \in DOMAIN sels |-> n]

Selectivities(conds) == [n \in DOMAIN conds |-> Selectivity(cat, Source, conds[n])]
Reordered(conds) ==
  LET order == OrderPredicates(Source, Selectivities(conds))
  IN  [n \in DOMAIN conds |-> conds[order[n]]]

-----------------------------------------------------------------------------
(* ApplyJoinOrder *)

CommutativeUnlessLeft(st) == IsJoin(st) /\ st.kind \notin {"left", "full"}
Commutative(st) == IsJoin(st) /\ st.kind \in {"default", "inner", "innerunique"}

\* joinChain: the commutative joins from i on, if there are two.
ChainEnd(ss, i) ==
  CHOOSE e \in i - 1 .. Len(ss) :
    /\ \A n \in i .. e : Commutative(ss[n])
    /\ e < Len(ss) => ~Commutative(ss[e + 1])
JoinChain(ss, i) == IF ChainEnd(ss, i) > i THEN SubSeq(ss, i, ChainEnd(ss, i)) ELSE <<>>

\* joinOns: the conditions by table name; the last join of a name has its say.
OnOf(chain, name) == LET last == Max({n \in DOMAIN chain : chain[n].right = name}) IN chain[last].on

AddTableToSource(state, left, chain, i) ==
  LET t == chain[i].right
  IN  [cost |-> state.cost + ApproxJoinCost(Card(cat, Source), Card(cat, t), weights),
       out  |-> OutputCardinality(cat, left, t, OnOf(chain, t), Card(cat, Source), Card(cat, t)),
       last |-> i]

\* One more table behind rows of `out`; `left` is the table whose columns'
\* statistics the estimate may use.
AddTable(state, left, chain, i) ==
  LET t   == chain[i].right
      on  == OnOf(chain, t)
      out == OutputCardinality(cat, left, t, on, state.out, Card(cat, t))
  IN  [cost |-> state.cost + ApproxJoinCost(state.out, Card(cat, t), weights), out |-> out, last |-> i]

\* dp: the cheapest way to each set of tables, ties to the first table tried.
Best(chain) ==
  LET best[S \in SUBSET DOMAIN chain] ==
        IF S = {} THEN [cost |-> 0, out |-> Card(cat, Source), last |-> 0]
        ELSE LET via == [i \in S |->
                           AddTable(best[S \ {i}], IF S = {i} THEN Source ELSE "", chain, i)]
                 cheapest == Min({via[i].cost : i \in S})
             IN  via[Min({i \in S : via[i].cost = cheapest})]
  IN  best

\* EnumerateJoinOrder: table names.  Its way out for a join without conditions
\* (join_order.go:99-102) tests for a nil slice: the translator makes every ON a slice,
\* empty where none is written (translate_stage.go:232-235), so it is not taken.
EnumerateJoinOrder(chain) ==
  LET best == Best(chain)
      walk[S \in SUBSET DOMAIN chain] ==
        IF S = {} THEN <<>>
        ELSE Append(walk[S \ {best[S].last}], chain[best[S].last].right)
  IN  IF \E n \in DOMAIN chain : Card(cat, chain[n].right) = 0
      THEN [n \in DOMAIN chain |-> chain[n].right]
      ELSE walk[DOMAIN chain]

SameName(s, t) == Lower(s) = Lower(t)

ByNameReused(chain, names) ==
  [n \in DOMAIN chain |-> chain[Min({i \in DOMAIN chain : SameName(chain[i].right, names[n])})]]

\* The joins in the order of the names, each name taking the first join left of it.
ByName(chain, names) ==
  LET take[n \in 0 .. Len(names)] ==
        IF n = 0 THEN <<>>
        ELSE Append(take[n - 1],
                    Min({i \in DOMAIN chain :
                           i \notin Range(take[n - 1]) /\ SameName(chain[i].right, names[n])}))
  IN  [n \in DOMAIN chain |-> chain[take[Len(names)][n]]]

ReorderedChain(chain) ==
  LET optimal == EnumerateJoinOrder(chain)
  IN  IF \A n \in DOMAIN chain : SameName(optimal[n], chain[n].right)
      THEN chain ELSE ByName(chain, optimal)

-----------------------------------------------------------------------------
(* JoinPlan *)

HasCorr(t, c) == ColumnOf(Table(cat, t), c).corr
JoinHasCorr(st) == \E key \in JoinKeys(st.on) : HasCorr(Source, key.l) \/ HasCorr(st.right, key.r)
InnerHasIndex(st) == \E key \in JoinKeys(st.on) : key.r \in Table(cat, st.right).indexes

\* enumerate: candidates [kind, cost] in order, the default first.
Enumerate(st) ==
  LET left  == Table(cat, Source)
      right == Table(cat, st.right)
      hash  == HashJoinCost(left, right, weights)
      plan(kind, c) == [kind |-> kind, cost |-> c]
  IN  <<plan(NoHint, hash), plan("hash", hash), plan("nestloop", NestLoopCost(left, right, weights))>>
      \o (IF JoinHasCorr(st) THEN <<plan("merge", MergeJoinCost(left, right, weights))>> ELSE <<>>)
      \o (IF InnerHasIndex(st) /\ right.rows > 1000
          THEN <<plan("indexlookup", IndexLookupCost(left, weights))>> ELSE <<>>)

\* The scans of the two ChooseJoinPlan.
AggressivePlan(cands) ==
  LET upto[n \in 1 .. Len(cands)] ==
        IF n = 1 THEN cands[1]
        ELSE LET best == upto[n - 1]
             IN  IF \/ cands[n].cost < best.cost
                    \/ cands[n].cost = best.cost /\ best.kind = NoHint
                 THEN cands[n] ELSE best
  IN  upto[Len(cands)]
ConservativePlan(cands) ==
  LET upto[n \in 1 .. Len(cands)] ==
        IF n = 1 THEN cands[1]
        ELSE IF cands[n].cost < upto[n - 1].cost THEN cands[n] ELSE upto[n - 1]
      best == upto[Len(cands)]
  IN  IF cands[1].cost > 0 /\ best.cost * 10 < cands[1].cost THEN best ELSE cands[1]

ChooseJoinPlanUngated(cands) ==
  IF policy # "Conservative" THEN AggressivePlan(cands) ELSE ConservativePlan(cands)

\* A gated choice of a join asks for one trusted table anywhere in the catalog.
ChooseJoinPlan(cands) ==
  IF \/ policy = "Aggressive"
     \/ policy = "ConfidenceGated" /\ \E t \in DOMAIN cat.tables : HighConfidence(cat, t)
  THEN AggressivePlan(cands) ELSE ConservativePlan(cands)

\* A hint is only ever set, not taken back.
Planned(st) ==
  LET winner == ChooseJoinPlan(Enumerate(st))
  IN  IF winner.kind # NoHint THEN [st EXCEPT !.hint = winner.kind] ELSE st

-----------------------------------------------------------------------------
(* ExecOnOpt *)

Init ==
  /\ orig \in Pipelines /\ stages = orig
  /\ cat \in Catalogs /\ policy \in Policies /\ weights \in WeightSets
  /\ phase = "predicates" /\ k = 1

Through == k > Len(stages)

OrderConjuncts ==
  /\ phase = "predicates" /\ ~Through /\ IsFilter(stages[k])
  /\ stages' = [stages EXCEPT ![k].conds = Reordered(@)]
  /\ k' = k + 1
  /\ UNCHANGED <<phase, given>>

\* Without two stages, or the source's row count, ApplyJoinOrder changes nothing.
MayReorder == Len(stages) >= 2 /\ Card(cat, Source) > 0
ReorderChain ==
  /\ phase = "order" /\ ~Through /\ MayReorder /\ JoinChain(stages, k) # <<>>
  /\ LET chain == JoinChain(stages, k)
     IN  /\ stages' = SubSeq(stages, 1, k - 1) \o ReorderedChain(chain)
                        \o SubSeq(stages, k + Len(chain), Len(stages))
         /\ k' = k + Len(chain)
  /\ UNCHANGED <<phase, given>>

PlanJoin ==
  /\ phase = "plan" /\ ~Through /\ IsJoin(stages[k])
  /\ stages' = [stages EXCEPT ![k] = Planned(@)]
  /\ k' = k + 1
  /\ UNCHANGED <<phase, given>>

\* Every pass walks past the stages it is not about.
Skip ==
  /\ ~Through
  /\ CASE phase = "predicates" -> ~IsFilter(stages[k])
       [] phase = "order"      -> ~MayReorder \/ JoinChain(stages, k) = <<>>
       [] phase = "plan"       -> ~IsJoin(stages[k])
       [] OTHER                -> FALSE
  /\ k' = k + 1
  /\ UNCHANGED <<stages, phase, given>>

NextPass ==
  /\ Through /\ phase # "done"
  /\ phase' = CASE phase = "predicates" -> "order" [] phase = "order" -> "plan" [] OTHER -> "done"
  /\ k' = 1
  /\ UNCHANGED <<stages, given>>

Next == OrderConjuncts \/ ReorderChain \/ PlanJoin \/ Skip \/ NextPass
Spec == Init /\ [][Next]_vars

-----------------------------------------------------------------------------
(* What the executor answers.  A combination gives each stage's id a row      *)
(* number of its table, 0 for none; the source has id 0.                      *)

Null == -1
RowsOf(t) == Rows[Lower(t)]
ColumnsOf(t) == DOMAIN RowsOf(t)[1]
Scan(id, t) == <<[id |-> id, table |-> t]>>
Tables(ss) == FoldLeft(LAMBDA seen, st : IF IsJoin(st) THEN seen \o Scan(st.id, st.right) ELSE seen,
                       Scan(0, Source), ss)
KnownColumns(order) == UNION {ColumnsOf(order[n].table) : n \in DOMAIN order}

\* A bare column of rows joined in some order is the first table's that has it.
Value(order, combo, c) ==
  LET first == order[Min({n \in DOMAIN order : c \in ColumnsOf(order[n].table)})]
  IN  IF combo[first.id] = 0 THEN Null ELSE RowsOf(first.table)[combo[first.id]][c]
Equal(x, y) == x = y /\ x # Null

\* emitJoinOnExpr: an unqualified column is the left side's, in a pair both are.
Mentions(cond) == IF cond.form = "pair" THEN {cond.l, cond.r} ELSE {cond.l}
On(cond, order, combo, t, r) ==
  CASE cond.form = "sides" -> Equal(Value(order, combo, cond.l), RowsOf(t)[r][cond.r])
    [] cond.form = "pair"  -> Equal(Value(order, combo, cond.l), Value(order, combo, cond.r))
    [] OTHER               -> Value(order, combo, cond.l) \notin {0, Null}

Holds(p, v) == CASE p.op = "eq" -> v = p.val [] p.op = "neq" -> v # p.val
                 [] p.op = "less" -> v < p.val [] OTHER -> v >= p.val
Filtered(st, order, combos) ==
  {x \in combos : \A n \in DOMAIN st.conds :
     LET v == Value(order, x, st.conds[n].col) IN v # Null /\ Holds(st.conds[n], v)}

With(x, id, r) == [i \in DOMAIN x \cup {id} |-> IF i = id THEN r ELSE x[i]]
Nothing(order) == [i \in {order[n].id : n \in DOMAIN order} |-> 0]
Joined(st, order, combos) ==
  LET inner   == DOMAIN RowsOf(st.right)
      pair(x, r) == \A n \in DOMAIN st.on : On(st.on[n], order, x, st.right, r)
      matched == {With(y[1], st.id, y[2]) : y \in {z \in combos \X inner : pair(z[1], z[2])}}
      lonelyL == {x \in combos : \A r \in inner : ~pair(x, r)}
      lonelyR == {r \in inner : \A x \in combos : ~pair(x, r)}
  IN  matched
      \cup (IF st.kind \in {"left", "full"} THEN {With(x, st.id, 0) : x \in lonelyL} ELSE {})
      \cup (IF st.kind \in {"right", "full"} THEN {With(Nothing(order), st.id, r) : r \in lonelyR} ELSE {})

Behind(ss, n) == Tables(SubSeq(ss, 1, n))
Resolves(ss) ==
  \A n \in DOMAIN ss :
    LET cols == KnownColumns(Behind(ss, n - 1))
    IN  IF IsFilter(ss[n]) THEN \A m \in DOMAIN ss[n].conds : ss[n].conds[m].col \in cols
        ELSE \A m \in DOMAIN ss[n].on : Mentions(ss[n].on[m]) \subseteq cols
SqlRows(ss) ==
  LET upto[n \in 0 .. Len(ss)] ==
        IF n = 0 THEN {[i \in {0} |-> r] : r \in DOMAIN RowsOf(Source)}
        ELSE IF IsFilter(ss[n]) THEN Filtered(ss[n], Behind(ss, n - 1), upto[n - 1])
        ELSE Joined(ss[n], Behind(ss, n - 1), upto[n - 1])
  IN  upto[Len(ss)]

\* No combination there is: the database rejects the statement.
Rejected == {[i \in {-1} |-> 0]}
SqlAnswer(ss) == IF Resolves(ss) THEN SqlRows(ss) ELSE Rejected

\* execIndexLookup: the stages in front of the first join so hinted, its rows paired
\* by its first bare condition as an inner join; filters and joins behind pass.
LookupAnswer(ss) ==
  LET j     == Min({n \in DOMAIN ss : IsJoin(ss[n]) /\ ss[n].hint = "indexlookup"})
      pre   == SubSeq(ss, 1, j - 1)
      cond  == ss[j].on[Min({n \in DOMAIN ss[j].on : ss[j].on[n].form = "pair"})]
      match == {y \in SqlRows(pre) \X DOMAIN RowsOf(ss[j].right) :
                  Equal(Value(Tables(pre), y[1], cond.l), RowsOf(ss[j].right)[y[2]][cond.r])}
  IN  {With(y[1], ss[j].id, y[2]) : y \in match}
Answer(ss) ==
  IF \E n \in DOMAIN ss : IsJoin(ss[n]) /\ ss[n].hint = "indexlookup"
  THEN LookupAnswer(ss) ELSE SqlAnswer(ss)

-----------------------------------------------------------------------------
(* Properties *)

\* The stages, the pass and its index have the values the code gives them.
TypeOK ==
  /\ phase \in {"predicates", "order", "plan", "done"}
  /\ k \in 1 .. Len(orig) + 1
  /\ Len(stages) = Len(orig)
  /\ \A n \in DOMAIN stages :
       IsJoin(stages[n]) => stages[n].kind \in Kinds /\ stages[n].hint \in Hints

Ids(ss) == {ss[n].id : n \in DOMAIN ss}
Rearranged(s, t) ==
  \E p \in [DOMAIN t -> DOMAIN t] : Range(p) = DOMAIN t /\ s = [n \in DOMAIN t |-> t[p[n]]]
At(ss, id) == CHOOSE n \in DOMAIN ss : ss[n].id = id

\* No pass loses, repeats or alters a join or a conjunct, also when tables repeat or
\* differ in case; a filter or a join that does not commute keeps its place, and a
\* join stays between the same two of them.
StagesPermuted ==
  /\ Ids(stages) = Ids(orig)
  /\ \A n \in DOMAIN stages :
       LET was == orig[At(orig, stages[n].id)]
           m   == At(orig, stages[n].id)
       IN  IF IsFilter(stages[n])
           THEN m = n /\ Rearranged(stages[n].conds, was.conds)
                /\ [stages[n] EXCEPT !.conds = was.conds] = was
           ELSE /\ [stages[n] EXCEPT !.hint = was.hint] = was
                /\ \A i \in Min({m, n}) .. Max({m, n}) : m # n => Commutative(orig[i])

\* Where a chain starts, and what is in front of it.
Chains == {i \in DOMAIN orig : /\ JoinChain(orig, i) # <<>>
                               /\ i = 1 \/ ~Commutative(orig[i - 1])}
Anchored ==
  \A i \in Chains : \A j \in DOMAIN JoinChain(orig, i) : \A m \in DOMAIN JoinChain(orig, i)[j].on :
    Mentions(JoinChain(orig, i)[j].on[m]) \subseteq KnownColumns(Behind(orig, i - 1))

\* Ordering predicates and joins keeps the rows of the statement if the conditions of
\* a chain of joins mention, on the left, columns from in front of the chain only and
\* no later stage reads a column that two of its tables have.
NoClash ==
  \A i \in Chains :
    LET chain == JoinChain(orig, i)
    IN  \A n \in i + Len(chain) .. Len(orig) : \A x, y \in DOMAIN chain :
          LET shared == (ColumnsOf(chain[x].right) \cap ColumnsOf(chain[y].right))
                          \ KnownColumns(Behind(orig, i - 1))
          IN  x # y => IF IsFilter(orig[n])
                       THEN \A m \in DOMAIN orig[n].conds : orig[n].conds[m].col \notin shared
                       ELSE \A m \in DOMAIN orig[n].on : Mentions(orig[n].on[m]) \cap shared = {}
RowsSurviveReordering ==
  phase = "done" /\ Anchored /\ NoClash => SqlAnswer(stages) = SqlAnswer(orig)

\* An order of a chain costs what its joins cost one after the other.
CostsUpTo(chain) ==
  LET upto[n \in 0 .. Len(chain)] ==
        IF n = 0 THEN [cost |-> 0, out |-> Card(cat, Source)]
        ELSE LET s == upto[n - 1]
                 t == chain[n].right
             IN  [cost |-> s.cost + ApproxJoinCost(s.out, Card(cat, t), weights),
                  out  |-> OutputCardinality(cat, IF n = 1 THEN Source ELSE "", t, chain[n].on,
                                             s.out, Card(cat, t))]
  IN  upto
OrderCost(chain) == CostsUpTo(chain)[Len(chain)].cost
Permuted(chain) ==
  {[n \in DOMAIN chain |-> chain[p[n]]] :
     p \in {q \in [DOMAIN chain -> DOMAIN chain] : Range(q) = DOMAIN chain}}

\* The dynamic program finds the cheapest left-deep order of every chain when the
\* estimate of a set of tables does not depend on the way to it, and each table is
\* named once and has rows.
PathIndependent(chain) ==
  /\ \A a, b \in Permuted(chain) : \A n \in DOMAIN chain :
       {a[m] : m \in 1 .. n} = {b[m] : m \in 1 .. n} => CostsUpTo(a)[n].out = CostsUpTo(b)[n].out
  /\ \A x, y \in DOMAIN chain : x # y => ~SameName(chain[x].right, chain[y].right)
  /\ \A n \in DOMAIN chain : Card(cat, chain[n].right) > 0
CheapestOrder ==
  phase = "done" /\ MayReorder =>
    \A i \in Chains :
      LET chain == SubSeq(stages, i, ChainEnd(orig, i))
      IN  PathIndependent(chain) => \A other \in Permuted(chain) : OrderCost(chain) <= OrderCost(other)

\* A catalog that knows none of the tables changes nothing under a policy that does
\* not trust estimates.
WeakStatsChangeNothing ==
  /\ policy # "Aggressive"
  /\ \A t \in {Source} \cup {orig[n].right : n \in {m \in DOMAIN orig : IsJoin(orig[m])}} :
       {t, Lower(t)} \cap DOMAIN cat.tables = {}
  /\ \A t \in DOMAIN cat.tables : ~HighConfidence(cat, t)
  => stages = orig

\* join_order.go:193-194 "ON conditions are NOT rewritten - they reference columns by
\* name, which are order-independent for inner/innerunique joins": so a statement
\* with its joins reordered answers the same rows.
OnIsOrderIndependent == phase = "done" => SqlAnswer(stages) = SqlAnswer(orig)

\* stage.go:48-51 "Hints are advisory": a pipeline answers the same rows with the
\* hints it is given as with none.
NoHints(ss) == [n \in DOMAIN ss |-> IF IsJoin(ss[n]) THEN [ss[n] EXCEPT !.hint = NoHint] ELSE ss[n]]
HintsAreAdvisory == phase = "done" => Answer(stages) = Answer(NoHints(stages))

=============================================================================
