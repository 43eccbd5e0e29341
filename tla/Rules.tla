-------------------------------- MODULE Rules --------------------------------
(***************************************************************************)
(* internal/optimizer/rules: what one Apply of each rewrite rule makes of   *)
(* the stages of a pipeline.  The engine that runs them is in Compile.       *)
(*                                                                          *)
(* Abstractions: columns are spelled one way; ViewMatch, the folding inside  *)
(* expressions and the not-null half of SaturationRewrite are left out.      *)
(***************************************************************************)
EXTENDS Rowsets

CONSTANTS
  ShardColumn,    \* the columns the statistics give more than 10 values
  UniqueColumn,   \* the columns the statistics give as many values as rows
  ShardName       \* __shard

AllBare(st) == st.items # {} /\ \A i \in st.items : i.how = "bare"
Names(st)   == {i.name : i \in st.items}
IsFilter(st) == st.op = "Filter"

\* The stages at the places in K.
Only(ss, K) ==
  LET kept[k \in 0 .. Len(ss)] ==
        IF k = 0 THEN <<>> ELSE IF k \in K THEN Append(kept[k - 1], ss[k]) ELSE kept[k - 1]
  IN  kept[Len(ss)]
Without(ss, i) == [k \in 1 .. Len(ss) - 1 |-> IF k < i THEN ss[k] ELSE ss[k + 1]]
InsertAt(ss, i, st) ==
  [k \in 1 .. Len(ss) + 1 |-> IF k < i THEN ss[k] ELSE IF k = i THEN st ELSE ss[k - 1]]

-----------------------------------------------------------------------------
(* PredicatePushdown *)

\* canPushPast: a filter may go before an extend that adds none of its columns, or
\* before a projection of bare columns that has all of them.
CanPushPastAnyExtend(st, preds) ==
  \/ st.op = "Extend"
  \/ st.op = "Project" /\ AllBare(st) /\ PredColumns(preds) \subseteq Names(st)
CanPushPastFilters(st, preds) ==
  \/ st.op = "Filter"
  \/ st.op = "Extend" /\ PredColumns(preds) \cap {i.name : i \in st.items} = {}
CanPushPast(st, preds) ==
  \/ st.op = "Extend" /\ PredColumns(preds) \cap {i.name : i \in {j \in st.items : j.how # "bare"}} = {}
  \/ st.op = "Project" /\ AllBare(st) /\ PredColumns(preds) \subseteq Names(st)

Pushable(ss, i) == i > 1 /\ IsFilter(ss[i]) /\ CanPushPast(ss[i - 1], ss[i].preds)
Swapped(ss, i)  == [ss EXCEPT ![i - 1] = ss[i], ![i] = ss[i - 1]]

\* One walk over the stages, from left to right.
PushdownPass(ss) ==
  LET after[i \in 0 .. Len(ss)] ==
        IF i = 0 THEN ss
        ELSE LET seen == after[i - 1] IN IF Pushable(seen, i) THEN Swapped(seen, i) ELSE seen
  IN  after[Len(ss)]

-----------------------------------------------------------------------------
(* ConstantFold, of the filters whose predicate is one literal *)

Tautology(st)     == IsFilter(st) /\ st.preds = {Truth(TRUE)}
Contradiction(st) == IsFilter(st) /\ st.preds = {Truth(FALSE)}
ConstantFoldDropping(ss) ==
  SelectSeq(ss, LAMBDA st : ~Tautology(st) /\ ~Contradiction(st))
ConstantFold(ss) ==
  Only([k \in DOMAIN ss |-> IF Contradiction(ss[k]) THEN Limit(0) ELSE ss[k]],
       {k \in DOMAIN ss : ~Tautology(ss[k])})

-----------------------------------------------------------------------------
(* ColumnPrune *)

IsPassthroughOrProject(st) == st.op \in {"Filter", "Sort", "Limit", "Distinct", "Project"}
IsPassthrough(st) == st.op \in {"Filter", "Sort", "Limit", "Distinct"}
Prunes(ss) ==
  /\ ss # <<>> /\ ss[Len(ss)].op = "Project" /\ AllBare(ss[Len(ss)])
  /\ \A k \in 1 .. Len(ss) - 1 : IsPassthrough(ss[k])
NeededOfLast(ss) == Names(ss[Len(ss)])
Needed(ss) == UNION {References(ss[k]) : k \in DOMAIN ss}
ColumnPrune(ss) ==
  IF Prunes(ss) THEN <<Project({Bare(c) : c \in Needed(ss)})>> \o ss ELSE ss

-----------------------------------------------------------------------------
(* PredicatePushdownUnion: of the first filter right behind a union *)

BehindUnion(ss) ==
  {i \in 2 .. Len(ss) : IsFilter(ss[i]) /\ ss[i - 1].op = "Union" /\ ss[i - 1].inputs # <<>>}
\* A mutant: the filter goes, and the inputs stay as they are.
PushNowhere(ss) ==
  LET i == CHOOSE k \in BehindUnion(ss) : \A m \in BehindUnion(ss) : k <= m
  IN  IF BehindUnion(ss) = {} THEN ss ELSE Without(ss, i)
PushIntoUnion(ss) ==
  LET i == CHOOSE k \in BehindUnion(ss) : \A m \in BehindUnion(ss) : k <= m
      u == ss[i - 1]
  IN  IF BehindUnion(ss) = {} THEN ss
      ELSE Without([ss EXCEPT ![i - 1].inputs =
                      [k \in DOMAIN u.inputs |-> [u.inputs[k] EXCEPT !.stages = Append(@, ss[i])]]], i)

-----------------------------------------------------------------------------
(* TwoStageAgg: of the first grouped count with a shard column left *)

Shards(st) == ShardColumn \ References(st)
Splittable(ss) ==
  {i \in DOMAIN ss : ss[i].op = "Aggregate" /\ References(ss[i]) # {} /\ Shards(ss[i]) # {}}
Partial(st, shard) ==
  [st EXCEPT !.items = @ \cup {[name |-> ShardName, ref |-> shard, how |-> "named"]}]

\* What it may make of a pipeline, on a table the statistics call large: a partial
\* count in front of the count, by one of the shard columns (the one with the most
\* values, which is not modelled).
TwoStageAgg(ss, large) ==
  LET i == CHOOSE k \in Splittable(ss) : \A m \in Splittable(ss) : k <= m
  IN  IF ~large \/ Splittable(ss) = {} THEN {ss}
      ELSE {InsertAt(ss, i, Partial(ss[i], shard)) : shard \in Shards(ss[i])}

-----------------------------------------------------------------------------
(* SaturationRewrite *)

Idempotent(st) == st.op = "Distinct" /\ st.cols # {} /\ st.cols \subseteq UniqueColumn
SaturationRewrite(ss) == Only(ss, {k \in DOMAIN ss : ~Idempotent(ss[k])})

=============================================================================
