------------------------------ MODULE MCCompile ------------------------------
(***************************************************************************)
(* Every pipeline of up to three stages of an alphabet that has each         *)
(* operator, and longer ones in which the rules meet, that mention only       *)
(* columns they have, over a table with unique and one with repeated rows.    *)
(***************************************************************************)
EXTENDS Compile

CONSTANTS a, b, c, n, tabU, shard

MCCompute(v) == 3 - v
\* The bounds: 2 columns of the table, 3 values, tables of 3 rows, limits up to 2,
\* one union input; MaxIter is 6 where liveness is checked.
MCSourceColumn == {a, b}
Row(x, y) == [col \in {a, b} |-> IF col = a THEN x ELSE y]
MCSources == {<<Row(1, 3), Row(2, 1), Row(1, 2)>>, <<Row(1, 2), Row(1, 2), Row(2, 1)>>}
MCTables  == [t \in {tabU} |-> <<Row(2, 3), Row(1, 3)>>]
MCTableColumn == [t \in {tabU} |-> {a, b}]
MCRuleSet == <<"ConstantFold", "PredicatePushdown", "ColumnPrune", "PredicatePushdownUnion",
               "TwoStageAgg", "SaturationRewrite">>

FilterA   == Filter({Eq(a, 1)})
FilterB   == Filter({Eq(b, 2)})
FilterC   == Filter({Eq(c, 1)})
Never     == Filter({Truth(FALSE)})
Always    == Filter({Truth(TRUE)})
ExtendC   == Extend({[name |-> c, ref |-> b, how |-> "computed"]})
ExtendA   == Extend({[name |-> a, ref |-> b, how |-> "computed"]})   \* a name that is taken
ProjectA  == Project({Bare(a)})
ProjectAB == Project({Bare(a), Bare(b)})
ProjectC  == Project({Bare(b), [name |-> c, ref |-> a, how |-> "named"]})
SortA     == Sort(<<[col |-> a, desc |-> TRUE]>>)
SortB     == Sort(<<[col |-> b, desc |-> FALSE]>>)
UnionU    == UnionWith(<<[table |-> tabU, stages |-> <<>>]>>)
UnionUA   == UnionWith(<<[table |-> tabU, stages |-> <<FilterA>>]>>)
Alphabet ==
  {FilterA, FilterC, Never, Always, ExtendC, ProjectA, ProjectC, SortA, SortB, Limit(1), Limit(2),
   Distinct({b}), Distinct({}), Aggregate({a}), UnionU}

Long ==
  {<<FilterA, SortB, FilterB, ProjectAB>>, <<FilterB, FilterA, SortB, ProjectA>>,
   <<ExtendC, FilterC, FilterA, ProjectA>>,
   <<SortB, ExtendC, FilterA, Limit(2)>>, <<ExtendC, ProjectA, FilterA, FilterA>>,
   <<UnionU, FilterA, FilterB, ExtendC>>, <<Always, FilterA, SortA, ProjectA>>,
   <<UnionUA, SortA, ProjectA>>, <<FilterB, UnionUA, UnionU, FilterA>>,
   <<ExtendA, FilterA, SortA, Limit(1)>>, <<ExtendA, ProjectA, FilterA>>, <<SortB, ExtendA, Distinct({}), ProjectA>>}
MCPipelines ==
  {ss \in {<<x>> : x \in Alphabet} \cup {<<x, y>> : x, y \in Alphabet}
            \cup {<<x, y, z>> : x, y, z \in Alphabet} \cup Long : Legal(ss) /\ UnionsOnce(ss)}

=============================================================================
