------------------------------ MODULE MCRouter ------------------------------
(***************************************************************************)
(* Lists of engines in both orders, and every pipeline of up to three       *)
(* stages that mentions only columns it has and gives no name twice, which   *)
(* PostgreSQL and the others read differently.                               *)
(***************************************************************************)
EXTENDS Router

CONSTANTS a, b, c, n, tabU

MCEngineLists == {<<>>, <<"sqlite">>, <<"pg", "duckdb">>, <<"duckdb", "pg">>, <<"sqlite", "pg">>,
                  <<"sqlite", "duckdb", "pg">>}
Row(x, y) == [col \in {a, b} |-> IF col = a THEN x ELSE y]
MCSource  == <<Row(1, 3), Row(2, 1), Row(1, 2)>>
MCTables  == [t \in {tabU} |-> <<Row(2, 3), Row(1, 3)>>]
MCCompute(v) == 3 - v

Stages == {Filter({Eq(a, 1)}), Filter({Eq(b, 2)}), Filter({Truth(TRUE)}), Limit(1), Limit(40),
           Sort(<<[col |-> a, desc |-> TRUE]>>), Project({Bare(a)}), Project({Bare(a), Bare(b)}),
           Extend({[name |-> c, ref |-> a, how |-> "computed"]}), Distinct({}),
           Aggregate({a}), Aggregate({}), UnionWith(<<[table |-> tabU, stages |-> <<>>]>>)}
UnionFirst(ss) == \A k \in DOMAIN ss : ss[k].op = "Union" => k = 1
OneOfEach(ss) == Twice(ss, {a, b})[Len(ss) + 1] = {}
MCPipelines ==
  {ss \in UNION {[1 .. m -> Stages] : m \in 0 .. 3} : Resolves(ss, {a, b}) /\ UnionFirst(ss) /\ OneOfEach(ss)}

MCRowCounts == {0, 1, 1000}
\* The default weights of pg, a millionth each: IO 1.0, CPU 0.01, Net 1.5 (64 bytes a row).
MCPg    == [io |-> 1000000, cpu |-> 10, net |-> 96]
MCSelectivity(preds) == IF preds = {Eq(a, 1)} THEN 5 ELSE IF preds = {} THEN 100 ELSE 50
=============================================================================
