------------------------------- MODULE Router -------------------------------
(***************************************************************************)
(* internal/exec/router.go, the cross-engine router, and                    *)
(* internal/optimizer/decision/engine_plan.go, the cost-based plan of the   *)
(* same split.  ExecMulti decides the segments of a pipeline once and runs  *)
(* them one after another, each by ExecPipeline on its engine; EnginePlan    *)
(* prices the two segments and is asked by callers of the library.          *)
(*                                                                          *)
(* Abstractions: every engine has the same tables, ExecPipeline answers      *)
(* what the stages mean (Rowsets) or fails.  Costs are in millionths; a      *)
(* weight is the price of one IO, of a thousandth of CPU and of one row on   *)
(* the wire; the memory term, the same on both engines, is left out.        *)
(***************************************************************************)
EXTENDS Rowsets, TLC

CONSTANTS
  EngineLists,       \* the lists of engines ExecMulti may be given
  Pipelines,         \* the pipelines it may be given
  Source, Tables,    \* the rows of the source, and of the tables of unions
  RowCounts,         \* the row counts the statistics may hold for the source
  Weight,            \* [io, cpu, net]
  Selectivity(_)     \* the estimated selectivity of a filter's atoms, in percent

ASSUME PipelineAssumption ==
  \A ss \in Pipelines : ss \in Seq({ss[k] : k \in DOMAIN ss})
ASSUME WeightAssumption == Weight \in [{"io", "cpu", "net"} -> Nat]
ASSUME SelectivityAssumption ==
  \A ss \in Pipelines : \A k \in DOMAIN ss : Selectivity(ss[k].preds) \in 0 .. 100

\* The first Aggregate, or 0.
FirstAggregate(ss) ==
  LET S == {k \in DOMAIN ss : ss[k].op = "Aggregate"}
  IN  IF S = {} THEN 0 ELSE CHOOSE k \in S : \A j \in S : k <= j
Front(ss, k) == SubSeq(ss, 1, k - 1)
Back(ss, k)  == SubSeq(ss, k, Len(ss))
Has(engines, name) == \E e \in DOMAIN engines : engines[e] = name
Segment(engine, ss) == [engine |-> engine, stages |-> ss]

-----------------------------------------------------------------------------
(* EngineRouter.Route *)

\* A mutant: the split is behind the aggregate.
RouteBehindAggregate(engines, ss) ==
  LET k == FirstAggregate(ss)
  IN  IF Len(engines) <= 1 THEN << Segment(IF engines = <<>> THEN "default" ELSE engines[1], ss) >>
      ELSE IF k = 0 \/ ~ Has(engines, "pg") \/ ~ Has(engines, "duckdb") THEN << Segment(engines[1], ss) >>
      ELSE << Segment("pg", Front(ss, k + 1)), Segment("duckdb", Back(ss, k + 1)) >>
Route(engines, ss) ==
  LET k == FirstAggregate(ss)
  IN  IF Len(engines) <= 1 THEN << Segment(IF engines = <<>> THEN "default" ELSE engines[1], ss) >>
      ELSE IF ~ Has(engines, "pg") \/ ~ Has(engines, "duckdb") THEN << Segment(engines[1], ss) >>
      ELSE CASE k = 0 -> << Segment("pg", ss) >>
             [] k = 1 -> << Segment("duckdb", ss) >>
             [] OTHER -> << Segment("pg", Front(ss, k)), Segment("duckdb", Back(ss, k)) >>

-----------------------------------------------------------------------------
(* EnginePlan.Plan *)

LimitValue(st, card) == IF st.n < card THEN st.n ELSE card
AggregateKeys(st)    == Cardinality(st.cols) + Cardinality(st.items)

\* The rows a stage is estimated to leave of `card`.
CardAfter(st, card) ==
  CASE st.op = "Filter"    -> (card * Selectivity(st.preds)) \div 100
    [] st.op = "Aggregate" -> AggregateKeys(st) * 10 + 1
    [] st.op = "Limit"     -> LimitValue(st, card)
    [] OTHER               -> card
\* estimateSegmentCost's case for one stage over `card` rows.
StageCost(st, card, engine) ==
  CASE st.op = "Filter" ->
         (IF engine = "pg" /\ Selectivity(st.preds) < 10 THEN CardAfter(st, card) * 4 ELSE card)
         * Weight.io + card * 10 * Weight.cpu
    [] st.op = "Aggregate" -> card * (IF engine = "duckdb" THEN 1 ELSE 10) * Weight.cpu
    [] st.op = "Sort"      -> card * (IF engine = "duckdb" THEN 2 ELSE 20) * Weight.cpu
    [] st.op \in {"Project", "Extend"} -> card * 5 * Weight.cpu
    [] OTHER -> 0
\* What the stages cost on an engine from `card` rows on, and the rows they leave.
Estimated(ss, card, engine) ==
  LET after[k \in 0 .. Len(ss)] ==
        IF k = 0 THEN [cost |-> 0, card |-> card]
        ELSE [cost |-> after[k - 1].cost + StageCost(ss[k], after[k - 1].card, engine),
              card |-> CardAfter(ss[k], after[k - 1].card)]
  IN  after[Len(ss)]
SegmentCost(ss, card, engine) == Estimated(ss, card, engine).cost

\* transferCost: of the pre-stages only a limit is looked at.
TransferCost(pre, card) ==
  LET left[k \in 0 .. Len(pre)] ==
        IF k = 0 THEN card
        ELSE IF pre[k].op = "Limit" THEN LimitValue(pre[k], left[k - 1]) ELSE left[k - 1]
  IN  left[Len(pre)] * (Weight.cpu + Weight.net)

\* Both engines are priced from the row count of the source, whatever `pre` leaves.
CheaperOnDuckDB(pre, post, card) ==
  SegmentCost(post, card, "duckdb") + TransferCost(pre, card) < SegmentCost(post, card, "pg")

Plan(ss, rowCount, hasDuckDB) ==
  LET k    == FirstAggregate(ss)
      pre  == Front(ss, k)
      post == Back(ss, k)
  IN  IF k = 0 \/ ~ hasDuckDB THEN << Segment("pg", ss) >>
      ELSE << Segment("pg", pre),
              Segment(IF CheaperOnDuckDB(pre, post, rowCount) THEN "duckdb" ELSE "pg", post) >>

-----------------------------------------------------------------------------
(* ExecMulti *)

VARIABLES
  engines, stages, rowCount,   \* the arguments, and the statistics
  decisions,                   \* the segments, <<>> until they are decided
  i,                           \* the next segment
  currentRows,                 \* the rows of the last segment
  ran,                         \* the engines that answered a segment, in order
  status                       \* "start", "running", "done" or "failed"
vars == << engines, stages, rowCount, decisions, i, currentRows, ran, status >>

Init ==
  /\ engines \in EngineLists
  /\ stages \in Pipelines
  /\ rowCount \in RowCounts
  /\ decisions = <<>>
  /\ i = 1
  /\ currentRows = <<>>
  /\ ran = <<>>
  /\ status = "start"

Fail == status' = "failed" /\ UNCHANGED << engines, stages, rowCount, decisions, i, currentRows, ran >>
NoEngines == status = "start" /\ engines = <<>> /\ Fail

\* One engine, or one segment: the whole pipeline on the first engine of the list.
Decided == Route(engines, stages)
Whole   == Len(engines) = 1 \/ Len(Decided) = 1
RunWhole ==
  /\ status = "start" /\ engines # <<>> /\ Whole
  /\ decisions' = IF Len(engines) = 1 THEN <<>> ELSE Decided
  /\ currentRows' = Meaning(stages, Source, Tables)
  /\ ran' = << engines[1] >>
  /\ status' = "done"
  /\ UNCHANGED << engines, stages, rowCount, i >>
WholeFails == status = "start" /\ engines # <<>> /\ Whole /\ Fail

Decide ==
  /\ status = "start" /\ engines # <<>> /\ ~ Whole
  /\ decisions' = Decided
  /\ status' = "running"
  /\ UNCHANGED << engines, stages, rowCount, i, currentRows, ran >>

\* A mutant: the rows of the first segment stay.
RunSegmentKeepingRows ==
  /\ status = "running" /\ i <= Len(decisions)
  /\ Has(engines, decisions[i].engine)
  /\ currentRows' = IF i = 1 THEN Meaning(decisions[i].stages, Source, Tables) ELSE currentRows
  /\ ran' = Append(ran, decisions[i].engine)
  /\ i' = i + 1
  /\ UNCHANGED << engines, stages, rowCount, decisions, status >>
\* Every segment, the later ones too, reads the source of the pipeline.
RunSegment ==
  /\ status = "running" /\ i <= Len(decisions)
  /\ Has(engines, decisions[i].engine)
  /\ currentRows' = Meaning(decisions[i].stages, Source, Tables)
  /\ ran' = Append(ran, decisions[i].engine)
  /\ i' = i + 1
  /\ UNCHANGED << engines, stages, rowCount, decisions, status >>
SegmentFails == status = "running" /\ i <= Len(decisions) /\ Fail
Return ==
  /\ status = "running" /\ i > Len(decisions)
  /\ status' = "done"
  /\ UNCHANGED << engines, stages, rowCount, decisions, i, currentRows, ran >>

Next == NoEngines \/ RunWhole \/ WholeFails \/ Decide \/ RunSegment \/ SegmentFails \/ Return
Spec == Init /\ [][Next]_vars

-----------------------------------------------------------------------------
(* Properties *)

TypeOK ==
  /\ status \in {"start", "running", "done", "failed"}
  /\ i \in 1 .. Len(decisions) + 1
  /\ \A d \in DOMAIN ran : Has(engines, ran[d])
  /\ \A d \in DOMAIN decisions : Has(engines, decisions[d].engine)

Joined(segments) ==
  LET before[d \in 0 .. Len(segments)] == IF d = 0 THEN <<>> ELSE before[d - 1] \o segments[d].stages
  IN  before[Len(segments)]

\* The segments a query is cut into are the query, no stage lost, doubled or moved, and
\* the heuristic router and the cost-based plan cut it at the same place, in front of
\* the first aggregate (router.go:84-112, engine_plan.go:75-100).
SegmentsAreThePipeline ==
  LET plan  == Plan(stages, rowCount, TRUE)
      route == Route(engines, stages)
  IN  /\ Joined(route) = stages /\ Joined(plan) = stages
      /\ Len(route) = 2 => [d \in {1, 2} |-> route[d].stages] = [d \in {1, 2} |-> plan[d].stages]
      /\ Len(route) = 2 => FirstAggregate(route[1].stages) = 0 /\ FirstAggregate(route[2].stages) = 1

SameRows(r, s) ==
  /\ Len(r) = Len(s)
  /\ \A x \in {r[k] : k \in DOMAIN r} :
       Cardinality({k \in DOMAIN r : r[k] = x}) = Cardinality({k \in DOMAIN s : s[k] = x})
Answer == Meaning(stages, Source, Tables)
FrontRows == Applied(decisions[1].stages, Source, Tables)

\* The routed answer is the pipeline's, row for row, wherever the first segment leaves
\* the rows of the source where they are; a query with one segment always has it.  A
\* first segment that drops or changes rows, which the second never sees
\* (router.go:190-205), is excluded: that is RoutedAnswer, which fails.
RoutedAsWritten ==
  status = "done" /\ (Len(decisions) > 1 => FrontRows = Source) => currentRows = Answer

\* "fall back to executing remaining stages on DuckDB against the original source [...].
\* This is correct but not optimal" (router.go:197-200): every routed answer has the rows
\* of the pipeline.  It fails where the first segment drops rows.
RoutedAnswer == status = "done" => SameRows(currentRows, Answer)

\* Priced from the rows the first segment leaves, as estimated.
PaysOff(pre, post) ==
  LET left == Estimated(pre, rowCount, "pg").card
  IN  SegmentCost(post, left, "duckdb") + left * (Weight.cpu + Weight.net)
        < SegmentCost(post, left, "pg")
\* "the router must ensure the cheaper engine's advantage exceeds the transfer cost"
\* (engine_plan.go:15-16): the plan switches only where that is so, on its own estimate
\* of the rows.  It fails behind a filter, which neither price takes account of.
TransferPaysOff ==
  LET k == FirstAggregate(stages)
  IN  k # 0 /\ Plan(stages, rowCount, TRUE)[2].engine = "duckdb" => PaysOff(Front(stages, k), Back(stages, k))
=============================================================================
