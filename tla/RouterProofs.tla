---------------------------- MODULE RouterProofs ----------------------------
(***************************************************************************)
(* Proofs about Router, for every list of engines and pipelines of any       *)
(* length: the segments are the pipeline and both routers cut it at the same  *)
(* place, and a routed query answers as written where the first segment      *)
(* keeps the rows.                                                           *)
(*                                                                          *)
(* What the operators compute stage by stage is unfolded once per operator:   *)
(* Iteration (Induction) gives the function, the lemma the equations.        *)
(***************************************************************************)
EXTENDS Router, SequenceTheorems, Induction

-----------------------------------------------------------------------------
(* Cutting a pipeline *)

\* The first aggregate is one, and no stage in front of it is.
LEMMA FirstAggregateIsFirst ==
  ASSUME NEW S, NEW ss \in Seq(S)
  PROVE  /\ FirstAggregate(ss) \in 0 .. Len(ss)
         /\ FirstAggregate(ss) = 0 => \A k \in 1 .. Len(ss) : ss[k].op # "Aggregate"
         /\ FirstAggregate(ss) > 0 => ss[FirstAggregate(ss)].op = "Aggregate"
         /\ \A k \in 1 .. FirstAggregate(ss) - 1 : ss[k].op # "Aggregate"
<1> DEFINE A == {k \in DOMAIN ss : ss[k].op = "Aggregate"}
           first == CHOOSE k \in A : \A j \in A : k <= j
<1>1. DOMAIN ss = 1 .. Len(ss) /\ Len(ss) \in Nat
  BY LenProperties
<1>2. FirstAggregate(ss) = IF A = {} THEN 0 ELSE first
  BY Zenon DEF FirstAggregate
<1>3. CASE A = {}
  BY <1>1, <1>2, <1>3
<1>4. CASE A # {}
  <2>1. A \subseteq Nat
    BY <1>1
  <2>2. first \in A /\ \A j \in A : first <= j
    <3> HIDE DEF A
    <3> QED BY <1>4, <2>1, ChosenLeast
  <2> HIDE DEF first
  <2> QED BY <1>1, <1>2, <1>4, <2>2
<1> QED BY <1>3, <1>4

\* A pipeline with a first stage that aggregates has its first aggregate there.
LEMMA AggregateFirst ==
  ASSUME NEW S, NEW ss \in Seq(S), Len(ss) >= 1, ss[1].op = "Aggregate"
  PROVE  FirstAggregate(ss) = 1
BY FirstAggregateIsFirst, LenProperties

\* Front and Back are the two parts of a pipeline.
LEMMA CutInTwo ==
  ASSUME NEW S, NEW ss \in Seq(S), NEW k \in 1 .. Len(ss)
  PROVE  /\ Front(ss, k) \in Seq(S) /\ Back(ss, k) \in Seq(S)
         /\ Front(ss, k) \o Back(ss, k) = ss
         /\ Len(Front(ss, k)) = k - 1 /\ \A j \in 1 .. k - 1 : Front(ss, k)[j] = ss[j]
         /\ Len(Back(ss, k)) >= 1 /\ Back(ss, k)[1] = ss[k]
<1>1. Len(ss) \in Nat /\ DOMAIN ss = 1 .. Len(ss) /\ ss \in [1 .. Len(ss) -> S]
  BY LenProperties
<1>2. Front(ss, k) \in Seq(S) /\ Len(Front(ss, k)) = k - 1 /\ \A j \in 1 .. k - 1 : Front(ss, k)[j] = ss[j]
  BY <1>1, SubSeqProperties DEF Front
<1>3. Back(ss, k) \in Seq(S) /\ Len(Back(ss, k)) = Len(ss) - k + 1 /\ Back(ss, k)[1] = ss[k]
  BY <1>1, SubSeqProperties DEF Back
<1>4. Front(ss, k) \o Back(ss, k) = SubSeq(ss, 1, Len(ss))
  BY <1>1, ConcatAdjacentSubSeq DEF Front, Back
<1>5. SubSeq(ss, 1, Len(ss)) = ss
  BY SubSeqFull
<1>6. Len(Back(ss, k)) >= 1
  BY <1>1, <1>3
<1> QED BY <1>2, <1>3, <1>4, <1>5, <1>6, Zenon

\* Without an aggregate in front of the cut, the front has none.
LEMMA FrontHasNone ==
  ASSUME NEW S, NEW ss \in Seq(S), FirstAggregate(ss) > 0
  PROVE  FirstAggregate(Front(ss, FirstAggregate(ss))) = 0
<1> DEFINE k == FirstAggregate(ss)
<1>1. k \in 1 .. Len(ss) /\ Len(ss) \in Nat /\ \A j \in 1 .. k - 1 : ss[j].op # "Aggregate"
  BY FirstAggregateIsFirst, LenProperties
<1>2. /\ Front(ss, k) \in Seq(S) /\ Len(Front(ss, k)) = k - 1
      /\ \A j \in 1 .. k - 1 : Front(ss, k)[j] = ss[j]
  BY <1>1, CutInTwo
<1> DEFINE fr == Front(ss, k)
           m  == FirstAggregate(fr)
<1>3. m \in 0 .. Len(fr) /\ (m > 0 => fr[m].op = "Aggregate")
  BY <1>2, FirstAggregateIsFirst
<1>4. m > 0 => fr[m].op # "Aggregate"
  BY <1>1, <1>2, <1>3
<1> QED BY <1>3, <1>4

\* The function Joined computes: the segments so far, joined.
Before(segments) ==
  CHOOSE g : g = [d \in 0 .. Len(segments) |-> IF d = 0 THEN <<>> ELSE g[d - 1] \o segments[d].stages]

\* Joining segments puts each behind those before it.
LEMMA JoinedUnfolds ==
  ASSUME NEW S, NEW segments, Len(segments) \in Nat,
         \A d \in 1 .. Len(segments) : segments[d].stages \in Seq(S)
  PROVE  /\ Joined(segments) = Before(segments)[Len(segments)]
         /\ Before(segments)[0] = <<>>
         /\ \A d \in 1 .. Len(segments) : Before(segments)[d] = Before(segments)[d - 1] \o segments[d].stages
<1> DEFINE n == Len(segments)
           X == Seq(S)
           T == [d \in 1 .. n |-> [x \in X |-> x \o segments[d].stages]]
           F(g) == g = [d \in 0 .. n |-> IF d = 0 THEN <<>> ELSE g[d - 1] \o segments[d].stages]
           f == Before(segments)
<1>1. T \in [1 .. n -> [X -> X]]
  BY ConcatProperties
<1>2. <<>> \in X
  BY EmptySeq
<1>3. PICK g : Iterates(g, X, n, <<>>, T)
  <2> HIDE DEF X, T
  <2> QED BY <1>1, <1>2, Iteration
<1>4. ASSUME NEW d \in 1 .. n PROVE g[d] = g[d - 1] \o segments[d].stages
  <2>1. g[d - 1] \in X
    <3> HIDE DEF X, T
    <3> QED BY <1>3 DEF Iterates
  <2>2. T[d] = [x \in X |-> x \o segments[d].stages]
    OBVIOUS
  <2> HIDE DEF X, T
  <2> QED BY <1>3, <2>1, <2>2 DEF Iterates
<1>5. F(g)
  <2> HIDE DEF X, T
  <2>1. ASSUME NEW d \in 0 .. n
        PROVE  g[d] = IF d = 0 THEN <<>> ELSE g[d - 1] \o segments[d].stages
    <3>1. d = 0 \/ d \in 1 .. n
      OBVIOUS
    <3> QED BY <1>3, <1>4, <3>1 DEF Iterates
  <2> QED BY <1>3, <2>1 DEF Iterates
<1>6. F(f)
  <2>1. f = CHOOSE h : F(h)
    BY DEF Before
  <2> HIDE DEF F, f
  <2> QED BY <1>5, <2>1
<1>7. f[0] = <<>> /\ \A d \in 1 .. n : f[d] = f[d - 1] \o segments[d].stages
  <2> HIDE DEF f
  <2>1. \A d \in 0 .. n : f[d] = IF d = 0 THEN <<>> ELSE f[d - 1] \o segments[d].stages
    BY <1>6
  <2>2. f[0] = <<>>
    BY <2>1
  <2>3. ASSUME NEW d \in 1 .. n PROVE f[d] = f[d - 1] \o segments[d].stages
    <3>1. d \in 0 .. n /\ d # 0
      OBVIOUS
    <3> QED BY <2>1, <3>1
  <2> QED BY <2>2, <2>3
<1>8. Joined(segments) = f[n]
  BY DEF Joined, Before
<1> QED BY <1>7, <1>8, Zenon

\* One segment that holds a pipeline joins to it.
LEMMA JoinedOne ==
  ASSUME NEW S, NEW ss \in Seq(S), NEW e
  PROVE  Joined(<< Segment(e, ss) >>) = ss
<1> DEFINE one == << Segment(e, ss) >>
<1>1. Len(one) = 1 /\ one[1].stages = ss
  BY DEF Segment
<1> HIDE DEF one
<1>2. Len(one) \in Nat /\ \A d \in 1 .. Len(one) : one[d].stages \in Seq(S)
  BY <1>1
<1>3. /\ Joined(one) = Before(one)[Len(one)] /\ Before(one)[0] = <<>>
      /\ \A d \in 1 .. Len(one) : Before(one)[d] = Before(one)[d - 1] \o one[d].stages
  BY <1>2, JoinedUnfolds, Zenon
<1>4. Before(one)[1] = <<>> \o ss
  <2>1. 1 \in 1 .. Len(one) /\ 1 - 1 = 0
    BY <1>1
  <2>2. Before(one)[1] = Before(one)[1 - 1] \o one[1].stages
    BY <1>3, <2>1, Zenon
  <2> QED BY <1>1, <1>3, <2>1, <2>2, Zenon
<1>5. <<>> \o ss = ss
  BY ConcatEmptySeq
<1> QED BY <1>1, <1>3, <1>4, <1>5 DEF one

\* Two segments join to one part behind the other.
LEMMA JoinedTwo ==
  ASSUME NEW S, NEW s \in Seq(S), NEW t \in Seq(S), NEW e, NEW f
  PROVE  Joined(<< Segment(e, s), Segment(f, t) >>) = s \o t
<1> DEFINE two == << Segment(e, s), Segment(f, t) >>
<1>1. Len(two) = 2 /\ two[1].stages = s /\ two[2].stages = t
  BY DEF Segment
<1> HIDE DEF two
<1>2. \A d \in 1 .. 2 : two[d].stages \in Seq(S)
  <2>1. \A d \in 1 .. 2 : d = 1 \/ d = 2
    OBVIOUS
  <2> QED BY <1>1, <2>1
<1>3. Len(two) \in Nat /\ \A d \in 1 .. Len(two) : two[d].stages \in Seq(S)
  BY <1>1, <1>2
<1>4. /\ Joined(two) = Before(two)[Len(two)] /\ Before(two)[0] = <<>>
      /\ \A d \in 1 .. Len(two) : Before(two)[d] = Before(two)[d - 1] \o two[d].stages
  BY <1>3, JoinedUnfolds, Zenon
<1>5. Before(two)[1] = <<>> \o s /\ Before(two)[2] = Before(two)[1] \o t
  <2>1. 1 \in 1 .. Len(two) /\ 2 \in 1 .. Len(two) /\ 1 - 1 = 0 /\ 2 - 1 = 1
    BY <1>1
  <2>2. Before(two)[1] = Before(two)[1 - 1] \o two[1].stages
    BY <1>4, <2>1, Zenon
  <2>3. Before(two)[2] = Before(two)[2 - 1] \o two[2].stages
    BY <1>4, <2>1, Zenon
  <2> QED BY <1>1, <1>4, <2>1, <2>2, <2>3, Zenon
<1>6. <<>> \o s = s
  BY ConcatEmptySeq
<1> QED BY <1>1, <1>4, <1>5, <1>6 DEF two

-----------------------------------------------------------------------------
(* The two routers *)

\* The parts in front of and from the first aggregate on.
CutAt(ss, e, f) == << Segment(e, Front(ss, FirstAggregate(ss))), Segment(f, Back(ss, FirstAggregate(ss))) >>

\* Route makes those two segments, or one of the whole pipeline.
LEMMA RouteCuts ==
  ASSUME NEW S, NEW ss \in Seq(S), NEW es
  PROVE  \/ \E e : Route(es, ss) = << Segment(e, ss) >>
         \/ FirstAggregate(ss) > 1 /\ \E e, f : Route(es, ss) = CutAt(ss, e, f)
<1> DEFINE k == FirstAggregate(ss)
<1>1. k \in Nat
  BY FirstAggregateIsFirst, LenProperties
<1>2. CASE Len(es) <= 1
  <2>1. Route(es, ss) = << Segment(IF es = <<>> THEN "default" ELSE es[1], ss) >>
    BY <1>2 DEF Route
  <2> QED BY <2>1
<1>3. CASE ~ (Len(es) <= 1) /\ (~ Has(es, "pg") \/ ~ Has(es, "duckdb"))
  <2>1. Route(es, ss) = << Segment(es[1], ss) >>
    BY <1>3 DEF Route
  <2> QED BY <2>1
<1>4. CASE ~ (Len(es) <= 1) /\ Has(es, "pg") /\ Has(es, "duckdb")
  <2>1. CASE k = 0
    <3>1. Route(es, ss) = << Segment("pg", ss) >>
      BY <1>4, <2>1 DEF Route
    <3> QED BY <3>1
  <2>2. CASE k = 1
    <3>1. Route(es, ss) = << Segment("duckdb", ss) >>
      BY <1>4, <2>2 DEF Route
    <3> QED BY <3>1
  <2>3. CASE k > 1
    <3>1. Route(es, ss) = CutAt(ss, "pg", "duckdb")
      BY <1>1, <1>4, <2>3 DEF Route, CutAt
    <3> QED BY <2>3, <3>1
  <2> QED BY <1>1, <2>1, <2>2, <2>3
<1> QED BY <1>2, <1>3, <1>4

\* The cost-based plan, too.
LEMMA PlanCuts ==
  ASSUME NEW S, NEW ss \in Seq(S), NEW rows
  PROVE  IF FirstAggregate(ss) = 0 THEN Plan(ss, rows, TRUE) = << Segment("pg", ss) >>
         ELSE \E f : Plan(ss, rows, TRUE) = CutAt(ss, "pg", f)
<1> DEFINE k == FirstAggregate(ss)
           f == IF CheaperOnDuckDB(Front(ss, k), Back(ss, k), rows) THEN "duckdb" ELSE "pg"
<1>1. CASE k = 0
  BY <1>1 DEF Plan
<1>2. CASE k # 0
  <2>1. Plan(ss, rows, TRUE) = CutAt(ss, "pg", f)
    BY <1>2 DEF Plan, CutAt
  <2> QED BY <1>2, <2>1
<1> QED BY <1>1, <1>2

\* Whatever is cut at the first aggregate joins to the pipeline.
LEMMA CutJoins ==
  ASSUME NEW S, NEW ss \in Seq(S), FirstAggregate(ss) > 0, NEW e, NEW f
  PROVE  Joined(CutAt(ss, e, f)) = ss
<1> DEFINE k == FirstAggregate(ss)
<1>1. k \in 1 .. Len(ss)
  BY FirstAggregateIsFirst, LenProperties
<1>2. Front(ss, k) \in Seq(S) /\ Back(ss, k) \in Seq(S) /\ Front(ss, k) \o Back(ss, k) = ss
  BY <1>1, CutInTwo
<1> HIDE DEF k
<1>3. Joined(<< Segment(e, Front(ss, k)), Segment(f, Back(ss, k)) >>) = ss
  BY <1>2, JoinedTwo
<1> QED BY <1>3 DEF CutAt, k

\* The two parts are the stages of the two segments.
LEMMA CutHolds ==
  ASSUME NEW ss, NEW e, NEW f
  PROVE  /\ Len(CutAt(ss, e, f)) = 2
         /\ CutAt(ss, e, f)[1].stages = Front(ss, FirstAggregate(ss))
         /\ CutAt(ss, e, f)[2].stages = Back(ss, FirstAggregate(ss))
BY DEF CutAt, Segment

\* Any pipeline is cut as SegmentsAreThePipeline says.
LEMMA CutsAgree ==
  ASSUME stages \in Pipelines
  PROVE  SegmentsAreThePipeline
<1> DEFINE S     == {stages[k] : k \in DOMAIN stages}
           m     == FirstAggregate(stages)
           route == Route(engines, stages)
           plan  == Plan(stages, rowCount, TRUE)
<1>1. stages \in Seq(S)
  BY PipelineAssumption
<1> HIDE DEF S
<1>2. m \in 0 .. Len(stages) /\ Len(stages) \in Nat
  BY <1>1, FirstAggregateIsFirst, LenProperties
<1>3. Joined(plan) = stages
  <2>1. CASE m = 0
    BY <1>1, <2>1, PlanCuts, JoinedOne
  <2>2. CASE m # 0
    <3>1. m > 0
      BY <1>2, <2>2
    <3>2. PICK h : plan = CutAt(stages, "pg", h)
      BY <1>1, <2>2, PlanCuts
    <3>3. Joined(CutAt(stages, "pg", h)) = stages
      BY <1>1, <3>1, CutJoins
    <3> QED BY <3>2, <3>3
  <2> QED BY <2>1, <2>2
<1>4. CASE \E e : route = << Segment(e, stages) >>
  <2>1. PICK e : route = << Segment(e, stages) >>
    BY <1>4
  <2>2. Joined(route) = stages /\ Len(route) = 1
    BY <1>1, <2>1, JoinedOne
  <2>3. Len(route) # 2
    BY <2>2
  <2> QED BY <1>3, <2>2, <2>3, Zenon DEF SegmentsAreThePipeline
<1>5. CASE m > 1 /\ \E e, f : route = CutAt(stages, e, f)
  <2>0. m # 0 /\ m > 0
    BY <1>2, <1>5
  <2>1. PICK e, f : route = CutAt(stages, e, f)
    BY <1>5
  <2>2. PICK h : plan = CutAt(stages, "pg", h)
    BY <1>1, <2>0, PlanCuts
  <2>3. Joined(route) = stages
    <3>1. Joined(CutAt(stages, e, f)) = stages
      BY <1>1, <2>0, CutJoins
    <3> QED BY <2>1, <3>1
  <2>4. \A d \in {1, 2} : route[d].stages = plan[d].stages
    BY <2>1, <2>2, CutHolds
  <2>5. FirstAggregate(route[1].stages) = 0
    BY <1>1, <2>0, <2>1, CutHolds, FrontHasNone
  <2>6. FirstAggregate(route[2].stages) = 1
    <3>1. Back(stages, m) \in Seq(S) /\ Len(Back(stages, m)) >= 1 /\ Back(stages, m)[1] = stages[m]
      BY <1>1, <1>2, <1>5, CutInTwo
    <3>2. stages[m].op = "Aggregate"
      BY <1>1, <1>5, FirstAggregateIsFirst
    <3> QED BY <2>1, <3>1, <3>2, CutHolds, AggregateFirst
  <2> HIDE DEF route, plan
  <2>7. [d \in {1, 2} |-> route[d].stages] = [d \in {1, 2} |-> plan[d].stages]
    BY <2>4
  <2> QED BY <1>3, <2>3, <2>5, <2>6, <2>7 DEF SegmentsAreThePipeline, route, plan
<1> QED BY <1>1, <1>4, <1>5, RouteCuts, Zenon

\* The pipeline is never changed.
LEMMA StagesStay == Spec => [](stages \in Pipelines)
<1>1. Init => stages \in Pipelines
  BY DEF Init
<1>2. stages \in Pipelines /\ [Next]_vars => (stages \in Pipelines)'
  BY DEF Next, vars, NoEngines, RunWhole, WholeFails, Decide, RunSegment, SegmentFails, Return, Fail
<1> QED BY <1>1, <1>2, PTL DEF Spec

\* The segments of Route and of EnginePlan are the pipeline, cut in front of the first
\* aggregate or not at all, for pipelines of any length and any list of engines
\* (router.go:84-112, engine_plan.go:75-100).
THEOREM RoutersAgree == Spec => []SegmentsAreThePipeline
<1>1. stages \in Pipelines => SegmentsAreThePipeline
  BY CutsAgree
<1> QED BY <1>1, StagesStay, PTL

-----------------------------------------------------------------------------
(* The rows of a pipeline, stage by stage *)

\* f[k] are the rows behind the first k stages.
RowsBehind(f, ss, n, r) ==
  f = [k \in 0 .. n |-> IF k = 0 THEN r ELSE ApplyStage(ss[k], f[k - 1], Tables)]
AppliedBy(ss, r) == CHOOSE f : RowsBehind(f, ss, Len(ss), r)

\* There are rows behind any number of stages.
LEMMA RowsExist ==
  ASSUME NEW ss, NEW r, NEW n \in Nat
  PROVE  \E f : RowsBehind(f, ss, n, r)
<1> DEFINE S == {m \in Nat : \E f : RowsBehind(f, ss, m, r)}
<1>1. 0 \in S
  <2> DEFINE f == [k \in 0 .. 0 |-> r]
  <2>1. RowsBehind(f, ss, 0, r)
    <3>1. [k \in 0 .. 0 |-> IF k = 0 THEN r ELSE ApplyStage(ss[k], f[k - 1], Tables)] = f
      OBVIOUS
    <3> QED BY <3>1 DEF RowsBehind
  <2> QED BY <2>1
<1>2. ASSUME NEW m \in Nat, m \in S PROVE m + 1 \in S
  <2>1. PICK f : RowsBehind(f, ss, m, r)
    BY <1>2
  <2> DEFINE g == [k \in 0 .. m + 1 |-> IF k = m + 1 THEN ApplyStage(ss[m + 1], f[m], Tables) ELSE f[k]]
  <2>2. ASSUME NEW k \in 0 .. m + 1
        PROVE  g[k] = IF k = 0 THEN r ELSE ApplyStage(ss[k], g[k - 1], Tables)
    <3>1. CASE k = m + 1
      <4>1. g[k] = ApplyStage(ss[m + 1], f[m], Tables) /\ g[k - 1] = f[m] /\ k # 0
        BY <3>1
      <4> QED BY <3>1, <4>1
    <3>2. CASE k # m + 1
      <4>1. k \in 0 .. m /\ g[k] = f[k] /\ (k # 0 => g[k - 1] = f[k - 1])
        BY <3>2
      <4>2. f[k] = IF k = 0 THEN r ELSE ApplyStage(ss[k], f[k - 1], Tables)
        BY <2>1, <4>1 DEF RowsBehind
      <4> QED BY <4>1, <4>2
    <3> QED BY <3>1, <3>2
  <2>3. RowsBehind(g, ss, m + 1, r)
    <3>1. g = [k \in 0 .. m + 1 |-> g[k]]
      OBVIOUS
    <3> HIDE DEF g
    <3> QED BY <2>2, <3>1 DEF RowsBehind
  <2> QED BY <2>3
<1>3. Nat \subseteq S
  <2> HIDE DEF S
  <2> QED BY <1>1, <1>2, SetInduction
<1> QED BY <1>3

\* They are what Applied computes.
LEMMA AppliedUnfolds ==
  ASSUME NEW ss, Len(ss) \in Nat, NEW r
  PROVE  /\ Applied(ss, r, Tables) = AppliedBy(ss, r)[Len(ss)]
         /\ RowsBehind(AppliedBy(ss, r), ss, Len(ss), r)
<1>1. \E f : RowsBehind(f, ss, Len(ss), r)
  BY RowsExist
<1>2. RowsBehind(AppliedBy(ss, r), ss, Len(ss), r)
  BY <1>1 DEF AppliedBy
<1>3. Applied(ss, r, Tables) = AppliedBy(ss, r)[Len(ss)]
  BY DEF Applied, AppliedBy, RowsBehind
<1> QED BY <1>2, <1>3

\* Stage by stage, from the rows r on.
Unfolded(f, ss, n, r) ==
  /\ f[0] = r
  /\ \A k \in 1 .. n : f[k] = ApplyStage(ss[k], f[k - 1], Tables)

\* The rows behind each stage are what the stage makes of the rows in front of it.
LEMMA RowsUnfold ==
  ASSUME NEW ss, NEW r, NEW n \in Nat, NEW f, RowsBehind(f, ss, n, r)
  PROVE  Unfolded(f, ss, n, r)
<1>1. \A k \in 0 .. n : f[k] = IF k = 0 THEN r ELSE ApplyStage(ss[k], f[k - 1], Tables)
  BY DEF RowsBehind
<1>2. f[0] = r
  BY <1>1
<1>3. ASSUME NEW k \in 1 .. n PROVE f[k] = ApplyStage(ss[k], f[k - 1], Tables)
  <2>1. k \in 0 .. n /\ k # 0
    OBVIOUS
  <2> QED BY <1>1, <2>1
<1> QED BY <1>2, <1>3 DEF Unfolded

\* The stages and the rows they start from decide the rows they leave.
LEMMA RowsDecided ==
  ASSUME NEW ss, NEW r, NEW n \in Nat, NEW f, NEW g, Unfolded(f, ss, n, r), Unfolded(g, ss, n, r)
  PROVE  f[n] = g[n]
<1> DEFINE S == {m \in Nat : m <= n => f[m] = g[m]}
<1>1. 0 \in S
  BY DEF Unfolded
<1>2. ASSUME NEW m \in Nat, m \in S PROVE m + 1 \in S
  <2> SUFFICES ASSUME m + 1 <= n PROVE f[m + 1] = g[m + 1]
    OBVIOUS
  <2>1. m + 1 \in 1 .. n /\ (m + 1) - 1 = m /\ f[m] = g[m]
    BY <1>2
  <2>2. f[m + 1] = ApplyStage(ss[m + 1], f[(m + 1) - 1], Tables)
    BY <2>1, Zenon DEF Unfolded
  <2>3. g[m + 1] = ApplyStage(ss[m + 1], g[(m + 1) - 1], Tables)
    BY <2>1, Zenon DEF Unfolded
  <2> QED BY <2>1, <2>2, <2>3, Zenon
<1>3. Nat \subseteq S
  <2> HIDE DEF S
  <2> QED BY <1>1, <1>2, SetInduction
<1> QED BY <1>3

\* What unfolds the stages of a pipeline ends in the rows it leaves.
LEMMA AppliedIs ==
  ASSUME NEW ss, Len(ss) \in Nat, NEW r, NEW f, Unfolded(f, ss, Len(ss), r)
  PROVE  Applied(ss, r, Tables) = f[Len(ss)]
<1>1. RowsBehind(AppliedBy(ss, r), ss, Len(ss), r) /\ Applied(ss, r, Tables) = AppliedBy(ss, r)[Len(ss)]
  BY AppliedUnfolds
<1>2. Unfolded(AppliedBy(ss, r), ss, Len(ss), r)
  BY <1>1, RowsUnfold
<1>3. AppliedBy(ss, r)[Len(ss)] = f[Len(ss)]
  BY <1>2, RowsDecided
<1> QED BY <1>1, <1>3

\* A pipeline in two parts is the second applied to what the first leaves.
LEMMA AppliedInTwo ==
  ASSUME NEW S, NEW s \in Seq(S), NEW t \in Seq(S), NEW r
  PROVE  Applied(s \o t, r, Tables) = Applied(t, Applied(s, r, Tables), Tables)
<1> DEFINE n == Len(s)
           m == Len(t)
           f == AppliedBy(s \o t, r)
           g == [j \in 0 .. m |-> f[n + j]]
<1>1. /\ n \in Nat /\ m \in Nat /\ Len(s \o t) = n + m
      /\ \A k \in 1 .. n : (s \o t)[k] = s[k]
      /\ \A k \in 1 .. m : (s \o t)[n + k] = t[k]
  <2>1. n \in Nat /\ m \in Nat /\ Len(s \o t) = n + m
    BY LenProperties, ConcatProperties
  <2>2. \A k \in 1 .. n + m : (s \o t)[k] = IF k <= n THEN s[k] ELSE t[k - n]
    BY ConcatProperties
  <2>3. ASSUME NEW k \in 1 .. n PROVE (s \o t)[k] = s[k]
    BY <2>1, <2>2
  <2>4. ASSUME NEW k \in 1 .. m PROVE (s \o t)[n + k] = t[k]
    <3>1. n + k \in 1 .. n + m /\ ~ (n + k <= n) /\ (n + k) - n = k
      BY <2>1
    <3>2. (s \o t)[n + k] = t[(n + k) - n]
      BY <2>2, <3>1
    <3> QED BY <3>1, <3>2
  <2> QED BY <2>1, <2>3, <2>4
<1>2. /\ Applied(s \o t, r, Tables) = f[n + m]
      /\ Unfolded(f, s \o t, n + m, r)
  <2>1. Len(s \o t) \in Nat
    BY <1>1
  <2>2. /\ Applied(s \o t, r, Tables) = f[Len(s \o t)]
        /\ RowsBehind(f, s \o t, Len(s \o t), r)
    BY <2>1, AppliedUnfolds
  <2>3. Unfolded(f, s \o t, Len(s \o t), r)
    BY <2>1, <2>2, RowsUnfold
  <2> QED BY <1>1, <2>2, <2>3
<1> HIDE DEF f
<1>3. Applied(s, r, Tables) = f[n]
  <2>1. ASSUME NEW k \in 1 .. n PROVE f[k] = ApplyStage(s[k], f[k - 1], Tables)
    <3>1. k \in 1 .. n + m /\ (s \o t)[k] = s[k]
      BY <1>1
    <3> QED BY <1>2, <3>1, Zenon DEF Unfolded
  <2>2. Unfolded(f, s, n, r)
    BY <1>2, <2>1, Zenon DEF Unfolded
  <2> QED BY <1>1, <2>2, AppliedIs
<1>4. Applied(t, f[n], Tables) = g[m]
  <2>1. g[0] = f[n]
    BY <1>1
  <2>2. ASSUME NEW k \in 1 .. m PROVE g[k] = ApplyStage(t[k], g[k - 1], Tables)
    <3>1. n + k \in 1 .. n + m /\ (s \o t)[n + k] = t[k] /\ (n + k) - 1 = n + (k - 1)
      BY <1>1
    <3>2. g[k] = f[n + k] /\ g[k - 1] = f[n + (k - 1)]
      BY <1>1
    <3>3. f[n + k] = ApplyStage((s \o t)[n + k], f[(n + k) - 1], Tables)
      BY <1>2, <3>1, Zenon DEF Unfolded
    <3> QED BY <3>1, <3>2, <3>3, Zenon
  <2> HIDE DEF g
  <2>3. Unfolded(g, t, m, f[n])
    BY <2>1, <2>2, Zenon DEF Unfolded
  <2> QED BY <1>1, <2>3, AppliedIs
<1>5. g[m] = f[n + m]
  BY <1>1
<1> QED BY <1>2, <1>3, <1>4, <1>5

-----------------------------------------------------------------------------
(* ExecMulti *)

\* What ExecMulti has decided and run so far.
RoutedInv ==
  /\ stages \in Pipelines
  /\ status = "start" => decisions = <<>> /\ i = 1
  /\ status = "running" =>
       /\ decisions = Decided /\ i \in Nat /\ i >= 1
       /\ i > 1 => i - 1 <= Len(decisions) /\ currentRows = Meaning(decisions[i - 1].stages, Source, Tables)
  /\ status = "done" =>
       \/ Len(decisions) <= 1 /\ currentRows = Answer
       \/ /\ decisions = Decided
          /\ Len(decisions) > 0 => currentRows = Meaning(decisions[Len(decisions)].stages, Source, Tables)

\* Every step of ExecMulti keeps it.
LEMMA RoutedInvariant == Spec => []RoutedInv
<1>1. Init => RoutedInv
  BY DEF Init, RoutedInv
<1>2. RoutedInv /\ [Next]_vars => RoutedInv'
  <2> SUFFICES ASSUME RoutedInv, [Next]_vars PROVE RoutedInv'
    OBVIOUS
  <2> USE DEF RoutedInv
  <2>0. Len(Decided) \in {1, 2}
    <3>1. PICK S : stages \in Seq(S)
      BY PipelineAssumption
    <3>2. CASE \E e : Decided = << Segment(e, stages) >>
      BY <3>2
    <3>3. CASE \E e, f : Decided = CutAt(stages, e, f)
      BY <3>3, CutHolds
    <3> QED BY <3>1, <3>2, <3>3, RouteCuts, Zenon DEF Decided
  <2>1. CASE NoEngines
    BY <2>1 DEF NoEngines, Fail
  <2>2. CASE RunWhole
    <3>1. Len(decisions') <= 1
      <4>1. CASE Len(engines) = 1
        BY <2>2, <4>1 DEF RunWhole
      <4>2. CASE Len(engines) # 1
        <5>1. decisions' = Decided /\ Len(Decided) = 1
          BY <2>2, <4>2, Zenon DEF RunWhole, Whole
        <5> QED BY <5>1
      <4> QED BY <4>1, <4>2
    <3>2. currentRows' = Answer'
      BY <2>2 DEF RunWhole, Answer
    <3> QED BY <2>2, <3>1, <3>2 DEF RunWhole
  <2>3. CASE WholeFails
    BY <2>3 DEF WholeFails, Fail
  <2>4. CASE Decide
    BY <2>4 DEF Decide, Decided
  <2>5. CASE RunSegment
    BY <2>0, <2>5 DEF RunSegment, Decided
  <2>6. CASE SegmentFails
    BY <2>6 DEF SegmentFails, Fail
  <2>7. CASE Return
    BY <2>0, <2>7 DEF Return, Decided
  <2>8. CASE UNCHANGED vars
    BY <2>8 DEF vars, Decided, Answer
  <2> QED BY <2>1, <2>2, <2>3, <2>4, <2>5, <2>6, <2>7, <2>8 DEF Next
<1> QED BY <1>1, <1>2, PTL DEF Spec

\* A routed query whose first segment leaves the rows of the source where they are
\* answers as written, and so does a query with one segment: for every source, tables,
\* list of engines and pipeline.  The second segment reads the source, not the rows of
\* the first (router.go:190-205), so this is as far as its answer can be trusted.
THEOREM RoutedAnswersAsWritten == Spec => []RoutedAsWritten
<1>1. RoutedInv => RoutedAsWritten
  <2> SUFFICES ASSUME RoutedInv, status = "done", Len(decisions) > 1 => FrontRows = Source
               PROVE  currentRows = Answer
    BY DEF RoutedAsWritten
  <2>1. PICK S : stages \in Seq(S)
    BY PipelineAssumption DEF RoutedInv
  <2>2. CASE Len(decisions) <= 1 /\ currentRows = Answer
    BY <2>2
  <2>3. CASE /\ decisions = Decided
             /\ Len(decisions) > 0 => currentRows = Meaning(decisions[Len(decisions)].stages, Source, Tables)
    <3>1. CASE \E e : Decided = << Segment(e, stages) >>
      <4>1. Len(Decided) = 1 /\ Decided[1].stages = stages
        BY <3>1 DEF Segment
      <4> QED BY <2>3, <4>1 DEF Answer
    <3>2. CASE FirstAggregate(stages) > 1 /\ \E e, f : Decided = CutAt(stages, e, f)
      <4> DEFINE m     == FirstAggregate(stages)
                 front == Front(stages, m)
                 back  == Back(stages, m)
      <4>1. Len(Decided) = 2 /\ Decided[1].stages = front /\ Decided[2].stages = back
        BY <3>2, CutHolds
      <4>2. m \in 1 .. Len(stages)
        BY <2>1, <3>2, FirstAggregateIsFirst, LenProperties
      <4>3. front \in Seq(S) /\ back \in Seq(S) /\ front \o back = stages
        BY <2>1, <4>2, CutInTwo
      <4> HIDE DEF m
      <4>4. currentRows = Meaning(back, Source, Tables)
        BY <2>3, <4>1
      <4>5. Applied(front, Source, Tables) = Source
        BY <2>3, <4>1 DEF FrontRows
      <4> HIDE DEF front, back
      <4>6. Applied(stages, Source, Tables) = Applied(back, Source, Tables)
        <5>1. Applied(front \o back, Source, Tables) = Applied(back, Applied(front, Source, Tables), Tables)
          BY <4>3, AppliedInTwo
        <5> QED BY <4>3, <4>5, <5>1, Zenon
      <4> QED BY <4>4, <4>6, Zenon DEF Answer, Meaning
    <3> QED BY <2>1, <3>1, <3>2, RouteCuts, Zenon DEF Decided
  <2> QED BY <2>2, <2>3 DEF RoutedInv
<1> QED BY <1>1, RoutedInvariant, PTL
=============================================================================
