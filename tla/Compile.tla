------------------------------- MODULE Compile -------------------------------
(***************************************************************************)
(* From a bound pipeline to a statement, as ExecOnOpt does it: the rule      *)
(* engine (rules.Engine.Optimize) rewrites the stages pass by pass, then the *)
(* backend emits what is left.  Rules and emitter are each correct under     *)
(* conditions of their own; what matters is whether the statement of the     *)
(* rewritten pipeline still means the pipeline.                              *)
(***************************************************************************)
EXTENDS Rules, EmitDuckDB

CONSTANTS
  Pipelines,      \* the pipelines that are compiled, as sequences of stages
  SourceColumn,   \* the columns of the table they read
  Sources,        \* what may be in it
  Tables,         \* the tables their unions read: name -> rowset
  TableColumn,    \* and their columns
  RuleSet,        \* the rules of the engine, in order
  MaxIter         \* maxIter, 16 in the code

\* The stages of a bound pipeline mention columns they have, and the inputs of a union
\* have the columns of the rows before it.  The binder takes more: behind a distinct it
\* still resolves the columns that are gone (binder.go:169-173), and the database
\* rejects the statement.
IsSequence(s) == s \in Seq({s[k] : k \in DOMAIN s})
WellFormed(st) ==
  /\ DOMAIN st = DOMAIN Blank
  /\ \A i \in st.items : i.how = "bare" => i.name = i.ref
  /\ st.n \in Nat /\ IsSequence(st.keys)
  /\ st.op = "Filter" => References(st) = PredColumns(st.preds)
UnionsMatch(ss) ==
  \A k \in DOMAIN ss : ss[k].op = "Union" =>
    /\ IsSequence(ss[k].inputs)
    /\ \A i \in DOMAIN ss[k].inputs :
         LET input == ss[k].inputs[i]
             cols  == TableColumn[input.table]
         IN  /\ DOMAIN input = {"table", "stages"} /\ input.table \in DOMAIN Tables
             /\ IsSequence(input.stages)
             /\ \A j \in DOMAIN input.stages : WellFormed(input.stages[j])
             /\ Resolves(input.stages, cols)
             /\ Columns(input.stages, cols)[Len(input.stages) + 1] = Columns(ss, SourceColumn)[k]
Legal(ss) ==
  /\ IsSequence(ss) /\ \A k \in DOMAIN ss : WellFormed(ss[k])
  /\ Resolves(ss, SourceColumn)
  /\ UnionsMatch(ss)
\* A UNION counts columns, those no mention can reach too.
UnionsOnce(ss) ==
  \A k \in DOMAIN ss : ss[k].op = "Union" =>
    /\ Twice(ss, SourceColumn)[k] = {}
    /\ \A i \in DOMAIN ss[k].inputs :
         LET input == ss[k].inputs[i]
         IN  Twice(input.stages, TableColumn[input.table])[Len(input.stages) + 1] = {}

ASSUME PipelineAssumption == \A ss \in Pipelines : Legal(ss) /\ UnionsOnce(ss)
ASSUME RowsAssumption ==
  /\ \A r \in Sources : r \in Seq([SourceColumn -> Int])
  /\ \A t \in DOMAIN Tables : Tables[t] \in Seq([TableColumn[t] -> Int])
ASSUME RuleSetAssumption ==
  /\ MaxIter \in Nat \ {0}
  /\ RuleSet \in Seq({"ConstantFold", "PredicatePushdown", "ColumnPrune",
                      "PredicatePushdownUnion", "TwoStageAgg", "SaturationRewrite"})

VARIABLES
  orig,       \* history: the stages as they were bound
  large,      \* the statistics give the table twoStageThreshold rows or more
  stages,     \* pipe.Stages
  pass, rule, \* the engine's iteration and the rule it is at
  changed,    \* anyChanged
  fired,      \* history: the rules that changed the pipeline
  phase,      \* "rewrite", "emit", "done"
  dialect     \* the backend that emits, "none" before; pg's segments are sqlite's

vars == <<orig, large, stages, pass, rule, changed, fired, phase, dialect>>
Dialects == {"sqlite", "duckdb"}

Init ==
  /\ orig \in Pipelines /\ stages = orig /\ large \in BOOLEAN
  /\ pass = 1 /\ rule = 1 /\ changed = FALSE /\ fired = {}
  /\ phase = "rewrite" /\ dialect = "none"

At(name) == phase = "rewrite" /\ rule <= Len(RuleSet) /\ RuleSet[rule] = name

Rewrite(name, out) ==
  /\ stages' = out
  /\ changed' = (changed \/ out # stages)
  /\ fired' = IF out # stages THEN fired \cup {name} ELSE fired
  /\ UNCHANGED <<orig, large, pass, phase, dialect>>

\* PredicatePushdown walks the stages until a walk moves nothing.
PushDown ==
  /\ At("PredicatePushdown")
  /\ Rewrite("PredicatePushdown", PushdownPass(stages))
  /\ rule' = IF PushdownPass(stages) = stages THEN rule + 1 ELSE rule

Fold   == At("ConstantFold") /\ Rewrite("ConstantFold", ConstantFold(stages)) /\ rule' = rule + 1
PruneUnreported ==
  /\ At("ColumnPrune") /\ stages' = ColumnPrune(stages) /\ rule' = rule + 1
  /\ UNCHANGED <<orig, large, pass, changed, fired, phase, dialect>>
Prune  == At("ColumnPrune") /\ Rewrite("ColumnPrune", ColumnPrune(stages)) /\ rule' = rule + 1
Saturate ==
  At("SaturationRewrite") /\ Rewrite("SaturationRewrite", SaturationRewrite(stages)) /\ rule' = rule + 1
SplitAggregate ==
  /\ At("TwoStageAgg")
  /\ \E out \in TwoStageAgg(stages, large) : Rewrite("TwoStageAgg", out)
  /\ rule' = rule + 1

\* PredicatePushdownUnion goes on while a filter follows a union.
PushIntoInputs ==
  /\ At("PredicatePushdownUnion")
  /\ Rewrite("PredicatePushdownUnion", PushIntoUnion(stages))
  /\ rule' = IF BehindUnion(stages) = {} THEN rule + 1 ELSE rule

\* The end of an iteration: another one if a rule changed something.
NextPass            == changed /\ pass < MaxIter
EndPass ==
  /\ phase = "rewrite" /\ rule > Len(RuleSet)
  /\ IF NextPass
     THEN pass' = pass + 1 /\ rule' = 1 /\ changed' = FALSE /\ UNCHANGED phase
     ELSE phase' = "emit" /\ UNCHANGED <<pass, rule, changed>>
  /\ UNCHANGED <<orig, large, stages, fired, dialect>>

\* Emit of one of the backends, and the execution of its statement.
Emit ==
  /\ phase = "emit" /\ phase' = "done" /\ dialect' \in Dialects
  /\ UNCHANGED <<orig, large, stages, pass, rule, changed, fired>>

Next ==
  \/ Fold \/ PushDown \/ Prune \/ PushIntoInputs \/ SplitAggregate \/ Saturate
  \/ EndPass \/ Emit

Spec == Init /\ [][Next]_vars

\* Optimize and Emit are sequential code of the calling goroutine.
FairSpec == Spec /\ WF_vars(Next)

-----------------------------------------------------------------------------
(* Correctness *)

TypeOK ==
  /\ pass \in 1 .. MaxIter /\ rule \in 1 .. Len(RuleSet) + 1
  /\ changed \in BOOLEAN /\ phase \in {"rewrite", "emit", "done"}
  /\ dialect \in Dialects \cup {"none"} /\ (dialect = "none" <=> phase # "done")
  /\ large \in BOOLEAN /\ fired \subseteq {RuleSet[k] : k \in DOMAIN RuleSet}
  /\ \A k \in DOMAIN stages : DOMAIN stages[k] = DOMAIN Blank

Rewritten == phase # "rewrite"
Emitted   == phase = "done"
Has(ss, op) == \E k \in DOMAIN ss : ss[k].op = op
WholeRowDistinct(ss) == \E k \in DOMAIN ss : ss[k].op = "Distinct" /\ ss[k].cols = {}

\* What the backend's statement for some stages answers, and that it takes it.
Answered(ss, r) == IF dialect = "duckdb" THEN DuckAnswer(ss, r, Tables) ELSE Answer(ss, r, Tables)
Taken(ss)       == IF dialect = "duckdb" THEN DuckAccepted(ss, SourceColumn) ELSE Accepted(ss, SourceColumn)
\* DuckDB takes a union's input only without stages (EmitDuckDB).
Nestable(ss) == dialect = "duckdb" => \A k \in DOMAIN ss : \A i \in DOMAIN ss[k].inputs :
                                        NestedAccepted(ss[k].inputs[i].stages)

\* Only the rules that move, drop or add a stage soundly have fired.
SoundlyRewritten ==
  /\ fired \subseteq {"ConstantFold", "PredicatePushdown", "ColumnPrune"}
  /\ "ColumnPrune" \in fired => ~WholeRowDistinct(orig)

SameMeaning ==
  /\ Resolves(stages, SourceColumn)
  /\ \A r \in Sources : Meaning(stages, r, Tables) = Meaning(orig, r, Tables)

\* However the three rules feed each other over the passes, the rows and their
\* order stay what the pipeline means: a filter only moves in front of stages it does
\* not depend on, the inserted projection keeps every column any later stage
\* mentions, and a contradiction leaves no row.
RowsPreserved == (Rewritten /\ SoundlyRewritten) => SameMeaning

\* The statement of a rewritten pipeline names no column its FROM lacks: no filter
\* has moved in front of the extend that makes its column, and no stage shares a
\* select with the one that makes the columns it reads (canPushPast, isBreakpoint).
\* TwoStageAgg apart, which picks its column without asking whether the stages in
\* front still have it, and on DuckDB the inputs a filter has been pushed into.
StatementAccepted ==
  (Emitted /\ "TwoStageAgg" \notin fired) =>
     /\ Accepted(stages, SourceColumn)
     /\ Nestable(orig) /\ "PredicatePushdownUnion" \notin fired => Taken(stages)

\* One select per run of stages says what the stages say one by one, if no
\* condition, sort or limit follows a limit in the run and it sorts once.
EmissionFaithful ==
  (Emitted /\ Taken(stages) /\ MergeFree(stages)) =>
     \A r \in Sources : Answered(stages, r) = Meaning(stages, r, Tables)

\* Pipelines whose limit comes last, with one sort and no contradiction under the
\* limit: nothing a rewrite does can make their runs wrong to merge.
LimitLast(ss) ==
  /\ \A k \in 1 .. Len(ss) - 1 : ss[k].op # "Limit"
  /\ \A j, k \in DOMAIN ss : ss[j].op = "Sort" /\ ss[k].op = "Sort" => j = k
  /\ Has(ss, "Limit") => \A k \in DOMAIN ss : ~Contradiction(ss[k])
InputsMergeFree(ss) == \A k \in DOMAIN ss : ss[k].op = "Union" => MergeFree(<<ss[k]>>)

\* For those, the statement answers what the pipeline means, through the whole of
\* optimizer and emitter.
EndToEnd ==
  (Emitted /\ SoundlyRewritten /\ LimitLast(orig) /\ InputsMergeFree(orig) /\ Nestable(orig)) =>
     Taken(stages) /\ \A r \in Sources : Answered(stages, r) = Meaning(orig, r, Tables)

\* The engine stops because nothing changes any more, never at its cap, unless
\* TwoStageAgg is at work, which finds its own partial aggregate to split again.
OnlyTwoStageOscillates == (Rewritten /\ changed) => "TwoStageAgg" \in fired

\* Where it stops every filter is as early as the rules can bring it, the ones
\* behind the projection ColumnPrune inserted after PredicatePushdown had run
\* included.
FiltersEarly ==
  (Rewritten /\ ~changed) =>
     /\ \A i \in DOMAIN stages : ~Pushable(stages, i)
     /\ BehindUnion(stages) = {}

\* A filter that goes into a union's inputs no longer meets the rows in front of the union,
\* which are no input (predicate_pushdown_union.go:40-53).  That is all that goes wrong: no
\* row of the answer is lost, and each row is one the pipeline has without some of its
\* unions and the filters behind those; what an input adds is filtered as it was.
RowsOf(ss, r) == LET m == Meaning(ss, r, Tables) IN {m[k] : k \in DOMAIN m}
Unions(ss)    == {k \in DOMAIN ss : ss[k].op = "Union"}
WithoutUnions(ss, K) ==
  LET behind == {k \in DOMAIN ss : IsFilter(ss[k]) /\ \E j \in K : j < k /\ (j + 1) .. k \cap Unions(ss) = {}}
  IN  Only(ss, DOMAIN ss \ (K \cup behind))
OnlyOwnRowsUnfiltered ==
  (Rewritten /\ fired \subseteq {"ConstantFold", "PredicatePushdown", "PredicatePushdownUnion"}
     /\ \A k \in DOMAIN orig : orig[k].op \in {"Filter", "Sort", "Extend", "Project", "Union"}) =>
  \A r \in Sources :
    /\ RowsOf(orig, r) \subseteq RowsOf(stages, r)
    /\ RowsOf(stages, r) \subseteq UNION {RowsOf(WithoutUnions(orig, K), r) : K \in SUBSET Unions(orig)}

\* Whatever the rules do, the rewriting ends.
Terminates == <>(phase = "done")

-----------------------------------------------------------------------------
(* What the documentation says *)

\* rule.go:10-11: "the rewritten pipeline emits identically-correct SQL on every
\* backend", of the one rule that moves stages, and pipelines emitted right without it.
EmitsIdenticallyCorrect ==
  (Emitted /\ MergeFree(orig) /\ fired \subseteq {"PredicatePushdown"}) =>
     \A r \in Sources : Answered(stages, r) = Answered(orig, r)

\* column_prune.go:16-17: "This keeps the rule provably semantics-preserving".
PruneKeepsMeaning == (Rewritten /\ fired \subseteq {"ColumnPrune"}) => SameMeaning

\* docs/phases/ir/I2-translate.md:21, of `T | extend x = 1 | project x | where x > 0`:
\* the where refers to the column the extend has made.
ExtendedIsRead ==
  (Emitted /\ [k \in DOMAIN orig |-> orig[k].op] = <<"Extend", "Project", "Filter">>) =>
     LET made == {i \in orig[1].items : i.name \in Names(orig[2])}
     IN  AllBare(orig[2]) /\ Names(orig[2]) = {i.name : i \in made} =>
           \A r \in Sources : Answered(stages, r) = InOrder(Where(Projected(r, made), orig[3].preds))

\* rule.go:10-11 of all rules: what a backend takes, it takes rewritten.
AcceptedOnEveryBackend ==
  (Emitted /\ Taken(orig) /\ "TwoStageAgg" \notin fired) => Taken(stages)

\* rule.go:95-96, of the pipeline the engine has when it reaches its cap: "still
\* valid".
CappedStillValid == (Emitted /\ changed) => Accepted(stages, SourceColumn)

\* predicate_pushdown_union.go:8-11: "pushing it into each input preserves the
\* result set".
UnionPushdownPreservesResult ==
  (Rewritten /\ fired \subseteq {"PredicatePushdownUnion"}) => SameMeaning

=============================================================================
