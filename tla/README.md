# A verification of kql

TLA+ models of nzinfo/kql, a compiler and executor of KQL (Kusto Query Language)
pipelines on SQL backends: modules translated from the Go source, TLC
configurations that check them on small instances, and TLAPS proofs of what matters
most for every instance. `PROJECT.json` maps each definition to the lines it models
and each property to the hazards it is there for.

    tlc -workers 2 -config Binder.cfg MCBinder      # check a model
    tlapm BinderProofs.tla                          # check the proofs of one module

## 1. The system

A query goes through

    text -> lexer, parser -> ir.Translate -> binder.Bind -> rules.Engine
         -> decisions (predicate order, join order, join plan, ...)
         -> exec.ExecPipeline -> Backend.Emit / Backend.Exec  (sqlite, pg, duckdb)
         -> client-side executors

driven by `pkg/kql` (`ExecOnOpt`). Each arrow is a call that hands over a
`*ir.Pipeline`; the rules, the decisions, the emitter and the executor all
rewrite that one object in place, and much of what can go wrong comes from there.

| Component | State | Operations | Hard part | Correct when |
|---|---|---|---|---|
| Lexer, parser, AST | position, diagnostics, tree | read a statement, an operator, an expression; look ahead and rewind; recover | ten layers of precedence, lookahead that must not show, loops that must advance on any text | the tree is the text's; damage stays in its statement; it ends |
| Translation `internal/ir` | none | AST -> stages | one operator becomes several stages or none; defaults chosen in two places | the stages answer what the text asks |
| Binder `internal/frontend/binder` | schema of the current scope, next ColID | source lookup, stage, sub-pipeline | the `*Schema` is the one the backend caches and other binds use | names resolve lexically, ColIDs are stable |
| Backend schema caches | table -> `*Schema` | check, query the catalog, store | three steps, concurrent binds, tables created meanwhile | the cache says what the catalog says |
| Rules and engine `internal/optimizer/rules` | the pipeline, pass counter | seven rules in order, until nothing changes or the cap | rules feeding each other over the passes | same rows; statement accepted; ends |
| Emission `backend/sqlite`, `pg`, `duckdb` | segments | split at breakpoints, one select per segment; nested text for sub-pipelines | clauses run in SQL's order, not the pipeline's; what one dialect takes another rejects | the statement is taken and means the pipeline |
| Decisions `internal/optimizer/decision` | the pipeline, a catalog | order predicates, order joins, choose hints, materialize CTEs | permuting joins under their ON clauses; estimates | same rows, whatever the estimate |
| Statistics, cost | catalog | load, estimate | floating point, stale numbers | estimates bounded and monotone |
| Execution `internal/exec` (exec, indexlookup, postproc) | the pipeline's stage array, the rows so far | index lookup in 4 phases, fallback to one statement, client-side loop | several statements without a transaction; the stage array is shared between the phases, the fallback and the caller | the answer is the join's; every stage takes effect once, in order; failures fall back |
| Client-side executors `exec.go`, `exec_client.go`, `postproc_register.go` | the result so far | mv-expand, mv-apply, parse, make-series, summarize, take, project | empty inputs, NULLs, values that print alike, one executor's columns under the next one's indices | agree with what SQL answers for the same stage; no row lost |
| Router `exec/router.go`, `decision/engine_plan.go` | segments, engines | split by capability or by cost, run each segment | rows handed from engine to engine; two plans of the same cut | as if one engine had run it |
| Engine session `pkg/kql/engine.go`, `kql.go`, `backend/*/backend.go` | connection pool, schema cache, catalog, `closed` | Exec, ExecOnOpt, Close, SetCatalog, RegisterArrowView | unsynchronized flags, a catalog that persists, pools at their limit | admitted calls come back, none runs once the pool is closed |
| Loading `pkg/kql/datasource.go` | the table being filled | create, batches of 500, flush | failure after some batches | all rows or a usable error |
| IR equivalence, printing; columnar; commands; function tables | none | pure | - | not modelled (section 6) |

The concurrency is Go's: any number of goroutines call `ExecOnOpt` on one backend
(its pool, schema cache and catalog are shared), and the database has other sessions.
There are no retries except the executor's fallback, nothing is persisted except
what the backends' databases keep, and timeouts are context deadlines, which here
show as failing statements.

## 2. The modules

| Module | Models | Kind |
|---|---|---|
| `Tokens` | the classes of tokens | operators |
| `Parser` | the recursive descent, its lookahead and its local recovery; EXTENDS `Tokens` | operators |
| `Translate` | `ir.Translate`; EXTENDS `Parser` | operators |
| `Grammar` | the language apart from the parser: how a tree is written, what a query answers; EXTENDS `Translate` | operators, the reference |
| `Frontend` | `Parser.Parse`, then `Translate`; EXTENDS `Grammar` | state machine |
| `Binder` | `BindWith`, `Backend.Schema` of sqlite and pg | state machine |
| `Rowsets` | what each stage answers (the nested emitter, `sqlite/emit.go`) | operators, the reference |
| `EmitCTE` | `EmitCTE` of sqlite: segments and merged selects; EXTENDS `Rowsets` | operators |
| `EmitDuckDB` | DuckDB's emitter: its merged selects and its nested inputs; EXTENDS `EmitCTE` | operators |
| `Rules` | six rewrite rules; EXTENDS `Rowsets` | operators |
| `Compile` | `Engine.Optimize`, then the emission of either dialect; EXTENDS `Rules`, `EmitDuckDB` | state machine |
| `Estimates` | the statistics catalog, selectivities, cardinalities, costs | operators |
| `Decisions` | `PredicateOrder`, `ApplyJoinOrder`, `JoinPlan`; EXTENDS `Estimates` | state machine |
| `ExecPipeline` | `exec.ExecPipeline`, `execIndexLookup`, `applyPostProc` | state machine |
| `ExecPipelineProofs`, `BinderProofs`, `RouterProofs`, `SessionProofs`, `DecisionsProofs`, `CompileProofs`, `PostProcProofs` | the theorems of each | proofs |
| `Induction` | what the proofs need of naturals and of functions defined by recursion on them | proofs |
| `PostProc` | the client-side executors and the loop that runs them | state machine |
| `Router` | `Route`, `ExecMulti`, `EnginePlan`; EXTENDS `Rowsets` | state machine |
| `Service` | what the library promises goroutines that share a backend | abstract specification |
| `Session` | `Engine`, `ExecOnOpt`'s steps on shared state, `LoadFile`, views, the pool; implements `Service` | state machine |
| `MC...` | constants for TLC | - |

The modules meet in three places. `Rowsets` is the meaning of a pipeline that `Compile`
(rules and emission) and `Router` (segments) are both measured against. `ExecPipeline`
records which stages the client-side loop runs, in which order; `PostProc` computes what
they do to the rows. `Session` contains a call's use of the shared state and leaves the
work on its own pipeline to the others.

### Tokens, Parser, Translate, Grammar, Frontend

A token is its spelling; a tree is `[op, args]`. A parser state is `[at, errs, node]`: the
index of the current token, the tokens at which a diagnostic was recorded, and what was
parsed last; `save`/`restore` take `at` back and leave `errs`, as the code does. All
the recursion of the descent goes through one operator, `Item(kind, p)`: the layers of
`expr.go` by name ("or" down to "postfix"), "source", "operator", "primary" and "pipeline".
`Frontend` is the loop of `Parse` one grammar step at a time: `StartQuery`, `StartLet`,
`LetLambda`, `Metadata` begin a statement, `ReadOperator` reads one piped operator,
`Separator` takes the `;`, `Resynchronise` skips to one (`synchroniseToStatementBoundary`);
`TranslateFirst` is `ir.Translate`, and `NextRow`, `LastRow` the loop that cuts a
datatable literal into rows. `lost` is a history of skipped tokens.

`Grammar` does not use the parser. `Written` writes a tree down with the parentheses the
precedence ladder needs, from `frontend/NOTES.md` 2.8; `Answer` runs a query of the row
operators from its tree, where `Run` of `Translate`'s output runs the stages.

### Binder

`heap` holds the `*Schema` objects, `cache` the backend's map from table to one,
`frames[t]` the binder's recursion of goroutine t (a frame per pipeline, with the
step of its source lookup and its stage), `next[t]` its ColID allocator. `CacheHit`,
`LoadSchema`, `QueryCatalog`, `SchemaError`, `StoreSchema` are the three steps of
`Backend.Schema`; `AllocColumn` writes one ColID into the shared object, the loop of
`sourceSchema`; `BindStage`, `Descend` and `Return` walk the pipeline. `CreateTable`
is a load. `refs` and `diags` record which mention of a name got which ColID, or
was diagnosed. Reading and writing a ColID is one step each: a torn
read of a machine word is not modelled.

### Rowsets, EmitCTE, EmitDuckDB, Rules, Compile

A row is a function from columns to numbers, a rowset a sequence of rows. `Meaning` applies
the stages one by one. An extend of a name that is taken appends a second column of that name
(emit.go:170-185); a row maps a name to what a mention of it reads, which is the first column of the name
for the binder's `Lookup`, SQLite and DuckDB. The columns behind it, which nothing can mention, are in no
row and in no answer that is compared; a UNION counts them, and `PipelineAssumption` keeps names held
twice away from unions. PostgreSQL finds such a mention ambiguous: for it nothing is claimed where a
name is held twice. `Answer` splits them as `splitSegments` does and runs one select
per segment in SQL's order of clauses; `Accepted` says that no select names a column
its FROM lacks. DuckDB splits the same way; its merged select has no select list of its own
(`DuckSelect`), and the inputs of a union go through `emitPipeline`, whose text is a
statement only if every stage of it brings parentheses (`NestedAccepted`). PostgreSQL's
segments and merged selects are sqlite's in other spellings. Each rule of `Rules` is the new
pipeline its `Apply` returns, loops and index bookkeeping included; `Compile` runs
them in the order of `RuleSet` (the order `ExecOnOpt` passes), counts passes as
`Optimize` does, and emits in one dialect or the other. `fired` is a history
variable: the rules that changed something. `large` is what the statistics say of the
source.

### Estimates, Decisions

`Estimates` turns the catalog into numbers. The code computes in floating point; the
model in integers of named units (thousandths for selectivities, a multiple per dialect
for costs), which are exact for the enumerated catalogs except where the code itself cuts
to an integer or rounds up to one row. `Decisions` is the part of `ExecOnOpt` behind the
rules: each pass walks over the stages, one filter (`OrderConjuncts`), one chain
of joins (`ReorderChain`) or one join (`PlanJoin`) per step, and rewrites them in place.
`Best` is the dynamic program over sets of tables, `ByName` the mapping of
the chosen names back to joins. A row is a combination of row numbers, one per
table, so rows before and after a permutation can be compared; `SqlAnswer` resolves a bare
column as the emitter does, in the left side and to the first table that has it, and
`LookupAnswer` is what `ExecPipeline` answers when a hint sends it to the lookup.

### ExecPipeline

`stages` is the backing array of `pipe.Stages`, `orig` what the caller passed;
`outer` and `inner` are the two tables; `keys`, `innerRows`, `outerRows` what the
phases fetched; `result` the rows and the indices of the stages that took effect on
them; `pc` the place in the call. The actions are the statements the call issues and
the code between two of them:

- `Enter`: dispatch of `ExecPipeline`;
- `ExtractKeys`: from the ON clause, or fall through;
- `FetchOuterKeys`: the append of a distinct through the shared array (it lands in the
  join's slot), the emission and the statement, which may fail or return too many keys;
- `FetchInnerByKeys`, `ExecOuterPipeline`: the next two statements, each with its failure;
- `HashJoinByKey`, then `ApplyPostProc`, one stage of the client-side loop per step;
- `ExecNormal`: the statement of the normal path up to the first boundary stage.

`WriteOuter` and `WriteInner` are other sessions. The history sets `steadyOuter`,
`seenOuter` (and inner) are the rows present during all, or some time, of the
call; only properties read them. Emission consumes a join's ON
(`emit_expr.go` sets the operands to nil) when `EmitConsumesOn`, as sqlite does.
A limit without an order answers any subset of that size.

### PostProc

`region` is `pipe.Stages[splitIdx:]`, `read` what the backend answered, `res` the result so
far, `k` the stage to run; one action per executor, `PassThrough` for a sort (`execSort`
does nothing) and for stages that have no executor. A value is `<<kind, of>>`: null, int,
real, text, a Go slice, or the JSON text of an array. Numbers are held in sixtieths,
so that sums, averages and the halves of buckets are whole. `Answers` is what a backend
may answer, `Stages` what stages there are and `Regions` the sequences of them that are run; `Elements`
is what arrays may hold, arrays among it, so that a list of lists is a value and the set of
values needs no recursion. Keys are compared as
printed (`%v`), columns exactly or by lower case, each where the code does.
`MatchParsePattern` is the regular expression `^(.*?)...$`: of the ways to cover the
text, the leftmost shortest. An mv-apply runs its sub-pipeline by the same `Executed`; none has an mv-apply inside it.

### Router

`engines`, `stages` and `rowCount` are the arguments and the statistics; `decisions` the
segments of `Route`, `i` the next, `currentRows` the rows of the last, `ran` the engines
that answered. `RunSegment` answers a segment, always from the pipeline's own source;
`SegmentFails` is its error. `EnginePlan.Plan` is an operator next to it, with the
two estimates of `estimateSegmentCost` and `transferCost`: no code outside the tests asks it,
so nothing in the state machine does.

### Service, Session

`holder` and `opened` are the connections of `database/sql`'s pool, `stored` the rows of one
table as each connection sees it (one database, or one per connection for sqlite's `:memory:`),
`cached` and `catalog` the backend's shared state, `closed` and `dbOpen` the two things
`Close` changes, `pc[c]` the place of each call. A query is `Begin` (reads `closed`
without a lock), `Bind`/`Bound` (a statement of its own when the schema is not cached),
`LoadStats`, `SetCatalog`, `Emit`, `Execute`/`Executed`. A load is `BeginLoad`, the CREATE TABLE
(`AcquireCreate`, `Created`) and one `AcquireFlush`/`Flushed` per batch, or DuckDB's one
statement. `RegisterArrowView` keeps its connection for the statement over the view.
`Close` is `CheckClosed`, `SetClosed`, `CloseDB`, `CloseReturns`. `StatementFails` and `Refused` give the
connection back and end the call.

`Service` has two variables, whether the service is open and where each call is; `Session`
implements it with `open <- dbOpen` and `call <- Status`, where a call is admitted when it
has the connection its work runs on. Pools, the schema's statement, retained catalogs, batches
and the flag `closed` are all below that line.

## 3. The runs

**exec_pipeline** (pass, 742,920 states). Three outer rows, one with a NULL key and one
the filters stop; three inner rows, one with a NULL key; up to `MaxWrites = 2` writes of
other sessions at any point; `MaxIndexLookupKeys = 2`, so both sides of the limit occur;
`take 1`; any statement may fail; 14 pipelines that take every path: all join kinds and
right sides, stages of each class before and after the join, two hinted joins, and
pipelines without one. Two writes are enough to delete and re-create a row, or to
change both tables, between any two of the three statements. Shows: the lookup loses no
pair that stood still (`NoStableMatchLost`) and invents none (`NoPhantomPair`), the
rewrite stays in the join's slot, stages take effect once and in order and the normal
path applies all (`DoneInOrder`, `NormalPathComplete`), the fallback is
rejected only behind an earlier join on sqlite (`RejectedOnlyBehindJoin`), and the
call returns (`Terminates`).

**binder** (pass, 357,480 states). Two goroutines over two tables, one created during the
run; two spellings of one table, of which the catalog knows one; one failing catalog query;
five pipelines: an extend, a join with its own sub-pipeline, a self-join, a union, an
unknown source. Two goroutines and one nesting are what a conflict on a shared schema
takes. Shows: names resolve as the text says although ColIDs race (`ScopeIsLexical`),
a table that existed when the bind began is found (`CreatedTableResolves`), and a bind that
runs alone never lets one ColID stand for two names, anywhere in its query
(`ColIDsDistinctWhenAlone`; a column behind a source without a schema has none, 0).

**compile** (pass, 73,325 states). Every legal pipeline of up to three of 15 stages, and
twelve longer ones in which rules meet, three of which extend a name that is taken; two columns, three values, two tables of three
rows, one with a repeated row; large and small statistics; both dialects; `MaxIter = 6`. The
code's cap is 16: without `TwoStageAgg` these pipelines settle in fewer than six passes (that is
`OnlyTwoStageOscillates`, proved of every pipeline in section 4), and with it they reach any cap. Shows: constant folding,
pushdown and pruning together keep rows and order (`RowsPreserved`), the
statement is accepted (`StatementAccepted`), merging is faithful where at most one sort and
one limit come last in a run (`EmissionFaithful`), for pipelines whose limit comes last
the statement answers the pipeline, end to end (`EndToEnd`), the engine settles
(`OnlyTwoStageOscillates`) and every filter is then as early as the rules can bring it
(`FiltersEarly`), the push into unions loses no row and adds only rows that the pipeline had in front of
a union (`OnlyOwnRowsUnfiltered`; that it adds any is in section 5), and the loops end (`Terminates`).

**decisions** (pass, 175,476 states). All pairs of 18 joins and filters, all triples of seven
of them and chains of three joins behind a fourth stage, if their names resolve; a table under
two spellings; four catalogs (all tables known, a small outer and large indexed inner table, some
tables, another schema's); three policies; the weights of two dialects. Chains of three are
the shortest whose dynamic program chooses between two ways to a set. Every kind of hint
occurs. The catalogs need not describe the rows, as stale statistics do not. Shows: the passes
lose, repeat or alter nothing and no join leaves its chain (`StagesPermuted`); the rows survive
when ON conditions mention only columns from in front of the chain (`RowsSurviveReordering`);
where estimates do not depend on the way, the dynamic program is optimal
(`CheapestOrder`); an unknown schema changes nothing unless the policy is aggressive
(`WeakStatsChangeNothing`).

**frontend** (pass, 10,036 states). Every pair of neighbouring rungs of the precedence ladder
nested both ways, every kind of argument, 37 tabular operators alone and in front of another,
pairs of seven kinds of statement, datatables whose cells fill their rows and not, pairs of
17 operators over two tables of rows; and two scripts of four statements whose second has one
token dropped, doubled or replaced by one of nine, at every place. Two levels of nesting are
what a wrong layer or a wrong side shows in; one damaged token reaches every recovery.
`MaxRows = 3` is more than a literal of four cells has. Shows: a
text that was written from a tree is read as that tree, without a diagnostic
(`TreeOfTheText`); damage costs its own statement and at most the next (`DamageIsLocal`); the
stages answer what the text asks (`SameAnswer`); every turn of every loop consumes something
(`AlwaysAhead`).

**postproc** (pass, 83,524 states). 83 stages, alone and behind every other, and
12 triples, over four answers with nulls, integers beside reals, texts with no, one and two
separators, arrays as slices, as JSON, empty and missing. Pairs are what a mismatch between
one executor's columns and the next one's takes. Shows: rows stay as wide as their columns
(`TypeOK`); no row is lost, made up or moved (`NoRowLost`, of answers whose column `i` numbers the rows,
neighbours differently, behind any stages that should keep rows and that column); a summarize here answers what SQL would,
where the two are comparable (`SummaryAsBackend`); a series puts every row inside its range into
one bucket (`SeriesPartitions`); a pattern gives back what was filled into it (`ParseRecovers`, where its
captures are separated by literals that are not empty and whose characters the texts filled in do not have);
mv-apply is per element while its stages work row by row (`MvApplyRowwise`).

**router** (pass, 100,035 states). Every legal pipeline of up to three of 13 stages, six lists of
engines in either order, three row counts, each segment answered or failing. Three stages
place an aggregate first, last and between others. Shows: the segments are the pipeline and the
heuristic and the cost-based plan cut at one place (`SegmentsAreThePipeline`); the answer is the
pipeline's where the first segment leaves the source's rows as they are (`RoutedAsWritten`). A first
segment that drops or changes rows is left out there: the second never sees it, and the answer is
wrong (`RoutedAnswer`, section 5). No extend of these pipelines takes a name, as one of the engines is PostgreSQL.

**session** (pass, 12,549 states). Three goroutines in ten scenarios: queries of an engine that is
closed once and twice; queries with statistics and without, beside a load, and beside a load and
a close; a view beside a query and a load; on sqlite, PostgreSQL and DuckDB with their pools,
caches, catalogs and ways to load. Two connections, three rows in batches of two: the smallest
pool that can be half busy and the smallest file with a short last batch. Shows: the pool's books
(`TypeOK`); a table holds the batches sent so far and a load that succeeds has
loaded the file (`LoadAddsUp`); the whole implements `Service` (`KeepsPromise`, its safety part
`Init /\ [][Next]_vars` under the refinement mapping, and `EveryCallReturns`, its liveness).

Four runs find what a comment in the code says violated:

| Run | Says | Does |
|---|---|---|
| exec_fallback | indexlookup.go:19 falls back to the normal join | the join's slot has been overwritten by the distinct |
| binder_colid | binder.go:4 stable ColID within a pipeline | another lookup of the same table renumbers it |
| compile_pushdown | rule.go:10 identically correct SQL | a filter moved next to a limit is applied before it |
| session_view | arrow.go:73 a query over a registered view | it waits for the one connection, which the view holds |

**Fairness.** `ExecPipeline`: weak fairness of the call's own steps, because Go schedules
its goroutine and every statement ends, if only by its context's deadline; other sessions
have none. `Compile`: weak fairness of its one thread, which never waits. `Session`: weak
fairness of each call's steps, for the same reasons; a call that waits for a connection has no
step until there is one, so weak fairness assumes nothing of the pool's queue, and the
result rests on each connection coming back. The scenarios of the passing run have contexts
that never end, so no deadline rescues a waiting call.

`Frontend`'s termination needs no fairness: `AlwaysAhead` says every step lowers a number that
is bounded below while `script` is being read, and the run checks for deadlock, so the only
state without a step is the last (`Returned`). `Binder`, `Decisions`, `PostProc` and `Router` state
no liveness: their loops are over a slice that nothing lengthens.

**CHECK_DEADLOCK FALSE** in the other runs: a call, a bind, a compilation, a choice and a routed
query end.

## 4. The proofs

TLAPS checks the theorems below for every value of the constants; TLC checks the same
formulas on the instances of section 3. Assumed are only named types of constants
(`...Assumption` in the modules), which TLC evaluates in every run, and which say what Go's types
and the callers give: finite sets, sequences of stages, tables with at least one column, a value
`None` that is no name, row counts and weights that are natural numbers, stages with ids of their own.

**ExecPipeline** (tables, keys, writes, stages of any number).

| Theorem | Property |
|---|---|
| `TypeCorrect` | `TypeOK` |
| `RewriteIsLocal` | `OnlyJoinSlotRewritten`, the shared array differs from the caller's stages in the join's slot only |
| `LookupComplete`, `LookupSound` | `NoStableMatchLost`, `NoPhantomPair` |
| `StagesInOrder`, `NormalPathLosesNothing` | `DoneInOrder`, `NormalPathComplete` |
| `FallbackAccepted` | `RejectedOnlyBehindJoin` |

The lookup's properties are not inductive: the answer is built from what three earlier statements
saw. `Inv` adds `Coverage`, that after each phase every pair still owed is
covered by what has been fetched (its key in `keys`, its inner row in `innerRows`, its
outer row in `outerRows`), and `Provenance`, where each fetched row came from. `Coverage` holds
because a write can only shrink the steady sets, so a pair owed later was there when each
statement ran. `JoinInv` and `OutcomeInv` say which pipelines can be in which phase.
`OnlyJoinSlotRewritten` is part of `Inv`, because the outer rows are fetched by the
array's stages and the filters among them must still be the caller's (`PreJoinHas`). `CallInv` adds
`DoneInv`, what `result.done` is at each place of the call (a prefix from the statement, then what
the client-side loop has passed), and `GoneInv`, whose ON emission has consumed. What a statement
applies is a recursive function of its stages; `EmittedInOrder` proves by induction that its
indices ascend.

**Binder** (any number of binds, tables, spellings; pipelines of any length and nesting).

| Theorem | Property |
|---|---|
| `NamesAreLexical` | `ScopeIsLexical` |
| `ExistingTableResolves` | `CreatedTableResolves` |
| `AloneIDsAreDistinct` | `ColIDsDistinctWhenAlone` |
| `BindsTyped` | `TypeOK` |

The argument is that sharing is harmless for names and harmful for ids. `HeapInv`: a cached object
has the columns of its table in its table's order; every step writes only ids into it. `BindsInv`
describes each frame of each bind (`CallOK`): the schema it carries has exactly the names the text
has in scope there (`SideKnown`), which is stable under what the others write because those are ids.
`AloneInv` is about ids and only about a bind that nothing overlapped: all bindings it can still
read or has recorded (`AtHand`) give one id one name, and no id is above its allocator. It needs
the frames below the top too, which share objects with it in a self-join. The names a pipeline has
in scope are a recursive function of its stages, and so are the outputs of a stage: `Induction`
gives both their equations.

**Session** (any number of calls, connections, file rows and batch sizes).

| Theorem | Property |
|---|---|
| `PoolKeepsItsLimit` | `TypeOK`, the pool's books |
| `LoadsAddUp` | `LoadAddsUp` |
| `ServiceRefined` | `KeepsPromise`: `Session` implements `Service` under the mapping `open <- dbOpen`, `call <- Status` |

`Inv` says of every place of a call whether it may hold a connection (`CallInv`), that no connection
is held by two calls or by one that is over (`PoolInv`), which catalog is retained (`CatalogInv`), how
many rows of the file have been sent at each place of the load (`SentInv`), and what the table a
connection sees holds (`TableInv`). The refinement is one step simulation per action:
most steps stutter, a connection taken is an `Admit`, and `Close` closes the service at `CloseDB`,
not where it sets the flag.

**Router** (pipelines of any length, any engines and tables).

| Theorem | Property |
|---|---|
| `RoutersAgree` | `SegmentsAreThePipeline` |
| `RoutedAnswersAsWritten` | `RoutedAsWritten` |

`Meaning` is a recursive function; the second theorem needs that applying two
segments one after the other is applying their concatenation. Nothing is proved of the plan's prices: behind
stages that cut no rows the plan tests what one would state, and behind others it is wrong (section 5).

**Decisions** (any number of stages, catalogs, tables, conjuncts and weights).

| Theorem | Property |
|---|---|
| `StagesStayPermuted` | `StagesPermuted` |
| `WeakStatsStayOut` | `WeakStatsChangeNothing` |
| `ChainsAreCheapest` | `CheapestOrder` |
| `RowsSurvive` | `RowsSurviveReordering` |
| `Typed` | `TypeOK` of `Decisions` |

`IInv` tracks where each stage came from: there is an order `p` of the places such that the stage at
`n` is the one from `p[n]` but for its hint or the order of its conjuncts (`Like`), everything between
`n` and `p[n]` is a join that commutes (`Crossable`), and in front of the walk, or before the pass over
joins began, `p` is the identity (`Origin`, `Tracked`). A filter stays where it is because it does not commute.
That a step keeps such an order needs that what it writes back is a rearrangement: for
conjuncts, that an insertion sort loses nothing whatever it compares; for a chain, that the
table of best ways takes each join once and that `ByName`, which looks joins up by
table name, takes each join once although a table may occur twice. The last is a counting
argument (`OneIsLeft`): at each name, fewer joins have been used than there are of that name.
`Unmoved` is the same for statistics that do not know the query's tables.

The cheapest chain is about the numbers. `ReorderedIsCheapest` says that the dynamic program returns
a chain no dearer than any other order of the same joins. The table is a lower bound: a way to
a set costs at least `Best` of it (`BestIsLower`, by induction on the length of the way), which
needs that the estimate of a set does not depend on the way it was reached (`PathFree`, the
hypothesis of `CheapestOrder`; without it the program is a heuristic). It is attained: the order read
back from the table costs what the table says (`WalkedIsBest`). As an
invariant this needs `Settling`: a chain that the walk has passed is behind it as a whole, so
that the next step does not find half a chain, and it stays cheapest under the hints of the
last pass, which no cost reads (`SameTables`).

`RowsSurvive` compares the rows. Where `IInv` has the stages of a chain in some order, the rows behind
the chain are, in any order, the rows in front of it combined with a row of each table that its condition lets through
(`ChainRows`): a condition reads columns from in front of the chain only, so it reads there what it reads among
the chain's tables (`ReadInFront`). Between chains no stage has moved (`CutHolds`), and such a stage
reads the same as before because a column is read from the first table that has it: two tables of a chain that have changed places would
answer differently only for a column both have (`Reads`, `Clean`). Those are the hypotheses of the property. The proof goes from cut to cut,
a cut being a place that no join has crossed (`CutRows`).

**Compile** (pipelines of any length, any columns, rule lists, passes and rows of integers).

| Theorem | Property |
|---|---|
| `RowsArePreserved` | `RowsPreserved` |
| `StatementsAreAccepted` | `StatementAccepted`, for both dialects |
| `FiltersAreEarly` | `FiltersEarly`, if both pushdown rules are in the list |
| `StopsBelowCap` | `OnlyTwoStageOscillates`, if the cap is five passes or more (16 in the code) |
| `EmissionIsFaithful` | `EmissionFaithful`, as long as the unions stand (`UnionsStand`) |
| `AnswersAreRight` | `EndToEnd`, for both dialects |

A pipeline that is bound is `Legal`: its stages mention columns they have, and what a union reads has
the columns in front of it, which the binder takes for granted (binder.go:243-247) and without which a
rowset has no meaning. `RowsArePreserved` and the two theorems behind it assume besides that `Compute` gives
an integer for an integer.

`StatementAccepted` is about columns only. `StatementInv` says that the rules leave stages that
have their columns and, but for the two rules that touch unions, the inputs there were. That each rule keeps it is
a lemma of its own: a walk of PredicatePushdown is a sequence of swaps (`SwapColumns`), a rule that drops
stages drops none that adds a column (`OnlyResolves`), the projection of ColumnPrune lets through whatever
is mentioned behind it (`PruneResolves`), and a filter that has gone into a union's inputs finds the columns of the union there
(`PushIntoUnionResolves`). `ResolvedAccepted` is the emitter's half: segments hand their columns
on (`Chained`), and a merged select mentions only what its run of stages does (`RunSelect`).

`RowsPreserved` compares rows, so the proof needs their types: behind every stage of a legal pipeline, the rows
have the columns the stages say and integers in them (`AppliedTyped`). Sorting was the obstacle: `Sorted` takes
the row whose rank is p, which means something only if each rank occurs once; `PrecedesOrder` and `Places`
prove that from the order being strict and total (`SortedFrom`). With that, a filter commutes with the
extend or projection it passes (`PushPast`), `where false` is a take of none (`FoldedRows`), and the rows of the
pruned pipeline agree with the others', stage by stage, in the columns that are needed (`Agree`,
`PassAgrees`). A `distinct *` looks at all columns, which is where agreement would break, and so the
invariant (`RowsInv`) also says that no rule makes one.

`FiltersEarly` follows from `IdleInv`: in a pass that has changed nothing so far, each rule already run has nothing
left to do. It needs that a walk which ends with the stages it began with has moved none on the way (`IdleWalk`):
a swap cannot be undone later in the same walk.

`StopsBelowCap` is about how the rules feed each other. A bound on the passes that grows with the pipeline
would say nothing of a cap of 16, and none is needed: `SettledInv` says of each rule from which pass on it
leaves something that no other rule undoes (`Settles`, `Calm`). ConstantFold and SaturationRewrite have
nothing left behind the first pass, because no rule makes a literal predicate or a distinct. PredicatePushdown
reaches its fixed point in the second and loses it only if ColumnPrune then puts its projection in front, which it does
once (`Pruned`: two projections, and no union); so ColumnPrune and the push into unions are done behind the third, and the
filters that had to move past the new projection are in front of it behind the fourth. The fifth pass changes nothing.

The statement is compared with the stages in `StatementFaithful`, once for both emitters: the runs of `splitSegments`
are followed stage by stage, and `AbsorbFaithful` says that a run with one more stage, as one merged select, answers
what the shorter run answers with the stage applied to it. While stages are being added the rows are the same as a
set and in their order, but may have other positions (`Alike`), since a select sorts and cuts at its end whatever was absorbed in between;
they are the stages' own rows where the run ends. This holds of a run that is `Fine`: one sort, and a limit
that is last or empty (`where false`, folded), with only empty ones behind that. `SplitFaithful` puts the runs together, each reading the one before,
and the unions between them, whose inputs are pipelines of their own.

`AnswersAreRight` speaks of statements read as SQLite and DuckDB read them: where a name is held twice, the
first column of it (section 2). What the author of an extend of a taken name may have meant is another matter
(`ExtendedIsRead`, section 5).

It combines that with `RowsInv`, and needs that the rules leave every run `Fine`: `ShapeInv`. `Shape` is one
sort, and a limit at the end or limits that are empty. A swap of the pushdown leaves sorts and limits where
they are, a fold drops filters or makes them empty limits and keeps the rest in order (`Embeds`), and what ColumnPrune
inserts is neither.

`EmissionIsFaithful` speaks of the rewritten pipeline's own meaning, whichever rules made it, and rests on
`LegalInv`, that it stays `Legal`. This is false once TwoStageAgg has fired, or SaturationRewrite has dropped a distinct,
in front of a union: the union's inputs no longer have the columns in front of it, and its rows none in common.
`UnionsStand` says neither has happened, and is the only hypothesis on rules; where it fails, the run still checks the
property.

**PostProc** (any answers, columns and stages; sub-pipelines, patterns and texts of any length).

| Theorem | Property |
|---|---|
| `TypeCorrect` | `TypeOK` |
| `RowsKept` | `NoRowLost` |
| `ApplyIsRowwise` | `MvApplyRowwise` |
| `ParseReadsBack` | `ParseRecovers` |
| `SeriesIsPartition` | `SeriesPartitions` |
| `SummaryIsSqls` | `SummaryAsBackend` |

`TypeOK` is inductive: each executor makes a `Result` of a `Result`, and the loops in them (over
arrays, groups, the stages of an mv-apply) are folds that `FoldIterates` and `RunsIterate` turn into functions to
reason about step by step. The four action properties follow from it for the step they are about.

`NoRowLost` is not inductive, since it compares the ends of a run: after a first mv-expand, the rows are repeated
already. `RowsFollow` says that the rows follow the answer's (`Follows`): a monotone map, onto the answer's
rows, says which one each of them comes from. Such maps compose, each keeping stage has one, and a column
that follows one without repeats is that one once its own repeats are squeezed out (`SqueezedIs`).

`MvApplyRowwise`: what a row-by-row stage makes of rows is `OneByOne`, of `a \o b` what it makes of `a` and
then what it makes of `b`. So are copying, picking and exploding rows, and so is one such after
another, hence a whole sub-pipeline (`Reaches`); and a function that is one by one is the concatenation of what it
makes of single rows (`OneByOneFlat`).

`ParseRecovers`: filling a pattern in gives one way to cover the text (`Lays`). The expression takes the leftmost
shortest, which is no other (`LeftmostFills`): where two ways first differ, the other one ends a capture
earlier and its next literal begins inside a text that has none of the literal's characters.

`SeriesPartitions`: a time is in one bucket only (`Buckets`), rows are in the same row of the series just
if they have the same key (`InSeriesIs`), each key has one first row (`HeadsOnce`), and so the groups' sizes add up
to the rows inside (`GroupsAddUp`).

`SummaryAsBackend`: the code's groups, of keys that print alike, are SQL's, of equal keys, because the property
supposes that keys which print alike are equal (`GroupsAsSql`). SQL adds up a group's values in an order
nobody states (`SetToSeq` in `SqlAggregate`) and the code in the order of the rows, after picking them twice:
`EnumeratedSum` says that a sum does not depend on the order in which places are counted up. With that, each
aggregate is SQL's (`AggregateAsSql`), and there are as many rows as keys.

**Induction.** The library's induction theorems take a predicate as a parameter, which the provers
here cannot instantiate. `SetInduction` states the same of a set of naturals, and is proved from
the well-foundedness of `<`; `Iteration` constructs, for any sequence of step functions, the function
that iterates them, and `Iterates` gives a recursively defined function its equation. The proofs
above apply them with the set of lengths for which the claim holds. `SubsetInduction` and
`SubsetRecursion` do the same for functions defined by recursion on the subsets of a finite set,
as the dynamic program is.

**Only model-checked**: all liveness (`Terminates`, `EveryCallReturns`, `AlwaysAhead` as a measure),
which needs fairness and ENABLED; `EmissionFaithful` behind TwoStageAgg, and with a union behind a dropped distinct; `OnlyOwnRowsUnfiltered`;
everything of `Frontend`. `Parser`, `Translate` and `Grammar` have RECURSIVE operators, which the
prover does not take: a descent that calls itself through ten layers of precedence is not a recursion
over a number or a sequence.

## 5. Seen while modelling, without a run

The definitions named here are in the modules. Put one in place of the INVARIANTS or PROPERTIES of
the module's .cfg, with the constant given, to see a counterexample.

Promised by a comment, and otherwise:

- `PostStagesApply` (indexlookup.go:12): filter, extend, distinct, join, union, sort and take
  behind a looked-up join do not take effect.
- `CappedStillValid` (rule.go:95; `MaxIter = 16`, `SPECIFICATION Spec`): at the cap, a partial aggregate
  of `TwoStageAgg` names a column already renamed.
- `UnionPushdownPreservesResult` (predicate_pushdown_union.go:8): the main pipeline's own rows stay
  unfiltered.
- `PruneKeepsMeaning` (column_prune.go:16-18, "provably semantics-preserving"): in `distinct * | project a`
  a star mentions no column, so the projection is put in front of the distinct and rows that differ
  elsewhere become one. `RowsPreserved` excludes it.
- `ExtendedIsRead` (docs/phases/ir/I2-translate.md:21, of `extend x = 1 | project x | where x > 0`: the where
  refers to the column the extend made): if the source has an `x`, the emitters write `alias.*, expr AS "x"`, and
  project and where read the source's on SQLite and DuckDB; on PostgreSQL they are ambiguous. With a UNION in
  the query the second column makes the sides differ in number.
- `AcceptedOnEveryBackend` (rule.go:10): the filter pushed into a union's input becomes text that
  DuckDB does not take. Its `emitPipeline` (emit.go:97-112) writes `SELECT * FROM SELECT ...`, without
  parentheses, for an input or a join's right side with any stage but a union.
- `OnIsOrderIndependent` (join_order.go:193): a join moves in front of the one whose column it needs.
- `HintsAreAdvisory` (stage.go:43): the lookup answers an outer join, or a bare condition, otherwise.
- `LimitLimits` (exec_client.go:168): the executor looks for a Go `int`, the translator makes `int64`.
- `MvApplyPerElement` (postproc_register.go:190): the sub-pipeline runs once over all elements of all rows.
- `RoutedAnswer` (router.go:199): "correct but not optimal"; the second segment reads the original
  source without the first one's filters.
- `TransferPaysOff` (engine_plan.go:15): the plan prices both segments from the source's row count,
  although a filter in front cuts it. Without one the property is the plan's own test.
- `EmittedWithOwnCatalog` (pg/backend.go:29; `Scenarios <- MCStats`): a query is emitted with the catalog
  another one set, before or meanwhile.
- `LoadedEverywhere` (datasource.go:22; `Scenarios <- MCMemory`): with `:memory:` a table is on the
  connection that loaded it.
- `NothingSkippedSilently` (parser.go): tokens behind a statement that ended well are skipped without a
  diagnostic.
- `NextStatementSurvives` (parser.go; `Scripts <- MCDamaged`): an operand that is missing takes the `;`
  or `|` in its place, and an open parenthesis everything to the end.
- `SameAnswer` with `Scripts <- MCProjectAway`: project-away, -keep, -rename, -reorder and -smart all become
  a project of the columns they name.
- `AlwaysAhead` with `Scripts <- MCNoColumns`: `datatable()[1, 2]` cuts its cells into rows of no
  columns for ever.

Parser and translator: the diagnostics of a rewound lookahead stay; `a <-1` is an illegal
token; a union's or a source's `(T | ...)` loses its stages, and `mv-apply ... on (...)` reads one
expression between the parentheses, so that a piped sub-query there is left over; `!between` becomes
`between`; `0x10` is read as 10; a kind of join that is not known becomes the default; sub-pipelines
among scalars and the bodies of lambdas are dropped.

Emission and rules:

- A merged select answers `take | where`, `take | take`, `sort | sort` and
  `where false | take` otherwise than the stages one by one, although emit_cte.go:16-17 says
  that it "falls back gracefully rather than producing wrong SQL". `EmissionFaithful`
  excludes them (`MergeFree`).
- TwoStageAgg's second stage counts the partial rows instead of adding their counts up.
- SaturationRewrite drops a `distinct col`, which also projects.
- DuckDB's `emitSource` knows `SourceDatatable`, and the translator makes `SourceDatatableLit`; joins of pg and DuckDB select
  `a.*, b.*`, whose equal names a later CTE finds ambiguous.

Binder and decisions:

- Behind `distinct a` the binder still resolves the columns that are gone (binder.go:169-173), and the database
  rejects the statement. `Legal` leaves such pipelines out.
- An extend over a source without a schema leaves a schema of its own columns only, so a later
  mention of a source column is rejected, although binder.go:39-40 says a nil schema never over-rejects.
- JoinPlan costs every join with the pipeline's own table as its left side, so its hints do not
  depend on the order of the joins, which join_order.go:190-191 re-runs it for.
- Conservative keeps the text order only if all selectivities are the placeholder; its comment
  (policy.go:59-60) says if any is. A column with ten distinct values counts as placeholder.

Execution:

- The lookup answers the inner join whatever the kind, and compares one condition of the ON.
- Client side: sum, min and max of no values answer 0; no keys and no rows answer no row; keys 1 and "1"
  fall into one group; a key that is a bare column is named ""; make-series fills no gaps, an
  automatic range takes a start of 0 for none and leaves the last row out; parse keeps `x:type` as the
  name; the sort executor does nothing; `sum()` without an argument, of which the binder only warns,
  panics (exec_client.go:130).
- A routed query of one segment runs on the first engine of the list, whichever `Route` named;
  `ExecMulti` and `EnginePlan` are called by tests only.
- `ExecArrow` gives its connection back before the reader is drained; pg's `LoadFile` writes `?`
  placeholders, so every load fails after its CREATE TABLE; a key missing in a JSON line is stored as `<nil>`.

## 6. Abstractions and what is not modelled

Expressions are equality tests and computed columns, except in the front end, which has their
trees; SQL text, quoting and placeholders are left out; a `Filter` before a lookup is a set of rows
that pass; `ExecPipeline` records the client-side executors and `PostProc` computes them. A token is a
spelling, one character wide; a pattern of parse arrives as its tokens; a number's text is one
character. External, modelled from their use: the database's answer to a statement, its other
sessions, its order preservation through a CTE (SQLite's behaviour, not SQL's), `database/sql`'s pool,
which is in `Take`, `Give` and `Refused`.

Not modelled: the lexer's characters; types and function arity in the binder; the operators that
the translator passes over and whose syntax is their own (graph, scan, find, ...); folding inside expressions (floating
point) and `ViewMatch` (it compares printed expressions); CTE materialization, which changes
PostgreSQL's plan and never its answer; expressions, joins and placeholders of the PostgreSQL
and DuckDB emitters; the conversion of rows to Arrow batches and back; `ir.Equivalent` and the printers,
pure functions nothing in the query path calls; the function catalogue, a table; the commands,
which read flags and print.

## 7. The plan

Done: `ExecPipeline`, `Binder`, `Router`, `Session`, `Decisions`, `Compile` and `PostProc` with proofs; `Frontend`.

- **Proofs**. `EmissionFaithful` behind TwoStageAgg in front of a union, if it holds there of more than small
  pipelines; the loop of `Frontend`, with the descent as a constant.
- **Models**. An abstract lookup that answers in one step, and `ExecPipeline` as an
  implementation of it where other sessions do not write; joins in `Rowsets`, and
  with them the nested right sides of DuckDB and the not-null half of `SaturationRewrite`; CTE
  materialization next to `Estimates`; folding inside expressions over small integers.
