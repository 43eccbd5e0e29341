------------------------------- MODULE Binder -------------------------------
(***************************************************************************)
(* internal/frontend/binder over the schema cache of a backend: threads     *)
(* that each bind one pipeline, sharing one Backend.                         *)
(*                                                                          *)
(* Backend.Schema returns a POINTER to the cached schema, and sourceSchema  *)
(* writes freshly allocated ColIDs into it, so every bind of a table writes *)
(* the object all other binds of that table read.  Filter, Sort, Limit,     *)
(* Distinct and Union thread that pointer on; Project, Extend, Aggregate    *)
(* and Join copy the bindings out of it.                                    *)
(*                                                                          *)
(* Abstractions: a column name stands for all its spellings (Lookup folds   *)
(* case) and for its physical name; types and functions are left out; an    *)
(* expression is the sequence of columns it mentions, one item each.        *)
(***************************************************************************)
EXTENDS Integers, Sequences, FiniteSets

CONSTANTS
  Threads,            \* how many goroutines bind; numbered in the order they begin
  MaxFailures,        \* bound on the catalog queries that fail
  Name,               \* the names a column may have
  Table, Columns,     \* the tables that may exist, and their column names
  Created,            \* those of them that a LoadFile may create meanwhile
  Spelling, TableOf,  \* what a query may write for a table
  Exact,              \* the spellings the catalog query finds: all of them on
                      \*   sqlite, the stored (lower-case) ones on pg
  Pipe,               \* the pipelines, sub-pipelines included
  Whole,              \* those of them that a query is
  Source,             \* pipeline -> the spelling it reads, or None
  Stages,             \* pipeline -> its stages
  None

(***************************************************************************)
(* A stage is [op, items, subs]: subs are the right side of a join or the   *)
(* inputs of a union, pipelines that occur nowhere else; an item mentions   *)
(* one column (ref), gives its output a name, or is a star.                 *)
(***************************************************************************)
Thread   == 1 .. Threads
StageOps == {"pass", "project", "extend", "aggregate", "join", "union"}
Item     == [ref : Name \cup {None}, name : Name \cup {None}, star : BOOLEAN]
StageSet == [op : StageOps, items : Seq(Item), subs : Seq(Pipe)]

ASSUME NoneAssumption == None \notin Spelling \cup Table \cup Pipe \cup Name
ASSUME CatalogAssumption ==
  /\ Columns \in [Table -> Seq(Name)] /\ \A tb \in Table : Columns[tb] # <<>>
  /\ TableOf \in [Spelling -> Table]
  /\ Exact \subseteq Spelling
  /\ Created \subseteq Table
ASSUME PipelineAssumption ==
  /\ Whole \subseteq Pipe
  /\ Source \in [Pipe -> Spelling \cup {None}]
  /\ Stages \in [Pipe -> Seq(StageSet)]
  /\ \A p \in Pipe : \A k \in DOMAIN Stages[p] :
       Stages[p][k].op = "join" => Len(Stages[p][k].subs) = 1
ASSUME BoundsAssumption == Threads \in Nat /\ MaxFailures \in Nat

VARIABLES
  exists,      \* the tables in the database
  heap,        \* the *Schema objects: sequences of bindings [id, name]
  cache,       \* schemaCache: table -> index in heap, or 0
  frames,      \* thread -> the stack of bindPipeline calls, innermost first
  next,        \* thread -> binder.next
  refs,        \* thread -> the references stamped, as [pipe, at, name, id]
  diags,       \* thread -> the diagnostics recorded, as [kind, pipe, at, name]
  plan,        \* thread -> the pipeline it binds, or None before it starts
  knew,        \* history: thread -> the tables that existed when it started
  overlapped   \* history: the threads whose bind overlapped another one

vars == <<exists, heap, cache, frames, next, refs, diags, plan, knew, overlapped>>
shared  == <<exists, heap, cache>>
history == <<plan, knew, overlapped>>

Binding(id, name) == [id |-> id, name |-> name]

\* A schema value: nil, the shared object, or bindings of the caller's own.
NilSchema    == [kind |-> "nil", obj |-> 0, cols |-> <<>>]
Shared(obj)  == [kind |-> "shared", obj |-> obj, cols |-> <<>>]
Own(cols)    == [kind |-> "own", obj |-> 0, cols |-> cols]
IsNil(s)     == s.kind = "nil"
Cols(s)      == IF s.kind = "shared" THEN heap[s.obj] ELSE s.cols

\* A call of bindPipeline.  `step` is where it is: looking a source up (load,
\* query, store, alloc) for itself or for the right side of a join (`wants`),
\* binding stages, or at the ON of a join.
Frame(p) ==
  [pipe |-> p, at |-> 1, sub |-> 1, in |-> NilSchema, right |-> NilSchema,
   step |-> "load", wants |-> "source", source |-> Source[p], obj |-> 0, col |-> 1]

Idle(t)    == frames[t] = <<>>
Top(t)     == Head(frames[t])
Stage(t)   == Stages[Top(t).pipe][Top(t).at]
SetTop(t, f) == frames' = [frames EXCEPT ![t] = <<f>> \o Tail(@)]

-----------------------------------------------------------------------------
(* Lookup, checkExpr and the output schema of a stage *)

Has(cols, name) == \E k \in DOMAIN cols : cols[k].name = name
Lookup(cols, name) ==
  cols[CHOOSE k \in DOMAIN cols :
         cols[k].name = name /\ \A j \in 1 .. k - 1 : cols[j].name # name]

Mentioned(items) == {items[k].ref : k \in DOMAIN items} \ {None}

\* checkExpr over the expressions of a stage.
CheckExprs(t, items, in) ==
  /\ refs' = [refs EXCEPT ![t] = @ \cup
       IF IsNil(in) THEN {}
       ELSE {[pipe |-> Top(t).pipe, at |-> Top(t).at, name |-> n, id |-> Lookup(Cols(in), n).id] :
               n \in {m \in Mentioned(items) : Has(Cols(in), m)}}]
  /\ diags' = [diags EXCEPT ![t] = @ \cup
       IF IsNil(in) THEN {}
       ELSE {[kind |-> "column", pipe |-> Top(t).pipe, at |-> Top(t).at, name |-> n] :
               n \in {m \in Mentioned(items) : ~Has(Cols(in), m)}}]

\* projectBinding and namedBinding: a named item gets a fresh ColID, a bare column
\* inherits its binding (a synthetic one without ColID from a nil schema).
Fresh(item, in) ==
  item.name # None \/ item.ref = None \/ (~IsNil(in) /\ ~Has(Cols(in), item.ref))
OutputOf(item, in, id) ==
  IF Fresh(item, in) THEN Binding(id, IF item.name # None THEN item.name ELSE item.ref)
  ELSE IF IsNil(in)  THEN Binding(0, item.ref)
  ELSE Lookup(Cols(in), item.ref)

\* What an item of a stage adds to the bindings before it, and to the ids given: a star
\* of a project stands for the input, and an extend passes over what has no name.
Copies(op, item) == op = "project" /\ item.star
AddOutput(op, item, in, acc) ==
  IF Copies(op, item)
  THEN [acc EXCEPT !.cols = @ \o (IF IsNil(in) THEN <<>> ELSE Cols(in))]
  ELSE IF op = "extend" /\ item.name = None THEN acc
  ELSE [cols |-> Append(acc.cols, OutputOf(item, in, acc.next + 1)),
        next |-> IF Fresh(item, in) THEN acc.next + 1 ELSE acc.next]

\* The bindings the first k items of a stage add, as [cols, next].
Added(op, items, in, first) ==
  LET add[k \in 0 .. Len(items)] ==
        IF k = 0 THEN [cols |-> <<>>, next |-> first]
                 ELSE AddOutput(op, items[k], in, add[k - 1])
  IN  add
Outputs(op, items, in, first) == Added(op, items, in, first)[Len(items)]

\* The output schema of a stage that has no sub-pipeline left to bind, as
\* [schema, next].
StageOutput(stage, in, right, first) ==
  LET own == Outputs(stage.op, stage.items, in, first)
      ins == IF IsNil(in) THEN <<>> ELSE Cols(in)
  IN  CASE stage.op \in {"pass", "union"} -> [schema |-> in, next |-> first]
        [] stage.op \in {"project", "aggregate"} -> [schema |-> Own(own.cols), next |-> own.next]
        [] stage.op = "extend" -> [schema |-> Own(ins \o own.cols), next |-> own.next]
        [] stage.op = "join" ->
             [schema |-> IF IsNil(in) THEN in
                         ELSE Own(ins \o (IF IsNil(right) THEN <<>> ELSE Cols(right))),
              next |-> first]

\* An extend that appended to in.Cols instead of a copy of it.
HeapAfterInPlace(stage, in) ==
  IF stage.op = "extend" /\ in.kind = "shared"
  THEN [heap EXCEPT ![in.obj] = @ \o Outputs(stage.op, stage.items, in, 0).cols]
  ELSE heap
HeapAfter(stage, in) == heap

-----------------------------------------------------------------------------
Init ==
  /\ exists \in {Table, Table \ Created}
  /\ heap = <<>> /\ cache = [tb \in Table |-> 0]
  /\ frames = [t \in Thread |-> <<>>]
  /\ next = [t \in Thread |-> 0]
  /\ refs = [t \in Thread |-> {}] /\ diags = [t \in Thread |-> {}]
  /\ plan = [t \in Thread |-> None]
  /\ knew = [t \in Thread |-> {}] /\ overlapped = {}

Busy == {t \in Thread : ~Idle(t)}

\* Bind: a new binder with its own allocator.
Begin(t) ==
  /\ plan[t] = None /\ \A u \in 1 .. t - 1 : plan[u] # None
  /\ \E p \in Whole :
       /\ plan' = [plan EXCEPT ![t] = p]
       /\ frames' = [frames EXCEPT ![t] = <<Frame(p)>>]
  /\ knew' = [knew EXCEPT ![t] = exists]
  /\ overlapped' = IF Busy = {} THEN overlapped ELSE overlapped \cup Busy \cup {t}
  /\ UNCHANGED <<shared, next, refs, diags>>

\* The frame once its source is resolved to schema s: a source starts the walk,
\* the right side of a join goes on to its ON.
Sourced(f, s) ==
  IF f.wants = "source" THEN [f EXCEPT !.in = s, !.step = "stages"]
                        ELSE [f EXCEPT !.right = s, !.step = "on"]

CacheHitUnchecked(source) == TRUE
CacheHit(source)          == cache[TableOf[source]] # 0

\* Backend.Schema up to the cache; a source that is no table has no schema.
LoadSchema(t) ==
  /\ ~Idle(t) /\ Top(t).step = "load"
  /\ LET f == Top(t)
     IN  SetTop(t,
           IF f.source = None THEN Sourced(f, NilSchema)
           ELSE IF CacheHit(f.source)
           THEN [f EXCEPT !.step = "alloc", !.col = 1, !.obj = cache[TableOf[f.source]]]
           ELSE [f EXCEPT !.step = "query"])
  /\ UNCHANGED <<shared, next, refs, diags, history>>

SchemaError(t, kind) ==
  diags' = [diags EXCEPT ![t] = @ \cup
    {[kind |-> kind, pipe |-> Top(t).pipe, at |-> Top(t).at, name |-> Top(t).source]}]

\* The catalog query on a miss.  Several binds may miss together, and each makes
\* an object of its own.
NewColumns(tb) == [k \in DOMAIN Columns[tb] |-> Binding(0, Columns[tb][k])]

Failures == Cardinality(UNION {{<<u, d>> : d \in {e \in diags[u] : e.kind = "failed"}} : u \in Thread})

\* What the catalog query finds; and finding nothing once more because it was not
\* there before.
FindsOrRemembersMiss(source) ==
  /\ source \in Exact /\ TableOf[source] \in exists
  /\ \A u \in Thread : \A d \in diags[u] : ~(d.kind = "missing" /\ d.name = source)
Finds(source) == source \in Exact /\ TableOf[source] \in exists

QueryCatalog(t) ==
  /\ ~Idle(t) /\ Top(t).step = "query"
  /\ LET f == Top(t)
     IN  \/ /\ Finds(f.source)
            /\ heap' = Append(heap, NewColumns(TableOf[f.source]))
            /\ SetTop(t, [f EXCEPT !.obj = Len(heap) + 1, !.step = "store"])
            /\ UNCHANGED diags
         \/ /\ ~Finds(f.source)
            /\ SchemaError(t, "missing")
            /\ SetTop(t, Sourced(f, NilSchema))
            /\ UNCHANGED heap
         \/ /\ Failures < MaxFailures
            /\ SchemaError(t, "failed")                 \* the query itself
            /\ SetTop(t, Sourced(f, NilSchema))
            /\ UNCHANGED heap
  /\ UNCHANGED <<exists, cache, next, refs, history>>

StoreSchema(t) ==
  /\ ~Idle(t) /\ Top(t).step = "store"
  /\ cache' = [cache EXCEPT ![TableOf[Top(t).source]] = Top(t).obj]
  /\ SetTop(t, [Top(t) EXCEPT !.step = "alloc", !.col = 1])
  /\ UNCHANGED <<exists, heap, next, refs, diags, history>>

\* alloc
NextIDPerSource(t) == Top(t).col
NextID(t)          == next[t] + 1

\* sourceSchema's loop: one column of the shared object, and out after the last.
AllocColumn(t) ==
  /\ ~Idle(t) /\ Top(t).step = "alloc"
  /\ LET f == Top(t)
     IN  /\ heap' = [heap EXCEPT ![f.obj][f.col].id = NextID(t)]
         /\ next' = [next EXCEPT ![t] = NextID(t)]
         /\ SetTop(t, IF f.col = Len(heap[f.obj]) THEN Sourced(f, Shared(f.obj))
                                                  ELSE [f EXCEPT !.col = @ + 1])
  /\ UNCHANGED <<exists, cache, refs, diags, history>>

InStages(t) == ~Idle(t) /\ Top(t).step = "stages" /\ Top(t).at <= Len(Stages[Top(t).pipe])

\* bindStage goes down into the next sub-pipeline of a join or a union.
Descend(t) ==
  /\ InStages(t) /\ Top(t).sub <= Len(Stage(t).subs)
  /\ LET f == Top(t)
     IN  frames' = [frames EXCEPT ![t] =
                      <<Frame(Stage(t).subs[f.sub])>> \o @]
  /\ UNCHANGED <<shared, next, refs, diags, history>>

\* The call below a sub-pipeline, whose schema is dropped, goes on: a join looks the
\* source of its right side up a second time, a union turns to its next input.
Resumed(up, pipe) ==
  IF Stages[up.pipe][up.at].op = "join"
  THEN [up EXCEPT !.sub = @ + 1, !.step = "load", !.wants = "right", !.source = Source[pipe]]
  ELSE [up EXCEPT !.sub = @ + 1]

\* The walk is over.
Return(t) ==
  /\ ~Idle(t) /\ Top(t).step = "stages" /\ Top(t).at > Len(Stages[Top(t).pipe])
  /\ frames' = [frames EXCEPT ![t] =
       IF Tail(@) = <<>> THEN <<>> ELSE <<Resumed(@[2], Top(t).pipe)>> \o Tail(Tail(@))]
  /\ UNCHANGED <<shared, next, refs, diags, history>>

\* The rest of bindStage: check the expressions, thread the output schema on.
BindStage(t) ==
  /\ \/ InStages(t) /\ Top(t).sub > Len(Stage(t).subs)
     \/ ~Idle(t) /\ Top(t).step = "on"
  /\ LET f == Top(t)
         out == StageOutput(Stage(t), f.in, f.right, next[t])
     IN  /\ CheckExprs(t, Stage(t).items, f.in)
         /\ next' = [next EXCEPT ![t] = out.next]
         /\ heap' = HeapAfter(Stage(t), f.in)
         /\ SetTop(t, [f EXCEPT !.at = @ + 1, !.sub = 1, !.in = out.schema,
                                !.right = NilSchema, !.step = "stages"])
  /\ UNCHANGED <<exists, cache, history>>

\* LoadFile, in another goroutine or process, creates a table.
CreateTable ==
  /\ \E tb \in Created \ exists : exists' = exists \cup {tb}
  /\ UNCHANGED <<heap, cache, frames, next, refs, diags, history>>

BindStep(t) ==
  \/ LoadSchema(t) \/ QueryCatalog(t) \/ StoreSchema(t) \/ AllocColumn(t)
  \/ Descend(t) \/ Return(t) \/ BindStage(t)

Next == CreateTable \/ \E t \in Thread : Begin(t) \/ BindStep(t)

Spec == Init /\ [][Next]_vars

-----------------------------------------------------------------------------
(* Correctness *)

Steps   == {"load", "query", "store", "alloc", "stages", "on"}
InHeap(obj)   == obj \in DOMAIN heap

TypeOK ==
  /\ exists \subseteq Table
  /\ cache \in [Table -> 0 .. Len(heap)]
  /\ next \in [Thread -> Nat]
  /\ \A t \in Thread :
       /\ plan[t] \in Whole \cup {None}
       /\ knew[t] \subseteq exists
       /\ \A k \in DOMAIN frames[t] :
            LET f == frames[t][k]
            IN  /\ f.step \in Steps /\ f.wants \in {"source", "right"}
                /\ f.step \in {"store", "alloc"} => InHeap(f.obj)
                /\ f.in.kind = "shared" => InHeap(f.in.obj)
                /\ f.right.kind = "shared" => InHeap(f.right.obj)
                /\ k > 1 => f.step = "stages"
  /\ overlapped \subseteq Thread

NamesOf(tb)  == {Columns[tb][c] : c \in DOMAIN Columns[tb]}
Plain(st)    == {j \in DOMAIN st.items : ~ Copies(st.op, st.items[j])}
GivenBy(st)  == {st.items[j].name : j \in Plain(st)} \ {None}
BareRefs(st) == {st.items[j].ref : j \in {i \in Plain(st) : st.items[i].name = None}} \ {None}

\* The names a stage leaves, of those it finds.
Leaves(st, names) ==
  CASE st.op \in {"pass", "union"} -> names
    [] st.op = "extend" -> names \cup GivenBy(st)
    [] st.op = "join"   -> names \cup NamesOf(TableOf[Source[st.subs[1]]])
    [] OTHER -> GivenBy(st) \cup BareRefs(st)
                  \cup (IF Plain(st) # DOMAIN st.items THEN names ELSE {})

\* The names each stage may mention, and those the last one leaves, from the text of
\* the pipeline alone.
ScopeIn(p) ==
  LET after[k \in 0 .. Len(Stages[p])] ==
        IF k = 0 THEN IF Source[p] = None THEN {} ELSE NamesOf(TableOf[Source[p]])
                 ELSE Leaves(Stages[p][k], after[k - 1])
  IN  [k \in 1 .. Len(Stages[p]) + 1 |-> after[k - 1]]
Scope == [p \in Pipe |-> ScopeIn(p)]

SourceTrouble(t) == \E d \in diags[t] : d.kind \in {"missing", "failed"}
\* The pipelines all of whose columns come from tables.
TableJoin(st) == st.op = "join" => Source[st.subs[1]] # None
FromTables == {p \in Pipe : Source[p] # None /\ \A k \in DOMAIN Stages[p] : TableJoin(Stages[p][k])}

\* What a name means depends on the pipeline's text and the catalog only: however
\* binds interleave on the shared object, a mentioned column resolves exactly
\* when it is in lexical scope, and is diagnosed exactly when it is not.
ScopeIsLexical ==
  \A t \in Thread : (plan[t] # None /\ ~SourceTrouble(t)) =>
     /\ \A r \in refs[t]  : r.pipe \in FromTables => r.name \in Scope[r.pipe][r.at]
     /\ \A d \in diags[t] : d.pipe \in FromTables => d.name \notin Scope[d.pipe][d.at]

\* A table that existed when a bind began is never reported missing by it, however
\* often it was looked up in vain before (misses are not cached).
CreatedTableResolves ==
  \A t \in Thread : \A d \in diags[t] :
     (d.kind = "missing" /\ d.name \in Exact) => TableOf[d.name] \notin knew[t]

Alone(t) == plan[t] # None /\ t \notin overlapped
\* Names a pipeline gives to outputs of its own may mean several columns in turn.
GivenIn(p) == UNION {GivenBy(Stages[p][k]) : k \in DOMAIN Stages[p]}

StableIn(t) ==
  \A r, s \in refs[t] :
     (r.pipe = s.pipe /\ r.name = s.name /\ r.name \notin GivenIn(r.pipe))
        => r.id = s.id

\* Alone, even a self-join leaves different columns different ColIDs, in all of the
\* query: the allocator is never reset between the source lookups of one bind.  (A
\* reference behind a source without a schema has no ColID.)
ColIDsDistinctWhenAlone ==
  \A t \in Thread : Alone(t) =>
     \A r, s \in refs[t] : (r.id = s.id /\ r.id # 0) => r.name = s.name

-----------------------------------------------------------------------------
(* What the documentation says *)

\* binder.go:4-6: "a column is referenced by a stable integer (ColID) within a
\* pipeline".
ColIDStable == \A t \in Thread : plan[t] # None => StableIn(t)

=============================================================================
