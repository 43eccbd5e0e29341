------------------------------- MODULE Session -------------------------------
(***************************************************************************)
(* pkg/kql and the backends below it: goroutines that share one backend,    *)
(* its connection pool, its schema cache, its statistics catalog and its     *)
(* tables.  A call is                                                        *)
(*   "exec"    Engine.Exec,      "close"  Engine.Close,                      *)
(*   "execOn"  ExecOnOpt,        "load"   LoadFile,                          *)
(*   "view"    RegisterArrowView and a statement over the view (the bridge    *)
(*             of a duckdb_arrow build, as arrow_test.go uses it).            *)
(*                                                                          *)
(* The pool is database/sql's: a statement takes an idle connection or opens  *)
(* one while there are fewer than `conns`, waits otherwise, and gives it back *)
(* to at most `idle` idle ones.  In `memory` (sqlite's ":memory:") every      *)
(* connection has a database of its own.                                     *)
(*                                                                          *)
(* Abstractions: one table, of which the rows are counted; parsing and        *)
(* rewriting are the other modules'; the optimizer's steps that touch nothing *)
(* shared are one with the emission.                                         *)
(***************************************************************************)
EXTENDS Integers, FiniteSets

CONSTANTS
  Call, Conn, None,
  Scenarios,      \* [kind, path : per call; conns, idle : Nat;
                  \*  memory, caches, setsCatalog, native, marks : BOOLEAN]: native when the
                  \*  database reads the file itself, marks when it takes ? for a parameter
  FileRows,       \* the rows of the file
  BatchSize       \* the rows of one INSERT (500 in the code)

ASSUME BoundsAssumption == FileRows \in Nat /\ BatchSize \in Nat \ {0}
ASSUME NoneAssumption == None \notin Call
ASSUME ScenarioAssumption ==
  \A s \in Scenarios :
    /\ s.kind \in [Call -> {"exec", "execOn", "load", "view", "close"}]
    /\ s.conns \in Nat /\ s.idle \in Nat
    /\ s.memory \in BOOLEAN

NoTable == -1

VARIABLES
  sc,          \* the scenario
  closed,      \* Engine.closed
  dbOpen,      \* the sql.DB has not been closed
  holder,      \* who has each connection: a call or None
  opened,      \* the connections that are open
  stored,      \* the rows of the table, as each connection sees it
  cached,      \* the schema of the table is in the cache
  catalog,     \* Backend.catalog: a path or None
  pc,          \* what each call does next
  own,         \* the catalog a call has loaded
  emitted,     \* the catalog its statement was emitted with, "nothing" before
  sent,        \* the rows a load has sent
  seen,        \* the rows a query has read
  outcome      \* "none", "answered" or "failed"
vars == << sc, closed, dbOpen, holder, opened, stored, cached, catalog, pc, own, emitted, sent, seen, outcome >>
pool == << holder, opened >>

Init ==
  /\ sc \in Scenarios
  /\ closed = FALSE /\ dbOpen = TRUE
  /\ holder = [k \in Conn |-> None] /\ opened = {}
  /\ stored = [k \in Conn |-> NoTable]
  /\ cached = FALSE /\ catalog = None
  /\ pc = [c \in Call |-> "start"]
  /\ own = [c \in Call |-> None]
  /\ emitted = [c \in Call |-> "nothing"]
  /\ sent = [c \in Call |-> 0]
  /\ seen = [c \in Call |-> NoTable]
  /\ outcome = [c \in Call |-> "none"]

Is(c, kinds)  == sc.kind[c] \in kinds
Goto(c, step) == pc' = [pc EXCEPT ![c] = step]
Query == {"exec", "execOn"}

-----------------------------------------------------------------------------
(* database/sql *)

\* A mutant: a connection is opened whatever the limit.
TakeBeyond(c, k) ==
  /\ holder[k] = None
  /\ holder' = [holder EXCEPT ![k] = c]
  /\ opened' = opened \cup {k}
\* A statement over connection k.
Take(c, k) ==
  /\ holder[k] = None
  /\ \/ k \in opened
     \/ /\ \A j \in opened : holder[j] # None
        /\ Cardinality(opened) < sc.conns
  /\ holder' = [holder EXCEPT ![k] = c]
  /\ opened' = opened \cup {k}
\* A mutant: the pool is not asked whether it is closed.
AcquireAlways(c, from, to) ==
  /\ pc[c] = from
  /\ \E k \in Conn : Take(c, k)
  /\ Goto(c, to)
  /\ UNCHANGED << sc, closed, dbOpen, stored, cached, catalog, own, emitted, sent, seen, outcome >>
Acquire(c, from, to) ==
  /\ pc[c] = from /\ dbOpen
  /\ \E k \in Conn : Take(c, k)
  /\ Goto(c, to)
  /\ UNCHANGED << sc, closed, dbOpen, stored, cached, catalog, own, emitted, sent, seen, outcome >>

\* The connections a call gives back: closed when the pool is, or has its idle ones.
Mine(c) == {k \in opened : holder[k] = c}
Idle    == {k \in opened : holder[k] = None}
Give(c) ==
  /\ holder' = [k \in Conn |-> IF holder[k] = c THEN None ELSE holder[k]]
  /\ opened' = IF dbOpen /\ Cardinality(Idle \cup Mine(c)) <= sc.idle THEN opened ELSE opened \ Mine(c)
\* With its connection goes a database in memory.
Left(content) == [k \in Conn |-> IF sc.memory /\ k \notin opened' THEN NoTable ELSE content[k]]
\* A statement of c that leaves n rows, and one that leaves them alone.
Writes(c, n) == stored' = Left([k \in Conn |-> IF sc.memory /\ k \notin Mine(c) THEN stored[k] ELSE n])
Reads        == stored' = Left(stored)
\* What the statement of c sees.
Table(c) == stored[CHOOSE k \in Mine(c) : TRUE]

Return(c, how) ==
  /\ Goto(c, "done")
  /\ outcome' = [outcome EXCEPT ![c] = how]

\* A closed pool refuses a statement; one under way may fail, with the call.
Waiting == {"bind", "want", "create", "flush", "view"}
Refused(c) ==
  /\ pc[c] \in Waiting /\ ~ dbOpen
  /\ Give(c) /\ Reads
  /\ Return(c, "failed")
  /\ UNCHANGED << sc, closed, dbOpen, cached, catalog, own, emitted, sent, seen >>
\* A mutant: an error leaves the connection where it is.
StatementFailsHolding(c) ==
  /\ pc[c] \in {"binding", "hold", "creating", "flushing"}
  /\ UNCHANGED << holder, opened, stored >>
  /\ Return(c, "failed")
  /\ UNCHANGED << sc, closed, dbOpen, cached, catalog, own, emitted, sent, seen >>
Holding == {"binding", "hold", "creating", "flushing"}
StatementFails(c) ==
  /\ pc[c] \in Holding
  /\ Give(c) /\ Reads
  /\ Return(c, "failed")
  /\ UNCHANGED << sc, closed, dbOpen, cached, catalog, own, emitted, sent, seen >>

-----------------------------------------------------------------------------
(* Engine.Exec and ExecOnOpt *)

\* Engine.closed is read without a lock: a query may miss that it has been set.
Begin(c) ==
  /\ pc[c] = "start" /\ Is(c, Query)
  /\ \/ /\ closed /\ Is(c, {"exec"})
        /\ Return(c, "failed")
     \/ /\ Goto(c, IF cached THEN "load" ELSE "bind")
        /\ UNCHANGED outcome
  /\ UNCHANGED << sc, closed, dbOpen, pool, stored, cached, catalog, own, emitted, sent, seen >>

\* Schema: one statement, and the schema into the cache of the backends that have one.
Bind(c) == Acquire(c, "bind", "binding")
Bound(c) ==
  /\ pc[c] = "binding"
  /\ Give(c) /\ Reads
  /\ IF Table(c) = NoTable
     THEN Return(c, "failed") /\ UNCHANGED cached
     ELSE Goto(c, "load") /\ cached' = sc.caches /\ UNCHANGED outcome
  /\ UNCHANGED << sc, closed, dbOpen, catalog, own, emitted, sent, seen >>

\* stats.Load, whose error leaves no catalog, and SetCatalog with what it gave.
LoadStats(c) ==
  /\ pc[c] = "load"
  /\ \/ own' = own
     \/ own' = [own EXCEPT ![c] = sc.path[c]]
  /\ Goto(c, IF sc.path[c] = None THEN "emit" ELSE "set")
  /\ UNCHANGED << sc, closed, dbOpen, pool, stored, cached, catalog, emitted, sent, seen, outcome >>
SetCatalog(c) ==
  /\ pc[c] = "set"
  /\ catalog' = IF sc.setsCatalog THEN own[c] ELSE catalog
  /\ Goto(c, "emit")
  /\ UNCHANGED << sc, closed, dbOpen, pool, stored, cached, own, emitted, sent, seen, outcome >>
Emit(c) ==
  /\ pc[c] = "emit"
  /\ emitted' = [emitted EXCEPT ![c] = catalog]
  /\ Goto(c, "want")
  /\ UNCHANGED << sc, closed, dbOpen, pool, stored, cached, catalog, own, sent, seen, outcome >>

Execute(c) == Acquire(c, "want", "hold")
Executed(c) ==
  /\ pc[c] = "hold"
  /\ Give(c) /\ Reads
  /\ seen' = [seen EXCEPT ![c] = Table(c)]
  /\ Return(c, IF Is(c, Query) /\ Table(c) = NoTable THEN "failed" ELSE "answered")
  /\ UNCHANGED << sc, closed, dbOpen, cached, catalog, own, emitted, sent >>

-----------------------------------------------------------------------------
(* LoadFile: CREATE TABLE, then one INSERT per batch, each a statement of its own; *)
(* one CREATE TABLE AS on DuckDB, except for JSON lines                       *)

\* The file may be of no known format, or its head unreadable; DuckDB sees for itself.
BeginLoad(c) ==
  /\ pc[c] = "start" /\ Is(c, {"load"})
  /\ \/ Goto(c, "create") /\ UNCHANGED outcome
     \/ Return(c, "failed")
  /\ UNCHANGED << sc, closed, dbOpen, pool, stored, cached, catalog, own, emitted, sent, seen >>
AcquireCreate(c) == Acquire(c, "create", "creating")
Created(c) ==
  /\ pc[c] = "creating" /\ Table(c) = NoTable      \* or the statement fails: it exists
  /\ sent' = [sent EXCEPT ![c] = IF sc.native THEN FileRows ELSE 0]
  /\ Give(c) /\ Writes(c, sent'[c])
  /\ IF sent'[c] = FileRows THEN Return(c, "answered") ELSE Goto(c, "flush") /\ UNCHANGED outcome
  /\ UNCHANGED << sc, closed, dbOpen, cached, catalog, own, emitted, seen >>
\* A row of the next batch cannot be read; the batches before it are in the table.
RowFails(c) ==
  /\ pc[c] = "flush" /\ Return(c, "failed")
  /\ UNCHANGED << sc, closed, dbOpen, pool, stored, cached, catalog, own, emitted, sent, seen >>
AcquireFlush(c) == Acquire(c, "flush", "flushing")
Batch(n) == IF FileRows - n < BatchSize THEN FileRows - n ELSE BatchSize
\* A mutant: a short batch is never flushed.
FlushedFullOnly(c) ==
  /\ pc[c] = "flushing" /\ sc.marks /\ Table(c) # NoTable
  /\ Give(c) /\ Writes(c, Table(c) + Batch(sent[c]))
  /\ sent' = [sent EXCEPT ![c] = @ + Batch(@)]
  /\ IF FileRows - sent'[c] < BatchSize THEN Return(c, "answered") ELSE Goto(c, "flush") /\ UNCHANGED outcome
  /\ UNCHANGED << sc, closed, dbOpen, cached, catalog, own, emitted, seen >>
Flushed(c) ==
  /\ pc[c] = "flushing" /\ sc.marks /\ Table(c) # NoTable
  /\ Give(c) /\ Writes(c, Table(c) + Batch(sent[c]))
  /\ sent' = [sent EXCEPT ![c] = @ + Batch(@)]
  /\ IF sent'[c] = FileRows THEN Return(c, "answered") ELSE Goto(c, "flush") /\ UNCHANGED outcome
  /\ UNCHANGED << sc, closed, dbOpen, cached, catalog, own, emitted, seen >>

-----------------------------------------------------------------------------
(* RegisterArrowView keeps its connection until the view is released. *)

BeginView(c) ==
  /\ pc[c] = "start" /\ Is(c, {"view"}) /\ Goto(c, "view")
  /\ UNCHANGED << sc, closed, dbOpen, pool, stored, cached, catalog, own, emitted, sent, seen, outcome >>
RegisterArrowView(c) == Acquire(c, "view", "want")

-----------------------------------------------------------------------------
(* Engine.Close: the flag is read, the flag is set, the pool is closed; two calls *)
(* may both find it unset.                                                   *)

CheckClosed(c) ==
  /\ pc[c] = "start" /\ Is(c, {"close"})
  /\ \/ closed /\ Return(c, "failed")
     \/ Goto(c, "flag") /\ UNCHANGED outcome
  /\ UNCHANGED << sc, closed, dbOpen, pool, stored, cached, catalog, own, emitted, sent, seen >>
SetClosed(c) ==
  /\ pc[c] = "flag" /\ Goto(c, "closing")
  /\ closed' = TRUE
  /\ UNCHANGED << sc, dbOpen, pool, stored, cached, catalog, own, emitted, sent, seen, outcome >>
CloseDB(c) ==
  /\ pc[c] = "closing" /\ Goto(c, "closed")
  /\ dbOpen' = FALSE
  /\ opened' = opened \ Idle
  /\ stored' = Left(stored)
  /\ UNCHANGED << sc, closed, holder, cached, catalog, own, emitted, sent, seen, outcome >>
CloseReturns(c) ==
  /\ pc[c] = "closed" /\ Return(c, "failed")
  /\ UNCHANGED << sc, closed, dbOpen, pool, stored, cached, catalog, own, emitted, sent, seen >>

-----------------------------------------------------------------------------
Step(c) ==
  \/ Begin(c) \/ Bind(c) \/ Bound(c) \/ LoadStats(c) \/ SetCatalog(c) \/ Emit(c)
  \/ Execute(c) \/ Executed(c)
  \/ BeginLoad(c) \/ AcquireCreate(c) \/ Created(c) \/ RowFails(c) \/ AcquireFlush(c) \/ Flushed(c)
  \/ BeginView(c) \/ RegisterArrowView(c)
  \/ CheckClosed(c) \/ SetClosed(c) \/ CloseDB(c) \/ CloseReturns(c)
  \/ Refused(c) \/ StatementFails(c)
Next == \E c \in Call : Step(c)

\* Goroutines run: a call that can go on does.
Spec == Init /\ [][Next]_vars /\ \A c \in Call : WF_vars(Step(c))

-----------------------------------------------------------------------------
(* Properties *)

\* The pool never has more connections than it may, none of them at a call that is back.
TypeOK ==
  /\ Cardinality(opened) <= sc.conns
  /\ \A k \in Conn : holder[k] # None => k \in opened /\ pc[holder[k]] # "done"
  /\ \A c \in Call : pc[c] = "done" <=> outcome[c] # "none"
  /\ catalog \in {sc.path[c] : c \in Call} \cup {None}

\* A call is admitted when it has the connection its statement runs on.
Status == [c \in Call |->
  CASE outcome[c] = "answered" -> "answered"
    [] outcome[c] = "failed"   -> "returned"
    [] \/ pc[c] = "hold"
       \/ pc[c] \in {"creating", "flush", "flushing"}
       \/ pc[c] = "want" /\ Is(c, {"view"}) -> "admitted"
    [] OTHER -> "idle"]
Promise == INSTANCE Service WITH open <- dbOpen, call <- Status

\* Goroutines that share a backend see the service of Service.tla: nothing is answered
\* that was not admitted, nothing is admitted once the pool is closed, whatever
\* Engine.closed was read as, and no call comes back twice (engine.go:56-75).
KeepsPromise == Promise!Safety

\* Every call comes back, also when another's statement failed, the engine is closed
\* under it, or the pool is at its limit (duckdb/backend.go:68-70, pg/backend.go:41-42).
EveryCallReturns == Promise!Liveness

Loads == {c \in Call : Is(c, {"load"})}
\* A table that one call loads has the rows sent so far, a query reads whole batches,
\* and a load that comes back without an error has loaded the file, to its last and
\* shorter batch (datasource.go:171-205).
LoadAddsUp ==
  \A c \in Loads : Loads = {c} /\ ~ sc.memory =>
    /\ \A k \in Conn : stored[k] # NoTable => stored[k] = sent[c]
    /\ \A d \in Call : seen[d] # NoTable => seen[d] \in {n \in 0 .. FileRows : n % BatchSize = 0 \/ n = FileRows}
    /\ outcome[c] = "answered" => \A k \in Conn : stored[k] = FileRows

\* "catalog is the optional stats catalog ... nil -> static" (pg/backend.go:29-30): a
\* statement is emitted with the catalog of its own call.
EmittedWithOwnCatalog ==
  \A c \in Call : emitted[c] # "nothing" /\ sc.setsCatalog => emitted[c] = own[c]

\* "LoadFile loads a data file into the backend as a table" (datasource.go:22): every
\* connection of the backend has the table that was loaded.
LoadedEverywhere ==
  \A c \in Loads : outcome[c] = "answered" => \A k \in opened : stored[k] = FileRows
=============================================================================
