----------------------------- MODULE MCSession -----------------------------
(***************************************************************************)
(* Three goroutines on one backend: queries of an engine that is closed, once *)
(* and twice; queries, with statistics and without, beside a load, and beside *)
(* a load and a close; a view beside them.                                   *)
(***************************************************************************)
EXTENDS Session, TLC

CONSTANTS c1, c2, c3

Kinds(x, y, z) == (c1 :> x) @@ (c2 :> y) @@ (c3 :> z)
Paths(x, y)    == Kinds(x, y, "none")
NoStats        == Paths("none", "none")
Sqlite(kind, memory) ==
  [kind |-> kind, path |-> NoStats, conns |-> 2, idle |-> 2, memory |-> memory, caches |-> TRUE, setsCatalog |-> FALSE,
   native |-> FALSE, marks |-> TRUE]
Pg(kind, path, idle) ==
  [kind |-> kind, path |-> path, conns |-> 2, idle |-> idle, memory |-> FALSE, caches |-> TRUE, setsCatalog |-> TRUE,
   native |-> FALSE, marks |-> FALSE]
DuckDB(kind, conns, native) ==
  [kind |-> kind, path |-> NoStats, conns |-> conns, idle |-> 1, memory |-> FALSE, caches |-> FALSE, setsCatalog |-> FALSE,
   native |-> native, marks |-> TRUE]

MCNone == "none"
Closing == Kinds("exec", "exec", "close")
Closed2 == Kinds("exec", "close", "close")
Library == Kinds("execOn", "execOn", "load")
Loading == Kinds("execOn", "load", "close")
Bridge  == Kinds("view", "execOn", "load")
MCScenarios ==
  {Sqlite(Library, FALSE), Sqlite(Closed2, FALSE), Pg(Library, Paths("a", "b"), 1), Pg(Closing, Paths("a", "a"), 2),
   DuckDB(Closing, 1, TRUE), DuckDB(Library, 1, TRUE), DuckDB(Library, 1, FALSE), DuckDB(Bridge, 2, FALSE),
   Sqlite(Loading, FALSE), Pg(Loading, Paths("a", "none"), 1)}
\* The pool of duckdb.New, with a view.
MCView   == {DuckDB(Bridge, 1, FALSE)}
\* A database in memory.
MCMemory == {Sqlite(Library, TRUE)}
\* Queries with statistics and without on one pg backend.
MCStats  == {Pg(Library, Paths("a", "none"), 1)}
=============================================================================
