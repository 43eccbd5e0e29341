------------------------------ MODULE Frontend ------------------------------
(***************************************************************************)
(* From text to the intermediate representation, one grammar step at a     *)
(* time: Parser.Parse (parser/script.go) reads statement after statement,  *)
(* a query one piped operator per step, and recovers from what it did not  *)
(* expect; ir.Translate takes the first query of the script.               *)
(***************************************************************************)
EXTENDS Grammar

CONSTANTS Scripts,   \* the texts: records [toks, gaps, stmts, hurt, rows]; see below
          MaxRows    \* bound on the rows a datatable literal is cut into

(***************************************************************************)
(* stmts are the statements that were written, and hurt the one of them    *)
(* whose text was damaged afterwards (0: none); gaps[i] counts the blanks  *)
(* before token i; rows says that Grammar can tell what the query answers. *)
(***************************************************************************)
ScriptsAssumption ==
    /\ \A s \in Scripts : Len(s.gaps) = Len(s.toks) /\ s.hurt \in 0 .. Len(s.stmts)
    /\ MaxRows \in Nat
ASSUME ScriptsAssumption

VARIABLES
    p,        \* the parser: [at, errs, node]
    stmts,    \* Script.Statements
    open,     \* the query being read: [let, nodes], the name a let binds or nil
    lost,     \* history: the tokens that recovery skipped
    phase,    \* "statement", "pipeline", "separator", "parsed", "rows", "translated"
    cells,    \* materialiseDatatable: the cell its loop is at, and the rows so far
    ir        \* what Translate returns

vars == <<script, p, stmts, open, lost, phase, cells, ir>>

Closed == [let |-> Absent, nodes |-> <<>>]

Init ==
    /\ script \in Scripts
    /\ p = Start /\ stmts = <<>> /\ open = Closed /\ lost = {}
    /\ phase = "statement" /\ cells = [at |-> 0, rows |-> 0] /\ ir = Absent

-----------------------------------------------------------------------------
(* Parse *)

AtStatement == phase = "statement" /\ Cur(p) # "EOF"
MetadataWords == {"set", "declare", "alias", "restrict"}

OpenQuery(q, name) ==
    /\ p' = q /\ open' = [let |-> name, nodes |-> <<q.node>>] /\ phase' = "pipeline"
    /\ UNCHANGED <<script, stmts, lost, cells, ir>>

CloseStatement(q, s) ==
    /\ p' = q /\ stmts' = Append(stmts, s) /\ open' = Closed /\ phase' = "separator"
    /\ UNCHANGED <<script, lost, cells, ir>>

StartQuery == AtStatement /\ Cur(p) \notin MetadataWords \cup {"let"} /\ OpenQuery(Item("source", p), Absent)

StartLet ==
    /\ AtStatement /\ Cur(p) = "let" /\ ~IsLambda(LetHead(p))
    /\ OpenQuery(Item("source", LetHead(p)), LetHead(p).node)

LetLambda ==
    LET head == LetHead(p)
    IN  /\ AtStatement /\ Cur(p) = "let" /\ IsLambda(head)
        /\ CloseStatement(Lambda(head), N("let", <<head.node, Lambda(head).node>>))

Metadata ==
    /\ AtStatement /\ Cur(p) \in MetadataWords
    /\ CloseStatement(MetadataStatement(p), MetadataStatement(p).node)

ReadOperator ==
    /\ phase = "pipeline" /\ Cur(p) = "|"
    /\ p' = Item("operator", p)
    /\ open' = [open EXCEPT !.nodes = WithOp(@, p'.node)]
    /\ UNCHANGED <<script, stmts, lost, phase, cells, ir>>

\* A let of a source alone binds the source.
QueryOf(o) == IF o.let # Absent /\ Len(o.nodes) = 1 THEN o.nodes[1] ELSE N("pipe", o.nodes)
EndQuery ==
    /\ phase = "pipeline" /\ Cur(p) # "|"
    /\ CloseStatement(p, IF open.let = Absent THEN QueryOf(open) ELSE N("let", <<open.let, QueryOf(open)>>))

Separator ==
    /\ phase = "separator" /\ Cur(p) \in EndOfStatement
    /\ p' = Accept(p, ";") /\ phase' = "statement"
    /\ UNCHANGED <<script, stmts, open, lost, cells, ir>>

\* synchroniseToStatementBoundary, and the `;` it stopped at.
ResynchroniseToTheEnd ==
    /\ phase = "separator" /\ Cur(p) \notin EndOfStatement
    /\ p' = SkipTo(p, {"EOF"}) /\ phase' = "statement" /\ lost' = lost \cup p.at .. p'.at - 1
    /\ UNCHANGED <<script, stmts, open, cells, ir>>
Resynchronise ==
    LET q == SkipTo(p, EndOfStatement)
    IN  /\ phase = "separator" /\ Cur(p) \notin EndOfStatement
        /\ lost' = lost \cup p.at .. q.at - 1
        /\ p' = Accept(q, ";") /\ phase' = "statement"
        /\ UNCHANGED <<script, stmts, open, cells, ir>>

EndOfText == phase = "statement" /\ Cur(p) = "EOF" /\ phase' = "parsed"
             /\ UNCHANGED <<script, p, stmts, open, lost, cells, ir>>

-----------------------------------------------------------------------------
(* Translate *)

IsDatatable(t) == t # Absent /\ t.args[1].op = "Datatable"
Width == Len(ir.args[1].args[1].args)

TranslateFirst ==
    /\ phase = "parsed" /\ ir' = TranslateScript(stmts)
    /\ phase' = IF IsDatatable(ir') THEN "rows" ELSE "translated"
    /\ UNCHANGED <<script, p, stmts, open, lost, cells>>

\* The loop that cuts the cells of a datatable into rows of its width.
Cells == Len(ir.args[1].args[2].args)
NextRow ==
    /\ phase = "rows" /\ cells.at + Width <= Cells /\ cells.rows < MaxRows
    /\ cells' = [at |-> cells.at + Width, rows |-> cells.rows + 1]
    /\ UNCHANGED <<script, p, stmts, open, lost, phase, ir>>
LastRow ==
    /\ phase = "rows" /\ cells.at + Width > Cells
    /\ phase' = "translated"
    /\ UNCHANGED <<script, p, stmts, open, lost, cells, ir>>

Next == \/ StartQuery \/ StartLet \/ LetLambda \/ Metadata
        \/ ReadOperator \/ EndQuery \/ Separator \/ Resynchronise \/ EndOfText
        \/ TranslateFirst \/ NextRow \/ LastRow

\* Translate has returned: the only state in which nothing is left to do.
Returned == phase = "translated" /\ UNCHANGED vars

Spec == Init /\ [][Next \/ Returned]_vars

-----------------------------------------------------------------------------
(* Properties *)

TypeOK ==
    /\ script.hurt \in 0 .. Len(script.stmts)
    /\ p.at \in 1 .. Len(script.toks) + 1 /\ p.errs \subseteq 1 .. Len(script.toks) + 1
    /\ phase \in {"statement", "pipeline", "separator", "parsed", "rows", "translated"}
    /\ lost \subseteq 1 .. Len(script.toks)
    /\ cells.at \in Nat /\ cells.rows \in 0 .. MaxRows
    /\ phase # "pipeline" <=> open = Closed

Read == phase \in {"parsed", "rows", "translated"}
Asked == Map(Plain, script.stmts)
Got   == Map(Plain, stmts)

\* A text written by the grammar is read without a diagnostic, to the last token, as the
\* tree it was written from: the ten layers of expr.go agree with the precedence ladder,
\* and no lookahead (isParenPipeline, the tuple and argument attempts) changes a reading.
TreeOfTheText ==
    Read /\ script.hurt = 0 => p.errs = {} /\ lost = {} /\ Got = Asked

\* What was damaged stays local: the statements before it are read as written, and of those
\* after it at most the next one is lost with it (synchroniseToStatementBoundary).
DamageIsLocal ==
    Read /\ script.hurt > 0 =>
       LET after == Len(Asked) - script.hurt - 1
       IN  /\ Len(Got) >= script.hurt - 1 + (IF after > 0 THEN after ELSE 0)
           /\ SubSeq(Got, 1, script.hurt - 1) = SubSeq(Asked, 1, script.hurt - 1)
           /\ \A k \in 0 .. after - 1 : Got[Len(Got) - k] = Asked[Len(Asked) - k]

\* The pipeline translated from a text answers what the text asks: top is a sort and a limit,
\* count an aggregate, consume no row, and a let before the query is passed over
\* (translate_stage.go).
SameAnswer ==
    phase = "translated" /\ script.rows =>
       Run(ir) = Answer(CHOOSE s \in {script.stmts[k] : k \in DOMAIN script.stmts} : s.op = "pipe")

\* Parse and Translate come to an end on every text: each turn of their loops consumes a
\* token or a cell or leaves the loop, so neither a recovery nor a backtracking lookahead
\* (restore) can stand still.  With no state but the last without a step, this is termination.
Rank == CASE phase = "pipeline" -> 2 [] phase = "separator" -> 1 [] phase = "statement" -> 0
          [] phase = "parsed" -> -1 [] phase = "rows" -> -2 - cells.at [] OTHER -> -1000
Remaining == 4 * (Len(script.toks) + 1 - p.at) + Rank
AlwaysAhead == [][Remaining' < Remaining]_vars

\* parser.go: "Errors are collected into a diagnostic.List and parsing continues after
\* synchronising".  Tokens are skipped only where a diagnostic says so.
NothingSkippedSilently == lost # {} => p.errs # {}

\* parser.go, on synchroniseToStatementBoundary: "so subsequent statements can still be
\* parsed".  Every statement after a damaged one is read as written.
NextStatementSurvives ==
    Read /\ script.hurt > 0 =>
       \A k \in 0 .. Len(Asked) - script.hurt - 1 :
          k < Len(Got) /\ Got[Len(Got) - k] = Asked[Len(Asked) - k]
=============================================================================
