------------------------------- MODULE Grammar -------------------------------
(***************************************************************************)
(* The language as its grammar gives it, apart from the parser: how a tree *)
(* is written down (Written: its tokens, with parentheses only where the   *)
(* precedence ladder of parser/expr.go and frontend/NOTES.md 2.8 needs     *)
(* them), and what a query answers (Answer).  Trees are the parser's, with *)
(* operators under the keyword they were written with.                     *)
(***************************************************************************)
EXTENDS Translate, Integers

CONSTANT Number      \* spelling of a literal -> the number it writes

-----------------------------------------------------------------------------
(* Writing *)

Ladder == << {"or"}, {"and"}, Equality \cup InOperators \cup Betweens, Relational, Additive,
             Multiply, StringOperators >>

\* How tight a tree binds: its rung, 8 for a sign, 9 for anything else.
Rung(e) == CASE e.args = <<>>                             -> 9
             [] Len(e.args) = 1 /\ e.op \in Additive       -> 8
             [] \E l \in DOMAIN Ladder : e.op \in Ladder[l] -> CHOOSE l \in DOMAIN Ladder : e.op \in Ladder[l]
             [] OTHER                                      -> 9

Separated(s, sep) ==
    LET upto[k \in 0 .. Len(s)] == IF k = 0 THEN <<>>
                                   ELSE IF k = 1 THEN s[1] ELSE upto[k - 1] \o <<sep>> \o s[k]
    IN  upto[Len(s)]
Joined(s) == LET upto[k \in 0 .. Len(s)] == IF k = 0 THEN <<>> ELSE upto[k - 1] \o s[k]
             IN  upto[Len(s)]

\* The tokens of a tree; AtRung puts parentheses round one that binds less tightly than l.
RECURSIVE Spelled(_)
AtRung(e, l) == IF Rung(e) < l THEN <<"(">> \o Spelled(e) \o <<")">> ELSE Spelled(e)

Items(n)     == Separated(Map(Spelled, n.args), ",")
Parens(toks) == <<"(">> \o toks \o <<")">>

\* The operands of a chain lean left; those of the other rungs are one tighter.
Binary(e) == LET l == Rung(e)
             IN  AtRung(e.args[1], IF l \in {1, 2, 5, 6} THEN l ELSE l + 1)
                 \o <<e.op>> \o AtRung(e.args[2], l + 1)

Clauses2(words, args) ==
    Joined([k \in DOMAIN words |-> IF args[k] = Absent THEN <<>> ELSE <<words[k]>> \o Spelled(args[k])])

\* An operator: what follows its keyword.
Operands(n) ==
    CASE n.op \in {"where", "filter", "take", "limit", "sample", "invoke"} -> Spelled(n.args[1])
      [] n.op = "as"              -> Spelled(n.args[2])
      [] n.op \in ProjectKinds \cup {"extend", "print", "serialize"} -> Items(n.args[1])
      [] n.op = "distinct"        -> IF n.args[1].op = "*" THEN <<"*">> ELSE Items(n.args[1])
      [] n.op \in {"sort", "order"} -> <<"by">> \o Items(n.args[2])
      [] n.op = "top"             -> Spelled(n.args[2]) \o <<"by">> \o Items(n.args[3])
      [] n.op = "summarize"       -> Items(n.args[2])
                                     \o (IF Len(n.args) = 3 THEN <<"by">> \o Items(n.args[3]) ELSE <<>>)
      [] n.op = "join"            -> Joined(Map(Spelled, n.args[1].args)) \o Spelled(n.args[2])
                                     \o <<"on">> \o Items(n.args[3])
      [] n.op = "union"           -> Items(n.args[2])
      [] n.op = "mv-expand"       -> Items(n.args[1]) \o Clauses2(<<"limit">>, <<n.args[2]>>)
      [] n.op = "make-series"     -> Items(n.args[1])
                                     \o Clauses2(<<"on", "from", "to", "step">>, SubSeq(n.args, 2, 5))
                                     \o (IF Len(n.args) = 6 THEN <<"by">> \o Items(n.args[6]) ELSE <<>>)
      [] n.op \in {"parse", "parse-where"} -> Spelled(n.args[2]) \o <<"with">>
                                     \o Joined(Map(Spelled, n.args[3].args))
      [] n.op = "externaldata"    -> Parens(Items(n.args[1])) \o Items(n.args[2])
      [] n.op = "range"           -> Spelled(n.args[1]) \o Clauses2(<<"from", "to", "step">>, Tail(n.args))
      [] n.op = "sample-distinct" -> Spelled(n.args[1]) \o Clauses2(<<"of">>, Tail(n.args))
      [] n.op = "top-hitters"     -> Spelled(n.args[1]) \o Clauses2(<<"of", "by">>, Tail(n.args))
      [] n.op = "lookup"          -> Items(n.args[1]) \o <<"on">> \o Spelled(n.args[2])
      [] OTHER                    -> <<>>      \* count, consume, getschema, render, ...

PipelineText(n) ==
    LET Piped(op) == <<"|", op.op>> \o Operands(op)
    IN  Spelled(n.args[1]) \o Joined(Map(Piped, Tail(n.args)))

StatementWords == {"let", "lambda", "declare", "set"}
StatementText(s) ==
    CASE s.op = "let"     -> <<"let", s.args[1].op, "=">> \o Spelled(s.args[2])
      [] s.op = "lambda"  -> <<"let", s.args[1].op, "=", "(">> \o Items(s.args[2])
                             \o <<")", "{">> \o Spelled(s.args[3]) \o <<"}">>
      [] s.op = "declare" -> <<"declare", "query_parameters", "(">> \o Items(s.args[1]) \o <<")">>
      [] s.op = "set"     -> <<"set">> \o Spelled(s.args[1])

Spelled(e) ==
    CASE e.op \in StatementWords -> StatementText(e)
      [] e.op = "pipe"        -> PipelineText(e)
      [] e.op = "()"          -> Parens(Spelled(e.args[1]))
      [] e.op = "list"        -> <<"[">> \o Items(e) \o <<"]">>
      [] e.op = "call"        -> Spelled(e.args[1]) \o Parens(Items(N("list", Tail(e.args))))
      [] e.op = "="           -> Spelled(e.args[1]) \o <<"=">> \o Spelled(e.args[2])
      [] e.op = "."           -> AtRung(e.args[1], 9) \o <<".", e.args[2].op>>
      [] e.op = "[]"          -> AtRung(e.args[1], 9) \o <<"[">>
                                 \o (IF e.args[2].op = "list" THEN Items(e.args[2]) ELSE Spelled(e.args[2]))
                                 \o <<"]">>
      [] e.op = "order"       -> Spelled(e.args[1]) \o <<e.args[2].op, "nulls", e.args[3].op>>
      [] e.op = "wildcard"    -> Joined(Map(Spelled, e.args))
      [] e.op \in InOperators -> AtRung(e.args[1], 4) \o <<e.op>> \o Parens(Items(e.args[2]))
      [] e.op \in Betweens    -> AtRung(e.args[1], 4) \o <<e.op>>
                                 \o Parens(AtRung(e.args[2], 9) \o <<"..">> \o AtRung(e.args[3], 9))
      [] Rung(e) = 8          -> <<e.op>> \o AtRung(e.args[1], 8)
      [] Rung(e) < 8          -> Binary(e)
      [] OTHER                -> <<e.op>>

Written(stmts) == Separated(Map(Spelled, stmts), ";")

\* The tree a parser should give: grouping gone, operators under their base name.
RECURSIVE Plain(_)
Plain(n) ==
    CASE n.op = "()"     -> Plain(n.args[1])
      [] n.op = "lambda" -> N("let", <<n.args[1], Plain(n.args[3])>>)
      [] n.op \in {"declare", "set"} -> Leaf(n.op)
      [] n.op = "filter" -> N("where", Map(Plain, n.args))
      [] n.op = "limit"  -> N("take", Map(Plain, n.args))
      [] n.op = "order" /\ Len(n.args) = 2 -> N("sort", Map(Plain, n.args))
      [] OTHER           -> N(n.op, Map(Plain, n.args))

-----------------------------------------------------------------------------
(* Answering: rows are functions of columns, a table is a sequence of them.*)

RECURSIVE Value(_, _)
Value(e, row) ==
    LET V(k) == Value(e.args[k], row)
    IN  CASE e.op = "long"      -> e.args[1]
          [] e.op \in DOMAIN Number -> Number[e.op]
          [] e.op = "()"        -> V(1)
          [] e.op = "or"        -> V(1) \/ V(2)
          [] e.op = "and"       -> V(1) /\ V(2)
          [] e.op = "=="        -> V(1) = V(2)
          [] e.op = "!="        -> V(1) # V(2)
          [] e.op = "<"         -> V(1) < V(2)
          [] e.op = ">"         -> V(1) > V(2)
          [] e.op = "<="        -> V(1) <= V(2)
          [] e.op = ">="        -> V(1) >= V(2)
          [] e.op = "+"         -> V(1) + V(2)
          [] e.op = "*"         -> V(1) * V(2)
          [] e.op = "-"         -> IF Len(e.args) = 1 THEN -V(1) ELSE V(1) - V(2)
          [] e.op = "between"   -> V(2) <= V(1) /\ V(1) <= V(3)
          [] e.op = "!between"  -> ~(V(2) <= V(1) /\ V(1) <= V(3))
          [] e.op = "in"        -> \E k \in DOMAIN e.args[2].args : V(1) = Value(e.args[2].args[k], row)
          [] e.op = "!in"       -> \A k \in DOMAIN e.args[2].args : V(1) # Value(e.args[2].args[k], row)
          [] OTHER              -> row[e.op]

ItemName(i)  == IF i.op = "=" THEN i.args[1].op ELSE i.op
ItemNames(l) == {ItemName(l.args[k]) : k \in DOMAIN l.args}
ItemRow(l, row) ==
    [c \in ItemNames(l) |-> Value(Unnamed(CHOOSE i \in {l.args[k] : k \in DOMAIN l.args} : ItemName(i) = c), row)]

Keep(rows, e)     == LET Test(r) == Value(e, r) IN SelectSeq(rows, Test)
\* An extend of a name that is taken appends a column no later mention reads (Rowsets).
Extended(rows, l) == [k \in DOMAIN rows |-> rows[k] @@ ItemRow(l, rows[k])]
Projected(rows, l) == IF l.args = <<Leaf("*")>> THEN rows ELSE [k \in DOMAIN rows |-> ItemRow(l, rows[k])]
Without(rows, cols) == [k \in DOMAIN rows |-> [c \in DOMAIN rows[k] \ cols |-> rows[k][c]]]
FirstOf(rows, n)  == SubSeq(rows, 1, IF n < Len(rows) THEN n ELSE Len(rows))

Leading(rows) == LET new[k \in 0 .. Len(rows)] ==
                       IF k = 0 THEN <<>>
                       ELSE IF \E j \in 1 .. k - 1 : rows[j] = rows[k] THEN new[k - 1]
                       ELSE Append(new[k - 1], rows[k])
                 IN  new[Len(rows)]
DistinctOf(rows, l) == Leading(Projected(rows, l))

\* Keys: N("key" or "order", <<expr, asc or desc, nulls>>), ties in the order of the rows.
Sorted(rows, keys) ==
    LET At(k, j)    == Value(keys[k].args[1], rows[j])
        Down(k)     == keys[k].args[2].op = "desc"
        Less(k, i, j) == IF Down(k) THEN At(k, i) > At(k, j) ELSE At(k, i) < At(k, j)
        Ahead(i, j) == \/ \E k \in DOMAIN keys : Less(k, i, j) /\ \A m \in 1 .. k - 1 : At(m, i) = At(m, j)
                       \/ i < j /\ \A k \in DOMAIN keys : At(k, i) = At(k, j)
        Place(i)    == Cardinality({j \in DOMAIN rows : Ahead(j, i)}) + 1
    IN  [p \in DOMAIN rows |-> rows[CHOOSE i \in DOMAIN rows : Place(i) = p]]

\* An aggregate over some rows: count() or sum(x).
Total(e, rows) == LET upto[k \in 0 .. Len(rows)] == IF k = 0 THEN 0 ELSE upto[k - 1] + Value(e, rows[k])
                  IN  upto[Len(rows)]
AggregateOf(f, rows) == IF f.args[1].op = "count" THEN Len(rows) ELSE Total(f.args[2], rows)
Summarized(rows, aggs, by) ==
    LET Members(key)  == LET Same(r) == ItemRow(by, r) = key IN SelectSeq(rows, Same)
        Totals(key) == [c \in ItemNames(aggs) |->
                          AggregateOf(Unnamed(CHOOSE i \in {aggs.args[k] : k \in DOMAIN aggs.args} :
                                                ItemName(i) = c), Members(key))]
        keys == IF by.args = <<>> THEN << <<>> >> ELSE Leading(Projected(rows, by))
    IN  [k \in DOMAIN keys |-> IF by.args = <<>>
                               THEN [c \in ItemNames(aggs) |->
                                       AggregateOf(Unnamed(CHOOSE i \in {aggs.args[j] : j \in DOMAIN aggs.args} :
                                                             ItemName(i) = c), rows)]
                               ELSE Totals(keys[k]) @@ keys[k]]

CONSTANT Contents      \* name of a table -> its rows

RECURSIVE Answer(_), Run(_)
\* What a query, as written, answers.
AnswerOp(n, rows) ==
    CASE n.op \in {"where", "filter"}   -> Keep(rows, n.args[1])
      [] n.op = "extend"                -> Extended(rows, n.args[1])
      [] n.op \in {"project", "project-keep"} -> Projected(rows, n.args[1])
      [] n.op = "project-away"          -> Without(rows, ItemNames(n.args[1]))
      [] n.op \in {"take", "limit"}     -> FirstOf(rows, Value(n.args[1], <<>>))
      [] n.op \in {"sort", "order"}     -> Sorted(rows, n.args[2].args)
      [] n.op = "top"                   -> FirstOf(Sorted(rows, n.args[3].args), Value(n.args[2], <<>>))
      [] n.op = "count"                 -> << [c \in {"Count_"} |-> Len(rows)] >>
      [] n.op = "consume"               -> <<>>
      [] n.op = "distinct"              -> DistinctOf(rows, IF n.args[1].op = "*" THEN n ELSE n.args[1])
      [] n.op = "summarize"             -> Summarized(rows, n.args[2],
                                                      IF Len(n.args) = 3 THEN n.args[3] ELSE NoGroups)
      [] n.op = "union"                 -> rows \o Joined(Map(Answer, n.args[2].args))
      [] n.op = "serialize"             -> Extended(rows, n.args[1])
      [] OTHER                          -> rows      \* as, render
Answer(n) ==
    CASE n.op = "()"   -> Answer(n.args[1])
      [] n.op = "pipe" -> LET after[k \in 1 .. Len(n.args)] ==
                                IF k = 1 THEN Answer(n.args[1]) ELSE AnswerOp(n.args[k], after[k - 1])
                          IN  after[Len(n.args)]
      [] OTHER         -> Contents[n.op]

\* What a pipeline of the representation answers (ir/stage.go).
RunStage(st, rows) ==
    CASE st.op = "Filter"    -> Keep(rows, st.args[1])
      [] st.op = "Extend"    -> Extended(rows, st.args[1])
      [] st.op = "Project"   -> Projected(rows, st.args[1])
      [] st.op = "Limit"     -> FirstOf(rows, Value(st.args[1], <<>>))
      [] st.op = "Sort"      -> Sorted(rows, st.args)
      [] st.op = "Distinct"  -> DistinctOf(rows, st)
      [] st.op = "Aggregate" -> Summarized(rows, st.args[1], st.args[2])
      [] st.op = "Union"     -> rows \o Joined(Map(Run, st.args))
Run(ir) ==
    LET after[k \in 1 .. Len(ir.args)] ==
          IF k = 1 THEN Contents[ir.args[1].args[1].op] ELSE RunStage(ir.args[k], after[k - 1])
    IN  after[Len(ir.args)]
=============================================================================
