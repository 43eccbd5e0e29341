------------------------------ MODULE Translate ------------------------------
(***************************************************************************)
(* The translator (internal/ir/translate*.go): a script of the parser's    *)
(* trees becomes a pipeline of the intermediate representation.            *)
(*                                                                         *)
(* A pipeline is N("Pipeline", <<source>> \o stages).  Trees of IR         *)
(* expressions keep the parser's shape, with "call" split into "call" and  *)
(* "aggregate", grouping gone, and a literal replaced by what is read of   *)
(* it.  Columns are names: binding comes later.                            *)
(***************************************************************************)
EXTENDS Parser

CONSTANT Reads       \* spelling of an integer -> what strconv makes of it

AggregateNames == {"count", "sum", "avg", "min", "max", "stdev", "variance", "countif", "sumif",
                   "avgif", "makeset", "makelist", "dcount", "percentile", "percentiles",
                   "percentilew", "percentilesw"}

NoValue == Leaf("no value")

Map(F(_), s) == [k \in DOMAIN s |-> F(s[k])]

\* The name a call is known by, dotted or not.
IsName(n)   == n.args = <<>> /\ n # Bad /\ n.op \notin Literals
CallName(f) == IF IsName(f) \/ f.op = "." THEN f ELSE Leaf("<expr>")

\* An INT literal is read by strconv; the others keep what their text says.
Literal(t) == IF t \in DOMAIN Reads THEN N("long", <<Reads[t]>>) ELSE Leaf(t)

RECURSIVE Scalar(_)

CallIR(n) ==
    LET name == CallName(n.args[1])
    IN  N(IF name.op \in AggregateNames THEN "aggregate" ELSE "call",
          <<name>> \o [k \in 1 .. Len(n.args) - 1 |-> Scalar(Unnamed(n.args[k + 1]))])

\* between and !between alike.
InRange(n) == N("and", << N(">=", <<Scalar(n.args[1]), Scalar(n.args[2])>>),
                          N("<=", <<Scalar(n.args[1]), Scalar(n.args[3])>>) >>)

\* translateExpr.  A sub-pipeline is no scalar: it is reported, and a literal
\* without a value stands for it.
Scalar(n) == CASE n = Bad             -> NoValue
               [] n.op = "pipe"       -> NoValue
               [] n.op = "()"         -> Scalar(n.args[1])
               [] n.op = "call"       -> CallIR(n)
               [] n.op \in Betweens   -> InRange(n)
               [] n.op = ":"          -> N("=~", Map(Scalar, n.args))
               [] n.op = "."          -> N(".", <<Scalar(n.args[1]), n.args[2]>>)
               [] n.args = <<>>       -> Literal(n.op)
               [] OTHER               -> N(n.op, Map(Scalar, n.args))

Optional(n) == IF n = Absent THEN n ELSE Scalar(n)

\* name = expr, or an expression without a name; a tuple of names is dropped.
Named(n) == CASE n.op # "="             -> Scalar(n)
              [] n.args[1].op = "list"  -> Scalar(n.args[2])
              [] OTHER                  -> N("=", <<n.args[1], Scalar(n.args[2])>>)
NamedItems(n) == N("list", Map(Named, n.args))

SortKeyAscending(o) == N("key", <<Scalar(o.args[1]), Leaf("asc"), o.args[3]>>)
SortKey(o) == N("key", <<Scalar(o.args[1]), o.args[2], o.args[3]>>)
SortKeys(orders) == N("Sort", Map(SortKey, orders.args))

PassThrough == N("Project", << N("list", <<Leaf("*")>>) >>)
NoGroups    == N("list", <<>>)

-----------------------------------------------------------------------------
(* Sources.                                                                *)

RECURSIVE Dotted(_), Source(_), PipelineIR(_)
Dotted(n) == CASE n.args[1].op = "."   -> N(".", <<Dotted(n.args[1]), n.args[2]>>)
               [] IsName(n.args[1])    -> n
               [] OTHER                -> n.args[2]

Table(name) == N("Table", <<name>>)

\* datatable(name, ...)[value, ...]: the columns and the cells; Frontend cuts them into rows.
Datatable(n) ==
    N("Datatable", << N("list", SelectSeq(Tail(n.args[1].args), IsName)),
                      IF n.args[2].op = "list" THEN N("list", Map(Scalar, n.args[2].args))
                                               ELSE N("list", <<>>) >>)

\* A sub-pipeline gives its source only.
Source(n) ==
    CASE n.op = "."            -> Table(Dotted(n))
      [] n.op = "()"           -> Source(n.args[1])
      [] n.op = "pipe"         -> PipelineIR(n).args[1]
      [] n.op = "wildcard"     -> Table(n)
      [] n.op = "call" /\ IsName(n.args[1]) -> Table(n.args[1])
      [] n.op = "[]" /\ n.args[1].op = "call" ->
             IF n.args[1].args[1].op = "datatable" THEN Datatable(n) ELSE Table(Leaf("externaldata"))
      [] IsName(n)             -> Table(n)
      [] OTHER                 -> Table(Absent)

-----------------------------------------------------------------------------
(* Stages.                                                                 *)

JoinKind(params) ==
    LET Known == ("innerunique" :> "innerunique") @@ ("inner" :> "inner")
                 @@ ("left" :> "leftouter") @@ ("leftouter" :> "leftouter")
                 @@ ("right" :> "rightouter") @@ ("rightouter" :> "rightouter")
                 @@ ("full" :> "fullouter") @@ ("fullouter" :> "fullouter")
        IsKind(a) == a.args[1].op = "kind" /\ a.args[2].op \in DOMAIN Known
        kinds == SelectSeq(params.args, IsKind)
    IN  IF kinds = <<>> THEN "default" ELSE Known[kinds[1].args[2].op]

\* The right side: a pipeline in parentheses or bare, or a source.
RightSide(n) == CASE n.op = "pipe"                               -> PipelineIR(n)
                  [] n.op = "()" /\ n.args[1].op = "pipe"        -> PipelineIR(n.args[1])
                  [] OTHER                                       -> N("Pipeline", <<Source(n)>>)

Join(n) == N("Join", << Leaf(JoinKind(n.args[1])), RightSide(n.args[2]),
                        IF Len(n.args) = 3 THEN N("list", Map(Scalar, n.args[3].args))
                                           ELSE N("list", <<>>) >>)

\* A table of union: a pipeline only without parentheses.
UnionInput(n) == IF n.op = "pipe" THEN PipelineIR(n) ELSE N("Pipeline", <<Source(n)>>)

CountStage == N("Aggregate",
           << N("list", << N("=", <<Leaf("Count_"), N("aggregate", <<Leaf("count")>>)>>) >>),
              NoGroups>>)

Summarize(n) == N("Aggregate", <<NamedItems(n.args[2]),
                                 IF Len(n.args) = 3 THEN NamedItems(n.args[3]) ELSE NoGroups>>)

MvExpand(n) ==
    IF n.args[1].args = <<>> \/ n.args[1].args[1].op # "=" \/ n.args[1].args[1].args[1].op = "list"
    THEN PassThrough
    ELSE N("MvExpand", <<n.args[1].args[1].args[1], Scalar(n.args[1].args[1].args[2])>>)

\* The sub-query is a pipeline only if the parser made one.
SubQuery(n) == CASE n.op = "pipe"                        -> PipelineIR(n)
                 [] n.op = "()" /\ n.args[1].op = "pipe" -> PipelineIR(n.args[1])
                 [] OTHER                                -> Absent
MvApply(n) ==
    LET first == IF n.args[1].args = <<>> THEN Absent ELSE n.args[1].args[1]
        named == first.op = "=" /\ first.args[1].op # "list"
    IN  N("MvApply", << IF named THEN first.args[1] ELSE Absent,
                        IF named THEN Scalar(first.args[2]) ELSE Absent,
                        IF Len(n.args) = 3 THEN SubQuery(n.args[3]) ELSE Absent >>)

MakeSeries(n) ==
    N("MakeSeries", << NamedItems(n.args[1]), Optional(n.args[2]),
                       Optional(n.args[3]), Optional(n.args[4]), Optional(n.args[5]),
                       IF Len(n.args) = 6 THEN NamedItems(n.args[6]) ELSE NoGroups >>)

\* parse and parse-where; parse-kv has no pattern.
Parse(n) == LET kv == n.args[1].op # "list"
            IN  N("Parse", IF kv THEN <<Scalar(n.args[1]), Absent>>
                           ELSE <<Scalar(n.args[2]), IF Len(n.args) = 3 THEN n.args[3] ELSE Absent>>)

\* translateStage, and the two stages of top.
Stages(n) ==
    CASE n.op = "where"       -> << N("Filter", <<Scalar(n.args[1])>>) >>
      [] n.op = "project"     -> << N("Project", <<NamedItems(n.args[1])>>) >>
      [] n.op = "extend"      -> << N("Extend", <<NamedItems(n.args[1])>>) >>
      [] n.op = "take"        -> << N("Limit", <<Scalar(n.args[1])>>) >>
      [] n.op = "sort"        -> << IF Len(n.args) = 2 THEN SortKeys(n.args[2]) ELSE N("Sort", <<>>) >>
      [] n.op = "summarize"   -> <<Summarize(n)>>
      [] n.op = "join"        -> <<Join(n)>>
      [] n.op = "union"       -> << N("Union", Map(UnionInput, n.args[2].args)) >>
      [] n.op = "distinct"    -> << N("Distinct", IF n.args[1].op = "*" THEN n.args
                                                   ELSE Map(Scalar, n.args[1].args)) >>
      [] n.op = "count"       -> <<CountStage>>
      [] n.op = "top"         -> << IF Len(n.args) = 3 THEN SortKeys(n.args[3]) ELSE N("Sort", <<>>),
                                    N("Limit", <<Scalar(n.args[2])>>) >>
      [] n.op = "consume"     -> << N("Limit", << N("long", <<0>>) >>) >>
      [] n.op = "serialize"   -> << IF n.args[1].args = <<>> THEN PassThrough
                                    ELSE N("Extend", <<NamedItems(n.args[1])>>) >>
      [] n.op = "mv-expand"   -> <<MvExpand(n)>>
      [] n.op = "mv-apply"    -> <<MvApply(n)>>
      [] n.op = "make-series" -> <<MakeSeries(n)>>
      [] n.op \in {"parse", "parse-where"} -> <<Parse(n)>>
      [] OTHER                -> <<PassThrough>>

\* translatePipeline.
PipelineIR(n) ==
    LET stages[k \in 1 .. Len(n.args)] == IF k = 1 THEN <<>> ELSE stages[k - 1] \o Stages(n.args[k])
    IN  N("Pipeline", <<Source(n.args[1])>> \o stages[Len(n.args)])

\* Translate: the first query of a script, lets and the rest passed over.
TranslateScript(stmts) ==
    LET IsQuery(s) == s.op = "pipe"
        queries == SelectSeq(stmts, IsQuery)
    IN  IF queries = <<>> THEN Absent ELSE PipelineIR(queries[1])
=============================================================================
