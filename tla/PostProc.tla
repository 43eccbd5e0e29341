------------------------------ MODULE PostProc ------------------------------
(***************************************************************************)
(* internal/exec, client side: the stages from the first mv-expand, parse,  *)
(* make-series or mv-apply of a pipeline on run here, one after another, on *)
(* the rows the backend answered (ExecPipeline says when).                  *)
(*                                                                          *)
(* A value is <<kind, of>>.  Numbers are held in Unit-ths, so that the      *)
(* averages of a small group are whole; a text is a sequence of characters, *)
(* negative so that they are no number's digits; a "list" is a Go slice and *)
(* a "json" the text of an array, as a SQL backend answers a dynamic.       *)
(* Columns are compared exactly or by Folded, their lower case.             *)
(*                                                                          *)
(* Abstractions: the text of a number or an array is one character of its   *)
(* own; a pattern arrives as its tokens; no mv-apply has one inside it.     *)
(***************************************************************************)
EXTENDS Integers, Sequences, FiniteSets, SequencesExt

CONSTANTS
  Unit,        \* the ths numbers are held in
  Folded,      \* column name -> the name in lower case
  Elements,    \* what arrays may hold: values, arrays among them
  Answers,     \* what the backend may answer: [cols, rows]
  Stages,      \* the stages of pipelines, those inside an mv-apply among them
  Regions      \* the client-side stages of the pipelines that may be run

ASSUME UnitAssumption == Unit \in Nat \ {0}

-----------------------------------------------------------------------------
(* Values, results and stages *)

Char  == Int \cup Seq(Elements)
Value == ({"null"} \X {0}) \cup ({"int", "real"} \X Int) \cup ({"text"} \X Seq(Char))
         \cup ({"list", "json"} \X Seq(Elements))
ASSUME ElementsAssumption == Elements \subseteq Value

\* Every row is as wide as the columns.
Result == {x \in [cols : Seq(STRING), rows : Seq(Seq(Value))] :
             \A j \in DOMAIN x.rows : Len(x.rows[j]) = Len(x.cols)}
ASSUME AnswersAssumption == Answers \subseteq Result

Token == [kind : {"any"}] \cup [kind : {"literal"}, text : Seq(Char)] \cup [kind : {"capture"}, name : STRING]
WellFormed(st) ==
  /\ {st.source, st.name, st.target, st.on} \subseteq STRING
  /\ st.pattern \in Seq(Token)
  /\ st.keys \in Seq([name : STRING, col : STRING])
  /\ st.aggs \in Seq([name : STRING, fn : STRING, col : STRING])
  /\ st.items \in Seq([name : STRING, col : STRING])
  /\ {st.from, st.to, st.step, st.n} \subseteq Int
  /\ st.sub \in Seq({u \in Stages : u.op # "MvApply"})
ASSUME StagesAssumption == \A st \in Stages : WellFormed(st)
ASSUME RegionsAssumption == Regions \subseteq Seq(Stages)

-----------------------------------------------------------------------------
(* The numbers of a finite set in order, and the rows at such places. *)
Ascending(P) == [n \in 1 .. Cardinality(P) |-> CHOOSE k \in P : Cardinality({j \in P : j <= k}) = n]
Picked(rows, P) == LET order == Ascending(P) IN [n \in DOMAIN order |-> rows[order[n]]]

Null == <<"null", 0>>
Whole(n) == <<"int", n * Unit>>
Real(u) == <<"real", u>>
Str(s)  == <<"text", s>>
IsNumber(v) == v[1] \in {"int", "real"}

NilText == << -99 >>
\* fmt.Sprintf("%v"): 1, 1.0 and "1" look alike.
Text(v) == CASE v[1] = "null" -> NilText
             [] v[1] = "text" -> v[2]
             [] OTHER         -> << v[2] >>
\* toFloat64: what is no number is 0.
ToFloat64(v) == IF IsNumber(v) THEN v[2] ELSE 0

\* 0 when there is none
ColIndex(cols, name)   == SelectInSeq(cols, LAMBDA c : Folded[c] = Folded[name])
ExactIndex(cols, name) == SelectInSeq(cols, LAMBDA c : c = name)

-----------------------------------------------------------------------------
(* mv-expand *)

\* The numbers of a JSON text come back as float64.
Decoded(v) == IF IsNumber(v) THEN Real(v[2]) ELSE v
ExplodeValue(v) == CASE v[1] = "null" -> <<>>
                     [] v[1] = "list" -> v[2]
                     [] v[1] = "json" -> [k \in DOMAIN v[2] |-> Decoded(v[2][k])]
                     [] OTHER         -> << v >>

\* A mutant: an empty array leaves no row.
ExplodeRowIfAny(row, at) ==
  [e \in DOMAIN ExplodeValue(row[at]) |-> [row EXCEPT ![at] = ExplodeValue(row[at])[e]]]

ExplodeRow(row, at) ==
  LET elems == ExplodeValue(row[at])
  IN  IF elems = <<>> THEN << [row EXCEPT ![at] = Null] >>
      ELSE [e \in DOMAIN elems |-> [row EXCEPT ![at] = elems[e]]]

Source(st) == IF st.source # "" THEN st.source ELSE st.name
MvExpandRows(res, st) ==
  LET at  == ExactIndex(res.cols, Source(st))
      out == IF st.name = "" THEN Source(st) ELSE st.name
  IN  IF at = 0 THEN res
      ELSE [cols |-> [res.cols EXCEPT ![at] = out],
            rows |-> FlattenSeq([k \in DOMAIN res.rows |-> ExplodeRow(res.rows[k], at)])]

-----------------------------------------------------------------------------
(* parse: tokens [kind |-> "literal", text], [kind |-> "capture", name], [kind |-> "any"] *)

Fits(tok, s) == tok.kind = "literal" => s = tok.text

\* The ways a pattern covers a text: where each token starts, and the end.
Covers(pattern, text) ==
  {at \in [1 .. Len(pattern) + 1 -> 0 .. Len(text)] :
     /\ at[1] = 0 /\ at[Len(pattern) + 1] = Len(text)
     /\ \A k \in DOMAIN pattern :
          at[k] <= at[k + 1] /\ Fits(pattern[k], SubSeq(text, at[k] + 1, at[k + 1]))}
\* ^(.*?)...$ takes as little as it can, from the left.
Shorter(at, b) == \E k \in DOMAIN at : at[k] < b[k] /\ \A j \in 1 .. k - 1 : at[j] = b[j]
Leftmost(S) == CHOOSE at \in S : \A b \in S \ {at} : Shorter(at, b)

Captures(pattern) == Ascending({k \in DOMAIN pattern : pattern[k].kind = "capture"})
\* A mutant: the captures are counted without the wildcards.
MatchWithoutWildcards(pattern, text) ==
  LET S  == Covers(pattern, text)
      at == Leftmost(S)
      G  == Ascending({k \in DOMAIN pattern : pattern[k].kind # "literal"})
      C  == Captures(pattern)
  IN  IF S = {} THEN [matched |-> FALSE, vals |-> [i \in DOMAIN C |-> Null]]
      ELSE [matched |-> TRUE,
            vals |-> [i \in DOMAIN C |-> Str(SubSeq(text, at[G[i]] + 1, at[G[i] + 1]))]]
\* The values of the captures, <<>> and no match when the pattern covers nothing.
MatchParsePattern(pattern, text) ==
  LET S  == Covers(pattern, text)
      at == Leftmost(S)
      C  == Captures(pattern)
  IN  IF S = {} THEN [matched |-> FALSE, vals |-> [i \in DOMAIN C |-> Null]]
      ELSE [matched |-> TRUE,
            vals |-> [i \in DOMAIN C |-> Str(SubSeq(text, at[C[i]] + 1, at[C[i] + 1]))]]

\* A mutant: a row that does not match stays as it was.
ParseRowsUnpadded(res, st) ==
  LET at == ExactIndex(res.cols, st.target)
      C  == Captures(st.pattern)
      M(row) == MatchParsePattern(st.pattern, IF row[at] = Null THEN <<>> ELSE Text(row[at]))
      P  == {k \in DOMAIN res.rows : M(res.rows[k]).matched}
      kept == IF st.where THEN Picked(res.rows, P) ELSE res.rows
  IN  IF at = 0 THEN res
      ELSE [cols |-> res.cols \o [i \in DOMAIN C |-> st.pattern[C[i]].name],
            rows |-> [k \in DOMAIN kept |->
                        IF M(kept[k]).matched THEN kept[k] \o M(kept[k]).vals ELSE kept[k]]]

ParseRows(res, st) ==
  LET at == ExactIndex(res.cols, st.target)
      C  == Captures(st.pattern)
      M(row) == MatchParsePattern(st.pattern, IF row[at] = Null THEN <<>> ELSE Text(row[at]))
      P  == {k \in DOMAIN res.rows : M(res.rows[k]).matched}
      kept == IF st.where THEN Picked(res.rows, P) ELSE res.rows
  IN  IF at = 0 THEN res
      ELSE [cols |-> res.cols \o [i \in DOMAIN C |-> st.pattern[C[i]].name],
            rows |-> [k \in DOMAIN kept |-> kept[k] \o M(kept[k]).vals]]

-----------------------------------------------------------------------------
(* summarize: keys [name, col], aggregates [name, fn, col]; col is "" when the *)
(* expression is no column, fn when it is no call.  An aggregate other than  *)
(* count has an argument: sum() without one, of which the binder only warns  *)
(* (binder.go:375), panics (exec_client.go:130) and gives no rows to speak of. *)

Total(xs) == FoldLeft(+, 0, xs)

NumericAggregate(agg, rows, cols) ==
  LET idx  == ColIndex(cols, agg.col)
      some == Picked(rows, {k \in DOMAIN rows : rows[k][idx] # Null})
      xs   == [k \in DOMAIN some |-> ToFloat64(some[k][idx])]
  IN  IF agg.col = "" \/ idx = 0 THEN Null
      ELSE CASE agg.fn = "sum" -> Real(Total(xs))
             [] agg.fn = "avg" -> IF xs = <<>> THEN Null ELSE Real(Total(xs) \div Len(xs))
             [] agg.fn = "min" -> IF xs = <<>> THEN Real(0) ELSE Real(Min(Range(xs)))
             [] agg.fn = "max" -> IF xs = <<>> THEN Real(0) ELSE Real(Max(Range(xs)))

ComputeAggregate(agg, rows, cols) ==
  LET idx == IF agg.col = "" THEN 0 ELSE ColIndex(cols, agg.col)
  IN  CASE agg.fn = "" -> Whole(Len(rows))
        [] agg.fn = "count" ->
             IF agg.col = "" THEN Whole(Len(rows))
             ELSE IF idx = 0 THEN Whole(0)
             ELSE Whole(Cardinality({k \in DOMAIN rows : rows[k][idx] # Null}))
        [] agg.fn \in {"sum", "avg", "min", "max"} -> NumericAggregate(agg, rows, cols)
        [] OTHER -> Null

KeyName(key) == IF key.name = "" THEN key.col ELSE key.name
KeyIndex(keys, cols) ==
  [i \in DOMAIN keys |-> ColIndex(cols, KeyName(keys[i]))]
KeyValues(row, idx) == [i \in DOMAIN idx |-> IF idx[i] = 0 THEN Null ELSE row[idx[i]]]
\* A mutant: a group is a value of its first key.
FirstKeyText(row, idx) ==
  [i \in DOMAIN idx |-> IF idx[i] = 0 \/ i > 1 THEN <<>> ELSE Text(row[idx[i]])]
KeyText(row, idx)   == [i \in DOMAIN idx |-> IF idx[i] = 0 THEN <<>> ELSE Text(row[idx[i]])]

\* Of rows with these keys: the first of each group, in order, and a group's rows.
Firsts(keys) ==
  Ascending({k \in DOMAIN keys : \A j \in 1 .. k - 1 : keys[j] # keys[k]})
GroupOf(rows, keys, first) == Picked(rows, {k \in DOMAIN keys : keys[k] = keys[first]})

Names(xs) == [i \in DOMAIN xs |-> xs[i].name]
AggregateRows(res, st) ==
  LET idx  == KeyIndex(st.keys, res.cols)
      keys == [k \in DOMAIN res.rows |-> KeyText(res.rows[k], idx)]
      heads == Firsts(keys)
      Row(first) == KeyValues(res.rows[first], idx)
                    \o [i \in DOMAIN st.aggs |->
                          ComputeAggregate(st.aggs[i], GroupOf(res.rows, keys, first), res.cols)]
  IN  [cols |-> Names(st.keys) \o Names(st.aggs), rows |-> [g \in DOMAIN heads |-> Row(heads[g])]]

-----------------------------------------------------------------------------
(* make-series: from, to and step in Unit-ths, 0 when absent *)

\* The range of the data: a start of 0 counts as none yet.
AutoRange(xs) ==
  FoldLeft(LAMBDA range, v : << IF range[1] = 0 \/ v < range[1] THEN v ELSE range[1],
                                IF v > range[2] THEN v ELSE range[2] >>,
           << 0, 0 >>, xs)
SeriesRange(st, xs) == IF st.from = 0 /\ st.to = 0 THEN AutoRange(xs) ELSE << st.from, st.to >>
\* A mutant: to the nearest bucket.
NearestBucket(v, start, step) == start + ((v - start + step \div 2) \div step) * step
Bucket(v, start, step) == start + ((v - start) \div step) * step

MakeSeriesRows(res, st) ==
  LET time  == ColIndex(res.cols, st.on)
      T(r)  == ToFloat64(r[time])
      step  == IF st.step <= 0 THEN Unit ELSE st.step
      range == SeriesRange(st, [k \in DOMAIN res.rows |-> T(res.rows[k])])
      inside == Picked(res.rows, {k \in DOMAIN res.rows :
                                    range[1] <= T(res.rows[k]) /\ T(res.rows[k]) < range[2]})
      idx   == KeyIndex(st.keys, res.cols)
      B(r)  == Bucket(T(r), range[1], step)
      keys  == [k \in DOMAIN inside |-> << KeyText(inside[k], idx), B(inside[k]) >>]
      heads == Firsts(keys)
      Row(first) == Append(KeyValues(inside[first], idx), Real(B(inside[first])))
                    \o [i \in DOMAIN st.aggs |->
                          ComputeAggregate(st.aggs[i], GroupOf(inside, keys, first), res.cols)]
  IN  IF time = 0 THEN res
      ELSE [cols |-> Append([i \in DOMAIN st.keys |-> KeyName(st.keys[i])], st.on) \o Names(st.aggs),
            rows |-> [g \in DOMAIN heads |-> Row(heads[g])]]

-----------------------------------------------------------------------------
(* take and project *)

\* The count is tested for Go's int; the translator's literals are int64.
LimitRows(res, st) ==
  IF st.type = "int" /\ 0 <= st.n /\ st.n < Len(res.rows)
  THEN [res EXCEPT !.rows = SubSeq(@, 1, st.n)] ELSE res

ProjectRows(res, st) ==
  LET idx == [i \in DOMAIN st.items |->
                IF st.items[i].col = "" THEN 0 ELSE ColIndex(res.cols, st.items[i].col)]
  IN  IF \E i \in DOMAIN st.items : st.items[i].col = "*" THEN res
      ELSE [cols |-> [i \in DOMAIN st.items |-> KeyName(st.items[i])],
            rows |-> [k \in DOMAIN res.rows |-> KeyValues(res.rows[k], idx)]]

-----------------------------------------------------------------------------
(* The registry: one executor per stage type, none of which may be.        *)

Executed(res, st) ==
  CASE st.op = "MvExpand"   -> MvExpandRows(res, st)
    [] st.op = "Parse"      -> ParseRows(res, st)
    [] st.op = "MakeSeries" -> MakeSeriesRows(res, st)
    [] st.op = "Aggregate"  -> AggregateRows(res, st)
    [] st.op = "Limit"      -> LimitRows(res, st)
    [] st.op = "Project"    -> ProjectRows(res, st)
    [] OTHER                -> res       \* sort does nothing; the others have no executor

\* mv-apply: explode, then the sub-pipeline over all the exploded rows at once.
\* A mutant: every stage of the sub-pipeline starts from the exploded rows.
MvApplyLastOnly(res, st) ==
  IF st.sub = <<>> THEN MvExpandRows(res, st) ELSE Executed(MvExpandRows(res, st), Last(st.sub))
MvApplyRows(res, st) == FoldLeft(Executed, MvExpandRows(res, st), st.sub)

-----------------------------------------------------------------------------
VARIABLES
  region,   \* pipe.Stages[splitIdx:]
  read,     \* what the backend answered
  res,      \* the result so far
  k         \* the stage to run next
vars == << region, read, res, k >>

Init ==
  /\ region \in Regions
  /\ read \in Answers
  /\ res = read
  /\ k = 1

Stage == region[k]
Apply(out) ==
  /\ res' = out
  /\ k' = k + 1
  /\ UNCHANGED << region, read >>
At(op) == k <= Len(region) /\ Stage.op = op

ExecMvExpand   == At("MvExpand")   /\ Apply(MvExpandRows(res, Stage))
ExecMvApply    == At("MvApply")    /\ Apply(MvApplyRows(res, Stage))
ExecParse      == At("Parse")      /\ Apply(ParseRows(res, Stage))
ExecMakeSeries == At("MakeSeries") /\ Apply(MakeSeriesRows(res, Stage))
ExecAggregate  == At("Aggregate")  /\ Apply(AggregateRows(res, Stage))
ExecLimit      == At("Limit")      /\ Apply(LimitRows(res, Stage))
ExecProject    == At("Project")    /\ Apply(ProjectRows(res, Stage))
\* execSort, and the stages without an executor: Filter, Extend, Distinct, Join, Union.
PassThrough    == k <= Len(region) /\ Stage.op \in {"Sort", "Other"} /\ Apply(res)

Next ==
  \/ ExecMvExpand \/ ExecMvApply \/ ExecParse \/ ExecMakeSeries
  \/ ExecAggregate \/ ExecLimit \/ ExecProject \/ PassThrough

Spec == Init /\ [][Next]_vars

-----------------------------------------------------------------------------
(* The shape of the result *)

\* Every row is as wide as the columns, whatever stages ran: the executors index
\* rows by the position of a column without looking (exec.go:166-179, exec_client.go:41).
TypeOK ==
  /\ region \in Seq(Stages) /\ read \in Result
  /\ res \in Result
  /\ k \in 1 .. Len(region) + 1

-----------------------------------------------------------------------------
(* What the stages promise *)

\* The stages run so far, and those that only add rows or columns and leave alone
\* the column i, which numbers the rows.
Done == SubSeq(region, 1, k - 1)
IsTag(name) == Folded[name] = Folded["i"]
KeepsTag(items) ==
  /\ \E n \in DOMAIN items : IsTag(KeyName(items[n]))
  /\ \A n \in DOMAIN items : IsTag(KeyName(items[n])) => items[n].col # "" /\ IsTag(items[n].col)
Keeping(st) ==
  \/ st.op \in {"Sort", "Other"}
  \/ st.op = "MvExpand" /\ ~ IsTag(Source(st)) /\ ~ IsTag(st.name)
  \/ st.op = "MvApply" /\ ~ IsTag(Source(st)) /\ ~ IsTag(st.name) /\ st.sub = <<>>
  \/ st.op = "Parse" /\ ~ st.where
  \/ st.op = "Project" /\ ((\E n \in DOMAIN st.items : st.items[n].col = "*") \/ KeepsTag(st.items))
Tags(x) == LET at == ColIndex(x.cols, "i") IN [j \in DOMAIN x.rows |-> x.rows[j][at]]
Tagged(x) == ColIndex(x.cols, "i") # 0 /\ \A j \in DOMAIN x.rows : j > 1 => Tags(x)[j] # Tags(x)[j - 1]
\* A sequence without the repeats of neighbours.
Squeezed(s) == Picked(s, {j \in DOMAIN s : j = 1 \/ s[j] # s[j - 1]})

\* No row the backend answered is lost, made up or moved by exploding, parsing,
\* sorting and renaming, however they are combined: the column that numbers the
\* rows reads the same after them, one row's copies next to each other
\* (exec.go:164-181, postproc_register.go:175-178).
NoRowLost == Tagged(read) /\ (\A j \in DOMAIN Done : Keeping(Done[j])) => Squeezed(Tags(res)) = Tags(read)

\* A result as a set of rows, 1 and 1.0 the same.
Alike(v) == IF IsNumber(v) THEN Real(v[2]) ELSE v
AlikeRow(row) == [c \in DOMAIN row |-> Alike(row[c])]
RowSet(rows) == {AlikeRow(rows[j]) : j \in DOMAIN rows}

\* What SQL answers for one aggregate of the rows at some places.
SqlAggregate(agg, rows, at, P) ==
  LET some == {j \in P : rows[j][at] # Null}
      xs(j) == rows[j][at][2]
      sum == FoldLeft(LAMBDA n, j : n + xs(j), 0, SetToSeq(some))
  IN  IF agg.fn = "count" THEN Real((IF agg.col = "" THEN Cardinality(P) ELSE Cardinality(some)) * Unit)
      ELSE IF some = {} THEN Null
      ELSE CASE agg.fn = "sum" -> Real(sum)
             [] agg.fn = "avg" -> Real(sum \div Cardinality(some))
             [] agg.fn = "min" -> Real(CHOOSE u \in {xs(j) : j \in some} : \A j \in some : u <= xs(j))
             [] agg.fn = "max" -> Real(CHOOSE u \in {xs(j) : j \in some} : \A j \in some : u >= xs(j))
SqlSummary(x, st) ==
  LET by  == KeyIndex(st.keys, x.cols)
      at(agg) == IF agg.col = "" THEN 1 ELSE ColIndex(x.cols, agg.col)
      V(j) == AlikeRow(KeyValues(x.rows[j], by))
  IN  {v \o [i \in DOMAIN st.aggs |->
               SqlAggregate(st.aggs[i], x.rows, at(st.aggs[i]), {j \in DOMAIN x.rows : V(j) = v})] :
         v \in {V(j) : j \in DOMAIN x.rows}}

\* Where the two are told apart (README): a key that is no column; values of a key
\* that look alike; a group without a value to add up; no row at all and no key.
Resolved(x, st) ==
  /\ \A i \in DOMAIN st.keys : st.keys[i].col # "" /\ KeyIndex(st.keys, x.cols)[i] # 0
  /\ \A i \in DOMAIN st.aggs :
       \/ st.aggs[i].fn = "count"
       \/ st.aggs[i].fn \in {"sum", "avg", "min", "max"} /\ st.aggs[i].col # ""
  /\ \A i \in DOMAIN st.aggs :
       LET at == ColIndex(x.cols, st.aggs[i].col)
       IN  st.aggs[i].col # "" => at # 0 /\ \A j \in DOMAIN x.rows : x.rows[j][at] = Null \/ IsNumber(x.rows[j][at])
LookAlike(r, q, by) == \A i \in DOMAIN by : Text(r[by[i]]) = Text(q[by[i]])
LookDifferent(x, st) ==
  LET by == KeyIndex(st.keys, x.cols)
  IN  \A j, l \in DOMAIN x.rows :
        LookAlike(x.rows[j], x.rows[l], by) =>
        AlikeRow(KeyValues(x.rows[j], by)) = AlikeRow(KeyValues(x.rows[l], by))
SomeValue(x, st) ==
  LET by == KeyIndex(st.keys, x.cols)
  IN  \A i \in DOMAIN st.aggs : st.aggs[i].fn \in {"sum", "min", "max"} =>
        \A j \in DOMAIN x.rows : \E l \in DOMAIN x.rows :
          /\ LookAlike(x.rows[l], x.rows[j], by)
          /\ x.rows[l][ColIndex(x.cols, st.aggs[i].col)] # Null
Comparable(x, st) ==
  /\ Resolved(x, st) /\ LookDifferent(x, st) /\ SomeValue(x, st)
  /\ st.keys = <<>> => x.rows # <<>>

\* A summarize run here answers the rows the backend would have answered, one for
\* every combination of keys, wherever the two are comparable
\* (exec_client.go:16-18 "mirroring the common summarize shapes").
SummaryAsBackend ==
  [][At("Aggregate") /\ Comparable(res, Stage) =>
       /\ RowSet(res'.rows) = SqlSummary(res, Stage)
       /\ Len(res'.rows) = Cardinality(SqlSummary(res, Stage))]_vars

\* Every row inside the range of a make-series is in one bucket of its keys, the
\* bucket its time falls into, and the counts add up to the rows inside: no row is
\* counted twice at a boundary (postproc_register.go:109-128).
Numbered(st) == st.aggs # <<>> /\ Last(st.aggs).fn = "count" /\ Last(st.aggs).col = ""
Ranged(st)   == (st.from # 0 \/ st.to # 0) /\ st.step > 0
SeriesPartitions ==
  [][At("MakeSeries") /\ Numbered(Stage) /\ Ranged(Stage) /\ ColIndex(res.cols, Stage.on) # 0 =>
       LET T(r) == ToFloat64(r[ColIndex(res.cols, Stage.on)])
           by   == KeyIndex(Stage.keys, res.cols)
           from == Len(Stage.keys) + 1
           inside == {j \in DOMAIN res.rows : Stage.from <= T(res.rows[j]) /\ T(res.rows[j]) < Stage.to}
           Holds(out, r) == /\ \A i \in DOMAIN by : by[i] # 0 => Text(out[i]) = Text(r[by[i]])
                            /\ out[from][2] <= T(r) /\ T(r) < out[from][2] + Stage.step
       IN  /\ \A j \in inside :
                Cardinality({o \in DOMAIN res'.rows : Holds(res'.rows[o], res.rows[j])}) = 1
           /\ Total([o \in DOMAIN res'.rows |-> Last(res'.rows[o])[2]]) = Cardinality(inside) * Unit]_vars

\* The texts a pattern is filled with that hold no character of its literals, and
\* the patterns where a text of at least one character is between any two of them.
Literals(pattern) == UNION {Range(pattern[t].text) : t \in {u \in DOMAIN pattern : pattern[u].kind = "literal"}}
Apart(pattern) ==
  /\ \A t \in DOMAIN pattern \ {1} : pattern[t].kind = "literal" \/ pattern[t - 1].kind = "literal"
  /\ \A t \in DOMAIN pattern : pattern[t].kind = "literal" => pattern[t].text # <<>>
Filled(pattern, fill) ==
  FlattenSeq([t \in DOMAIN pattern |-> IF pattern[t].kind = "literal" THEN pattern[t].text ELSE fill[t]])
Subtexts(s) == {SubSeq(s, a, b) : a \in 1 .. Len(s) + 1, b \in 0 .. Len(s)}

\* A text that is a pattern with its captures filled in gives the captures back,
\* each under its own name, in a row otherwise unchanged (exec.go:226-264, 341-378).
ParseRecovers ==
  [][At("Parse") /\ ExactIndex(res.cols, Stage.target) # 0 /\ Apart(Stage.pattern) =>
       \A j \in DOMAIN res.rows :
         LET target == res.rows[j][ExactIndex(res.cols, Stage.target)]
             text  == IF target = Null THEN <<>> ELSE Text(target)
             clean == {s \in Subtexts(text) : Range(s) \cap Literals(Stage.pattern) = {}}
         IN  \A fill \in [DOMAIN Stage.pattern -> clean] :
               Filled(Stage.pattern, fill) = text =>
               \E o \in DOMAIN res'.rows :
                 res'.rows[o] = res.rows[j]
                   \o [c \in DOMAIN Captures(Stage.pattern) |-> Str(fill[Captures(Stage.pattern)[c]])]]_vars

\* mv-apply as its comment has it: the sub-pipeline on each exploded row.
PerElement(x, st) ==
  LET all == MvExpandRows(x, st)
  IN  FlattenSeq([j \in DOMAIN all.rows |-> FoldLeft(Executed, [all EXCEPT !.rows = << @[j] >>], st.sub).rows])
Rowwise(st) == st.op \in {"MvExpand", "Parse", "Project", "Sort", "Other"}

\* As long as every stage of the sub-pipeline works on one row at a time, running it
\* once over all the exploded rows is running it for each (postproc_register.go:186-221).
MvApplyRowwise ==
  [][At("MvApply") /\ (\A j \in DOMAIN Stage.sub : Rowwise(Stage.sub[j])) =>
       res'.rows = PerElement(res, Stage)]_vars

\* "each exploded element row is fed through the sub-pipeline before output"
\* (postproc_register.go:190-191), whatever the sub-pipeline.
MvApplyPerElement == [][At("MvApply") => res'.rows = PerElement(res, Stage)]_vars

\* "limitRowsClient applies a client-side LIMIT N." (exec_client.go:168)
LimitLimits == [][At("Limit") => Len(res'.rows) <= Stage.n]_vars
=============================================================================
