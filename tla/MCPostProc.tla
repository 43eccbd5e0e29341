----------------------------- MODULE MCPostProc -----------------------------
(***************************************************************************)
(* Answers and client-side regions for PostProc: every stage alone, and     *)
(* every pair and some triples of stages, on rows with nulls, numbers,      *)
(* texts of one and two captures, arrays as slices and as JSON.             *)
(***************************************************************************)
EXTENDS PostProc

MCUnit == 60
MCFolded == [c \in {"i", "n", "N", "d", "s", "e", "t", "x", "y", "c", "a", "b", ""} |->
               IF c = "N" THEN "n" ELSE c]

\* Characters: -1, -2 letters, -3 a separator.
A == << -1 >>
AB == << -1, -2 >>
Sep == << -3 >>

Row(i, n, d, s) == << Whole(i), n, d, s >>
Answer(rows) == [cols |-> <<"i", "N", "d", "s">>, rows |-> rows]
Array(xs) == <<"list", xs>>
Json(xs)  == <<"json", xs>>

MCAnswers ==
  {Answer(<<>>),
   Answer(<< Row(1, Whole(1), Array(<<Whole(1), Whole(2)>>), Str(A \o Sep \o AB)),
             Row(2, Null, Null, Null),
             Row(3, Whole(3), Json(<<Whole(1), Str(A), Null>>), Str(Sep)) >>),
   Answer(<< Row(1, Whole(0), Json(<<>>), Str(A \o Sep \o A \o Sep)),
             Row(2, Whole(4), Whole(7), Str(A)),
             Row(3, Whole(4), Array(<<Str(A), Str(AB)>>), Str(A \o Sep \o A)),
             Row(4, Real(2 * MCUnit), Null, Str(A)) >>),
   Answer(<< Row(1, Whole(2), Array(<<Whole(1)>>), Whole(1)),
             Row(2, Whole(2), Json(<<Whole(1)>>), Str(<< MCUnit >>)),
             Row(3, Null, Array(<<Whole(2), Whole(2)>>), Null) >>)}

-----------------------------------------------------------------------------
None == [op |-> "Other", source |-> "", name |-> "", sub |-> <<>>, target |-> "", pattern |-> <<>>,
         where |-> FALSE, keys |-> <<>>, aggs |-> <<>>, on |-> "", from |-> 0, to |-> 0, step |-> 0,
         n |-> 0, type |-> "", items |-> <<>>]
Expand(c, name)  == [None EXCEPT !.op = "MvExpand", !.source = c, !.name = name]
Each(sub)        == [None EXCEPT !.op = "MvApply", !.source = "d", !.name = "e", !.sub = sub]
Parsing(c, p, w) == [None EXCEPT !.op = "Parse", !.target = c, !.pattern = p, !.where = w]
By(keys, aggs)   == [None EXCEPT !.op = "Aggregate", !.keys = keys, !.aggs = aggs]
Series(on, f, t, step, keys, aggs) ==
  [None EXCEPT !.op = "MakeSeries", !.on = on, !.from = f * Unit, !.to = t * Unit, !.step = step,
               !.keys = keys, !.aggs = aggs]
Take(n, type)    == [None EXCEPT !.op = "Limit", !.n = n, !.type = type]
Columns(items)   == [None EXCEPT !.op = "Project", !.items = items]
Sorting          == [None EXCEPT !.op = "Sort"]

Anything       == [kind |-> "any"]
Lit(s)    == [kind |-> "literal", text |-> s]
Name(x)   == [kind |-> "capture", name |-> x]
K(c)      == [name |-> c, col |-> c]
As(x, c)  == [name |-> x, col |-> c]
Bare(c)   == [name |-> "", col |-> c]
Agg(x, fn, c) == [name |-> x, fn |-> fn, col |-> c]
CountAll  == Agg("c", "count", "")

Aggregates == {<<CountAll>>, <<Agg("a", "sum", "n"), CountAll>>,
               <<Agg("a", "min", "n"), Agg("b", "max", "n")>>,
               <<Agg("a", "avg", "n"), Agg("b", "count", "n")>>, <<Agg("a", "dcount", "n"), Agg("c", "", "")>>}
MCStages ==
  {Expand("d", ""), Expand("d", "e"), Expand("", "d"), Expand("t", ""), Sorting, None,
   Each(<<>>), Each(<<Take(1, "int")>>), Each(<<Columns(<<Bare("i"), Bare("e")>>), Sorting>>),
   Each(<<By(<<>>, <<CountAll>>)>>), Each(<<Parsing("s", <<Name("x"), Lit(Sep), Anything>>, TRUE), Columns(<<As("y", "x")>>)>>),
   Parsing("s", <<Name("x"), Lit(Sep), Name("y")>>, FALSE),
   Parsing("s", <<Anything, Lit(Sep), Name("x")>>, TRUE), Parsing("n", <<Name("x")>>, FALSE),
   Parsing("s", <<Name("x"), Lit(Sep), Anything, Lit(Sep)>>, FALSE),
   Take(1, "int64"), Take(2, "int"), Take(20, "int"),
   Columns(<<Bare("i"), As("n", "N"), Bare("s")>>), Columns(<<As("*", "*")>>), Columns(<<K("i"), As("x", "")>>)}
  \cup {By(keys, aggs) : keys \in {<<>>, <<K("n")>>, <<As("s", "s"), K("n")>>, <<Bare("n")>>, <<As("t", "")>>},
                         aggs \in Aggregates}
  \cup {Series("n", f, t, step, keys, <<Agg("a", "max", "n"), CountAll>>) :
          f \in {0, 1}, t \in {0, 4}, step \in {0, 60, 90}, keys \in {<<>>, <<K("s")>>, <<Bare("i")>>}}
  \cup {Series("", 1, 4, 60, <<>>, <<CountAll>>)}

Triples == {<<Expand("d", "e"), p, q>> :
              p \in {Parsing("s", <<Name("x"), Lit(Sep), Name("y")>>, FALSE), Columns(<<K("i"), K("e")>>), Sorting},
              q \in {By(<<K("e")>>, <<CountAll>>), By(<<K("x")>>, <<Agg("a", "max", "n"), CountAll>>), Take(20, "int"),
                     Each(<<Take(1, "int")>>)}}
MCElements == {Whole(1), Whole(2), Str(A), Str(AB), Null}
MCRegions == {<<s>> : s \in MCStages} \cup {<<s, u>> : s \in MCStages, u \in MCStages} \cup Triples
OuterStages == MCStages \cup UNION {Range(r) : r \in Triples}
MCAllStages == OuterStages \cup UNION {Range(st.sub) : st \in OuterStages}
=============================================================================
