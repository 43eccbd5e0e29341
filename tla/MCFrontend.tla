----------------------------- MODULE MCFrontend -----------------------------
(***************************************************************************)
(* Texts for Frontend: every pair of neighbouring operators of the         *)
(* precedence ladder nested both ways, every kind of argument, every       *)
(* tabular operator alone and before another, scripts of several           *)
(* statements, and scripts with one token dropped, doubled or replaced.    *)
(***************************************************************************)
EXTENDS Frontend

MCNames     == {"T", "U", "a", "b", "c", "f", "n", "App", "inner", "sum", "datatable", "query_parameters"}
MCIntegrals == {"1", "2", "3", "16", "0x10"}
MCStrings   == {"text"}
MCLiterals  == MCIntegrals \cup MCStrings
MCReads     == ("1" :> 1) @@ ("2" :> 2) @@ ("3" :> 3) @@ ("16" :> 16) @@ ("0x10" :> 10)
MCNumber    == ("1" :> 1) @@ ("2" :> 2) @@ ("3" :> 3) @@ ("16" :> 16) @@ ("0x10" :> 16)

Row(i, j)   == ("a" :> i) @@ ("b" :> j)
MCContents  == ("T" :> <<Row(2, 1), Row(1, 3), Row(2, 3), Row(1, 3)>>)
               @@ ("U" :> <<Row(3, 2), Row(2, 1)>>)

-----------------------------------------------------------------------------
(* Trees *)

a == Leaf("a")
b == Leaf("b")
c == Leaf("c")
one == Leaf("1")
two == Leaf("2")
List1(x)     == N("list", <<x>>)
List2(x, y)  == N("list", <<x, y>>)
Is(name, e)  == N("=", <<Leaf(name), e>>)
Fn(name, xs) == N("call", <<Leaf(name)>> \o xs)
Pipe(ops)    == N("pipe", <<Leaf("T")>> \o ops)
Where(e)     == N("where", <<e>>)
Take(n)      == N("take", <<n>>)
By(e, dir)   == N("order", <<e, Leaf(dir), Leaf("last")>>)
None         == N("list", <<>>)
Sub          == N("()", << N("pipe", <<Leaf("U"), Where(a)>>) >>)

Grow(op, x, y) == CASE op = "in"      -> N(op, <<x, List2(y, one)>>)
                    [] op = "between" -> N(op, <<x, y, two>>)
                    [] op = "sign"    -> N("-", <<x>>)
                    [] op = "call"    -> Fn("f", <<x, y>>)
                    [] op = "field"   -> N(".", <<Fn("f", <<x>>), b>>)
                    [] op = "index"   -> N("[]", <<Fn("f", <<x>>), y>>)
                    [] OTHER          -> N(op, <<x, y>>)
Rungs == {"or", "and", "==", "in", "between", "<", "+", "*", "contains", "sign", "call", "field", "index"}
Expressions ==
    {Grow(o1, Grow(o2, a, b), c) : o1 \in Rungs, o2 \in Rungs}
    \cup {Grow(o1, a, Grow(o2, b, c)) : o1 \in Rungs, o2 \in Rungs}
    \cup {Fn("f", <<Is("n", a), Sub>>), Fn("f", <<N("pipe", <<Leaf("U"), Take(one)>>)>>),
          N("[]", <<a, List2(one, two)>>), Fn("f", <<Leaf("*")>>), Leaf("text")}

NamedItems2 == List2(Is("n", Grow("+", a, one)), b)
Operators ==
    {Where(Grow("==", a, one)), N("filter", <<a>>), Take(one), N("limit", <<two>>),
     N("distinct", <<List2(a, b)>>), N("distinct", <<Leaf("*")>>), N("count", <<>>),
     N("project", <<NamedItems2>>), N("extend", <<NamedItems2>>), N("serialize", <<NamedItems2>>),
     N("print", <<NamedItems2>>), N("sort", <<None, List2(By(a, "desc"), By(b, "asc"))>>),
     N("order", <<None, List1(By(a, "asc"))>>), N("top", <<None, two, List1(By(b, "desc"))>>),
     N("summarize", <<None, List1(Is("n", Fn("count", <<>>))), List1(a)>>),
     N("summarize", <<None, List1(Is("n", Fn("sum", <<b>>)))>>),
     N("join", <<None, Sub, List1(a)>>), N("join", <<None, Leaf("U"), List2(a, b)>>),
     N("join", <<List1(Is("kind", Leaf("inner"))), Sub, List1(a)>>),
     N("union", <<None, List1(Leaf("U"))>>), N("union", <<None, List2(Leaf("U"), Leaf("T"))>>),
     N("mv-expand", <<List1(Is("n", a)), one>>), N("mv-expand", <<List1(Is("n", a)), Absent>>),
     N("make-series", <<List1(Is("n", Fn("count", <<>>))), a, one, two, one, List1(b)>>),
     N("make-series", <<List1(Is("n", Fn("count", <<>>))), a, Absent, Absent, Absent>>),
     N("parse", <<None, a, N("pattern", <<Leaf("text"), b, Leaf("text")>>)>>),
     N("externaldata", <<List2(a, b), List2(Leaf("text"), Leaf("text"))>>),
     N("range", <<a, one, two, one>>), N("sample", <<two>>), N("sample-distinct", <<two, a>>),
     N("top-hitters", <<two, a, b>>), N("lookup", <<List1(b), a>>), N("as", <<None, Leaf("n")>>),
     N("invoke", <<Fn("f", <<a>>)>>), N("consume", <<>>), N("getschema", <<>>), N("render", <<>>)}

\* The operators Grammar knows the rows of, on columns that every one of them keeps.
RowOps ==
    {Where(Grow("==", a, two)), Where(N("between", <<b, two, Leaf("3")>>)), Take(one), Take(two),
     Where(N("or", <<Grow("in", a, two), N("<", <<a, b>>)>>)),
     N("distinct", <<List2(a, b)>>), N("distinct", <<Leaf("*")>>),
     N("project", <<List2(Is("a", b), Is("b", Grow("+", a, Leaf("16"))))>>),
     N("extend", <<List1(Is("n", Grow("*", a, b)))>>), N("serialize", <<List2(Is("c", one), Is("b", two))>>),
     N("sort", <<None, List2(By(b, "desc"), By(a, "asc"))>>), N("top", <<None, two, List1(By(a, "desc"))>>),
     N("summarize", <<None, List1(Is("b", Fn("count", <<>>))), List1(a)>>),
     N("summarize", <<None, List1(Is("a", Fn("sum", <<b>>))), List1(b)>>),
     N("union", <<None, List2(Leaf("U"), Leaf("T"))>>), N("as", <<None, Leaf("n")>>), N("consume", <<>>)}

Data(xs) == N("pipe", << N("[]", <<Fn("datatable", <<a, b>>), N("list", xs)>>), Take(one)>>)

Statements ==
    {N("let", <<Leaf("n"), Grow("+", one, two)>>), N("let", <<Leaf("n"), Pipe(<<Take(one)>>)>>),
     N("lambda", <<Leaf("f"), List1(a), Grow("+", a, one)>>),
     N("set", <<Is("n", one)>>), N("declare", <<List1(Is("n", one))>>),
     Pipe(<<N("count", <<>>)>>), Pipe(<<Where(a), Take(one)>>)}

-----------------------------------------------------------------------------
(* Texts *)

Spaced(toks, ss, hurt, rows) ==
    [toks |-> toks, gaps |-> [k \in DOMAIN toks |-> 1], stmts |-> ss, hurt |-> hurt, rows |-> rows]
Text(ss)    == Spaced(Written(ss), ss, 0, FALSE)
Query(ss)   == Spaced(Written(ss), ss, 0, TRUE)
Adjacent(ss) == [Text(ss) EXCEPT !.gaps = [k \in DOMAIN @ |-> 0]]

Wild(segments) == N("pipe", << N("wildcard", segments), Take(one)>>)

MCWhole ==
    {Text(<<Pipe(<<Where(e)>>)>>) : e \in Expressions}
    \cup {Text(<<Pipe(<<op, Take(one)>>)>>) : op \in Operators}
    \cup {Text(<<s, s2>>) : s \in Statements, s2 \in Statements}
    \cup {Text(<<Data(<<one, two, a, b>>)>>), Text(<<Data(<<one, two, a>>)>>), Text(<<Data(<<one, two>>)>>)}
    \cup {Adjacent(<<Wild(<<Leaf("App"), Leaf("*")>>)>>)}
    \cup {Query(<<Pipe(<<o1, o2>>)>>) : o1 \in RowOps, o2 \in RowOps}
    \cup {Query(<<N("let", <<Leaf("n"), one>>), Pipe(<<op, N("count", <<>>)>>)>>) : op \in RowOps}

\* Four statements, and the second with one token dropped, doubled or replaced.
First4 == << Pipe(<<Take(one)>>), Pipe(<<Where(Grow("==", a, one)), N("project", <<List1(b)>>)>>),
             Pipe(<<N("count", <<>>)>>), Pipe(<<Take(two)>>) >>
Second4 == << Pipe(<<Take(one)>>), N("let", <<Leaf("n"), Fn("f", <<a, Sub>>)>>),
              Pipe(<<N("count", <<>>)>>), Pipe(<<Take(two)>>) >>
Replacements == {"(", ")", "|", ";", "in", "1", "=", "where", "["}

Damage(ss, toks, before, inside) ==
    LET Cutout(k, new) == SubSeq(toks, 1, k - 1) \o new \o SubSeq(toks, k + 1, Len(toks))
        places == before + 1 .. before + inside
        texts  == {Cutout(k, <<>>) : k \in places} \cup {Cutout(k, <<toks[k], toks[k]>>) : k \in places}
                  \cup {Cutout(k, <<t>>) : k \in places, t \in Replacements}
    IN  {Spaced(t, ss, 2, FALSE) : t \in texts}
Damaged(ss) == Damage(ss, Written(ss), Len(Written(SubSeq(ss, 1, 1))) + 1, Len(Written(<<ss[2]>>)))

MCScripts == MCWhole \cup Damaged(First4) \cup Damaged(Second4)
MCDamaged == Damaged(First4) \cup Damaged(Second4)

\* project-away, which the parser reads as project.
MCProjectAway == {Query(<<Pipe(<<N("project-away", <<List1(b)>>)>>)>>)}
\* A datatable of no columns.
MCNoColumns == {Spaced(<<"datatable", "(", ")", "[", "1", ",", "2", "]">>, <<Pipe(<<>>)>>, 1, FALSE)}
=============================================================================
