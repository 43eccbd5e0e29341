------------------------------- MODULE Parser -------------------------------
(***************************************************************************)
(* The recursive-descent parser (internal/frontend/parser) as operators.   *)
(*                                                                         *)
(* A parser state p is [at, errs, node]: the current token, the tokens at  *)
(* which a diagnostic was recorded, and what was parsed last (a tree, or a *)
(* sequence of them).  Backtracking (save, restore) takes `at` back and    *)
(* leaves `errs`, as the code does.  A tree is [op, args]; positions are   *)
(* not kept.  The text is the variable script: its tokens and the blanks   *)
(* before each; a token is one character wide, which is all that adjacency *)
(* needs.                                                                  *)
(***************************************************************************)
EXTENDS Tokens, TLC

VARIABLE script

N(op, args) == [op |-> op, args |-> args]
Leaf(t)     == N(t, <<>>)
Bad         == Leaf("BadExpr")
Absent      == Leaf("nil")

Start == [at |-> 1, errs |-> {}, node |-> <<>>]

\* Tokens of the text, then EOF for ever.
TokenAt(i)  == IF i > Len(script.toks) THEN "EOF" ELSE script.toks[i]
Cur(p)      == TokenAt(p.at)
Peek(p)     == IF Cur(p) = "EOF" THEN "EOF" ELSE TokenAt(p.at + 1)
Advance(p)  == IF Cur(p) = "EOF" THEN p ELSE [p EXCEPT !.at = @ + 1]
Fail(p)     == [p EXCEPT !.errs = @ \cup {p.at}]
Accept(p, t) == IF Cur(p) = t THEN Advance(p) ELSE p
Expect(p, t) == IF Cur(p) = t THEN Advance(p) ELSE Fail(p)
Restore(q, p) == [q EXCEPT !.at = p.at]
Yield(p, n) == [p EXCEPT !.node = n]

\* Where token i starts, counting the blanks before it.
RECURSIVE Column(_)
Column(i) == IF i = 0 THEN 0
             ELSE Column(i - 1) + 1 + (IF i > Len(script.toks) THEN 0 ELSE script.gaps[i])

\* Skip tokens, without a word, until one of stops.
RECURSIVE SkipTo(_, _)
SkipTo(p, stops) == IF Cur(p) \in stops THEN p ELSE SkipTo(Advance(p), stops)

\* Skip from inside `depth` open parentheses to the one that closes them, or to EOF.
RECURSIVE SkipGroup(_, _)
SkipGroup(p, depth) ==
    CASE Cur(p) = "EOF"               -> p
      [] Cur(p) = ")" /\ depth = 1    -> p
      [] Cur(p) = ")"                 -> SkipGroup(Advance(p), depth - 1)
      [] Cur(p) = "("                 -> SkipGroup(Advance(p), depth + 1)
      [] OTHER                        -> SkipGroup(Advance(p), depth)

IdentLike(p) == LET q == IF Cur(p) \in NameLike THEN p ELSE Fail(p)
                IN  Yield(Advance(q), Leaf(Cur(p)))

-----------------------------------------------------------------------------
(* Expressions: one layer per precedence, from the loosest.  The functions *)
(* of the parser call one another through Item(kind, p), kind naming what  *)
(* is to be read; the other recursions are loops.                          *)

RECURSIVE Item(_, _)

Tighter == ("or" :> "and") @@ ("and" :> "equality") @@ ("equality" :> "relational")
           @@ ("relational" :> "additive") @@ ("additive" :> "multiply") @@ ("multiply" :> "string")
           @@ ("string" :> "unary") @@ ("unary" :> "postfix")

ParseExpr(p) == Item("or", p)

\* A comma-separated list of items.
RECURSIVE More(_, _, _)
More(kind, p, before) ==
    LET q   == Item(kind, p)
        all == Append(before, q.node)
    IN  IF Cur(q) = "," THEN More(kind, Advance(q), all) ELSE Yield(q, all)

List(kind, p) == More(kind, p, <<>>)
ListUntil(kind, p, stops) == IF Cur(p) \in stops THEN Yield(p, <<>>) ELSE List(kind, p)

\* Value of name = expr or of a bare expr.
Unnamed(n) == IF n.op = "=" THEN n.args[2] ELSE n

LeftAssociative == ("or" :> {"or"}) @@ ("and" :> {"and"}) @@ ("additive" :> Additive) @@ ("multiply" :> Multiply)
NonAssociative  == ("relational" :> Relational) @@ ("string" :> StringOperators)

\* expr (op expr)*
ChainToTheRight(l, p) ==
    IF Cur(p) \notin LeftAssociative[l] THEN p
    ELSE LET q == Item(l, Advance(p)) IN Yield(q, N(Cur(p), <<p.node, q.node>>))
RECURSIVE Chain(_, _)
Chain(l, p) ==
    IF Cur(p) \notin LeftAssociative[l] THEN p
    ELSE LET q == Item(Tighter[l], Advance(p))
         IN  Chain(l, Yield(q, N(Cur(p), <<p.node, q.node>>)))

\* expr (op expr)?
Once(l, p, ops) ==
    IF Cur(p) \notin ops THEN p
    ELSE LET q == Item(Tighter[l], Advance(p)) IN Yield(q, N(Cur(p), <<p.node, q.node>>))

InList(p) ==
    LET lp == Expect(Advance(p), "(")
        q  == ListUntil("expr", lp, {")"})
    IN  Yield(Expect(q, ")"), N(Cur(p), <<p.node, N("list", q.node)>>))

Between(p) ==
    LET low  == Item("postfix", Expect(Advance(p), "("))
        dots == IF Cur(low) = ".." THEN Advance(low) ELSE Fail(low)
        high == Item("postfix", dots)
    IN  Yield(Expect(high, ")"), N(Cur(p), <<p.node, low.node, high.node>>))

EqualityRest(p) == CASE Cur(p) \in Equality    -> Once("equality", p, Equality)
                     [] Cur(p) \in InOperators -> InList(p)
                     [] Cur(p) \in Betweens    -> Between(p)
                     [] OTHER                  -> p

Unary(p) == IF Cur(p) \in Additive
            THEN LET q == Item("unary", Advance(p)) IN Yield(q, N(Cur(p), <<q.node>>))
            ELSE Item("postfix", p)

\* (. name | [ expr, ... ])* after a primary.
RECURSIVE Path(_)
Path(p) ==
    CASE Cur(p) = "." -> LET q == IdentLike(Advance(p))
                         IN  Path(Yield(q, N(".", <<p.node, q.node>>)))
      [] Cur(p) = "[" -> LET q == List("expr", Advance(p))
                             i == IF Len(q.node) = 1 THEN q.node[1] ELSE N("list", q.node)
                         IN  Path(Yield(Expect(q, "]"), N("[]", <<p.node, i>>)))
      [] OTHER        -> p

\* Lookahead: does `(` open a sub-pipeline?  The node is the answer; the diagnostics
\* of the attempt stay.
PeekPipeline(p) == LET q == ParseExpr(Advance(p)) IN Yield(Restore(q, p), Cur(q) = "|")

SubPipeline(p) == LET q == Item("pipeline", Advance(p)) IN Yield(Expect(q, ")"), N("()", <<q.node>>))

\* A parenthesised expression, list or sub-pipeline.
Group(p) ==
    LET look == PeekPipeline(p)
        q    == List("expr", Advance(look))
    IN  IF look.node THEN SubPipeline(look)
        ELSE Yield(Expect(q, ")"), IF Len(q.node) = 1 THEN N("()", q.node)
                                                       ELSE N("list", q.node))

Array(p) == LET q == ListUntil("expr", Advance(p), {"]"})
            IN  Yield(Expect(q, "]"), N("list", q.node))

\* name = value pairs, then parenthesised arguments, of a source like union isfuzzy=true (..).
RECURSIVE SourceParams(_, _), SourceArgs(_, _)
SourceParams(p, args) ==
    IF Cur(p) \in Names /\ Peek(p) = "="
    THEN LET q == ParseExpr(Advance(Advance(p)))
         IN  SourceParams(q, Append(args, N("=", <<Leaf(Cur(p)), q.node>>)))
    ELSE Yield(p, args)

SourceArgs(p, args) ==
    IF Cur(p) # "(" THEN Yield(p, args)
    ELSE LET look == PeekPipeline(p)
             q    == IF look.node THEN SubPipeline(look) ELSE ParseExpr(look)
         IN  SourceArgs(q, Append(args, q.node))

KeywordSourceCall(name) ==
    LET pairs == SourceParams(name, <<>>)
        q     == SourceArgs(pairs, pairs.node)
    IN  Yield(q, N("call", <<name.node>> \o q.node))

Call(name) == LET q == ListUntil("argument", Expect(name, "("), {")"})
              IN  Yield(Expect(q, ")"), N("call", <<name.node>> \o q.node))

\* One argument: *, a sub-pipeline with or without its own parentheses, name = expr,
\* name : type, or an expression.
Argument(p) ==
    LET paren == PeekPipeline(p)
        tried == IF Cur(p) = "(" THEN Restore(paren, p) ELSE p
        whole == ParseExpr(tried)
        plain == Restore(whole, p)
        value == ParseExpr(Advance(Advance(plain)))
        typed == IdentLike(Advance(Advance(plain)))
    IN  CASE Cur(p) = "*"                              -> Yield(Advance(p), Leaf("*"))
          [] Cur(p) = "(" /\ paren.node                -> SubPipeline(tried)
          [] Cur(whole) = "|"                          -> Item("pipeline", plain)
          [] Cur(p) \in Names /\ Peek(p) = "="         -> Yield(value, N("=", <<Leaf(Cur(p)), value.node>>))
          [] Cur(p) \in Names /\ Peek(p) = ":"         -> Yield(typed, Leaf(Cur(p)))
          [] OTHER                                     -> ParseExpr(plain)

IdentFollowed(p) ==
    LET name == IdentLike(p)
    IN  CASE Cur(name) = "(" /\ Peek(name) \notin PipelineStarters -> Call(name)
          [] Cur(name) \in Names /\ Peek(name) = "="               -> KeywordSourceCall(name)
          [] OTHER                                                 -> name

PrimaryWithoutRecovery(p) ==
    IF Cur(p) \in Names \cup Literals THEN Yield(Advance(p), Leaf(Cur(p))) ELSE Yield(Fail(p), Bad)
Primary(p) ==
    CASE Cur(p) \in Literals \cup {"null"} -> Yield(Advance(p), Leaf(Cur(p)))
      [] Cur(p) = "("                      -> Group(p)
      [] Cur(p) = "["                      -> Array(p)
      [] Cur(p) = "*"                      -> Yield(Advance(p), Leaf("*"))
      [] Cur(p) = "EOF"                    -> Yield(Fail(p), Bad)
      [] Cur(p) \in NameLike \ {"null"}    -> IdentFollowed(p)
      [] OTHER                             -> Yield(Advance(Fail(p)), Bad)

Layers == DOMAIN Tighter \cup {"postfix"}
Layer(l, p) == CASE l \in DOMAIN LeftAssociative -> Chain(l, Item(Tighter[l], p))
                 [] l \in DOMAIN NonAssociative  -> Once(l, Item(Tighter[l], p), NonAssociative[l])
                 [] l = "equality"               -> EqualityRest(Item("relational", p))
                 [] l = "unary"                  -> Unary(p)
                 [] l = "postfix"                -> Path(Primary(p))

-----------------------------------------------------------------------------
(* Named expressions, operator parameters, sort keys, table names.         *)

\* (a, b) = expr, name = expr, or expr.  A failed tuple is rewound, its diagnostics stay.
NamedExpr(p) ==
    LET names == IF Peek(p) \in NameLike THEN List("name", Advance(p)) ELSE Yield(Advance(p), <<>>)
        close == Advance(names)
        tuple == Cur(p) = "(" /\ Cur(names) = ")" /\ Cur(close) = "="
        bound == ParseExpr(Advance(close))
        again == IF Cur(p) = "(" THEN Restore(names, p) ELSE p
        value == ParseExpr(Advance(Advance(p)))
    IN  CASE tuple                             -> Yield(bound, N("=", <<N("list", names.node), bound.node>>))
          [] Cur(p) \in Names /\ Peek(p) = "=" -> Yield(value, N("=", <<Leaf(Cur(p)), value.node>>))
          [] OTHER                             -> ParseExpr(again)

ParamNames == {"kind", "withsource", "datascope"}

\* name = value for the parameter names; a value is one token, or a primary.
ParamValue(p) == IF Cur(p) \in NameLike THEN IdentLike(p) ELSE Item("primary", p)

RECURSIVE ParamsFrom(_, _)
ParamsFrom(p, out) ==
    IF Cur(p) \in ParamNames /\ Peek(p) = "="
    THEN LET q == ParamValue(Advance(Advance(p)))
         IN  ParamsFrom(q, Append(out, N("=", <<Leaf(Cur(p)), q.node>>)))
    ELSE Yield(p, out)

OrderedExpr(p) ==
    LET key   == Item("named", p)
        dir   == IF Cur(key) \in {"asc", "desc"} THEN Advance(key) ELSE key
        nulls == Advance(dir)
        end   == IF Cur(dir) # "nulls" THEN dir
                 ELSE IF Cur(nulls) \in {"first", "last"} THEN Advance(nulls) ELSE Fail(nulls)
        desc  == IF Cur(key) = "desc" THEN "desc" ELSE "asc"
        first == IF Cur(dir) = "nulls" /\ Cur(nulls) = "first" THEN "first" ELSE "last"
    IN  Yield(end, N("order", <<Unnamed(key.node), Leaf(desc), Leaf(first)>>))

\* The segments of App*Event*: the adjacency test counts from the end of the last
\* segment and adds the length of all of them.
RECURSIVE Segments(_, _, _, _)
Segments(p, nameEnd, width, parts) ==
    IF Cur(p) \in WildcardSegments /\ Column(p.at) = nameEnd + width - 1
    THEN Segments(Advance(p), Column(p.at) + 1, width + 1, Append(parts, Leaf(Cur(p))))
    ELSE Yield(p, N("wildcard", parts))

TableNameOrExpr(p) ==
    LET star == Advance(p)
        end  == Column(p.at) + 1
    IN  IF Cur(p) \in NameLike /\ Cur(star) = "*" /\ Column(star.at) = end
        THEN Segments(Advance(star), end, 2, <<Leaf(Cur(p)), Leaf("*")>>)
        ELSE ParseExpr(p)

PipelineSource(p) == IF Cur(p) = "*" THEN Yield(Advance(p), Leaf("*")) ELSE TableNameOrExpr(p)

JoinRight(p) ==
    LET look == PeekPipeline(p)
    IN  CASE Cur(p) = "(" /\ look.node -> SubPipeline(look)
          [] Cur(p) = "("              -> ParseExpr(look)
          [] OTHER                     -> ParseExpr(p)

\* name [: type], ... of a lambda and of declare query_parameters (a name may be
\* missing there, and a default may follow).
RECURSIVE LambdaParams(_), QueryParams(_), Columns(_, _), Sources(_, _), Storage(_, _), Forks(_)
LambdaParams(p) ==
    IF Cur(p) \in {")", "EOF"} THEN p
    ELSE LET name == IdentLike(p)
             q    == IF Cur(name) = ":" THEN IdentLike(Advance(name)) ELSE name
         IN  IF Cur(q) = "," THEN LambdaParams(Advance(q)) ELSE q

QueryParams(p) ==
    LET Opt(q) == IF Cur(q) \in NameLike THEN Advance(q) ELSE q
        name == Opt(p)
        typed == IF Cur(name) = ":" THEN Opt(Advance(name)) ELSE name
        q    == IF Cur(typed) = "=" THEN Item("primary", Advance(typed)) ELSE typed
    IN  CASE Cur(p) \in {")", "EOF"} -> p
          [] Cur(q) = ","            -> QueryParams(Advance(q))
          [] OTHER                   -> q

\* externaldata: columns (commas optional), then storage expressions.
Columns(p, out) ==
    IF Cur(p) \in {")", "EOF"} THEN Yield(p, out)
    ELSE LET name == IdentLike(p)
             q    == IF Cur(name) = ":" THEN IdentLike(Advance(name)) ELSE name
         IN  Columns(Accept(q, ","), Append(out, name.node))

Storage(p, out) ==
    IF Cur(p) \notin {"["} \cup Names \cup Strings THEN Yield(p, out)
    ELSE LET q == ParseExpr(p) IN Storage(Accept(q, ","), Append(out, q.node))

\* find in (T, ...): anything but a name ends the list at the next missing comma.
Sources(p, out) ==
    LET q    == IF Cur(p) \in NameLike THEN IdentLike(p) ELSE p
        more == IF Cur(p) \in NameLike THEN Append(out, q.node) ELSE out
    IN  CASE Cur(p) \in {")", "EOF"} -> Yield(p, out)
          [] Cur(q) = ","            -> Sources(Advance(q), more)
          [] OTHER                   -> Yield(q, more)

\* ( ... ) ( ... ): the sub-queries of fork, skipped.
SkipParens(p) == Accept(SkipGroup(Advance(p), 1), ")")
Forks(p) == IF Cur(p) = "(" THEN Forks(SkipParens(p)) ELSE p

\* The catch-all: to the end of the operator, parentheses as groups.
RECURSIVE SkipBody(_)
SkipBody(p) == CASE Cur(p) \in EndOfOperator -> p
                 [] Cur(p) = "("             -> SkipBody(SkipParens(p))
                 [] OTHER                    -> SkipBody(Advance(p))

-----------------------------------------------------------------------------
(* Operators.  Each is a sequence of clauses read in order; what a clause  *)
(* yields is appended to the operator's arguments:                         *)
(*   <<"params">>               name = value pairs                         *)
(*   <<"one", item>>            an item that must follow                   *)
(*   <<"list", item, stops>>    a list, empty at one of stops              *)
(*   <<"opt", kw, item>>        kw and an item, or nil                     *)
(*   <<"while", kw, item>>      kw and an item, any number, not kept       *)
(*   <<"if", tokens, cs, else>> cs when the current token is one of tokens *)
(*   <<"drop", cs>>             cs, whose nodes are not kept               *)
(*   <<"single">>, <<"nil">>    an expression as a list of one; nil        *)
(* and token, accept, expect, fail, skips and special lists by name.       *)

RECURSIVE Clauses(_, _)
Skipping(c, p) ==
    CASE c[1] = "token"  -> Advance(p)
      [] c[1] = "accept" -> Accept(p, c[2])
      [] c[1] = "expect" -> Expect(p, c[2])
      [] c[1] = "fail"   -> Fail(p)
      [] c[1] = "to end" -> SkipTo(p, EndOfOperator)
      [] c[1] = "parens" -> SkipParens(p)
      [] c[1] = "forks"  -> Forks(p)
      [] c[1] = "body"   -> SkipBody(p)
      [] c[1] = "drop"   -> Clauses(p, c[2])
      [] c[1] = "while"  -> IF Cur(p) = c[2] THEN Clauses(Item(c[3], Advance(p)), <<c>>) ELSE p
      [] c[1] = "bin"    -> IF Cur(p) = "bin" /\ Peek(p) = "=" THEN ParseExpr(Advance(Advance(p)))
                            ELSE p

\* scanParsePattern: the tokens of a parse pattern as they stand.
Pattern(p) == LET q == SkipTo(p, EndOfOperator)
              IN  Yield(q, N("pattern", [i \in 1 .. (q.at - p.at) |-> Leaf(TokenAt(p.at + i - 1))]))

AsList(q) == Yield(q, <<N("list", q.node)>>)
AsOne(q)  == Yield(q, <<q.node>>)

Clause(c, p) ==
    CASE c[1] = "params"  -> AsList(ParamsFrom(p, <<>>))
      [] c[1] = "one"     -> AsOne(Item(c[2], p))
      [] c[1] = "list"    -> AsList(ListUntil(c[2], p, c[3]))
      [] c[1] = "opt"     -> IF Cur(p) = c[2] THEN AsOne(Item(c[3], Advance(p)))
                             ELSE Yield(p, <<Absent>>)
      [] c[1] = "if"      -> Clauses(Yield(p, <<>>), IF Cur(p) \in c[2] THEN c[3] ELSE c[4])
      [] c[1] = "single"  -> LET q == ParseExpr(p) IN AsList(Yield(q, <<q.node>>))
      [] c[1] = "nil"     -> Yield(p, <<Absent>>)
      [] c[1] = "columns" -> AsList(Columns(p, <<>>))
      [] c[1] = "storage" -> AsList(Storage(p, <<>>))
      [] c[1] = "sources" -> AsList(Sources(p, <<>>))
      [] c[1] = "pattern" -> AsOne(Pattern(p))
      [] OTHER            -> Yield(Skipping(c, Yield(p, <<>>)), <<>>)

Clauses(p, cs) ==
    IF cs = <<>> THEN p
    ELSE LET q == Clause(Head(cs), p) IN Clauses(Yield(q, p.node \o q.node), Tail(cs))

NoParams  == <<"drop", << <<"params">> >> >>
AExpr     == <<"one", "expr">>
ListEnds  == EndOfOperator \cup {"by"}
NamedList == <<"list", "named", ListEnds>>
ToEnd     == <<"to end">>
IfName(cs, else) == <<"if", NameLike, cs, else>>
ByOrders  == <<"if", {"by"}, << <<"token">>, <<"list", "order", {}>> >>, <<>> >>
SkipWith  == <<"if", {"with"}, << <<"token">>, <<"if", {"("}, << <<"parens">> >>, <<>> >> >>, <<>> >>

ProjectKinds == {"project", "project-away", "project-keep", "project-rename", "project-reorder",
                 "project-smart"}

\* op_simple.go: where, project (every variant), extend, take, count, distinct, top.
SimpleShape(kw) ==
    CASE kw \in {"where", "filter", "take", "limit"} -> <<NoParams, AExpr>>
      [] kw \in ProjectKinds \cup {"extend"}         -> <<NamedList>>
      [] kw = "count"                                -> <<>>
      [] kw = "distinct" -> <<NoParams, <<"if", {"*"}, << <<"one", "word">> >>,
                                                       << <<"list", "value", ListEnds>> >> >> >>
      [] kw = "top"      -> << <<"params">>, AExpr, ByOrders>>

SortShape == << <<"params">>, ByOrders>>

SummarizeShape ==
    << <<"params">>, NamedList,
       <<"if", {"by"}, << <<"token">>, NamedList, <<"bin">> >>, <<>> >> >>

JoinShape ==
    << <<"params">>, <<"one", "right">>,
       <<"if", {"on"}, << <<"token">>, <<"list", "expr", {}>> >>,
                       << <<"if", {"where"}, << <<"token">>, <<"single">> >>, <<>> >> >> >> >>

UnionShape == << <<"params">>, <<"list", "table", EndOfOperator>> >>

MvExpandShape ==
    <<NoParams, NamedList, <<"while", "to", "expr">>, <<"opt", "limit", "expr">> >>

MvApplyShape ==
    <<NoParams, NamedList, <<"while", "to", "expr">>, <<"opt", "limit", "expr">>,
      <<"if", {"id"}, << <<"token">>, <<"token">> >>, <<>> >>,
      <<"if", {"on"},
        << <<"token">>, <<"if", {"("}, << <<"token">>, AExpr, <<"accept", ")">> >>, <<>> >> >>,
        <<>> >> >>

MakeSeriesShape ==
    LET comma == <<"expect", ",">>
    IN  <<NoParams, <<"list", "named", ListEnds \cup {"on"}>>, <<"opt", "on", "expr">>,
          <<"if", {"in"},
            << <<"token">>, <<"if", {"range"}, << <<"token">> >>, <<>> >>,
               <<"if", {"("}, << <<"token">>, AExpr, comma, AExpr, comma, AExpr, <<"expect", ")">> >>,
                              << <<"nil">>, <<"nil">>, <<"nil">> >> >> >>,
            << <<"opt", "from", "expr">>, <<"opt", "to", "expr">>, <<"opt", "step", "expr">> >> >>,
          <<"if", {"by"}, << <<"token">>, NamedList>>, <<>> >> >>

ParseShape == << <<"params">>, AExpr, <<"if", {"with"}, << <<"token">>, <<"pattern">> >>, <<>> >> >>

ParseKvShape == <<AExpr, <<"if", {"("}, << <<"drop", <<AExpr>> >> >>, <<>> >>, SkipWith>>

RenderShape == <<IfName(<< <<"one", "word">> >>, <<>>), SkipWith>>

ExternalDataShape ==
    << <<"if", {"("}, << <<"token">>, <<"columns">>, <<"expect", ")">> >>, <<>> >>, <<"storage">> >>

EvaluateShape == <<NoParams, IfName(<< <<"drop", <<AExpr>> >> >>, <<>>), ToEnd>>

AsShape == << <<"params">>, IfName(<< <<"one", "name">> >>, << <<"fail">> >>)>>

InvokeShape == <<IfName(<<AExpr>>, << <<"fail">> >>)>>

\* op_p1.go: the operators without a shape of their own above.
P1Shape(kw) ==
    CASE kw = "mv-expand"    -> MvExpandShape
      [] kw = "mv-apply"     -> MvApplyShape
      [] kw = "make-series"  -> MakeSeriesShape
      [] kw \in {"parse", "parse-where"} -> ParseShape
      [] kw = "parse-kv"     -> ParseKvShape
      [] kw = "render"       -> RenderShape
      [] kw = "externaldata" -> ExternalDataShape
      [] kw = "evaluate"     -> EvaluateShape
      [] kw = "as"           -> AsShape
      [] kw = "invoke"       -> InvokeShape
      [] kw = "consume"      -> <<NoParams>>
      [] kw = "getschema"    -> <<>>
      [] kw = "serialize"    -> <<NoParams, NamedList>>
      [] kw = "top-nested"   -> <<NoParams, <<"body">> >>

FromToStep == << <<"opt", "from", "expr">>, <<"opt", "to", "expr">>, <<"opt", "step", "expr">> >>

\* op_p2.go, first half: print .. fork.
P2Shape(kw) ==
    CASE kw = "print"           -> <<NamedList>>
      [] kw = "range"           -> <<IfName(<< <<"one", "name">> >>, <<>>)>> \o FromToStep
      [] kw = "find"            ->
            <<NoParams,
              <<"if", {"in"},
                << <<"token">>,
                   <<"if", {"("}, << <<"token">>, <<"sources">>, <<"accept", ")">> >>, <<>> >> >>,
                <<>> >>, ToEnd>>
      [] kw = "sample"          -> <<AExpr>>
      [] kw = "sample-distinct" -> <<AExpr, <<"opt", "of", "expr">> >>
      [] kw = "lookup"          ->
            <<NamedList, <<"if", {"from"}, << <<"token">>, IfName(<< <<"one", "name">> >>, <<>>)>>, <<>> >>,
              <<"opt", "on", "expr">> >>
      [] kw = "scan"            -> <<ToEnd>>
      [] kw = "fork"            -> << <<"forks">> >>

GraphOperators == {"graph-match", "make-graph", "graph-shortest-paths", "graph-to-table",
                   "graph-mark-components"}

\* op_p2.go, second half: facet .. the graph operators.
P3Shape(kw) ==
    CASE kw \in {"facet", "reduce"} -> << <<"opt", "by", "expr">>, ToEnd>>
      [] kw = "top-hitters"  -> <<AExpr, <<"opt", "of", "expr">>, <<"opt", "by", "expr">> >>
      [] kw = "partition"    -> << <<"opt", "by", "primary">>,
                                   <<"if", {"("}, << <<"parens">> >>, <<ToEnd>> >> >>
      [] kw = "macro-expand" -> <<IfName(<<AExpr>>, <<>>)>>
      [] kw \in GraphOperators \cup {"execute-and-cache", "assert-schema"} -> <<ToEnd>>

SimpleOps == ProjectKinds \cup {"where", "filter", "take", "limit", "extend", "count", "distinct",
                                "top"}
P1Ops == {"mv-expand", "mv-apply", "make-series", "parse", "parse-where", "parse-kv", "render",
          "externaldata", "evaluate", "as", "invoke", "consume", "getschema", "serialize",
          "top-nested"}
P2Ops == {"print", "range", "find", "sample", "sample-distinct", "lookup", "scan", "fork"}
P3Ops == GraphOperators \cup {"facet", "reduce", "top-hitters", "partition", "macro-expand",
                              "execute-and-cache", "assert-schema"}
KnownOps == SimpleOps \cup P1Ops \cup P2Ops \cup P3Ops
            \cup {"sort", "order", "summarize", "join", "union"}

Shape(kw) == CASE kw \in SimpleOps         -> SimpleShape(kw)
               [] kw \in {"sort", "order"} -> SortShape
               [] kw = "summarize"         -> SummarizeShape
               [] kw = "join"              -> JoinShape
               [] kw = "union"             -> UnionShape
               [] kw \in P1Ops             -> P1Shape(kw)
               [] kw \in P2Ops             -> P2Shape(kw)
               [] kw \in P3Ops             -> P3Shape(kw)

\* The node an operator becomes: the variants of project share one, and so do the
\* operators parsed only to be passed over.
NodeOf(kw) == CASE kw \in ProjectKinds              -> "project"
                [] kw = "filter"                    -> "where"
                [] kw = "limit"                     -> "take"
                [] kw = "order"                     -> "sort"
                [] kw = "parse-kv"                  -> "parse"
                [] kw \in {"evaluate", "top-nested"} -> "render"
                [] OTHER                            -> kw

\* `|` and the operator after it; an unknown one is reported and skipped.
PipedOperator(p) ==
    LET q == Advance(p)
        r == Clauses(Yield(Advance(q), <<>>), Shape(Cur(q)))
    IN  IF Cur(q) \in KnownOps THEN Yield(r, N(NodeOf(Cur(q)), r.node))
        ELSE Yield(SkipTo(Fail(q), EndOfOperator), Absent)

WithOp(ops, op) == IF op = Absent THEN ops ELSE Append(ops, op)

\* A whole pipeline, as inside parentheses.
RECURSIVE Pipes(_, _)
Pipes(p, ops) == IF Cur(p) # "|" THEN Yield(p, N("pipe", ops))
                 ELSE LET q == Item("operator", p) IN Pipes(q, WithOp(ops, q.node))
Pipeline(p) == LET q == Item("source", p) IN Pipes(q, <<q.node>>)

Item(kind, p) ==
    CASE kind \in Layers    -> Layer(kind, p)
      [] kind = "expr"     -> ParseExpr(p)
      [] kind = "named"    -> NamedExpr(p)
      [] kind = "value"    -> LET q == Item("named", p) IN Yield(q, Unnamed(q.node))
      [] kind = "argument" -> Argument(p)
      [] kind = "order"    -> OrderedExpr(p)
      [] kind = "table"    -> TableNameOrExpr(p)
      [] kind = "right"    -> JoinRight(p)
      [] kind = "primary"  -> Primary(p)
      [] kind = "name"     -> IdentLike(p)
      [] kind = "word"     -> Yield(Advance(p), Leaf(Cur(p)))
      [] kind = "source"   -> PipelineSource(p)
      [] kind = "operator" -> PipedOperator(p)
      [] kind = "pipeline" -> Pipeline(p)

-----------------------------------------------------------------------------
(* Statements (script.go).                                                 *)

\* let name =
LetHead(p) == LET name == IdentLike(Expect(p, "let")) IN Yield(Expect(name, "="), name.node)

IsLambda(p) == Cur(p) = "(" /\ Cur(SkipParens(p)) = "{"

\* (params) { expr ... }: what follows the expression is skipped to the brace.
Lambda(p) ==
    LET body == ParseExpr(Expect(Expect(LambdaParams(Expect(p, "(")), ")"), "{"))
    IN  Yield(Expect(SkipTo(body, {"}", "EOF"}), "}"), N("()", <<body.node>>))

Declare(p) ==
    LET kind == Advance(p)
        q    == IF Cur(kind) \in NameLike THEN Advance(kind) ELSE kind
        open == SkipTo(q, {"("} \cup EndOfStatement)
        end  == CASE Cur(kind) \notin NameLike \/ Cur(kind) = "query_parameters" ->
                          IF Cur(q) = "(" THEN Accept(QueryParams(Advance(q)), ")") ELSE Fail(q)
                  [] Cur(open) = "(" -> SkipParens(open)
                  [] OTHER           -> Accept(open, ")")
    IN  Yield(end, Leaf("declare"))

SetOption(p) == LET name == IdentLike(Expect(p, "set"))
                IN  Yield(IF Cur(name) = "=" THEN Item("primary", Advance(name)) ELSE name, Leaf("set"))

\* alias database .. and restrict access to ..: skipped to the end of the statement.
SkippedStatement(p) == Yield(SkipTo(Advance(p), EndOfStatement), Leaf("set"))

MetadataStatement(p) == CASE Cur(p) = "declare" -> Declare(p)
                          [] Cur(p) = "set"     -> SetOption(p)
                          [] OTHER              -> SkippedStatement(p)
=============================================================================
