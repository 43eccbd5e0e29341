---------------------------- MODULE MCDecisions ----------------------------
(***************************************************************************)
(* Pipelines of joins and filters over four small tables, with statistics   *)
(* that need not describe them.                                              *)
(***************************************************************************)
EXTENDS Decisions

\* Names: B is also spelled b.
MCLower(t) == CASE t = "A" -> "a" [] t = "B" -> "b" [] t = "C" -> "c" [] t = "D" -> "d" [] OTHER -> t

MCRows ==
  [a |-> <<[key |-> 1, x |-> 1], [key |-> 2, x |-> 0], [key |-> Null, x |-> 2]>>,
   b |-> <<[key |-> 1, y |-> 1], [key |-> 1, y |-> 2], [key |-> 3, y |-> 1]>>,
   c |-> <<[key |-> 1, z |-> 2], [key |-> 2, z |-> 1]>>,
   d |-> <<[y |-> 1, w |-> 1], [y |-> 2, w |-> 0]>>]

Cond(form, l, r) == <<[form |-> form, l |-> l, r |-> r]>>
JoinWith(kind, right, on) ==
  [op |-> "Join", id |-> 0, kind |-> kind, right |-> right, on |-> on, hint |-> NoHint]
Pred(col, op, val) == [col |-> col, op |-> op, val |-> val]
Where(conds) == [op |-> "Filter", id |-> 0, conds |-> conds]

InnerB  == JoinWith("inner", "B", Cond("sides", "key", "key"))
InnerC  == JoinWith("innerunique", "C", Cond("sides", "key", "key"))
InnerD  == JoinWith("default", "D", Cond("sides", "x", "w"))
DOnY    == JoinWith("inner", "D", Cond("sides", "y", "y"))
LeftB   == JoinWith("left", "B", Cond("sides", "key", "key"))
RightC  == JoinWith("right", "C", Cond("sides", "x", "z"))
FullC   == JoinWith("full", "C", Cond("sides", "key", "key"))
SmallB  == JoinWith("inner", "b", Cond("sides", "x", "y"))
PairB   == JoinWith("inner", "B", Cond("pair", "key", "key"))
LeftB2  == JoinWith("left", "B", Cond("pair", "key", "key"))
PairC   == JoinWith("inner", "C", Cond("pair", "key", "key"))
PairD   == JoinWith("inner", "D", Cond("pair", "x", "x"))
KeyC    == JoinWith("default", "C", Cond("key", "x", "x"))
CrossD  == JoinWith("inner", "D", <<>>)
TwoB    == JoinWith("inner", "B", Cond("sides", "key", "key") \o Cond("sides", "x", "y"))
FilterX == Where(<<Pred("x", "neq", 0), Pred("x", "eq", 1), Pred("key", "less", 3)>>)
FilterK == Where(<<Pred("key", "eq", 1), Pred("x", "has", 0)>>)
FilterY == Where(<<Pred("y", "less", 3), Pred("key", "neq", 2)>>)

Pool  == {InnerB, InnerC, InnerD, DOnY, LeftB, RightC, FullC, SmallB, PairB, LeftB2, PairC, PairD,
          KeyC, CrossD, TwoB, FilterX, FilterK, FilterY}
Core  == {InnerB, InnerC, InnerD, DOnY, LeftB, SmallB, FilterX}
Chain == {InnerB, InnerC, InnerD}

Numbered(ss) == [n \in DOMAIN ss |-> [ss[n] EXCEPT !.id = n]]
\* The bounds: up to three stages, four of which one chain is three joins.
MCPipelines ==
  {ss \in {Numbered(s) : s \in {<<x>> : x \in Pool} \cup {<<x, y>> : x, y \in Pool}
                            \cup {<<x, y, z>> : x, y, z \in Core}
                            \cup {<<v, x, y, z>> : v \in {FilterX, LeftB, InnerD}, x, y, z \in Chain}} :
     Resolves(ss)}

TableStats(rows, width, cols, indexes) ==
  [rows |-> rows, width |-> width, cols |-> cols, indexes |-> indexes]
ColStats(card, mcv, bounds, corr) == [card |-> card, mcv |-> mcv, bounds |-> bounds, corr |-> corr]

\* Every table known, under the names queries use.
Analyzed ==
  [source |-> "pg_analyze",
   tables |->
     [A |-> TableStats(100, 1, [key |-> ColStats(50, <<500, 200>>, 4, FALSE),
                                x |-> ColStats(10, <<700>>, 10, TRUE)], {}),
      B |-> TableStats(200, 2, [key |-> ColStats(100, <<>>, 4, FALSE)], {"key"}),
      b |-> TableStats(200, 2, [key |-> ColStats(100, <<>>, 4, FALSE)], {"key"}),
      C |-> TableStats(10, 1, [key |-> ColStats(10, <<>>, 0, FALSE)], {}),
      D |-> TableStats(50, 0, <<>>, {})]]
\* A small outer table and a large indexed inner one; names in lower case.
Lopsided ==
  [source |-> "manual",
   tables |->
     [a |-> TableStats(3, 8, [key |-> ColStats(3, <<>>, 0, TRUE)], {}),
      b |-> TableStats(1010, 40, [key |-> ColStats(3, <<>>, 0, FALSE)], {"key"}),
      c |-> TableStats(1010, 3, <<>>, {"key"}),
      d |-> TableStats(20, 1, <<>>, {})]]
\* Some tables only, with few statistics of their columns.
Partial ==
  [source |-> "sampling",
   tables |->
     [A |-> TableStats(40, 1, [x |-> ColStats(20, <<>>, 0, FALSE)], {}),
      b |-> TableStats(10, 1, <<>>, {}),
      C |-> TableStats(100, 1, [key |-> ColStats(0, <<>>, 0, FALSE)], {"key"})]]
\* Statistics of another schema.
Foreign ==
  [source |-> "manual",
   tables |-> [other |-> TableStats(10, 1, [key |-> ColStats(5, <<>>, 0, FALSE)], {})]]
MCCatalogs == {Analyzed, Lopsided, Partial, Foreign}

\* DefaultWeights of sqlite and duckdb; see Estimates for the units.
MCWeightSets ==
  {[cpu |-> 25, mem |-> 64000, io |-> 1250, tuple |-> 80, buffer |-> 125],
   [cpu |-> 10, mem |-> 192, io |-> 625, tuple |-> 1600, buffer |-> 375]}

=============================================================================
