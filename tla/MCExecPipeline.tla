--------------------------- MODULE MCExecPipeline ---------------------------
(***************************************************************************)
(* ExecPipeline on three outer rows (one with a NULL key, one the filters    *)
(* stop) and three inner rows, with the pipelines that take every path.        *)
(***************************************************************************)
EXTENDS ExecPipeline

CONSTANTS o1, o2, o3, i1, i2, i3, k1, k2

MCOuterRow == {o1, o2, o3}
MCInnerRow == {i1, i2, i3}
MCPassing  == {o1, o3}
MCKey      == {k1, k2}
\* The first condition compares columns that may agree; the second is there for
\* an ON of two conditions, and never holds.
MCOuterKey ==
  [o \in MCOuterRow |-> CASE o = o1 -> <<k1, k1>> [] o = o2 -> <<k2, k1>> [] o = o3 -> <<NULL, k1>>]
MCOuterY   == [o \in MCOuterRow |-> <<k1, k2>>]
MCInnerKey == [i \in MCInnerRow |-> IF i = i3 THEN <<NULL, k2>> ELSE <<k1, k2>>]

Plain(op) == [op |-> op, hint |-> FALSE, onGone |-> FALSE]
Hint      == [op |-> "Join", hint |-> TRUE, onGone |-> FALSE]
JoinOf(kind, on, right) == [kind |-> kind, on |-> on, right |-> right]
Bare      == JoinOf("inner", <<"bare">>, "table")
Query(ss, j) == [stages |-> ss, join |-> j]

\* The plain join with every description; then it filtered and post-processed,
\* behind a take, behind another join, around a client-side boundary, twice
\* hinted, and not hinted.
MCQueries ==
  {Query(<<Hint>>, j) : j \in {
     Bare,
     JoinOf("leftouter", <<"bare">>, "table"),
     JoinOf("inner", <<"bare", "qualified">>, "table"),
     JoinOf("inner", <<"qualified">>, "table"),
     JoinOf("inner", <<"bare">>, "taken"),
     JoinOf("inner", <<"bare", "qualified">>, "keyless"),
     JoinOf("inner", <<"bare">>, "nil")}}
  \cup
  {Query(ss, Bare) : ss \in {
     <<Plain("Filter"), Hint, Plain("Sort"), Plain("Filter")>>,
     <<Plain("Filter"), Plain("Limit"), Hint, Plain("Aggregate")>>,
     <<Plain("Join"), Hint, Plain("Project")>>,
     <<Plain("Sort"), Hint, Plain("MvExpand"), Plain("Extend"), Plain("Limit")>>,
     <<Plain("MvExpand"), Hint>>,
     <<Hint, Hint>>,
     <<Plain("Sort"), Plain("MvExpand"), Plain("Filter"), Plain("Aggregate")>>}}

=============================================================================
