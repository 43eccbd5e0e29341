---------------------------- MODULE ExecPipeline ----------------------------
(***************************************************************************)
(* internal/exec: one call of ExecPipeline on a pipeline whose stages may   *)
(* hold a join hinted IndexLookup by the optimizer.                         *)
(*                                                                          *)
(* The call reads the database in up to four separate statements (outer     *)
(* keys, inner rows, outer rows, or the single statement of the normal      *)
(* path), while other sessions write the two tables in between.  It works   *)
(* on a Go slice of stages whose backing array it shares with the caller    *)
(* and with its own fallback.                                               *)
(*                                                                          *)
(* Abstractions: a table is a set of row identities, a row has one value    *)
(* per ON condition; the filters before the join are the set Passing; a     *)
(* stage applied to the answer is recorded by its index in result.done and  *)
(* not computed; the right side of the join is a table, possibly behind a   *)
(* take or a project that drops the key.                                    *)
(***************************************************************************)
EXTENDS Integers, Sequences, FiniteSets

CONSTANTS
  OuterRow, InnerRow,   \* the rows that may ever be in the two tables
  Passing,              \* the outer rows the pre-join filters let through
  Key, NULL,            \* values of the join columns
  OuterKey, InnerKey,   \* row -> condition -> value of the column it compares
  OuterY,               \* row -> condition -> the OUTER row's own value of the
                        \*   column a bare condition X == Y names second
  NoRow,                \* the missing inner side of an outer join
  Queries,              \* the pipelines that may be executed, each with the
                        \*   description of its hinted join
  MaxOn,                \* bound on the conditions of an ON clause
  MaxIndexLookupKeys,   \* maxIndexLookupKeys (10000 in the code)
  TakeN,                \* the N of a `take N` in the outer or inner pipeline
  EmitConsumesOn,       \* TRUE for sqlite: emitting a join destroys its ON
  MaxWrites             \* bound on the concurrent writes

(***************************************************************************)
(* Stages.  A stage is its IR type name, whether it carries the IndexLookup *)
(* hint, and whether its ON expression has been destroyed by an emission.   *)
(***************************************************************************)
Boundary == {"MvExpand", "Parse", "MakeSeries", "MvApply"}
Follower == {"Aggregate", "Limit", "Sort", "Project"}
SqlOnly  == {"Filter", "Extend", "Distinct", "Join", "Union"}
StageOp  == Boundary \cup Follower \cup SqlOnly

Stage == [op : StageOp, hint : BOOLEAN, onGone : BOOLEAN]

DistinctKey == [op |-> "Distinct", hint |-> FALSE, onGone |-> FALSE]

Condition == {"bare", "qualified"}
Kind      == {"inner", "leftouter"}
RightSide == {"table", "taken", "keyless", "nil"}
Join      == [kind : Kind, on : Seq(Condition), right : RightSide]

Value == Key \cup {NULL}

ASSUME RowsAssumption ==
  /\ NULL \notin Key
  /\ NoRow \notin InnerRow
  /\ Passing \subseteq OuterRow
  /\ OuterKey \in [OuterRow -> [1 .. MaxOn -> Value]]
  /\ OuterY \in [OuterRow -> [1 .. MaxOn -> Value]]
  /\ InnerKey \in [InnerRow -> [1 .. MaxOn -> Value]]

ASSUME BoundsAssumption ==
  /\ MaxIndexLookupKeys \in Nat
  /\ TakeN \in Nat /\ MaxOn \in Nat
  /\ MaxWrites \in Nat
  /\ EmitConsumesOn \in BOOLEAN

ASSUME QueryAssumption ==
  /\ Queries \subseteq [stages : Seq(Stage), join : Join]
  /\ \A q \in Queries : Len(q.join.on) <= MaxOn

\* Nothing has emitted the pipeline before the call.
ASSUME FreshAssumption ==
  \A q \in Queries : \A k \in DOMAIN q.stages : ~ q.stages[k].onGone

-----------------------------------------------------------------------------
VARIABLES
  outer, inner,     \* the two tables, as the database has them now
  stages,           \* the array behind pipe.Stages, shared by every sub-slice
  join,             \* the *ir.Join the strategy picked before it ran
  pc,               \* what ExecPipeline does next
  keys,             \* outerKeys
  innerRows,        \* innerResult
  outerRows,        \* outerResult
  result,           \* the Result under construction, with the stages it went
                    \*   through in the order they were applied
  outcome,          \* how the call answers
  at,               \* index of the next stage of the client-side loop
  writes,           \* concurrent writes so far
  orig,             \* history: the stages as the caller passed them
  steadyOuter, steadyInner,  \* history: rows present since the call began
  seenOuter, seenInner       \* history: rows present at some time of the call

database == <<outer, inner, writes, steadyOuter, steadyInner, seenOuter, seenInner>>
fetched  == <<keys, innerRows, outerRows>>
vars == <<database, stages, join, pc, fetched, result, outcome, at, orig>>

Empty == [rows |-> {}, done |-> <<>>]

-----------------------------------------------------------------------------
(* What the emitters and executors compute *)

IsJoin(st)       == st.op = "Join"
IsBoundary(st)   == st.op \in Boundary
\* A stage whose executor does something.  execSort and execLimit are registered
\* too, but the first returns its input, and the second recognises only a Go int
\* where the translator writes int64.
ClientRuns(st)   == st.op \in (Boundary \cup Follower) \ {"Sort", "Limit"}

First(S) == CHOOSE x \in S : \A y \in S : x <= y
Hinted(ss)     == {k \in DOMAIN ss : IsJoin(ss[k]) /\ ss[k].hint}
Boundaries(ss) == {k \in DOMAIN ss : IsBoundary(ss[k])}
Prefix(ss, n)  == [k \in 1 .. n |-> ss[k]]

\* findIndexLookupJoin, of the stages as they were passed.
JoinIdx == IF Hinted(orig) = {} THEN 0 ELSE First(Hinted(orig))
PreJoin == Prefix(stages, JoinIdx - 1)

\* findPostProcBoundary: the SQL region ends before the first boundary stage.
SplitIdx(ss) == IF Boundaries(ss) = {} THEN Len(ss) + 1 ELSE First(Boundaries(ss))

\* The condition extractIndexLookupKeys settles on.
BareConditions(j) == {c \in DOMAIN j.on : j.on[c] = "bare"}
LookupCond == First(BareConditions(join))
OKey(o) == OuterKey[o][LookupCond]
IKey(i) == InnerKey[i][LookupCond]

\* An emission fails on a join whose ON an earlier emission took apart.
CanEmit(ss) == \A k \in DOMAIN ss : ~ss[k].onGone
EmittedThroughout(n) ==
  [k \in DOMAIN stages |->
     IF IsJoin(stages[k]) THEN [stages[k] EXCEPT !.onGone = EmitConsumesOn] ELSE stages[k]]
Emitted(n) ==
  [k \in DOMAIN stages |->
     IF k <= n /\ IsJoin(stages[k]) THEN [stages[k] EXCEPT !.onGone = EmitConsumesOn]
                                    ELSE stages[k]]
\* Boundary stages inside an emitted region leave no trace in its SQL.
EmittedStages(ss) ==
  LET upTo[k \in 0 .. Len(ss)] ==
        IF k = 0 THEN <<>> ELSE IF IsBoundary(ss[k]) THEN upTo[k - 1] ELSE Append(upTo[k - 1], k)
  IN  upTo[Len(ss)]

\* append on the sub-slice stages[:JoinIdx] has room, so it puts the distinct over
\* the join, in the array everybody shares.
DistinctAtEnd(ss)   == Append(ss, DistinctKey)
DistinctPastJoin(ss) ==
  [k \in DOMAIN ss |-> IF k = JoinIdx + 1 THEN DistinctKey ELSE ss[k]]
AppendDistinct(ss)  == [ss EXCEPT ![JoinIdx] = DistinctKey]

Has(ss, op) == \E k \in DOMAIN ss : ss[k].op = op
Takes(rows) ==
  {S \in SUBSET rows : Cardinality(S) = IF Cardinality(rows) < TakeN
                                        THEN Cardinality(rows) ELSE TakeN}

\* The rows the stages before the join may return.
OuterAnswers(ss) ==
  LET kept == IF Has(ss, "Filter") THEN outer \cap Passing ELSE outer
  IN  IF Has(ss, "Limit") THEN Takes(kept) ELSE {kept}

\* SQL's view of one ON condition: emitJoinOnExpr gives both columns of a bare
\* X == Y the left alias.
Holds(kind, c, o, i) ==
  /\ OuterKey[o][c] # NULL
  /\ OuterKey[o][c] = IF kind = "bare" THEN OuterY[o][c] ELSE InnerKey[i][c]

SqlJoin(j, O, I) ==
  LET matched == {p \in O \X I : \A c \in DOMAIN j.on : Holds(j.on[c], c, p[1], p[2])}
  IN  IF j.kind = "inner" THEN matched
      ELSE matched \cup {<<o, NoRow>> : o \in {l \in O : \A i \in I : <<l, i>> \notin matched}}

\* key IN (keys), which is never true of NULL.
InKeysOrBothNull(i) == IKey(i) \in keys
InKeys(i)           == IKey(i) \in keys \ {NULL}

InnerAnswers(rows) == IF join.right = "taken" THEN Takes(rows) ELSE {rows}

\* hashJoinByKey: the probe on the one lookup column, whatever the join's kind.
HashJoinLastPerKey(O, I) ==
  {p \in O \X I : OKey(p[1]) = IKey(p[2]) /\ p[2] = CHOOSE m \in I : IKey(m) = OKey(p[1])}
HashJoin(O, I) ==
  IF join.right = "keyless" THEN {<<o>> : o \in O}
  ELSE {p \in O \X I : OKey(p[1]) = IKey(p[2])}

\* An answer of the stages up to n, handed to the client-side loop.
StartClientEarly(rows, n) ==
  /\ result' = [rows |-> rows, done |-> EmittedStages(Prefix(stages, n))]
  /\ at' = IF n = 0 THEN 1 ELSE n
StartClientLate(rows, n) ==
  /\ result' = [rows |-> rows, done |-> EmittedStages(Prefix(stages, n))]
  /\ at' = n + 2
StartClient(rows, n) ==
  /\ result' = [rows |-> rows, done |-> EmittedStages(Prefix(stages, n))]
  /\ at' = n + 1

-----------------------------------------------------------------------------
(* The call *)

Init ==
  /\ outer \in SUBSET OuterRow /\ inner \in SUBSET InnerRow
  /\ \E q \in Queries : stages = q.stages /\ orig = q.stages /\ join = q.join
  /\ pc = "enter" /\ outcome = "running" /\ at = 0 /\ writes = 0
  /\ keys = {} /\ innerRows = {} /\ outerRows = {}
  /\ result = Empty
  /\ steadyOuter = outer /\ steadyInner = inner
  /\ seenOuter = outer /\ seenInner = inner

Goto(label) == pc' = label

\* ExecPipeline, down to findIndexLookupJoin.  The arrow hook declines a hinted
\* pipeline and repeats the normal path for every other.
Enter ==
  /\ pc = "enter"
  /\ Goto(IF JoinIdx = 0 THEN "normal" ELSE "extract")
  /\ UNCHANGED <<database, stages, join, fetched, result, outcome, at, orig>>

\* extractIndexLookupKeys
ExtractKeysOrReenter ==
  /\ pc = "extract"
  /\ Goto(IF BareConditions(join) = {} THEN "enter" ELSE "keys")
  /\ UNCHANGED <<database, stages, join, fetched, result, outcome, at, orig>>
ExtractKeys ==
  /\ pc = "extract"
  /\ Goto(IF BareConditions(join) = {} THEN "normal" ELSE "keys")
  /\ UNCHANGED <<database, stages, join, fetched, result, outcome, at, orig>>

\* fetchOuterKeys and the tests on what it returns.  The distinct is in place
\* before the emission or the statement can fail.
FetchOuterKeys ==
  /\ pc = "keys"
  /\ LET wellFormed == CanEmit(PreJoin)
     IN  /\ stages' = AppendDistinct(Emitted(JoinIdx - 1))
         /\ \/ /\ Goto("normal")                      \* Emit or Exec failed
               /\ UNCHANGED <<keys, result, outcome, at>>
            \/ /\ wellFormed
               /\ \E rows \in OuterAnswers(PreJoin) : keys' = {OKey(o) : o \in rows}
               /\ \/ /\ keys' = {}
                     /\ Goto("done") /\ outcome' = "lookup"
                     /\ UNCHANGED <<result, at>>
                  \/ /\ Cardinality(keys') > MaxIndexLookupKeys
                     /\ Goto("normal")
                     /\ UNCHANGED <<result, outcome, at>>
                  \/ /\ keys' # {} /\ Cardinality(keys') <= MaxIndexLookupKeys
                     /\ Goto("inner")
                     /\ UNCHANGED <<result, outcome, at>>
  /\ UNCHANGED <<database, join, innerRows, outerRows, orig>>

\* fetchInnerByKeys: the IN filter runs before the right pipeline's own stages.
FetchInnerByKeys ==
  /\ pc = "inner"
  /\ \/ /\ Goto("normal")                             \* nil right, Emit or Exec failed
        /\ UNCHANGED innerRows
     \/ /\ join.right # "nil"
        /\ innerRows' \in InnerAnswers({i \in inner : InKeys(i)})
        /\ Goto("outer")
  /\ UNCHANGED <<database, stages, join, keys, outerRows, result, outcome, at, orig>>

\* execOuterPipeline: the pre-join stages once more, in a statement of their own.
ExecOuterPipeline ==
  /\ pc = "outer"
  /\ stages' = Emitted(JoinIdx - 1)
  /\ \/ Goto("normal") /\ UNCHANGED outerRows
     \/ /\ CanEmit(PreJoin)
        /\ outerRows' \in OuterAnswers(PreJoin)
        /\ Goto("probe")
  /\ UNCHANGED <<database, join, keys, innerRows, result, outcome, at, orig>>

\* hashJoinByKey
HashJoinByKey ==
  /\ pc = "probe"
  /\ StartClient(HashJoin(outerRows, innerRows), JoinIdx)
  /\ Goto("client") /\ outcome' = "lookup"
  /\ UNCHANGED <<database, stages, join, fetched, orig>>

\* One turn of the loops over stages[at:] through applyPostProc, or their end.
ApplyPostProc ==
  /\ pc = "client"
  /\ IF at > Len(stages)
     THEN Goto("done") /\ UNCHANGED <<result, at>>
     ELSE /\ at' = at + 1
          /\ result' = IF ClientRuns(stages[at])
                       THEN [result EXCEPT !.done = Append(@, at)] ELSE result
          /\ UNCHANGED pc
  /\ UNCHANGED <<database, stages, join, fetched, outcome, orig>>

\* What the statement of the normal path may return for the stages before `split`.
RegionAnswers(split) ==
  LET O == OuterAnswers(Prefix(stages, split - 1))
  IN  CASE JoinIdx \notin 1 .. split - 1 -> {{<<o>> : o \in rows} : rows \in O}
        [] stages[JoinIdx] = DistinctKey -> {{<<OKey(o)>> : o \in rows} : rows \in O}
        [] OTHER -> {SqlJoin(join, rows, I) : rows \in O, I \in InnerAnswers(inner)}

\* A join the region still holds needs a right side that has the columns its ON
\* names.
RegionIsValid(split) ==
  /\ CanEmit(Prefix(stages, split - 1))
  /\ (JoinIdx \in 1 .. split - 1 /\ IsJoin(stages[JoinIdx])) =>
        \/ join.right \in {"table", "taken"}
        \/ join.right = "keyless" /\ \A c \in DOMAIN join.on : join.on[c] = "bare"

\* The normal path: one statement for the stages before the boundary, then the
\* client-side loop from the boundary on.
ExecNormal ==
  /\ pc = "normal"
  /\ LET split == SplitIdx(stages)
     IN  /\ stages' = Emitted(split - 1)
         /\ \/ /\ RegionIsValid(split)
               /\ \E rows \in RegionAnswers(split) : StartClient(rows, split - 1)
               /\ outcome' = "normal" /\ Goto("client")
            \/ /\ ~RegionIsValid(split)
               /\ outcome' = "rejected" /\ Goto("done")
               /\ UNCHANGED <<result, at>>
            \/ /\ outcome' = "failed" /\ Goto("done")     \* the database
               /\ UNCHANGED <<result, at>>
  /\ UNCHANGED <<database, join, fetched, orig>>

-----------------------------------------------------------------------------
(* Other sessions *)

Toggle(table, row) == IF row \in table THEN table \ {row} ELSE table \cup {row}

WriteOuter ==
  /\ pc # "done" /\ writes < MaxWrites
  /\ \E o \in OuterRow : outer' = Toggle(outer, o)
  /\ writes' = writes + 1
  /\ steadyOuter' = steadyOuter \cap outer'
  /\ seenOuter' = seenOuter \cup outer'
  /\ UNCHANGED <<inner, steadyInner, seenInner, stages, join, pc, fetched, result,
                 outcome, at, orig>>

WriteInner ==
  /\ pc # "done" /\ writes < MaxWrites
  /\ \E i \in InnerRow : inner' = Toggle(inner, i)
  /\ writes' = writes + 1
  /\ steadyInner' = steadyInner \cap inner'
  /\ seenInner' = seenInner \cup inner'
  /\ UNCHANGED <<outer, steadyOuter, seenOuter, stages, join, pc, fetched, result,
                 outcome, at, orig>>

Call == \/ Enter \/ ExtractKeys \/ FetchOuterKeys \/ FetchInnerByKeys
        \/ ExecOuterPipeline \/ HashJoinByKey \/ ApplyPostProc \/ ExecNormal

Next == Call \/ WriteOuter \/ WriteInner

Spec == Init /\ [][Next]_vars

\* Go schedules the goroutine of the call, and every statement it issues ends,
\* if only by the deadline of its context.
FairSpec == Spec /\ WF_vars(Call)

-----------------------------------------------------------------------------
(* Correctness *)

RowsTypeOK ==
  /\ outer \in SUBSET OuterRow /\ inner \in SUBSET InnerRow
  /\ steadyOuter \subseteq outer /\ steadyInner \subseteq inner
  /\ outer \subseteq seenOuter /\ inner \subseteq seenInner
  /\ seenOuter \subseteq OuterRow /\ seenInner \subseteq InnerRow
  /\ keys \subseteq Value
  /\ innerRows \subseteq seenInner /\ outerRows \subseteq seenOuter

\* The type invariant, with the relation of each history set to its table.
TypeOK ==
  /\ RowsTypeOK
  /\ orig \in Seq(Stage) /\ stages \in Seq(Stage) /\ Len(stages) = Len(orig)
  /\ join \in Join
  /\ pc \in {"enter", "extract", "keys", "inner", "outer", "probe", "client", "normal", "done"}
  /\ outcome \in {"running", "lookup", "normal", "rejected", "failed"}
  /\ at \in Nat /\ writes \in 0 .. MaxWrites

\* The rows the join must pair: matching on the lookup key, let through by the
\* stages before the join, and in their tables from the call's start to now.
StablePairs ==
  {p \in steadyOuter \X steadyInner :
     /\ OKey(p[1]) # NULL /\ OKey(p[1]) = IKey(p[2])
     /\ Has(PreJoin, "Filter") => p[1] \in Passing}

Answered == pc \in {"client", "done"}

\* Reading keys, inner rows and outer rows in three statements loses no pair
\* that stood still meanwhile: each phase sees it, whatever other sessions
\* write between the phases (execIndexLookup).
NoStableMatchLost ==
  (outcome = "lookup" /\ Answered /\ join.right = "table" /\ ~Has(PreJoin, "Limit"))
     => StablePairs \subseteq result.rows

\* And it invents none: a pair in the answer agrees on a key that is not NULL,
\* each half was in its table at some time of this call, and the outer half
\* passed the filters.  With nobody writing, the two properties make the answer
\* the inner join on the lookup column.
NoPhantomPair ==
  (outcome = "lookup" /\ Answered /\ join.right # "keyless") =>
     \A r \in result.rows :
        /\ r[1] \in seenOuter /\ r[2] \in seenInner
        /\ OKey(r[1]) = IKey(r[2]) /\ OKey(r[1]) # NULL
        /\ Has(PreJoin, "Filter") => r[1] \in Passing

\* The rewrite through the shared array touches the join's slot only: the stages
\* that run client-side after it, and those re-emitted before it, are still the
\* caller's (fetchOuterKeys appends to stages[:joinIdx]).
OnlyJoinSlotRewritten ==
  \A k \in DOMAIN stages : stages[k].op # orig[k].op => k = JoinIdx

\* Every stage takes effect at most once and in pipeline order, across the SQL
\* region and the client-side loop, in either path (the two slices must meet
\* exactly at splitIdx, or at joinIdx+1).
DoneInOrder ==
  \A a, b \in DOMAIN result.done : a < b => result.done[a] < result.done[b]

\* No stage of the normal path is lost: when it answers, everything before the
\* first boundary went into SQL and every later stage whose executor does something
\* ran.
NormalPathComplete ==
  (outcome = "normal" /\ pc = "done") =>
     \A k \in DOMAIN stages :
        (k < SplitIdx(stages) \/ ClientRuns(stages[k])) =>
           \E d \in DOMAIN result.done : result.done[d] = k

\* The fallback is a statement the backend accepts, except on sqlite behind an
\* earlier join: there the key fetch has already taken that join's ON apart
\* (emitJoinOnExpr sets n.X and n.Y to nil while emitting).
RejectedOnlyBehindJoin ==
  (outcome = "rejected" /\ join.right = "table") =>
     EmitConsumesOn /\ \E k \in 1 .. JoinIdx - 1 : IsJoin(orig[k])

\* The call returns whatever fails, and however its shortcuts fall through.
Terminates == <>(pc = "done")

-----------------------------------------------------------------------------
(* What the documentation says *)

\* indexlookup.go:19-20: if anything goes wrong "we fall back to the normal
\* single-query JOIN".
FallbackRunsOriginal ==
  outcome = "normal" => \A k \in DOMAIN stages : stages[k].op = orig[k].op

\* indexlookup.go:12: "Post: post-join stages apply client-side."
PostStagesApply ==
  (outcome = "lookup" /\ pc = "done") =>
     \A k \in JoinIdx + 1 .. Len(stages) : \E d \in DOMAIN result.done : result.done[d] = k

=============================================================================
