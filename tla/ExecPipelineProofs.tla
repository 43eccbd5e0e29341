-------------------------- MODULE ExecPipelineProofs --------------------------
(***************************************************************************)
(* Proofs about ExecPipeline, for every pipeline, table, key assignment and *)
(* number of concurrent writes: the type invariant, that the rewrite through *)
(* the shared stage array stays in the join's slot, and that the three-phase  *)
(* lookup loses no stable match and invents none.                            *)
(*                                                                          *)
(* Inv is the inductive invariant.  Beyond the properties themselves it says *)
(* what each phase may rely on from the one before it: that a lookup under  *)
(* way has a hinted join and a bare condition, that every stable pair is    *)
(* covered by what has been fetched so far, and where the fetched rows came  *)
(* from.                                                                     *)
(***************************************************************************)
EXTENDS ExecPipeline, SequenceTheorems, Induction

-----------------------------------------------------------------------------
(* The inductive invariant *)

Fetching == pc \in {"keys", "inner", "outer", "probe"}

\* What the stages before the join hold, of the stages as they were passed.
PreHas(op) == \E k \in 1 .. JoinIdx - 1 : orig[k].op = op

\* The join is one of the given ones, and a lookup under way found its slot and
\* the condition it looks up by.
JoinInv ==
  /\ \E q \in Queries : join = q.join
  /\ (Fetching \/ pc = "extract") => Hinted(orig) # {}
  /\ Fetching => BareConditions(join) # {}

\* The lookup's outcome is set when it hands over to the client-side loop.
OutcomeInv ==
  /\ result = [rows |-> result.rows, done |-> result.done]
  /\ pc \notin {"client", "done"} => outcome = "running" /\ result.rows = {}
  /\ outcome = "lookup" =>
       /\ Hinted(orig) # {} /\ BareConditions(join) # {}

\* Pairs the answer owes, and the calls that owe them.
Owed ==
  {p \in steadyOuter \X steadyInner :
     OKey(p[1]) # NULL /\ OKey(p[1]) = IKey(p[2]) /\ (PreHas("Filter") => p[1] \in Passing)}
OwesAll == join.right = "table" /\ ~PreHas("Limit")

Coverage ==
  /\ (pc \in {"inner", "outer", "probe"} /\ OwesAll) => \A p \in Owed : OKey(p[1]) \in keys
  /\ (pc \in {"outer", "probe"} /\ OwesAll) => \A p \in Owed : p[2] \in innerRows
  /\ (pc = "probe" /\ OwesAll) => \A p \in Owed : p[1] \in outerRows
  /\ (outcome = "lookup" /\ Answered /\ OwesAll) => Owed \subseteq result.rows

\* Where the fetched rows and the answer come from.
Provenance ==
  /\ pc \in {"outer", "probe"} =>
       \A i \in innerRows : i \in seenInner /\ IKey(i) # NULL
  /\ pc = "probe" =>
       \A o \in outerRows : o \in seenOuter /\ (PreHas("Filter") => o \in Passing)
  /\ (outcome = "lookup" /\ Answered /\ join.right # "keyless") =>
       \A r \in result.rows :
          /\ r[1] \in seenOuter /\ r[2] \in seenInner
          /\ OKey(r[1]) = IKey(r[2]) /\ OKey(r[1]) # NULL
          /\ PreHas("Filter") => r[1] \in Passing

Inv ==
  /\ TypeOK /\ JoinInv /\ OutcomeInv /\ OnlyJoinSlotRewritten
  /\ Coverage /\ Provenance
-----------------------------------------------------------------------------
(* Lemmas about the operators *)

\* The first element of a non-empty set of naturals is its least element.
LEMMA FirstIsLeast ==
  ASSUME NEW S, S \subseteq Nat, S # {}
  PROVE  First(S) \in S /\ \A y \in S : First(S) <= y
<1>1. PICK x \in S : \A y \in S : <<y, x>> \notin OpToRel(<, Nat)
  BY NatLessThanWellFounded, WFMin, Zenon
<1>2. ASSUME NEW y \in S, y < x PROVE FALSE
  <2>1. <<y, x>> \in OpToRel(<, Nat)
    BY <1>2, Zenon DEF OpToRel
  <2> QED BY <2>1, <1>1
<1>3. \A y \in S : x <= y
  BY <1>2
<1> QED BY <1>3, Zenon DEF First

\* findIndexLookupJoin returns the position of a hinted join, if there is one.
LEMMA JoinSlot ==
  ASSUME orig \in Seq(Stage)
  PROVE  /\ JoinIdx \in 0 .. Len(orig)
         /\ Hinted(orig) # {} => JoinIdx \in Hinted(orig) /\ JoinIdx \in 1 .. Len(orig)
<1>1. Hinted(orig) \subseteq 1 .. Len(orig)
  BY LenProperties DEF Hinted
<1>2. Len(orig) \in Nat
  BY LenProperties
<1>3. CASE Hinted(orig) = {}
  BY <1>2, <1>3 DEF JoinIdx
<1>4. CASE Hinted(orig) # {}
  <2>1. First(Hinted(orig)) \in Hinted(orig)
    BY <1>1, <1>4, FirstIsLeast
  <2> QED BY <1>1, <1>4, <2>1 DEF JoinIdx
<1> QED BY <1>3, <1>4

\* findPostProcBoundary splits the stages at a position of theirs, or after them.
LEMMA SplitInRange ==
  ASSUME NEW ss \in Seq(Stage)
  PROVE  SplitIdx(ss) \in 1 .. Len(ss) + 1
<1>1. Boundaries(ss) \subseteq 1 .. Len(ss)
  BY LenProperties DEF Boundaries
<1>2. Len(ss) \in Nat
  BY LenProperties
<1>3. CASE Boundaries(ss) = {}
  BY <1>2, <1>3 DEF SplitIdx
<1>4. CASE Boundaries(ss) # {}
  <2>1. First(Boundaries(ss)) \in Boundaries(ss)
    BY <1>1, <1>4, FirstIsLeast
  <2> QED BY <1>1, <1>2, <1>4, <2>1 DEF SplitIdx
<1> QED BY <1>3, <1>4

\* An emission changes no stage but for the ONs it takes apart.
LEMMA EmittedStageOps ==
  ASSUME stages \in Seq(Stage), NEW n
  PROVE  /\ Emitted(n) \in Seq(Stage)
         /\ Len(Emitted(n)) = Len(stages)
         /\ \A k \in DOMAIN stages : Emitted(n)[k].op = stages[k].op
<1>1. DOMAIN stages = 1 .. Len(stages) /\ Len(stages) \in Nat /\ stages \in [1 .. Len(stages) -> Stage]
  BY LenProperties
<1>2. EmitConsumesOn \in BOOLEAN
  BY BoundsAssumption
<1>3. ASSUME NEW k \in DOMAIN stages
      PROVE  /\ [stages[k] EXCEPT !.onGone = EmitConsumesOn] \in Stage
             /\ [stages[k] EXCEPT !.onGone = EmitConsumesOn].op = stages[k].op
  <2>1. stages[k] \in Stage
    BY <1>1, <1>3
  <2> QED BY <2>1, <1>2 DEF Stage
<1>4. Emitted(n) \in [1 .. Len(stages) -> Stage]
  BY <1>1, <1>3 DEF Emitted
<1>5. Emitted(n) \in Seq(Stage)
  BY <1>1, <1>4, SeqDef
<1>6. Len(Emitted(n)) = Len(stages)
  BY <1>1, <1>4, <1>5, LenProperties
<1>7. \A k \in DOMAIN stages : Emitted(n)[k].op = stages[k].op
  BY <1>3 DEF Emitted
<1> QED BY <1>5, <1>6, <1>7

\* The distinct goes over the join and nothing else.
LEMMA AppendedStages ==
  ASSUME NEW ss \in Seq(Stage), JoinIdx \in 1 .. Len(ss)
  PROVE  /\ AppendDistinct(ss) \in Seq(Stage)
         /\ Len(AppendDistinct(ss)) = Len(ss)
         /\ \A k \in DOMAIN ss : k # JoinIdx => AppendDistinct(ss)[k] = ss[k]
<1>1. DistinctKey \in Stage
  BY DEF DistinctKey, Stage, StageOp, SqlOnly
<1> QED BY <1>1, ExceptSeq, LenProperties DEF AppendDistinct

\* What the stages before the join hold survives the rewriting of the array.
LEMMA PreJoinHas ==
  ASSUME TypeOK, OnlyJoinSlotRewritten, NEW op
  PROVE  Has(PreJoin, op) <=> PreHas(op)
<1>1. JoinIdx \in 0 .. Len(orig)
  BY JoinSlot DEF TypeOK
<1>2. Len(stages) = Len(orig) /\ Len(orig) \in Nat /\ DOMAIN stages = 1 .. Len(stages)
  BY LenProperties DEF TypeOK
<1>3. \A k \in 1 .. JoinIdx - 1 : stages[k].op = orig[k].op
  BY <1>1, <1>2 DEF OnlyJoinSlotRewritten
<1> QED BY <1>3 DEF Has, PreJoin, Prefix, PreHas

\* What the outer pipeline may return: only rows of the table that the filters let
\* through, and all of those unless a take cuts them short.
LEMMA OuterAnswersBounds ==
  ASSUME NEW ss, NEW rows \in OuterAnswers(ss)
  PROVE  /\ rows \subseteq outer
         /\ Has(ss, "Filter") => rows \subseteq Passing
         /\ ~Has(ss, "Limit") =>
              \A o \in outer : (Has(ss, "Filter") => o \in Passing) => o \in rows
<1> DEFINE kept == IF Has(ss, "Filter") THEN outer \cap Passing ELSE outer
<1>1. OuterAnswers(ss) = IF Has(ss, "Limit") THEN Takes(kept) ELSE {kept}
  BY DEF OuterAnswers
<1>2. rows \subseteq kept /\ (~Has(ss, "Limit") => rows = kept)
  BY <1>1 DEF Takes
<1> QED BY <1>2

\* The lookup condition is one of the ON's, and the keys it compares are values.
LEMMA LookupKeys ==
  ASSUME JoinInv, BareConditions(join) # {}
  PROVE  /\ LookupCond \in BareConditions(join)
         /\ \A o \in OuterRow : OKey(o) \in Value
<1>1. PICK q \in Queries : join = q.join
  BY DEF JoinInv
<1>2. q.join \in Join /\ Len(q.join.on) <= MaxOn
  BY QueryAssumption
<1>3. join.on \in Seq(Condition)
  BY <1>1, <1>2 DEF Join
<1>4. DOMAIN join.on = 1 .. Len(join.on) /\ Len(join.on) \in Nat
  BY <1>3, LenProperties
<1>5. BareConditions(join) \subseteq 1 .. MaxOn
  BY <1>1, <1>2, <1>4, BoundsAssumption DEF BareConditions
<1>6. LookupCond \in BareConditions(join)
  BY <1>5, FirstIsLeast DEF LookupCond
<1>7. \A o \in OuterRow : OKey(o) \in Value
  BY <1>5, <1>6, RowsAssumption DEF OKey
<1> QED BY <1>6, <1>7

\* Operators that depend on the pipeline and the join as they were passed only.
LEMMA Frame ==
  ASSUME UNCHANGED <<join, orig>>
  PROVE  /\ Hinted(orig)' = Hinted(orig) /\ JoinIdx' = JoinIdx
         /\ BareConditions(join)' = BareConditions(join) /\ LookupCond' = LookupCond
         /\ \A op : PreHas(op)' = PreHas(op)
         /\ OwesAll' = OwesAll
<1>1. Hinted(orig)' = Hinted(orig) /\ JoinIdx' = JoinIdx
  BY DEF Hinted, JoinIdx
<1>2. BareConditions(join)' = BareConditions(join) /\ LookupCond' = LookupCond
  BY DEF BareConditions, LookupCond
<1>3. \A op : PreHas(op)' = PreHas(op)
  BY <1>1 DEF PreHas
<1> QED BY <1>1, <1>2, <1>3 DEF OwesAll

-----------------------------------------------------------------------------
(* Every step preserves the invariant *)

\* A call starts with the invariant.
LEMMA InitInv == Init => Inv
<1> SUFFICES ASSUME Init PROVE Inv
  OBVIOUS
<1>1. PICK q \in Queries : stages = q.stages /\ orig = q.stages /\ join = q.join
  BY DEF Init
<1>2. q.stages \in Seq(Stage) /\ q.join \in Join
  BY QueryAssumption
<1>3. TypeOK
  BY <1>1, <1>2, BoundsAssumption DEF Init, TypeOK, RowsTypeOK
<1>4. JoinInv
  BY <1>1 DEF Init, JoinInv, Fetching, Hinted
<1>5. OutcomeInv
  BY DEF Init, OutcomeInv, Empty
<1>6. OnlyJoinSlotRewritten
  BY <1>1 DEF OnlyJoinSlotRewritten
<1>7. Coverage /\ Provenance
  BY DEF Init, Coverage, Provenance, Answered
<1> QED BY <1>3, <1>4, <1>5, <1>6, <1>7 DEF Inv

\* Entering reads the stages only: a lookup starts with a hinted join.
LEMMA EnterInv == Inv /\ Enter => Inv'
<1> SUFFICES ASSUME Inv, Enter PROVE Inv'
  OBVIOUS
<1> USE DEF Inv, Enter, Goto, database, fetched
<1>0. UNCHANGED <<join, orig>>
  OBVIOUS
<1>1. TypeOK'
  BY DEF TypeOK, RowsTypeOK
<1>2. JoinInv'
  BY <1>0, Frame, JoinSlot DEF JoinInv, Fetching, TypeOK, JoinIdx
<1>3. OutcomeInv'
  BY <1>0, Frame DEF OutcomeInv
<1>4. OnlyJoinSlotRewritten'
  BY <1>0, Frame DEF OnlyJoinSlotRewritten
<1>5. Coverage' /\ Provenance'
  BY DEF Coverage, Provenance, Answered
<1> QED BY <1>1, <1>2, <1>3, <1>4, <1>5

\* Extracting goes on to the key fetch only with a bare condition to look up by.
LEMMA ExtractKeysInv == Inv /\ ExtractKeys => Inv'
<1> SUFFICES ASSUME Inv, ExtractKeys PROVE Inv'
  OBVIOUS
<1> USE DEF Inv, ExtractKeys, Goto, database, fetched
<1>0. UNCHANGED <<join, orig>>
  OBVIOUS
<1>1. TypeOK'
  BY DEF TypeOK, RowsTypeOK
<1>2. JoinInv'
  BY <1>0, Frame DEF JoinInv, Fetching
<1>3. OutcomeInv'
  BY <1>0, Frame DEF OutcomeInv
<1>4. OnlyJoinSlotRewritten'
  BY <1>0, Frame DEF OnlyJoinSlotRewritten
<1>5. Coverage' /\ Provenance'
  BY DEF Coverage, Provenance, Answered
<1> QED BY <1>1, <1>2, <1>3, <1>4, <1>5

\* The keys are fetched from the rows the outer pipeline may return, so they hold
\* the key of every row that stands still.
LEMMA FetchOuterKeysInv == Inv /\ FetchOuterKeys => Inv'
<1> SUFFICES ASSUME Inv, FetchOuterKeys PROVE Inv'
  OBVIOUS
<1> USE DEF Inv, Goto, database, fetched
<1>0. UNCHANGED <<database, join, innerRows, outerRows, orig>> /\ pc = "keys"
  BY DEF FetchOuterKeys
<1>1. /\ Hinted(orig) # {} /\ BareConditions(join) # {}
      /\ outcome = "running" /\ result.rows = {}
  BY <1>0 DEF JoinInv, OutcomeInv, Fetching
<1>2. stages' \in Seq(Stage) /\ Len(stages') = Len(stages)
      /\ \A k \in DOMAIN stages : k # JoinIdx => stages'[k].op = stages[k].op
  <2>1. stages' = AppendDistinct(Emitted(JoinIdx - 1))
    BY DEF FetchOuterKeys
  <2>2. JoinIdx \in 1 .. Len(stages)
    BY <1>1, JoinSlot DEF TypeOK
  <2>3. DOMAIN Emitted(JoinIdx - 1) = DOMAIN stages
    BY DEF Emitted
  <2> QED BY <2>1, <2>2, <2>3, EmittedStageOps, AppendedStages DEF TypeOK
<1>3. \/ /\ pc' = "normal" /\ UNCHANGED <<result, outcome, at>>
         /\ keys' \subseteq Value
      \/ /\ \E rows \in OuterAnswers(PreJoin) : keys' = {OKey(o) : o \in rows}
         /\ UNCHANGED <<result, at>>
         /\ \/ pc' = "done" /\ outcome' = "lookup" /\ keys' = {}
            \/ pc' = "normal" /\ outcome' = outcome
            \/ pc' = "inner" /\ outcome' = outcome
  BY DEF FetchOuterKeys, TypeOK, RowsTypeOK
<1>4. keys' \subseteq Value
  <2>1. ASSUME NEW rows \in OuterAnswers(PreJoin), keys' = {OKey(o) : o \in rows}
        PROVE  keys' \subseteq Value
    <3>1. rows \subseteq OuterRow
      BY OuterAnswersBounds DEF TypeOK, RowsTypeOK
    <3> QED BY <2>1, <3>1, <1>1, LookupKeys
  <2> QED BY <1>3, <2>1
<1>5. TypeOK'
  BY <1>0, <1>2, <1>3, <1>4 DEF TypeOK, RowsTypeOK
<1>6. JoinInv'
  BY <1>0, <1>1, <1>3, Frame DEF JoinInv, Fetching
<1>7. OutcomeInv'
  BY <1>0, <1>1, <1>3, Frame DEF OutcomeInv
<1>8. OnlyJoinSlotRewritten'
  BY <1>0, <1>2, Frame, LenProperties DEF OnlyJoinSlotRewritten, TypeOK
<1>9. ASSUME OwesAll, pc' \in {"inner", "done"}, NEW p \in Owed
      PROVE  OKey(p[1]) \in keys'
  <2>1. PICK rows \in OuterAnswers(PreJoin) : keys' = {OKey(o) : o \in rows}
    BY <1>3, <1>9
  <2>2. p[1] \in outer /\ (PreHas("Filter") => p[1] \in Passing)
    BY <1>9 DEF Owed, TypeOK, RowsTypeOK
  <2>3. p[1] \in rows
    BY <2>2, <1>9, OuterAnswersBounds, PreJoinHas DEF OwesAll
  <2> QED BY <2>1, <2>3
<1>10. Owed' = Owed
  BY <1>0, Frame DEF Owed, OKey, IKey
<1>11. Coverage'
  BY <1>0, <1>1, <1>3, <1>9, <1>10, Frame DEF Coverage, Answered, OKey
<1>12. Provenance'
  BY <1>0, <1>1, <1>3, Frame DEF Provenance, Answered
<1> QED BY <1>5, <1>6, <1>7, <1>8, <1>11, <1>12

\* The inner rows fetched are those whose key is among the fetched ones, as the
\* inner table is now: a stable match is among them.
LEMMA FetchInnerByKeysInv == Inv /\ FetchInnerByKeys => Inv'
<1> SUFFICES ASSUME Inv, FetchInnerByKeys PROVE Inv'
  OBVIOUS
<1> USE DEF Inv, Goto, database, fetched
<1>0. /\ UNCHANGED <<database, stages, join, keys, outerRows, result, outcome, at, orig>>
      /\ pc = "inner" /\ pc' \in {"normal", "outer"}
      /\ outcome = "running" /\ BareConditions(join) # {} /\ Hinted(orig) # {}
  BY DEF FetchInnerByKeys, OutcomeInv, JoinInv, Fetching
<1>1. \/ pc' = "normal" /\ innerRows' = innerRows
      \/ /\ pc' = "outer"
         /\ innerRows' \subseteq {i \in inner : InKeys(i)}
         /\ join.right = "table" => innerRows' = {i \in inner : InKeys(i)}
  BY DEF FetchInnerByKeys, InnerAnswers, Takes
<1>2. TypeOK'
  BY <1>0, <1>1 DEF TypeOK, RowsTypeOK
<1>3. JoinInv'
  BY <1>0, Frame DEF JoinInv, Fetching
<1>4. OutcomeInv'
  BY <1>0, Frame DEF OutcomeInv
<1>5. OnlyJoinSlotRewritten'
  BY <1>0, Frame DEF OnlyJoinSlotRewritten
<1>6. ASSUME OwesAll, pc' = "outer", NEW p \in Owed
      PROVE  p[2] \in innerRows'
  <2>1. innerRows' = {i \in inner : InKeys(i)}
    BY <1>1, <1>6 DEF OwesAll
  <2>2. p[2] \in inner /\ OKey(p[1]) = IKey(p[2]) /\ OKey(p[1]) # NULL
    BY <1>6 DEF Owed, TypeOK, RowsTypeOK
  <2>3. OKey(p[1]) \in keys
    BY <1>0, <1>6 DEF Coverage
  <2> QED BY <2>1, <2>2, <2>3 DEF InKeys
<1>7. Owed' = Owed
  BY <1>0, Frame DEF Owed, OKey, IKey
<1>8. Coverage'
  BY <1>0, <1>6, <1>7, Frame DEF Coverage, Answered, OKey
<1>9. Provenance'
  BY <1>0, <1>1, Frame DEF Provenance, Answered, InKeys, IKey, TypeOK, RowsTypeOK
<1> QED BY <1>2, <1>3, <1>4, <1>5, <1>8, <1>9

\* The outer rows are read from the stages before the join, whose slots the distinct
\* did not touch, so every owed row that stands still is among them.
LEMMA ExecOuterPipelineInv == Inv /\ ExecOuterPipeline => Inv'
<1> SUFFICES ASSUME Inv, ExecOuterPipeline PROVE Inv'
  OBVIOUS
<1> USE DEF Inv, Goto, database, fetched
<1>0. /\ UNCHANGED <<database, join, keys, innerRows, result, outcome, at, orig>>
      /\ pc = "outer" /\ pc' \in {"normal", "probe"}
      /\ outcome = "running" /\ BareConditions(join) # {} /\ Hinted(orig) # {}
  BY DEF ExecOuterPipeline, OutcomeInv, JoinInv, Fetching
<1>1. stages' \in Seq(Stage) /\ Len(stages') = Len(stages)
      /\ \A k \in DOMAIN stages : stages'[k].op = stages[k].op
  BY EmittedStageOps DEF ExecOuterPipeline, TypeOK
<1>2. \/ pc' = "normal" /\ outerRows' = outerRows
      \/ pc' = "probe" /\ outerRows' \in OuterAnswers(PreJoin)
  BY DEF ExecOuterPipeline
<1>3. pc' = "probe" =>
        /\ outerRows' \subseteq outer
        /\ PreHas("Filter") => outerRows' \subseteq Passing
        /\ ~PreHas("Limit") =>
             \A o \in outer : (PreHas("Filter") => o \in Passing) => o \in outerRows'
  BY <1>2, OuterAnswersBounds, PreJoinHas
<1>4. TypeOK'
  BY <1>0, <1>1, <1>2, <1>3 DEF TypeOK, RowsTypeOK
<1>5. JoinInv'
  BY <1>0, Frame DEF JoinInv, Fetching
<1>6. OutcomeInv'
  BY <1>0, Frame DEF OutcomeInv
<1>7. OnlyJoinSlotRewritten'
  BY <1>0, <1>1, Frame, LenProperties DEF OnlyJoinSlotRewritten, TypeOK
<1>8. Owed' = Owed
  BY <1>0, Frame DEF Owed, OKey, IKey
<1>9. Coverage'
  <2>1. ASSUME OwesAll, pc' = "probe", NEW p \in Owed PROVE p[1] \in outerRows'
    BY <2>1, <1>3 DEF Owed, OwesAll, TypeOK, RowsTypeOK
  <2> QED BY <1>0, <1>8, <2>1, Frame DEF Coverage, Answered, OKey
<1>10. Provenance'
  BY <1>0, <1>3, Frame DEF Provenance, Answered, IKey, TypeOK, RowsTypeOK
<1> QED BY <1>4, <1>5, <1>6, <1>7, <1>9, <1>10

\* Probing pairs exactly the fetched rows that agree on the key.
LEMMA HashJoinByKeyInv == Inv /\ HashJoinByKey => Inv'
<1> SUFFICES ASSUME Inv, HashJoinByKey PROVE Inv'
  OBVIOUS
<1> USE DEF Inv, Goto, database, fetched
<1>0. /\ UNCHANGED <<database, stages, join, fetched, orig>>
      /\ pc = "probe" /\ pc' = "client" /\ outcome' = "lookup"
      /\ BareConditions(join) # {} /\ Hinted(orig) # {}
      /\ result' = [rows |-> HashJoin(outerRows, innerRows),
                    done |-> EmittedStages(Prefix(stages, JoinIdx))]
      /\ at' = JoinIdx + 1
  BY DEF HashJoinByKey, StartClient, JoinInv, Fetching
<1>1. result'.rows = HashJoin(outerRows, innerRows)
  BY <1>0
<1>2. TypeOK'
  BY <1>0, JoinSlot DEF TypeOK, RowsTypeOK
<1>3. JoinInv'
  BY <1>0, Frame DEF JoinInv, Fetching
<1>4. OutcomeInv'
  BY <1>0, Frame DEF OutcomeInv
<1>5. OnlyJoinSlotRewritten'
  BY <1>0, Frame DEF OnlyJoinSlotRewritten
<1>6. Owed' = Owed
  BY <1>0, Frame DEF Owed, OKey, IKey
<1>7. Coverage'
  <2>1. ASSUME OwesAll, NEW p \in Owed PROVE p \in HashJoin(outerRows, innerRows)
    <3>1. p[1] \in outerRows /\ p[2] \in innerRows
      BY <1>0, <2>1 DEF Coverage
    <3>2. p = <<p[1], p[2]>> /\ OKey(p[1]) = IKey(p[2])
      BY <2>1 DEF Owed
    <3> QED BY <3>1, <3>2, <2>1 DEF HashJoin, OwesAll
  <2> QED BY <1>0, <1>1, <1>6, <2>1, Frame DEF Coverage, Answered
<1>8. Provenance'
  <2>1. ASSUME join.right # "keyless", NEW r \in HashJoin(outerRows, innerRows)
        PROVE  /\ r[1] \in seenOuter /\ r[2] \in seenInner
               /\ OKey(r[1]) = IKey(r[2]) /\ OKey(r[1]) # NULL
               /\ PreHas("Filter") => r[1] \in Passing
    <3>1. r[1] \in outerRows /\ r[2] \in innerRows /\ OKey(r[1]) = IKey(r[2])
      BY <2>1 DEF HashJoin
    <3> QED BY <1>0, <3>1 DEF Provenance
  <2> QED BY <1>0, <1>1, <2>1, Frame DEF Provenance, Answered, OKey, IKey
<1> QED BY <1>2, <1>3, <1>4, <1>5, <1>7, <1>8

\* Applying stages client-side keeps the rows the SQL region answered.
LEMMA ApplyPostProcInv == Inv /\ ApplyPostProc => Inv'
<1> SUFFICES ASSUME Inv, ApplyPostProc PROVE Inv'
  OBVIOUS
<1> USE DEF Inv, Goto, database, fetched
<1>0. /\ UNCHANGED <<database, stages, join, fetched, outcome, orig>>
      /\ pc = "client" /\ pc' \in {"client", "done"}
      /\ at' \in {at, at + 1}
      /\ \/ result' = result
         \/ result' = [result EXCEPT !.done = Append(@, at)]
  BY DEF ApplyPostProc
<1>1. result'.rows = result.rows /\ result' = [rows |-> result'.rows, done |-> result'.done]
  BY <1>0 DEF OutcomeInv
<1>2. TypeOK'
  BY <1>0 DEF TypeOK, RowsTypeOK
<1>3. JoinInv'
  BY <1>0, Frame DEF JoinInv, Fetching
<1>4. OutcomeInv'
  BY <1>0, <1>1, Frame DEF OutcomeInv
<1>5. OnlyJoinSlotRewritten'
  BY <1>0, Frame DEF OnlyJoinSlotRewritten
<1>6. Owed' = Owed
  BY <1>0, Frame DEF Owed, OKey, IKey
<1>7. Coverage'
  BY <1>0, <1>1, <1>6, Frame DEF Coverage, Answered
<1>8. Provenance'
  BY <1>0, <1>1, Frame DEF Provenance, Answered, OKey, IKey
<1> QED BY <1>2, <1>3, <1>4, <1>5, <1>7, <1>8

\* The normal path answers with another outcome, and rewrites no stage.
LEMMA ExecNormalInv == Inv /\ ExecNormal => Inv'
<1> SUFFICES ASSUME Inv, ExecNormal PROVE Inv'
  OBVIOUS
<1> USE DEF Inv, Goto, database, fetched
<1> DEFINE split == SplitIdx(stages)
<1>0. /\ UNCHANGED <<database, join, fetched, orig>>
      /\ stages' = Emitted(split - 1)
      /\ pc' \in {"client", "done"} /\ outcome' \in {"normal", "rejected", "failed"}
      /\ \/ UNCHANGED <<result, at>>
         \/ \E rows : StartClient(rows, split - 1)
  BY DEF ExecNormal
<1>1. split \in 1 .. Len(stages) + 1 /\ Len(stages) \in Nat
  BY SplitInRange, LenProperties DEF TypeOK
<1>2. stages' \in Seq(Stage) /\ Len(stages') = Len(stages)
      /\ \A k \in DOMAIN stages : stages'[k].op = stages[k].op
  BY <1>0, EmittedStageOps DEF TypeOK
<1>3. at' \in Nat /\ result' = [rows |-> result'.rows, done |-> result'.done]
  <2>1. ASSUME NEW rows, StartClient(rows, split - 1)
        PROVE  at' \in Nat /\ result' = [rows |-> result'.rows, done |-> result'.done]
    BY <1>1, <2>1 DEF StartClient
  <2> QED BY <1>0, <2>1 DEF TypeOK, OutcomeInv
<1>4. TypeOK'
  BY <1>0, <1>2, <1>3 DEF TypeOK, RowsTypeOK
<1>5. JoinInv'
  BY <1>0, Frame DEF JoinInv, Fetching
<1>6. OutcomeInv'
  BY <1>0, <1>3 DEF OutcomeInv
<1>7. OnlyJoinSlotRewritten'
  BY <1>0, <1>2, Frame, LenProperties DEF OnlyJoinSlotRewritten, TypeOK
<1>8. Coverage' /\ Provenance'
  BY <1>0 DEF Coverage, Provenance
<1> QED BY <1>4, <1>5, <1>6, <1>7, <1>8

\* A write may only shrink what stood still and grow what was seen.
LEMMA WriteInv == Inv /\ (WriteOuter \/ WriteInner) => Inv'
<1> SUFFICES ASSUME Inv, WriteOuter \/ WriteInner PROVE Inv'
  OBVIOUS
<1> USE DEF Inv, Goto, database, fetched
<1>0. /\ UNCHANGED <<stages, join, pc, keys, innerRows, outerRows, result, outcome, at, orig>>
      /\ steadyOuter' \subseteq steadyOuter /\ steadyInner' \subseteq steadyInner
      /\ seenOuter \subseteq seenOuter' /\ seenInner \subseteq seenInner'
  BY DEF WriteOuter, WriteInner
<1>1. TypeOK'
  <2>1. CASE WriteOuter
    <3>1. outer' \subseteq OuterRow
      BY <2>1 DEF WriteOuter, Toggle, TypeOK, RowsTypeOK
    <3>2. writes' \in 0 .. MaxWrites
      BY <2>1, BoundsAssumption DEF WriteOuter, TypeOK
    <3> QED BY <2>1, <3>1, <3>2 DEF WriteOuter, TypeOK, RowsTypeOK
  <2>2. CASE WriteInner
    <3>1. inner' \subseteq InnerRow
      BY <2>2 DEF WriteInner, Toggle, TypeOK, RowsTypeOK
    <3>2. writes' \in 0 .. MaxWrites
      BY <2>2, BoundsAssumption DEF WriteInner, TypeOK
    <3> QED BY <2>2, <3>1, <3>2 DEF WriteInner, TypeOK, RowsTypeOK
  <2> QED BY <2>1, <2>2
<1>2. JoinInv'
  BY <1>0, Frame DEF JoinInv, Fetching
<1>3. OutcomeInv'
  BY <1>0, Frame DEF OutcomeInv
<1>4. OnlyJoinSlotRewritten'
  BY <1>0, Frame DEF OnlyJoinSlotRewritten
<1>5. Owed' \subseteq Owed
  BY <1>0, Frame DEF Owed, OKey, IKey
<1>6. Coverage'
  BY <1>0, <1>5, Frame DEF Coverage, Answered, OKey
<1>7. Provenance'
  BY <1>0, Frame DEF Provenance, Answered, OKey, IKey
<1> QED BY <1>1, <1>2, <1>3, <1>4, <1>6, <1>7

\* The invariant is inductive.
LEMMA NextInv == Inv /\ [Next]_vars => Inv'
<1> SUFFICES ASSUME Inv, [Next]_vars PROVE Inv'
  OBVIOUS
<1>1. CASE UNCHANGED vars
  <2>0. UNCHANGED <<join, orig, stages, result, outcome, pc, database, fetched, at>>
    BY <1>1 DEF vars
  <2>1. Owed' = Owed
    BY <2>0, Frame DEF Owed, OKey, IKey, database
  <2>2. TypeOK' /\ OutcomeInv' /\ OnlyJoinSlotRewritten'
    BY <2>0, Frame DEF Inv, TypeOK, RowsTypeOK, OutcomeInv, OnlyJoinSlotRewritten, database, fetched
  <2>3. JoinInv'
    BY <2>0, Frame DEF Inv, JoinInv, Fetching
  <2>4. Coverage'
    BY <2>0, <2>1, Frame DEF Inv, Coverage, Answered, OKey, fetched
  <2>5. Provenance'
    BY <2>0, Frame DEF Inv, Provenance, Answered, OKey, IKey, database, fetched
  <2> QED BY <2>2, <2>3, <2>4, <2>5 DEF Inv
<1> QED
  BY <1>1, EnterInv, ExtractKeysInv, FetchOuterKeysInv, FetchInnerByKeysInv,
     ExecOuterPipelineInv, HashJoinByKeyInv, ApplyPostProcInv, ExecNormalInv, WriteInv
  DEF Next, Call

-----------------------------------------------------------------------------
(* Theorems *)

\* The invariant holds in every behaviour.
THEOREM Invariance == Spec => []Inv
  BY InitInv, NextInv, PTL DEF Spec

\* Every variable of a call keeps its type, whatever the pipeline, the tables and
\* the writes (ExecPipeline and execIndexLookup).
THEOREM TypeCorrect == Spec => []TypeOK
<1>1. Inv => TypeOK
  BY DEF Inv
<1> QED BY <1>1, Invariance, PTL

\* fetchOuterKeys rewrites the caller's array in the join's slot and nowhere else.
THEOREM RewriteIsLocal == Spec => []OnlyJoinSlotRewritten
<1>1. Inv => OnlyJoinSlotRewritten
  BY DEF Inv
<1> QED BY <1>1, Invariance, PTL

\* The lookup's answer holds every pair of rows that matches on the lookup key and
\* stood still during the call, for any number of concurrent writes.
THEOREM LookupComplete == Spec => []NoStableMatchLost
<1>1. Inv => NoStableMatchLost
  <2> SUFFICES ASSUME Inv, outcome = "lookup", Answered, join.right = "table",
                      ~Has(PreJoin, "Limit")
               PROVE  StablePairs \subseteq result.rows
    BY DEF NoStableMatchLost
  <2>1. StablePairs = Owed
    BY PreJoinHas DEF Inv, StablePairs, Owed
  <2>2. OwesAll
    BY PreJoinHas DEF Inv, OwesAll
  <2> QED BY <2>1, <2>2 DEF Inv, Coverage
<1> QED BY <1>1, Invariance, PTL

\* And every pair in it agrees on a key that is not NULL and comes from rows that
\* were there at some time of the call, filtered as the pipeline says.
THEOREM LookupSound == Spec => []NoPhantomPair
<1>1. Inv => NoPhantomPair
  BY PreJoinHas DEF Inv, NoPhantomPair, Provenance
<1> QED BY <1>1, Invariance, PTL

-----------------------------------------------------------------------------
(* What went through which stage *)

\* s lists stages of the first n in order, every one of them that reaches SQL included.
Lists(s, ss, n) ==
  /\ s \in Seq(Nat)
  /\ \A a, b \in DOMAIN s : a < b => s[a] < s[b]
  /\ \A d \in DOMAIN s : s[d] <= n
  /\ \A k \in 1 .. n : ~ IsBoundary(ss[k]) => \E d \in DOMAIN s : s[d] = k

\* Going on with a later stage keeps the order.
LEMMA AppendKeepsOrder ==
  ASSUME NEW s \in Seq(Nat), \A a, b \in DOMAIN s : a < b => s[a] < s[b],
         NEW n \in Nat, \A d \in DOMAIN s : s[d] < n
  PROVE  /\ Append(s, n) \in Seq(Nat)
         /\ \A a, b \in DOMAIN Append(s, n) : a < b => Append(s, n)[a] < Append(s, n)[b]
         /\ \A d \in DOMAIN Append(s, n) : Append(s, n)[d] <= n
         /\ \E d \in DOMAIN Append(s, n) : Append(s, n)[d] = n
         /\ \A k : (\E d \in DOMAIN s : s[d] = k) => \E d \in DOMAIN Append(s, n) : Append(s, n)[d] = k
<1> DEFINE t == Append(s, n)
<1>1. /\ t \in Seq(Nat) /\ Len(s) \in Nat /\ DOMAIN s = 1 .. Len(s) /\ DOMAIN t = 1 .. Len(s) + 1
      /\ \A d \in 1 .. Len(s) : t[d] = s[d] /\ s[d] \in Nat
      /\ t[Len(s) + 1] = n
  BY AppendProperties, LenProperties
<1> HIDE DEF t
<1>2. ASSUME NEW d \in DOMAIN t PROVE t[d] <= n
  <2>1. CASE d \in 1 .. Len(s)
    <3>1. s[d] < n /\ s[d] \in Nat /\ t[d] = s[d]
      BY <1>1, <2>1
    <3> QED BY <3>1
  <2>2. CASE d = Len(s) + 1
    BY <1>1, <2>2
  <2> QED BY <1>1, <2>1, <2>2
<1>3. ASSUME NEW a \in DOMAIN t, NEW b \in DOMAIN t, a < b PROVE t[a] < t[b]
  <2>1. a \in DOMAIN s
    BY <1>1, <1>3
  <2>2. CASE b \in DOMAIN s
    BY <1>1, <1>3, <2>1, <2>2
  <2>3. CASE b = Len(s) + 1
    BY <1>1, <2>1, <2>3
  <2> QED BY <1>1, <2>2, <2>3
<1>4. Len(s) + 1 \in DOMAIN t
  BY <1>1
<1>5. ASSUME NEW k, NEW d \in DOMAIN s, s[d] = k PROVE \E e \in DOMAIN t : t[e] = k
  <2>1. d \in DOMAIN t /\ t[d] = k
    BY <1>1, <1>5
  <2> QED BY <2>1
<1> QED BY <1>1, <1>2, <1>3, <1>4, <1>5 DEF t

\* The function EmittedStages computes: the stages up to each that reach SQL.
EmittedUpTo(ss) ==
  CHOOSE g : g = [k \in 0 .. Len(ss) |->
                   IF k = 0 THEN <<>> ELSE IF IsBoundary(ss[k]) THEN g[k - 1] ELSE Append(g[k - 1], k)]

\* Each stage goes behind those before it unless it is a boundary.
LEMMA EmittedUnfolds ==
  ASSUME NEW ss, Len(ss) \in Nat
  PROVE  /\ EmittedStages(ss) = EmittedUpTo(ss)[Len(ss)]
         /\ EmittedUpTo(ss)[0] = <<>>
         /\ \A k \in 1 .. Len(ss) :
              EmittedUpTo(ss)[k] =
                IF IsBoundary(ss[k]) THEN EmittedUpTo(ss)[k - 1] ELSE Append(EmittedUpTo(ss)[k - 1], k)
<1> DEFINE n == Len(ss)
           X == Seq(Nat)
           T == [k \in 1 .. n |-> [x \in X |-> IF IsBoundary(ss[k]) THEN x ELSE Append(x, k)]]
           F(g) == g = [k \in 0 .. n |->
                         IF k = 0 THEN <<>>
                         ELSE IF IsBoundary(ss[k]) THEN g[k - 1] ELSE Append(g[k - 1], k)]
           f == EmittedUpTo(ss)
<1>1. T \in [1 .. n -> [X -> X]]
  BY AppendProperties
<1>2. <<>> \in X
  BY EmptySeq
<1>3. PICK g : Iterates(g, X, n, <<>>, T)
  <2> HIDE DEF X, T
  <2> QED BY <1>1, <1>2, Iteration
<1>4. ASSUME NEW k \in 1 .. n
      PROVE  g[k] = IF IsBoundary(ss[k]) THEN g[k - 1] ELSE Append(g[k - 1], k)
  <2>1. g[k - 1] \in X
    <3> HIDE DEF X, T
    <3> QED BY <1>3 DEF Iterates
  <2>2. T[k] = [x \in X |-> IF IsBoundary(ss[k]) THEN x ELSE Append(x, k)]
    OBVIOUS
  <2> HIDE DEF X, T
  <2> QED BY <1>3, <2>1, <2>2 DEF Iterates
<1>5. F(g)
  <2> HIDE DEF X, T
  <2>1. ASSUME NEW k \in 0 .. n
        PROVE  g[k] = IF k = 0 THEN <<>>
                      ELSE IF IsBoundary(ss[k]) THEN g[k - 1] ELSE Append(g[k - 1], k)
    <3>1. k = 0 \/ k \in 1 .. n
      OBVIOUS
    <3> QED BY <1>3, <1>4, <3>1 DEF Iterates
  <2> QED BY <1>3, <2>1 DEF Iterates
<1>6. F(f)
  <2>1. f = CHOOSE h : F(h)
    BY DEF EmittedUpTo
  <2> HIDE DEF F, f
  <2> QED BY <1>5, <2>1
<1>7. /\ f[0] = <<>>
      /\ \A k \in 1 .. n : f[k] = IF IsBoundary(ss[k]) THEN f[k - 1] ELSE Append(f[k - 1], k)
  <2> HIDE DEF f
  <2>1. \A k \in 0 .. n : f[k] = IF k = 0 THEN <<>>
                                 ELSE IF IsBoundary(ss[k]) THEN f[k - 1] ELSE Append(f[k - 1], k)
    BY <1>6
  <2>2. f[0] = <<>>
    BY <2>1
  <2>3. ASSUME NEW k \in 1 .. n
        PROVE  f[k] = IF IsBoundary(ss[k]) THEN f[k - 1] ELSE Append(f[k - 1], k)
    <3>1. k \in 0 .. n /\ k # 0
      OBVIOUS
    <3> QED BY <2>1, <3>1
  <2> QED BY <2>2, <2>3
<1>8. EmittedStages(ss) = f[n]
  BY DEF EmittedStages, EmittedUpTo
<1> QED BY <1>7, <1>8, Zenon

\* A statement lists the stages it holds.
LEMMA EmittedLists ==
  ASSUME NEW ss, Len(ss) \in Nat
  PROVE  Lists(EmittedStages(ss), ss, Len(ss))
<1> DEFINE f == EmittedUpTo(ss)
           S == {m \in Nat : m <= Len(ss) => Lists(f[m], ss, m)}
<1>1. /\ EmittedStages(ss) = f[Len(ss)] /\ f[0] = <<>>
      /\ \A k \in 1 .. Len(ss) : f[k] = IF IsBoundary(ss[k]) THEN f[k - 1] ELSE Append(f[k - 1], k)
  BY EmittedUnfolds, Zenon
<1> HIDE DEF f
<1>2. 0 \in S
  <2>1. <<>> \in Seq(Nat) /\ DOMAIN <<>> = {}
    OBVIOUS
  <2>2. Lists(<<>>, ss, 0)
    BY <2>1 DEF Lists
  <2> QED BY <1>1, <2>2
<1>3. ASSUME NEW m \in Nat, m \in S PROVE m + 1 \in S
  <2> SUFFICES ASSUME m + 1 <= Len(ss) PROVE Lists(f[m + 1], ss, m + 1)
    OBVIOUS
  <2>1. m + 1 \in 1 .. Len(ss) /\ (m + 1) - 1 = m /\ m <= Len(ss)
    BY <1>3
  <2>2. Lists(f[m], ss, m)
    BY <1>3, <2>1
  <2>3. f[m + 1] = IF IsBoundary(ss[m + 1]) THEN f[m] ELSE Append(f[m], m + 1)
    BY <1>1, <2>1
  <2>4. CASE IsBoundary(ss[m + 1])
    <3>1. f[m + 1] = f[m]
      BY <2>3, <2>4
    <3>2. \A d \in DOMAIN f[m] : f[m][d] <= m + 1
      BY <2>2, LenProperties DEF Lists
    <3>3. ASSUME NEW k \in 1 .. m + 1, ~ IsBoundary(ss[k]) PROVE k \in 1 .. m
      BY <2>4, <3>3
    <3> QED BY <2>2, <3>1, <3>2, <3>3 DEF Lists
  <2>5. CASE ~ IsBoundary(ss[m + 1])
    <3>1. f[m + 1] = Append(f[m], m + 1)
      BY <2>3, <2>5
    <3>2. \A d \in DOMAIN f[m] : f[m][d] < m + 1
      BY <2>2, LenProperties DEF Lists
    <3>3. /\ Append(f[m], m + 1) \in Seq(Nat)
          /\ \A a, b \in DOMAIN Append(f[m], m + 1) : a < b => Append(f[m], m + 1)[a] < Append(f[m], m + 1)[b]
          /\ \A d \in DOMAIN Append(f[m], m + 1) : Append(f[m], m + 1)[d] <= m + 1
          /\ \E d \in DOMAIN Append(f[m], m + 1) : Append(f[m], m + 1)[d] = m + 1
          /\ \A k : (\E d \in DOMAIN f[m] : f[m][d] = k)
                   => \E d \in DOMAIN Append(f[m], m + 1) : Append(f[m], m + 1)[d] = k
      <4>1. f[m] \in Seq(Nat) /\ (\A a, b \in DOMAIN f[m] : a < b => f[m][a] < f[m][b]) /\ m + 1 \in Nat
        BY <2>2 DEF Lists
      <4> QED BY <3>2, <4>1, AppendKeepsOrder, Zenon
    <3>4. ASSUME NEW k \in 1 .. m + 1, ~ IsBoundary(ss[k])
          PROVE  \E d \in DOMAIN Append(f[m], m + 1) : Append(f[m], m + 1)[d] = k
      <4>1. CASE k = m + 1
        BY <3>3, <4>1, Zenon
      <4>2. CASE k \in 1 .. m
        BY <2>2, <3>3, <3>4, <4>2, Zenon DEF Lists
      <4> QED BY <4>1, <4>2
    <3> QED BY <3>1, <3>3, <3>4, Zenon DEF Lists
  <2> QED BY <2>4, <2>5
<1>4. Nat \subseteq S
  <2> HIDE DEF S
  <2> QED BY <1>2, <1>3, SetInduction
<1> QED BY <1>1, <1>4

\* What has been done so far, and what of the pipeline it leaves to do.
DoneInv ==
  /\ result.done \in Seq(Nat)
  /\ \A a, b \in DOMAIN result.done : a < b => result.done[a] < result.done[b]
  /\ pc \notin {"client", "done"} => result.done = <<>>
  /\ pc = "client" =>
       /\ at >= 1
       /\ \A d \in DOMAIN result.done : result.done[d] < at
       /\ outcome = "normal" => at >= SplitIdx(stages)
  /\ (pc \in {"client", "done"} /\ outcome = "normal") =>
       \A k \in 1 .. Len(stages) :
          (k < SplitIdx(stages) \/ ClientRuns(stages[k])) =>
             \/ pc = "client" /\ k >= at
             \/ \E d \in DOMAIN result.done : result.done[d] = k
  /\ pc \in {"client", "done"} => outcome # "running"

\* Before the fallback nothing but the key fetch has taken an ON apart, and it did so in
\* front of the hinted join only.
GoneInv ==
  /\ pc \notin {"client", "done"} =>
       \A k \in 1 .. Len(stages) :
          stages[k].onGone => EmitConsumesOn /\ k \in 1 .. JoinIdx - 1 /\ IsJoin(orig[k])
  /\ RejectedOnlyBehindJoin

CallInv == Inv /\ DoneInv /\ GoneInv

\* Stages of the same operators are split at the same place.
LEMMA SplitDecided ==
  ASSUME NEW ss \in Seq(Stage), NEW tt \in Seq(Stage), Len(ss) = Len(tt),
         \A k \in 1 .. Len(ss) : ss[k].op = tt[k].op
  PROVE  SplitIdx(ss) = SplitIdx(tt)
<1>1. DOMAIN ss = 1 .. Len(ss) /\ DOMAIN tt = 1 .. Len(ss)
  BY LenProperties
<1>2. Boundaries(ss) = Boundaries(tt)
  BY <1>1 DEF Boundaries, IsBoundary
<1> QED BY <1>2 DEF SplitIdx

\* No stage in front of the split is a boundary.
LEMMA BoundaryBehind ==
  ASSUME NEW ss \in Seq(Stage), NEW k \in 1 .. Len(ss), k < SplitIdx(ss)
  PROVE  ~ IsBoundary(ss[k])
<1>1. DOMAIN ss = 1 .. Len(ss) /\ Len(ss) \in Nat
  BY LenProperties
<1>2. Boundaries(ss) \subseteq Nat
  BY <1>1 DEF Boundaries
<1>3. SUFFICES ASSUME k \in Boundaries(ss) PROVE FALSE
  BY <1>1 DEF Boundaries
<1>4. SplitIdx(ss) = First(Boundaries(ss))
  BY <1>3 DEF SplitIdx
<1>5. First(Boundaries(ss)) \in Nat /\ First(Boundaries(ss)) <= k
  BY <1>2, <1>3, FirstIsLeast
<1> QED BY <1>4, <1>5

\* A prefix of the stages lists them.
LEMMA PrefixListed ==
  ASSUME TypeOK, NEW n \in 0 .. Len(stages)
  PROVE  Lists(EmittedStages(Prefix(stages, n)), Prefix(stages, n), n)
<1>1. Len(Prefix(stages, n)) = n
  BY LenProperties DEF Prefix, TypeOK
<1> QED BY <1>1, EmittedLists

\* Before an answer nothing has been done.
LEMMA DoneBeforeAnswer ==
  ASSUME Inv, DoneInv, Enter \/ ExtractKeys \/ FetchOuterKeys \/ FetchInnerByKeys \/ ExecOuterPipeline
  PROVE  DoneInv'
<1>1. result' = result /\ pc \notin {"client", "done"} /\ (pc' \notin {"client", "done"} \/ (pc' = "done" /\ outcome' = "lookup"))
  BY DEF Enter, ExtractKeys, FetchOuterKeys, FetchInnerByKeys, ExecOuterPipeline, Goto
<1> QED BY <1>1 DEF DoneInv

\* The probe hands over behind the join.
LEMMA DoneAtProbe ==
  ASSUME Inv, DoneInv, HashJoinByKey
  PROVE  DoneInv'
<1> DEFINE s == EmittedStages(Prefix(stages, JoinIdx))
<1>1. JoinIdx \in 0 .. Len(stages) /\ JoinIdx \in Nat
  BY JoinSlot, LenProperties DEF Inv, TypeOK
<1>2. Lists(s, Prefix(stages, JoinIdx), JoinIdx)
  BY <1>1, PrefixListed DEF Inv
<1> HIDE DEF s
<1>3. result'.done = s /\ at' = JoinIdx + 1 /\ pc' = "client" /\ outcome' = "lookup"
  BY DEF HashJoinByKey, StartClient, Goto, s
<1>4. s \in Seq(Nat) /\ DOMAIN s = 1 .. Len(s) /\ \A d \in DOMAIN s : s[d] \in Nat /\ s[d] <= JoinIdx
  BY <1>2, LenProperties DEF Lists
<1>5. \A d \in DOMAIN s : s[d] < JoinIdx + 1
  BY <1>1, <1>4
<1> QED BY <1>1, <1>2, <1>3, <1>4, <1>5 DEF DoneInv, Lists

\* The normal path hands over at the split, with every stage before it in the statement.
LEMMA DoneAtSplit ==
  ASSUME Inv, DoneInv, ExecNormal
  PROVE  DoneInv'
<1> DEFINE n == SplitIdx(stages) - 1
           pre == Prefix(stages, n)
           s == EmittedStages(pre)
<1>1. SplitIdx(stages) \in 1 .. Len(stages) + 1 /\ Len(stages) \in Nat /\ stages \in Seq(Stage)
  BY SplitInRange, LenProperties DEF Inv, TypeOK
<1>2. stages' \in Seq(Stage) /\ Len(stages') = Len(stages) /\ SplitIdx(stages)' = SplitIdx(stages)
  <2>1. stages' = Emitted(SplitIdx(stages) - 1)
    BY DEF ExecNormal
  <2>2. stages' \in Seq(Stage) /\ Len(stages') = Len(stages) /\ \A k \in DOMAIN stages : stages'[k].op = stages[k].op
    BY <1>1, <2>1, EmittedStageOps
  <2>3. SplitIdx(stages') = SplitIdx(stages)
    BY <1>1, <2>2, SplitDecided, LenProperties
  <2> QED BY <2>2, <2>3
<1>3. \/ result' = result /\ pc' = "done" /\ outcome' \in {"rejected", "failed"}
      \/ /\ result'.done = s /\ at' = n + 1 /\ pc' = "client" /\ outcome' = "normal"
  BY DEF ExecNormal, StartClient, Goto
<1>4. CASE result' = result /\ pc' = "done" /\ outcome' \in {"rejected", "failed"}
  <2>1. pc = "normal"
    BY DEF ExecNormal
  <2> QED BY <1>4, <2>1 DEF DoneInv
<1>5. CASE result'.done = s /\ at' = n + 1 /\ pc' = "client" /\ outcome' = "normal"
  <2>1. n \in 0 .. Len(stages) /\ n \in Nat /\ n + 1 = SplitIdx(stages)
    BY <1>1
  <2>2. Lists(s, pre, n)
    BY <2>1, PrefixListed DEF Inv
  <2>3. \A k \in 1 .. n : pre[k] = stages[k]
    BY DEF Prefix
  <2> HIDE DEF n, pre, s
  <2>4. \A d \in DOMAIN s : s[d] \in Nat /\ s[d] < n + 1
    BY <2>1, <2>2, LenProperties DEF Lists
  <2>5. ASSUME NEW k \in 1 .. Len(stages), ~ (k >= n + 1)
        PROVE  \E d \in DOMAIN s : s[d] = k
    <3>1. k \in 1 .. n /\ k < SplitIdx(stages)
      BY <1>1, <2>1, <2>5
    <3>2. ~ IsBoundary(pre[k])
      BY <1>1, <2>3, <3>1, BoundaryBehind
    <3> QED BY <2>2, <3>1, <3>2 DEF Lists
  <2>6. \A k \in 1 .. Len(stages') : k >= at' \/ \E d \in DOMAIN result'.done : result'.done[d] = k
    BY <1>2, <1>5, <2>5
  <2>7. /\ result'.done \in Seq(Nat)
        /\ \A a, b \in DOMAIN result'.done : a < b => result'.done[a] < result'.done[b]
        /\ at' >= 1 /\ \A d \in DOMAIN result'.done : result'.done[d] < at'
        /\ at' >= SplitIdx(stages)'
    BY <1>1, <1>2, <1>5, <2>1, <2>2, <2>4 DEF Lists
  <2> QED BY <1>5, <2>6, <2>7 DEF DoneInv
<1> QED BY <1>3, <1>4, <1>5

\* A turn of the client-side loop does its stage behind those before it, or skips it.
LEMMA DoneInLoop ==
  ASSUME Inv, DoneInv, ApplyPostProc
  PROVE  DoneInv'
<1>0. /\ stages' = stages /\ outcome' = outcome /\ SplitIdx(stages)' = SplitIdx(stages) /\ pc = "client"
      /\ at \in Nat /\ Len(stages) \in Nat
      /\ SplitIdx(stages) \in Nat /\ at >= 1
  BY SplitInRange, LenProperties DEF ApplyPostProc, Inv, TypeOK, DoneInv
<1>1. CASE at > Len(stages)
  <2>1. result' = result /\ pc' = "done"
    BY <1>1 DEF ApplyPostProc, Goto
  <2>2. \A k \in 1 .. Len(stages) : ~ (k >= at)
    BY <1>0, <1>1
  <2> QED BY <1>0, <2>1, <2>2 DEF DoneInv
<1>2. CASE ~ (at > Len(stages)) /\ ClientRuns(stages[at])
  <2> DEFINE s == result.done
             t == Append(s, at)
  <2>1. /\ at' = at + 1 /\ pc' = pc
        /\ result' = [result EXCEPT !.done = Append(@, at)]
    BY <1>2 DEF ApplyPostProc
  <2>2. result'.done = t
    <3>1. result = [rows |-> result.rows, done |-> result.done]
      BY DEF Inv, OutcomeInv
    <3> QED BY <2>1, <3>1
  <2>3. /\ s \in Seq(Nat) /\ (\A a, b \in DOMAIN s : a < b => s[a] < s[b])
        /\ \A d \in DOMAIN s : s[d] < at
    BY <1>0 DEF DoneInv
  <2> HIDE DEF s
  <2>4. /\ t \in Seq(Nat)
        /\ \A a, b \in DOMAIN t : a < b => t[a] < t[b]
        /\ \A d \in DOMAIN t : t[d] <= at
        /\ \E d \in DOMAIN t : t[d] = at
        /\ \A k : (\E d \in DOMAIN s : s[d] = k) => \E d \in DOMAIN t : t[d] = k
    BY <1>0, <2>3, AppendKeepsOrder, Zenon
  <2> HIDE DEF t
  <2>5. \A d \in DOMAIN t : t[d] < at + 1
    BY <1>0, <2>4, LenProperties
  <2>6. ASSUME outcome = "normal", NEW k \in 1 .. Len(stages), k < SplitIdx(stages) \/ ClientRuns(stages[k]),
               ~ (k >= at + 1)
        PROVE  \E d \in DOMAIN t : t[d] = k
    <3>1. CASE k = at
      BY <2>4, <3>1
    <3>2. CASE ~ (k >= at)
      <4>1. \E d \in DOMAIN s : s[d] = k
        BY <1>0, <2>6, <3>2 DEF DoneInv, s
      <4> QED BY <2>4, <4>1
    <3> QED BY <1>0, <2>6, <3>1, <3>2
  <2>7. at' >= 1 /\ (outcome = "normal" => at' >= SplitIdx(stages))
    BY <1>0, <2>1 DEF DoneInv
  <2> QED BY <1>0, <2>1, <2>2, <2>4, <2>5, <2>6, <2>7 DEF DoneInv
<1>3. CASE ~ (at > Len(stages)) /\ ~ ClientRuns(stages[at])
  <2>1. at' = at + 1 /\ pc' = pc /\ result' = result
    BY <1>3 DEF ApplyPostProc
  <2>2. \A d \in DOMAIN result.done : result.done[d] \in Nat /\ result.done[d] < at + 1
    BY <1>0, LenProperties DEF DoneInv
  <2>3. ASSUME outcome = "normal", NEW k \in 1 .. Len(stages), k < SplitIdx(stages) \/ ClientRuns(stages[k]),
               ~ (k >= at + 1)
        PROVE  \E d \in DOMAIN result.done : result.done[d] = k
    <3>1. k # at
      BY <1>0, <1>3, <2>3 DEF DoneInv
    <3>2. ~ (k >= at)
      BY <1>0, <2>3, <3>1
    <3> QED BY <1>0, <2>3, <3>2 DEF DoneInv
  <2>4. at' >= 1 /\ (outcome = "normal" => at' >= SplitIdx(stages))
    BY <1>0, <2>1 DEF DoneInv
  <2> QED BY <1>0, <2>1, <2>2, <2>3, <2>4 DEF DoneInv
<1> QED BY <1>1, <1>2, <1>3

\* Every step keeps what has been done in order and complete.
LEMMA DoneStep ==
  ASSUME Inv, DoneInv, [Next]_vars
  PROVE  DoneInv'
<1>1. CASE WriteOuter \/ WriteInner \/ UNCHANGED vars
  <2>1. UNCHANGED << pc, result, outcome, at, stages >>
    BY <1>1 DEF WriteOuter, WriteInner, vars
  <2>2. SplitIdx(stages)' = SplitIdx(stages)
    BY <2>1
  <2> QED BY <2>1, <2>2 DEF DoneInv
<1> QED BY <1>1, DoneBeforeAnswer, DoneAtProbe, DoneAtSplit, DoneInLoop DEF Next, Call

-----------------------------------------------------------------------------
(* What an emission destroys *)

\* In front of the join the stages are the caller's.
LEMMA CallersJoin ==
  ASSUME Inv, NEW k \in 1 .. Len(stages), IsJoin(stages[k]), k < JoinIdx
  PROVE  k \in 1 .. JoinIdx - 1 /\ IsJoin(orig[k])
<1>1. k \in DOMAIN stages /\ JoinIdx \in Nat
  BY JoinSlot, LenProperties DEF Inv, TypeOK
<1>2. stages[k].op = orig[k].op
  BY <1>1 DEF Inv, OnlyJoinSlotRewritten
<1> QED BY <1>1, <1>2 DEF IsJoin

\* An emission of the stages in front of the join takes apart no other ON.
LEMMA EmissionGone ==
  ASSUME Inv, DoneInv, GoneInv, pc \notin {"client", "done"}, NEW k \in 1 .. Len(stages),
         Emitted(JoinIdx - 1)[k].onGone
  PROVE  EmitConsumesOn /\ k \in 1 .. JoinIdx - 1 /\ IsJoin(orig[k])
<1>1. k \in DOMAIN stages /\ stages[k] \in Stage /\ JoinIdx \in Nat
  BY JoinSlot, LenProperties DEF Inv, TypeOK
<1>2. Emitted(JoinIdx - 1)[k] = IF k <= JoinIdx - 1 /\ IsJoin(stages[k])
                                THEN [stages[k] EXCEPT !.onGone = EmitConsumesOn] ELSE stages[k]
  BY <1>1 DEF Emitted
<1>3. CASE k <= JoinIdx - 1 /\ IsJoin(stages[k])
  <2>1. Emitted(JoinIdx - 1)[k].onGone = EmitConsumesOn
    BY <1>1, <1>2, <1>3 DEF Stage
  <2> QED BY <1>1, <1>3, <2>1, CallersJoin
<1>4. CASE ~ (k <= JoinIdx - 1 /\ IsJoin(stages[k]))
  BY <1>2, <1>4 DEF GoneInv
<1> QED BY <1>3, <1>4

\* A statement over stages whose ONs are whole is accepted, if the join's right side is
\* a table.
LEMMA RejectedAt ==
  ASSUME Inv, DoneInv, GoneInv, ExecNormal, outcome' = "rejected", join.right = "table"
  PROVE  EmitConsumesOn /\ \E k \in 1 .. JoinIdx - 1 : IsJoin(orig[k])
<1> DEFINE n == SplitIdx(stages) - 1
<1>1. n \in 0 .. Len(stages) /\ Len(stages) \in Nat /\ pc = "normal"
  BY SplitInRange, LenProperties DEF ExecNormal, Inv, TypeOK
<1>2. ~ RegionIsValid(SplitIdx(stages))
  BY DEF ExecNormal
<1>3. ~ CanEmit(Prefix(stages, n))
  BY <1>2 DEF RegionIsValid
<1> HIDE DEF n
<1>4. PICK k \in 1 .. n : stages[k].onGone
  BY <1>3 DEF CanEmit, Prefix
<1>5. k \in 1 .. Len(stages)
  BY <1>1
<1> QED BY <1>1, <1>4, <1>5 DEF GoneInv

\* Every step keeps what may be gone.
LEMMA GoneStep ==
  ASSUME Inv, DoneInv, GoneInv, [Next]_vars
  PROVE  GoneInv'
<1> DEFINE Gone(ss) == \A k \in 1 .. Len(ss) :
                         ss[k].onGone => EmitConsumesOn /\ k \in 1 .. JoinIdx - 1 /\ IsJoin(orig[k])
<1>1. UNCHANGED << join, orig >> /\ JoinIdx' = JoinIdx
  BY Frame DEF Next, Call, Enter, ExtractKeys, FetchOuterKeys, FetchInnerByKeys, ExecOuterPipeline,
               HashJoinByKey, ApplyPostProc, ExecNormal, WriteOuter, WriteInner, vars
<1>2. pc \notin {"client", "done"} => Gone(stages) /\ outcome = "running"
  BY DEF GoneInv, Inv, OutcomeInv
<1>3. ASSUME UNCHANGED stages, pc' \in {"client", "done"} \/ pc \notin {"client", "done"},
             outcome' = outcome \/ outcome' = "lookup"
      PROVE  GoneInv'
  BY <1>1, <1>2, <1>3 DEF GoneInv, RejectedOnlyBehindJoin
<1>4. CASE \/ Enter \/ ExtractKeys \/ FetchInnerByKeys \/ HashJoinByKey \/ ApplyPostProc
           \/ WriteOuter \/ WriteInner \/ UNCHANGED vars
  <2>1. UNCHANGED stages /\ (outcome' = outcome \/ outcome' = "lookup")
    BY <1>4 DEF Enter, ExtractKeys, FetchInnerByKeys, HashJoinByKey, ApplyPostProc, WriteOuter, WriteInner, vars
  <2>2. pc' \in {"client", "done"} \/ pc \notin {"client", "done"}
    BY <1>4 DEF Enter, ExtractKeys, FetchInnerByKeys, HashJoinByKey, ApplyPostProc, WriteOuter, WriteInner, vars, Goto
  <2> QED BY <1>3, <2>1, <2>2
<1>5. CASE FetchOuterKeys
  <2>1. pc = "keys" /\ stages' = AppendDistinct(Emitted(JoinIdx - 1))
        /\ (outcome' = outcome \/ outcome' = "lookup")
    BY <1>5 DEF FetchOuterKeys
  <2>2. JoinIdx \in 1 .. Len(stages) /\ stages \in Seq(Stage)
    BY <2>1, JoinSlot DEF Inv, JoinInv, Fetching, TypeOK
  <2>3. /\ Emitted(JoinIdx - 1) \in Seq(Stage) /\ Len(Emitted(JoinIdx - 1)) = Len(stages)
    BY <2>2, EmittedStageOps
  <2>4. /\ Len(stages') = Len(stages)
        /\ \A k \in 1 .. Len(stages) : stages'[k] = IF k = JoinIdx THEN DistinctKey ELSE Emitted(JoinIdx - 1)[k]
    BY <2>1, <2>2, <2>3, ExceptSeq, LenProperties DEF AppendDistinct
  <2>5. Gone(stages')
    <3> SUFFICES ASSUME NEW k \in 1 .. Len(stages), stages'[k].onGone
                 PROVE  EmitConsumesOn /\ k \in 1 .. JoinIdx - 1 /\ IsJoin(orig[k])
      BY <2>4
    <3>1. k # JoinIdx
      BY <2>4 DEF DistinctKey
    <3>2. Emitted(JoinIdx - 1)[k].onGone
      BY <2>4, <3>1
    <3> QED BY <2>1, <3>2, EmissionGone
  <2> QED BY <1>1, <1>2, <2>1, <2>5 DEF GoneInv, RejectedOnlyBehindJoin
<1>6. CASE ExecOuterPipeline
  <2>1. pc = "outer" /\ stages' = Emitted(JoinIdx - 1) /\ outcome' = outcome
    BY <1>6 DEF ExecOuterPipeline
  <2>2. Len(stages') = Len(stages)
    BY <2>1, EmittedStageOps DEF Inv, TypeOK
  <2>3. Gone(stages')
    BY <2>1, <2>2, EmissionGone
  <2> QED BY <1>1, <1>2, <2>1, <2>3 DEF GoneInv, RejectedOnlyBehindJoin
<1>7. CASE ExecNormal
  <2>1. pc' \in {"client", "done"}
    BY <1>7 DEF ExecNormal, Goto
  <2> QED BY <1>1, <1>7, <2>1, RejectedAt DEF GoneInv, RejectedOnlyBehindJoin
<1> QED BY <1>4, <1>5, <1>6, <1>7 DEF Next, Call

-----------------------------------------------------------------------------
(* Theorems *)

\* What the call has done and what it may have destroyed, at every step.
THEOREM CallInvariance == Spec => []CallInv
<1>1. Init => CallInv
  <2> SUFFICES ASSUME Init PROVE CallInv
    OBVIOUS
  <2>1. DoneInv
    <3>1. result.done = <<>> /\ pc = "enter" /\ <<>> \in Seq(Nat) /\ DOMAIN <<>> = {}
      BY DEF Init, Empty
    <3> QED BY <3>1 DEF DoneInv
  <2>2. GoneInv
    <3>1. PICK q \in Queries : stages = q.stages
      BY DEF Init
    <3>2. stages \in Seq(Stage) /\ \A k \in DOMAIN stages : ~ stages[k].onGone
      BY <3>1, QueryAssumption, FreshAssumption
    <3> QED BY <3>2, LenProperties DEF Init, GoneInv, RejectedOnlyBehindJoin
  <2> QED BY <2>1, <2>2, InitInv DEF CallInv
<1>2. CallInv /\ [Next]_vars => CallInv'
  BY NextInv, DoneStep, GoneStep DEF CallInv
<1> QED BY <1>1, <1>2, PTL DEF Spec

\* No stage takes effect twice or out of order, across the statement and the client-side
\* loop, whichever path the call takes: the two slices meet at splitIdx or behind the join.
THEOREM StagesInOrder == Spec => []DoneInOrder
<1>1. CallInv => DoneInOrder
  BY DEF CallInv, DoneInv, DoneInOrder
<1> QED BY <1>1, CallInvariance, PTL

\* The normal path leaves no stage out: what is in front of the first boundary is in its
\* statement, and every later stage with an executor of its own has run.
THEOREM NormalPathLosesNothing == Spec => []NormalPathComplete
<1>1. CallInv => NormalPathComplete
  BY LenProperties DEF CallInv, Inv, TypeOK, DoneInv, NormalPathComplete
<1> QED BY <1>1, CallInvariance, PTL

\* The fallback's statement is refused only where the key fetch has taken an earlier
\* join's ON apart, on a backend whose emitter does that.
THEOREM FallbackAccepted == Spec => []RejectedOnlyBehindJoin
<1>1. CallInv => RejectedOnlyBehindJoin
  BY DEF CallInv, GoneInv
<1> QED BY <1>1, CallInvariance, PTL
=============================================================================
