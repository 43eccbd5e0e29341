------------------------------ MODULE EmitDuckDB ------------------------------
(***************************************************************************)
(* internal/backend/duckdb/emit.go.  The pipeline itself becomes the same    *)
(* chain of segments as in EmitCTE; the inputs of a union go through         *)
(* emitPipeline, one stage's text behind the FROM of the next, where only a  *)
(* union brings the parentheses that a FROM wants.                           *)
(***************************************************************************)
EXTENDS EmitCTE

DuckAbsorb(select, st) ==
  CASE st.op = "Filter" -> [select EXCEPT !.where = @ \cup st.preds]
    [] st.op = "Sort"   -> [select EXCEPT !.order = @ \o st.keys]
    [] st.op = "Limit"  -> [select EXCEPT !.limit = st.n]
    [] OTHER            -> select
DuckSelect(seg) ==
  LET after[k \in 0 .. Len(seg)] == IF k = 0 THEN Passthrough ELSE DuckAbsorb(after[k - 1], seg[k])
  IN  after[Len(seg)]

\* emitPipeline's text is a statement.
NestedAccepted(ss) == \A k \in DOMAIN ss : ss[k].op = "Union"
DuckAccepted(ss, source) ==
  /\ Accepted(ss, source)
  /\ \A k \in DOMAIN ss : \A i \in DOMAIN ss[k].inputs : NestedAccepted(ss[k].inputs[i].stages)

\* UNION of the segment before and the nested statements of the inputs.
DuckSegment(seg, r, tables) ==
  IF IsBreak(seg) THEN ApplyStage(seg[1], r, tables) ELSE RunMerged(DuckSelect(seg), r)

\* What the statement of emitPipelineCTE answers.
DuckAnswer(ss, r, tables) ==
  LET segs == SplitSegments(ss)
      after[k \in 0 .. Len(segs)] ==
        IF k = 0 THEN r ELSE DuckSegment(segs[k], after[k - 1], tables)
  IN  InOrder(after[Len(segs)])

=============================================================================
