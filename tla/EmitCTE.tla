------------------------------- MODULE EmitCTE -------------------------------
(***************************************************************************)
(* internal/backend/sqlite/emit_cte.go: the production emitter.  It splits a *)
(* pipeline into segments, a breakpoint stage or a run of mergeable stages   *)
(* each, and emits each segment as ONE select that reads the one before.      *)
(*                                                                          *)
(* A select is what SQL makes of its clauses, whatever order the stages were *)
(* in: WHERE, then ORDER BY, then LIMIT, then the select list.               *)
(***************************************************************************)
EXTENDS Rowsets

NoLimit == -1

-----------------------------------------------------------------------------
(* Segments *)

IsBreakpoint(st) == st.op \in {"Aggregate", "Distinct", "Union", "Extend", "Project"}

\* splitSegments: what the loop holds after k stages, and its last flush.
Flush(acc) == IF acc.cur = <<>> THEN acc.segs ELSE Append(acc.segs, acc.cur)
SplitSegments(ss) ==
  LET after[k \in 0 .. Len(ss)] ==
        IF k = 0 THEN [segs |-> <<>>, cur |-> <<>>]
        ELSE LET acc == after[k - 1]
             IN  IF IsBreakpoint(ss[k])
                 THEN [segs |-> Append(Flush(acc), <<ss[k]>>), cur |-> <<>>]
                 ELSE [acc EXCEPT !.cur = Append(@, ss[k])]
  IN  Flush(after[Len(ss)])

-----------------------------------------------------------------------------
(* The select of a segment *)

Passthrough == [where |-> {}, select |-> {}, project |-> FALSE, order |-> <<>>, limit |-> NoLimit]

\* One turn of emitMergedSelect's loop.  Conditions and sort keys pile up, the
\* last limit stays.
AbsorbLastFilter(select, st) ==
  CASE st.op = "Filter"  -> [select EXCEPT !.where = st.preds]
    [] st.op = "Sort"    -> [select EXCEPT !.order = @ \o st.keys]
    [] st.op = "Limit"   -> [select EXCEPT !.limit = st.n]
    [] OTHER             -> select
Absorb(select, st) ==
  CASE st.op = "Filter"  -> [select EXCEPT !.where = @ \cup st.preds]
    [] st.op = "Extend"  -> [select EXCEPT !.select = @ \cup st.items]
    [] st.op = "Project" -> [select EXCEPT !.select = st.items, !.project = TRUE]
    [] st.op = "Sort"    -> [select EXCEPT !.order = @ \o st.keys]
    [] st.op = "Limit"   -> [select EXCEPT !.limit = st.n]
    [] OTHER             -> select

MergedSelect(seg) ==
  LET after[k \in 0 .. Len(seg)] == IF k = 0 THEN Passthrough ELSE Absorb(after[k - 1], seg[k])
  IN  after[Len(seg)]

IsBreak(seg) == Len(seg) = 1 /\ IsBreakpoint(seg[1])

\* The columns a segment's select names; all of them must be its FROM's.
SelectReferences(seg) ==
  IF IsBreak(seg) THEN References(seg[1])
  ELSE LET q == MergedSelect(seg)
       IN  PredColumns(q.where) \cup KeyColumns(q.order) \cup {i.ref : i \in q.select}

SelectColumns(seg, cols) ==
  IF IsBreak(seg) THEN ColumnsAfter(seg[1], cols)
  ELSE LET q == MergedSelect(seg)
       IN  {i.name : i \in q.select} \cup (IF q.project THEN {} ELSE cols)

RunMerged(q, r) ==
  LET chosen  == Where(r, q.where)
      ordered == IF q.order = <<>> THEN chosen ELSE Sorted(chosen, q.order)
      kept    == IF q.limit = NoLimit THEN ordered ELSE FirstRows(ordered, q.limit)
  IN  IF q.project THEN Projected(kept, q.select) ELSE Extended(kept, q.select)

-----------------------------------------------------------------------------
(* Statements *)

\* A chain of segments, for a pipeline without unions: they hold the only
\* sub-pipelines here, and sub-pipelines are emitted the same way.
RunPlain(ss, r) ==
  LET segs == SplitSegments(ss)
      after[k \in 0 .. Len(segs)] ==
        IF k = 0 THEN r
        ELSE IF IsBreak(segs[k]) THEN ApplyPlain(segs[k][1], after[k - 1])
        ELSE RunMerged(MergedSelect(segs[k]), after[k - 1])
  IN  after[Len(segs)]

\* UNION, of the segment before and the statements of the inputs.
RunUnion(inputs, r, tables) ==
  LET after[k \in 0 .. Len(inputs)] ==
        IF k = 0 THEN r ELSE Concat(after[k - 1], RunPlain(inputs[k].stages, tables[inputs[k].table]))
  IN  IF inputs = <<>> THEN r ELSE DistinctRows(after[Len(inputs)], {})

RunSegment(seg, r, tables) ==
  IF ~IsBreak(seg) THEN RunMerged(MergedSelect(seg), r)
  ELSE IF seg[1].op = "Union" THEN RunUnion(seg[1].inputs, r, tables)
  ELSE ApplyPlain(seg[1], r)

\* What the statement of emitPipelineCTE answers.
Answer(ss, r, tables) ==
  LET segs == SplitSegments(ss)
      after[k \in 0 .. Len(segs)] ==
        IF k = 0 THEN r ELSE RunSegment(segs[k], after[k - 1], tables)
  IN  InOrder(after[Len(segs)])

\* The statement is one the database accepts.
Accepted(ss, source) ==
  LET segs == SplitSegments(ss)
      from[k \in 1 .. Len(segs) + 1] ==
        IF k = 1 THEN source ELSE SelectColumns(segs[k - 1], from[k - 1])
  IN  \A k \in DOMAIN segs : SelectReferences(segs[k]) \subseteq from[k]

\* The runs a single select can stand for: no condition, sort or limit follows a
\* limit, and there is one sort at most.
Mergeable(seg) ==
  \A j, k \in DOMAIN seg : j < k =>
     /\ seg[j].op # "Limit"
     /\ ~(seg[j].op = "Sort" /\ seg[k].op = "Sort")
MergeFree(ss) ==
  LET Free(plain) ==
        LET segs == SplitSegments(plain)
        IN  \A k \in DOMAIN segs : IsBreak(segs[k]) \/ Mergeable(segs[k])
  IN  Free(ss) /\ \A k \in DOMAIN ss : \A i \in DOMAIN ss[k].inputs : Free(ss[k].inputs[i].stages)

=============================================================================
