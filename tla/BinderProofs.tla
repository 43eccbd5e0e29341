----------------------------- MODULE BinderProofs -----------------------------
(***************************************************************************)
(* Proofs about Binder, for every number of binds, every catalog and every   *)
(* set of pipelines: what names and ColIDs mean although all binds write the  *)
(* one cached schema of a table.                                             *)
(*                                                                          *)
(* Inv is the inductive invariant.  It says of the shared objects that they   *)
(* keep the column names of their table, of every call of bindPipeline that   *)
(* its input schema has the names its pipeline's text gives it, and of a bind *)
(* that runs alone that no ColID at hand stands for two names.               *)
(***************************************************************************)
EXTENDS Binder, SequenceTheorems, Induction

-----------------------------------------------------------------------------
(* The inductive invariant *)

Bindings == [id : Nat, name : Name \cup {None}]
Schemas  == [kind : {"nil", "shared", "own"}, obj : Nat, cols : Seq(Bindings)]
Calls    == [pipe : Pipe, at : Nat \ {0}, sub : Nat \ {0}, in : Schemas, right : Schemas,
             step : Steps, wants : {"source", "right"}, source : Spelling \cup {None},
             obj : Nat, col : Nat]
References  == [pipe : Pipe, at : Nat, name : Name, id : Nat]

Held(cols)  == {cols[k] : k \in DOMAIN cols}
Knows(cols) == {e.name : e \in Held(cols)} \ {None}

\* An object of the heap holds the columns of a table.
Object(obj, tb) ==
  /\ InHeap(obj)
  /\ DOMAIN heap[obj] = DOMAIN Columns[tb]
  /\ \A k \in DOMAIN Columns[tb] : heap[obj][k].name = Columns[tb][k]
Kept(s) == s.kind = "shared" => InHeap(s.obj)

HeapInv ==
  /\ heap \in Seq(Seq(Bindings))
  /\ cache \in [Table -> Nat]
  /\ \A tb \in Table : cache[tb] # 0 => Object(cache[tb], tb)

\* Where a call is, and what it knows of its source and of its schemas.
Looking == {"load", "query", "store", "alloc"}
Here(f)    == Stages[f.pipe][f.at]
AtStage(f) == f.at <= Len(Stages[f.pipe])
AtJoin(f)  == AtStage(f) /\ Here(f).op = "join"

CallOK(f) ==
  /\ f \in Calls
  /\ f.at <= Len(Stages[f.pipe]) + 1
  /\ f.step \in {"query", "store", "alloc"} => f.source # None
  /\ f.step \in {"store", "alloc"} => Object(f.obj, TableOf[f.source])
  /\ f.step = "alloc" => f.col \in DOMAIN Columns[TableOf[f.source]]
  /\ Kept(f.in) /\ Kept(f.right)
  /\ (f.step \in Looking /\ f.wants = "source") =>
       f.at = 1 /\ f.sub = 1 /\ f.source = Source[f.pipe]
  /\ (f.step = "on" \/ (f.step \in Looking /\ f.wants = "right")) =>
       f.wants = "right" /\ AtJoin(f) /\ f.source = Source[Here(f).subs[1]]
  /\ (f.step = "stages" /\ AtJoin(f)) => f.sub = 1

\* A call that has looked its source up knows the names its next stage may mention.
Walking(f) == f.step \notin Looking \/ f.wants = "right"
ScopeOK(f) ==
  f.pipe \in FromTables =>
    /\ Walking(f) => ~ IsNil(f.in) /\ Knows(Cols(f.in)) = Scope[f.pipe][f.at]
    /\ f.step = "on" => ~ IsNil(f.right) /\ Knows(Cols(f.right)) = NamesOf(TableOf[f.source])

\* The calls below the innermost one wait for the sub-pipeline they went down into.
Waits(f, g) ==
  /\ f.step = "stages" /\ AtStage(f)
  /\ f.sub \in DOMAIN Here(f).subs /\ g.pipe = Here(f).subs[f.sub]

StackInv(t) ==
  /\ frames[t] \in Seq(Calls)
  /\ \A k \in DOMAIN frames[t] :
       /\ CallOK(frames[t][k])
       /\ ~ SourceTrouble(t) => ScopeOK(frames[t][k])
       /\ k > 1 => Waits(frames[t][k], frames[t][k - 1])

\* The properties, of one bind.
LexicalFor(t) ==
  (plan[t] # None /\ ~ SourceTrouble(t)) =>
     /\ \A r \in refs[t]  : r.pipe \in FromTables => r.name \in Scope[r.pipe][r.at]
     /\ \A d \in diags[t] : d.pipe \in FromTables => d.name \notin Scope[d.pipe][d.at]
ResolvesFor(t) ==
  \A d \in diags[t] : (d.kind = "missing" /\ d.name \in Exact) => TableOf[d.name] \notin knew[t]

BindInv(t) ==
  /\ StackInv(t) /\ LexicalFor(t) /\ ResolvesFor(t)
  /\ plan[t] = None => frames[t] = <<>> /\ refs[t] = {} /\ diags[t] = {}

BindsInv ==
  /\ exists \subseteq Table /\ overlapped \subseteq Thread
  /\ next \in [Thread -> Nat]
  /\ plan \in [Thread -> Whole \cup {None}] /\ knew \in [Thread -> SUBSET exists]
  /\ refs \in [Thread -> SUBSET References]
  /\ DOMAIN diags = Thread /\ DOMAIN frames = Thread
  /\ \A t \in Thread : BindInv(t)

\* The bindings a bind may still read, and those it has stamped.
Entries(s) == IF IsNil(s) THEN {} ELSE Held(Cols(s))
Visible(f) ==
  Entries(f.in) \cup Entries(f.right)
    \cup (IF f.step = "alloc" THEN {heap[f.obj][k] : k \in 1 .. f.col - 1} ELSE {})
Stamped(t) == {Binding(r.id, r.name) : r \in refs[t]}
SeenBy(t)  == UNION {Visible(frames[t][k]) : k \in DOMAIN frames[t]}
AtHand(t)  == SeenBy(t) \cup Stamped(t)

\* An id up to n stands for one name.
OneName(bs, n) ==
  /\ \A e \in bs : e.id <= n
  /\ \A e, d \in bs : (e.id = d.id /\ e.id # 0) => e.name = d.name

AloneInv ==
  \A t \in Thread :
    /\ \A u \in Thread : (t # u /\ ~ Idle(t) /\ ~ Idle(u)) => t \in overlapped
    /\ Alone(t) => OneName(AtHand(t), next[t])

Inv == HeapInv /\ BindsInv /\ AloneInv

-----------------------------------------------------------------------------
(* What a stage leaves in scope *)

\* The names of a table, of a stage and of a pipeline's stages are column names.
LEMMA NamesTyped ==
  /\ \A tb \in Table : NamesOf(tb) \subseteq Name
  /\ \A st \in StageSet : GivenBy(st) \subseteq Name /\ BareRefs(st) \subseteq Name
<1>1. ASSUME NEW tb \in Table PROVE NamesOf(tb) \subseteq Name
  <2>1. Columns[tb] \in Seq(Name)
    BY CatalogAssumption
  <2> QED BY <2>1, LenProperties DEF NamesOf
<1>2. ASSUME NEW st \in StageSet
      PROVE  GivenBy(st) \subseteq Name /\ BareRefs(st) \subseteq Name
  <2>1. st.items \in Seq(Item)
    BY DEF StageSet
  <2>2. \A j \in DOMAIN st.items : st.items[j] \in Item
    BY <2>1, LenProperties
  <2>3. \A j \in DOMAIN st.items : st.items[j].name \in Name \cup {None} /\ st.items[j].ref \in Name \cup {None}
    BY <2>2 DEF Item
  <2> QED BY <2>3 DEF GivenBy, BareRefs, Plain
<1> QED BY <1>1, <1>2

\* The right side of a join is one pipeline.
LEMMA JoinSide ==
  ASSUME NEW p \in Pipe, NEW k \in DOMAIN Stages[p]
  PROVE  /\ Stages[p] \in Seq(StageSet) /\ k \in 1 .. Len(Stages[p]) /\ Stages[p][k] \in StageSet
         /\ Stages[p][k].subs \in Seq(Pipe)
         /\ Stages[p][k].op = "join" => Len(Stages[p][k].subs) = 1 /\ Stages[p][k].subs[1] \in Pipe
<1>1. Stages[p] \in Seq(StageSet)
  BY PipelineAssumption
<1>2. k \in 1 .. Len(Stages[p]) /\ Stages[p][k] \in StageSet
  BY <1>1, LenProperties
<1>3. Stages[p][k].subs \in Seq(Pipe)
  BY <1>2 DEF StageSet
<1>4. ASSUME Stages[p][k].op = "join"
      PROVE  Len(Stages[p][k].subs) = 1 /\ Stages[p][k].subs[1] \in Pipe
  BY <1>3, <1>4, PipelineAssumption, LenProperties
<1> QED BY <1>1, <1>2, <1>3, <1>4

\* A stage of a pipeline over tables leaves column names, given column names.
LEMMA LeavesTyped ==
  ASSUME NEW p \in FromTables, NEW k \in DOMAIN Stages[p], NEW names \in SUBSET Name
  PROVE  Leaves(Stages[p][k], names) \in SUBSET Name
<1> DEFINE st == Stages[p][k]
<1>1. p \in Pipe /\ TableJoin(st)
  BY DEF FromTables
<1>2. st \in StageSet
  BY <1>1, JoinSide
<1>3. GivenBy(st) \subseteq Name /\ BareRefs(st) \subseteq Name
  BY <1>2, NamesTyped
<1>4. ASSUME st.op = "join" PROVE NamesOf(TableOf[Source[st.subs[1]]]) \subseteq Name
  <2>1. Source[st.subs[1]] \in Spelling
    BY <1>1, <1>4, JoinSide, PipelineAssumption DEF TableJoin
  <2>2. TableOf[Source[st.subs[1]]] \in Table
    BY <2>1, CatalogAssumption
  <2> QED BY <2>2, NamesTyped
<1> HIDE DEF st
<1>5. st.op \in StageOps
  BY <1>2 DEF StageSet
<1> SUFFICES Leaves(st, names) \in SUBSET Name
  BY DEF st
<1>6. CASE st.op \in {"pass", "union"}
  BY <1>6 DEF Leaves
<1>7. CASE st.op = "extend"
  BY <1>3, <1>7 DEF Leaves
<1>8. CASE st.op = "join"
  BY <1>4, <1>8 DEF Leaves
<1>9. CASE st.op \in {"project", "aggregate"}
  BY <1>3, <1>9 DEF Leaves
<1> QED BY <1>5, <1>6, <1>7, <1>8, <1>9 DEF StageOps

\* The scope of a pipeline over tables: the source's columns, then what each stage leaves.
LEMMA ScopeUnfolds ==
  ASSUME NEW p \in FromTables
  PROVE  /\ Scope[p][1] = NamesOf(TableOf[Source[p]])
         /\ \A k \in DOMAIN Stages[p] : Scope[p][k + 1] = Leaves(Stages[p][k], Scope[p][k])
<1> DEFINE n == Len(Stages[p])
           X == SUBSET Name
           base == IF Source[p] = None THEN {} ELSE NamesOf(TableOf[Source[p]])
           T == [d \in 1 .. n |-> [names \in X |-> Leaves(Stages[p][d], names)]]
           F(g) == g = [d \in 0 .. n |-> IF d = 0 THEN base ELSE Leaves(Stages[p][d], g[d - 1])]
           f == CHOOSE g : F(g)
<1>1. p \in Pipe /\ Source[p] # None
  BY DEF FromTables
<1>2. n \in Nat /\ DOMAIN Stages[p] = 1 .. n
  BY <1>1, PipelineAssumption, LenProperties
<1>3. base \in X
  BY <1>1, NamesTyped, PipelineAssumption, CatalogAssumption
<1>4. T \in [1 .. n -> [X -> X]]
  BY <1>2, LeavesTyped
<1>5. PICK g : Iterates(g, X, n, base, T)
  <2> HIDE DEF X, T, base, n
  <2> QED BY <1>2, <1>3, <1>4, Iteration
<1>6. ASSUME NEW d \in 1 .. n PROVE g[d] = Leaves(Stages[p][d], g[d - 1])
  <2>1. g[d - 1] \in X
    <3> HIDE DEF X, T, base, n
    <3> QED BY <1>2, <1>5 DEF Iterates
  <2>2. T[d] = [names \in X |-> Leaves(Stages[p][d], names)]
    OBVIOUS
  <2> HIDE DEF X, T, base, n
  <2> QED BY <1>5, <2>1, <2>2 DEF Iterates
<1>7. F(g)
  <2> HIDE DEF X, T, base, n
  <2>1. ASSUME NEW d \in 0 .. n
        PROVE  g[d] = IF d = 0 THEN base ELSE Leaves(Stages[p][d], g[d - 1])
    <3>1. d = 0 \/ d \in 1 .. n
      BY <1>2
    <3> QED BY <1>5, <1>6, <3>1 DEF Iterates
  <2> QED BY <1>5, <2>1 DEF Iterates
<1>8. F(f)
  <2> HIDE DEF F
  <2> QED BY <1>7
<1>9. f[0] = base /\ \A d \in 1 .. n : f[d] = Leaves(Stages[p][d], f[d - 1])
  <2> HIDE DEF f, base, n
  <2>1. \A d \in 0 .. n : f[d] = IF d = 0 THEN base ELSE Leaves(Stages[p][d], f[d - 1])
    BY <1>8
  <2>2. f[0] = base
    <3>1. 0 \in 0 .. n
      BY <1>2
    <3> QED BY <2>1, <3>1, Zenon
  <2>3. ASSUME NEW d \in 1 .. n PROVE f[d] = Leaves(Stages[p][d], f[d - 1])
    <3>1. d \in 0 .. n /\ d # 0
      BY <1>2
    <3> QED BY <2>1, <3>1
  <2> QED BY <2>2, <2>3
<1>10. Scope[p] = [k \in 1 .. n + 1 |-> f[k - 1]]
  BY <1>1, Zenon DEF Scope, ScopeIn
<1> HIDE DEF f, n, F
<1>11. Scope[p][1] = f[0]
  BY <1>2, <1>10
<1>12. ASSUME NEW k \in 1 .. n PROVE Scope[p][k + 1] = f[k] /\ Scope[p][k] = f[k - 1]
  BY <1>2, <1>10
<1> QED BY <1>1, <1>2, <1>9, <1>11, <1>12

-----------------------------------------------------------------------------
(* Schemas, lookups and the output of a stage *)

\* What is held, and known, by bindings behind one another and by one more.
LEMMA HeldTogether ==
  ASSUME NEW c \in Seq(Bindings), NEW d \in Seq(Bindings), NEW e \in Bindings
  PROVE  /\ c \o d \in Seq(Bindings) /\ Held(c \o d) = Held(c) \cup Held(d)
         /\ Append(c, e) \in Seq(Bindings) /\ Held(Append(c, e)) = Held(c) \cup {e}
         /\ Held(<<>>) = {}
<1>1. /\ c \o d \in Seq(Bindings) /\ Len(c \o d) = Len(c) + Len(d)
      /\ \A i \in 1 .. Len(c) + Len(d) : (c \o d)[i] = IF i <= Len(c) THEN c[i] ELSE d[i - Len(c)]
  BY ConcatProperties
<1>2. /\ Append(c, e) \in Seq(Bindings) /\ Len(Append(c, e)) = Len(c) + 1
      /\ \A i \in 1 .. Len(c) : Append(c, e)[i] = c[i]
      /\ Append(c, e)[Len(c) + 1] = e
  BY AppendProperties
<1>3. /\ DOMAIN c = 1 .. Len(c) /\ DOMAIN d = 1 .. Len(d) /\ Len(c) \in Nat /\ Len(d) \in Nat
      /\ DOMAIN (c \o d) = 1 .. Len(c) + Len(d) /\ DOMAIN Append(c, e) = 1 .. Len(c) + 1
  BY <1>1, <1>2, LenProperties
<1>4. Held(c \o d) = Held(c) \cup Held(d)
  <2>1. ASSUME NEW i \in 1 .. Len(d) PROVE \E j \in 1 .. Len(c) + Len(d) : (c \o d)[j] = d[i]
    <3>1. Len(c) + i \in 1 .. Len(c) + Len(d) /\ ~ (Len(c) + i <= Len(c)) /\ (Len(c) + i) - Len(c) = i
      BY <1>3
    <3>2. (c \o d)[Len(c) + i] = d[(Len(c) + i) - Len(c)]
      BY <1>1, <3>1, Zenon
    <3> QED BY <3>1, <3>2
  <2>2. ASSUME NEW i \in 1 .. Len(c) PROVE \E j \in 1 .. Len(c) + Len(d) : (c \o d)[j] = c[i]
    <3>1. i \in 1 .. Len(c) + Len(d) /\ i <= Len(c)
      BY <1>3
    <3> QED BY <1>1, <3>1
  <2>3. ASSUME NEW j \in 1 .. Len(c) + Len(d)
        PROVE  (\E i \in 1 .. Len(c) : (c \o d)[j] = c[i]) \/ (\E i \in 1 .. Len(d) : (c \o d)[j] = d[i])
    <3>1. CASE j <= Len(c)
      <4>1. j \in 1 .. Len(c)
        BY <1>3, <3>1
      <4> QED BY <1>1, <3>1, <4>1, Zenon
    <3>2. CASE ~ (j <= Len(c))
      <4>1. j - Len(c) \in 1 .. Len(d)
        BY <1>3, <3>2
      <4> QED BY <1>1, <3>2, <4>1, Zenon
    <3> QED BY <3>1, <3>2
  <2> DEFINE cd == c \o d
  <2>4. /\ Held(cd) = {cd[j] : j \in 1 .. Len(c) + Len(d)}
        /\ Held(c) = {c[i] : i \in 1 .. Len(c)} /\ Held(d) = {d[i] : i \in 1 .. Len(d)}
    BY <1>3, Zenon DEF Held
  <2> HIDE DEF cd
  <2>5. /\ \A i \in 1 .. Len(d) : \E j \in 1 .. Len(c) + Len(d) : cd[j] = d[i]
        /\ \A i \in 1 .. Len(c) : \E j \in 1 .. Len(c) + Len(d) : cd[j] = c[i]
        /\ \A j \in 1 .. Len(c) + Len(d) :
             (\E i \in 1 .. Len(c) : cd[j] = c[i]) \/ (\E i \in 1 .. Len(d) : cd[j] = d[i])
    BY <2>1, <2>2, <2>3, Zenon DEF cd
  <2>6. Held(cd) = Held(c) \cup Held(d)
    BY <2>4, <2>5
  <2> QED BY <2>6 DEF cd
<1>5. Held(Append(c, e)) = Held(c) \cup {e}
  <2>1. \A i : i \in 1 .. Len(c) + 1 <=> i \in 1 .. Len(c) \/ i = Len(c) + 1
    BY <1>3
  <2> QED BY <1>2, <1>3, <2>1, Zenon DEF Held
<1>6. Held(<<>>) = {}
  BY DEF Held
<1> QED BY <1>1, <1>2, <1>4, <1>5, <1>6

\* The columns of a schema are bindings.
LEMMA ColsTyped ==
  ASSUME heap \in Seq(Seq(Bindings)), NEW s \in Schemas, Kept(s)
  PROVE  Cols(s) \in Seq(Bindings) /\ Entries(s) \subseteq Held(Cols(s))
<1>1. s.cols \in Seq(Bindings)
  BY DEF Schemas
<1>2. s.kind = "shared" => heap[s.obj] \in Seq(Bindings)
  BY LenProperties DEF Kept, InHeap
<1> QED BY <1>1, <1>2 DEF Cols, Entries

\* What is held is a binding.
LEMMA HeldTyped ==
  ASSUME NEW cols \in Seq(Bindings)
  PROVE  /\ Held(cols) \subseteq Bindings
         /\ \A e \in Bindings : e.id \in Nat /\ e.name \in Name \cup {None} /\ e = Binding(e.id, e.name)
         /\ \A n \in Nat : \A m \in Name \cup {None} :
              Binding(n, m) \in Bindings /\ Binding(n, m).id = n /\ Binding(n, m).name = m
<1>1. Held(cols) \subseteq Bindings
  BY LenProperties DEF Held
<1>2. ASSUME NEW e \in Bindings
      PROVE  e.id \in Nat /\ e.name \in Name \cup {None} /\ e = Binding(e.id, e.name)
  BY DEF Bindings, Binding
<1>3. ASSUME NEW n \in Nat, NEW m \in Name \cup {None}
      PROVE  Binding(n, m) \in Bindings /\ Binding(n, m).id = n /\ Binding(n, m).name = m
  BY DEF Bindings, Binding
<1> QED BY <1>1, <1>2, <1>3

\* Lookup finds a binding of the name, if there is one.
LEMMA LookupFinds ==
  ASSUME NEW cols \in Seq(Bindings), NEW n, Has(cols, n)
  PROVE  Lookup(cols, n) \in Held(cols) /\ Lookup(cols, n).name = n
<1> DEFINE S == {k \in DOMAIN cols : cols[k].name = n}
           P(k) == cols[k].name = n /\ \A j \in 1 .. k - 1 : cols[j].name # n
<1>1. DOMAIN cols = 1 .. Len(cols) /\ Len(cols) \in Nat
  BY LenProperties
<1>2. S \subseteq Nat /\ S # {}
  BY <1>1 DEF Has
<1>3. PICK k \in S : \A j \in S : k <= j
  <2> HIDE DEF S
  <2> QED BY <1>2, LeastElement
<1>4. k \in DOMAIN cols /\ P(k)
  <2>1. ASSUME NEW j \in 1 .. k - 1, cols[j].name = n PROVE FALSE
    <3>1. j \in S
      BY <1>1, <1>3, <2>1
    <3>2. k <= j
      BY <1>3, <3>1
    <3> QED BY <1>1, <1>3, <3>2
  <2> QED BY <1>3, <2>1
<1>5. Lookup(cols, n) = cols[CHOOSE i \in DOMAIN cols : P(i)]
  BY DEF Lookup
<1>6. (CHOOSE i \in DOMAIN cols : P(i)) \in DOMAIN cols /\ P(CHOOSE i \in DOMAIN cols : P(i))
  <2> HIDE DEF P
  <2> QED BY <1>4
<1> QED BY <1>5, <1>6 DEF Held

\* What an item gives its output a name by.
Gives(op, item) ==
  IF Copies(op, item) THEN {}
  ELSE IF item.name # None THEN {item.name}
  ELSE IF op = "extend" THEN {} ELSE {item.ref} \ {None}
Outs == [cols : Seq(Bindings), next : Nat]

\* One output is a binding of the item's name: fresh, without an id, or the input's.
LEMMA OneOutput ==
  ASSUME heap \in Seq(Seq(Bindings)), NEW in \in Schemas, Kept(in), NEW item \in Item, NEW n \in Nat
  PROVE  LET e == OutputOf(item, in, n)
         IN  /\ e \in Bindings
             /\ e.name = IF item.name # None THEN item.name ELSE item.ref
             /\ Fresh(item, in) => e.id = n
             /\ ~ Fresh(item, in) => e.id = 0 \/ e \in Entries(in)
<1>1. item.name \in Name \cup {None} /\ item.ref \in Name \cup {None}
  BY DEF Item
<1>2. Cols(in) \in Seq(Bindings)
  BY ColsTyped
<1>3. CASE Fresh(item, in)
  <2> DEFINE m == IF item.name # None THEN item.name ELSE item.ref
  <2>1. OutputOf(item, in, n) = Binding(n, m) /\ m \in Name \cup {None}
    BY <1>1, <1>3 DEF OutputOf
  <2> QED BY <1>3, <2>1 DEF Bindings, Binding
<1>4. CASE ~ Fresh(item, in) /\ IsNil(in)
  <2>1. OutputOf(item, in, n) = Binding(0, item.ref) /\ item.name = None
    BY <1>4 DEF OutputOf, Fresh
  <2> QED BY <1>1, <1>4, <2>1 DEF Bindings, Binding
<1>5. CASE ~ Fresh(item, in) /\ ~ IsNil(in)
  <2>1. OutputOf(item, in, n) = Lookup(Cols(in), item.ref) /\ item.name = None /\ Has(Cols(in), item.ref)
    BY <1>5 DEF OutputOf, Fresh
  <2>2. /\ Lookup(Cols(in), item.ref) \in Held(Cols(in))
        /\ Lookup(Cols(in), item.ref).name = item.ref
    BY <1>2, <2>1, LookupFinds
  <2>3. Held(Cols(in)) \subseteq Bindings
    BY <1>2, HeldTyped
  <2> QED BY <1>5, <2>1, <2>2, <2>3 DEF Entries
<1> QED BY <1>3, <1>4, <1>5

\* The input of a star, nothing, or one output more.
Adds(op, item, in, acc, r, e) ==
  \/ Copies(op, item) /\ r.next = acc.next /\ Held(r.cols) = Held(acc.cols) \cup Entries(in)
  \/ op = "extend" /\ item.name = None /\ ~ Copies(op, item) /\ r = acc
  \/ /\ ~ Copies(op, item) /\ (op = "extend" => item.name # None)
     /\ Held(r.cols) = Held(acc.cols) \cup {e}
     /\ r.next = IF Fresh(item, in) THEN acc.next + 1 ELSE acc.next

\* That is what an item adds to the bindings before it.
LEMMA ItemAdds ==
  ASSUME heap \in Seq(Seq(Bindings)), NEW in \in Schemas, Kept(in), NEW op, NEW item \in Item, NEW acc \in Outs
  PROVE  /\ AddOutput(op, item, in, acc) \in Outs
         /\ Adds(op, item, in, acc, AddOutput(op, item, in, acc), OutputOf(item, in, acc.next + 1))
<1> DEFINE e == OutputOf(item, in, acc.next + 1)
           r == AddOutput(op, item, in, acc)
<1> SUFFICES r \in Outs /\ Adds(op, item, in, acc, r, e)
  OBVIOUS
<1>1. acc.cols \in Seq(Bindings) /\ acc.next \in Nat /\ acc.next + 1 \in Nat
  BY DEF Outs
<1>2. CASE Copies(op, item)
  <2> DEFINE d == IF IsNil(in) THEN <<>> ELSE Cols(in)
  <2>1. d \in Seq(Bindings) /\ Held(d) = Entries(in)
    <3>1. Held(<<>>) = {}
      BY DEF Held
    <3> QED BY <3>1, ColsTyped, EmptySeq DEF Entries
  <2>2. AddOutput(op, item, in, acc) = [acc EXCEPT !.cols = acc.cols \o d]
    BY <1>2 DEF AddOutput
  <2> HIDE DEF d
  <2>3. acc.cols \o d \in Seq(Bindings) /\ Held(acc.cols \o d) = Held(acc.cols) \cup Held(d)
    <3>1. \A b \in Bindings : acc.cols \o d \in Seq(Bindings) /\ Held(acc.cols \o d) = Held(acc.cols) \cup Held(d)
      BY <1>1, <2>1, HeldTogether
    <3>2. Binding(0, None) \in Bindings
      BY DEF Bindings, Binding
    <3> QED BY <3>1, <3>2
  <2> QED BY <1>1, <1>2, <2>1, <2>2, <2>3 DEF Outs, Adds
<1>3. CASE ~ Copies(op, item) /\ op = "extend" /\ item.name = None
  BY <1>3 DEF AddOutput, Adds
<1>4. CASE ~ Copies(op, item) /\ ~ (op = "extend" /\ item.name = None)
  <2> DEFINE m == IF Fresh(item, in) THEN acc.next + 1 ELSE acc.next
  <2>1. e \in Bindings
    BY <1>1, OneOutput
  <2>2. AddOutput(op, item, in, acc) = [cols |-> Append(acc.cols, e), next |-> m]
    BY <1>4 DEF AddOutput
  <2>3. Append(acc.cols, e) \in Seq(Bindings) /\ Held(Append(acc.cols, e)) = Held(acc.cols) \cup {e}
    BY <1>1, <2>1, HeldTogether
  <2>4. m \in Nat
    BY <1>1
  <2> QED BY <1>4, <2>2, <2>3, <2>4 DEF Outs, Adds
<1> QED BY <1>2, <1>3, <1>4

\* The outputs of a stage, item by item.
LEMMA AddedUnfolds ==
  ASSUME heap \in Seq(Seq(Bindings)), NEW in \in Schemas, Kept(in), NEW op, NEW items \in Seq(Item), NEW first \in Nat
  PROVE  LET f == Added(op, items, in, first)
         IN  /\ f[0] = [cols |-> <<>>, next |-> first]
             /\ \A d \in 1 .. Len(items) : f[d] = AddOutput(op, items[d], in, f[d - 1])
             /\ \A d \in 0 .. Len(items) : f[d] \in Outs
<1> DEFINE n == Len(items)
           base == [cols |-> <<>>, next |-> first]
           T == [d \in 1 .. n |-> [acc \in Outs |-> AddOutput(op, items[d], in, acc)]]
           F(g) == g = [d \in 0 .. n |-> IF d = 0 THEN base ELSE AddOutput(op, items[d], in, g[d - 1])]
           f == Added(op, items, in, first)
<1>1. n \in Nat /\ \A d \in 1 .. n : items[d] \in Item
  BY LenProperties
<1>2. base \in Outs
  BY EmptySeq DEF Outs
<1>3. T \in [1 .. n -> [Outs -> Outs]]
  <2>1. ASSUME NEW d \in 1 .. n, NEW acc \in Outs PROVE AddOutput(op, items[d], in, acc) \in Outs
    BY <1>1, ItemAdds
  <2> QED BY <2>1
<1>4. PICK g : Iterates(g, Outs, n, base, T)
  <2> HIDE DEF T, base, n
  <2> QED BY <1>1, <1>2, <1>3, Iteration
<1>5. ASSUME NEW d \in 1 .. n PROVE g[d] = AddOutput(op, items[d], in, g[d - 1])
  <2>1. g[d - 1] \in Outs
    <3> HIDE DEF T, base, n
    <3> QED BY <1>1, <1>4 DEF Iterates
  <2>2. T[d] = [acc \in Outs |-> AddOutput(op, items[d], in, acc)]
    OBVIOUS
  <2> HIDE DEF T, base, n
  <2> QED BY <1>4, <2>1, <2>2 DEF Iterates
<1>6. F(g)
  <2> HIDE DEF T, base, n
  <2>1. ASSUME NEW d \in 0 .. n
        PROVE  g[d] = IF d = 0 THEN base ELSE AddOutput(op, items[d], in, g[d - 1])
    <3>1. d = 0 \/ d \in 1 .. n
      BY <1>1
    <3> QED BY <1>4, <1>5, <3>1 DEF Iterates
  <2> QED BY <1>4, <2>1 DEF Iterates
<1>7. F(f)
  <2>1. f = CHOOSE h : F(h)
    BY Zenon DEF Added
  <2> HIDE DEF F, f
  <2> QED BY <1>6, <2>1
<1>8. f[0] = base /\ \A d \in 1 .. n : f[d] = AddOutput(op, items[d], in, f[d - 1])
  <2> HIDE DEF f, base, n
  <2>1. \A d \in 0 .. n : f[d] = IF d = 0 THEN base ELSE AddOutput(op, items[d], in, f[d - 1])
    BY <1>7
  <2>2. f[0] = base
    <3>1. 0 \in 0 .. n
      BY <1>1
    <3> QED BY <2>1, <3>1, Zenon
  <2>3. ASSUME NEW d \in 1 .. n PROVE f[d] = AddOutput(op, items[d], in, f[d - 1])
    <3>1. d \in 0 .. n /\ d # 0
      BY <1>1
    <3> QED BY <2>1, <3>1
  <2> QED BY <2>2, <2>3
<1>9. ASSUME NEW d \in 0 .. n PROVE f[d] \in Outs
  <2> DEFINE S == {k \in Nat : k <= n => f[k] \in Outs}
  <2> HIDE DEF f, base, n, T
  <2>1. 0 \in S
    BY <1>1, <1>2, <1>8
  <2>2. ASSUME NEW k \in Nat, k \in S PROVE k + 1 \in S
    <3>1. CASE k + 1 <= n
      <4>1. k + 1 \in 1 .. n /\ k <= n /\ (k + 1) - 1 = k
        BY <1>1, <3>1
      <4>2. f[k] \in Outs /\ f[k + 1] = AddOutput(op, items[k + 1], in, f[k])
        BY <1>8, <2>2, <4>1
      <4>3. items[k + 1] \in Item
        BY <1>1, <4>1
      <4>4. AddOutput(op, items[k + 1], in, f[k]) \in Outs
        BY <4>2, <4>3, ItemAdds
      <4> QED BY <4>2, <4>4
    <3>2. CASE ~ (k + 1 <= n)
      BY <3>2
    <3> QED BY <3>1, <3>2
  <2>3. Nat \subseteq S
    <3> HIDE DEF S
    <3> QED BY <2>1, <2>2, SetInduction
  <2> QED BY <1>1, <2>3
<1> QED BY <1>8, <1>9

\* The names the first k items of a stage give its output.
NamesBy(op, item, in) == IF Copies(op, item) THEN Knows(Cols(in)) ELSE Gives(op, item)
GivenUpTo(op, items, in, k) == UNION {NamesBy(op, items[j], in) : j \in 1 .. k}

\* One more item gives its names as well.
LEMMA GivenByOneMore ==
  ASSUME NEW op, NEW items, NEW in, NEW k \in Nat
  PROVE  GivenUpTo(op, items, in, k + 1) = GivenUpTo(op, items, in, k) \cup NamesBy(op, items[k + 1], in)
<1>1. \A m \in Nat : \A x : x \in GivenUpTo(op, items, in, m) <=> \E j \in 1 .. m : x \in NamesBy(op, items[j], in)
  BY Zenon DEF GivenUpTo
<1>2. \A j : j \in 1 .. k + 1 <=> j \in 1 .. k \/ j = k + 1
  OBVIOUS
<1>3. k + 1 \in Nat
  OBVIOUS
<1> QED BY <1>1, <1>2, <1>3

\* The outputs of a stage have the names its items give.
LEMMA OutputNames ==
  ASSUME heap \in Seq(Seq(Bindings)), NEW in \in Schemas, Kept(in), ~ IsNil(in),
         NEW op, NEW items \in Seq(Item), NEW first \in Nat
  PROVE  Knows(Outputs(op, items, in, first).cols) = GivenUpTo(op, items, in, Len(items))
<1> DEFINE n == Len(items)
           f == Added(op, items, in, first)
           G(k) == GivenUpTo(op, items, in, k)
           S == {k \in Nat : k <= n => Knows(f[k].cols) = G(k)}
<1>1. n \in Nat /\ \A d \in 1 .. n : items[d] \in Item
  BY LenProperties
<1>2. /\ f[0] = [cols |-> <<>>, next |-> first]
      /\ \A d \in 1 .. n : f[d] = AddOutput(op, items[d], in, f[d - 1])
      /\ \A d \in 0 .. n : f[d] \in Outs
  BY AddedUnfolds
<1> HIDE DEF f
<1>3. 0 \in S
  <2>1. f[0].cols = <<>> /\ Held(<<>>) = {}
    BY <1>2 DEF Held
  <2>2. Knows(f[0].cols) = {}
    BY <2>1 DEF Knows
  <2>3. GivenUpTo(op, items, in, 0) = {}
    BY DEF GivenUpTo
  <2> QED BY <2>2, <2>3
<1>4. ASSUME NEW k \in Nat, k \in S PROVE k + 1 \in S
  <2> SUFFICES ASSUME k + 1 <= n PROVE Knows(f[k + 1].cols) = G(k + 1)
    OBVIOUS
  <2> DEFINE it == items[k + 1]
             e == OutputOf(it, in, f[k].next + 1)
  <2>1. k + 1 \in 1 .. n /\ k \in 0 .. n /\ k <= n /\ (k + 1) - 1 = k
    BY <1>1
  <2>2. f[k] \in Outs /\ f[k + 1] = AddOutput(op, it, in, f[k]) /\ it \in Item /\ Knows(f[k].cols) = G(k)
    BY <1>1, <1>2, <1>4, <2>1
  <2>3. f[k].next + 1 \in Nat
    BY <2>2 DEF Outs
  <2>4. \/ Copies(op, it) /\ Held(f[k + 1].cols) = Held(f[k].cols) \cup Entries(in)
        \/ op = "extend" /\ it.name = None /\ ~ Copies(op, it) /\ f[k + 1] = f[k]
        \/ /\ ~ Copies(op, it) /\ (op = "extend" => it.name # None)
           /\ Held(f[k + 1].cols) = Held(f[k].cols) \cup {e}
    <3>1. e = OutputOf(it, in, f[k].next + 1)
      OBVIOUS
    <3>2. f[k] \in Outs /\ it \in Item
      BY <2>2
    <3> HIDE DEF it, e
    <3>3. Adds(op, it, in, f[k], AddOutput(op, it, in, f[k]), OutputOf(it, in, f[k].next + 1))
      BY <3>2, ItemAdds
    <3>4. Adds(op, it, in, f[k], f[k + 1], e)
      BY <2>2, <3>1, <3>3
    <3> QED BY <3>4 DEF Adds
  <2>5. e.name = IF it.name # None THEN it.name ELSE it.ref
    BY <2>2, <2>3, OneOutput
  <2>6. Entries(in) = Held(Cols(in))
    BY DEF Entries
  <2>7. G(k + 1) = G(k) \cup NamesBy(op, it, in)
    BY GivenByOneMore
  <2> HIDE DEF it, e, G
  <2>8. CASE Copies(op, it) /\ Held(f[k + 1].cols) = Held(f[k].cols) \cup Entries(in)
    <3>1. Knows(f[k + 1].cols) = Knows(f[k].cols) \cup Knows(Cols(in))
      BY <2>6, <2>8 DEF Knows
    <3>2. NamesBy(op, it, in) = Knows(Cols(in))
      BY <2>8 DEF NamesBy
    <3> QED BY <2>2, <2>7, <2>8, <3>1, <3>2
  <2>9. CASE op = "extend" /\ it.name = None /\ ~ Copies(op, it) /\ f[k + 1] = f[k]
    <3>1. NamesBy(op, it, in) = {}
      BY <2>9 DEF Gives, NamesBy
    <3> QED BY <2>2, <2>7, <2>9, <3>1
  <2>10. CASE /\ ~ Copies(op, it) /\ (op = "extend" => it.name # None)
              /\ Held(f[k + 1].cols) = Held(f[k].cols) \cup {e}
    <3>1. Knows(f[k + 1].cols) = Knows(f[k].cols) \cup ({e.name} \ {None})
      BY <2>10 DEF Knows
    <3>2. NamesBy(op, it, in) = {e.name} \ {None}
      BY <2>5, <2>10 DEF Gives, NamesBy
    <3> QED BY <2>2, <2>7, <2>10, <3>1, <3>2
  <2> QED BY <2>4, <2>8, <2>9, <2>10
<1>5. Nat \subseteq S
  <2> HIDE DEF S
  <2> QED BY <1>3, <1>4, SetInduction
<1>6. Knows(f[n].cols) = G(n)
  BY <1>1, <1>5
<1> QED BY <1>6, Zenon DEF Outputs, f

\* The outputs of a stage, beside bindings no id of which stands for two names, leave no
\* id that does.
LEMMA OutputIDs ==
  ASSUME heap \in Seq(Seq(Bindings)), NEW in \in Schemas, Kept(in),
         NEW op, NEW items \in Seq(Item), NEW first \in Nat,
         NEW bs, bs \subseteq Bindings, Entries(in) \subseteq bs, OneName(bs, first)
  PROVE  LET out == Outputs(op, items, in, first)
         IN  out \in Outs /\ OneName(bs \cup Held(out.cols), out.next)
<1> DEFINE n == Len(items)
           f == Added(op, items, in, first)
           S == {k \in Nat : k <= n => OneName(bs \cup Held(f[k].cols), f[k].next)}
<1>1. n \in Nat /\ \A d \in 1 .. n : items[d] \in Item
  BY LenProperties
<1>2. /\ f[0] = [cols |-> <<>>, next |-> first]
      /\ \A d \in 1 .. n : f[d] = AddOutput(op, items[d], in, f[d - 1])
      /\ \A d \in 0 .. n : f[d] \in Outs
  BY AddedUnfolds
<1> HIDE DEF f
<1>3. 0 \in S
  <2>1. f[0].cols = <<>> /\ f[0].next = first /\ Held(<<>>) = {}
    BY <1>2 DEF Held
  <2>2. bs \cup Held(f[0].cols) = bs
    BY <2>1
  <2> QED BY <2>1, <2>2
<1>4. ASSUME NEW k \in Nat, k \in S PROVE k + 1 \in S
  <2> SUFFICES ASSUME k + 1 <= n PROVE OneName(bs \cup Held(f[k + 1].cols), f[k + 1].next)
    OBVIOUS
  <2> DEFINE it == items[k + 1]
             m == f[k].next
             e == OutputOf(it, in, m + 1)
             cs == bs \cup Held(f[k].cols)
  <2>1. k + 1 \in 1 .. n /\ k \in 0 .. n /\ k <= n /\ (k + 1) - 1 = k
    BY <1>1
  <2>2. f[k] \in Outs /\ f[k + 1] = AddOutput(op, it, in, f[k]) /\ it \in Item /\ OneName(cs, m)
    BY <1>1, <1>2, <1>4, <2>1
  <2>3. m \in Nat /\ m + 1 \in Nat /\ f[k].cols \in Seq(Bindings)
    BY <2>2 DEF Outs
  <2>4. cs \subseteq Bindings
    BY <2>3, HeldTyped
  <2>5. \/ Held(f[k + 1].cols) = Held(f[k].cols) \cup Entries(in) /\ f[k + 1].next = m
        \/ f[k + 1] = f[k]
        \/ /\ Held(f[k + 1].cols) = Held(f[k].cols) \cup {e}
           /\ f[k + 1].next = IF Fresh(it, in) THEN m + 1 ELSE m
    <3>1. e = OutputOf(it, in, f[k].next + 1) /\ m = f[k].next
      OBVIOUS
    <3>2. f[k] \in Outs /\ it \in Item
      BY <2>2
    <3> HIDE DEF it, e, m
    <3>3. Adds(op, it, in, f[k], AddOutput(op, it, in, f[k]), OutputOf(it, in, f[k].next + 1))
      BY <3>2, ItemAdds
    <3>4. Adds(op, it, in, f[k], f[k + 1], e)
      BY <2>2, <3>1, <3>3
    <3> QED BY <3>1, <3>4 DEF Adds
  <2>6. /\ e \in Bindings
        /\ Fresh(it, in) => e.id = m + 1
        /\ ~ Fresh(it, in) => e.id = 0 \/ e \in Entries(in)
    BY <2>2, <2>3, OneOutput
  <2> HIDE DEF it, e, m, cs
  <2>7. CASE Held(f[k + 1].cols) = Held(f[k].cols) \cup Entries(in) /\ f[k + 1].next = m
    <3>1. bs \cup Held(f[k + 1].cols) = cs
      BY <2>7 DEF cs
    <3> QED BY <2>2, <2>7, <3>1
  <2>8. CASE f[k + 1] = f[k]
    BY <2>2, <2>8 DEF cs, m
  <2>9. CASE /\ Held(f[k + 1].cols) = Held(f[k].cols) \cup {e}
             /\ f[k + 1].next = IF Fresh(it, in) THEN m + 1 ELSE m
    <3>1. bs \cup Held(f[k + 1].cols) = cs \cup {e}
      BY <2>9 DEF cs
    <3>2. \A d \in cs : d.id \in Nat /\ d.id <= m
      BY <2>2, <2>4, HeldTyped DEF OneName, Bindings
    <3>3. CASE Fresh(it, in)
      <4>1. e.id = m + 1 /\ f[k + 1].next = m + 1
        BY <2>6, <2>9, <3>3
      <4>2. \A d \in cs : d.id <= m + 1 /\ d.id # m + 1
        BY <2>3, <3>2
      <4> QED BY <2>2, <2>3, <3>1, <4>1, <4>2 DEF OneName
    <3>4. CASE ~ Fresh(it, in) /\ e.id = 0
      <4>1. f[k + 1].next = m
        BY <2>9, <3>4
      <4> QED BY <2>2, <2>3, <3>1, <3>4, <4>1 DEF OneName
    <3>5. CASE ~ Fresh(it, in) /\ e \in Entries(in)
      <4>1. f[k + 1].next = m /\ cs \cup {e} = cs
        BY <2>9, <3>5 DEF cs
      <4> QED BY <2>2, <3>1, <4>1
    <3> QED BY <2>6, <3>3, <3>4, <3>5
  <2> QED BY <2>5, <2>7, <2>8, <2>9
<1>5. Nat \subseteq S
  <2> HIDE DEF S
  <2> QED BY <1>3, <1>4, SetInduction
<1>6. OneName(bs \cup Held(f[n].cols), f[n].next)
  <2>1. n \in S /\ n <= n
    <3> HIDE DEF S
    <3> QED BY <1>1, <1>5
  <2> HIDE DEF n
  <2> QED BY <2>1, Zenon
<1>7. f[n] \in Outs
  BY <1>1, <1>2
<1> QED BY <1>6, <1>7, Zenon DEF Outputs, f

\* What the items of a stage give is what its text says.
LEMMA GivenByText ==
  ASSUME NEW st \in StageSet, NEW in
  PROVE  /\ st.op = "extend" => GivenUpTo(st.op, st.items, in, Len(st.items)) = GivenBy(st)
         /\ st.op \in {"project", "aggregate"} =>
              GivenUpTo(st.op, st.items, in, Len(st.items)) =
                GivenBy(st) \cup BareRefs(st) \cup (IF Plain(st) # DOMAIN st.items THEN Knows(Cols(in)) ELSE {})
<1> DEFINE op == st.op
           items == st.items
           G == GivenUpTo(op, items, in, Len(items))
<1>1. DOMAIN items = 1 .. Len(items)
  BY LenProperties DEF StageSet
<1>2. \A x : x \in G <=> \E j \in DOMAIN items : x \in NamesBy(op, items[j], in)
  BY <1>1, Zenon DEF GivenUpTo
<1>3. \A x : x \in GivenBy(st) <=> x # None /\ \E j \in DOMAIN items : ~ Copies(op, items[j]) /\ items[j].name = x
  BY DEF GivenBy, Plain
<1>4. \A x : x \in BareRefs(st) <=>
        x # None /\ \E j \in DOMAIN items : ~ Copies(op, items[j]) /\ items[j].name = None /\ items[j].ref = x
  BY DEF BareRefs, Plain
<1>5. Plain(st) # DOMAIN items <=> \E j \in DOMAIN items : Copies(op, items[j])
  BY DEF Plain
<1>6. \A j, x : op = "extend" => (x \in NamesBy(op, items[j], in) <=> x # None /\ items[j].name = x)
  BY DEF NamesBy, Gives, Copies
<1>7. \A j, x : op \in {"project", "aggregate"} =>
        (x \in NamesBy(op, items[j], in) <=>
           \/ Copies(op, items[j]) /\ x \in Knows(Cols(in))
           \/ x # None /\ ~ Copies(op, items[j]) /\ items[j].name = x
           \/ x # None /\ ~ Copies(op, items[j]) /\ items[j].name = None /\ items[j].ref = x)
  BY DEF NamesBy, Gives
<1>8. \A j : op = "extend" => ~ Copies(op, items[j])
  BY DEF Copies
<1> HIDE DEF op, items, G
<1>9. ASSUME op = "extend" PROVE G = GivenBy(st)
  <2>1. ASSUME NEW x PROVE x \in G <=> x \in GivenBy(st)
    <3>1. \A j : x \in NamesBy(op, items[j], in) <=> x # None /\ items[j].name = x
      BY <1>6, <1>9
    <3>2. x \in G <=> x # None /\ \E j \in DOMAIN items : items[j].name = x
      BY <1>2, <3>1, Zenon
    <3>3. x \in GivenBy(st) <=> x # None /\ \E j \in DOMAIN items : items[j].name = x
      BY <1>3, <1>8, <1>9, Zenon
    <3> QED BY <3>2, <3>3, Zenon
  <2> QED BY <2>1
<1>10. ASSUME op \in {"project", "aggregate"}
       PROVE  G = GivenBy(st) \cup BareRefs(st) \cup (IF Plain(st) # DOMAIN items THEN Knows(Cols(in)) ELSE {})
  <2>1. ASSUME NEW x
        PROVE  x \in G <=> \/ x \in GivenBy(st) \/ x \in BareRefs(st)
                           \/ Plain(st) # DOMAIN items /\ x \in Knows(Cols(in))
    <3>1. \A j : x \in NamesBy(op, items[j], in) <=>
                 \/ Copies(op, items[j]) /\ x \in Knows(Cols(in))
                 \/ x # None /\ ~ Copies(op, items[j]) /\ items[j].name = x
                 \/ x # None /\ ~ Copies(op, items[j]) /\ items[j].name = None /\ items[j].ref = x
      BY <1>7, <1>10
    <3>2. ASSUME x \in G
          PROVE  x \in GivenBy(st) \/ x \in BareRefs(st) \/ (Plain(st) # DOMAIN items /\ x \in Knows(Cols(in)))
      <4>1. PICK j \in DOMAIN items : x \in NamesBy(op, items[j], in)
        BY <1>2, <3>2, Zenon
      <4>2. CASE Copies(op, items[j]) /\ x \in Knows(Cols(in))
        BY <1>5, <4>1, <4>2, Zenon
      <4>3. CASE x # None /\ ~ Copies(op, items[j]) /\ items[j].name = x
        BY <1>3, <4>1, <4>3, Zenon
      <4>4. CASE x # None /\ ~ Copies(op, items[j]) /\ items[j].name = None /\ items[j].ref = x
        BY <1>4, <4>1, <4>4, Zenon
      <4> QED BY <3>1, <4>1, <4>2, <4>3, <4>4, Zenon
    <3>3. ASSUME NEW j \in DOMAIN items, x \in NamesBy(op, items[j], in) PROVE x \in G
      BY <1>2, <3>3, Zenon
    <3>4. ASSUME x \in GivenBy(st) PROVE x \in G
      <4>1. x # None
        BY <1>3, <3>4, Zenon
      <4>2. PICK j \in DOMAIN items : ~ Copies(op, items[j]) /\ items[j].name = x
        BY <1>3, <3>4, Zenon
      <4> QED BY <3>1, <3>3, <4>1, <4>2, Zenon
    <3>5. ASSUME x \in BareRefs(st) PROVE x \in G
      <4>1. x # None
        BY <1>4, <3>5, Zenon
      <4>2. PICK j \in DOMAIN items : ~ Copies(op, items[j]) /\ items[j].name = None /\ items[j].ref = x
        BY <1>4, <3>5, Zenon
      <4> QED BY <3>1, <3>3, <4>1, <4>2, Zenon
    <3>6. ASSUME Plain(st) # DOMAIN items, x \in Knows(Cols(in)) PROVE x \in G
      <4>1. PICK j \in DOMAIN items : Copies(op, items[j])
        BY <1>5, <3>6, Zenon
      <4> QED BY <3>1, <3>3, <3>6, <4>1, Zenon
    <3> QED BY <3>2, <3>4, <3>5, <3>6, Zenon
  <2> QED BY <2>1
<1> QED BY <1>9, <1>10 DEF op, items, G

\* Bindings of the caller's own are a schema, and what it has.
LEMMA OwnSchema ==
  ASSUME NEW cols \in Seq(Bindings)
  PROVE  /\ Own(cols) \in Schemas /\ Kept(Own(cols)) /\ ~ IsNil(Own(cols))
         /\ Cols(Own(cols)) = cols /\ Entries(Own(cols)) = Held(cols)
BY DEF Own, Schemas, Kept, IsNil, Cols, Entries

\* The bindings a schema carries into the output of an extend or a join.
Carried(s) == IF IsNil(s) THEN <<>> ELSE Cols(s)

\* They are those a stage finds in the schema.
LEMMA CarriedEntries ==
  ASSUME heap \in Seq(Seq(Bindings)), NEW s \in Schemas, Kept(s)
  PROVE  /\ Carried(s) \in Seq(Bindings) /\ Held(Carried(s)) = Entries(s) /\ Entries(s) \subseteq Bindings
         /\ ~ IsNil(s) => Knows(Carried(s)) = Knows(Cols(s))
<1>1. Cols(s) \in Seq(Bindings)
  BY ColsTyped
<1>2. Held(<<>>) = {} /\ Held(Cols(s)) \subseteq Bindings
  BY <1>1, HeldTyped DEF Held
<1> QED BY <1>1, <1>2, EmptySeq DEF Carried, Entries

\* One schema behind the other has the entries and the names of both.
LEMMA CarriedTogether ==
  ASSUME NEW c \in Seq(Bindings), NEW d \in Seq(Bindings)
  PROVE  /\ c \o d \in Seq(Bindings) /\ Held(c \o d) = Held(c) \cup Held(d)
         /\ Knows(c \o d) = Knows(c) \cup Knows(d)
<1>1. Binding(0, None) \in Bindings
  BY DEF Bindings, Binding
<1>2. c \o d \in Seq(Bindings) /\ Held(c \o d) = Held(c) \cup Held(d)
  BY <1>1, HeldTogether, Zenon
<1> DEFINE cd == c \o d
<1> HIDE DEF cd
<1>3. Held(cd) = Held(c) \cup Held(d)
  BY <1>2 DEF cd
<1>4. Knows(cd) = Knows(c) \cup Knows(d)
  BY <1>3 DEF Knows
<1> QED BY <1>2, <1>4 DEF cd

\* The output of a stage is its input, or bindings of its own made from the input, its
\* items and the right side of a join.
Output(st, in, right, first, s, n) ==
  LET own == Outputs(st.op, st.items, in, first)
  IN  \/ st.op \in {"pass", "union"} /\ s = in /\ n = first
      \/ st.op \in {"project", "aggregate"} /\ s = Own(own.cols) /\ n = own.next
      \/ st.op = "extend" /\ s = Own(Carried(in) \o own.cols) /\ n = own.next
      \/ st.op = "join" /\ IsNil(in) /\ s = in /\ n = first
      \/ st.op = "join" /\ ~ IsNil(in) /\ s = Own(Carried(in) \o Carried(right)) /\ n = first

\* StageOutput is one of those.
LEMMA StageOutputs ==
  ASSUME NEW st \in StageSet, NEW in, NEW right, NEW first
  PROVE  Output(st, in, right, first, StageOutput(st, in, right, first).schema, StageOutput(st, in, right, first).next)
<1>1. st.op \in StageOps
  BY DEF StageSet
<1>2. CASE st.op \in {"pass", "union"}
  BY <1>2 DEF StageOutput, Output
<1>3. CASE st.op \in {"project", "aggregate"}
  BY <1>3 DEF StageOutput, Output
<1>4. CASE st.op = "extend"
  BY <1>4 DEF StageOutput, Output, Carried
<1>5. CASE st.op = "join"
  BY <1>5 DEF StageOutput, Output, Carried
<1> QED BY <1>1, <1>2, <1>3, <1>4, <1>5 DEF StageOps

\* The output of a stage is a schema, of a shared object only if its input is.
LEMMA StageTyped ==
  ASSUME heap \in Seq(Seq(Bindings)), NEW st \in StageSet, NEW in \in Schemas, Kept(in),
         NEW right \in Schemas, Kept(right), NEW first \in Nat,
         NEW s, NEW n, Output(st, in, right, first, s, n)
  PROVE  s \in Schemas /\ Kept(s) /\ n \in Nat
<1> DEFINE own == Outputs(st.op, st.items, in, first)
<1>1. own \in Outs
  <2>1. st.items \in Seq(Item)
    BY DEF StageSet
  <2>2. Len(st.items) \in 0 .. Len(st.items)
    BY <2>1, LenProperties
  <2> QED BY <2>1, <2>2, AddedUnfolds DEF Outputs
<1>2. own.cols \in Seq(Bindings) /\ own.next \in Nat
  BY <1>1 DEF Outs
<1>3. Carried(in) \in Seq(Bindings) /\ Carried(right) \in Seq(Bindings)
  BY CarriedEntries
<1>4. Carried(in) \o own.cols \in Seq(Bindings) /\ Carried(in) \o Carried(right) \in Seq(Bindings)
  BY <1>2, <1>3, CarriedTogether
<1> HIDE DEF own
<1>5. \/ s = in /\ n = first
      \/ s = Own(own.cols) /\ n = own.next
      \/ s = Own(Carried(in) \o own.cols) /\ n = own.next
      \/ s = Own(Carried(in) \o Carried(right)) /\ n = first
  BY DEF Output, own
<1> QED BY <1>2, <1>4, <1>5, OwnSchema

\* At a join, the right side has the names of its table.
SideKnown(st, right) ==
  st.op = "join" => ~ IsNil(right) /\ Knows(Cols(right)) = NamesOf(TableOf[Source[st.subs[1]]])

\* A stage over tables leaves the names its pipeline's text says.
LEMMA StageNames ==
  ASSUME HeapInv, NEW p \in FromTables, NEW k \in DOMAIN Stages[p],
         NEW in \in Schemas, Kept(in), NEW right \in Schemas, Kept(right), NEW first \in Nat,
         ~ IsNil(in), Knows(Cols(in)) = Scope[p][k],
         SideKnown(Stages[p][k], right),
         NEW s, NEW n, Output(Stages[p][k], in, right, first, s, n)
  PROVE  ~ IsNil(s) /\ Knows(Cols(s)) = Leaves(Stages[p][k], Scope[p][k])
<1>0. heap \in Seq(Seq(Bindings))
  BY DEF HeapInv
<1> DEFINE st == Stages[p][k]
           own == Outputs(st.op, st.items, in, first)
<1>1. st \in StageSet /\ st.items \in Seq(Item)
  BY JoinSide DEF FromTables, StageSet
<1>2. own.cols \in Seq(Bindings)
  <2>1. Len(st.items) \in 0 .. Len(st.items)
    BY <1>1, LenProperties
  <2>2. own \in Outs
    BY <1>0, <1>1, <2>1, AddedUnfolds DEF Outputs
  <2> QED BY <2>2 DEF Outs
<1>3. Knows(own.cols) = GivenUpTo(st.op, st.items, in, Len(st.items))
  BY <1>0, <1>1, OutputNames
<1>4. Carried(in) \in Seq(Bindings) /\ Knows(Carried(in)) = Scope[p][k] /\ Carried(right) \in Seq(Bindings)
  BY <1>0, CarriedEntries
<1>5. st.op = "join" => Knows(Carried(right)) = NamesOf(TableOf[Source[st.subs[1]]])
  BY <1>0, CarriedEntries DEF SideKnown
<1>6. Output(st, in, right, first, s, n)
  OBVIOUS
<1> HIDE DEF st, own
<1> SUFFICES ~ IsNil(s) /\ Knows(Cols(s)) = Leaves(st, Scope[p][k])
  BY DEF st
<1>7. CASE st.op \in {"pass", "union"}
  <2>1. s = in
    BY <1>6, <1>7 DEF Output
  <2> QED BY <1>7, <2>1 DEF Leaves
<1>8. CASE st.op \in {"project", "aggregate"}
  <2>1. s = Own(own.cols)
    BY <1>6, <1>8 DEF Output, own
  <2>2. ~ IsNil(s) /\ Cols(s) = own.cols
    BY <1>2, <2>1, OwnSchema
  <2>3. Knows(own.cols) = GivenBy(st) \cup BareRefs(st) \cup (IF Plain(st) # DOMAIN st.items THEN Scope[p][k] ELSE {})
    BY <1>1, <1>3, <1>8, GivenByText
  <2> QED BY <1>8, <2>2, <2>3 DEF Leaves
<1>9. CASE st.op = "extend"
  <2>1. s = Own(Carried(in) \o own.cols)
    BY <1>6, <1>9 DEF Output, own
  <2>2. Carried(in) \o own.cols \in Seq(Bindings) /\ Knows(Carried(in) \o own.cols) = Scope[p][k] \cup Knows(own.cols)
    BY <1>2, <1>4, CarriedTogether
  <2>3. ~ IsNil(s) /\ Knows(Cols(s)) = Scope[p][k] \cup Knows(own.cols)
    BY <2>1, <2>2, OwnSchema
  <2>4. Knows(own.cols) = GivenBy(st)
    BY <1>1, <1>3, <1>9, GivenByText
  <2> QED BY <1>9, <2>3, <2>4 DEF Leaves
<1>10. CASE st.op = "join"
  <2>1. s = Own(Carried(in) \o Carried(right))
    BY <1>6, <1>10 DEF Output
  <2>2. /\ Carried(in) \o Carried(right) \in Seq(Bindings)
        /\ Knows(Carried(in) \o Carried(right)) = Scope[p][k] \cup Knows(Carried(right))
    BY <1>4, CarriedTogether
  <2>3. ~ IsNil(s) /\ Knows(Cols(s)) = Scope[p][k] \cup Knows(Carried(right))
    BY <2>1, <2>2, OwnSchema
  <2> QED BY <1>5, <1>10, <2>3 DEF Leaves
<1> QED BY <1>1, <1>7, <1>8, <1>9, <1>10 DEF StageSet, StageOps

\* A smaller set of bindings gives no id a second name either.
LEMMA FewerIDs ==
  ASSUME NEW bs, NEW cs, cs \subseteq bs, NEW n, OneName(bs, n)
  PROVE  OneName(cs, n)
BY DEF OneName

\* The output of a stage, beside the bindings at hand, gives no id a second name.
LEMMA StageIDs ==
  ASSUME heap \in Seq(Seq(Bindings)), NEW st \in StageSet, NEW in \in Schemas, Kept(in),
         NEW right \in Schemas, Kept(right), NEW first \in Nat,
         NEW bs, bs \subseteq Bindings, Entries(in) \subseteq bs, Entries(right) \subseteq bs, OneName(bs, first),
         NEW s, NEW n, Output(st, in, right, first, s, n)
  PROVE  OneName(bs \cup Entries(s), n)
<1> DEFINE own == Outputs(st.op, st.items, in, first)
<1>1. st.items \in Seq(Item)
  BY DEF StageSet
<1>2. own \in Outs /\ OneName(bs \cup Held(own.cols), own.next)
  BY <1>1, OutputIDs
<1>3. own.cols \in Seq(Bindings)
  BY <1>2 DEF Outs
<1>4. /\ Carried(in) \in Seq(Bindings) /\ Held(Carried(in)) \subseteq bs
      /\ Carried(right) \in Seq(Bindings) /\ Held(Carried(right)) \subseteq bs
  BY CarriedEntries
<1> HIDE DEF own
<1>5. CASE s = in /\ n = first
  <2>1. bs \cup Entries(s) = bs
    BY <1>5
  <2> QED BY <1>5, <2>1
<1>6. CASE s = Own(own.cols) /\ n = own.next
  BY <1>2, <1>3, <1>6, OwnSchema
<1>7. CASE s = Own(Carried(in) \o own.cols) /\ n = own.next
  <2>1. Carried(in) \o own.cols \in Seq(Bindings) /\ Held(Carried(in) \o own.cols) = Held(Carried(in)) \cup Held(own.cols)
    BY <1>3, <1>4, CarriedTogether
  <2>2. Entries(s) = Held(Carried(in)) \cup Held(own.cols)
    BY <1>7, <2>1, OwnSchema
  <2>3. bs \cup Entries(s) = bs \cup Held(own.cols)
    BY <1>4, <2>2
  <2> QED BY <1>2, <1>7, <2>3
<1>8. CASE s = Own(Carried(in) \o Carried(right)) /\ n = first
  <2>1. /\ Carried(in) \o Carried(right) \in Seq(Bindings)
        /\ Held(Carried(in) \o Carried(right)) = Held(Carried(in)) \cup Held(Carried(right))
    BY <1>4, CarriedTogether
  <2>2. Entries(s) = Held(Carried(in)) \cup Held(Carried(right))
    BY <1>8, <2>1, OwnSchema
  <2>3. bs \cup Entries(s) = bs
    BY <1>4, <2>2
  <2> QED BY <1>8, <2>3
<1>9. \/ s = in /\ n = first
      \/ s = Own(own.cols) /\ n = own.next
      \/ s = Own(Carried(in) \o own.cols) /\ n = own.next
      \/ s = Own(Carried(in) \o Carried(right)) /\ n = first
  BY DEF Output, own
<1> QED BY <1>5, <1>6, <1>7, <1>8, <1>9

-----------------------------------------------------------------------------
(* What a step leaves alone *)

\* The stack of calls with its innermost call changed, and with one more.
LEMMA Stacks ==
  ASSUME NEW fs \in Seq(Calls), NEW g \in Calls
  PROVE  /\ fs # <<>> => 1 \in DOMAIN fs /\ Head(fs) = fs[1] /\ Tail(fs) \in Seq(Calls)
         /\ fs # <<>> =>
              /\ <<g>> \o Tail(fs) \in Seq(Calls)
              /\ DOMAIN (<<g>> \o Tail(fs)) = DOMAIN fs
              /\ (<<g>> \o Tail(fs))[1] = g
              /\ \A k \in DOMAIN fs : k # 1 => (<<g>> \o Tail(fs))[k] = fs[k]
         /\ <<g>> \o fs \in Seq(Calls)
         /\ DOMAIN (<<g>> \o fs) = 1 .. Len(fs) + 1
         /\ (<<g>> \o fs)[1] = g
         /\ \A k \in DOMAIN fs : (<<g>> \o fs)[k + 1] = fs[k]
<1>1. fs \in [1 .. Len(fs) -> Calls] /\ Len(fs) \in Nat /\ DOMAIN fs = 1 .. Len(fs)
  BY LenProperties
<1>2. <<g>> \in Seq(Calls) /\ Len(<<g>>) = 1 /\ <<g>>[1] = g
  OBVIOUS
<1>3. ASSUME NEW d \in Seq(Calls)
      PROVE  /\ <<g>> \o d \in Seq(Calls) /\ DOMAIN (<<g>> \o d) = 1 .. Len(d) + 1
             /\ (<<g>> \o d)[1] = g
             /\ \A k \in 1 .. Len(d) : (<<g>> \o d)[k + 1] = d[k]
  <2> DEFINE one == <<g>>
             cat == one \o d
  <2>1. /\ cat \in Seq(Calls) /\ Len(cat) = Len(one) + Len(d)
        /\ \A i \in 1 .. Len(one) + Len(d) : cat[i] = IF i <= Len(one) THEN one[i] ELSE d[i - Len(one)]
    <3> HIDE DEF one
    <3> QED BY <1>2, ConcatProperties DEF one
  <2>2. Len(one) = 1 /\ one[1] = g /\ Len(d) \in Nat
    BY <1>2, LenProperties
  <2> HIDE DEF one, cat
  <2>3. DOMAIN cat = 1 .. Len(d) + 1
    <3>1. DOMAIN cat = 1 .. Len(cat) /\ Len(cat) = Len(d) + 1
      BY <2>1, <2>2, LenProperties
    <3> QED BY <3>1
  <2>4. cat[1] = g
    BY <2>1, <2>2
  <2>5. ASSUME NEW k \in 1 .. Len(d) PROVE cat[k + 1] = d[k]
    <3>1. k + 1 \in 1 .. 1 + Len(d) /\ ~ (k + 1 <= 1) /\ (k + 1) - 1 = k
      BY <2>2
    <3> QED BY <2>1, <2>2, <3>1
  <2> QED BY <2>1, <2>3, <2>4, <2>5 DEF cat, one
<1>4. ASSUME fs # <<>>
      PROVE  /\ 1 \in DOMAIN fs /\ Head(fs) = fs[1] /\ Tail(fs) \in Seq(Calls)
             /\ Len(Tail(fs)) = Len(fs) - 1 /\ \A k \in 1 .. Len(fs) - 1 : Tail(fs)[k] = fs[k + 1]
  <2>1. Len(fs) > 0
    BY <1>1, <1>4, EmptySeq
  <2> QED BY <1>1, <1>4, <2>1, HeadTailProperties
<1>5. ASSUME fs # <<>>
      PROVE  /\ DOMAIN (<<g>> \o Tail(fs)) = DOMAIN fs
             /\ \A k \in DOMAIN fs : k # 1 => (<<g>> \o Tail(fs))[k] = fs[k]
  <2> DEFINE cat == <<g>> \o Tail(fs)
  <2>1. DOMAIN cat = 1 .. Len(Tail(fs)) + 1 /\ \A k \in 1 .. Len(Tail(fs)) : cat[k + 1] = Tail(fs)[k]
    BY <1>3, <1>4, <1>5, Zenon
  <2>2. Len(Tail(fs)) = Len(fs) - 1 /\ \A k \in 1 .. Len(fs) - 1 : Tail(fs)[k] = fs[k + 1]
    BY <1>4, <1>5
  <2> HIDE DEF cat
  <2>3. DOMAIN cat = DOMAIN fs
    BY <1>1, <2>1, <2>2
  <2>4. ASSUME NEW k \in DOMAIN fs, k # 1 PROVE cat[k] = fs[k]
    <3>1. k - 1 \in 1 .. Len(fs) - 1 /\ (k - 1) + 1 = k
      BY <1>1, <2>4
    <3>2. cat[(k - 1) + 1] = Tail(fs)[k - 1] /\ Tail(fs)[k - 1] = fs[(k - 1) + 1]
      BY <2>1, <2>2, <3>1
    <3> QED BY <3>1, <3>2
  <2> QED BY <2>3, <2>4 DEF cat
<1> QED BY <1>1, <1>3, <1>4, <1>5, Zenon

\* The heap keeps its objects, and they keep their columns' names.
Grown ==
  /\ heap \in Seq(Seq(Bindings)) /\ heap' \in Seq(Seq(Bindings))
  /\ \A o \in DOMAIN heap :
       /\ o \in DOMAIN heap' /\ DOMAIN heap'[o] = DOMAIN heap[o]
       /\ \A c \in DOMAIN heap[o] : heap'[o][c].name = heap[o][c].name

\* What is known of an object stays known, whoever writes ids into it.
LEMMA ObjectKept ==
  ASSUME Grown, NEW obj, NEW tb \in Table, Object(obj, tb)
  PROVE  Object(obj, tb)'
BY DEF Grown, Object, InHeap

\* And so do the names of a schema, shared or not.
LEMMA SchemaKept ==
  ASSUME Grown, NEW s \in Schemas, Kept(s)
  PROVE  Kept(s)' /\ Knows(Cols(s))' = Knows(Cols(s))
<1>1. Kept(s)'
  BY DEF Grown, Kept, InHeap
<1>2. CASE s.kind = "shared"
  <2>1. s.obj \in DOMAIN heap /\ Cols(s) = heap[s.obj] /\ Cols(s)' = heap'[s.obj]
    BY <1>2 DEF Kept, InHeap, Cols
  <2>2. DOMAIN heap'[s.obj] = DOMAIN heap[s.obj] /\ \A c \in DOMAIN heap[s.obj] : heap'[s.obj][c].name = heap[s.obj][c].name
    BY <2>1 DEF Grown
  <2>3. /\ Knows(Cols(s)) = {heap[s.obj][c].name : c \in DOMAIN heap[s.obj]} \ {None}
        /\ Knows(Cols(s))' = {heap'[s.obj][c].name : c \in DOMAIN heap'[s.obj]} \ {None}
    BY <2>1 DEF Knows, Held
  <2> QED BY <1>1, <2>2, <2>3
<1>3. CASE s.kind # "shared"
  BY <1>1, <1>3 DEF Cols, Knows, Held
<1> QED BY <1>2, <1>3

\* What is known of a call stays known.
LEMMA CallKept ==
  ASSUME Grown, NEW f, CallOK(f)
  PROVE  CallOK(f)' /\ (ScopeOK(f) => ScopeOK(f)')
<1>1. f \in Calls /\ f.in \in Schemas /\ f.right \in Schemas
  BY DEF CallOK, Calls
<1>2. /\ Kept(f.in)' /\ Knows(Cols(f.in))' = Knows(Cols(f.in))
      /\ Kept(f.right)' /\ Knows(Cols(f.right))' = Knows(Cols(f.right))
  BY <1>1, SchemaKept DEF CallOK
<1>3. f.step \in {"store", "alloc"} => Object(f.obj, TableOf[f.source])'
  <2> SUFFICES ASSUME f.step \in {"store", "alloc"} PROVE Object(f.obj, TableOf[f.source])'
    OBVIOUS
  <2>1. f.source \in Spelling /\ Object(f.obj, TableOf[f.source])
    BY <1>1 DEF CallOK, Calls
  <2>2. TableOf[f.source] \in Table
    BY <2>1, CatalogAssumption
  <2> QED BY <2>1, <2>2, ObjectKept
<1>4. CallOK(f)'
  BY <1>2, <1>3 DEF CallOK, AtJoin, AtStage, Here
<1>5. ScopeOK(f) => ScopeOK(f)'
  BY <1>2 DEF ScopeOK, IsNil, Walking
<1> QED BY <1>4, <1>5

\* The stack of a bind that takes no step stays as it is.
LEMMA StackKept ==
  ASSUME Grown, NEW u \in Thread, StackInv(u), frames'[u] = frames[u], diags'[u] = diags[u]
  PROVE  StackInv(u)'
<1>1. SourceTrouble(u)' <=> SourceTrouble(u)
  BY DEF SourceTrouble
<1>2. ASSUME NEW k \in DOMAIN frames[u]
      PROVE  /\ CallOK(frames[u][k])' /\ (~ SourceTrouble(u)' => ScopeOK(frames[u][k])')
             /\ k > 1 => Waits(frames'[u][k], frames'[u][k - 1])
  <2>1. PICK f : f = frames[u][k]
    OBVIOUS
  <2>2. CallOK(f) /\ (~ SourceTrouble(u) => ScopeOK(f)) /\ (k > 1 => Waits(f, frames[u][k - 1]))
    BY <2>1 DEF StackInv
  <2>3. CallOK(f)' /\ (~ SourceTrouble(u)' => ScopeOK(f)')
    BY <1>1, <2>2, CallKept
  <2>4. frames'[u][k] = f /\ frames'[u][k - 1] = frames[u][k - 1]
    BY <2>1
  <2> QED BY <2>2, <2>3, <2>4
<1>3. frames'[u] \in Seq(Calls) /\ DOMAIN frames'[u] = DOMAIN frames[u]
  BY DEF StackInv
<1> QED BY <1>2, <1>3 DEF StackInv

\* A stack whose innermost call goes on in its pipeline keeps the rest.
LEMMA TopKept ==
  ASSUME Grown, NEW t \in Thread, StackInv(t), ~ Idle(t), SourceTrouble(t) => SourceTrouble(t)',
         NEW g, CallOK(g)', ~ SourceTrouble(t)' => ScopeOK(g)', g.pipe = Top(t).pipe,
         frames'[t] = <<g>> \o Tail(frames[t])
  PROVE  StackInv(t)'
<1> DEFINE fs == frames[t]
<1>1. fs \in Seq(Calls) /\ fs # <<>> /\ g \in Calls
  BY DEF StackInv, Idle, CallOK
<1>2. /\ frames'[t] \in Seq(Calls) /\ DOMAIN frames'[t] = DOMAIN fs /\ frames'[t][1] = g
      /\ \A k \in DOMAIN fs : k # 1 => frames'[t][k] = fs[k]
      /\ Top(t) = fs[1]
  BY <1>1, Stacks DEF Top
<1>3. DOMAIN fs \subseteq Nat /\ \A k \in DOMAIN fs : k > 1 => k - 1 \in DOMAIN fs
  <2>1. DOMAIN fs = 1 .. Len(fs) /\ Len(fs) \in Nat
    BY <1>1, LenProperties
  <2> QED BY <2>1
<1>4. ASSUME NEW k \in DOMAIN fs
      PROVE  /\ CallOK(frames[t][k])' /\ (~ SourceTrouble(t)' => ScopeOK(frames[t][k])')
             /\ k > 1 => Waits(frames'[t][k], frames'[t][k - 1])
  <2>1. CASE k = 1
    BY <1>2, <2>1
  <2>2. CASE k # 1
    <3>1. PICK f : f = fs[k]
      OBVIOUS
    <3>2. CallOK(f) /\ (~ SourceTrouble(t) => ScopeOK(f)) /\ (k > 1 => Waits(f, fs[k - 1]))
      BY <3>1 DEF StackInv
    <3>3. CallOK(f)' /\ (~ SourceTrouble(t)' => ScopeOK(f)')
      BY <3>2, CallKept
    <3>4. frames'[t][k] = f
      BY <1>2, <2>2, <3>1
    <3>5. k > 1 => frames'[t][k - 1].pipe = fs[k - 1].pipe
      <4>1. CASE k - 1 = 1
        BY <1>2, <4>1
      <4>2. CASE k - 1 # 1
        BY <1>2, <1>3, <4>2
      <4> QED BY <4>1, <4>2
    <3> QED BY <3>2, <3>3, <3>4, <3>5 DEF Waits
  <2> QED BY <2>1, <2>2
<1> QED BY <1>2, <1>4 DEF StackInv

\* A step of one bind is none of the others', and only ever adds diagnostics.
StepOf(t) ==
  /\ ~ Idle(t)
  /\ UNCHANGED <<exists, plan, knew, overlapped>>
  /\ DOMAIN frames' = Thread /\ DOMAIN diags' = Thread
  /\ next' \in [Thread -> Nat] /\ refs' \in [Thread -> SUBSET References]
  /\ \A u \in Thread : u # t =>
       frames'[u] = frames[u] /\ diags'[u] = diags[u] /\ refs'[u] = refs[u] /\ next'[u] = next[u]
  /\ diags[t] \subseteq diags'[t]

\* It keeps the invariant of the binds if it keeps its own.
LEMMA StepKeepsBinds ==
  ASSUME Grown, BindsInv, NEW t \in Thread, StepOf(t), StackInv(t)', LexicalFor(t)', ResolvesFor(t)'
  PROVE  BindsInv'
<1>1. ASSUME NEW u \in Thread PROVE BindInv(u)'
  <2>1. CASE u = t
    <3>1. plan'[t] # None
      BY DEF StepOf, BindsInv, BindInv, Idle
    <3> QED BY <2>1, <3>1 DEF BindInv
  <2>2. CASE u # t
    <3>1. BindInv(u) /\ frames'[u] = frames[u] /\ diags'[u] = diags[u] /\ refs'[u] = refs[u]
          /\ plan'[u] = plan[u] /\ knew'[u] = knew[u]
      BY <2>2 DEF StepOf, BindsInv
    <3>2. StackInv(u)'
      BY <3>1, StackKept DEF BindInv
    <3>3. LexicalFor(u)' /\ ResolvesFor(u)'
      BY <3>1 DEF BindInv, LexicalFor, ResolvesFor, SourceTrouble
    <3> QED BY <3>1, <3>2, <3>3 DEF BindInv
  <2> QED BY <2>1, <2>2
<1>2. /\ exists' \subseteq Table /\ overlapped' \subseteq Thread /\ next' \in [Thread -> Nat]
      /\ plan' \in [Thread -> Whole \cup {None}] /\ knew' \in [Thread -> SUBSET exists']
      /\ refs' \in [Thread -> SUBSET References] /\ DOMAIN diags' = Thread /\ DOMAIN frames' = Thread
  BY DEF StepOf, BindsInv
<1> QED BY <1>1, <1>2 DEF BindsInv

\* The entries of the heap that change become ones of a set.
Rewritten(bs) ==
  \A o \in DOMAIN heap : \A c \in DOMAIN heap[o] : heap'[o][c] = heap[o][c] \/ heap'[o][c] \in bs

\* A schema shows nothing new but what is rewritten.
LEMMA EntriesKept ==
  ASSUME Grown, NEW bs, Rewritten(bs), NEW s \in Schemas, Kept(s)
  PROVE  Entries(s)' \subseteq Entries(s) \cup bs
<1>1. CASE s.kind = "shared"
  <2>1. s.obj \in DOMAIN heap /\ Cols(s) = heap[s.obj] /\ Cols(s)' = heap'[s.obj]
    BY <1>1 DEF Kept, InHeap, Cols
  <2>2. DOMAIN heap'[s.obj] = DOMAIN heap[s.obj]
    BY <2>1 DEF Grown
  <2>3. \A c \in DOMAIN heap[s.obj] : heap'[s.obj][c] = heap[s.obj][c] \/ heap'[s.obj][c] \in bs
    BY <2>1 DEF Rewritten
  <2>4. /\ Entries(s) = {heap[s.obj][c] : c \in DOMAIN heap[s.obj]}
        /\ Entries(s)' = {heap'[s.obj][c] : c \in DOMAIN heap'[s.obj]}
    BY <1>1, <2>1 DEF Entries, Held, IsNil
  <2> QED BY <2>2, <2>3, <2>4
<1>2. CASE s.kind # "shared"
  BY <1>2 DEF Entries, IsNil, Cols
<1> QED BY <1>1, <1>2

\* And so does a call, its half-filled object included.
LEMMA VisibleKept ==
  ASSUME Grown, NEW bs, Rewritten(bs), NEW f, CallOK(f)
  PROVE  Visible(f)' \subseteq Visible(f) \cup bs
<1>1. f \in Calls /\ f.in \in Schemas /\ f.right \in Schemas
  BY DEF CallOK, Calls
<1>2. Entries(f.in)' \subseteq Entries(f.in) \cup bs /\ Entries(f.right)' \subseteq Entries(f.right) \cup bs
  BY <1>1, EntriesKept DEF CallOK
<1>3. ASSUME f.step = "alloc", NEW k \in 1 .. f.col - 1
      PROVE  heap'[f.obj][k] \in {heap[f.obj][c] : c \in 1 .. f.col - 1} \cup bs
  <2>1. f.source \in Spelling /\ TableOf[f.source] \in Table
    BY <1>1, <1>3, CatalogAssumption DEF CallOK, Calls
  <2>2. Columns[TableOf[f.source]] \in Seq(Name)
    BY <2>1, CatalogAssumption
  <2>3. /\ DOMAIN Columns[TableOf[f.source]] = 1 .. Len(Columns[TableOf[f.source]])
        /\ Len(Columns[TableOf[f.source]]) \in Nat
    BY <2>2, LenProperties
  <2>4. /\ f.obj \in DOMAIN heap /\ DOMAIN heap[f.obj] = DOMAIN Columns[TableOf[f.source]]
        /\ f.col \in DOMAIN Columns[TableOf[f.source]]
    BY <1>3 DEF CallOK, Object, InHeap
  <2>5. k \in DOMAIN heap[f.obj]
    BY <2>3, <2>4
  <2> QED BY <2>4, <2>5 DEF Rewritten
<1> QED BY <1>2, <1>3 DEF Visible

\* A binding is at hand in a call of the stack, or stamped.
InHand(t, e) == (\E k \in DOMAIN frames[t] : e \in Visible(frames[t][k])) \/ e \in Stamped(t)

\* That is what the bindings at hand are, now and after a step.
LEMMA AtHandHas ==
  ASSUME NEW t
  PROVE  /\ \A e : e \in AtHand(t) <=> InHand(t, e)
         /\ \A e : e \in AtHand(t)' <=> InHand(t, e)'
<1>1. \A e : e \in AtHand(t) <=> InHand(t, e)
  <2>1. \A e : e \in SeenBy(t) <=> \E k \in DOMAIN frames[t] : e \in Visible(frames[t][k])
    BY Zenon DEF SeenBy
  <2> QED BY <2>1 DEF AtHand, InHand
<1>2. \A e : e \in AtHand(t)' <=> InHand(t, e)'
  <2>1. \A e : e \in SeenBy(t)' <=> \E k \in DOMAIN frames'[t] : e \in Visible(frames[t][k])'
    BY Zenon DEF SeenBy
  <2> QED BY <2>1 DEF AtHand, InHand
<1> QED BY <1>1, <1>2

\* What is at hand are bindings.
LEMMA AtHandTyped ==
  ASSUME HeapInv, BindsInv, NEW t \in Thread
  PROVE  AtHand(t) \subseteq Bindings
<1>1. StackInv(t) /\ refs[t] \subseteq References
  BY DEF BindsInv, BindInv
<1>2. ASSUME NEW k \in DOMAIN frames[t] PROVE Visible(frames[t][k]) \subseteq Bindings
  <2>1. PICK f : f = frames[t][k]
    OBVIOUS
  <2>2. CallOK(f) /\ f \in Calls /\ f.in \in Schemas /\ f.right \in Schemas
    BY <1>1, <2>1 DEF StackInv, CallOK, Calls
  <2>3. Entries(f.in) \subseteq Bindings /\ Entries(f.right) \subseteq Bindings
    BY <2>2, CarriedEntries DEF CallOK, HeapInv
  <2>4. ASSUME f.step = "alloc", NEW j \in 1 .. f.col - 1 PROVE heap[f.obj][j] \in Bindings
    <3>1. f.source \in Spelling /\ TableOf[f.source] \in Table
      BY <2>2, <2>4, CatalogAssumption DEF CallOK, Calls
    <3>2. Columns[TableOf[f.source]] \in Seq(Name)
      BY <3>1, CatalogAssumption
    <3>3. /\ DOMAIN Columns[TableOf[f.source]] = 1 .. Len(Columns[TableOf[f.source]])
          /\ Len(Columns[TableOf[f.source]]) \in Nat
      BY <3>2, LenProperties
    <3>4. /\ f.obj \in DOMAIN heap /\ DOMAIN heap[f.obj] = DOMAIN Columns[TableOf[f.source]]
          /\ f.col \in DOMAIN Columns[TableOf[f.source]]
      BY <2>2, <2>4 DEF CallOK, Object, InHeap
    <3>5. j \in DOMAIN heap[f.obj]
      BY <3>3, <3>4
    <3>6. heap[f.obj] \in Seq(Bindings)
      BY <3>4, LenProperties DEF HeapInv
    <3> QED BY <3>5, <3>6, LenProperties
  <2>5. Visible(f) \subseteq Bindings
    BY <2>3, <2>4 DEF Visible
  <2> QED BY <2>1, <2>5
<1>3. Stamped(t) \subseteq Bindings
  BY <1>1 DEF Stamped, References, Bindings, Binding
<1>4. ASSUME NEW e \in AtHand(t) PROVE e \in Bindings
  <2>1. e \in Stamped(t) \/ \E k \in DOMAIN frames[t] : e \in Visible(frames[t][k])
    BY <1>4, AtHandHas DEF InHand
  <2> QED BY <1>2, <1>3, <2>1
<1> QED BY <1>4

\* With its innermost call changed, a bind has at hand what it had, what is rewritten,
\* what that call sees, and what it has stamped.
LEMMA AtHandKept ==
  ASSUME Grown, NEW t \in Thread, StackInv(t), ~ Idle(t), NEW bs, Rewritten(bs),
         NEW g \in Calls, frames'[t] = <<g>> \o Tail(frames[t])
  PROVE  AtHand(t)' \subseteq AtHand(t) \cup bs \cup Visible(g)' \cup Stamped(t)'
<1> DEFINE fs == frames[t]
<1>1. fs \in Seq(Calls) /\ fs # <<>>
  BY DEF StackInv, Idle
<1>2. /\ DOMAIN frames'[t] = DOMAIN fs /\ frames'[t][1] = g
      /\ \A k \in DOMAIN fs : k # 1 => frames'[t][k] = fs[k]
  BY <1>1, Stacks
<1>3. ASSUME NEW k \in DOMAIN fs
      PROVE  Visible(frames[t][k])' \subseteq AtHand(t) \cup bs \cup Visible(g)'
  <2>1. CASE k = 1
    BY <1>2, <2>1
  <2>2. CASE k # 1
    <3>1. PICK f : f = fs[k]
      OBVIOUS
    <3>2. CallOK(f)
      BY <3>1 DEF StackInv
    <3>3. Visible(f)' \subseteq Visible(f) \cup bs
      BY <3>2, VisibleKept
    <3>4. Visible(f) \subseteq AtHand(t)
      BY <3>1, AtHandHas DEF InHand
    <3>5. frames'[t][k] = f
      BY <1>2, <2>2, <3>1
    <3> QED BY <3>3, <3>4, <3>5
  <2> QED BY <2>1, <2>2
<1>4. ASSUME NEW e \in AtHand(t)' PROVE e \in AtHand(t) \cup bs \cup Visible(g)' \cup Stamped(t)'
  <2>1. e \in Stamped(t)' \/ \E k \in DOMAIN frames'[t] : e \in Visible(frames[t][k])'
    BY <1>4, AtHandHas DEF InHand
  <2> QED BY <1>2, <1>3, <2>1
<1> QED BY <1>4

\* A step of a bind that keeps its own ids apart keeps all binds' apart.
LEMMA StepKeepsIDs ==
  ASSUME BindsInv, AloneInv, NEW t \in Thread, StepOf(t),
         Alone(t) => OneName(AtHand(t)', next'[t])
  PROVE  AloneInv'
<1>1. ASSUME NEW u \in Thread PROVE ~ Idle(u)' => ~ Idle(u)
  BY DEF StepOf, Idle
<1>2. ASSUME NEW u \in Thread, NEW v \in Thread, u # v, ~ Idle(u)', ~ Idle(v)' PROVE u \in overlapped'
  BY <1>1, <1>2 DEF StepOf, AloneInv
<1>3. ASSUME NEW u \in Thread, Alone(u)' PROVE OneName(AtHand(u)', next'[u])
  <2>1. Alone(u)
    BY <1>3 DEF Alone, StepOf
  <2>2. CASE u = t
    BY <2>1, <2>2
  <2>3. CASE u # t
    <3>1. Idle(u) /\ OneName(AtHand(u), next[u])
      BY <2>1, <2>3 DEF StepOf, AloneInv, Alone
    <3>2. frames[u] = <<>> /\ frames'[u] = <<>> /\ refs'[u] = refs[u] /\ next'[u] = next[u]
      BY <2>3, <3>1 DEF Idle, StepOf
    <3>3. DOMAIN frames[u] = {} /\ DOMAIN frames'[u] = {}
      BY <3>2
    <3>4. AtHand(u) = Stamped(u)
      BY <3>3, AtHandHas DEF InHand
    <3>5. AtHand(u)' = Stamped(u)'
      BY <3>3, AtHandHas DEF InHand
    <3>6. Stamped(u)' = Stamped(u)
      BY <3>2 DEF Stamped
    <3> QED BY <3>1, <3>2, <3>4, <3>5, <3>6
  <2> QED BY <2>2, <2>3
<1> QED BY <1>2, <1>3 DEF AloneInv

-----------------------------------------------------------------------------
(* The steps of a bind *)

\* The innermost call of a bind is one, and what it sees is at hand.
LEMMA TopIsCall ==
  ASSUME NEW t \in Thread, StackInv(t), ~ Idle(t)
  PROVE  /\ CallOK(Top(t)) /\ (~ SourceTrouble(t) => ScopeOK(Top(t))) /\ Top(t) \in Calls
         /\ Visible(Top(t)) \subseteq AtHand(t)
<1>1. frames[t] \in Seq(Calls) /\ frames[t] # <<>>
  BY DEF StackInv, Idle
<1>2. 1 \in DOMAIN frames[t] /\ Head(frames[t]) = frames[t][1]
  BY <1>1, HeadTailProperties, LenProperties, EmptySeq
<1>3. Top(t) = frames[t][1]
  BY <1>2 DEF Top
<1>4. CallOK(Top(t)) /\ (~ SourceTrouble(t) => ScopeOK(Top(t)))
  BY <1>2, <1>3 DEF StackInv
<1>5. Visible(Top(t)) \subseteq AtHand(t)
  BY <1>2, <1>3, AtHandHas DEF InHand
<1> QED BY <1>4, <1>5 DEF CallOK

\* A source looked up gives a pipeline its first scope, or a join its right side.
LEMMA SourcedOK ==
  ASSUME NEW f, CallOK(f)', NEW trouble, ~ trouble => ScopeOK(f)', f.step \in Looking,
         NEW s \in Schemas, Kept(s)',
         (f.pipe \in FromTables /\ ~ trouble) => ~ IsNil(s) /\ Knows(Cols(s))' = NamesOf(TableOf[f.source]),
         NEW g, g = Sourced(f, s)
  PROVE  CallOK(g)' /\ (~ trouble => ScopeOK(g)') /\ g.pipe = f.pipe
<1>1. f \in Calls
  BY DEF CallOK
<1>2. CASE f.wants = "source"
  <2>1. g = [f EXCEPT !.in = s, !.step = "stages"]
    BY <1>2 DEF Sourced
  <2>2. /\ g \in Calls /\ g.pipe = f.pipe /\ g.at = f.at /\ g.sub = f.sub /\ g.in = s
        /\ g.right = f.right /\ g.step = "stages" /\ g.wants = f.wants /\ g.source = f.source
    BY <1>1, <2>1 DEF Calls, Steps
  <2>3. f.at = 1 /\ f.sub = 1 /\ f.source = Source[f.pipe] /\ f.at <= Len(Stages[f.pipe]) + 1 /\ Kept(f.right)'
    BY <1>2 DEF CallOK
  <2>4. CallOK(g)'
    BY <2>2, <2>3 DEF CallOK, Looking
  <2>5. ASSUME ~ trouble PROVE ScopeOK(g)'
    <3>1. ASSUME g.pipe \in FromTables
          PROVE  ~ IsNil(g.in) /\ Knows(Cols(g.in))' = Scope[g.pipe][g.at]
      <4>1. f.pipe \in FromTables /\ Scope[f.pipe][1] = NamesOf(TableOf[Source[f.pipe]])
        BY <2>2, <3>1, ScopeUnfolds
      <4> QED BY <2>2, <2>3, <2>5, <4>1
    <3> QED BY <2>2, <3>1 DEF ScopeOK
  <2> QED BY <2>2, <2>4, <2>5
<1>3. CASE f.wants = "right"
  <2>1. g = [f EXCEPT !.right = s, !.step = "on"]
    BY <1>3 DEF Sourced
  <2>2. /\ g \in Calls /\ g.pipe = f.pipe /\ g.at = f.at /\ g.sub = f.sub /\ g.in = f.in
        /\ g.right = s /\ g.step = "on" /\ g.wants = f.wants /\ g.source = f.source
    BY <1>1, <2>1 DEF Calls, Steps
  <2>3. /\ AtJoin(f) /\ f.source = Source[Here(f).subs[1]] /\ f.at <= Len(Stages[f.pipe]) + 1 /\ Kept(f.in)'
    BY <1>3 DEF CallOK
  <2>4. CallOK(g)'
    BY <1>3, <2>2, <2>3 DEF CallOK, AtJoin, AtStage, Here
  <2>5. ASSUME ~ trouble PROVE ScopeOK(g)'
    BY <1>3, <2>2, <2>5 DEF ScopeOK, Walking
  <2> QED BY <2>2, <2>4, <2>5
<1> QED BY <1>1, <1>2, <1>3 DEF Calls

\* A pipeline over tables never looks up a source that is no table.
LEMMA TablesHaveSources ==
  ASSUME NEW f, CallOK(f), f.step \in Looking, f.pipe \in FromTables
  PROVE  f.source \in Spelling /\ TableOf[f.source] \in Table
<1>1. f \in Calls /\ f.pipe \in Pipe /\ f.wants \in {"source", "right"} /\ f.source \in Spelling \cup {None} /\ f.at \in Nat \ {0}
  BY DEF CallOK, Calls
<1>2. f.source # None
  <2>1. CASE f.wants = "source"
    BY <2>1 DEF CallOK, FromTables
  <2>2. CASE f.wants = "right"
    <3>1. AtJoin(f) /\ f.source = Source[Here(f).subs[1]]
      BY <2>2 DEF CallOK
    <3>2. f.at \in DOMAIN Stages[f.pipe]
      <4>1. Stages[f.pipe] \in Seq(StageSet)
        BY <1>1, PipelineAssumption
      <4> QED BY <1>1, <3>1, <4>1, LenProperties DEF AtJoin, AtStage
    <3> QED BY <3>1, <3>2 DEF FromTables, TableJoin, AtJoin, Here
  <2> QED BY <1>1, <2>1, <2>2
<1> QED BY <1>1, <1>2, CatalogAssumption

\* A heap that does not change is the same to every call.
LEMMA SameHeap ==
  ASSUME HeapInv, UNCHANGED heap
  PROVE  Grown /\ Rewritten({})
BY DEF HeapInv, Grown, Rewritten

\* What is diagnosed of a source alone keeps the scope property.
LEMMA LexicalKept ==
  ASSUME NEW t \in Thread, LexicalFor(t), plan'[t] = plan[t], refs'[t] = refs[t],
         diags'[t] = diags[t] \/ SourceTrouble(t)'
  PROVE  LexicalFor(t)'
BY DEF LexicalFor, SourceTrouble

\* What a step that changes the innermost call has to show, for the bind that takes it.
Keeps(t, f, g) ==
  /\ CallOK(g)' /\ g.pipe = f.pipe
  /\ ~ SourceTrouble(t)' => ScopeOK(g)'

\* It then keeps the stack, and the ids at hand that the call does not see anew.
LEMMA TopStep ==
  ASSUME HeapInv, BindsInv, AloneInv, NEW t \in Thread, StepOf(t), Grown,
         NEW f, f = Top(t), NEW g, Keeps(t, f, g), frames'[t] = <<g>> \o Tail(frames[t]),
         refs'[t] = refs[t], diags'[t] = diags[t] \/ SourceTrouble(t)', ResolvesFor(t)',
         NEW bs, Rewritten(bs), Visible(g)' \subseteq AtHand(t) \cup bs,
         Alone(t) => OneName(AtHand(t) \cup bs, next'[t])
  PROVE  BindsInv' /\ AloneInv'
<1>1. StackInv(t) /\ LexicalFor(t) /\ ~ Idle(t) /\ (SourceTrouble(t) => SourceTrouble(t)') /\ plan'[t] = plan[t]
  BY DEF BindsInv, BindInv, StepOf, SourceTrouble
<1>2. StackInv(t)'
  BY <1>1, TopKept DEF Keeps
<1>3. LexicalFor(t)'
  BY <1>1, LexicalKept
<1>4. BindsInv'
  BY <1>2, <1>3, StepKeepsBinds
<1>5. AtHand(t)' \subseteq AtHand(t) \cup bs
  <2>1. g \in Calls
    BY DEF Keeps, CallOK
  <2>2. AtHand(t)' \subseteq AtHand(t) \cup bs \cup Visible(g)' \cup Stamped(t)'
    BY <1>1, <2>1, AtHandKept
  <2>3. Stamped(t)' = Stamped(t) /\ Stamped(t) \subseteq AtHand(t)
    BY AtHandHas DEF Stamped, InHand
  <2> QED BY <2>2, <2>3
<1>6. Alone(t) => OneName(AtHand(t)', next'[t])
  BY <1>5, FewerIDs
<1> QED BY <1>4, <1>6, StepKeepsIDs

\* While the heap stays and nothing is stamped or allocated, the call only has to see no more.
LEMMA QuietStep ==
  ASSUME HeapInv, BindsInv, AloneInv, NEW t \in Thread, StepOf(t), UNCHANGED <<heap, cache>>,
         NEW f, f = Top(t), NEW g, Keeps(t, f, g), frames'[t] = <<g>> \o Tail(frames[t]),
         refs'[t] = refs[t], next'[t] = next[t], diags'[t] = diags[t] \/ SourceTrouble(t)', ResolvesFor(t)',
         Visible(g) \subseteq Visible(f)
  PROVE  HeapInv' /\ BindsInv' /\ AloneInv'
<1>1. Grown /\ Rewritten({})
  BY SameHeap
<1>2. StackInv(t) /\ ~ Idle(t)
  BY DEF BindsInv, BindInv, StepOf
<1>3. Visible(f) \subseteq AtHand(t)
  BY <1>2, TopIsCall
<1>4. Visible(g)' = Visible(g)
  BY DEF Visible, Entries, Cols
<1>5. Visible(g)' \subseteq AtHand(t) \cup {}
  BY <1>3, <1>4
<1>6. Alone(t) => OneName(AtHand(t) \cup {}, next'[t])
  <2>1. AtHand(t) \cup {} = AtHand(t)
    OBVIOUS
  <2> QED BY <2>1 DEF AloneInv
<1>7. HeapInv'
  BY DEF HeapInv, Object, InHeap
<1>8. BindsInv' /\ AloneInv'
  BY <1>1, <1>5, <1>6, TopStep
<1> QED BY <1>7, <1>8

\* No schema has no bindings, and is one.
LEMMA NilIsSchema == NilSchema \in Schemas /\ IsNil(NilSchema) /\ Entries(NilSchema) = {} /\ Kept(NilSchema) /\ Kept(NilSchema)'
BY EmptySeq DEF NilSchema, Schemas, IsNil, Entries, Kept

\* A source without a schema shows a call nothing new.
LEMMA SourcedNilSees ==
  ASSUME NEW f, f \in Calls, f.step \in Looking
  PROVE  Visible(Sourced(f, NilSchema)) \subseteq Visible(f)
<1>1. CASE f.wants = "source"
  <2>1. Sourced(f, NilSchema) = [f EXCEPT !.in = NilSchema, !.step = "stages"]
    BY <1>1 DEF Sourced
  <2> QED BY <2>1, NilIsSchema DEF Visible, Calls
<1>2. CASE f.wants # "source"
  <2>1. Sourced(f, NilSchema) = [f EXCEPT !.right = NilSchema, !.step = "on"]
    BY <1>2 DEF Sourced
  <2> QED BY <2>1, NilIsSchema DEF Visible, Calls
<1> QED BY <1>1, <1>2

LookingOn(g, f, step, obj, col) == g = [f EXCEPT !.step = step, !.obj = obj, !.col = col]

\* A call that goes on looking its source up knows the object it has found.
LEMMA LooksOn ==
  ASSUME NEW f, CallOK(f)', NEW trouble, ~ trouble => ScopeOK(f)', f.step \in Looking, f.source # None,
         NEW step \in {"query", "store", "alloc"}, NEW obj \in Nat, NEW col \in Nat,
         step \in {"store", "alloc"} => Object(obj, TableOf[f.source])',
         step = "alloc" => col \in DOMAIN Columns[TableOf[f.source]],
         NEW g, LookingOn(g, f, step, obj, col)
  PROVE  /\ CallOK(g)' /\ (~ trouble => ScopeOK(g)') /\ g.pipe = f.pipe
         /\ step # "alloc" => Visible(g)' \subseteq Visible(f)'
         /\ step = "alloc" => Visible(g)' \subseteq Visible(f)' \cup {heap'[obj][k] : k \in 1 .. col - 1}
<1>1. f \in Calls
  BY DEF CallOK
<1>2. /\ g \in Calls /\ g.pipe = f.pipe /\ g.at = f.at /\ g.sub = f.sub /\ g.in = f.in /\ g.right = f.right
      /\ g.step = step /\ g.wants = f.wants /\ g.source = f.source /\ g.col = col /\ g.obj = obj
  BY <1>1 DEF Calls, Steps, LookingOn
<1>3. /\ f.at <= Len(Stages[f.pipe]) + 1 /\ Kept(f.in)' /\ Kept(f.right)'
      /\ f.wants = "source" => f.at = 1 /\ f.sub = 1 /\ f.source = Source[f.pipe]
      /\ f.wants = "right" => AtJoin(f) /\ f.source = Source[Here(f).subs[1]]
  BY DEF CallOK, AtJoin, AtStage, Here
<1>4. step \in {"store", "alloc"} => Object(g.obj, TableOf[g.source])'
  BY <1>2 DEF Object, InHeap
<1>5. CallOK(g)'
  BY <1>2, <1>3, <1>4 DEF CallOK, Looking, AtJoin, AtStage, Here
<1>6. ~ trouble => ScopeOK(g)'
  BY <1>2 DEF ScopeOK, Walking, Looking
<1>7. /\ step # "alloc" => Visible(g)' \subseteq Visible(f)'
      /\ step = "alloc" => Visible(g)' \subseteq Visible(f)' \cup {heap'[obj][k] : k \in 1 .. col - 1}
  BY <1>2 DEF Visible
<1> QED BY <1>2, <1>5, <1>6, <1>7

\* Backend.Schema up to its cache.
LEMMA LoadSchemaKeeps ==
  ASSUME HeapInv, BindsInv, AloneInv, NEW t \in Thread, LoadSchema(t)
  PROVE  HeapInv' /\ BindsInv' /\ AloneInv'
<1>1. PICK f : f = Top(t)
  OBVIOUS
<1>2. /\ StackInv(t) /\ LexicalFor(t) /\ ResolvesFor(t) /\ ~ Idle(t) /\ DOMAIN frames = Thread
      /\ f.step = "load" /\ f.step \in Looking
  BY <1>1 DEF BindsInv, BindInv, LoadSchema, Looking
<1>3. CallOK(f) /\ (~ SourceTrouble(t) => ScopeOK(f)) /\ f \in Calls
  BY <1>1, <1>2, TopIsCall
<1>4. Grown
  BY SameHeap DEF LoadSchema, shared
<1>5. CallOK(f)' /\ (~ SourceTrouble(t) => ScopeOK(f)')
  BY <1>3, <1>4, CallKept
<1>6. SourceTrouble(t)' <=> SourceTrouble(t)
  BY DEF SourceTrouble, LoadSchema
<1>7. PICK g : g = IF f.source = None THEN Sourced(f, NilSchema)
                   ELSE IF CacheHit(f.source)
                   THEN [f EXCEPT !.step = "alloc", !.col = 1, !.obj = cache[TableOf[f.source]]]
                   ELSE [f EXCEPT !.step = "query"]
  OBVIOUS
<1>8. frames' = [frames EXCEPT ![t] = <<g>> \o Tail(frames[t])]
  BY <1>1, <1>7 DEF LoadSchema, SetTop
<1>9. ASSUME f.source = None PROVE Keeps(t, f, g) /\ Visible(g) \subseteq Visible(f)
  <2>1. g = Sourced(f, NilSchema)
    BY <1>7, <1>9
  <2>2. f.pipe \notin FromTables
    BY <1>2, <1>3, <1>9, TablesHaveSources, NoneAssumption
  <2>3. CallOK(g)' /\ (~ SourceTrouble(t) => ScopeOK(g)') /\ g.pipe = f.pipe
    BY <1>2, <1>5, <2>1, <2>2, NilIsSchema, SourcedOK
  <2>4. Visible(g) \subseteq Visible(f)
    BY <1>2, <1>3, <2>1, SourcedNilSees
  <2> QED BY <1>6, <2>3, <2>4 DEF Keeps
<1>10. ASSUME f.source # None PROVE Keeps(t, f, g) /\ Visible(g) \subseteq Visible(f)
  <2>1. PICK tb : tb = TableOf[f.source]
    OBVIOUS
  <2>2. f.source \in Spelling /\ tb \in Table /\ f.obj \in Nat /\ f.col \in Nat
    BY <1>3, <1>10, <2>1, CatalogAssumption DEF Calls
  <2>3. heap' = heap
    BY DEF LoadSchema, shared
  <2>4. Visible(g)' = Visible(g) /\ Visible(f)' = Visible(f)
    BY <2>3 DEF Visible, Entries, Cols
  <2>5. CASE CacheHit(f.source)
    <3>1. PICK o : o = cache[tb]
      OBVIOUS
    <3>2. o \in Nat /\ Object(o, tb)
      BY <2>1, <2>2, <2>5, <3>1 DEF CacheHit, HeapInv
    <3>3. Object(o, tb)'
      BY <2>3, <3>2 DEF Object, InHeap
    <3>4. 1 \in DOMAIN Columns[tb]
      BY <2>2, CatalogAssumption, LenProperties, EmptySeq
    <3>5. LookingOn(g, f, "alloc", o, 1)
      BY <1>3, <1>7, <1>10, <2>1, <2>5, <3>1 DEF Calls, LookingOn
    <3>6. /\ CallOK(g)' /\ (~ SourceTrouble(t) => ScopeOK(g)') /\ g.pipe = f.pipe
          /\ Visible(g)' \subseteq Visible(f)' \cup {heap'[o][k] : k \in 1 .. 1 - 1}
      BY <1>2, <1>5, <1>10, <2>1, <3>2, <3>3, <3>4, <3>5, LooksOn
    <3>7. {heap'[o][k] : k \in 1 .. 1 - 1} = {}
      OBVIOUS
    <3> QED BY <1>6, <2>4, <3>6, <3>7 DEF Keeps
  <2>6. CASE ~ CacheHit(f.source)
    <3>1. LookingOn(g, f, "query", f.obj, f.col)
      BY <1>3, <1>7, <1>10, <2>6 DEF Calls, LookingOn
    <3>2. /\ CallOK(g)' /\ (~ SourceTrouble(t) => ScopeOK(g)') /\ g.pipe = f.pipe
          /\ Visible(g)' \subseteq Visible(f)'
      BY <1>2, <1>5, <1>10, <2>2, <3>1, LooksOn
    <3> QED BY <1>6, <2>4, <3>2 DEF Keeps
  <2> QED BY <2>5, <2>6
<1>11. Keeps(t, f, g) /\ Visible(g) \subseteq Visible(f)
  BY <1>9, <1>10
<1>12. StepOf(t) /\ ResolvesFor(t)'
  BY <1>2, <1>8 DEF StepOf, ResolvesFor, LoadSchema, shared, history, BindsInv
<1> QED BY <1>1, <1>2, <1>8, <1>11, <1>12, QuietStep DEF LoadSchema, shared

\* The columns the catalog query finds are an object of the table.
LEMMA NewColumnsTyped ==
  ASSUME NEW tb \in Table
  PROVE  /\ NewColumns(tb) \in Seq(Bindings) /\ DOMAIN NewColumns(tb) = DOMAIN Columns[tb]
         /\ \A k \in DOMAIN Columns[tb] : NewColumns(tb)[k].name = Columns[tb][k]
<1>1. Columns[tb] \in Seq(Name)
  BY CatalogAssumption
<1>2. DOMAIN Columns[tb] = 1 .. Len(Columns[tb]) /\ Len(Columns[tb]) \in Nat
  BY <1>1, LenProperties
<1>3. ASSUME NEW k \in DOMAIN Columns[tb]
      PROVE  Binding(0, Columns[tb][k]) \in Bindings /\ Binding(0, Columns[tb][k]).name = Columns[tb][k]
  <2>1. Columns[tb][k] \in Name
    BY <1>1, <1>3, LenProperties
  <2> QED BY <2>1 DEF Bindings, Binding
<1>4. NewColumns(tb) \in [1 .. Len(Columns[tb]) -> Bindings]
  BY <1>2, <1>3 DEF NewColumns
<1>5. NewColumns(tb) \in Seq(Bindings)
  BY <1>2, <1>4, SeqDef
<1> QED BY <1>2, <1>3, <1>5 DEF NewColumns

\* The catalog query: the table's columns as a new object, or no schema and a diagnostic.
LEMMA QueryCatalogKeeps ==
  ASSUME HeapInv, BindsInv, AloneInv, NEW t \in Thread, QueryCatalog(t)
  PROVE  HeapInv' /\ BindsInv' /\ AloneInv'
<1>1. PICK f : f = Top(t)
  OBVIOUS
<1>2. /\ StackInv(t) /\ LexicalFor(t) /\ ResolvesFor(t) /\ ~ Idle(t) /\ DOMAIN frames = Thread /\ DOMAIN diags = Thread
      /\ f.step = "query" /\ f.step \in Looking
  BY <1>1 DEF BindsInv, BindInv, QueryCatalog, Looking
<1>3. CallOK(f) /\ (~ SourceTrouble(t) => ScopeOK(f)) /\ f \in Calls /\ Visible(f) \subseteq AtHand(t)
  BY <1>1, <1>2, TopIsCall
<1>4. PICK tb : tb = TableOf[f.source]
  OBVIOUS
<1>5. f.source # None /\ f.source \in Spelling /\ tb \in Table /\ f.obj \in Nat /\ f.col \in Nat
  BY <1>2, <1>3, <1>4, CatalogAssumption DEF CallOK, Calls
<1>6. CASE /\ Finds(f.source)
           /\ heap' = Append(heap, NewColumns(tb))
           /\ SetTop(t, [f EXCEPT !.obj = Len(heap) + 1, !.step = "store"])
           /\ UNCHANGED diags
  <2>1. PICK o : o = Len(heap) + 1
    OBVIOUS
  <2>2. PICK g : g = [f EXCEPT !.obj = o, !.step = "store"]
    OBVIOUS
  <2>3. frames' = [frames EXCEPT ![t] = <<g>> \o Tail(frames[t])]
    BY <1>6, <2>1, <2>2 DEF SetTop
  <2>4. /\ heap' \in Seq(Seq(Bindings)) /\ Len(heap) \in Nat /\ o \in Nat
        /\ DOMAIN heap = 1 .. Len(heap) /\ DOMAIN heap' = 1 .. o
        /\ \A k \in 1 .. Len(heap) : heap'[k] = heap[k]
        /\ heap'[o] = NewColumns(tb)
    <3>1. heap \in Seq(Seq(Bindings)) /\ NewColumns(tb) \in Seq(Bindings)
      BY <1>5, NewColumnsTyped DEF HeapInv
    <3>2. /\ heap' \in Seq(Seq(Bindings)) /\ Len(heap') = Len(heap) + 1
          /\ \A k \in 1 .. Len(heap) : heap'[k] = heap[k]
          /\ heap'[Len(heap) + 1] = NewColumns(tb)
      BY <1>6, <3>1, AppendProperties
    <3> QED BY <2>1, <3>1, <3>2, LenProperties
  <2>5. Grown /\ Rewritten({})
    BY <2>1, <2>4 DEF Grown, Rewritten, HeapInv
  <2>6. Object(o, tb)'
    BY <1>5, <2>1, <2>4, NewColumnsTyped DEF Object, InHeap
  <2>7. LookingOn(g, f, "store", o, f.col)
    BY <1>3, <2>2 DEF LookingOn, Calls
  <2>8. SourceTrouble(t)' <=> SourceTrouble(t)
    BY <1>6 DEF SourceTrouble
  <2>9. CallOK(f)' /\ (~ SourceTrouble(t) => ScopeOK(f)')
    BY <1>3, <2>5, CallKept
  <2>10. /\ CallOK(g)' /\ (~ SourceTrouble(t) => ScopeOK(g)') /\ g.pipe = f.pipe
         /\ Visible(g)' \subseteq Visible(f)'
    BY <1>2, <1>4, <1>5, <2>4, <2>6, <2>7, <2>9, LooksOn
  <2>11. Visible(g)' \subseteq AtHand(t) \cup {}
    BY <1>3, <2>5, <2>10, VisibleKept
  <2>12. Keeps(t, f, g)
    BY <2>8, <2>10 DEF Keeps
  <2>13. StepOf(t) /\ ResolvesFor(t)' /\ refs'[t] = refs[t] /\ next'[t] = next[t] /\ diags'[t] = diags[t]
    BY <1>2, <1>6, <2>3 DEF StepOf, ResolvesFor, QueryCatalog, history, BindsInv
  <2>14. Alone(t) => OneName(AtHand(t) \cup {}, next'[t])
    <3>1. AtHand(t) \cup {} = AtHand(t)
      OBVIOUS
    <3> QED BY <2>13, <3>1 DEF AloneInv
  <2>15. frames'[t] = <<g>> \o Tail(frames[t])
    BY <1>2, <2>3
  <2>16. BindsInv' /\ AloneInv'
    BY <1>1, <2>5, <2>11, <2>12, <2>13, <2>14, <2>15, TopStep
  <2>17. HeapInv'
    <3>1. cache' = cache
      BY DEF QueryCatalog
    <3>2. ASSUME NEW tt \in Table, cache[tt] # 0 PROVE Object(cache[tt], tt)'
      <4>1. PICK oo : oo = cache[tt]
        OBVIOUS
      <4>2. Object(oo, tt)'
        BY <2>5, <3>2, <4>1, ObjectKept DEF HeapInv
      <4> QED BY <3>1, <4>1, <4>2 DEF Object, InHeap
    <3> QED BY <2>4, <3>1, <3>2 DEF HeapInv
  <2> QED BY <2>16, <2>17
<1>7. ASSUME NEW kind, kind \in {"missing", "failed"}, kind = "missing" => ~ Finds(f.source),
             SchemaError(t, kind), SetTop(t, Sourced(f, NilSchema)), UNCHANGED heap
      PROVE  HeapInv' /\ BindsInv' /\ AloneInv'
  <2>1. PICK g : g = Sourced(f, NilSchema)
    OBVIOUS
  <2>2. frames' = [frames EXCEPT ![t] = <<g>> \o Tail(frames[t])]
    BY <1>7, <2>1 DEF SetTop
  <2>3. PICK d : d = [kind |-> kind, pipe |-> f.pipe, at |-> f.at, name |-> f.source]
    OBVIOUS
  <2>4. diags' = [diags EXCEPT ![t] = @ \cup {d}] /\ d.kind = kind /\ d.name = f.source
    BY <1>1, <1>7, <2>3 DEF SchemaError
  <2>5. diags'[t] = diags[t] \cup {d} /\ DOMAIN diags' = Thread /\ \A u \in Thread : u # t => diags'[u] = diags[u]
    BY <1>2, <2>4
  <2>6. SourceTrouble(t)'
    BY <1>7, <2>4, <2>5 DEF SourceTrouble
  <2>7. Grown
    BY <1>7, SameHeap
  <2>8. CallOK(f)'
    BY <1>3, <2>7, CallKept
  <2>9. CallOK(g)' /\ g.pipe = f.pipe
    BY <1>2, <2>1, <2>8, NilIsSchema, SourcedOK
  <2>10. Keeps(t, f, g)
    BY <2>6, <2>9 DEF Keeps
  <2>11. StepOf(t)
    BY <1>2, <2>2, <2>5 DEF StepOf, QueryCatalog, history, BindsInv
  <2>12. ResolvesFor(t)'
    <3>1. knew'[t] = knew[t] /\ knew[t] \subseteq exists
      BY DEF QueryCatalog, history, BindsInv
    <3>2. (d.kind = "missing" /\ d.name \in Exact) => TableOf[d.name] \notin exists
      BY <1>7, <2>4 DEF Finds
    <3> QED BY <1>2, <2>5, <3>1, <3>2 DEF ResolvesFor
  <2>13. Visible(g) \subseteq Visible(f)
    BY <1>2, <1>3, <2>1, SourcedNilSees
  <2>14. /\ frames'[t] = <<g>> \o Tail(frames[t]) /\ refs'[t] = refs[t] /\ next'[t] = next[t]
         /\ UNCHANGED <<heap, cache>>
    BY <1>2, <1>7, <2>2 DEF QueryCatalog
  <2> QED BY <1>1, <2>6, <2>10, <2>11, <2>12, <2>13, <2>14, QuietStep
<1>8. CASE ~ Finds(f.source) /\ SchemaError(t, "missing") /\ SetTop(t, Sourced(f, NilSchema)) /\ UNCHANGED heap
  BY <1>7, <1>8
<1>9. CASE SchemaError(t, "failed") /\ SetTop(t, Sourced(f, NilSchema)) /\ UNCHANGED heap
  BY <1>7, <1>9
<1> QED BY <1>1, <1>4, <1>6, <1>8, <1>9 DEF QueryCatalog

\* The object found becomes the cached one of its table.
LEMMA StoreSchemaKeeps ==
  ASSUME HeapInv, BindsInv, AloneInv, NEW t \in Thread, StoreSchema(t)
  PROVE  HeapInv' /\ BindsInv' /\ AloneInv'
<1>1. PICK f : f = Top(t)
  OBVIOUS
<1>2. /\ StackInv(t) /\ LexicalFor(t) /\ ResolvesFor(t) /\ ~ Idle(t) /\ DOMAIN frames = Thread /\ DOMAIN diags = Thread
      /\ f.step = "store" /\ f.step \in Looking
  BY <1>1 DEF BindsInv, BindInv, StoreSchema, Looking
<1>3. CallOK(f) /\ (~ SourceTrouble(t) => ScopeOK(f)) /\ f \in Calls /\ Visible(f) \subseteq AtHand(t)
  BY <1>1, <1>2, TopIsCall
<1>4. PICK tb : tb = TableOf[f.source]
  OBVIOUS
<1>5. /\ f.source # None /\ f.source \in Spelling /\ tb \in Table /\ f.obj \in Nat /\ f.col \in Nat
      /\ Object(f.obj, tb)
  BY <1>2, <1>3, <1>4, CatalogAssumption DEF CallOK, Calls
<1>6. PICK g : g = [f EXCEPT !.step = "alloc", !.col = 1]
  OBVIOUS
<1>7. frames' = [frames EXCEPT ![t] = <<g>> \o Tail(frames[t])] /\ heap' = heap
  BY <1>1, <1>6 DEF StoreSchema, SetTop
<1>8. Grown /\ Rewritten({})
  BY <1>7, SameHeap
<1>9. CallOK(f)' /\ (~ SourceTrouble(t) => ScopeOK(f)')
  BY <1>3, <1>8, CallKept
<1>10. Object(f.obj, tb)'
  BY <1>5, <1>7 DEF Object, InHeap
<1>11. 1 \in DOMAIN Columns[tb]
  BY <1>5, CatalogAssumption, LenProperties, EmptySeq
<1>12. LookingOn(g, f, "alloc", f.obj, 1)
  BY <1>3, <1>6 DEF LookingOn, Calls
<1>13. /\ CallOK(g)' /\ (~ SourceTrouble(t) => ScopeOK(g)') /\ g.pipe = f.pipe
       /\ Visible(g)' \subseteq Visible(f)' \cup {heap'[f.obj][k] : k \in 1 .. 1 - 1}
  BY <1>2, <1>4, <1>5, <1>9, <1>10, <1>11, <1>12, LooksOn
<1>14. {heap'[f.obj][k] : k \in 1 .. 1 - 1} = {}
  OBVIOUS
<1>15. Visible(g)' \subseteq AtHand(t) \cup {}
  BY <1>3, <1>8, <1>13, <1>14, VisibleKept
<1>16. SourceTrouble(t)' <=> SourceTrouble(t)
  BY DEF SourceTrouble, StoreSchema
<1>17. Keeps(t, f, g)
  BY <1>13, <1>16 DEF Keeps
<1>18. StepOf(t) /\ ResolvesFor(t)' /\ refs'[t] = refs[t] /\ next'[t] = next[t] /\ diags'[t] = diags[t]
  BY <1>2, <1>7 DEF StepOf, ResolvesFor, StoreSchema, history, BindsInv
<1>19. Alone(t) => OneName(AtHand(t) \cup {}, next'[t])
  <2>1. AtHand(t) \cup {} = AtHand(t)
    OBVIOUS
  <2> QED BY <1>18, <2>1 DEF AloneInv
<1>20. frames'[t] = <<g>> \o Tail(frames[t])
  BY <1>2, <1>7
<1>21. BindsInv' /\ AloneInv'
  BY <1>1, <1>8, <1>15, <1>17, <1>18, <1>19, <1>20, TopStep
<1>22. HeapInv'
  <2>1. cache' = [cache EXCEPT ![tb] = f.obj] /\ cache \in [Table -> Nat]
    BY <1>1, <1>4 DEF StoreSchema, HeapInv
  <2>2. ASSUME NEW tt \in Table, cache'[tt] # 0 PROVE Object(cache[tt], tt)'
    <3>1. CASE tt = tb
      <4>1. cache'[tt] = f.obj
        BY <2>1, <3>1
      <4> QED BY <1>10, <3>1, <4>1 DEF Object, InHeap
    <3>2. CASE tt # tb
      <4>1. cache'[tt] = cache[tt]
        BY <2>1, <3>2
      <4>2. Object(cache[tt], tt)
        BY <2>2, <4>1 DEF HeapInv
      <4> QED BY <1>7, <4>1, <4>2 DEF Object, InHeap
    <3> QED BY <3>1, <3>2
  <2>3. cache' \in [Table -> Nat]
    BY <1>5, <2>1
  <2> QED BY <1>7, <2>2, <2>3 DEF HeapInv
<1> QED BY <1>21, <1>22

\* One column of the shared object gets an id, whoever else reads it.
LEMMA AllocColumnKeeps ==
  ASSUME HeapInv, BindsInv, AloneInv, NEW t \in Thread, AllocColumn(t)
  PROVE  HeapInv' /\ BindsInv' /\ AloneInv'
<1>1. PICK f : f = Top(t)
  OBVIOUS
<1>2. /\ StackInv(t) /\ LexicalFor(t) /\ ResolvesFor(t) /\ ~ Idle(t) /\ DOMAIN frames = Thread /\ DOMAIN diags = Thread
      /\ f.step = "alloc" /\ f.step \in Looking
  BY <1>1 DEF BindsInv, BindInv, AllocColumn, Looking
<1>3. CallOK(f) /\ (~ SourceTrouble(t) => ScopeOK(f)) /\ f \in Calls /\ Visible(f) \subseteq AtHand(t)
  BY <1>1, <1>2, TopIsCall
<1>4. PICK tb : tb = TableOf[f.source]
  OBVIOUS
<1>5. PICK o, c : o = f.obj /\ c = f.col
  OBVIOUS
<1>6. /\ f.source # None /\ f.source \in Spelling /\ tb \in Table /\ o \in Nat /\ c \in Nat
      /\ Object(o, tb) /\ c \in DOMAIN Columns[tb]
  BY <1>2, <1>3, <1>4, <1>5, CatalogAssumption DEF CallOK, Calls
<1>7. Columns[tb] \in Seq(Name) /\ DOMAIN Columns[tb] = 1 .. Len(Columns[tb]) /\ Len(Columns[tb]) \in Nat
  BY <1>6, CatalogAssumption, LenProperties
<1>8. /\ heap \in Seq(Seq(Bindings)) /\ o \in DOMAIN heap /\ heap[o] \in Seq(Bindings)
      /\ DOMAIN heap[o] = 1 .. Len(heap[o]) /\ DOMAIN heap[o] = DOMAIN Columns[tb] /\ c \in DOMAIN heap[o]
      /\ Len(heap[o]) \in Nat
  BY <1>6, LenProperties DEF HeapInv, Object, InHeap
<1>9. heap[o][c] \in Bindings /\ Columns[tb][c] \in Name
  BY <1>6, <1>7, <1>8, LenProperties
<1>10. PICK id : id = next[t] + 1
  OBVIOUS
<1>11. next[t] \in Nat /\ id \in Nat /\ next \in [Thread -> Nat]
  BY <1>10 DEF BindsInv
<1>12. PICK e : e = Binding(id, Columns[tb][c])
  OBVIOUS
<1>13. heap' = [heap EXCEPT ![o] = [heap[o] EXCEPT ![c] = e]]
  <2>1. heap' = [heap EXCEPT ![o][c].id = id]
    BY <1>1, <1>5, <1>10 DEF AllocColumn, NextID
  <2>2. e = [heap[o][c] EXCEPT !.id = id]
    BY <1>6, <1>9, <1>12 DEF Bindings, Binding, Object
  <2>3. heap' = [heap EXCEPT ![o] = [heap[o] EXCEPT ![c] = [heap[o][c] EXCEPT !.id = id]]]
    BY <2>1, Zenon
  <2> QED BY <2>2, <2>3
<1>14. e \in Bindings /\ e.id = id /\ e.name = Columns[tb][c] /\ e.name = heap[o][c].name
  BY <1>6, <1>9, <1>11, <1>12 DEF Bindings, Binding, Object
<1>15. PICK cs : cs = [heap[o] EXCEPT ![c] = e]
  OBVIOUS
<1>16. /\ cs \in Seq(Bindings) /\ DOMAIN cs = DOMAIN heap[o] /\ cs[c] = e
       /\ \A k \in DOMAIN heap[o] : k # c => cs[k] = heap[o][k]
  BY <1>8, <1>14, <1>15, ExceptSeq
<1>17. /\ heap' \in Seq(Seq(Bindings)) /\ DOMAIN heap' = DOMAIN heap /\ heap'[o] = cs
       /\ \A k \in DOMAIN heap : k # o => heap'[k] = heap[k]
  BY <1>8, <1>13, <1>15, <1>16, ExceptSeq
<1>18. Grown
  BY <1>8, <1>14, <1>16, <1>17 DEF Grown
<1>19. Rewritten({e})
  BY <1>8, <1>14, <1>16, <1>17 DEF Rewritten
<1>20. CallOK(f)' /\ (~ SourceTrouble(t) => ScopeOK(f)')
  BY <1>3, <1>18, CallKept
<1>21. Object(o, tb)'
  BY <1>6, <1>18, ObjectKept
<1>22. SourceTrouble(t)' <=> SourceTrouble(t)
  BY DEF SourceTrouble, AllocColumn
<1>23. PICK g : g = IF c = Len(heap[o]) THEN Sourced(f, Shared(o)) ELSE [f EXCEPT !.col = c + 1]
  OBVIOUS
<1>24. frames' = [frames EXCEPT ![t] = <<g>> \o Tail(frames[t])]
  BY <1>1, <1>5, <1>23 DEF AllocColumn, SetTop
<1>25. Visible(f)' \subseteq AtHand(t) \cup {e}
  BY <1>3, <1>18, <1>19, VisibleKept
<1>26. {heap[o][k] : k \in 1 .. c - 1} \subseteq Visible(f)
  BY <1>2, <1>5 DEF Visible
<1>27. ASSUME NEW k \in 1 .. c PROVE heap'[o][k] \in AtHand(t) \cup {e}
  <2>1. CASE k = c
    BY <1>16, <1>17, <2>1
  <2>2. CASE k # c
    <3>1. k \in 1 .. c - 1 /\ k \in DOMAIN heap[o]
      BY <1>6, <1>8, <2>2
    <3>2. heap'[o][k] = heap[o][k]
      BY <1>16, <1>17, <2>2, <3>1
    <3> QED BY <1>3, <1>26, <3>1, <3>2
  <2> QED BY <2>1, <2>2
<1>28. Keeps(t, f, g) /\ Visible(g)' \subseteq AtHand(t) \cup {e}
  <2>1. CASE c = Len(heap[o])
    <3>1. PICK s : s = Shared(o)
      OBVIOUS
    <3>2. s \in Schemas /\ Kept(s)' /\ ~ IsNil(s) /\ Cols(s)' = cs /\ s.kind = "shared"
      BY <1>6, <1>17, <1>21, <3>1, EmptySeq DEF Shared, Schemas, Kept, IsNil, Cols, Object
    <3>3. Knows(Cols(s))' = NamesOf(tb)
      <4>1. \A k \in DOMAIN Columns[tb] : cs[k].name = Columns[tb][k]
        BY <1>17, <1>21 DEF Object
      <4>2. Knows(Cols(s))' = {cs[k].name : k \in DOMAIN cs} \ {None}
        BY <3>2 DEF Knows, Held
      <4>3. NamesOf(tb) \subseteq Name /\ None \notin Name
        BY <1>6, NamesTyped, NoneAssumption
      <4>4. NamesOf(tb) = {cs[k].name : k \in DOMAIN cs}
        BY <1>8, <1>16, <4>1 DEF NamesOf
      <4> QED BY <4>2, <4>3, <4>4
    <3>4. g = Sourced(f, s)
      BY <1>23, <2>1, <3>1
    <3>5. CallOK(g)' /\ (~ SourceTrouble(t) => ScopeOK(g)') /\ g.pipe = f.pipe
      BY <1>2, <1>4, <1>20, <3>2, <3>3, <3>4, SourcedOK
    <3>6. Entries(s)' \subseteq AtHand(t) \cup {e}
      <4>1. Entries(s)' = {cs[k] : k \in DOMAIN cs}
        BY <3>2 DEF Entries, Held
      <4>2. DOMAIN cs = 1 .. c
        BY <1>8, <1>16, <2>1
      <4> QED BY <1>17, <1>27, <4>1, <4>2
    <3>7. Visible(g)' \subseteq Visible(f)' \cup Entries(s)'
      <4>1. CASE f.wants = "source"
        <5>1. g = [f EXCEPT !.in = s, !.step = "stages"]
          BY <3>4, <4>1 DEF Sourced
        <5> QED BY <1>3, <5>1 DEF Visible, Calls
      <4>2. CASE f.wants # "source"
        <5>1. g = [f EXCEPT !.right = s, !.step = "on"]
          BY <3>4, <4>2 DEF Sourced
        <5> QED BY <1>3, <5>1 DEF Visible, Calls
      <4> QED BY <4>1, <4>2
    <3> QED BY <1>22, <1>25, <3>5, <3>6, <3>7 DEF Keeps
  <2>2. CASE c # Len(heap[o])
    <3>1. c + 1 \in DOMAIN Columns[tb] /\ c + 1 \in Nat /\ (c + 1) - 1 = c
      <4>1. PICK m : m = Len(heap[o])
        OBVIOUS
      <4>2. c \in 1 .. m /\ DOMAIN Columns[tb] = 1 .. m /\ m \in Nat /\ c # m
        BY <1>8, <2>2, <4>1, Zenon
      <4>3. c + 1 \in 1 .. m
        BY <4>2
      <4> QED BY <1>6, <4>2, <4>3
    <3>2. LookingOn(g, f, "alloc", o, c + 1)
      BY <1>2, <1>3, <1>5, <1>23, <2>2 DEF LookingOn, Calls
    <3>3. /\ CallOK(g)' /\ (~ SourceTrouble(t) => ScopeOK(g)') /\ g.pipe = f.pipe
          /\ Visible(g)' \subseteq Visible(f)' \cup {heap'[o][k] : k \in 1 .. (c + 1) - 1}
      BY <1>2, <1>4, <1>6, <1>20, <1>21, <3>1, <3>2, LooksOn
    <3>4. {heap'[o][k] : k \in 1 .. (c + 1) - 1} \subseteq AtHand(t) \cup {e}
      BY <1>27, <3>1
    <3> QED BY <1>22, <1>25, <3>3, <3>4 DEF Keeps
  <2> QED BY <2>1, <2>2
<1>29. /\ next' = [next EXCEPT ![t] = id] /\ StepOf(t) /\ ResolvesFor(t)' /\ refs'[t] = refs[t]
       /\ next'[t] = id /\ diags'[t] = diags[t]
  <2>1. next' = [next EXCEPT ![t] = id]
    BY <1>10 DEF AllocColumn, NextID
  <2> QED BY <1>2, <1>11, <1>24, <2>1 DEF StepOf, ResolvesFor, AllocColumn, history, BindsInv
<1>30. ASSUME Alone(t) PROVE OneName(AtHand(t) \cup {e}, next'[t])
  <2>1. OneName(AtHand(t), next[t])
    BY <1>30 DEF AloneInv
  <2>2. \A d \in AtHand(t) : d.id <= next[t]
    BY <2>1 DEF OneName
  <2>3. \A d \in AtHand(t) : d.id \in Int
    <3> QED BY AtHandTyped DEF Bindings
  <2> QED BY <1>10, <1>11, <1>14, <1>29, <2>1, <2>2, <2>3 DEF OneName
<1>31. frames'[t] = <<g>> \o Tail(frames[t])
  BY <1>2, <1>24
<1>32. BindsInv' /\ AloneInv'
  BY <1>1, <1>18, <1>19, <1>28, <1>29, <1>30, <1>31, TopStep
<1>33. HeapInv'
  <2>1. cache' = cache
    BY DEF AllocColumn
  <2>2. ASSUME NEW tt \in Table, cache[tt] # 0 PROVE Object(cache[tt], tt)'
    <3>1. PICK oo : oo = cache[tt]
      OBVIOUS
    <3>2. Object(oo, tt)'
      BY <1>18, <2>2, <3>1, ObjectKept DEF HeapInv
    <3> QED BY <2>1, <3>1, <3>2 DEF Object, InHeap
  <2> QED BY <1>17, <2>1, <2>2 DEF HeapInv
<1> QED BY <1>32, <1>33

\* A call that has just begun is in order, and sees nothing yet.
LEMMA FrameStarts ==
  ASSUME NEW p \in Pipe
  PROVE  CallOK(Frame(p))' /\ ScopeOK(Frame(p))' /\ Visible(Frame(p))' = {} /\ Frame(p).pipe = p
<1>1. PICK g : g = Frame(p)
  OBVIOUS
<1>2. /\ g \in Calls /\ g.pipe = p /\ g.at = 1 /\ g.sub = 1 /\ g.in = NilSchema /\ g.right = NilSchema
      /\ g.step = "load" /\ g.wants = "source" /\ g.source = Source[p]
  BY <1>1, NilIsSchema, PipelineAssumption DEF Frame, Calls, Steps
<1>3. Len(Stages[p]) \in Nat
  BY PipelineAssumption, LenProperties
<1>4. CallOK(g)'
  BY <1>2, <1>3, NilIsSchema DEF CallOK, Looking
<1>5. ScopeOK(g)'
  BY <1>2 DEF ScopeOK, Walking, Looking
<1>6. Visible(g)' = {}
  BY <1>2, NilIsSchema DEF Visible, Entries
<1> QED BY <1>1, <1>2, <1>4, <1>5, <1>6

\* bindStage goes down into a sub-pipeline.
LEMMA DescendKeeps ==
  ASSUME HeapInv, BindsInv, AloneInv, NEW t \in Thread, Descend(t)
  PROVE  HeapInv' /\ BindsInv' /\ AloneInv'
<1>1. PICK f : f = Top(t)
  OBVIOUS
<1>2. /\ StackInv(t) /\ LexicalFor(t) /\ ResolvesFor(t) /\ ~ Idle(t) /\ DOMAIN frames = Thread /\ DOMAIN diags = Thread
      /\ f.step = "stages" /\ AtStage(f) /\ f.sub <= Len(Here(f).subs)
  BY <1>1 DEF BindsInv, BindInv, Descend, InStages, AtStage, Here, Stage
<1>3. CallOK(f) /\ f \in Calls /\ f.pipe \in Pipe /\ f.at \in Nat \ {0} /\ f.sub \in Nat \ {0}
  BY <1>1, <1>2, TopIsCall DEF Calls
<1>4. f.at \in DOMAIN Stages[f.pipe]
  <2>1. Stages[f.pipe] \in Seq(StageSet)
    BY <1>3, PipelineAssumption
  <2> QED BY <1>2, <1>3, <2>1, LenProperties DEF AtStage
<1>5. PICK subs : subs = Here(f).subs
  OBVIOUS
<1>6. subs \in Seq(Pipe) /\ f.sub \in DOMAIN subs /\ subs[f.sub] \in Pipe
  <2>1. subs \in Seq(Pipe)
    BY <1>3, <1>4, <1>5, JoinSide DEF Here
  <2> QED BY <1>2, <1>3, <1>5, <2>1, LenProperties
<1>7. PICK g : g = Frame(subs[f.sub])
  OBVIOUS
<1>8. CallOK(g)' /\ ScopeOK(g)' /\ Visible(g)' = {} /\ g.pipe = subs[f.sub] /\ g \in Calls
  <2>1. CallOK(g)' /\ ScopeOK(g)' /\ Visible(g)' = {} /\ g.pipe = subs[f.sub]
    BY <1>6, <1>7, FrameStarts
  <2> QED BY <2>1 DEF CallOK
<1>9. Waits(f, g)
  BY <1>2, <1>5, <1>6, <1>8 DEF Waits
<1>10. PICK fs : fs = frames[t]
  OBVIOUS
<1>11. fs \in Seq(Calls) /\ fs # <<>> /\ DOMAIN fs = 1 .. Len(fs) /\ Len(fs) \in Nat /\ fs[1] = f
  <2>1. fs \in Seq(Calls) /\ fs # <<>>
    BY <1>2, <1>10 DEF StackInv, Idle
  <2> QED BY <1>1, <1>10, <2>1, HeadTailProperties, LenProperties DEF Top
<1>12. frames' = [frames EXCEPT ![t] = <<g>> \o fs] /\ heap' = heap /\ UNCHANGED cache
  BY <1>1, <1>5, <1>7, <1>10 DEF Descend, Stage, Here, shared
<1>13. /\ frames'[t] \in Seq(Calls) /\ DOMAIN frames'[t] = 1 .. Len(fs) + 1
       /\ frames'[t][1] = g /\ \A k \in DOMAIN fs : frames'[t][k + 1] = fs[k]
  <2>1. frames'[t] = <<g>> \o fs
    BY <1>2, <1>12
  <2> QED BY <1>8, <1>11, <2>1, Stacks
<1>14. Grown /\ Rewritten({})
  BY <1>12, SameHeap
<1>15. SourceTrouble(t)' <=> SourceTrouble(t)
  BY DEF SourceTrouble, Descend
<1>16. ASSUME NEW k \in DOMAIN fs
       PROVE  /\ CallOK(frames[t][k + 1])' /\ (~ SourceTrouble(t)' => ScopeOK(frames[t][k + 1])')
              /\ Visible(frames[t][k + 1])' \subseteq AtHand(t)
              /\ Waits(frames'[t][k + 1], frames'[t][k])
  <2>1. PICK h : h = fs[k]
    OBVIOUS
  <2>2. CallOK(h) /\ (~ SourceTrouble(t) => ScopeOK(h)) /\ (k > 1 => Waits(h, fs[k - 1]))
    BY <1>2, <1>10, <2>1 DEF StackInv
  <2>3. CallOK(h)' /\ (~ SourceTrouble(t)' => ScopeOK(h)')
    BY <1>14, <1>15, <2>2, CallKept
  <2>4. Visible(h) \subseteq AtHand(t)
    BY <1>10, <2>1, AtHandHas DEF InHand
  <2>5. Visible(h)' \subseteq AtHand(t) \cup {}
    BY <1>14, <2>2, <2>4, VisibleKept
  <2>6. frames'[t][k + 1] = h
    BY <1>13, <2>1
  <2>7. Waits(h, frames'[t][k])
    <3>1. CASE k = 1
      BY <1>9, <1>11, <1>13, <2>1, <3>1
    <3>2. CASE k # 1
      <4>1. k - 1 \in DOMAIN fs /\ (k - 1) + 1 = k /\ k > 1
        BY <1>11, <3>2
      <4>2. frames'[t][k] = fs[k - 1]
        BY <1>13, <4>1
      <4> QED BY <2>2, <4>1, <4>2
    <3> QED BY <3>1, <3>2
  <2> QED BY <2>3, <2>5, <2>6, <2>7
<1>17. ASSUME NEW k \in DOMAIN frames'[t], k # 1 PROVE k - 1 \in DOMAIN fs /\ (k - 1) + 1 = k
  BY <1>11, <1>13, <1>17
<1>18. StackInv(t)'
  <2>1. ASSUME NEW k \in DOMAIN frames'[t]
        PROVE  /\ CallOK(frames[t][k])' /\ (~ SourceTrouble(t)' => ScopeOK(frames[t][k])')
               /\ k > 1 => Waits(frames'[t][k], frames'[t][k - 1])
    <3>1. CASE k = 1
      BY <1>8, <1>13, <3>1
    <3>2. CASE k # 1
      <4>1. PICK j : j = k - 1
        OBVIOUS
      <4>2. j \in DOMAIN fs /\ j + 1 = k
        BY <1>17, <3>2, <4>1
      <4> QED BY <1>16, <4>1, <4>2
    <3> QED BY <3>1, <3>2
  <2> QED BY <1>13, <2>1 DEF StackInv
<1>19. StepOf(t) /\ LexicalFor(t)' /\ ResolvesFor(t)' /\ refs'[t] = refs[t] /\ next'[t] = next[t]
  BY <1>2, <1>12 DEF StepOf, LexicalFor, ResolvesFor, SourceTrouble, Descend, shared, history, BindsInv
<1>20. BindsInv'
  BY <1>14, <1>18, <1>19, StepKeepsBinds
<1>21. AtHand(t)' \subseteq AtHand(t)
  <2>1. ASSUME NEW e \in AtHand(t)' PROVE e \in AtHand(t)
    <3>1. e \in Stamped(t)' \/ \E k \in DOMAIN frames'[t] : e \in Visible(frames[t][k])'
      BY <2>1, AtHandHas DEF InHand
    <3>2. CASE e \in Stamped(t)'
      BY <1>19, <3>2, AtHandHas DEF InHand, Stamped
    <3>3. ASSUME NEW k \in DOMAIN frames'[t], e \in Visible(frames[t][k])' PROVE e \in AtHand(t)
      <4>1. k # 1
        BY <1>8, <1>13, <3>3
      <4>2. PICK j : j = k - 1
        OBVIOUS
      <4>3. j \in DOMAIN fs /\ j + 1 = k
        BY <1>17, <4>1, <4>2
      <4> QED BY <1>16, <3>3, <4>3
    <3> QED BY <3>1, <3>2, <3>3
  <2> QED BY <2>1
<1>22. Alone(t) => OneName(AtHand(t)', next'[t])
  BY <1>19, <1>21, FewerIDs DEF AloneInv
<1>23. AloneInv'
  BY <1>19, <1>22, StepKeepsIDs
<1>24. HeapInv'
  BY <1>12 DEF HeapInv, Object, InHeap
<1> QED BY <1>20, <1>23, <1>24

\* The call below a sub-pipeline is in order again when it goes on, and sees what it saw.
LEMMA ResumedOK ==
  ASSUME NEW up, CallOK(up)', NEW trouble, ~ trouble => ScopeOK(up)', NEW f, Waits(up, f),
         NEW g, g = Resumed(up, f.pipe)
  PROVE  CallOK(g)' /\ (~ trouble => ScopeOK(g)') /\ g.pipe = up.pipe /\ Visible(g)' \subseteq Visible(up)'
<1>1. up \in Calls /\ up.sub \in Nat \ {0} /\ up.pipe \in Pipe /\ up.at \in Nat \ {0}
  BY DEF CallOK, Calls
<1>2. up.step = "stages" /\ AtStage(up) /\ up.sub \in DOMAIN Here(up).subs /\ f.pipe = Here(up).subs[up.sub]
  BY DEF Waits
<1>3. up.at \in DOMAIN Stages[up.pipe]
  <2>1. Stages[up.pipe] \in Seq(StageSet)
    BY <1>1, PipelineAssumption
  <2> QED BY <1>1, <1>2, <2>1, LenProperties DEF AtStage
<1>4. f.pipe \in Pipe /\ Source[f.pipe] \in Spelling \cup {None}
  <2>1. Here(up).subs \in Seq(Pipe)
    BY <1>1, <1>3, JoinSide DEF Here
  <2>2. f.pipe \in Pipe
    BY <1>2, <2>1, LenProperties
  <2> QED BY <2>2, PipelineAssumption
<1>5. up.at <= Len(Stages[up.pipe]) + 1 /\ Kept(up.in)' /\ Kept(up.right)'
  BY DEF CallOK
<1>6. ASSUME ~ trouble, up.pipe \in FromTables
      PROVE  ~ IsNil(up.in) /\ Knows(Cols(up.in))' = Scope[up.pipe][up.at]
  BY <1>2, <1>6 DEF ScopeOK, Walking, Looking
<1>7. CASE Here(up).op = "join"
  <2> PICK n \in Nat \ {0}, src \in Spelling \cup {None} : n = up.sub + 1 /\ src = Source[f.pipe]
    BY <1>1, <1>4
  <2>1. g = [up EXCEPT !.sub = n, !.step = "load", !.wants = "right", !.source = src]
    BY <1>7 DEF Resumed, Here
  <2>2. /\ g \in Calls /\ g.pipe = up.pipe /\ g.at = up.at /\ g.in = up.in /\ g.right = up.right
        /\ g.step = "load" /\ g.wants = "right" /\ g.source = Source[f.pipe]
    BY <1>1, <1>4, <2>1 DEF Calls, Steps
  <2>3. up.sub = 1
    BY <1>2, <1>7 DEF CallOK, AtJoin
  <2>4. AtJoin(g) /\ g.source = Source[Here(g).subs[1]]
    BY <1>2, <1>7, <2>2, <2>3 DEF AtJoin, AtStage, Here
  <2>5. CallOK(g)'
    BY <1>5, <2>2, <2>4 DEF CallOK, AtJoin, AtStage, Here
  <2>6. ~ trouble => ScopeOK(g)'
    BY <1>6, <2>2 DEF ScopeOK
  <2>7. Visible(g)' \subseteq Visible(up)'
    BY <2>2 DEF Visible
  <2> QED BY <2>2, <2>5, <2>6, <2>7
<1>8. CASE Here(up).op # "join"
  <2>1. g = [up EXCEPT !.sub = up.sub + 1]
    BY <1>8 DEF Resumed, Here
  <2>2. /\ g \in Calls /\ g.pipe = up.pipe /\ g.at = up.at /\ g.in = up.in /\ g.right = up.right
        /\ g.step = "stages"
    BY <1>1, <1>2, <2>1 DEF Calls
  <2>3. ~ AtJoin(g)
    BY <1>8, <2>2 DEF AtJoin, Here
  <2>4. CallOK(g)'
    BY <1>5, <2>2, <2>3 DEF CallOK, Looking, AtJoin, AtStage, Here
  <2>5. ~ trouble => ScopeOK(g)'
    BY <1>6, <2>2 DEF ScopeOK
  <2>6. Visible(g)' \subseteq Visible(up)'
    BY <2>2 DEF Visible
  <2> QED BY <2>2, <2>4, <2>5, <2>6
<1> QED BY <1>7, <1>8

\* The end of a pipeline: its call is dropped, and the one below goes on.
LEMMA ReturnKeeps ==
  ASSUME HeapInv, BindsInv, AloneInv, NEW t \in Thread, Return(t)
  PROVE  HeapInv' /\ BindsInv' /\ AloneInv'
<1>1. PICK f : f = Top(t)
  OBVIOUS
<1>2. /\ StackInv(t) /\ LexicalFor(t) /\ ResolvesFor(t) /\ ~ Idle(t) /\ DOMAIN frames = Thread /\ DOMAIN diags = Thread
      /\ heap' = heap /\ UNCHANGED cache
  BY DEF BindsInv, BindInv, Return, shared
<1>3. PICK fs : fs = frames[t]
  OBVIOUS
<1>4. PICK rest : rest = Tail(fs)
  OBVIOUS
<1>5. /\ fs \in Seq(Calls) /\ fs # <<>> /\ fs[1] = f /\ rest \in Seq(Calls) /\ Len(rest) \in Nat
      /\ DOMAIN rest = 1 .. Len(rest) /\ DOMAIN fs = 1 .. Len(rest) + 1
      /\ \A k \in 1 .. Len(rest) : rest[k] = fs[k + 1]
  <2>1. fs \in Seq(Calls) /\ fs # <<>>
    BY <1>2, <1>3 DEF StackInv, Idle
  <2>2. /\ Head(fs) = fs[1] /\ rest \in Seq(Calls) /\ Len(rest) = Len(fs) - 1
        /\ \A k \in 1 .. Len(rest) : rest[k] = fs[k + 1]
    BY <1>4, <2>1, HeadTailProperties
  <2>3. Len(fs) \in Nat /\ DOMAIN fs = 1 .. Len(fs) /\ Len(rest) \in Nat /\ DOMAIN rest = 1 .. Len(rest)
    BY <2>1, <2>2, LenProperties
  <2> QED BY <1>1, <1>3, <2>1, <2>2, <2>3 DEF Top
<1>6. Grown /\ Rewritten({})
  BY <1>2, SameHeap
<1>7. SourceTrouble(t)' <=> SourceTrouble(t)
  BY DEF SourceTrouble, Return
<1>8. ASSUME NEW k \in DOMAIN rest, NEW h, h = rest[k]
      PROVE  /\ CallOK(h)' /\ (~ SourceTrouble(t)' => ScopeOK(h)')
             /\ Visible(h)' \subseteq AtHand(t)
             /\ k = 1 => Waits(h, f)
             /\ k # 1 => k - 1 \in DOMAIN rest /\ Waits(h, rest[k - 1])
  <2>1. k + 1 \in DOMAIN fs /\ h = fs[k + 1] /\ k + 1 > 1 /\ (k + 1) - 1 = k
    BY <1>5, <1>8
  <2>2. CallOK(h) /\ (~ SourceTrouble(t) => ScopeOK(h)) /\ Waits(h, fs[k])
    BY <1>2, <1>3, <2>1 DEF StackInv
  <2>3. CallOK(h)' /\ (~ SourceTrouble(t)' => ScopeOK(h)')
    BY <1>6, <1>7, <2>2, CallKept
  <2>4. Visible(h) \subseteq AtHand(t)
    BY <1>3, <2>1, AtHandHas DEF InHand
  <2>5. Visible(h)' \subseteq AtHand(t) \cup {}
    BY <1>6, <2>2, <2>4, VisibleKept
  <2>6. k # 1 => k - 1 \in DOMAIN rest /\ fs[k] = rest[k - 1]
    <3> SUFFICES ASSUME k # 1 PROVE k - 1 \in DOMAIN rest /\ fs[k] = rest[k - 1]
      OBVIOUS
    <3>1. k - 1 \in 1 .. Len(rest) /\ (k - 1) + 1 = k
      BY <1>5
    <3> QED BY <1>5, <3>1
  <2> QED BY <1>5, <2>2, <2>3, <2>5, <2>6
<1>9. refs'[t] = refs[t] /\ next'[t] = next[t] /\ diags'[t] = diags[t]
  BY DEF Return
<1>10. ASSUME frames'[t] \in Seq(Calls), frames' = [frames EXCEPT ![t] = frames'[t]], StackInv(t)',
              \A k \in DOMAIN frames'[t] : Visible(frames[t][k])' \subseteq AtHand(t)
       PROVE  HeapInv' /\ BindsInv' /\ AloneInv'
  <2>1. StepOf(t) /\ LexicalFor(t)' /\ ResolvesFor(t)'
    BY <1>2, <1>9, <1>10 DEF StepOf, LexicalFor, ResolvesFor, SourceTrouble, Return, shared, history, BindsInv
  <2>2. BindsInv'
    BY <1>6, <1>10, <2>1, StepKeepsBinds
  <2>3. AtHand(t)' \subseteq AtHand(t)
    <3>1. ASSUME NEW e \in AtHand(t)' PROVE e \in AtHand(t)
      <4>1. e \in Stamped(t)' \/ \E k \in DOMAIN frames'[t] : e \in Visible(frames[t][k])'
        BY <3>1, AtHandHas DEF InHand
      <4>2. CASE e \in Stamped(t)'
        BY <1>9, <4>2, AtHandHas DEF InHand, Stamped
      <4> QED BY <1>10, <4>1, <4>2
    <3> QED BY <3>1
  <2>4. Alone(t) => OneName(AtHand(t)', next'[t])
    BY <1>9, <2>3, FewerIDs DEF AloneInv
  <2>5. AloneInv'
    BY <2>1, <2>4, StepKeepsIDs
  <2>6. HeapInv'
    BY <1>2 DEF HeapInv, Object, InHeap
  <2> QED BY <2>2, <2>5, <2>6
<1>11. CASE rest = <<>>
  <2>1. frames' = [frames EXCEPT ![t] = <<>>]
    BY <1>3, <1>4, <1>11 DEF Return
  <2>2. frames'[t] = <<>> /\ DOMAIN frames'[t] = {} /\ frames'[t] \in Seq(Calls)
    BY <1>2, <2>1, EmptySeq
  <2>3. StackInv(t)'
    BY <2>2 DEF StackInv
  <2>4. frames' = [frames EXCEPT ![t] = frames'[t]]
    BY <2>1, <2>2
  <2> QED BY <1>10, <2>2, <2>3, <2>4
<1>12. CASE rest # <<>>
  <2>1. PICK up : up = rest[1]
    OBVIOUS
  <2>2. 1 \in DOMAIN rest /\ up = fs[2] /\ Waits(up, f)
    <3>1. 1 \in DOMAIN rest
      BY <1>5, <1>12, Stacks
    <3>2. rest[1] = fs[1 + 1]
      BY <1>5, <3>1
    <3> QED BY <1>8, <2>1, <3>1, <3>2
  <2>3. PICK g : g = Resumed(up, f.pipe)
    OBVIOUS
  <2>4. /\ CallOK(up)' /\ (~ SourceTrouble(t)' => ScopeOK(up)') /\ Visible(up)' \subseteq AtHand(t)
    BY <1>8, <2>1, <2>2
  <2>5. /\ CallOK(g)' /\ (~ SourceTrouble(t)' => ScopeOK(g)') /\ g.pipe = up.pipe
        /\ Visible(g)' \subseteq AtHand(t) /\ g \in Calls
    <3>1. /\ CallOK(g)' /\ (~ SourceTrouble(t)' => ScopeOK(g)') /\ g.pipe = up.pipe
          /\ Visible(g)' \subseteq Visible(up)'
      BY <2>2, <2>3, <2>4, ResumedOK
    <3> QED BY <2>4, <3>1 DEF CallOK
  <2>6. frames' = [frames EXCEPT ![t] = <<g>> \o Tail(rest)]
    <3>1. Tail(frames[t]) = rest /\ frames[t][2] = up
      BY <1>3, <1>4, <2>2
    <3>2. frames' = [frames EXCEPT ![t] =
            IF Tail(frames[t]) = <<>> THEN <<>>
            ELSE <<Resumed(frames[t][2], Top(t).pipe)>> \o Tail(Tail(frames[t]))]
      BY Zenon DEF Return
    <3> QED BY <1>1, <1>12, <2>3, <3>1, <3>2, Zenon
  <2>7. frames'[t] = <<g>> \o Tail(rest)
    BY <1>2, <2>6
  <2>8. /\ frames'[t] \in Seq(Calls) /\ DOMAIN frames'[t] = DOMAIN rest /\ frames'[t][1] = g
        /\ \A k \in DOMAIN rest : k # 1 => frames'[t][k] = rest[k]
    BY <1>5, <1>12, <2>5, <2>7, Stacks
  <2>9. ASSUME NEW k \in DOMAIN rest
        PROVE  /\ CallOK(frames[t][k])' /\ (~ SourceTrouble(t)' => ScopeOK(frames[t][k])')
               /\ Visible(frames[t][k])' \subseteq AtHand(t)
               /\ k > 1 => Waits(frames'[t][k], frames'[t][k - 1])
    <3>1. CASE k = 1
      BY <2>5, <2>8, <3>1
    <3>2. CASE k # 1
      <4>1. PICK h : h = rest[k]
        OBVIOUS
      <4>2. /\ CallOK(h)' /\ (~ SourceTrouble(t)' => ScopeOK(h)') /\ Visible(h)' \subseteq AtHand(t)
            /\ k - 1 \in DOMAIN rest /\ Waits(h, rest[k - 1])
        BY <1>8, <3>2, <4>1
      <4>3. frames'[t][k] = h
        BY <2>8, <3>2, <4>1
      <4>4. frames'[t][k - 1].pipe = rest[k - 1].pipe
        BY <2>1, <2>5, <2>8, <4>2
      <4> QED BY <4>2, <4>3, <4>4 DEF Waits
    <3> QED BY <3>1, <3>2
  <2>10. StackInv(t)'
    BY <2>8, <2>9 DEF StackInv
  <2>11. frames' = [frames EXCEPT ![t] = frames'[t]]
    BY <2>6, <2>7
  <2> QED BY <1>10, <2>8, <2>9, <2>10, <2>11
<1> QED BY <1>11, <1>12

\* What a stage stamps and diagnoses of a call's input, on top of what was.
Mentions(f) == Mentioned(Here(f).items)
Stamps(t, f) ==
  \A r \in refs'[t] : r \in refs[t] \/
    /\ ~ IsNil(f.in) /\ r.pipe = f.pipe /\ r.at = f.at /\ r.name \in Mentions(f)
    /\ Has(Cols(f.in), r.name)
    /\ r = [pipe |-> f.pipe, at |-> f.at, name |-> r.name, id |-> Lookup(Cols(f.in), r.name).id]
Diagnoses(t, f) ==
  /\ diags[t] \subseteq diags'[t]
  /\ \A d \in diags'[t] : d \in diags[t] \/
       /\ ~ IsNil(f.in) /\ d.kind = "column" /\ d.pipe = f.pipe /\ d.at = f.at
       /\ ~ Has(Cols(f.in), d.name) /\ d.name \in Mentions(f)

\* checkExpr stamps what the input has and diagnoses what it has not.
LEMMA ChecksDo ==
  ASSUME NEW t \in Thread, DOMAIN refs = Thread, DOMAIN diags = Thread,
         NEW f, f = Top(t), CheckExprs(t, Stage(t).items, f.in)
  PROVE  /\ Stamps(t, f) /\ Diagnoses(t, f)
         /\ refs' = [refs EXCEPT ![t] = refs'[t]] /\ DOMAIN diags' = Thread
         /\ \A u \in Thread : u # t => refs'[u] = refs[u] /\ diags'[u] = diags[u]
<1>1. PICK pipe, at, items : pipe = f.pipe /\ at = f.at /\ items = Here(f).items
  OBVIOUS
<1>2. PICK R : R = IF IsNil(f.in) THEN {}
       ELSE {[pipe |-> pipe, at |-> at, name |-> n, id |-> Lookup(Cols(f.in), n).id] :
               n \in {m \in Mentioned(items) : Has(Cols(f.in), m)}}
  OBVIOUS
<1>3. PICK D : D = IF IsNil(f.in) THEN {}
       ELSE {[kind |-> "column", pipe |-> pipe, at |-> at, name |-> n] :
               n \in {m \in Mentioned(items) : ~Has(Cols(f.in), m)}}
  OBVIOUS
<1>4. refs' = [refs EXCEPT ![t] = refs[t] \cup R] /\ diags' = [diags EXCEPT ![t] = diags[t] \cup D]
  <2>1. Stage(t).items = items /\ Top(t).pipe = pipe /\ Top(t).at = at
    BY <1>1 DEF Stage, Here
  <2> QED BY <1>2, <1>3, <2>1 DEF CheckExprs
<1>5. ASSUME NEW r \in R
      PROVE  /\ ~ IsNil(f.in) /\ r.pipe = pipe /\ r.at = at /\ r.name \in Mentioned(items)
             /\ Has(Cols(f.in), r.name)
             /\ r = [pipe |-> pipe, at |-> at, name |-> r.name, id |-> Lookup(Cols(f.in), r.name).id]
  <2>1. ~ IsNil(f.in)
    BY <1>2, <1>5
  <2>2. PICK n \in Mentioned(items) : Has(Cols(f.in), n) /\
               r = [pipe |-> pipe, at |-> at, name |-> n, id |-> Lookup(Cols(f.in), n).id]
    BY <1>2, <1>5, <2>1
  <2> QED BY <2>1, <2>2
<1>6. ASSUME NEW d \in D
      PROVE  /\ ~ IsNil(f.in) /\ d.kind = "column" /\ d.pipe = pipe /\ d.at = at
             /\ ~ Has(Cols(f.in), d.name) /\ d.name \in Mentioned(items)
  <2>1. ~ IsNil(f.in)
    BY <1>3, <1>6
  <2>2. PICK n \in Mentioned(items) : ~ Has(Cols(f.in), n) /\
               d = [kind |-> "column", pipe |-> pipe, at |-> at, name |-> n]
    BY <1>3, <1>6, <2>1
  <2> QED BY <2>1, <2>2
<1>7. refs'[t] = refs[t] \cup R /\ diags'[t] = diags[t] \cup D
  BY <1>4
<1>8. Stamps(t, f)
  BY <1>1, <1>5, <1>7 DEF Stamps, Mentions
<1>9. Diagnoses(t, f)
  BY <1>1, <1>6, <1>7 DEF Diagnoses, Mentions
<1>10. refs' = [refs EXCEPT ![t] = refs'[t]]
  BY <1>4, <1>7
<1> QED BY <1>4, <1>8, <1>9, <1>10

\* The call at its next stage is a call.
LEMMA StageBound ==
  ASSUME NEW f \in Calls, NEW at \in Nat \ {0}, NEW sub \in Nat \ {0}, NEW s \in Schemas, NEW r \in Schemas,
         NEW step \in Steps
  PROVE  [f EXCEPT !.at = at, !.sub = sub, !.in = s, !.right = r, !.step = step] \in Calls
BY DEF Calls

\* The rest of a stage: its references stamped, its output schema threaded on.
LEMMA BindStageKeeps ==
  ASSUME HeapInv, BindsInv, AloneInv, NEW t \in Thread, BindStage(t)
  PROVE  HeapInv' /\ BindsInv' /\ AloneInv'
<1>1. PICK f : f = Top(t)
  OBVIOUS
<1>2. /\ StackInv(t) /\ LexicalFor(t) /\ ResolvesFor(t) /\ ~ Idle(t) /\ DOMAIN frames = Thread
      /\ DOMAIN diags = Thread /\ refs \in [Thread -> SUBSET References] /\ DOMAIN refs = Thread
      /\ next[t] \in Nat /\ heap' = heap /\ UNCHANGED <<exists, cache, history>>
  BY DEF BindsInv, BindInv, BindStage, InStages, HeapAfter
<1>3. /\ CallOK(f) /\ (~ SourceTrouble(t) => ScopeOK(f)) /\ f \in Calls /\ Visible(f) \subseteq AtHand(t)
      /\ f.pipe \in Pipe /\ f.at \in Nat \ {0} /\ f.in \in Schemas /\ f.right \in Schemas
      /\ Kept(f.in) /\ Kept(f.right)
  BY <1>1, <1>2, TopIsCall DEF Calls, CallOK
<1>4. AtStage(f) /\ f.step \notin Looking /\ (f.step = "on" \/ f.sub > Len(Here(f).subs))
  BY <1>1, <1>3 DEF BindStage, InStages, AtStage, CallOK, AtJoin, Looking, Stage, Here
<1>5. PICK st : st = Here(f)
  OBVIOUS
<1>6. f.at \in DOMAIN Stages[f.pipe] /\ st \in StageSet /\ st = Stages[f.pipe][f.at]
  <2>1. Stages[f.pipe] \in Seq(StageSet)
    BY <1>3, PipelineAssumption
  <2>2. f.at \in DOMAIN Stages[f.pipe]
    BY <1>3, <1>4, <2>1, LenProperties DEF AtStage
  <2> QED BY <1>3, <1>5, <2>2, JoinSide DEF Here
<1>7. st.op = "join" => f.step = "on" /\ f.source = Source[st.subs[1]]
  <2> SUFFICES ASSUME st.op = "join" PROVE f.step = "on" /\ f.source = Source[st.subs[1]]
    OBVIOUS
  <2>1. Len(st.subs) = 1
    BY <1>3, <1>6, JoinSide
  <2>2. AtJoin(f)
    BY <1>4, <1>5 DEF AtJoin
  <2>3. f.step = "on"
    <3>1. CASE f.step = "stages"
      <4>1. f.sub = 1
        BY <1>3, <2>2, <3>1 DEF CallOK
      <4> QED BY <1>4, <1>5, <2>1, <3>1, <4>1
    <3> QED BY <1>3, <1>4, <3>1 DEF Calls, Steps, Looking
  <2> QED BY <1>3, <1>5, <2>3 DEF CallOK
<1>8. PICK s, n : /\ s = StageOutput(st, f.in, f.right, next[t]).schema
                  /\ n = StageOutput(st, f.in, f.right, next[t]).next
  OBVIOUS
<1>9. Output(st, f.in, f.right, next[t], s, n)
  BY <1>6, <1>8, StageOutputs
<1>10. s \in Schemas /\ Kept(s) /\ n \in Nat
  BY <1>2, <1>3, <1>6, <1>9, StageTyped DEF HeapInv
<1>11. PICK g : g = [f EXCEPT !.at = f.at + 1, !.sub = 1, !.in = s, !.right = NilSchema, !.step = "stages"]
  OBVIOUS
<1>12. /\ frames' = [frames EXCEPT ![t] = <<g>> \o Tail(frames[t])]
       /\ next' = [next EXCEPT ![t] = n]
       /\ CheckExprs(t, Stage(t).items, f.in)
  <2>1. Stage(t) = st
    BY <1>1, <1>5 DEF Stage, Here
  <2> QED BY <1>1, <1>8, <1>11, <2>1 DEF BindStage, SetTop
<1>13. /\ g \in Calls /\ g.pipe = f.pipe /\ g.at = f.at + 1 /\ g.sub = 1 /\ g.in = s
       /\ g.right = NilSchema /\ g.step = "stages"
  <2>1. PICK at \in Nat \ {0} : at = f.at + 1
    BY <1>3
  <2>2. g = [f EXCEPT !.at = at, !.sub = 1, !.in = s, !.right = NilSchema, !.step = "stages"]
    BY <1>11, <2>1
  <2>3. /\ g.pipe = f.pipe /\ g.at = at /\ g.sub = 1 /\ g.in = s
        /\ g.right = NilSchema /\ g.step = "stages"
    BY <1>3, <2>2 DEF Calls
  <2>4. g \in Calls
    <3>1. 1 \in Nat \ {0} /\ "stages" \in Steps /\ NilSchema \in Schemas
      BY NilIsSchema DEF Steps
    <3> QED BY <1>3, <1>10, <2>1, <2>2, <3>1, StageBound
  <2> QED BY <2>1, <2>3, <2>4
<1>14. Grown /\ Rewritten({})
  BY <1>2, SameHeap
<1>15. CallOK(g)'
  <2>1. Len(Stages[f.pipe]) \in Nat
    BY <1>3, PipelineAssumption, LenProperties
  <2>2. g.at <= Len(Stages[g.pipe]) + 1
    BY <1>3, <1>4, <1>13, <2>1 DEF AtStage
  <2>3. Kept(s)'
    BY <1>10, <1>14, SchemaKept
  <2> QED BY <1>13, <2>2, <2>3, NilIsSchema DEF CallOK, Looking
<1>16. /\ Stamps(t, f) /\ Diagnoses(t, f)
       /\ refs' = [refs EXCEPT ![t] = refs'[t]] /\ DOMAIN diags' = Thread
       /\ \A u \in Thread : u # t => refs'[u] = refs[u] /\ diags'[u] = diags[u]
  BY <1>1, <1>2, <1>12, ChecksDo
<1>17. SourceTrouble(t)' <=> SourceTrouble(t)
  BY <1>16 DEF SourceTrouble, Diagnoses
<1>18. ASSUME ~ SourceTrouble(t), f.pipe \in FromTables
       PROVE  /\ ~ IsNil(f.in) /\ Knows(Cols(f.in)) = Scope[f.pipe][f.at]
              /\ ~ IsNil(s) /\ Knows(Cols(s)) = Scope[f.pipe][f.at + 1]
  <2>1. /\ ~ IsNil(f.in) /\ Knows(Cols(f.in)) = Scope[f.pipe][f.at]
        /\ f.step = "on" => ~ IsNil(f.right) /\ Knows(Cols(f.right)) = NamesOf(TableOf[f.source])
    BY <1>3, <1>4, <1>18 DEF ScopeOK, Walking
  <2>2. ~ IsNil(s) /\ Knows(Cols(s)) = Scope[f.pipe][f.at + 1]
    <3>1. SideKnown(Stages[f.pipe][f.at], f.right)
      BY <1>6, <1>7, <2>1 DEF SideKnown
    <3>2. Output(Stages[f.pipe][f.at], f.in, f.right, next[t], s, n)
      BY <1>6, <1>9
    <3>3. /\ HeapInv /\ f.pipe \in FromTables /\ f.at \in DOMAIN Stages[f.pipe]
          /\ f.in \in Schemas /\ Kept(f.in) /\ f.right \in Schemas /\ Kept(f.right) /\ next[t] \in Nat
          /\ ~ IsNil(f.in) /\ Knows(Cols(f.in)) = Scope[f.pipe][f.at]
      BY <1>2, <1>3, <1>6, <1>18, <2>1
    <3>4. PICK p \in FromTables, in \in Schemas, right \in Schemas : p = f.pipe /\ in = f.in /\ right = f.right
      BY <3>3
    <3>5. PICK k \in DOMAIN Stages[p] : k = f.at
      BY <3>3, <3>4
    <3>6. /\ SideKnown(Stages[p][k], right) /\ Output(Stages[p][k], in, right, next[t], s, n)
          /\ Kept(in) /\ Kept(right) /\ ~ IsNil(in) /\ Knows(Cols(in)) = Scope[p][k]
      BY <3>1, <3>2, <3>3, <3>4, <3>5
    <3>7. ~ IsNil(s) /\ Knows(Cols(s)) = Leaves(Stages[p][k], Scope[p][k])
      <4>1. HeapInv /\ next[t] \in Nat
        BY <3>3
      <4> QED BY <3>6, <4>1, StageNames
    <3>8. Scope[p][k + 1] = Leaves(Stages[p][k], Scope[p][k])
      BY ScopeUnfolds
    <3> QED BY <3>4, <3>5, <3>7, <3>8
  <2> QED BY <2>1, <2>2
<1>19. ~ SourceTrouble(t)' => ScopeOK(g)'
  <2> SUFFICES ASSUME ~ SourceTrouble(t), f.pipe \in FromTables
               PROVE  ~ IsNil(s) /\ Knows(Cols(s))' = Scope[f.pipe][f.at + 1]
    BY <1>13, <1>17 DEF ScopeOK
  <2>1. Knows(Cols(s))' = Knows(Cols(s))
    BY <1>10, <1>14, SchemaKept
  <2> QED BY <1>18, <2>1
<1>20. StackInv(t)'
  <2>1. frames'[t] = <<g>> \o Tail(frames[t])
    BY <1>2, <1>12
  <2> QED BY <1>1, <1>2, <1>13, <1>14, <1>15, <1>17, <1>19, <2>1, TopKept
<1>21. Mentions(f) \subseteq Name
  <2>1. st.items \in Seq(Item)
    BY <1>6 DEF StageSet
  <2>2. ASSUME NEW k \in DOMAIN st.items PROVE st.items[k].ref \in Name \cup {None}
    <3>1. st.items[k] \in Item
      BY <2>1, LenProperties
    <3> QED BY <3>1 DEF Item
  <2> QED BY <1>5, <2>2 DEF Mentions, Mentioned
<1>22. Cols(f.in) \in Seq(Bindings) /\ Held(Cols(f.in)) \subseteq Bindings
  BY <1>3, ColsTyped, HeldTyped DEF HeapInv
<1>23. ASSUME NEW m \in Mentions(f)
       PROVE  Has(Cols(f.in), m) <=> m \in Knows(Cols(f.in))
  <2>1. m # None
    BY <1>23 DEF Mentions, Mentioned
  <2> QED BY <2>1 DEF Has, Knows, Held
<1>24. LexicalFor(t)'
  <2> SUFFICES ASSUME ~ SourceTrouble(t)'
               PROVE  /\ \A r \in refs'[t]  : r.pipe \in FromTables => r.name \in Scope[r.pipe][r.at]
                      /\ \A d \in diags'[t] : d.pipe \in FromTables => d.name \notin Scope[d.pipe][d.at]
    BY DEF LexicalFor
  <2>1. /\ \A r \in refs[t]  : r.pipe \in FromTables => r.name \in Scope[r.pipe][r.at]
        /\ \A d \in diags[t] : d.pipe \in FromTables => d.name \notin Scope[d.pipe][d.at]
    <3>1. plan[t] # None
      BY <1>2 DEF BindsInv, BindInv, Idle
    <3> QED BY <1>2, <1>17, <3>1 DEF LexicalFor
  <2>2. ASSUME NEW r \in refs'[t], r.pipe \in FromTables PROVE r.name \in Scope[r.pipe][r.at]
    <3>1. CASE r \in refs[t]
      BY <2>1, <2>2, <3>1
    <3>2. CASE r \notin refs[t]
      <4>1. r.pipe = f.pipe /\ r.at = f.at /\ r.name \in Mentions(f) /\ Has(Cols(f.in), r.name)
        BY <1>16, <3>2 DEF Stamps
      <4>2. r.name \in Knows(Cols(f.in))
        BY <1>23, <4>1
      <4> QED BY <1>17, <1>18, <2>2, <4>1, <4>2
    <3> QED BY <3>1, <3>2
  <2>3. ASSUME NEW d \in diags'[t], d.pipe \in FromTables PROVE d.name \notin Scope[d.pipe][d.at]
    <3>1. CASE d \in diags[t]
      BY <2>1, <2>3, <3>1
    <3>2. CASE d \notin diags[t]
      <4>1. d.pipe = f.pipe /\ d.at = f.at /\ d.name \in Mentions(f) /\ ~ Has(Cols(f.in), d.name)
        BY <1>16, <3>2 DEF Diagnoses
      <4>2. d.name \notin Knows(Cols(f.in))
        BY <1>23, <4>1
      <4> QED BY <1>17, <1>18, <2>3, <4>1, <4>2
    <3> QED BY <3>1, <3>2
  <2> QED BY <2>2, <2>3
<1>25. ResolvesFor(t)'
  <2>1. knew'[t] = knew[t]
    BY <1>2 DEF history
  <2> QED BY <1>2, <1>16, <2>1 DEF ResolvesFor, Diagnoses
<1>26. ASSUME NEW r \in refs'[t], r \notin refs[t]
       PROVE  /\ r \in References /\ Binding(r.id, r.name) \in Entries(f.in)
  <2>1. /\ ~ IsNil(f.in) /\ r.name \in Mentions(f) /\ Has(Cols(f.in), r.name)
        /\ r = [pipe |-> f.pipe, at |-> f.at, name |-> r.name, id |-> Lookup(Cols(f.in), r.name).id]
    BY <1>16, <1>26 DEF Stamps
  <2>2. PICK e : e = Lookup(Cols(f.in), r.name)
    OBVIOUS
  <2>3. e \in Held(Cols(f.in)) /\ e.name = r.name
    BY <1>22, <2>1, <2>2, LookupFinds
  <2>4. e \in Bindings /\ e = Binding(e.id, e.name) /\ e.id \in Nat
    BY <1>22, <2>3, HeldTyped
  <2>5. r.id = e.id
    BY <2>1, <2>2
  <2>6. r \in References
    <3>1. PICK nm \in Name : nm = r.name
      BY <1>21, <2>1
    <3> QED BY <1>3, <2>1, <2>2, <2>4, <3>1 DEF References
  <2> QED BY <2>1, <2>3, <2>4, <2>5, <2>6 DEF Entries
<1>27. refs' \in [Thread -> SUBSET References]
  <2>1. refs'[t] \subseteq References
    BY <1>2, <1>26
  <2> QED BY <1>2, <1>16, <2>1
<1>28. StepOf(t)
  <2>1. next' \in [Thread -> Nat] /\ next'[t] = n /\ \A u \in Thread : u # t => next'[u] = next[u]
    BY <1>10, <1>12 DEF BindsInv
  <2>2. DOMAIN frames' = Thread /\ \A u \in Thread : u # t => frames'[u] = frames[u]
    BY <1>2, <1>12
  <2> QED BY <1>2, <1>16, <1>27, <2>1, <2>2 DEF StepOf, Diagnoses, history
<1>29. BindsInv'
  BY <1>14, <1>20, <1>24, <1>25, <1>28, StepKeepsBinds
<1>30. ASSUME Alone(t) PROVE OneName(AtHand(t)', next'[t])
  <2>1. next'[t] = n
    BY <1>2, <1>12 DEF BindsInv
  <2>2. Entries(f.in) \subseteq AtHand(t) /\ Entries(f.right) \subseteq AtHand(t)
    BY <1>3 DEF Visible
  <2>3. OneName(AtHand(t), next[t]) /\ AtHand(t) \subseteq Bindings
    BY <1>30, AtHandTyped DEF AloneInv
  <2>4. OneName(AtHand(t) \cup Entries(s), n)
    BY <1>2, <1>3, <1>6, <1>9, <2>2, <2>3, StageIDs DEF HeapInv
  <2>5. Stamped(t)' \subseteq AtHand(t)
    <3>1. ASSUME NEW r \in refs'[t] PROVE Binding(r.id, r.name) \in AtHand(t)
      <4>1. CASE r \in refs[t]
        BY <4>1, AtHandHas DEF InHand, Stamped
      <4>2. CASE r \notin refs[t]
        BY <1>26, <2>2, <4>2
      <4> QED BY <4>1, <4>2
    <3> QED BY <3>1 DEF Stamped, Binding
  <2>6. Visible(g)' = Entries(s)
    <3>1. Entries(s)' = Entries(s)
      BY <1>2 DEF Entries, Cols
    <3>2. Visible(g)' = Entries(s)' \cup Entries(NilSchema)'
      BY <1>13 DEF Visible
    <3>3. Entries(NilSchema)' = {}
      BY NilIsSchema DEF Entries
    <3> QED BY <3>1, <3>2, <3>3
  <2>7. AtHand(t)' \subseteq AtHand(t) \cup {} \cup Visible(g)' \cup Stamped(t)'
    <3>1. frames'[t] = <<g>> \o Tail(frames[t])
      BY <1>2, <1>12
    <3> QED BY <1>2, <1>13, <1>14, <3>1, AtHandKept
  <2>8. AtHand(t)' \subseteq AtHand(t) \cup Entries(s)
    BY <2>5, <2>6, <2>7
  <2> QED BY <2>1, <2>4, <2>8, FewerIDs
<1>31. AloneInv'
  BY <1>28, <1>30, StepKeepsIDs
<1>32. HeapInv'
  BY <1>2 DEF HeapInv, Object, InHeap
<1> QED BY <1>29, <1>31, <1>32

\* A bind that takes no step has nothing new at hand while the heap stays.
LEMMA AtHandSame ==
  ASSUME HeapInv, UNCHANGED heap, NEW u \in Thread, StackInv(u), frames'[u] = frames[u], refs'[u] = refs[u]
  PROVE  AtHand(u)' \subseteq AtHand(u)
<1>1. Grown /\ Rewritten({})
  BY SameHeap
<1>2. ASSUME NEW k \in DOMAIN frames[u] PROVE Visible(frames[u][k])' \subseteq AtHand(u)
  <2>1. PICK f : f = frames[u][k]
    OBVIOUS
  <2>2. CallOK(f)
    BY <2>1 DEF StackInv
  <2>3. Visible(f)' \subseteq Visible(f) \cup {}
    BY <1>1, <2>2, VisibleKept
  <2>4. Visible(f) \subseteq AtHand(u)
    BY <2>1, AtHandHas DEF InHand
  <2> QED BY <2>1, <2>3, <2>4
<1>3. ASSUME NEW e \in AtHand(u)' PROVE e \in AtHand(u)
  <2>1. e \in Stamped(u)' \/ \E k \in DOMAIN frames'[u] : e \in Visible(frames[u][k])'
    BY <1>3, AtHandHas DEF InHand
  <2>2. CASE e \in Stamped(u)'
    BY <2>2, AtHandHas DEF InHand, Stamped
  <2> QED BY <1>2, <2>1, <2>2
<1> QED BY <1>3

\* A bind begins: it overlaps those under way, and has nothing at hand yet.
LEMMA BeginKeeps ==
  ASSUME HeapInv, BindsInv, AloneInv, NEW t \in Thread, Begin(t)
  PROVE  HeapInv' /\ BindsInv' /\ AloneInv'
<1>1. /\ plan[t] = None /\ frames[t] = <<>> /\ refs[t] = {} /\ diags[t] = {}
      /\ UNCHANGED <<exists, heap, cache, next, refs, diags>>
  BY DEF Begin, BindsInv, BindInv, shared
<1>2. PICK p \in Whole : plan' = [plan EXCEPT ![t] = p] /\ frames' = [frames EXCEPT ![t] = <<Frame(p)>>]
  BY DEF Begin
<1>3. p \in Pipe
  BY PipelineAssumption
<1>4. PICK g : g = Frame(p)
  OBVIOUS
<1>5. CallOK(g)' /\ ScopeOK(g)' /\ Visible(g)' = {} /\ g \in Calls
  <2>1. CallOK(g)' /\ ScopeOK(g)' /\ Visible(g)' = {}
    BY <1>3, <1>4, FrameStarts
  <2> QED BY <2>1 DEF CallOK
<1>6. /\ frames'[t] = <<g>> /\ DOMAIN frames' = Thread /\ plan' \in [Thread -> Whole \cup {None}]
      /\ \A u \in Thread : u # t => frames'[u] = frames[u] /\ plan'[u] = plan[u]
  BY <1>2, <1>4 DEF BindsInv
<1>7. frames'[t] \in Seq(Calls) /\ DOMAIN frames'[t] = {1} /\ frames'[t][1] = g
  BY <1>5, <1>6
<1>8. /\ knew' = [knew EXCEPT ![t] = exists]
      /\ overlapped' = IF Busy = {} THEN overlapped ELSE overlapped \cup Busy \cup {t}
  BY DEF Begin
<1>9. Grown
  BY <1>1, SameHeap
<1>10. ASSUME NEW u \in Thread PROVE BindInv(u)'
  <2>1. CASE u = t
    <3>1. StackInv(t)'
      BY <1>5, <1>7 DEF StackInv
    <3>2. refs'[t] = {} /\ diags'[t] = {}
      BY <1>1
    <3>3. LexicalFor(t)' /\ ResolvesFor(t)'
      BY <3>2 DEF LexicalFor, ResolvesFor
    <3>4. plan'[t] # None
      BY <1>2, <1>3, NoneAssumption DEF BindsInv
    <3> QED BY <2>1, <3>1, <3>3, <3>4 DEF BindInv
  <2>2. CASE u # t
    <3>1. /\ BindInv(u) /\ frames'[u] = frames[u] /\ diags'[u] = diags[u] /\ refs'[u] = refs[u]
          /\ plan'[u] = plan[u] /\ knew'[u] = knew[u]
      BY <1>1, <1>6, <1>8, <2>2 DEF BindsInv
    <3>2. StackInv(u)'
      BY <1>9, <3>1, StackKept DEF BindInv
    <3>3. LexicalFor(u)' /\ ResolvesFor(u)'
      BY <3>1 DEF BindInv, LexicalFor, ResolvesFor, SourceTrouble
    <3> QED BY <3>1, <3>2, <3>3 DEF BindInv
  <2> QED BY <2>1, <2>2
<1>11. BindsInv'
  <2>1. knew' \in [Thread -> SUBSET exists']
    BY <1>1, <1>8 DEF BindsInv
  <2>2. overlapped' \subseteq Thread
    BY <1>8 DEF BindsInv, Busy
  <2> QED BY <1>1, <1>6, <1>10, <2>1, <2>2 DEF BindsInv
<1>12. ASSUME NEW u \in Thread, NEW v \in Thread, u # v, ~ Idle(u)', ~ Idle(v)'
       PROVE  u \in overlapped'
  <2>1. CASE u # t /\ v # t
    BY <1>6, <1>8, <1>12, <2>1 DEF AloneInv, Idle
  <2>2. CASE u = t /\ v # t
    <3>1. v \in Busy
      BY <1>6, <1>12, <2>2 DEF Busy, Idle
    <3> QED BY <1>8, <2>2, <3>1
  <2>3. CASE u # t
    <3>1. u \in Busy
      BY <1>6, <1>12, <2>3 DEF Busy, Idle
    <3> QED BY <1>8, <2>3, <3>1
  <2> QED BY <1>12, <2>1, <2>2, <2>3
<1>13. ASSUME NEW u \in Thread, Alone(u)' PROVE OneName(AtHand(u)', next'[u])
  <2>1. CASE u = t
    <3>1. ASSUME NEW e \in AtHand(t)' PROVE FALSE
      <4>1. e \in Stamped(t)' \/ \E k \in DOMAIN frames'[t] : e \in Visible(frames[t][k])'
        BY <3>1, AtHandHas DEF InHand
      <4>2. Stamped(t)' = {}
        BY <1>1 DEF Stamped
      <4> QED BY <1>5, <1>7, <4>1, <4>2
    <3> QED BY <2>1, <3>1 DEF OneName
  <2>2. CASE u # t
    <3>1. Alone(u)
      BY <1>6, <1>8, <1>13, <2>2 DEF Alone
    <3>2. OneName(AtHand(u), next[u]) /\ next'[u] = next[u] /\ StackInv(u) /\ frames'[u] = frames[u] /\ refs'[u] = refs[u]
      BY <1>1, <1>6, <2>2, <3>1 DEF AloneInv, BindsInv, BindInv
    <3>3. AtHand(u)' \subseteq AtHand(u)
      BY <1>1, <3>2, AtHandSame
    <3> QED BY <3>2, <3>3, FewerIDs
  <2> QED BY <2>1, <2>2
<1>14. AloneInv'
  BY <1>12, <1>13 DEF AloneInv
<1>15. HeapInv'
  BY <1>1 DEF HeapInv, Object, InHeap
<1> QED BY <1>11, <1>14, <1>15

\* A table more in the database, or no step at all, is nothing to the binds.
LEMMA CreateTableKeeps ==
  ASSUME HeapInv, BindsInv, AloneInv,
         UNCHANGED <<heap, cache, frames, next, refs, diags, history>>,
         exists \subseteq exists', exists' \subseteq Table
  PROVE  HeapInv' /\ BindsInv' /\ AloneInv'
<1>1. UNCHANGED <<heap, cache, frames, next, refs, diags, plan, knew, overlapped>>
  BY DEF history
<1>2. Grown
  BY <1>1, SameHeap
<1>3. ASSUME NEW u \in Thread PROVE BindInv(u)'
  <2>1. BindInv(u) /\ StackInv(u)'
    BY <1>1, <1>2, StackKept DEF BindsInv, BindInv
  <2>2. LexicalFor(u)' /\ ResolvesFor(u)'
    BY <1>1, <2>1 DEF BindInv, LexicalFor, ResolvesFor, SourceTrouble
  <2> QED BY <1>1, <2>1, <2>2 DEF BindInv
<1>4. BindsInv'
  <2>1. knew' \in [Thread -> SUBSET exists']
    BY <1>1 DEF BindsInv
  <2> QED BY <1>1, <1>3, <2>1 DEF BindsInv
<1>5. ASSUME NEW u \in Thread, Alone(u) PROVE OneName(AtHand(u)', next'[u])
  <2>1. OneName(AtHand(u), next[u]) /\ StackInv(u)
    BY <1>5 DEF AloneInv, BindsInv, BindInv
  <2>2. AtHand(u)' \subseteq AtHand(u)
    BY <1>1, <2>1, AtHandSame
  <2> QED BY <1>1, <2>1, <2>2, FewerIDs
<1>6. AloneInv'
  BY <1>1, <1>5 DEF AloneInv, Alone, Idle
<1>7. HeapInv'
  BY <1>1 DEF HeapInv, Object, InHeap
<1> QED BY <1>4, <1>6, <1>7

-----------------------------------------------------------------------------
(* The theorems *)

\* Before any bind has begun, there is nothing the invariant could be wrong about.
LEMMA InitInv == Init => Inv
<1> SUFFICES ASSUME Init PROVE Inv
  OBVIOUS
<1>1. HeapInv
  BY EmptySeq DEF Init, HeapInv
<1>2. ASSUME NEW t \in Thread PROVE frames[t] = <<>> /\ refs[t] = {} /\ diags[t] = {} /\ plan[t] = None
  BY DEF Init
<1>3. ASSUME NEW t \in Thread PROVE BindInv(t)
  <2>1. frames[t] \in Seq(Calls) /\ DOMAIN frames[t] = {}
    <3>1. frames[t] = <<>>
      BY <1>2
    <3>2. <<>> \in Seq(Calls) /\ DOMAIN <<>> = {}
      BY EmptySeq
    <3> QED BY <3>1, <3>2
  <2>2. StackInv(t)
    BY <2>1 DEF StackInv
  <2> QED BY <1>2, <2>2 DEF BindInv, LexicalFor, ResolvesFor
<1>4. BindsInv
  <2>1. exists \subseteq Table
    BY DEF Init
  <2> QED BY <1>3, <2>1 DEF Init, BindsInv
<1>5. AloneInv
  BY <1>2 DEF AloneInv, Idle, Alone
<1> QED BY <1>1, <1>4, <1>5 DEF Inv

\* Every step keeps it.
LEMMA NextInv == Inv /\ [Next]_vars => Inv'
<1> SUFFICES ASSUME HeapInv, BindsInv, AloneInv, [Next]_vars PROVE HeapInv' /\ BindsInv' /\ AloneInv'
  BY DEF Inv
<1>1. ASSUME CreateTable PROVE HeapInv' /\ BindsInv' /\ AloneInv'
  <2>1. PICK tb \in Created \ exists : exists' = exists \cup {tb}
    BY <1>1 DEF CreateTable
  <2>2. exists \subseteq exists' /\ exists' \subseteq Table
    BY <2>1, CatalogAssumption DEF BindsInv
  <2> QED BY <1>1, <2>2, CreateTableKeeps DEF CreateTable
<1>2. ASSUME UNCHANGED vars PROVE HeapInv' /\ BindsInv' /\ AloneInv'
  <2>1. UNCHANGED <<heap, cache, frames, next, refs, diags, history>> /\ exists' = exists
    BY <1>2 DEF vars, history
  <2>2. exists \subseteq exists' /\ exists' \subseteq Table
    BY <2>1 DEF BindsInv
  <2> QED BY <2>1, <2>2, CreateTableKeeps
<1>3. ASSUME NEW t \in Thread, BindStep(t) PROVE HeapInv' /\ BindsInv' /\ AloneInv'
  <2>1. CASE LoadSchema(t)
    BY <2>1, LoadSchemaKeeps
  <2>2. CASE QueryCatalog(t)
    BY <2>2, QueryCatalogKeeps
  <2>3. CASE StoreSchema(t)
    BY <2>3, StoreSchemaKeeps
  <2>4. CASE AllocColumn(t)
    BY <2>4, AllocColumnKeeps
  <2>5. CASE Descend(t)
    BY <2>5, DescendKeeps
  <2>6. CASE Return(t)
    BY <2>6, ReturnKeeps
  <2>7. CASE BindStage(t)
    BY <2>7, BindStageKeeps
  <2> QED BY <1>3, <2>1, <2>2, <2>3, <2>4, <2>5, <2>6, <2>7 DEF BindStep
<1>4. ASSUME NEW t \in Thread, Begin(t) PROVE HeapInv' /\ BindsInv' /\ AloneInv'
  BY <1>4, BeginKeeps
<1> QED BY <1>1, <1>2, <1>3, <1>4 DEF Next

\* The invariant holds of every number of binds over the one schema cache.
THEOREM BindInvariance == Spec => []Inv
<1>1. Init => Inv
  BY InitInv
<1>2. Inv /\ [Next]_vars => Inv'
  BY NextInv
<1> QED BY <1>1, <1>2, PTL DEF Spec

\* What a name means is a matter of the pipeline's text and the catalog: however binds
\* interleave on the shared schema objects, a column a stage mentions resolves exactly when
\* it is in lexical scope, and is diagnosed exactly when it is not.
THEOREM NamesAreLexical == Spec => []ScopeIsLexical
<1>1. Inv => ScopeIsLexical
  BY DEF Inv, BindsInv, BindInv, LexicalFor, ScopeIsLexical
<1> QED BY <1>1, BindInvariance, PTL

\* A table that was there when a bind began is never reported missing by it: misses are
\* not cached.
THEOREM ExistingTableResolves == Spec => []CreatedTableResolves
<1>1. Inv => CreatedTableResolves
  BY DEF Inv, BindsInv, BindInv, ResolvesFor, CreatedTableResolves
<1> QED BY <1>1, BindInvariance, PTL

\* The ColIDs of a bind that ran alone stand for one column name each, over all the tables
\* it looked up and all the schemas it derived.
THEOREM AloneIDsAreDistinct == Spec => []ColIDsDistinctWhenAlone
<1>1. ASSUME Inv PROVE ColIDsDistinctWhenAlone
  <2> SUFFICES ASSUME NEW t \in Thread, Alone(t), NEW r \in refs[t], NEW s \in refs[t], r.id = s.id, r.id # 0
               PROVE  r.name = s.name
    BY DEF ColIDsDistinctWhenAlone
  <2>1. OneName(AtHand(t), next[t])
    BY <1>1 DEF Inv, AloneInv
  <2>2. Binding(r.id, r.name) \in AtHand(t) /\ Binding(s.id, s.name) \in AtHand(t)
    BY AtHandHas DEF InHand, Stamped
  <2> QED BY <2>1, <2>2 DEF OneName, Binding
<1>2. Inv => ColIDsDistinctWhenAlone
  BY <1>1
<1> QED BY <1>2, BindInvariance, PTL

\* The state stays well formed: the cache and every schema a call holds point at objects
\* that are there, and only the innermost call of a bind is not waiting for another.
THEOREM BindsTyped == Spec => []TypeOK
<1>1. ASSUME Inv PROVE TypeOK
  <2>1. HeapInv /\ BindsInv
    BY <1>1 DEF Inv
  <2>2. cache \in [Table -> 0 .. Len(heap)]
    <3>1. cache \in [Table -> Nat] /\ Len(heap) \in Nat /\ DOMAIN heap = 1 .. Len(heap)
      BY <2>1, LenProperties DEF HeapInv
    <3>2. ASSUME NEW tb \in Table PROVE cache[tb] \in 0 .. Len(heap)
      <4>1. cache[tb] \in Nat /\ (cache[tb] # 0 => cache[tb] \in 1 .. Len(heap))
        BY <2>1, <3>1 DEF HeapInv, Object, InHeap
      <4> QED BY <3>1, <4>1
    <3> QED BY <3>1, <3>2
  <2>3. ASSUME NEW t \in Thread
        PROVE  /\ plan[t] \in Whole \cup {None} /\ knew[t] \subseteq exists
    BY <2>1 DEF BindsInv
  <2>4. ASSUME NEW t \in Thread, NEW k \in DOMAIN frames[t]
        PROVE  LET f == frames[t][k]
               IN  /\ f.step \in Steps /\ f.wants \in {"source", "right"}
                   /\ f.step \in {"store", "alloc"} => InHeap(f.obj)
                   /\ f.in.kind = "shared" => InHeap(f.in.obj)
                   /\ f.right.kind = "shared" => InHeap(f.right.obj)
                   /\ k > 1 => f.step = "stages"
    <3>1. PICK f : f = frames[t][k]
      OBVIOUS
    <3>2. CallOK(f) /\ (k > 1 => Waits(f, frames[t][k - 1]))
      BY <2>1, <3>1 DEF BindsInv, BindInv, StackInv
    <3>3. f.step \in Steps /\ f.wants \in {"source", "right"}
      BY <3>2 DEF CallOK, Calls
    <3>4. f.step \in {"store", "alloc"} => InHeap(f.obj)
      BY <3>2 DEF CallOK, Object
    <3>5. /\ f.in.kind = "shared" => InHeap(f.in.obj)
          /\ f.right.kind = "shared" => InHeap(f.right.obj)
      BY <3>2 DEF CallOK, Kept
    <3>6. k > 1 => f.step = "stages"
      BY <3>2 DEF Waits
    <3> QED BY <3>1, <3>3, <3>4, <3>5, <3>6
  <2>5. exists \subseteq Table /\ overlapped \subseteq Thread /\ next \in [Thread -> Nat]
    BY <2>1 DEF BindsInv
  <2> QED BY <2>2, <2>3, <2>4, <2>5 DEF TypeOK
<1>2. Inv => TypeOK
  BY <1>1
<1> QED BY <1>2, BindInvariance, PTL

=============================================================================
