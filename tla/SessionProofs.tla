---------------------------- MODULE SessionProofs ----------------------------
(***************************************************************************)
(* Proofs about Session, for every set of calls and connections, every       *)
(* scenario, file and batch size: the pool keeps its limit and its            *)
(* connections, a table that one call loads adds up, and the goroutines that  *)
(* share a backend see the service of Service.tla.                           *)
(*                                                                          *)
(* Inv is the inductive invariant.  Beyond the properties it says which calls *)
(* may be at which step, which of them hold a connection, and how the rows of *)
(* the table follow the one load that writes them.                           *)
(***************************************************************************)
EXTENDS Session, FiniteSetTheorems, TLAPS

-----------------------------------------------------------------------------
(* The inductive invariant *)

QuerySteps == {"bind", "binding", "load", "set", "emit"}
LoadSteps  == {"create", "creating", "flush", "flushing"}
CloseSteps == {"flag", "closing", "closed"}
Steps      == {"start", "view", "want", "hold", "done"} \cup QuerySteps \cup LoadSteps \cup CloseSteps

\* A call is at a step of its own kind, and back when it has an outcome.
CallInv ==
  /\ sc \in Scenarios /\ dbOpen \in BOOLEAN
  /\ pc \in [Call -> Steps]
  /\ outcome \in [Call -> {"none", "answered", "failed"}]
  /\ \A c \in Call :
       /\ pc[c] = "done" <=> outcome[c] # "none"
       /\ pc[c] \in QuerySteps => Is(c, Query)
       /\ pc[c] \in LoadSteps => Is(c, {"load"})
       /\ pc[c] = "view" => Is(c, {"view"})
       /\ pc[c] \in {"want", "hold"} => Is(c, Query \cup {"view"})

\* A connection is held by a call that keeps it, and is open; a statement has one.
Keeping(c) == pc[c] \in Holding \/ (pc[c] = "want" /\ Is(c, {"view"}))
PoolInv ==
  /\ holder \in [Conn -> Call \cup {None}]
  /\ opened \subseteq Conn
  /\ IsFiniteSet(opened) /\ Cardinality(opened) <= sc.conns
  /\ \A k \in Conn : holder[k] # None => k \in opened /\ Keeping(holder[k])
  /\ \A c \in Call : pc[c] \in Holding => \E k \in Conn : holder[k] = c

\* A catalog is the one a call asked for, or none.
Catalogs == {sc.path[c] : c \in Call} \cup {None}
CatalogInv == own \in [Call -> Catalogs] /\ catalog \in Catalogs

\* A load stands between two batches, and goes on while there are rows left.
Whole == {n \in 0 .. FileRows : n % BatchSize = 0 \/ n = FileRows}
SentInv ==
  /\ sent \in [Call -> Whole]
  /\ \A c \in Call : pc[c] \in {"flush", "flushing"} => sent[c] # FileRows

\* Every connection sees the one table, as far as its only load has come.
OnlyLoad(c) == Loads = {c} /\ ~ sc.memory
TableInv ==
  /\ DOMAIN seen = Call
  /\ \A c \in Call : OnlyLoad(c) =>
       /\ pc[c] \notin {"flush", "flushing", "done"} => \A k \in Conn : stored[k] = NoTable
       /\ pc[c] \in {"flush", "flushing"} => \A k \in Conn : stored[k] = sent[c]
       /\ \A k \in Conn : stored[k] # NoTable => stored[k] = sent[c]
       /\ outcome[c] = "answered" => \A k \in Conn : stored[k] = FileRows
       /\ \A d \in Call : seen[d] \in Whole \cup {NoTable}

Inv == CallInv /\ PoolInv /\ CatalogInv /\ SentInv /\ TableInv

-----------------------------------------------------------------------------
(* The pool *)

\* A scenario's limit is a number, and one that is in use is one of the scenarios'.
LEMMA ScenarioType ==
  ASSUME CallInv
  PROVE  sc.conns \in Nat /\ sc.memory \in BOOLEAN
BY ScenarioAssumption DEF CallInv

\* Closing connections of a finite set of them keeps the limit.
LEMMA FewerConnections ==
  ASSUME CallInv, PoolInv, UNCHANGED sc, opened' \subseteq opened
  PROVE  IsFiniteSet(opened') /\ Cardinality(opened') <= sc'.conns
<1>1. IsFiniteSet(opened') /\ Cardinality(opened') <= Cardinality(opened)
  BY FS_Subset DEF PoolInv
<1>2. Cardinality(opened') \in Nat /\ Cardinality(opened) \in Nat
  BY <1>1, FS_CardinalityType DEF PoolInv
<1> QED BY <1>1, <1>2, ScenarioType DEF PoolInv

\* A step of one call is none of the others'.
LEMMA OthersStay ==
  ASSUME CallInv, UNCHANGED sc, NEW c \in Call, pc' = [pc EXCEPT ![c] = pc'[c]], NEW d \in Call, d # c
  PROVE  pc'[d] = pc[d] /\ (Keeping(d)' <=> Keeping(d))
<1>1. pc'[d] = pc[d]
  BY Zenon DEF CallInv
<1> QED BY <1>1 DEF Keeping, Is

\* A statement's connection is within the limit of the pool.
LEMMA TakeKeepsPool ==
  ASSUME CallInv, PoolInv, UNCHANGED sc, NEW c \in Call, NEW k \in Conn, Take(c, k),
         pc' = [pc EXCEPT ![c] = pc'[c]], Keeping(c)'
  PROVE  PoolInv'
<1>1. IsFiniteSet(opened') /\ Cardinality(opened') <= sc'.conns
  <2>1. CASE k \in opened
    BY <2>1 DEF Take, PoolInv
  <2>2. CASE k \notin opened
    <3>1. Cardinality(opened) < sc.conns /\ opened' = opened \cup {k}
      BY <2>2 DEF Take
    <3>2. IsFiniteSet(opened') /\ Cardinality(opened') = Cardinality(opened) + 1
      BY <2>2, <3>1, FS_AddElement DEF PoolInv
    <3> QED BY <3>1, <3>2, FS_CardinalityType, ScenarioType DEF PoolInv
  <2> QED BY <2>1, <2>2
<1>2. holder' = [holder EXCEPT ![k] = c] /\ opened' = opened \cup {k}
  BY DEF Take
<1>3. holder' \in [Conn -> Call \cup {None}] /\ opened' \subseteq Conn
  BY <1>2 DEF PoolInv
<1>4. ASSUME NEW j \in Conn, holder'[j] # None
      PROVE  (j \in opened /\ Keeping(holder[j]))'
  <2>1. CASE j = k
    BY <1>2, <2>1 DEF PoolInv
  <2>2. CASE j # k
    <3>1. holder'[j] = holder[j] /\ j \in opened /\ Keeping(holder[j]) /\ holder[j] \in Call
      BY <1>2, <1>4, <2>2 DEF PoolInv
    <3> QED BY <1>2, <2>2, <3>1, OthersStay
  <2> QED BY <2>1, <2>2
<1>5. ASSUME NEW d \in Call, pc'[d] \in Holding
      PROVE  \E j \in Conn : holder'[j] = d
  <2>1. CASE d = c
    BY <1>2, <2>1 DEF PoolInv
  <2>2. CASE d # c
    <3>1. pc[d] \in Holding
      BY <1>5, <2>2 DEF CallInv
    <3>2. PICK j \in Conn : holder[j] = d
      BY <3>1 DEF PoolInv
    <3>3. j # k
      BY <3>2, NoneAssumption DEF Take
    <3> QED BY <1>2, <3>2, <3>3 DEF PoolInv
  <2> QED BY <2>1, <2>2
<1> QED BY <1>1, <1>3, <1>4, <1>5 DEF PoolInv

\* A call that gives back its connections leaves the others theirs.
LEMMA GiveKeepsPool ==
  ASSUME CallInv, PoolInv, UNCHANGED sc, NEW c \in Call, Give(c),
         pc' = [pc EXCEPT ![c] = pc'[c]], pc'[c] \notin Holding
  PROVE  PoolInv'
<1>1. opened' \subseteq opened
  BY DEF Give
<1>2. IsFiniteSet(opened') /\ Cardinality(opened') <= sc'.conns
  BY <1>1, FewerConnections
<1>3. holder' \in [Conn -> Call \cup {None}] /\ opened' \subseteq Conn
  BY <1>1 DEF Give, PoolInv
<1>4. ASSUME NEW j \in Conn, holder'[j] # None
      PROVE  (j \in opened /\ Keeping(holder[j]))'
  <2>1. holder'[j] = holder[j] /\ holder[j] # c
    BY <1>4 DEF Give
  <2>2. j \in opened /\ Keeping(holder[j]) /\ holder[j] \in Call
    BY <1>4, <2>1 DEF PoolInv
  <2>3. j \in opened'
    BY <2>1, <2>2 DEF Give, Mine
  <2> QED BY <2>1, <2>2, <2>3, OthersStay
<1>5. ASSUME NEW d \in Call, pc'[d] \in Holding
      PROVE  \E j \in Conn : holder'[j] = d
  <2>1. d # c /\ pc[d] \in Holding
    BY <1>5 DEF CallInv
  <2>2. PICK j \in Conn : holder[j] = d
    BY <2>1 DEF PoolInv
  <2> QED BY <2>1, <2>2 DEF Give
<1> QED BY <1>2, <1>3, <1>4, <1>5 DEF PoolInv

\* A step of a call that keeps no connection leaves the pool as it is.
LEMMA PoolUntouched ==
  ASSUME CallInv, PoolInv, UNCHANGED <<sc, holder>>, NEW c \in Call,
         opened' \subseteq opened, \A k \in opened : holder[k] # None => k \in opened',
         pc' = [pc EXCEPT ![c] = pc'[c]], ~ Keeping(c), pc'[c] \notin Holding
  PROVE  PoolInv'
<1>1. IsFiniteSet(opened') /\ Cardinality(opened') <= sc'.conns
  BY FewerConnections
<1>2. ASSUME NEW j \in Conn, holder'[j] # None
      PROVE  (j \in opened /\ Keeping(holder[j]))'
  <2>1. j \in opened /\ Keeping(holder[j]) /\ holder[j] \in Call
    BY <1>2 DEF PoolInv
  <2>2. holder[j] # c
    BY <2>1
  <2> QED BY <1>2, <2>1, <2>2, OthersStay
<1>3. ASSUME NEW d \in Call, pc'[d] \in Holding
      PROVE  \E j \in Conn : holder'[j] = d
  BY <1>3 DEF CallInv, PoolInv
<1> QED BY <1>1, <1>2, <1>3 DEF PoolInv

-----------------------------------------------------------------------------
(* The steps of a call *)

\* The lemmas about a step are about what each part of Inv has left of it.
QueryStep(c) == Begin(c) \/ LoadStats(c) \/ SetCatalog(c) \/ Emit(c) \/ BeginView(c)
LoadStep(c)  == BeginLoad(c) \/ RowFails(c)
CloseStep(c) == CheckClosed(c) \/ SetClosed(c) \/ CloseDB(c) \/ CloseReturns(c)
Acquires(c)  == Bind(c) \/ Execute(c) \/ AcquireCreate(c) \/ AcquireFlush(c) \/ RegisterArrowView(c)
Fails(c)     == Refused(c) \/ StatementFails(c)
Runs(c)      == Bound(c) \/ Executed(c) \/ Created(c) \/ Flushed(c)

\* Every step is of one of these kinds.
LEMMA StepKinds ==
  ASSUME NEW c \in Call, Step(c)
  PROVE  QueryStep(c) \/ LoadStep(c) \/ CloseStep(c) \/ Acquires(c) \/ Fails(c) \/ Runs(c)
BY DEF Step, QueryStep, LoadStep, CloseStep, Acquires, Fails, Runs

\* A step moves the call that takes it, and the scenario stays.
LEMMA StepMoves ==
  ASSUME NEW c \in Call, Step(c)
  PROVE  UNCHANGED sc /\ \E to \in Steps : pc' = [pc EXCEPT ![c] = to]
<1> USE DEF Goto, Return, Steps, QuerySteps, LoadSteps, CloseSteps
<1>1. CASE QueryStep(c)
  BY <1>1 DEF QueryStep, Begin, LoadStats, SetCatalog, Emit, BeginView
<1>2. CASE LoadStep(c)
  BY <1>2 DEF LoadStep, BeginLoad, RowFails
<1>3. CASE CloseStep(c)
  BY <1>3 DEF CloseStep, CheckClosed, SetClosed, CloseDB, CloseReturns
<1>4. CASE Acquires(c)
  BY <1>4 DEF Acquires, Bind, Execute, AcquireCreate, AcquireFlush, RegisterArrowView, Acquire
<1>5. CASE Fails(c)
  BY <1>5 DEF Fails, Refused, StatementFails
<1>6. CASE Runs(c)
  BY <1>6 DEF Runs, Bound, Executed, Created, Flushed
<1> QED BY <1>1, <1>2, <1>3, <1>4, <1>5, <1>6, StepKinds

\* Which step writes what.
LEMMA Frame ==
  ASSUME NEW c \in Call, Step(c)
  PROVE  /\ ~ CloseDB(c) => UNCHANGED dbOpen
         /\ ~ LoadStats(c) => UNCHANGED own
         /\ ~ SetCatalog(c) => UNCHANGED catalog
         /\ ~ Created(c) /\ ~ Flushed(c) => UNCHANGED sent /\ (UNCHANGED stored \/ Reads)
         /\ ~ Executed(c) => UNCHANGED seen
BY DEF Step, Begin, Bind, Bound, LoadStats, SetCatalog, Emit, Execute, Executed, BeginLoad, AcquireCreate, Created,
  RowFails, AcquireFlush, Flushed, BeginView, RegisterArrowView, CheckClosed, SetClosed, CloseDB, CloseReturns,
  Refused, StatementFails, Acquire, Reads

\* A call goes from step to step of its kind and comes back with an outcome.
LEMMA CallStep ==
  ASSUME CallInv, NEW c \in Call, Step(c)
  PROVE  CallInv'
<1> USE DEF CallInv, Is, Query, Goto, Return, Steps, QuerySteps, LoadSteps, CloseSteps
<1>1. CASE QueryStep(c)
  BY <1>1 DEF QueryStep, Begin, LoadStats, SetCatalog, Emit, BeginView
<1>2. CASE LoadStep(c)
  BY <1>2 DEF LoadStep, BeginLoad, RowFails
<1>3. CASE CloseStep(c)
  <2>1. CASE CheckClosed(c) \/ SetClosed(c) \/ CloseReturns(c)
    BY <2>1 DEF CheckClosed, SetClosed, CloseReturns
  <2>2. CASE CloseDB(c)
    BY <2>2 DEF CloseDB
  <2> QED BY <1>3, <2>1, <2>2 DEF CloseStep
<1>4. CASE Acquires(c)
  BY <1>4 DEF Acquires, Bind, Execute, AcquireCreate, AcquireFlush, RegisterArrowView, Acquire
<1>5. CASE Fails(c)
  BY <1>5 DEF Fails, Refused, StatementFails
<1>6. CASE Runs(c)
  BY <1>6 DEF Runs, Bound, Executed, Created, Flushed
<1> QED BY <1>1, <1>2, <1>3, <1>4, <1>5, <1>6, StepKinds

\* A statement takes a connection within the limit and gives back what it held.
LEMMA PoolStep ==
  ASSUME CallInv, PoolInv, NEW c \in Call, Step(c)
  PROVE  PoolInv'
<1>1. UNCHANGED sc /\ pc' = [pc EXCEPT ![c] = pc'[c]]
  BY StepMoves DEF CallInv
<1>2. CASE QueryStep(c) \/ LoadStep(c) \/ CloseStep(c)
  <2>1. ~ Keeping(c) /\ pc'[c] \notin Holding
    BY <1>2 DEF Keeping, Holding, CallInv, Is, Query, Goto, Return, Steps, QuerySteps, LoadSteps, CloseSteps,
      QueryStep, Begin, LoadStats, SetCatalog, Emit, BeginView, LoadStep, BeginLoad, RowFails,
      CloseStep, CheckClosed, SetClosed, CloseDB, CloseReturns
  <2>2. /\ UNCHANGED holder
        /\ opened' \subseteq opened /\ \A k \in opened : holder[k] # None => k \in opened'
    BY <1>2 DEF pool, Idle, QueryStep, Begin, LoadStats, SetCatalog, Emit, BeginView, LoadStep, BeginLoad, RowFails,
      CloseStep, CheckClosed, SetClosed, CloseDB, CloseReturns
  <2> QED BY <1>1, <2>1, <2>2, PoolUntouched
<1>3. CASE Acquires(c)
  <2>1. PICK k \in Conn : Take(c, k)
    BY <1>3 DEF Acquires, Bind, Execute, AcquireCreate, AcquireFlush, RegisterArrowView, Acquire
  <2>2. Keeping(c)'
    BY <1>3 DEF Keeping, Holding, CallInv, Is, Goto,
      Acquires, Bind, Execute, AcquireCreate, AcquireFlush, RegisterArrowView, Acquire
  <2> QED BY <1>1, <2>1, <2>2, TakeKeepsPool
<1>4. CASE Fails(c) \/ Runs(c)
  <2>1. Give(c)
    BY <1>4 DEF Fails, Refused, StatementFails, Runs, Bound, Executed, Created, Flushed
  <2>2. pc'[c] \notin Holding
    BY <1>4 DEF Holding, CallInv, Goto, Return, Fails, Refused, StatementFails, Runs, Bound, Executed, Created, Flushed
  <2> QED BY <1>1, <2>1, <2>2, GiveKeepsPool
<1> QED BY <1>2, <1>3, <1>4, StepKinds

\* SetCatalog hands over what a call has loaded.
LEMMA CatalogStep ==
  ASSUME CatalogInv, NEW c \in Call, Step(c)
  PROVE  CatalogInv'
<1>1. Catalogs' = Catalogs
  BY StepMoves DEF Catalogs
<1>2. CASE LoadStats(c)
  BY <1>1, <1>2 DEF CatalogInv, Catalogs, LoadStats
<1>3. CASE SetCatalog(c)
  BY <1>1, <1>3 DEF CatalogInv, SetCatalog
<1>4. CASE ~ LoadStats(c) /\ ~ SetCatalog(c)
  <2>1. UNCHANGED <<own, catalog>>
    BY <1>4, Frame
  <2> QED BY <1>1, <2>1 DEF CatalogInv
<1> QED BY <1>2, <1>3, <1>4

-----------------------------------------------------------------------------
(* The table and its load *)

\* Nothing and everything are whole.
LEMMA WholeEnds == 0 \in Whole /\ FileRows \in Whole
BY BoundsAssumption DEF Whole

\* A multiple leaves no remainder.
LEMMA MultipleIsWhole ==
  ASSUME NEW b \in Nat \ {0}, NEW q \in Nat
  PROVE  (b * q) % b = 0
OBVIOUS

\* A batch after whole batches is one more of them, or reaches the end of the file.
LEMMA NextBatch ==
  ASSUME NEW n \in Whole, n # FileRows
  PROVE  n + Batch(n) \in Whole
<1>1. n \in 0 .. FileRows /\ n % BatchSize = 0 /\ FileRows \in Nat /\ BatchSize \in Nat \ {0}
  BY BoundsAssumption DEF Whole
<1>2. CASE FileRows - n < BatchSize
  BY <1>1, <1>2 DEF Batch, Whole
<1>3. CASE ~ (FileRows - n < BatchSize)
  <2>1. (n + BatchSize) % BatchSize = 0
    <3>1. n = BatchSize * (n \div BatchSize) /\ n \div BatchSize \in Nat
      BY <1>1
    <3>2. n + BatchSize = BatchSize * ((n \div BatchSize) + 1)
      BY <1>1, <3>1
    <3> DEFINE q == (n \div BatchSize) + 1
    <3>3. q \in Nat /\ n + BatchSize = BatchSize * q
      BY <3>1, <3>2
    <3> HIDE DEF q
    <3>4. (BatchSize * q) % BatchSize = 0
      BY <1>1, <3>3, MultipleIsWhole
    <3> QED BY <3>3, <3>4
  <2>2. n + BatchSize \in 0 .. FileRows
    BY <1>1, <1>3
  <2> QED BY <1>3, <2>1, <2>2 DEF Batch, Whole
<1> QED BY <1>2, <1>3

\* A load sends whole batches, and comes back with the last.
LEMMA SentStep ==
  ASSUME CallInv, SentInv, NEW c \in Call, Step(c)
  PROVE  SentInv'
<1>1. Whole' = Whole
  BY DEF Whole
<1>2. \E to \in Steps : pc' = [pc EXCEPT ![c] = to]
  BY StepMoves
<1>3. CASE Created(c)
  <2>1. sent' = [sent EXCEPT ![c] = IF sc.native THEN FileRows ELSE 0]
    BY <1>3 DEF Created
  <2>2. sent' \in [Call -> Whole]
    BY <2>1, WholeEnds DEF SentInv
  <2>3. pc'[c] \in {"flush", "flushing"} => sent'[c] # FileRows
    BY <1>3 DEF Created, Return, Goto, CallInv
  <2> QED BY <1>1, <1>2, <2>1, <2>2, <2>3 DEF SentInv, CallInv
<1>4. CASE Flushed(c)
  <2>1. sent' = [sent EXCEPT ![c] = sent[c] + Batch(sent[c])]
    BY <1>4 DEF Flushed
  <2>2. sent' \in [Call -> Whole]
    BY <1>4, <2>1, NextBatch DEF SentInv, Flushed
  <2>3. pc'[c] \in {"flush", "flushing"} => sent'[c] # FileRows
    BY <1>4 DEF Flushed, Return, Goto, CallInv
  <2> QED BY <1>1, <1>2, <2>1, <2>2, <2>3 DEF SentInv, CallInv
<1>5. CASE ~ Created(c) /\ ~ Flushed(c)
  <2>1. UNCHANGED sent
    BY <1>5, Frame
  <2>2. pc'[c] \in {"flush", "flushing"} => pc[c] \in {"flush", "flushing"}
    BY <1>5 DEF Step, Begin, Bind, Bound, LoadStats, SetCatalog, Emit, Execute, Executed, BeginLoad, AcquireCreate,
      RowFails, AcquireFlush, BeginView, RegisterArrowView, CheckClosed, SetClosed, CloseDB, CloseReturns,
      Refused, StatementFails, Acquire, Goto, Return, CallInv
  <2> QED BY <1>1, <1>2, <2>1, <2>2 DEF SentInv, CallInv
<1> QED BY <1>3, <1>4, <1>5

\* Outside memory a connection that is closed takes no rows with it.
LEMMA NothingLeft ==
  ASSUME ~ sc.memory, NEW content
  PROVE  Left(content) = [k \in Conn |-> content[k]]
BY DEF Left

\* A statement of a load finds the table as its load has left it.
LEMMA TableSeen ==
  ASSUME PoolInv, NEW c \in Call, pc[c] \in Holding
  PROVE  \E k \in Conn : Table(c) = stored[k]
<1>1. Mine(c) # {} /\ Mine(c) \subseteq Conn
  BY NoneAssumption DEF PoolInv, Mine
<1> QED BY <1>1 DEF Table

\* A step that writes no table leaves every row where it is, outside memory.
LEMMA OnlyLoadsWrite ==
  ASSUME NEW c \in Call, Step(c), ~ Created(c), ~ Flushed(c), ~ sc.memory
  PROVE  \A k \in Conn : stored'[k] = stored[k]
<1>1. UNCHANGED stored \/ Reads
  BY Frame
<1> QED BY <1>1, NothingLeft DEF Reads

\* The table follows its only load, and a query reads what the load has sent.
LEMMA TableStep ==
  ASSUME CallInv, PoolInv, SentInv, TableInv, NEW c \in Call, Step(c)
  PROVE  TableInv'
<1>1. UNCHANGED sc /\ \E to \in Steps : pc' = [pc EXCEPT ![c] = to]
  BY StepMoves
<1>2. Whole' = Whole /\ NoTable \notin Whole
  BY BoundsAssumption DEF Whole, NoTable
<1>3. DOMAIN seen' = Call
  BY DEF TableInv, Step, Begin, Bind, Bound, LoadStats, SetCatalog, Emit, Execute, Executed, BeginLoad, AcquireCreate,
    Created, RowFails, AcquireFlush, Flushed, BeginView, RegisterArrowView, CheckClosed, SetClosed, CloseDB, CloseReturns,
    Refused, StatementFails, Acquire
<1>4. SUFFICES ASSUME NEW l \in Call, OnlyLoad(l)
      PROVE  /\ pc'[l] \notin {"flush", "flushing", "done"} => \A k \in Conn : stored'[k] = NoTable
             /\ pc'[l] \in {"flush", "flushing"} => \A k \in Conn : stored'[k] = sent'[l]
             /\ \A k \in Conn : stored'[k] # NoTable => stored'[k] = sent'[l]
             /\ outcome'[l] = "answered" => \A k \in Conn : stored'[k] = FileRows
             /\ \A d \in Call : seen'[d] \in Whole \cup {NoTable}
  BY <1>1, <1>2, <1>3 DEF TableInv, OnlyLoad, Loads, Is
<1>5. ~ sc.memory /\ \A d \in Call : Is(d, {"load"}) => d = l
  BY <1>4 DEF OnlyLoad, Loads
<1>6. CASE Created(c)
  <2>1. c = l
    BY <1>5, <1>6 DEF Created, CallInv, LoadSteps
  <2>2. \A k \in Conn : stored'[k] = sent'[l]
    BY <1>5, <1>6, <2>1, NothingLeft DEF Created, Writes
  <2>3. pc'[l] \in {"flush", "done"} /\ (outcome'[l] = "answered" => sent'[l] = FileRows)
    BY <1>6, <2>1 DEF Created, Return, Goto, CallInv
  <2>4. UNCHANGED seen
    BY <1>6 DEF Created
  <2> QED BY <1>2, <1>4, <2>2, <2>3, <2>4 DEF TableInv
<1>7. CASE Flushed(c)
  <2>1. c = l
    BY <1>5, <1>7 DEF Flushed, CallInv, LoadSteps
  <2>2. PICK k \in Conn : Table(c) = stored[k]
    BY <1>7, TableSeen DEF Flushed, Holding
  <2>3. Table(c) = sent[l]
    BY <1>4, <1>7, <2>1, <2>2 DEF TableInv, Flushed
  <2>4. sent'[l] = sent[l] + Batch(sent[l])
    BY <1>7, <2>1 DEF Flushed, SentInv
  <2>5. \A j \in Conn : stored'[j] = sent'[l]
    BY <1>5, <1>7, <2>1, <2>3, <2>4, NothingLeft DEF Flushed, Writes
  <2>6. pc'[l] \in {"flush", "done"} /\ (outcome'[l] = "answered" => sent'[l] = FileRows)
    BY <1>7, <2>1 DEF Flushed, Return, Goto, CallInv
  <2>7. UNCHANGED seen
    BY <1>7 DEF Flushed
  <2> QED BY <1>2, <1>4, <2>5, <2>6, <2>7 DEF TableInv
<1>8. CASE ~ Created(c) /\ ~ Flushed(c)
  <2>1. \A k \in Conn : stored'[k] = stored[k]
    BY <1>5, <1>8, OnlyLoadsWrite
  <2>2. UNCHANGED sent
    BY <1>8, Frame
  <2>3. /\ pc'[l] \in {"flush", "flushing"} => pc[l] \in {"flush", "flushing"}
        /\ pc'[l] \notin {"flush", "flushing", "done"} => pc[l] \notin {"flush", "flushing", "done"}
        /\ outcome'[l] = "answered" => outcome[l] = "answered"
    BY <1>4, <1>8 DEF Step, Begin, Bind, Bound, LoadStats, SetCatalog, Emit, Execute, Executed, BeginLoad, AcquireCreate,
      RowFails, AcquireFlush, BeginView, RegisterArrowView, CheckClosed, SetClosed, CloseDB, CloseReturns,
      Refused, StatementFails, Acquire, Goto, Return, CallInv, Is, Query, OnlyLoad, Loads, QuerySteps, CloseSteps,
      Waiting, Holding
  <2>4. \A d \in Call : seen'[d] \in Whole \cup {NoTable}
    <3>1. CASE Executed(c)
      <4>1. PICK k \in Conn : Table(c) = stored[k]
        BY <3>1, TableSeen DEF Executed, Holding
      <4>2. Table(c) \in Whole \cup {NoTable}
        BY <1>4, <4>1 DEF TableInv, SentInv
      <4> QED BY <1>4, <3>1, <4>2 DEF Executed, TableInv
    <3>2. CASE ~ Executed(c)
      <4>1. UNCHANGED seen
        BY <3>2, Frame
      <4> QED BY <1>4, <4>1 DEF TableInv
    <3> QED BY <3>1, <3>2
  <2> QED BY <1>4, <2>1, <2>2, <2>3, <2>4 DEF TableInv
<1> QED BY <1>6, <1>7, <1>8

-----------------------------------------------------------------------------
(* The theorems *)

\* Every call of a backend starts with an empty pool and no table.
LEMMA InitInv == Init => Inv
<1> SUFFICES ASSUME Init PROVE Inv
  OBVIOUS
<1>1. CallInv
  BY DEF Init, CallInv, Steps, QuerySteps, LoadSteps
<1>2. PoolInv
  BY <1>1, ScenarioType, FS_EmptySet DEF Init, PoolInv, Holding
<1>3. CatalogInv
  BY DEF Init, CatalogInv, Catalogs
<1>4. SentInv
  BY WholeEnds DEF Init, SentInv
<1>5. TableInv
  BY DEF Init, TableInv
<1> QED BY <1>1, <1>2, <1>3, <1>4, <1>5 DEF Inv

\* Inv is inductive.
LEMMA NextInv == Inv /\ [Next]_vars => Inv'
<1> SUFFICES ASSUME Inv, [Next]_vars PROVE Inv'
  OBVIOUS
<1>1. CASE Next
  BY <1>1, CallStep, PoolStep, CatalogStep, SentStep, TableStep DEF Inv, Next
<1>2. CASE UNCHANGED vars
  <2> USE <1>2 DEF vars, Inv
  <2>1. CallInv'
    BY DEF CallInv, Is
  <2>2. PoolInv'
    BY DEF PoolInv, Keeping, Is
  <2>3. CatalogInv' /\ SentInv'
    BY DEF CatalogInv, Catalogs, SentInv, Whole
  <2>4. TableInv'
    BY DEF TableInv, OnlyLoad, Loads, Is, Whole
  <2> QED BY <2>1, <2>2, <2>3, <2>4
<1> QED BY <1>1, <1>2

\* The inductive invariant holds of every behaviour.
THEOREM Invariance == Spec => []Inv
BY InitInv, NextInv, PTL DEF Spec

\* The pool never has more connections than it may, a call that is back holds none, and
\* the backend's catalog is one that a call asked for (engine.go, backend.go).
THEOREM PoolKeepsItsLimit == Spec => []TypeOK
<1>1. Inv => TypeOK
  BY NoneAssumption DEF Inv, TypeOK, PoolInv, CallInv, CatalogInv, Catalogs, Keeping, Holding
<1> QED BY <1>1, Invariance, PTL

\* A table that one call loads has the rows sent so far, a query reads whole batches, and
\* a load that comes back without an error has loaded the file, whatever the length of
\* the file and of a batch (datasource.go:171-205).
THEOREM LoadsAddUp == Spec => []LoadAddsUp
<1>1. Inv => LoadAddsUp
  BY DEF Inv, LoadAddsUp, TableInv, OnlyLoad, Loads, Whole
<1> QED BY <1>1, Invariance, PTL

-----------------------------------------------------------------------------
(* The service *)

\* The calls that are under way and have been admitted.
Admitted(c) == \/ pc[c] = "hold"
               \/ pc[c] \in {"creating", "flush", "flushing"}
               \/ pc[c] = "want" /\ Is(c, {"view"})

\* The mapping call by call: a call that is back shows how, one that is not shows
\* whether it has been admitted.
LEMMA StatusOf ==
  ASSUME CallInv, NEW c \in Call
  PROVE  Status[c] = IF outcome[c] = "answered" THEN "answered"
                     ELSE IF outcome[c] = "failed" THEN "returned"
                     ELSE IF Admitted(c) THEN "admitted" ELSE "idle"
BY DEF Status, CallInv, Admitted

\* And so after a step.
LEMMA NextStatusOf ==
  ASSUME CallInv', NEW c \in Call
  PROVE  Status'[c] = IF outcome'[c] = "answered" THEN "answered"
                      ELSE IF outcome'[c] = "failed" THEN "returned"
                      ELSE IF Admitted(c)' THEN "admitted" ELSE "idle"
BY DEF Status, CallInv, Admitted

\* A step changes the status of the call that takes it alone.
LEMMA StatusOfOthers ==
  ASSUME CallInv, NEW c \in Call, Step(c), NEW d \in Call, d # c
  PROVE  Status'[d] = Status[d]
<1>1. UNCHANGED sc /\ pc'[d] = pc[d]
  BY StepMoves DEF CallInv
<1>2. outcome'[d] = outcome[d]
  BY DEF Step, Begin, Bind, Bound, LoadStats, SetCatalog, Emit, Execute, Executed, BeginLoad, AcquireCreate, Created,
    RowFails, AcquireFlush, Flushed, BeginView, RegisterArrowView, CheckClosed, SetClosed, CloseDB, CloseReturns,
    Refused, StatementFails, Acquire, Return, CallInv
<1>3. CallInv'
  BY CallStep
<1> QED BY <1>1, <1>2, <1>3, StatusOf DEF Status, Is

\* Begun, refused and bound calls stay outside or come back.
LEMMA StepMaps ==
  ASSUME CallInv, NEW c \in Call, Step(c)
  PROVE  [Promise!Next]_(Promise!vars)
<1>1. CallInv' /\ UNCHANGED sc
  BY CallStep, StepMoves
<1>2. Status \in [Call -> {"idle", "admitted", "answered", "returned"}]
  BY StatusOf DEF Status
<1>3. Status' = [Status EXCEPT ![c] = Status'[c]]
  <2>1. \A d \in Call : d # c => Status'[d] = Status[d]
    BY StatusOfOthers
  <2>2. Status = [d \in Call |-> Status[d]] /\ Status' = [d \in Call |-> Status'[d]]
    BY DEF Status
  <2> QED BY <2>1, <2>2, Zenon
<1>4. CASE CloseDB(c)
  <2>1. Status'[c] = Status[c]
    BY <1>1, <1>4, StatusOf, NextStatusOf DEF CloseDB, Goto, Admitted, CallInv, Is
  <2>2. Status' = Status
    BY <1>2, <1>3, <2>1
  <2>3. dbOpen' = FALSE
    BY <1>4 DEF CloseDB
  <2>4. CASE dbOpen
    BY <2>2, <2>3, <2>4 DEF Promise!Next, Promise!Stop
  <2>5. CASE ~ dbOpen
    BY <2>2, <2>3, <2>5 DEF Promise!vars, CallInv
  <2> QED BY <2>4, <2>5
<1>5. CASE ~ CloseDB(c)
  <2>1. UNCHANGED dbOpen
    BY <1>5, Frame
  <2>2. \/ Status'[c] = Status[c]
        \/ dbOpen /\ Status[c] = "idle" /\ Status'[c] = "admitted"
        \/ Status[c] = "admitted" /\ Status'[c] = "answered"
        \/ Status[c] \in {"idle", "admitted"} /\ Status'[c] = "returned"
    <3> USE <1>1, StatusOf, NextStatusOf
        DEF Goto, Return, Is, Query, Admitted, CallInv, QuerySteps, LoadSteps, CloseSteps, Steps
    <3>1. CASE QueryStep(c)
      BY <3>1 DEF QueryStep, Begin, LoadStats, SetCatalog, Emit, BeginView
    <3>2. CASE LoadStep(c)
      BY <3>2 DEF LoadStep, BeginLoad, RowFails
    <3>3. CASE CloseStep(c)
      BY <3>3, <1>5 DEF CloseStep, CheckClosed, SetClosed, CloseReturns
    <3>4. CASE Acquires(c)
      BY <3>4 DEF Acquires, Bind, Execute, AcquireCreate, AcquireFlush, RegisterArrowView, Acquire
    <3>5. CASE Fails(c)
      BY <3>5 DEF Fails, Refused, StatementFails, Waiting, Holding
    <3>6. CASE Runs(c)
      BY <3>6 DEF Runs, Bound, Executed, Created, Flushed
    <3> QED BY <3>1, <3>2, <3>3, <3>4, <3>5, <3>6, StepKinds
  <2> QED BY <1>2, <1>3, <2>1, <2>2 DEF Promise!Next, Promise!vars, Promise!Admit, Promise!Answer, Promise!Return
<1> QED BY <1>4, <1>5

\* Goroutines that share a backend see the service of Service.tla: nothing is answered
\* that was not admitted, nothing is admitted once the pool is closed, whatever
\* Engine.closed was read as, and no call comes back twice (engine.go:56-75).
THEOREM ServiceRefined == Spec => KeepsPromise
<1>1. Init => Promise!Init
  BY DEF Init, Promise!Init, Status
<1>2. Inv /\ [Next]_vars => [Promise!Next]_(Promise!vars)
  <2> SUFFICES ASSUME Inv, [Next]_vars PROVE [Promise!Next]_(Promise!vars)
    OBVIOUS
  <2>1. CASE Next
    BY <2>1, StepMaps DEF Next, Inv
  <2>2. CASE UNCHANGED vars
    BY <2>2 DEF vars, Promise!vars, Status, Is
  <2> QED BY <2>1, <2>2
<1> QED BY <1>1, <1>2, Invariance, PTL DEF Spec, KeepsPromise, Promise!Safety
=============================================================================
