--------------------------- MODULE MatrixSolveProofs ---------------------------
(***************************************************************************)
(* The properties of MatrixSolve, for any setups that properties.c accepts *)
(* and whatever the order of their measurements.                           *)
(*                                                                         *)
(* The inductive invariant follows one sample from the measurement it was  *)
(* taken in to the element it ends in: TakenInv says whose vector a sample *)
(* is, CellsInv in which cell it lies, CoverInv that every vector needed   *)
(* has one when the loop is done, and SolvedTo what the elements already   *)
(* visited are made of.                                                    *)
(***************************************************************************)
EXTENDS MatrixSolve, FiniteSetTheorems, TLAPS

-----------------------------------------------------------------------------
\* What Begin has checked of the command.
JobInv ==
    /\ job \in [setup : Setup, rows : 1..2, cols : 1..2, colsys : BOOLEAN,
                 measure : BOOLEAN, opt_y : BOOLEAN]
    /\ job.rows <= su.rows /\ job.cols <= su.cols
    /\ job.colsys => job.rows >= job.cols
    /\ job.measure => <<job.rows, job.cols>> # <<1, 2>>
    /\ ~job.measure => job.rows = su.rows /\ job.cols = su.cols

Needed == SuMask(su) \cap InDims(job.rows, job.cols)

TakenInv ==
    /\ IsFiniteSet(taken)
    /\ \A s \in taken : s \in Sample /\ SampleVector(s) \in Needed /\ s.call <= call

CellsInv ==
    cells = [c \in Cells |->
                {s \in taken : s.call = call /\ CellOf(SampleVector(s)) = c}]

Covered(n, vec) == \E s \in taken : s.call = n /\ SampleVector(s) = vec
CoverInv ==
    /\ remaining \subseteq Needed
    /\ \A vec \in Needed \ remaining : Covered(call, vec)
    /\ pc # "measure" => remaining = {}
    /\ call = 2 => \A vec \in Needed : Covered(1, vec)

\* The vectors of a cell; a cell of waves; a cell with vectors of two kinds.
VectorsOf(cell) == {vec \in Needed : CellOf(vec) = cell}
Waves(cell) == \A vec \in VectorsOf(cell) : vec.kind \in {"a", "b"}
Mixed(cell) == \E v, w \in VectorsOf(cell) : v.kind # w.kind
MixedCell == \E c \in Cells : Mixed(c)

\* The samples of a kind in a cell, by the call they were taken in.
OfCall(n, kind, cell) ==
    {s \in taken : /\ s.call = n
                   /\ SampleVector(s).kind = kind
                   /\ CellOf(SampleVector(s)) = cell}
AValue(n, cell) ==
    IF OfCall(n, "a", cell) # {} THEN Mean(OfCall(n, "a", cell))
    ELSE Value(IF Row(cell) = Col(cell) THEN "one" ELSE "zero", {})

\* The cell has its element in A.
HasElementA(cell) ==
    IF job.colsys THEN Row(cell) = Col(cell) ELSE cell < job.cols * job.cols

\* No cell has the second row of A of a calibration with one row.
Unassigned(m) ==
    MixedCell /\ ~job.colsys =>
        \A k \in 0..3 : k >= job.rows * job.cols /\ k < job.cols * job.cols =>
                           m.a.at[k] = Null

\* The matrices m are those of call n, as far as cell upto.
Shaped(m) ==
    /\ IsMatrix(m.a) /\ IsMatrix(m.b)
    /\ m.b.rows = job.rows /\ m.b.cols = job.cols
    /\ MixedCell => m.a.rows = ARows /\ m.a.cols = job.cols
    /\ ~MixedCell => m.a = NoMatrix
    /\ Unassigned(m)
ElementOK(m, n, cell) ==
    IF Waves(cell)
    THEN /\ OfCall(n, "b", cell) # {}
         /\ m.b.at[cell] = Mean(OfCall(n, "b", cell))
         /\ MixedCell /\ HasElementA(cell) => m.a.at[AIndex(cell)] = AValue(n, cell)
    ELSE ~Mixed(cell)
SolvedTo(m, n, upto) ==
    /\ Shaped(m)
    /\ \A c \in Cells : c < upto => ElementOK(m, n, c)

ResultInv ==
    /\ pc = "solve" => /\ next \in 0 .. job.rows * job.cols
                       /\ SolvedTo(result, call, next)
    /\ call = 2 => /\ job.measure /\ Exchange
                   /\ SolvedTo(first, 1, job.rows * job.cols)

FlowInv ==
    /\ pc \in {"measure", "solve", "given", "aborted"}
    /\ call \in 1..2 /\ next \in 0..4 /\ overrun \in BOOLEAN
    /\ used \subseteq MeasOf(su)
    /\ \A r \in {result, first, given} : IsMatrix(r.a) /\ IsMatrix(r.b)

Working ==
    /\ JobInv /\ FlowInv /\ TakenInv /\ CellsInv /\ CoverInv /\ ResultInv
    /\ ElementsAreMeasured /\ DeviceIsMeasured /\ TroubleIsKnown
Idle == pc = "idle" /\ job = NoJob /\ next = 0 /\ overrun = FALSE

Inv == Idle \/ Working

-----------------------------------------------------------------------------
(***************************************************************************)
(* Setups, cells and vectors.                                              *)
(***************************************************************************)
\* What a detector of an accepted setup measures, if anything, is a vector.
LEMMA DetectorType ==
    ASSUME NEW s \in Setup, NEW m \in MeasOf(SetupDef[s]), NEW k \in 1..2
    PROVE  Detectors(SetupDef[s], m)[k] \in Vector \cup {NoVector}
<1> DEFINE T == SetupDef[s]
<1>1. T.steps \in Seq(ManualStep)
  BY SetupAssumption DEF Accepted, SetupType
<1>2. PICK i \in 1..Len(T.steps) :
        \E j \in 1..Len(T.steps[i].meas) : m = <<i, j>>
  BY DEF MeasOf
<1>3. PICK j \in 1..Len(T.steps[i].meas) : m = <<i, j>>
  BY <1>2
<1>3a. T.steps[i] \in ManualStep
  BY <1>1, <1>2
<1>4. T.steps[i].meas \in Seq(Measurement)
  BY <1>3a DEF ManualStep
<1>5. T.steps[i].meas[j] \in Measurement
  BY <1>3, <1>4
<1> QED  BY <1>3, <1>5 DEF Detectors, Measurement

\* The vectors of a setup lie within its dimensions.
LEMMA SuMaskType ==
    ASSUME NEW s \in Setup
    PROVE  /\ SuMask(SetupDef[s]) \subseteq Vector
           /\ SuMask(SetupDef[s]) \subseteq
                InDims(SetupDef[s].rows, SetupDef[s].cols)
           /\ EveryCellHasB(SetupDef[s])
           /\ SetupDef[s].rows \in 1..2 /\ SetupDef[s].cols \in 1..2
<1>1. Accepted(SetupDef[s])
  BY SetupAssumption
<1> QED  BY <1>1 DEF Accepted, SetupType, InDims

\* Row, column and number of a cell.
LEMMA CellFacts ==
    ASSUME JobInv, NEW c \in Cells
    PROVE  /\ c \in 0..3
           /\ Row(c) \in 0 .. job.rows - 1 /\ Col(c) \in 0 .. job.cols - 1
           /\ c = job.cols * Row(c) + Col(c)
<1>1. job.rows \in 1..2 /\ job.cols \in 1..2
  BY DEF JobInv
<1>2. CASE job.cols = 1
  BY <1>1, <1>2 DEF Cells, Row, Col
<1>3. CASE job.cols = 2
  BY <1>1, <1>3 DEF Cells, Row, Col
<1> QED  BY <1>1, <1>2, <1>3

\* A vector within the dimensions has a cell, that of its row and column.
LEMMA VectorFacts ==
    ASSUME JobInv, NEW vec \in InDims(job.rows, job.cols)
    PROVE  /\ vec \in Vector
           /\ CellOf(vec) \in Cells
           /\ vec.row = Row(CellOf(vec)) + 1 /\ vec.col = Col(CellOf(vec)) + 1
<1>1. job.rows \in 1..2 /\ job.cols \in 1..2
  BY DEF JobInv
<1>2. /\ vec \in Vector /\ vec.row \in 1..2 /\ vec.col \in 1..2
      /\ vec.row <= job.rows /\ vec.col <= job.cols
  BY DEF InDims, Vector
<1>3. CASE job.cols = 1
  BY <1>1, <1>2, <1>3 DEF Cells, Row, Col, CellOf
<1>4. CASE job.cols = 2
  BY <1>1, <1>2, <1>4 DEF Cells, Row, Col, CellOf
<1> QED  BY <1>1, <1>2, <1>3, <1>4

\* A vector is known by its kind and its cell.
LEMMA VectorIsItsCell ==
    ASSUME JobInv, NEW v \in InDims(job.rows, job.cols),
           NEW r \in 1..job.rows, NEW c \in 1..job.cols
    PROVE  (CellOf(v) = job.cols * (r - 1) + c - 1) = (v.row = r /\ v.col = c)
<1>1. job.rows \in 1..2 /\ job.cols \in 1..2
  BY DEF JobInv
<1>2. /\ v.row \in 1..2 /\ v.col \in 1..2
      /\ v.row <= job.rows /\ v.col <= job.cols
  BY DEF InDims, Vector
<1>3. CASE job.cols = 1
  BY <1>1, <1>2, <1>3 DEF CellOf
<1>4. CASE job.cols = 2
  <2>1. CellOf(v) = 2 * (v.row - 1) + (v.col - 1)
    BY <1>4 DEF CellOf
  <2>2. job.cols * (r - 1) + c - 1 = 2 * (r - 1) + c - 1
    BY <1>4
  <2>3. r \in 1..2 /\ c \in 1..2
    BY <1>1
  <2> QED  BY <1>2, <2>1, <2>2, <2>3
<1> QED  BY <1>1, <1>2, <1>3, <1>4

\* Every cell of the calibration needs a vector other than an "a".
LEMMA CellHasB ==
    ASSUME JobInv, NEW c \in Cells
    PROVE  \E vec \in VectorsOf(c) : vec.kind # "a"
<1>1. job.setup \in Setup /\ job.rows \in 1..2 /\ job.cols \in 1..2
      /\ job.rows <= su.rows /\ job.cols <= su.cols
  BY DEF JobInv
<1>2. su.rows \in 1..2 /\ su.cols \in 1..2 /\ EveryCellHasB(su)
      /\ SuMask(su) \subseteq Vector
  BY <1>1, SuMaskType DEF su
<1>3. Row(c) + 1 \in 1..job.rows /\ Col(c) + 1 \in 1..job.cols
      /\ Row(c) \in Int /\ Col(c) \in Int
      /\ c = job.cols * Row(c) + Col(c)
  BY <1>1, CellFacts
<1>4. PICK vec \in SuMask(su) :
        vec.row = Row(c) + 1 /\ vec.col = Col(c) + 1 /\ vec.kind # "a"
  BY <1>1, <1>2, <1>3 DEF EveryCellHasB
<1>5. vec \in InDims(job.rows, job.cols)
  BY <1>1, <1>2, <1>3, <1>4 DEF InDims
<1>6. CellOf(vec) = c
  <2>1. vec.row - 1 = Row(c) /\ vec.col - 1 = Col(c)
    BY <1>3, <1>4
  <2> QED  BY <1>3, <2>1 DEF CellOf
<1> QED  BY <1>4, <1>5, <1>6 DEF VectorsOf, Needed

-----------------------------------------------------------------------------
(***************************************************************************)
(* Samples.                                                                *)
(***************************************************************************)
\* What measurement_matrix_add keeps of a measurement.
LEMMA KeptFacts ==
    ASSUME JobInv, NEW m \in MeasOf(su), call \in 1..2
    PROVE  /\ IsFiniteSet(Kept(m))
           /\ \A s \in Kept(m) : /\ s \in Sample /\ s.call = call
                                 /\ SampleVector(s) \in Needed
<1> DEFINE S == [call : {call}, meas : {m}, det : 1..2]
           At(k) == [call |-> call, meas |-> m, det |-> k]
<1>0. job.setup \in Setup
  BY DEF JobInv
<1>1. IsFiniteSet(S)
  <2>1. S = {At(1), At(2)}
    <3>1. ASSUME NEW s \in S PROVE s = At(1) \/ s = At(2)
      <4>1. s = At(s.det) /\ s.det \in 1..2
        OBVIOUS
      <4>2. s.det = 1 \/ s.det = 2
        BY <4>1
      <4> QED  BY <4>1, <4>2
    <3>2. At(1) \in S /\ At(2) \in S
      OBVIOUS
    <3> QED  BY <3>1, <3>2
  <2>2. IsFiniteSet({At(1)}) /\ IsFiniteSet({At(2)})
    BY FS_Singleton
  <2>3. IsFiniteSet({At(1)} \cup {At(2)})
    BY <2>2, FS_Union
  <2> QED  BY <2>1, <2>3
<1>2. Kept(m) \subseteq S
  BY DEF Kept
<1>3. IsFiniteSet(Kept(m))
  BY <1>1, <1>2, FS_Subset
<1>4. ASSUME NEW s \in Kept(m)
      PROVE  s \in Sample /\ s.call = call /\ SampleVector(s) \in Needed
  <2>1. s \in S /\ SampleVector(s) # NoVector
        /\ SampleVector(s) \in InDims(job.rows, job.cols)
    BY DEF Kept
  <2>2. s \in Sample /\ s.call = call
    BY <2>1 DEF Sample
  <2>3. SampleVector(s) \in Mask(su, m)
    <3>1. s.meas = m /\ s.det \in 1..2
      BY <2>1
    <3> QED  BY <2>1, <3>1 DEF SampleVector, Mask
  <2> QED  BY <2>1, <2>2, <2>3 DEF Needed, SuMask
<1> QED  BY <1>3, <1>4

\* Every vector needed that a measurement has is in what is kept of it.
LEMMA KeptCovers ==
    ASSUME JobInv, NEW m \in MeasOf(su), NEW vec \in Needed \cap Mask(su, m)
    PROVE  \E s \in Kept(m) : s.call = call /\ SampleVector(s) = vec
<1>1. PICK k \in 1..2 : vec = Detectors(su, m)[k] /\ vec # NoVector
  BY DEF Mask
<1> DEFINE s == [call |-> call, meas |-> m, det |-> k]
<1>2. SampleVector(s) = vec
  BY <1>1 DEF SampleVector
<1>3. s \in [call : {call}, meas : {m}, det : 1..2]
  BY <1>1
<1>4. s \in Kept(m)
  BY <1>1, <1>2, <1>3 DEF Kept, Needed
<1> QED  BY <1>2, <1>4

\* When the loop is done the cells hold the samples of this call, by cell and
\* kind, and at least one of every vector.
LEMMA CellSamples ==
    ASSUME JobInv, TakenInv, CellsInv, NEW c \in Cells
    PROVE  /\ cells[c] = {s \in taken : s.call = call /\ CellOf(SampleVector(s)) = c}
           /\ \A kind : OfKind(kind, c) = OfCall(call, kind, c)
           /\ \A s \in cells[c] : SampleVector(s) \in VectorsOf(c)
<1>1. cells[c] = {s \in taken : s.call = call /\ CellOf(SampleVector(s)) = c}
  BY DEF CellsInv
<1>2. ASSUME NEW kind PROVE OfKind(kind, c) = OfCall(call, kind, c)
  BY <1>1 DEF OfKind, OfCall
<1>3. \A s \in cells[c] : SampleVector(s) \in VectorsOf(c)
  BY <1>1 DEF TakenInv, VectorsOf
<1> QED  BY <1>1, <1>2, <1>3

\* The kinds of samples in a cell are the kinds of vectors it needs.
LEMMA CellKinds ==
    ASSUME JobInv, TakenInv, CellsInv, CoverInv, remaining = {}, NEW c \in Cells
    PROVE  /\ \A vec \in VectorsOf(c) : vec.kind \in KindsIn(c)
           /\ \A kind \in KindsIn(c) : \E vec \in VectorsOf(c) : vec.kind = kind
<1>1. ASSUME NEW vec \in VectorsOf(c) PROVE vec.kind \in KindsIn(c)
  <2>1. PICK s \in taken : s.call = call /\ SampleVector(s) = vec
    BY DEF CoverInv, Covered, VectorsOf
  <2>2. s \in cells[c]
    BY <2>1, CellSamples DEF VectorsOf
  <2> QED  BY <2>1, <2>2 DEF KindsIn
<1>2. \A kind \in KindsIn(c) : \E vec \in VectorsOf(c) : vec.kind = kind
  BY CellSamples DEF KindsIn
<1> QED  BY <1>1, <1>2

\* A is needed exactly if the setup has a cell with vectors of two kinds, so
\* in both calls or in neither.
LEMMA NeedsAFact ==
    ASSUME JobInv, TakenInv, CellsInv, CoverInv, remaining = {}
    PROVE  NeedsA = MixedCell
<1>1. ASSUME NEW c \in Cells
      PROVE  (\E k, l \in KindsIn(c) : k # l) = Mixed(c)
  BY CellKinds DEF Mixed
<1> QED  BY <1>1 DEF NeedsA, MixedCell

-----------------------------------------------------------------------------
(***************************************************************************)
(* Frames: what a step that leaves some variables alone preserves.         *)
(***************************************************************************)
\* The measuring is over: the job and the samples stay as they are.
LEMMA JobFrame ==
    ASSUME UNCHANGED job
    PROVE  /\ su' = su /\ Cells' = Cells /\ Needed' = Needed /\ JobInv' = JobInv
           /\ MixedCell' = MixedCell /\ ARows' = ARows /\ Sample' = Sample
           /\ ValueType' = ValueType
           /\ \A c : /\ Row(c)' = Row(c) /\ Col(c)' = Col(c)
                     /\ VectorsOf(c)' = VectorsOf(c)
                     /\ Waves(c)' = Waves(c) /\ Mixed(c)' = Mixed(c)
                     /\ AIndex(c)' = AIndex(c)
                     /\ HasElementA(c)' = HasElementA(c)
           /\ \A vec : CellOf(vec)' = CellOf(vec)
           /\ \A s : SampleVector(s)' = SampleVector(s)
<1>1. su' = su /\ Cells' = Cells /\ ARows' = ARows
  BY DEF su, Cells, ARows
<1>2. /\ Needed' = Needed /\ Sample' = Sample /\ JobInv' = JobInv
      /\ ValueType' = ValueType
  BY <1>1 DEF Needed, Sample, JobInv, ValueType
<1>3. \A c : Row(c)' = Row(c) /\ Col(c)' = Col(c)
  BY DEF Row, Col
<1>4. \A vec : CellOf(vec)' = CellOf(vec)
  BY DEF CellOf
<1>5. \A c : VectorsOf(c)' = VectorsOf(c)
  BY <1>2, <1>4 DEF VectorsOf
<1>6. \A c : Waves(c)' = Waves(c) /\ Mixed(c)' = Mixed(c)
  BY <1>5 DEF Waves, Mixed
<1>7. MixedCell' = MixedCell
  BY <1>1, <1>6 DEF MixedCell
<1>8. \A c : AIndex(c)' = AIndex(c) /\ HasElementA(c)' = HasElementA(c)
  BY <1>3 DEF AIndex, HasElementA
<1>9. \A s : SampleVector(s)' = SampleVector(s)
  BY <1>1 DEF SampleVector
<1> QED  BY <1>1, <1>2, <1>3, <1>4, <1>5, <1>6, <1>7, <1>8, <1>9

\* ... and as long as no sample is added, what was measured.
LEMMA SamplesFrame ==
    ASSUME UNCHANGED <<job, taken>>
    PROVE  /\ \A n, kind, c : OfCall(n, kind, c)' = OfCall(n, kind, c)
           /\ \A n, c : AValue(n, c)' = AValue(n, c)
           /\ \A n, vec : Covered(n, vec)' = Covered(n, vec)
<1>1. UNCHANGED job /\ taken' = taken
  OBVIOUS
<1>2. \A n, kind, c : OfCall(n, kind, c)' = OfCall(n, kind, c)
  BY <1>1, JobFrame DEF OfCall
<1>3. \A n, c : AValue(n, c)' = AValue(n, c)
  BY <1>1, <1>2, JobFrame DEF AValue
<1>4. \A n, vec : Covered(n, vec)' = Covered(n, vec)
  BY <1>1, JobFrame DEF Covered
<1> QED  BY <1>2, <1>3, <1>4

-----------------------------------------------------------------------------
(***************************************************************************)
(* Matrices.                                                               *)
(***************************************************************************)
\* The matrix that is not there has no elements.
LEMMA NoMatrixType == IsMatrix(NoMatrix)
<1>1. <<>> \in [{} -> ValueType]
  OBVIOUS
<1>2. 0 .. 0 * 0 - 1 = {}
  OBVIOUS
<1> QED  BY <1>1, <1>2 DEF IsMatrix, NoMatrix

\* The values that elements are given have their type.
LEMMA ValueTypes ==
    ASSUME NEW S \in SUBSET Sample
    PROVE  /\ Null \in ValueType /\ Mean(S) \in ValueType
           /\ Value("one", {}) \in ValueType /\ Value("zero", {}) \in ValueType
           /\ Value("fit", S) \in ValueType
BY DEF Null, Mean, Value, ValueType

\* A new matrix has its dimensions and unassigned elements.
LEMMA AllocateFacts ==
    ASSUME NEW rows \in 1..2, NEW cols \in 1..2
    PROVE  /\ IsMatrix(Allocate(rows, cols))
           /\ Allocate(rows, cols).rows = rows
           /\ Allocate(rows, cols).cols = cols
           /\ Allocate(rows, cols) # NoMatrix
           /\ \A k \in 0 .. rows * cols - 1 : Allocate(rows, cols).at[k] = Null
<1>1. Null \in ValueType
  BY ValueTypes
<1> QED  BY <1>1 DEF Allocate, IsMatrix, NoMatrix

\* An assignment changes one element, if there is one.
LEMMA PutFacts ==
    ASSUME NEW m, IsMatrix(m), NEW k, NEW v \in ValueType
    PROVE  /\ IsMatrix(Put(m, k, v))
           /\ Put(m, k, v).rows = m.rows /\ Put(m, k, v).cols = m.cols
           /\ \A j \in 0 .. m.rows * m.cols - 1 :
                Put(m, k, v).at[j] = IF j = k THEN v ELSE m.at[j]
<1> DEFINE D == 0 .. m.rows * m.cols - 1
           new == [rows |-> m.rows, cols |-> m.cols,
                   at |-> [j \in D |-> IF j = k THEN v ELSE m.at[j]]]
<1>1. /\ m = [rows |-> m.rows, cols |-> m.cols, at |-> m.at]
      /\ m.at \in [D -> ValueType] /\ DOMAIN m.at = D
      /\ m.rows \in 0..2 /\ m.cols \in 0..2
  BY DEF IsMatrix
<1>2. CASE k \in D
  <2>1. [m.at EXCEPT ![k] = v] = [j \in D |-> IF j = k THEN v ELSE m.at[j]]
    BY <1>1, <1>2
  <2>2. Put(m, k, v) = new
    BY <1>1, <1>2, <2>1 DEF Put
  <2>3. IsMatrix(new)
    BY <1>1 DEF IsMatrix
  <2> QED  BY <2>2, <2>3
<1>3. CASE k \notin D
  BY <1>1, <1>3 DEF Put
<1> QED  BY <1>2, <1>3

-----------------------------------------------------------------------------
(***************************************************************************)
(* The steps of measuring.                                                 *)
(***************************************************************************)
LEMMA TypeFromInv ==
    ASSUME Inv
    PROVE  TypeOK
<1>1. CASE Idle
  BY <1>1 DEF Idle, TypeOK
<1>2. CASE Working
  <2>1. job # NoJob /\ pc # "idle"
    BY <1>2 DEF Working, JobInv, FlowInv, NoJob
  <2>2. remaining \subseteq SuMask(su)
    BY <1>2 DEF Working, CoverInv, Needed
  <2>3. DOMAIN cells = Cells /\ \A c \in Cells : cells[c] \subseteq taken
    BY <1>2 DEF Working, CellsInv
  <2>4. \A s \in taken : s \in Sample /\ SampleVector(s) # NoVector
    <3>1. \A s \in taken : SampleVector(s) \in Vector
      BY <1>2 DEF Working, TakenInv, Needed, InDims
    <3>2. NoVector \notin Vector
      BY DEF NoVector, Vector
    <3> QED  BY <1>2, <3>1, <3>2 DEF Working, TakenInv
  <2>5. job \in [setup : Setup, rows : 1..2, cols : 1..2, colsys : BOOLEAN,
                 measure : BOOLEAN, opt_y : BOOLEAN]
        /\ job.rows <= su.rows /\ job.cols <= su.cols
    BY <1>2 DEF Working, JobInv
  <2> QED  BY <1>2, <2>1, <2>2, <2>3, <2>4, <2>5 DEF Working, FlowInv, TypeOK
<1> QED  BY <1>1, <1>2 DEF Inv

\* A command that gets past its checks starts with nothing measured.
LEMMA BeginStep ==
    ASSUME Idle, NEW s \in Setup, NEW rows \in 1..2, NEW cols \in 1..2,
           NEW colsys \in BOOLEAN, NEW measure \in BOOLEAN, NEW opt_y \in BOOLEAN,
           Begin(s, rows, cols, colsys, measure, opt_y)
    PROVE  Working'
<1>1. /\ job' = [setup |-> s, rows |-> rows, cols |-> cols, colsys |-> colsys,
                 measure |-> measure, opt_y |-> opt_y]
      /\ pc' = "measure" /\ call' = 1 /\ next' = 0 /\ overrun' = FALSE
      /\ used' = {} /\ taken' = {}
      /\ result' = NoResult /\ first' = NoResult /\ given' = NoResult
  BY DEF Begin, Idle
<1>2. su' = SetupDef[s] /\ job'.rows = rows /\ job'.cols = cols
      /\ Cells' = 0 .. rows * cols - 1
  BY <1>1 DEF su, Cells
<1>3. SetupDef[s].rows \in 1..2 /\ SetupDef[s].cols \in 1..2
  BY SuMaskType
<1>4. JobInv'
  <2>1. rows <= SetupDef[s].rows /\ cols <= SetupDef[s].cols
    BY <1>3 DEF Begin
  <2>2. /\ colsys => rows >= cols
        /\ measure => <<rows, cols>> # <<1, 2>>
        /\ ~measure => rows = SetupDef[s].rows /\ cols = SetupDef[s].cols
    BY DEF Begin, TypeAllows
  <2> QED  BY <1>1, <1>2, <2>1, <2>2 DEF JobInv
<1>5. FlowInv'
  <2>1. IsMatrix(NoMatrix)'
    BY NoMatrixType, PTL
  <2>2. NoMatrix' = NoMatrix /\ NoResult' = NoResult
    BY DEF NoMatrix, NoResult
  <2>3. \A r \in {result', first', given'} : r = NoResult
    BY <1>1
  <2>4. NoResult.a = NoMatrix /\ NoResult.b = NoMatrix
    BY DEF NoResult
  <2>5. (\A r \in {result, first, given} : IsMatrix(r.a) /\ IsMatrix(r.b))'
    BY <2>1, <2>2, <2>3, <2>4 DEF IsMatrix
  <2>6. pc' = "measure" /\ call' \in 1..2 /\ next' \in 0..4
    BY <1>1
  <2>7. overrun' \in BOOLEAN
    BY <1>1
  <2>8. used' \subseteq MeasOf(su)'
    BY <1>1
  <2> QED  BY ONLY <2>5, <2>6, <2>7, <2>8 DEF FlowInv
<1>6. TakenInv'
  BY <1>1, FS_EmptySet DEF TakenInv
<1>7. CellsInv'
  <2>1. cells' = [c \in 0 .. rows * cols - 1 |-> {}]
    BY DEF Begin
  <2> QED  BY <1>1, <1>2, <2>1 DEF CellsInv
<1>8. CoverInv'
  <2>1. remaining' = Needed'
    BY <1>2 DEF Begin, Needed
  <2> QED  BY <1>1, <2>1 DEF CoverInv
<1>9. ResultInv'
  BY <1>1 DEF ResultInv
<1>10. ElementsAreMeasured' /\ DeviceIsMeasured' /\ TroubleIsKnown'
  BY <1>1 DEF ElementsAreMeasured, DeviceIsMeasured, TroubleIsKnown
<1> QED  BY <1>4, <1>5, <1>6, <1>7, <1>8, <1>9, <1>10 DEF Working

\* The first result stays what it is while the second call measures.
LEMMA FirstFrame ==
    ASSUME UNCHANGED <<job, first>>,
           \A kind, c : OfCall(1, kind, c)' = OfCall(1, kind, c),
           SolvedTo(first, 1, job.rows * job.cols)
    PROVE  SolvedTo(first, 1, job.rows * job.cols)'
<1>0. UNCHANGED job /\ first' = first
  OBVIOUS
<1>1. Shaped(first)'
  <2>1. Shaped(first)
    BY DEF SolvedTo
  <2> QED  BY <1>0, <2>1, JobFrame DEF Shaped, IsMatrix, Unassigned, Null, Value
<1>2. \A c : AValue(1, c)' = AValue(1, c)
  BY <1>0, JobFrame DEF AValue
<1>3. \A c : ElementOK(first, 1, c)' = ElementOK(first, 1, c)
  <2> SUFFICES ASSUME NEW c PROVE ElementOK(first, 1, c)' = ElementOK(first, 1, c)
    OBVIOUS
  <2>1. /\ Waves(c)' = Waves(c) /\ Mixed(c)' = Mixed(c)
        /\ MixedCell' = MixedCell /\ HasElementA(c)' = HasElementA(c)
        /\ AIndex(c)' = AIndex(c) /\ AValue(1, c)' = AValue(1, c)
        /\ OfCall(1, "b", c)' = OfCall(1, "b", c)
    BY <1>0, <1>2, JobFrame
  <2> QED  BY ONLY <1>0, <2>1 DEF ElementOK, Mean, Value
<1>4. (\A c \in Cells : c < job.rows * job.cols => ElementOK(first, 1, c))'
  <2>1. \A c \in Cells : c < job.rows * job.cols => ElementOK(first, 1, c)
    BY DEF SolvedTo
  <2> QED  BY <1>0, <1>3, <2>1, JobFrame
<1> QED  BY <1>1, <1>4 DEF SolvedTo

\* measurement_matrix_add puts every sample kept into its own cell.
LEMMA AddStep ==
    ASSUME Working, pc = "measure", NEW m \in MeasOf(su), Add(m)
    PROVE  Working'
<1>1. /\ UNCHANGED <<job, pc, call, next, result, first, given, overrun>>
      /\ taken' = taken \cup Kept(m) /\ used' = used \cup {m}
      /\ remaining' = remaining \ Mask(su, m)
      /\ cells' = [c \in Cells |-> cells[c] \cup
                      {s \in Kept(m) : CellOf(SampleVector(s)) = c}]
  BY DEF Add
<1>2. UNCHANGED job /\ call' = call /\ call \in 1..2 /\ JobInv
  BY <1>1 DEF Working, FlowInv
<1>3. JobInv'
  BY <1>2, JobFrame
<1>4. FlowInv'
  <2>1. \A r : IsMatrix(r)' = IsMatrix(r)
    BY <1>2, JobFrame DEF IsMatrix
  <2> QED  BY <1>1, <1>2, <2>1, JobFrame DEF Working, FlowInv
<1>5. /\ IsFiniteSet(Kept(m))
      /\ \A s \in Kept(m) : /\ s \in Sample /\ s.call = call
                            /\ SampleVector(s) \in Needed
  BY <1>2, KeptFacts
<1>6. TakenInv'
  <2>1. IsFiniteSet(taken')
    BY <1>1, <1>5, FS_Union DEF Working, TakenInv
  <2>2. \A s \in taken' : s \in Sample /\ SampleVector(s) \in Needed /\ s.call <= call
    BY <1>1, <1>2, <1>5 DEF Working, TakenInv
  <2> QED  BY <1>2, <2>1, <2>2, JobFrame DEF TakenInv
<1>7. CellsInv'
  <2>1. ASSUME NEW c \in Cells
        PROVE  cells[c] \cup {s \in Kept(m) : CellOf(SampleVector(s)) = c}
                 = {s \in taken \cup Kept(m) :
                        s.call = call /\ CellOf(SampleVector(s)) = c}
    BY <1>5 DEF Working, CellsInv
  <2>2. cells' = [c \in Cells |->
                    {s \in taken \cup Kept(m) :
                        s.call = call /\ CellOf(SampleVector(s)) = c}]
    BY <1>1, <2>1
  <2> QED  BY <1>1, <1>2, <2>2, JobFrame DEF CellsInv
<1>8. CoverInv'
  <2>1. remaining' \subseteq Needed
    BY <1>1 DEF Working, CoverInv
  <2>2. ASSUME NEW vec \in Needed, vec \notin remaining'
        PROVE  \E s \in taken' : s.call = call /\ SampleVector(s) = vec
    <3>1. CASE vec \notin remaining
      BY <1>1, <3>1 DEF Working, CoverInv, Covered
    <3>2. CASE vec \in Mask(su, m)
      BY <1>1, <1>2, <3>2, KeptCovers
    <3> QED  BY <1>1, <2>2, <3>1, <3>2
  <2>3. call = 2 => \A vec \in Needed :
            \E s \in taken' : s.call = 1 /\ SampleVector(s) = vec
    BY <1>1 DEF Working, CoverInv, Covered
  <2> QED  BY <1>1, <1>2, <2>1, <2>2, <2>3, JobFrame DEF CoverInv, Covered
<1>9. ResultInv'
  <2>1. ASSUME call = 2
        PROVE  SolvedTo(first, 1, job.rows * job.cols)'
    <3>1. \A s \in Kept(m) : s.call # 1
      BY <1>5, <2>1
    <3>2. ASSUME NEW kind, NEW c
          PROVE  OfCall(1, kind, c)' = OfCall(1, kind, c)
      BY <1>1, <1>2, <3>1, JobFrame DEF OfCall
    <3> QED  BY <1>1, <2>1, <3>2, FirstFrame DEF Working, ResultInv
  <2>2. Exchange' = Exchange
    BY <1>2 DEF Exchange
  <2> QED  BY <1>1, <1>2, <2>1, <2>2 DEF Working, ResultInv
<1>10. ElementsAreMeasured' /\ DeviceIsMeasured'
  BY <1>1 DEF ElementsAreMeasured, DeviceIsMeasured
<1>11. TroubleIsKnown'
  BY <1>1, <1>2, JobFrame DEF Working, TroubleIsKnown, KnownTrouble, WavesOnly, HasA
<1> QED  BY <1>3, <1>4, <1>6, <1>7, <1>8, <1>9, <1>10, <1>11 DEF Working

-----------------------------------------------------------------------------
(***************************************************************************)
(* The steps of solving.                                                   *)
(***************************************************************************)
\* Solving leaves the samples alone.
LEMMA StillMeasured ==
    ASSUME Working, remaining = {},
           UNCHANGED <<job, call, remaining, used, cells, taken>>
    PROVE  /\ JobInv' /\ TakenInv' /\ CellsInv' /\ CoverInv'
           /\ used' \subseteq MeasOf(su)'
<1>1. /\ UNCHANGED job /\ UNCHANGED <<job, taken>>
      /\ call' = call /\ remaining' = remaining /\ used' = used
      /\ cells' = cells /\ taken' = taken
  OBVIOUS
<1>2. JobInv'
  BY <1>1, JobFrame DEF Working
<1>3. TakenInv'
  BY <1>1, JobFrame DEF Working, TakenInv
<1>4. CellsInv'
  BY <1>1, JobFrame DEF Working, CellsInv
<1>5. CoverInv'
  BY <1>1, JobFrame, SamplesFrame DEF Working, CoverInv
<1>6. used' \subseteq MeasOf(su)'
  BY <1>1, JobFrame DEF Working, FlowInv
<1> QED  BY <1>2, <1>3, <1>4, <1>5, <1>6

\* ... and in the second call the result of the first.
LEMMA StillFirst ==
    ASSUME Working, UNCHANGED <<job, call, first, taken>>, call = 2
    PROVE  job'.measure /\ Exchange' /\ SolvedTo(first, 1, job.rows * job.cols)'
<1>1. UNCHANGED job /\ UNCHANGED <<job, first>> /\ UNCHANGED <<job, taken>>
  OBVIOUS
<1>2. job.measure /\ Exchange /\ SolvedTo(first, 1, job.rows * job.cols)
  BY DEF Working, ResultInv
<1>3. SolvedTo(first, 1, job.rows * job.cols)'
  BY <1>1, <1>2, SamplesFrame, FirstFrame
<1> QED  BY <1>1, <1>2, <1>3 DEF Exchange

\* The flow of control, given the matrices.
LEMMA FlowFrom ==
    ASSUME Working, UNCHANGED <<job, call>>,
           pc' \in {"measure", "solve", "given", "aborted"},
           next' \in 0..4, overrun' \in BOOLEAN, used' \subseteq MeasOf(su)',
           IsMatrix(result'.a), IsMatrix(result'.b),
           IsMatrix(first'.a), IsMatrix(first'.b),
           IsMatrix(given'.a), IsMatrix(given'.b)
    PROVE  FlowInv'
<1>1. UNCHANGED job /\ call' = call
  OBVIOUS
<1>2. (\A r \in {result, first, given} : IsMatrix(r.a) /\ IsMatrix(r.b))'
  BY <1>1, JobFrame DEF IsMatrix
<1>3. call' \in 1..2
  BY <1>1 DEF Working, FlowInv
<1> QED  BY <1>2, <1>3 DEF FlowInv

\* What TroubleIsKnown speaks of depends on the job alone.
LEMMA TroubleFrame ==
    ASSUME UNCHANGED job
    PROVE  KnownTrouble' = KnownTrouble /\ HasA' = HasA /\ WavesOnly' = WavesOnly
BY JobFrame DEF KnownTrouble, HasA, WavesOnly

\* measurement_matrix_solve allocates A exactly if some cell needs it.
LEMMA StartSolveStep ==
    ASSUME Working, StartSolve
    PROVE  Working'
<1>1. /\ pc = "measure" /\ remaining = {} /\ pc' = "solve" /\ next' = 0
      /\ result' = [a |-> IF NeedsA THEN Allocate(ARows, job.cols) ELSE NoMatrix,
                    b |-> Allocate(job.rows, job.cols)]
      /\ UNCHANGED <<job, call, remaining, used, cells, first, given, taken, overrun>>
  BY DEF StartSolve
<1>2. /\ UNCHANGED <<job, call, remaining, used, cells, taken>>
      /\ UNCHANGED job /\ UNCHANGED <<job, call>>
      /\ UNCHANGED <<job, call, first, taken>>
      /\ first' = first /\ given' = given /\ overrun' = overrun /\ call' = call
  BY <1>1
<1>3. /\ JobInv' /\ TakenInv' /\ CellsInv' /\ CoverInv'
      /\ used' \subseteq MeasOf(su)'
  BY <1>1, <1>2, StillMeasured
<1>4. /\ IsMatrix(result'.a) /\ IsMatrix(result'.b)
      /\ result'.b.rows = job.rows /\ result'.b.cols = job.cols
      /\ MixedCell => result'.a.rows = ARows /\ result'.a.cols = job.cols
      /\ ~MixedCell => result'.a = NoMatrix
  <2>1. job.rows \in 1..2 /\ job.cols \in 1..2 /\ ARows \in 1..2
    BY DEF Working, JobInv, ARows
  <2>2. NeedsA = MixedCell
    BY <1>1, NeedsAFact DEF Working
  <2> QED  BY <1>1, <2>1, <2>2, AllocateFacts, NoMatrixType
<1>5. MixedCell /\ ~job.colsys =>
        \A k \in 0..3 : k < job.cols * job.cols => result'.a.at[k] = Null
  <2> SUFFICES ASSUME MixedCell, ~job.colsys,
                      NEW k \in 0..3, k < job.cols * job.cols
               PROVE  result'.a.at[k] = Null
    OBVIOUS
  <2>1. job.cols \in 1..2 /\ ARows = job.cols
    BY DEF Working, JobInv, ARows
  <2>2. result'.a = Allocate(job.cols, job.cols)
    BY <1>1, <2>1, NeedsAFact DEF Working
  <2>3. k \in 0 .. job.cols * job.cols - 1
    <3>1. CASE job.cols = 1
      BY <3>1
    <3>2. CASE job.cols = 2
      BY <3>2
    <3> QED  BY <2>1, <3>1, <3>2
  <2> QED  BY <2>1, <2>2, <2>3, AllocateFacts
<1>6. FlowInv'
  <2>1. /\ IsMatrix(first'.a) /\ IsMatrix(first'.b)
        /\ IsMatrix(given'.a) /\ IsMatrix(given'.b)
    BY <1>2 DEF Working, FlowInv
  <2>2. overrun' \in BOOLEAN
    BY <1>2 DEF Working, FlowInv
  <2>3. pc' \in {"measure", "solve", "given", "aborted"} /\ next' \in 0..4
    BY <1>1
  <2> QED  BY <1>2, <1>3, <1>4, <2>1, <2>2, <2>3, FlowFrom
<1>7. ResultInv'
  <2>1. Shaped(result)'
    BY <1>2, <1>4, <1>5, JobFrame DEF Shaped, IsMatrix, Unassigned, Null, Value
  <2>2. (\A c \in Cells : c < next => ElementOK(result, call, c))'
    <3>1. Cells' = Cells /\ next' = 0
      BY <1>1, <1>2, JobFrame
    <3>2. \A c \in Cells : ~(c < 0)
      BY DEF Cells
    <3> QED  BY <3>1, <3>2
  <2>3. next' \in 0 .. job'.rows * job'.cols
    <3>1. job'.rows \in 1..2 /\ job'.cols \in 1..2
      BY <1>3 DEF JobInv
    <3>2. CASE job'.cols = 1
      BY <1>1, <3>1, <3>2
    <3>3. CASE job'.cols = 2
      BY <1>1, <3>1, <3>3
    <3> QED  BY <3>1, <3>2, <3>3
  <2> QED  BY <1>2, <2>1, <2>2, <2>3, StillFirst DEF ResultInv, SolvedTo
<1>8. ElementsAreMeasured' /\ DeviceIsMeasured'
  BY <1>1 DEF ElementsAreMeasured, DeviceIsMeasured
<1>9. TroubleIsKnown'
  BY <1>1, <1>2, TroubleFrame DEF Working, TroubleIsKnown
<1> QED  BY <1>3, <1>6, <1>7, <1>8, <1>9 DEF Working

\* A cell of waves with vectors of two kinds has an "a".
LEMMA WavesMixed ==
    ASSUME NEW c \in Cells, Waves(c), Mixed(c)
    PROVE  HasA
BY DEF Waves, Mixed, HasA, VectorsOf, Needed

\* The cells solved so far, after a step that changes but the result.
LEMMA SolvedFrame ==
    ASSUME UNCHANGED <<job, call, taken>>, Shaped(result'),
           \A c \in Cells : c < next' => ElementOK(result', call, c)
    PROVE  SolvedTo(result, call, next)'
<1>1. UNCHANGED job /\ UNCHANGED <<job, taken>> /\ call' = call
  OBVIOUS
<1>2. Shaped(result)'
  BY <1>1, JobFrame DEF Shaped, IsMatrix, Unassigned, Null, Value
<1>3. ASSUME NEW c
      PROVE  ElementOK(result, call, c)' = ElementOK(result', call, c)
  <2>1. /\ Waves(c)' = Waves(c) /\ Mixed(c)' = Mixed(c)
        /\ MixedCell' = MixedCell /\ HasElementA(c)' = HasElementA(c)
        /\ AIndex(c)' = AIndex(c) /\ AValue(call, c)' = AValue(call, c)
        /\ OfCall(call, "b", c)' = OfCall(call, "b", c)
    <3>1. \A kind : OfCall(call, kind, c)' = OfCall(call, kind, c)
      BY <1>1, JobFrame DEF OfCall
    <3>2. AValue(call, c)' = AValue(call, c)
      BY <1>1, <3>1, JobFrame DEF AValue
    <3> QED  BY <1>1, <3>1, <3>2, JobFrame
  <2> QED  BY ONLY <1>1, <2>1 DEF ElementOK, Mean, Value
<1>4. (\A c \in Cells : c < next => ElementOK(result, call, c))'
  BY <1>1, <1>3, JobFrame
<1> QED  BY <1>2, <1>4 DEF SolvedTo

\* What measurement_matrix_solve finds in a cell of waves: b's, and if A has
\* an element for the cell, its value and a place for it.
LEMMA AverageFacts ==
    ASSUME Working, pc = "solve", next \in Cells, KindsIn(next) \cap {"v", "i"} = {}
    PROVE  /\ Waves(next)
           /\ OfKind("b", next) = OfCall(call, "b", next)
           /\ OfCall(call, "b", next) # {}
           /\ AVector(next) \in ValueType
           /\ MixedCell /\ HasElementA(next) =>
                /\ KeepsA(next) /\ AVector(next) = AValue(call, next)
                /\ AIndex(next) \in 0 .. ARows * job.cols - 1
           /\ KeepsA(next) => /\ MixedCell
                              /\ job.colsys => HasElementA(next)
<1>1. /\ JobInv /\ TakenInv /\ CellsInv /\ CoverInv /\ remaining = {}
      /\ job.rows \in 1..2 /\ job.cols \in 1..2
  BY DEF Working, CoverInv, JobInv
<1>2. Waves(next)
  <2>1. \A vec \in VectorsOf(next) : vec.kind \in Kind
    BY <1>1, VectorFacts DEF VectorsOf, Needed, Vector
  <2> QED  BY <1>1, <2>1, CellKinds DEF Waves, Kind
<1>3. \A kind : OfKind(kind, next) = OfCall(call, kind, next)
  BY <1>1, CellSamples
<1>4. OfCall(call, "b", next) # {}
  <2>1. PICK vec \in VectorsOf(next) : vec.kind # "a"
    BY <1>1, CellHasB
  <2>2. "b" \in KindsIn(next)
    BY <1>1, <1>2, <2>1, CellKinds DEF Waves
  <2>3. OfKind("b", next) # {}
    BY <2>2 DEF KindsIn, OfKind
  <2> QED  BY <1>3, <2>3
<1>5. NeedsA = MixedCell
  BY <1>1, NeedsAFact
<1>6. OfCall(call, "a", next) \subseteq Sample
  BY <1>1 DEF OfCall, TakenInv
<1>7. AVector(next) \in ValueType
  BY <1>3, <1>6, ValueTypes DEF AVector
<1>8. ASSUME MixedCell, HasElementA(next)
      PROVE  /\ KeepsA(next) /\ AVector(next) = AValue(call, next)
             /\ AIndex(next) \in 0 .. ARows * job.cols - 1
  <2>1. job.colsys => Row(next) = Col(next)
    BY <1>8 DEF HasElementA
  <2>2. AVector(next) = AValue(call, next)
    BY <1>3, <1>5, <1>8, <2>1 DEF AVector, AValue
  <2>3. AValue(call, next) # Null
    BY DEF AValue, Null, Mean, Value
  <2>4. AIndex(next) \in 0 .. ARows * job.cols - 1
    <3>1. /\ next \in 0..3 /\ Col(next) \in 0 .. job.cols - 1
          /\ next = job.cols * Row(next) + Col(next)
      BY <1>1, CellFacts
    <3>2. CASE job.colsys
      <4>1. AIndex(next) = Col(next) /\ ARows * job.cols = job.cols
        BY <1>1, <3>2 DEF AIndex, ARows
      <4> QED  BY <1>1, <3>1, <4>1
    <3>3. CASE ~job.colsys
      <4>1. AIndex(next) = next /\ ARows * job.cols = job.cols * job.cols
        BY <3>1, <3>3 DEF AIndex, ARows
      <4>2. next < job.cols * job.cols
        BY <1>8, <3>3 DEF HasElementA
      <4>3. CASE job.cols = 1
        BY <3>1, <4>1, <4>2, <4>3
      <4>4. CASE job.cols = 2
        BY <3>1, <4>1, <4>2, <4>4
      <4> QED  BY <1>1, <4>3, <4>4
    <3> QED  BY <3>2, <3>3
  <2> QED  BY <2>1, <2>2, <2>3, <2>4 DEF KeepsA
<1>9. ASSUME KeepsA(next)
      PROVE  MixedCell /\ (job.colsys => HasElementA(next))
  <2>1. CASE OfKind("a", next) # {}
    <3>1. "a" \in KindsIn(next) /\ "b" \in KindsIn(next)
      BY <1>3, <1>4, <2>1 DEF KindsIn, OfKind
    <3>2. Mixed(next)
      <4>1. PICK v \in VectorsOf(next) : v.kind = "a"
        BY <1>1, <3>1, CellKinds
      <4>2. PICK w \in VectorsOf(next) : w.kind = "b"
        BY <1>1, <3>1, CellKinds
      <4> QED  BY <4>1, <4>2 DEF Mixed
    <3> QED  BY <1>9, <3>2 DEF MixedCell, KeepsA, HasElementA
  <2>2. CASE OfKind("a", next) = {}
    BY <1>5, <1>9, <2>2 DEF KeepsA, AVector, HasElementA
  <2> QED  BY <2>1, <2>2
<1> QED  BY <1>2, <1>3, <1>4, <1>7, <1>8, <1>9

\* A cell of waves: its elements become the means of this call's samples.
LEMMA AverageStep ==
    ASSUME Working, AverageCell
    PROVE  Working'
<1> DEFINE b == OfCall(call, "b", next)
           D == 0 .. ARows * job.cols - 1
<1>1. /\ pc = "solve" /\ next \in Cells /\ KindsIn(next) \cap {"v", "i"} = {}
      /\ UNCHANGED <<job, call, remaining, used, cells, first, given, taken>>
  BY DEF AverageCell
<1>2. /\ UNCHANGED <<job, call, remaining, used, cells, taken>>
      /\ UNCHANGED job /\ UNCHANGED <<job, call>> /\ UNCHANGED <<job, call, taken>>
      /\ UNCHANGED <<job, call, first, taken>>
      /\ first' = first /\ given' = given /\ call' = call
  BY <1>1
<1>3. /\ JobInv /\ TakenInv /\ remaining = {} /\ Shaped(result)
      /\ job.rows \in 1..2 /\ job.cols \in 1..2
      /\ \A c \in Cells : c < next => ElementOK(result, call, c)
  BY <1>1 DEF Working, CoverInv, ResultInv, SolvedTo, JobInv
<1>4. /\ Waves(next) /\ OfKind("b", next) = b /\ b # {}
      /\ AVector(next) \in ValueType
      /\ MixedCell /\ HasElementA(next) =>
           /\ KeepsA(next) /\ AVector(next) = AValue(call, next)
           /\ AIndex(next) \in D
      /\ KeepsA(next) => MixedCell /\ (job.colsys => HasElementA(next))
  BY <1>1, AverageFacts
<1>5. /\ pc' = "solve" /\ next' = next + 1
      /\ result'.a = IF KeepsA(next)
                     THEN Put(result.a, AIndex(next), AVector(next))
                     ELSE result.a
      /\ result'.b = Put(result.b, next, Mean(b))
      /\ overrun' = (overrun \/ (KeepsA(next)
                                 /\ AIndex(next) \notin DOMAIN result.a.at))
  BY <1>1, <1>4 DEF AverageCell
<1>6. Mean(b) \in ValueType
  <2>1. b \subseteq Sample
    BY <1>3 DEF OfCall, TakenInv
  <2> QED  BY <2>1, ValueTypes
<1>7. /\ IsMatrix(result'.b)
      /\ result'.b.rows = job.rows /\ result'.b.cols = job.cols
      /\ \A j \in Cells : result'.b.at[j] = IF j = next THEN Mean(b)
                                             ELSE result.b.at[j]
  <2>1. IsMatrix(result.b) /\ result.b.rows = job.rows /\ result.b.cols = job.cols
    BY <1>3 DEF Shaped
  <2> QED  BY <1>5, <1>6, <2>1, PutFacts DEF Cells
<1>8. /\ IsMatrix(result'.a)
      /\ result'.a.rows = result.a.rows /\ result'.a.cols = result.a.cols
      /\ ~MixedCell => result'.a = NoMatrix
      /\ MixedCell => \A j \in D :
           result'.a.at[j] = IF KeepsA(next) /\ j = AIndex(next) THEN AVector(next)
                             ELSE result.a.at[j]
  <2>1. IsMatrix(result.a)
    BY <1>3 DEF Shaped
  <2>2. CASE ~KeepsA(next)
    BY <1>3, <1>5, <2>1, <2>2 DEF Shaped
  <2>3. CASE KeepsA(next)
    <3>1. result'.a = Put(result.a, AIndex(next), AVector(next)) /\ MixedCell
      BY <1>4, <1>5, <2>3
    <3>2. result.a.rows = ARows /\ result.a.cols = job.cols
      BY <1>3, <3>1 DEF Shaped
    <3> QED  BY <1>4, <2>1, <2>3, <3>1, <3>2, PutFacts
  <2> QED  BY <2>2, <2>3
<1>9. Shaped(result')
  <2>1. ASSUME MixedCell, ~job.colsys, NEW k \in 0..3,
               k >= job.rows * job.cols, k < job.cols * job.cols
        PROVE  result'.a.at[k] = Null
    <3>1. result.a.at[k] = Null
      BY <1>3, <2>1 DEF Shaped, Unassigned
    <3>2. next \in 0 .. job.rows * job.cols - 1 /\ next \in 0..3
      BY <1>1, <1>3, CellFacts DEF Cells
    <3>3. AIndex(next) = next /\ ARows = job.cols
      BY <1>1, <1>3, <2>1, CellFacts DEF AIndex, ARows
    <3>4. k \in D /\ k # next
      <4>1. CASE job.cols = 1
        BY <1>3, <2>1, <3>2, <3>3, <4>1
      <4>2. CASE job.cols = 2
        BY <1>3, <2>1, <3>2, <3>3, <4>2
      <4> QED  BY <1>3, <4>1, <4>2
    <3> QED  BY <1>8, <2>1, <3>1, <3>3, <3>4
  <2>2. Unassigned(result')
    BY <2>1 DEF Unassigned
  <2> QED  BY <1>3, <1>7, <1>8, <2>2 DEF Shaped
<1>10. ASSUME NEW c \in Cells, c < next', Waves(c), MixedCell, HasElementA(c)
       PROVE  result'.a.at[AIndex(c)] = AValue(call, c)
  <2>1. CASE c = next
    BY <1>4, <1>8, <1>10, <2>1
  <2>2. CASE c # next
    <3>1. /\ c \in 0..3 /\ Col(c) \in 0 .. job.cols - 1
          /\ Row(c) \in 0 .. job.rows - 1 /\ c = job.cols * Row(c) + Col(c)
      BY <1>3, CellFacts
    <3>2. /\ next \in 0..3 /\ Col(next) \in 0 .. job.cols - 1
          /\ next = job.cols * Row(next) + Col(next)
      BY <1>1, <1>3, CellFacts
    <3>3. c < next
      BY <1>5, <1>10, <2>2, <3>1, <3>2
    <3>4. result.a.at[AIndex(c)] = AValue(call, c)
      BY <1>3, <1>10, <3>3 DEF ElementOK
    <3>5. AIndex(c) \in D
      <4>1. CASE job.colsys
        <5>1. AIndex(c) = Col(c) /\ ARows * job.cols = job.cols
          BY <1>3, <4>1 DEF AIndex, ARows
        <5> QED  BY <1>3, <3>1, <5>1
      <4>2. CASE ~job.colsys
        <5>1. /\ AIndex(c) = c /\ ARows * job.cols = job.cols * job.cols
              /\ c < job.cols * job.cols
          BY <1>10, <3>1, <4>2 DEF AIndex, ARows, HasElementA
        <5>2. CASE job.cols = 1
          BY <3>1, <5>1, <5>2
        <5>3. CASE job.cols = 2
          BY <3>1, <5>1, <5>3
        <5> QED  BY <1>3, <5>2, <5>3
      <4> QED  BY <4>1, <4>2
    <3>6. ASSUME KeepsA(next) PROVE AIndex(c) # AIndex(next)
      <4>1. CASE job.colsys
        <5>1. Row(c) = Col(c) /\ Row(next) = Col(next)
          BY <1>4, <1>10, <3>6, <4>1 DEF HasElementA
        <5>2. AIndex(c) = Col(c) /\ AIndex(next) = Col(next)
          BY <4>1 DEF AIndex
        <5> QED  BY <2>2, <3>1, <3>2, <5>1, <5>2
      <4>2. CASE ~job.colsys
        BY <2>2, <3>1, <3>2, <4>2 DEF AIndex
      <4> QED  BY <4>1, <4>2
    <3> QED  BY <1>8, <1>10, <3>4, <3>5, <3>6
  <2> QED  BY <2>1, <2>2
<1>11. ASSUME NEW c \in Cells, c < next' PROVE ElementOK(result', call, c)
  <2>1. CASE c = next
    BY <1>4, <1>7, <1>10, <1>11, <2>1 DEF ElementOK
  <2>2. CASE c # next
    <3>1. c < next
      BY <1>1, <1>5, <1>11, <2>2 DEF Cells
    <3>2. ElementOK(result, call, c)
      BY <1>3, <3>1
    <3> QED  BY <1>7, <1>10, <1>11, <2>2, <3>2 DEF ElementOK
  <2> QED  BY <2>1, <2>2
<1>12. next' \in 0 .. job.rows * job.cols /\ next' \in 0..4
  <2>1. next \in 0 .. job.rows * job.cols - 1
    BY <1>1 DEF Cells
  <2>2. CASE job.cols = 1
    BY <1>3, <1>5, <2>1, <2>2
  <2>3. CASE job.cols = 2
    BY <1>3, <1>5, <2>1, <2>3
  <2> QED  BY <1>3, <2>2, <2>3
<1>13. ResultInv'
  <2>1. SolvedTo(result, call, next)'
    BY <1>2, <1>9, <1>11, SolvedFrame
  <2>2. next' \in 0 .. job'.rows * job'.cols
    BY <1>2, <1>12
  <2> QED  BY <1>2, <2>1, <2>2, StillFirst DEF ResultInv
<1>14. /\ JobInv' /\ TakenInv' /\ CellsInv' /\ CoverInv'
       /\ used' \subseteq MeasOf(su)'
  BY <1>2, <1>3, StillMeasured
<1>15. FlowInv'
  <2>1. /\ IsMatrix(first'.a) /\ IsMatrix(first'.b)
        /\ IsMatrix(given'.a) /\ IsMatrix(given'.b)
    BY <1>2 DEF Working, FlowInv
  <2>2. overrun' \in BOOLEAN
    BY <1>5
  <2>3. pc' \in {"measure", "solve", "given", "aborted"}
    BY <1>5
  <2> QED  BY <1>2, <1>7, <1>8, <1>12, <1>14, <2>1, <2>2, <2>3, FlowFrom
<1>16. ElementsAreMeasured' /\ DeviceIsMeasured'
  BY <1>5 DEF ElementsAreMeasured, DeviceIsMeasured
<1>17. TroubleIsKnown'
  <2>1. ASSUME KeepsA(next), AIndex(next) \notin DOMAIN result.a.at
        PROVE  HasA /\ ~job.colsys /\ job.rows > job.cols
    <3>1. MixedCell /\ IsMatrix(result.a)
          /\ result.a.rows = ARows /\ result.a.cols = job.cols
      BY <1>3, <1>4, <2>1 DEF Shaped
    <3>2. DOMAIN result.a.at = D
      BY <3>1 DEF IsMatrix
    <3>3. ~HasElementA(next)
      BY <1>4, <2>1, <3>1, <3>2
    <3>4. ~job.colsys /\ ~(next < job.cols * job.cols)
      BY <1>4, <2>1, <3>3 DEF HasElementA
    <3>5. next \in 0 .. job.rows * job.cols - 1
      BY <1>1 DEF Cells
    <3>6. job.rows = 2 /\ job.cols = 1 /\ next = 1
      <4>1. CASE job.cols = 1
        BY <1>3, <3>4, <3>5, <4>1
      <4>2. CASE job.cols = 2
        BY <1>3, <3>4, <3>5, <4>2
      <4> QED  BY <1>3, <4>1, <4>2
    <3>7. PICK c \in Cells : Mixed(c)
      BY <3>1 DEF MixedCell
    <3>8. Waves(c)
      <4>1. c \in 0..1
        BY <3>6 DEF Cells
      <4>2. CASE c = 1
        BY <1>4, <3>6, <4>2
      <4>3. CASE c = 0
        BY <1>3, <3>6, <3>7, <4>3 DEF ElementOK
      <4> QED  BY <4>1, <4>2, <4>3
    <3> QED  BY <3>4, <3>6, <3>7, <3>8, WavesMixed
  <2>2. overrun' => overrun \/ (HasA /\ ~job.colsys /\ job.rows > job.cols)
    BY <1>5, <2>1
  <2> QED  BY <1>2, <1>5, <2>2, TroubleFrame DEF Working, TroubleIsKnown
<1> QED  BY <1>13, <1>14, <1>15, <1>16, <1>17 DEF Working

\* Samples of two kinds in a cell are at least two, and the second of them is
\* not decoded as a vector of the first row's: a cell with v's or i's that is
\* solved has vectors of one kind.
LEMMA FitFacts ==
    ASSUME Working, pc = "solve", next \in Cells, KindsIn(next) \cap {"v", "i"} # {}
    PROVE  /\ ~Waves(next) /\ ~WavesOnly
           /\ Decoded(next) \subseteq 0..3 => ~Mixed(next)
           /\ cells[next] \subseteq Sample
<1>1. /\ JobInv /\ TakenInv /\ CellsInv /\ CoverInv /\ remaining = {}
  BY DEF Working, CoverInv
<1>2. PICK vec \in VectorsOf(next) : vec.kind \in {"v", "i"}
  BY <1>1, CellKinds
<1>3. ~Waves(next) /\ ~WavesOnly
  BY <1>2 DEF Waves, WavesOnly, VectorsOf, Needed
<1>4. /\ cells[next] \subseteq taken /\ cells[next] \subseteq Sample
      /\ \A s \in cells[next] : SampleVector(s) \in VectorsOf(next)
  BY <1>1, CellSamples DEF TakenInv
<1>5. ASSUME Mixed(next), Decoded(next) \subseteq 0..3 PROVE FALSE
  <2>1. PICK v, w \in VectorsOf(next) : v.kind # w.kind
    BY <1>5 DEF Mixed
  <2>2. v.kind \in KindsIn(next) /\ w.kind \in KindsIn(next)
    BY <1>1, <2>1, CellKinds
  <2>3. PICK s \in cells[next] : SampleVector(s).kind = v.kind
    BY <2>2 DEF KindsIn
  <2>4. PICK t \in cells[next] : SampleVector(t).kind = w.kind
    BY <2>2 DEF KindsIn
  <2>5. s # t
    BY <2>1, <2>3, <2>4
  <2>6. IsFiniteSet(cells[next])
    BY <1>1, <1>4, FS_Subset DEF TakenInv
  <2>7. Cardinality(cells[next]) \in Nat /\ Cardinality(cells[next]) >= 2
    <3>1. IsFiniteSet(cells[next] \ {s})
          /\ Cardinality(cells[next] \ {s}) = Cardinality(cells[next]) - 1
      BY <2>3, <2>6, FS_RemoveElement
    <3>2. t \in cells[next] \ {s}
      BY <2>4, <2>5
    <3>3. Cardinality(cells[next] \ {s}) \in Nat
          /\ Cardinality(cells[next] \ {s}) # 0
      BY <3>1, <3>2, FS_CardinalityType, FS_EmptySet
    <3>4. Cardinality(cells[next]) \in Nat
      BY <2>6, FS_CardinalityType
    <3> QED  BY <3>1, <3>3, <3>4
  <2> DEFINE Code0 == Code(SampleVector(s))
  <2>8. /\ VcTo11(Code0, 0, Col(next)) \in 0..3
        /\ VcTo11(Code0, 1, Col(next)) \in 0..3
    <3>1. 0 \in 0 .. Cardinality(cells[next]) - 1
          /\ 1 \in 0 .. Cardinality(cells[next]) - 1
      BY <2>7
    <3>2. VcTo11(Code0, 0, Col(next)) \in Decoded(next)
          /\ VcTo11(Code0, 1, Col(next)) \in Decoded(next)
      BY <2>3, <3>1 DEF Decoded
    <3> QED  BY <1>5, <3>2
  <2>9. Code0 \in Int /\ Col(next) \in Int
    <3>1. SampleVector(s) \in Vector
      BY <1>1, <1>4, <2>3, VectorFacts DEF VectorsOf, Needed
    <3>2. /\ SampleVector(s).row \in 1..2 /\ SampleVector(s).col \in 1..2
          /\ SampleVector(s).kind \in {"a", "b", "v", "i"}
      BY <3>1 DEF Vector, Kind
    <3>3. KindCode[SampleVector(s).kind] \in 0..3
      BY <3>2 DEF KindCode
    <3>4. Col(next) \in Int
      BY <1>1, CellFacts
    <3> QED  BY <3>2, <3>3, <3>4 DEF Code
  <2>10. /\ VcTo11(Code0, 0, Col(next)) = Code0 - 4 * Col(next)
         /\ VcTo11(Code0, 1, Col(next)) = Code0 - 4 * Col(next) - 8
    BY <2>9 DEF VcTo11
  <2> HIDE DEF Code0
  <2> QED  BY <2>8, <2>9, <2>10
<1> QED  BY <1>3, <1>4, <1>5

\* A cell with v's or i's is solved as a whole or stops the program.
LEMMA FitStep ==
    ASSUME Working, FitCell
    PROVE  Working'
<1>1. /\ pc = "solve" /\ next \in Cells /\ KindsIn(next) \cap {"v", "i"} # {}
      /\ UNCHANGED <<job, call, remaining, used, cells, first, given, taken, overrun>>
  BY DEF FitCell
<1>2. /\ UNCHANGED <<job, call, remaining, used, cells, taken>>
      /\ UNCHANGED job /\ UNCHANGED <<job, call>> /\ UNCHANGED <<job, call, taken>>
      /\ UNCHANGED <<job, call, first, taken>>
      /\ first' = first /\ given' = given /\ call' = call /\ overrun' = overrun
  BY <1>1
<1>3. /\ JobInv /\ TakenInv /\ remaining = {} /\ Shaped(result)
      /\ job.rows \in 1..2 /\ job.cols \in 1..2
      /\ \A c \in Cells : c < next => ElementOK(result, call, c)
  BY <1>1 DEF Working, CoverInv, ResultInv, SolvedTo, JobInv
<1>4. /\ ~Waves(next) /\ ~WavesOnly
      /\ Decoded(next) \subseteq 0..3 => ~Mixed(next)
      /\ cells[next] \subseteq Sample
  BY <1>1, FitFacts
<1>5. /\ JobInv' /\ TakenInv' /\ CellsInv' /\ CoverInv'
      /\ used' \subseteq MeasOf(su)'
  BY <1>2, <1>3, StillMeasured
<1>6. /\ IsMatrix(first'.a) /\ IsMatrix(first'.b)
      /\ IsMatrix(given'.a) /\ IsMatrix(given'.b)
      /\ overrun' \in BOOLEAN
      /\ IsMatrix(result.a) /\ IsMatrix(result.b)
      /\ next \in 0..4
  BY <1>2 DEF Working, FlowInv
<1>7. CASE Decoded(next) \subseteq 0..3
  <2>1. /\ pc' = "solve" /\ next' = next + 1
        /\ result'.a = result.a
        /\ result'.b = Put(result.b, next, Value("fit", cells[next]))
    BY <1>1, <1>7 DEF FitCell
  <2>2. /\ IsMatrix(result'.b)
        /\ result'.b.rows = job.rows /\ result'.b.cols = job.cols
        /\ \A j \in Cells : j # next => result'.b.at[j] = result.b.at[j]
    <3>1. Value("fit", cells[next]) \in ValueType
      BY <1>4, ValueTypes
    <3>2. result.b.rows = job.rows /\ result.b.cols = job.cols
      BY <1>3 DEF Shaped
    <3> QED  BY <1>6, <2>1, <3>1, <3>2, PutFacts DEF Cells
  <2>3. Shaped(result')
    BY <1>3, <2>1, <2>2 DEF Shaped, Unassigned
  <2>4. ASSUME NEW c \in Cells, c < next' PROVE ElementOK(result', call, c)
    <3>1. CASE c = next
      BY <1>4, <1>7, <3>1 DEF ElementOK
    <3>2. CASE c # next
      <4>1. c < next
        BY <1>1, <2>1, <2>4, <3>2 DEF Cells
      <4>2. ElementOK(result, call, c)
        BY <1>3, <4>1
      <4> QED  BY <2>1, <2>2, <3>2, <4>2 DEF ElementOK
    <3> QED  BY <3>1, <3>2
  <2>5. next' \in 0 .. job.rows * job.cols /\ next' \in 0..4
    <3>1. next \in 0 .. job.rows * job.cols - 1
      BY <1>1 DEF Cells
    <3>2. CASE job.cols = 1
      BY <1>3, <2>1, <3>1, <3>2
    <3>3. CASE job.cols = 2
      BY <1>3, <2>1, <3>1, <3>3
    <3> QED  BY <1>3, <3>2, <3>3
  <2>6. ResultInv'
    <3>1. SolvedTo(result, call, next)'
      BY <1>2, <2>3, <2>4, SolvedFrame
    <3>2. next' \in 0 .. job'.rows * job'.cols
      BY <1>2, <2>5
    <3> QED  BY <1>2, <3>1, <3>2, StillFirst DEF ResultInv
  <2>7. FlowInv'
    <3>1. pc' \in {"measure", "solve", "given", "aborted"} /\ IsMatrix(result'.a)
      BY <1>6, <2>1
    <3> QED  BY <1>2, <1>5, <1>6, <2>2, <2>5, <3>1, FlowFrom
  <2>8. ElementsAreMeasured' /\ DeviceIsMeasured'
    BY <2>1 DEF ElementsAreMeasured, DeviceIsMeasured
  <2>9. TroubleIsKnown'
    BY <1>2, <2>1, TroubleFrame DEF Working, TroubleIsKnown
  <2> QED  BY <1>5, <2>6, <2>7, <2>8, <2>9 DEF Working
<1>8. CASE ~(Decoded(next) \subseteq 0..3)
  <2>1. pc' = "aborted" /\ next' = next /\ result' = result
    BY <1>1, <1>8 DEF FitCell
  <2>2. ResultInv'
    BY <1>2, <2>1, StillFirst DEF ResultInv
  <2>3. FlowInv'
    <3>1. /\ pc' \in {"measure", "solve", "given", "aborted"} /\ next' \in 0..4
          /\ IsMatrix(result'.a) /\ IsMatrix(result'.b)
      BY <1>6, <2>1
    <3> QED  BY <1>2, <1>5, <1>6, <3>1, FlowFrom
  <2>4. ElementsAreMeasured' /\ DeviceIsMeasured'
    BY <2>1 DEF ElementsAreMeasured, DeviceIsMeasured
  <2>5. KnownTrouble
    BY <1>4 DEF KnownTrouble
  <2>6. TroubleIsKnown'
    BY <1>2, <2>5, TroubleFrame DEF Working, TroubleIsKnown
  <2> QED  BY <1>5, <2>2, <2>3, <2>4, <2>6 DEF Working
<1> QED  BY <1>7, <1>8

-----------------------------------------------------------------------------
(***************************************************************************)
(* Handing the matrices over.                                              *)
(***************************************************************************)
\* When every cell is solved and only waves were measured, the elements are
\* the averages of call n's samples.
LEMMA AllSolved ==
    ASSUME JobInv, WavesOnly, NEW m, NEW n, SolvedTo(m, n, job.rows * job.cols),
           NEW c \in Cells
    PROVE  /\ OfCall(n, "b", c) # {}
           /\ m.b.at[c] = Mean(OfCall(n, "b", c))
           /\ m.a # NoMatrix /\ HasElementA(c) => m.a.at[AIndex(c)] = AValue(n, c)
<1>1. c < job.rows * job.cols
  <2>1. job.rows \in 1..2 /\ job.cols \in 1..2
    BY DEF JobInv
  <2>2. c \in 0 .. job.rows * job.cols - 1
    BY DEF Cells
  <2>3. CASE job.cols = 1
    BY <2>1, <2>2, <2>3
  <2>4. CASE job.cols = 2
    BY <2>1, <2>2, <2>4
  <2> QED  BY <2>1, <2>3, <2>4
<1>2. ElementOK(m, n, c)
  BY <1>1 DEF SolvedTo
<1>3. Waves(c)
  BY DEF Waves, WavesOnly, VectorsOf, Needed
<1>4. m.a # NoMatrix => MixedCell
  BY DEF SolvedTo, Shaped
<1> QED  BY <1>2, <1>3, <1>4 DEF ElementOK

\* The loop over the cells has ended.
LEMMA SolvedAll ==
    ASSUME Working, Solved
    PROVE  /\ SolvedTo(result, call, job.rows * job.cols)
           /\ remaining = {}
<1>1. next \in 0 .. job.rows * job.cols /\ SolvedTo(result, call, next)
      /\ next \notin Cells /\ remaining = {}
      /\ job.rows \in 1..2 /\ job.cols \in 1..2
  BY DEF Working, ResultInv, CoverInv, Solved, JobInv
<1>2. next = job.rows * job.cols
  <2>1. next \notin 0 .. job.rows * job.cols - 1
    BY <1>1 DEF Cells
  <2>2. CASE job.cols = 1
    BY <1>1, <2>1, <2>2
  <2>3. CASE job.cols = 2
    BY <1>1, <2>1, <2>3
  <2> QED  BY <1>1, <2>2, <2>3
<1> QED  BY <1>1, <1>2

\* A step that hands over matrices, or stops at an assertion.
LEMMA GivenFrame ==
    ASSUME Working, pc = "solve", remaining = {},
           UNCHANGED <<job, call, remaining, used, cells, next, result, first,
                       taken, overrun>>,
           pc' \in {"given", "aborted"},
           pc' = "aborted" => KnownTrouble,
           IsMatrix(given'.a), IsMatrix(given'.b),
           ElementsAreMeasured', DeviceIsMeasured'
    PROVE  Working'
<1>1. /\ UNCHANGED <<job, call, remaining, used, cells, taken>>
      /\ UNCHANGED job /\ UNCHANGED <<job, call>>
      /\ UNCHANGED <<job, call, first, taken>>
      /\ first' = first /\ result' = result /\ overrun' = overrun
      /\ next' = next /\ call' = call /\ used' = used
  OBVIOUS
<1>2. /\ JobInv' /\ TakenInv' /\ CellsInv' /\ CoverInv'
      /\ used' \subseteq MeasOf(su)'
  BY <1>1, StillMeasured
<1>3. FlowInv'
  <2>1. /\ IsMatrix(first'.a) /\ IsMatrix(first'.b)
        /\ IsMatrix(result'.a) /\ IsMatrix(result'.b)
        /\ overrun' \in BOOLEAN /\ next' \in 0..4
    BY <1>1 DEF Working, FlowInv
  <2>2. pc' \in {"measure", "solve", "given", "aborted"}
    OBVIOUS
  <2> QED  BY <1>1, <1>2, <2>1, <2>2, FlowFrom
<1>4. ResultInv'
  BY <1>1, StillFirst DEF ResultInv
<1>5. TroubleIsKnown'
  BY <1>1, TroubleFrame DEF Working, TroubleIsKnown
<1> QED  BY <1>2, <1>3, <1>4, <1>5 DEF Working

\* The number of the cell at row r and column c.
LEMMA CellAt ==
    ASSUME JobInv, NEW r \in 1..job.rows, NEW c \in 1..job.cols
    PROVE  LET cell == job.cols * (r - 1) + c - 1
           IN  cell \in Cells /\ Row(cell) = r - 1 /\ Col(cell) = c - 1
<1>1. job.rows \in 1..2 /\ job.cols \in 1..2
  BY DEF JobInv
<1>2. r \in 1..2 /\ c \in 1..2
  BY <1>1
<1>3. CASE job.cols = 1
  BY <1>1, <1>2, <1>3 DEF Cells, Row, Col
<1>4. CASE job.cols = 2
  <2>1. CASE r = 1
    BY <1>1, <1>2, <1>4, <2>1 DEF Cells, Row, Col
  <2>2. CASE r = 2
    BY <1>1, <1>2, <1>4, <2>2 DEF Cells, Row, Col
  <2> QED  BY <1>2, <2>1, <2>2
<1> QED  BY <1>1, <1>3, <1>4

\* In a single call the samples of a vector are those of its kind in its cell.
LEMMA SamplesOfCell ==
    ASSUME JobInv, TakenInv, call = 1,
           NEW r \in 1..job.rows, NEW c \in 1..job.cols, NEW kind
    PROVE  SamplesOf(kind, r, c) = OfCall(1, kind, job.cols * (r - 1) + c - 1)
<1> DEFINE vec == [kind |-> kind, row |-> r, col |-> c]
           cell == job.cols * (r - 1) + c - 1
<1>1. ASSUME NEW s \in taken
      PROVE  (SampleVector(s) = vec)
               = (/\ s.call = 1 /\ SampleVector(s).kind = kind
                  /\ CellOf(SampleVector(s)) = cell)
  <2> DEFINE v == SampleVector(s)
  <2>1. s.call = 1
    BY DEF TakenInv, Sample
  <2>2. v \in InDims(job.rows, job.cols)
    BY DEF TakenInv, Needed
  <2>3. v = [kind |-> v.kind, row |-> v.row, col |-> v.col]
    BY <2>2 DEF InDims, Vector
  <2>4. (CellOf(v) = cell) = (v.row = r /\ v.col = c)
    BY <2>2, VectorIsItsCell
  <2> HIDE DEF v, cell
  <2>5. (v = vec) = (v.kind = kind /\ v.row = r /\ v.col = c)
    BY <2>3
  <2>6. (v = vec) = (s.call = 1 /\ v.kind = kind /\ CellOf(v) = cell)
    BY <2>1, <2>4, <2>5
  <2> QED  BY <2>6 DEF v, cell
<1>2. SamplesOf(kind, r, c) = {s \in taken : SampleVector(s) = vec}
  BY DEF SamplesOf
<1> HIDE DEF vec, cell
<1>3. SamplesOf(kind, r, c) = OfCall(1, kind, cell)
  BY <1>1, <1>2 DEF OfCall
<1> QED  BY <1>3 DEF cell

\* Where only waves are measured, a vector of A makes its cell a mixed one.
LEMMA HasAFact ==
    ASSUME JobInv, WavesOnly
    PROVE  HasA <=> MixedCell
<1>1. ASSUME MixedCell PROVE HasA
  <2>1. PICK c \in Cells : Mixed(c)
    BY <1>1 DEF MixedCell
  <2>2. Waves(c)
    BY DEF Waves, WavesOnly, VectorsOf, Needed
  <2> QED  BY <2>1, <2>2, WavesMixed
<1>2. ASSUME HasA PROVE MixedCell
  <2>1. PICK v \in Needed : v.kind = "a"
    BY <1>2 DEF HasA, Needed
  <2>2. CellOf(v) \in Cells /\ v \in VectorsOf(CellOf(v))
    BY VectorFacts DEF VectorsOf, Needed
  <2>3. PICK w \in VectorsOf(CellOf(v)) : w.kind # "a"
    BY <2>2, CellHasB
  <2> QED  BY <2>1, <2>2, <2>3 DEF Mixed, MixedCell
<1> QED  BY <1>1, <1>2

\* calibrate is given every element of its cell.
LEMMA HandOverStep ==
    ASSUME Working, HandOver
    PROVE  Working'
<1> DEFINE A == result.a
<1>1. /\ pc = "solve" /\ Solved /\ ~job.measure
      /\ given' = result /\ pc' = "given"
      /\ UNCHANGED <<job, call, remaining, used, cells, next, result, first,
                     taken, overrun>>
  BY DEF HandOver, Solved
<1>2. /\ JobInv /\ TakenInv /\ call = 1 /\ job.rows \in 1..2 /\ job.cols \in 1..2
      /\ IsMatrix(result.a) /\ IsMatrix(result.b)
      /\ job.colsys => job.cols <= job.rows
  BY <1>1 DEF Working, FlowInv, ResultInv, JobInv
<1>3. SolvedTo(result, 1, job.rows * job.cols) /\ remaining = {}
  BY <1>1, <1>2, SolvedAll
<1>4. UNCHANGED job /\ taken' = taken
  BY <1>1
<1>5. /\ MixedCell => A.rows = ARows /\ A.cols = job.cols
      /\ ~MixedCell => A.rows = 0 /\ A.cols = 0 /\ A = NoMatrix
      /\ Unassigned(result)
  BY <1>3 DEF SolvedTo, Shaped, NoMatrix
<1>6. ASSUME WavesOnly, NEW r \in 1..job.rows, NEW c \in 1..job.cols
      PROVE  LET cell == job.cols * (r - 1) + c - 1
             IN  /\ SamplesOf("b", r, c) # {}
                 /\ result.b.at[cell] = Mean(SamplesOf("b", r, c))
                 /\ MixedCell /\ (IF job.colsys THEN r = c ELSE r <= job.cols) =>
                      A.at[IF job.colsys THEN c - 1 ELSE cell] =
                        Sent(SamplesOf("a", r, c), r, c)
  <2> DEFINE cell == job.cols * (r - 1) + c - 1
  <2>1. cell \in Cells /\ Row(cell) = r - 1 /\ Col(cell) = c - 1
    BY <1>2, CellAt
  <2>2. \A kind : SamplesOf(kind, r, c) = OfCall(1, kind, cell)
    BY <1>2, SamplesOfCell
  <2>3. r \in 1..2 /\ c \in 1..2 /\ cell \in Int
    BY <1>2, <2>1 DEF Cells
  <2>4. ~job.colsys /\ r <= job.cols => cell < job.cols * job.cols
    <3>1. CASE job.cols = 1
      BY <2>3, <3>1
    <3>2. CASE job.cols = 2
      BY <2>3, <3>2
    <3> QED  BY <1>2, <3>1, <3>2
  <2>5. cell = job.cols * Row(cell) + Col(cell)
    BY <1>2, <2>1, CellFacts
  <2> HIDE DEF cell
  <2>6. /\ OfCall(1, "b", cell) # {}
        /\ result.b.at[cell] = Mean(OfCall(1, "b", cell))
        /\ A # NoMatrix /\ HasElementA(cell) => A.at[AIndex(cell)] = AValue(1, cell)
    BY <1>2, <1>3, <1>6, <2>1, AllSolved
  <2>7. MixedCell => A # NoMatrix
    <3>1. ARows \in 1..2
      BY <1>2 DEF ARows
    <3> QED  BY <1>5, <3>1 DEF NoMatrix
  <2>8. (IF job.colsys THEN r = c ELSE r <= job.cols) => HasElementA(cell)
    BY <2>1, <2>4 DEF HasElementA
  <2>9. AIndex(cell) = IF job.colsys THEN c - 1 ELSE cell
    BY <2>1, <2>5 DEF AIndex
  <2>10. AValue(1, cell) = Sent(OfCall(1, "a", cell), r, c)
    <3>1. Row(cell) = Col(cell) <=> r = c
      BY <2>1, <2>3
    <3> QED  BY <3>1 DEF AValue, Sent
  <2> QED  BY <2>2, <2>6, <2>7, <2>8, <2>9, <2>10 DEF cell
<1>7. ASSUME WavesOnly, NEW r \in 1..A.rows, NEW c \in 1..A.cols
      PROVE  LET i == IF job.colsys THEN c ELSE r
             IN  A.at[A.cols * (r - 1) + c - 1] =
                   IF i <= job.rows THEN Sent(SamplesOf("a", i, c), i, c) ELSE Null
  <2>1. MixedCell /\ A.rows = ARows /\ A.cols = job.cols
    BY <1>5
  <2>2. c \in 1..job.cols
    BY <2>1
  <2>3. CASE job.colsys
    <3>1. c \in 1..job.rows /\ r = 1 /\ c <= job.rows
      BY <1>2, <2>1, <2>2, <2>3 DEF ARows
    <3>2. A.at[c - 1] = Sent(SamplesOf("a", c, c), c, c)
      BY <1>6, <1>7, <2>1, <2>2, <2>3, <3>1
    <3>3. A.cols * (r - 1) + c - 1 = c - 1
      BY <1>2, <2>1, <2>2, <3>1
    <3> QED  BY <2>3, <3>1, <3>2, <3>3
  <2>4. CASE ~job.colsys
    <3>1. r \in 1..job.cols
      BY <2>1, <2>4 DEF ARows
    <3>2. CASE r <= job.rows
      <4>1. r \in 1..job.rows /\ r <= job.cols
        BY <1>2, <3>1, <3>2
      <4>2. A.at[job.cols * (r - 1) + c - 1] = Sent(SamplesOf("a", r, c), r, c)
        BY <1>6, <1>7, <2>1, <2>2, <2>4, <4>1
      <4> QED  BY <2>1, <2>4, <3>2, <4>2
    <3>3. CASE ~(r <= job.rows)
      <4>1. job.rows = 1 /\ job.cols = 2 /\ r = 2 /\ c \in 1..2
        BY <1>2, <2>2, <3>1, <3>3
      <4>2. A.cols * (r - 1) + c - 1 = c + 1 /\ c + 1 \in 0..3
            /\ c + 1 >= job.rows * job.cols /\ c + 1 < job.cols * job.cols
        BY <2>1, <4>1
      <4>3. A.at[c + 1] = Null
        BY <1>5, <2>1, <2>4, <4>2 DEF Unassigned
      <4> QED  BY <2>4, <3>3, <4>2, <4>3
    <3> QED  BY <3>2, <3>3
  <2> QED  BY <2>3, <2>4
<1>8. ElementsAreMeasured'
  <2>1. WavesOnly' = WavesOnly /\ HasA' = HasA /\ ARows' = ARows /\ Null' = Null
    BY <1>4, TroubleFrame, JobFrame DEF Null, Value
  <2>2. \A kind, r, c : SamplesOf(kind, r, c)' = SamplesOf(kind, r, c)
    BY <1>4, JobFrame DEF SamplesOf
  <2>3. WavesOnly =>
          <<A.rows, A.cols>> = IF HasA THEN <<ARows, job.cols>> ELSE <<0, 0>>
    BY <1>2, <1>5, HasAFact
  <2> QED  BY <1>1, <1>4, <1>6, <1>7, <2>1, <2>2, <2>3 DEF ElementsAreMeasured
<1>9. DeviceIsMeasured'
  BY <1>1, <1>4 DEF DeviceIsMeasured
<1> QED  BY <1>1, <1>2, <1>3, <1>8, <1>9, GivenFrame

-----------------------------------------------------------------------------
(***************************************************************************)
(* The device under test.                                                  *)
(***************************************************************************)
\* While the probes are where they are, port and probe are the same.
LEMMA ReceivedStraight ==
    ASSUME JobInv, TakenInv, call = 1 \/ (call = 2 /\ job.cols = 1),
           NEW i \in 1..job.rows, NEW j \in 1..job.cols, NEW kind
    PROVE  ReceivedAt(kind, i, j) = OfCall(1, kind, job.cols * (i - 1) + j - 1)
<1>1. ASSUME NEW s \in taken
      PROVE  (/\ SampleVector(s).kind = kind
              /\ PortOf(s.call, SampleVector(s).row) = i
              /\ PortOf(s.call, SampleVector(s).col) = j)
               = (/\ s.call = 1 /\ SampleVector(s).kind = kind
                  /\ CellOf(SampleVector(s)) = job.cols * (i - 1) + j - 1)
  <2> DEFINE v == SampleVector(s)
  <2>1. s.call \in 1..2 /\ s.call <= call /\ job.cols \in 1..2 /\ job.rows \in 1..2
    BY DEF TakenInv, Sample, JobInv
  <2>2. v \in InDims(job.rows, job.cols)
    BY DEF TakenInv, Needed
  <2>3. v.row \in 1..2 /\ v.col \in 1..2 /\ v.col <= job.cols
    BY <2>2 DEF InDims, Vector
  <2>4. (CellOf(v) = job.cols * (i - 1) + j - 1) = (v.row = i /\ v.col = j)
    BY <2>2, VectorIsItsCell
  <2> HIDE DEF v
  <2>5. CASE s.call = 1
    <3>1. PortOf(s.call, v.row) = v.row /\ PortOf(s.call, v.col) = v.col
      BY <2>5 DEF PortOf
    <3> QED  BY <2>4, <2>5, <3>1 DEF v
  <2>6. CASE s.call = 2
    <3>1. job.cols = 1 /\ j = 1 /\ v.col = 1
      BY <2>1, <2>3, <2>6
    <3>2. PortOf(s.call, v.col) = 2
      BY <2>6, <3>1 DEF PortOf
    <3> QED  BY <2>6, <3>1, <3>2 DEF v
  <2> QED  BY <2>1, <2>5, <2>6
<1> QED  BY <1>1 DEF ReceivedAt, OfCall

\* What came in while port 2 was driven, when there is one column: in the
\* second call, at the other probe.
LEMMA ReceivedTurned ==
    ASSUME JobInv, TakenInv, call \in 1..2, job.cols = 1, job.rows = 2,
           NEW i \in 1..2, NEW kind
    PROVE  ReceivedAt(kind, i, 2) = OfCall(2, kind, 2 - i)
<1>1. ASSUME NEW s \in taken
      PROVE  (/\ SampleVector(s).kind = kind
              /\ PortOf(s.call, SampleVector(s).row) = i
              /\ PortOf(s.call, SampleVector(s).col) = 2)
               = (/\ s.call = 2 /\ SampleVector(s).kind = kind
                  /\ CellOf(SampleVector(s)) = 2 - i)
  <2> DEFINE v == SampleVector(s)
  <2>1. s.call \in 1..2
    BY DEF TakenInv, Sample
  <2>2. v \in InDims(job.rows, job.cols)
    BY DEF TakenInv, Needed
  <2>3. v.row \in 1..2 /\ v.col = 1 /\ CellOf(v) = v.row - 1
    BY <2>2 DEF InDims, Vector, CellOf
  <2> HIDE DEF v
  <2>4. CASE s.call = 1
    <3>1. PortOf(s.call, v.col) = 1
      BY <2>3, <2>4 DEF PortOf
    <3> QED  BY <2>4, <3>1 DEF v
  <2>5. CASE s.call = 2
    <3>1. PortOf(s.call, v.col) = 2 /\ PortOf(s.call, v.row) = 3 - v.row
      BY <2>3, <2>5 DEF PortOf
    <3>2. (3 - v.row = i) = (CellOf(v) = 2 - i)
      BY <2>3
    <3> QED  BY <2>5, <3>1, <3>2 DEF v
  <2> QED  BY <2>1, <2>4, <2>5
<1> QED  BY <1>1 DEF ReceivedAt, OfCall

\* What DeviceIsMeasured asks of B, and of A.
ToldB(b) ==
    /\ b.cols = b.rows
    /\ b.rows = (IF job.rows > job.cols THEN job.rows ELSE job.cols)
    /\ \A i, j \in 1..b.rows :
         LET straight == ReceivedAt("b", i, j)
             turned   == ReceivedAt("b", 3 - i, 3 - j)
             B == b.at[b.rows * (i - 1) + j - 1]
         IN  /\ B.how = "mean" /\ B.of # {}
             /\ B.of = straight \/ (job.opt_y /\ B.of = straight \cup turned)
ToldA(a, n) ==
    a # NoMatrix =>
      /\ job.colsys /\ (job.opt_y => job.rows = job.cols) =>
           \A j \in 1..n : a.at[j - 1] = Sent(ReceivedAt("a", j, j), j, j)
      /\ ~job.colsys /\ job.rows = job.cols =>
           \A i, j \in 1..n :
             a.at[n * (i - 1) + j - 1] = Sent(ReceivedAt("a", i, j), i, j)

\* Matrices that satisfy both may be handed to libvna.
LEMMA DeviceGiven ==
    ASSUME NEW a, NEW b, given' = [a |-> a, b |-> b],
           UNCHANGED <<job, taken>>,
           WavesOnly => ToldB(b) /\ ToldA(a, b.rows)
    PROVE  DeviceIsMeasured'
<1>1. UNCHANGED job /\ taken' = taken /\ job' = job
  OBVIOUS
<1>2. WavesOnly' = WavesOnly
  BY <1>1, TroubleFrame
<1>3. \A kind, i, j : ReceivedAt(kind, i, j)' = ReceivedAt(kind, i, j)
  BY <1>1, JobFrame DEF ReceivedAt
<1>4. NoMatrix' = NoMatrix /\ given'.a = a /\ given'.b = b
  BY DEF NoMatrix
<1>5. ASSUME ToldB(b) PROVE ToldB(given.b)'
  BY ONLY <1>1, <1>3, <1>4, <1>5 DEF ToldB
<1>6. ASSUME ToldA(a, b.rows) PROVE ToldA(given.a, given.b.rows)'
  BY ONLY <1>1, <1>3, <1>4, <1>6 DEF ToldA, Sent, Mean, Value
<1>7. WavesOnly' => ToldB(given.b)' /\ ToldA(given.a, given.b.rows)'
  BY <1>2, <1>5, <1>6
<1>8. DeviceIsMeasured <=> (pc = "given" /\ job.measure /\ WavesOnly =>
                              ToldB(given.b) /\ ToldA(given.a, given.b.rows))
  BY DEF DeviceIsMeasured, ToldB, ToldA
<1> QED  BY ONLY <1>7 DEF DeviceIsMeasured, ToldB, ToldA

\* Squares of values are matrices.
LEMMA SquareFacts ==
    ASSUME NEW v \in ValueType, NEW w \in ValueType, NEW x \in ValueType,
           NEW y \in ValueType
    PROVE  LET m == Square(v, w, x, y)
           IN  /\ IsMatrix(m) /\ m.rows = 2 /\ m.cols = 2
               /\ m.at[0] = v /\ m.at[1] = w /\ m.at[2] = x /\ m.at[3] = y
<1>1. 0 .. 2 * 2 - 1 = 0..3
  OBVIOUS
<1> QED  BY <1>1 DEF Square, IsMatrix

\* The elements of a matrix are values.
LEMMA ElementType ==
    ASSUME NEW m, IsMatrix(m), NEW k \in 0 .. m.rows * m.cols - 1
    PROVE  m.at[k] \in ValueType
BY DEF IsMatrix

\* The mean across the diagonal is a value.
LEMMA BothType ==
    ASSUME NEW x \in ValueType, NEW y \in ValueType
    PROVE  Both(x, y) \in ValueType
<1>1. x.of \cup y.of \in SUBSET Sample
  BY DEF ValueType
<1> QED  BY <1>1, ValueTypes DEF Both

\* With -y the second column repeats the first, and the means of a square B
\* are taken across its diagonal.
LEMMA SymmetricFacts ==
    ASSUME Working, Solved, job.measure, ~Exchange
    PROVE  /\ IsMatrix(SymmetricB(result.b))
           /\ WavesOnly => ToldB(SymmetricB(result.b))
<1> DEFINE b == result.b
           R(i, j) == ReceivedAt("b", i, j)
<1>1. /\ JobInv /\ TakenInv /\ call = 1 /\ job.rows \in 1..2 /\ job.cols \in 1..2
      /\ IsMatrix(b) /\ <<job.rows, job.cols>> # <<1, 2>>
  BY DEF Working, FlowInv, ResultInv, JobInv
<1>2. SolvedTo(result, 1, job.rows * job.cols)
      /\ b.rows = job.rows /\ b.cols = job.cols
  BY <1>1, SolvedAll DEF SolvedTo, Shaped
<1>3. ASSUME WavesOnly, NEW i \in 1..job.rows, NEW j \in 1..job.cols
      PROVE  b.at[job.cols * (i - 1) + j - 1] = Mean(R(i, j)) /\ R(i, j) # {}
  <2>1. job.cols * (i - 1) + j - 1 \in Cells
    BY <1>1, CellAt
  <2> QED  BY <1>1, <1>2, <1>3, <2>1, AllSolved, ReceivedStraight
<1>4. \A S : Mean(S).how = "mean" /\ Mean(S).of = S
  BY DEF Mean, Value
<1> HIDE DEF b, R
<1>5. CASE job.rows = job.cols /\ ~(job.rows = 2 /\ job.opt_y /\ result.a = NoMatrix)
  <2>1. SymmetricB(b) = b
    BY <1>1, <1>2, <1>5 DEF SymmetricB
  <2>2. ASSUME WavesOnly, NEW i \in 1..b.rows, NEW j \in 1..b.rows
        PROVE  LET B == b.at[b.rows * (i - 1) + j - 1]
               IN  B.how = "mean" /\ B.of # {} /\ B.of = ReceivedAt("b", i, j)
    BY <1>2, <1>3, <1>4, <1>5, <2>2 DEF R
  <2>3. WavesOnly => ToldB(b)
    BY <1>1, <1>2, <1>5, <2>2 DEF ToldB
  <2> QED  BY <1>1, <2>1, <2>3 DEF b
<1>6. CASE job.rows = 2 /\ job.cols = 2 /\ job.opt_y /\ result.a = NoMatrix
  <2> DEFINE d == Both(b.at[0], b.at[3])
             o == Both(b.at[1], b.at[2])
  <2>1. SymmetricB(b) = Square(d, o, o, d)
    BY <1>2, <1>6 DEF SymmetricB
  <2>2. d \in ValueType /\ o \in ValueType
    BY <1>1, <1>2, <1>6, ElementType, BothType
  <2>3. ASSUME WavesOnly
        PROVE  /\ d = Mean(R(1, 1) \cup R(2, 2)) /\ o = Mean(R(1, 2) \cup R(2, 1))
               /\ R(1, 1) # {} /\ R(1, 2) # {}
    <3>1. /\ b.at[0] = Mean(R(1, 1)) /\ b.at[1] = Mean(R(1, 2))
          /\ b.at[2] = Mean(R(2, 1)) /\ b.at[3] = Mean(R(2, 2))
          /\ R(1, 1) # {} /\ R(1, 2) # {}
      <4>1. \A i \in 1..2, j \in 1..2 :
              b.at[2 * (i - 1) + j - 1] = Mean(R(i, j)) /\ R(i, j) # {}
        BY <1>3, <1>6, <2>3
      <4>2. /\ b.at[2 * (1 - 1) + 1 - 1] = Mean(R(1, 1)) /\ R(1, 1) # {}
            /\ b.at[2 * (1 - 1) + 2 - 1] = Mean(R(1, 2)) /\ R(1, 2) # {}
            /\ b.at[2 * (2 - 1) + 1 - 1] = Mean(R(2, 1))
            /\ b.at[2 * (2 - 1) + 2 - 1] = Mean(R(2, 2))
        BY <4>1
      <4> QED  BY <4>2
    <3> QED  BY <1>4, <3>1 DEF Both
  <2> HIDE DEF d, o
  <2> DEFINE m == Square(d, o, o, d)
  <2>4. /\ IsMatrix(m) /\ m.rows = 2 /\ m.cols = 2
        /\ m.at[0] = d /\ m.at[1] = o /\ m.at[2] = o /\ m.at[3] = d
    BY <2>2, SquareFacts
  <2> HIDE DEF m
  <2>5. ASSUME WavesOnly, NEW i \in 1..2, NEW j \in 1..2
        PROVE  LET B == m.at[2 * (i - 1) + j - 1]
               IN  /\ B.how = "mean" /\ B.of # {}
                   /\ B.of = ReceivedAt("b", i, j) \cup ReceivedAt("b", 3 - i, 3 - j)
    <3>1. CASE i = 1 /\ j = 1
      <4>1. m.at[2 * (i - 1) + j - 1] = d /\ 3 - i = 2 /\ 3 - j = 2
        BY <2>4, <3>1
      <4> QED  BY <1>4, <2>3, <2>5, <3>1, <4>1 DEF R
    <3>2. CASE i = 1 /\ j = 2
      <4>1. m.at[2 * (i - 1) + j - 1] = o /\ 3 - i = 2 /\ 3 - j = 1
        BY <2>4, <3>2
      <4> QED  BY <1>4, <2>3, <2>5, <3>2, <4>1 DEF R
    <3>3. CASE i = 2 /\ j = 1
      <4>1. m.at[2 * (i - 1) + j - 1] = o /\ 3 - i = 1 /\ 3 - j = 2
        BY <2>4, <3>3
      <4> QED  BY <1>4, <2>3, <2>5, <3>3, <4>1 DEF R
    <3>4. CASE i = 2 /\ j = 2
      <4>1. m.at[2 * (i - 1) + j - 1] = d /\ 3 - i = 1 /\ 3 - j = 1
        BY <2>4, <3>4
      <4> QED  BY <1>4, <2>3, <2>5, <3>4, <4>1 DEF R
    <3> QED  BY <3>1, <3>2, <3>3, <3>4
  <2>6. WavesOnly => ToldB(m)
    BY <1>6, <2>4, <2>5 DEF ToldB
  <2> QED  BY <2>1, <2>4, <2>6 DEF m, b
<1>7. CASE job.rows # job.cols
  <2>1. job.rows = 2 /\ job.cols = 1 /\ job.opt_y
    <3>1. job.opt_y \in BOOLEAN
      BY <1>1 DEF JobInv
    <3> QED  BY <1>1, <1>7, <3>1 DEF Exchange
  <2> DEFINE m == Square(b.at[0], b.at[1], b.at[1], b.at[0])
  <2>2. SymmetricB(b) = m
    BY <1>2, <2>1 DEF SymmetricB
  <2>3. b.at[0] \in ValueType /\ b.at[1] \in ValueType
    BY <1>1, <1>2, <2>1, ElementType
  <2>4. /\ IsMatrix(m) /\ m.rows = 2 /\ m.cols = 2
        /\ m.at[0] = b.at[0] /\ m.at[1] = b.at[1]
        /\ m.at[2] = b.at[1] /\ m.at[3] = b.at[0]
    BY <2>3, SquareFacts
  <2> HIDE DEF m
  <2>5. ASSUME WavesOnly
        PROVE  /\ b.at[0] = Mean(R(1, 1)) /\ R(1, 1) # {}
               /\ b.at[1] = Mean(R(2, 1)) /\ R(2, 1) # {}
    <3>1. \A i \in 1..2 : b.at[1 * (i - 1) + 1 - 1] = Mean(R(i, 1)) /\ R(i, 1) # {}
      BY <1>3, <2>1, <2>5
    <3>2. /\ b.at[1 * (1 - 1) + 1 - 1] = Mean(R(1, 1)) /\ R(1, 1) # {}
          /\ b.at[1 * (2 - 1) + 1 - 1] = Mean(R(2, 1)) /\ R(2, 1) # {}
      BY <3>1
    <3> QED  BY <3>2
  <2>6. \A i \in 1..2 : R(i, 2) = {}
    <3>1. \A i \in 1..2 : OfCall(2, "b", 2 - i) = {}
      BY <1>1 DEF OfCall, TakenInv, Sample
    <3> QED  BY <1>1, <2>1, <3>1, ReceivedTurned DEF R
  <2>7. ASSUME WavesOnly, NEW i \in 1..2, NEW j \in 1..2
        PROVE  LET B == m.at[2 * (i - 1) + j - 1]
               IN  /\ B.how = "mean" /\ B.of # {}
                   /\ B.of = ReceivedAt("b", i, j) \cup ReceivedAt("b", 3 - i, 3 - j)
    <3>1. CASE i = 1 /\ j = 1
      <4>1. m.at[2 * (i - 1) + j - 1] = b.at[0] /\ 3 - i = 2 /\ 3 - j = 2
        BY <2>4, <3>1
      <4> QED  BY <1>4, <2>5, <2>6, <2>7, <3>1, <4>1 DEF R
    <3>2. CASE i = 1 /\ j = 2
      <4>1. m.at[2 * (i - 1) + j - 1] = b.at[1] /\ 3 - i = 2 /\ 3 - j = 1
        BY <2>4, <3>2
      <4> QED  BY <1>4, <2>5, <2>6, <2>7, <3>2, <4>1 DEF R
    <3>3. CASE i = 2 /\ j = 1
      <4>1. m.at[2 * (i - 1) + j - 1] = b.at[1] /\ 3 - i = 1 /\ 3 - j = 2
        BY <2>4, <3>3
      <4> QED  BY <1>4, <2>5, <2>6, <2>7, <3>3, <4>1 DEF R
    <3>4. CASE i = 2 /\ j = 2
      <4>1. m.at[2 * (i - 1) + j - 1] = b.at[0] /\ 3 - i = 1 /\ 3 - j = 1
        BY <2>4, <3>4
      <4> QED  BY <1>4, <2>5, <2>6, <2>7, <3>4, <4>1 DEF R
    <3> QED  BY <3>1, <3>2, <3>3, <3>4
  <2>8. WavesOnly => ToldB(m)
    BY <2>1, <2>4, <2>7 DEF ToldB
  <2> QED  BY <2>2, <2>4, <2>8 DEF b
<1> QED  BY <1>1, <1>5, <1>6, <1>7

\* What was sent, where one call is enough.
LEMMA SentFacts ==
    ASSUME Working, Solved, job.measure, ~Exchange, WavesOnly, NEW n,
           n = (IF job.rows > job.cols THEN job.rows ELSE job.cols)
    PROVE  ToldA(result.a, n)
<1> DEFINE a == result.a
           R(i, j) == ReceivedAt("a", i, j)
<1>1. /\ JobInv /\ TakenInv /\ call = 1 /\ job.rows \in 1..2 /\ job.cols \in 1..2
  BY DEF Working, FlowInv, ResultInv, JobInv
<1>2. SolvedTo(result, 1, job.rows * job.cols)
  BY <1>1, SolvedAll
<1>3. ASSUME a # NoMatrix, job.rows = job.cols,
             NEW i \in 1..job.rows, NEW j \in 1..job.rows, job.colsys => i = j
      PROVE  a.at[IF job.colsys THEN j - 1 ELSE job.rows * (i - 1) + j - 1]
               = Sent(R(i, j), i, j)
  <2> DEFINE cell == job.cols * (i - 1) + j - 1
  <2>1. cell \in Cells /\ Row(cell) = i - 1 /\ Col(cell) = j - 1
    BY <1>1, <1>3, CellAt
  <2>2. R(i, j) = OfCall(1, "a", cell)
    BY <1>1, <1>3, ReceivedStraight
  <2>3. cell = job.rows * (i - 1) + j - 1 /\ i \in Int /\ j \in Int
    BY <1>3
  <2> HIDE DEF cell, R
  <2>4. HasElementA(cell)
    <3>1. CASE job.colsys
      BY <1>3, <2>1, <3>1 DEF HasElementA
    <3>2. CASE ~job.colsys
      <4>1. cell \in 0 .. job.cols * job.cols - 1
        BY <1>3, <2>1 DEF Cells
      <4>2. job.cols * job.cols \in Int
        BY <1>1
      <4> QED  BY <3>2, <4>1, <4>2 DEF HasElementA
    <3> QED  BY <3>1, <3>2
  <2>5. a.at[AIndex(cell)] = AValue(1, cell)
    BY <1>1, <1>2, <1>3, <2>1, <2>4, AllSolved
  <2>6. AIndex(cell) = IF job.colsys THEN j - 1 ELSE cell
    <3>1. cell = job.cols * Row(cell) + Col(cell)
      BY <1>1, <2>1, CellFacts
    <3> QED  BY <2>1, <3>1 DEF AIndex
  <2>7. AValue(1, cell) = Sent(R(i, j), i, j)
    <3>1. (Row(cell) = Col(cell)) = (i = j)
      BY <2>1, <2>3
    <3> QED  BY <2>2, <3>1 DEF AValue, Sent
  <2> QED  BY <2>3, <2>5, <2>6, <2>7
<1>4. ASSUME a # NoMatrix, job.colsys, job.opt_y => job.rows = job.cols,
             NEW j \in 1..n
      PROVE  a.at[j - 1] = Sent(ReceivedAt("a", j, j), j, j)
  <2>1. job.rows = job.cols /\ n = job.rows
    BY <1>4 DEF Exchange
  <2> QED  BY <1>3, <1>4, <2>1
<1>5. ASSUME a # NoMatrix, ~job.colsys, job.rows = job.cols,
             NEW i \in 1..n, NEW j \in 1..n
      PROVE  a.at[n * (i - 1) + j - 1] = Sent(ReceivedAt("a", i, j), i, j)
  BY <1>3, <1>5
<1> QED  BY <1>4, <1>5 DEF ToldA

\* measure is given the device's matrix after one call.
LEMMA ApplyOneStep ==
    ASSUME Working, ApplyOne
    PROVE  Working'
<1> DEFINE b == SymmetricB(result.b)
<1>1. /\ pc = "solve" /\ Solved /\ job.measure /\ ~Exchange
      /\ given' = [a |-> result.a, b |-> b] /\ pc' = "given"
      /\ UNCHANGED <<job, call, remaining, used, cells, next, result, first,
                     taken, overrun>>
  BY DEF ApplyOne, Solved
<1>2. IsMatrix(b) /\ (WavesOnly => ToldB(b))
  BY <1>1, SymmetricFacts
<1>3. WavesOnly => ToldA(result.a, b.rows)
  BY <1>1, <1>2, SentFacts DEF ToldB
<1> HIDE DEF b
<1>4. DeviceIsMeasured'
  BY <1>1, <1>2, <1>3, DeviceGiven
<1>5. ElementsAreMeasured'
  BY <1>1 DEF ElementsAreMeasured
<1>6. remaining = {} /\ IsMatrix(given'.a) /\ IsMatrix(given'.b)
  BY <1>1, <1>2 DEF Working, CoverInv, FlowInv
<1> QED  BY <1>1, <1>4, <1>5, <1>6, GivenFrame

\* The second call begins with the first result kept.
LEMMA SecondCallStep ==
    ASSUME Working, SecondCall
    PROVE  Working'
<1>1. /\ Solved /\ job.measure /\ Exchange /\ call = 1
      /\ first' = result /\ call' = 2 /\ pc' = "measure"
      /\ remaining' = Needed /\ used' = {} /\ cells' = [c \in Cells |-> {}]
      /\ job' = job /\ next' = next /\ result' = result /\ given' = given
      /\ taken' = taken /\ overrun' = overrun
  BY DEF SecondCall, Needed
<1>2. UNCHANGED job /\ UNCHANGED <<job, taken>>
  BY <1>1
<1>3. JobInv'
  BY <1>2, JobFrame DEF Working
<1>4. TakenInv'
  <2>1. IsFiniteSet(taken) /\ \A s \in taken :
             s \in Sample /\ SampleVector(s) \in Needed /\ s.call <= 2
    BY <1>1 DEF Working, TakenInv, Sample
  <2> QED  BY <1>1, <1>2, <2>1, JobFrame DEF TakenInv
<1>5. CellsInv'
  <2>1. \A s \in taken : s.call # 2
    BY <1>1 DEF Working, TakenInv, Sample
  <2>2. cells' = [c \in Cells |->
                    {s \in taken : s.call = 2 /\ CellOf(SampleVector(s)) = c}]
    BY <1>1, <2>1
  <2> QED  BY <1>1, <1>2, <2>2, JobFrame DEF CellsInv
<1>6. CoverInv'
  <2>1. \A vec \in Needed : Covered(1, vec)
    BY <1>1, SolvedAll DEF Working, CoverInv
  <2> QED  BY <1>1, <1>2, <2>1, JobFrame, SamplesFrame DEF CoverInv
<1>7. ResultInv'
  <2>1. SolvedTo(result, 1, job.rows * job.cols)
    BY <1>1, SolvedAll
  <2>2. Shaped(first)'
    BY <1>1, <1>2, <2>1, JobFrame
    DEF SolvedTo, Shaped, IsMatrix, Unassigned, Null, Value
  <2>3. \A c : ElementOK(first, 1, c)' = ElementOK(result, 1, c)
    <3> SUFFICES ASSUME NEW c PROVE ElementOK(first, 1, c)' = ElementOK(result, 1, c)
      OBVIOUS
    <3>1. /\ Waves(c)' = Waves(c) /\ Mixed(c)' = Mixed(c)
          /\ MixedCell' = MixedCell /\ HasElementA(c)' = HasElementA(c)
          /\ AIndex(c)' = AIndex(c) /\ AValue(1, c)' = AValue(1, c)
          /\ OfCall(1, "b", c)' = OfCall(1, "b", c)
      BY <1>2, JobFrame, SamplesFrame
    <3> QED  BY ONLY <1>1, <3>1 DEF ElementOK, Mean, Value
  <2>4. SolvedTo(first, 1, job.rows * job.cols)'
    BY <1>2, <2>1, <2>2, <2>3, JobFrame DEF SolvedTo
  <2>5. Exchange' = Exchange
    BY <1>2 DEF Exchange
  <2> QED  BY <1>1, <2>4, <2>5 DEF ResultInv
<1>8. FlowInv'
  <2>1. (\A r \in {result, first, given} : IsMatrix(r.a) /\ IsMatrix(r.b))'
    BY <1>1, <1>2, JobFrame DEF Working, FlowInv, IsMatrix
  <2>2. next' \in 0..4 /\ overrun' \in BOOLEAN
    BY <1>1 DEF Working, FlowInv
  <2> QED  BY <1>1, <2>1, <2>2 DEF FlowInv
<1>9. ElementsAreMeasured' /\ DeviceIsMeasured'
  BY <1>1 DEF ElementsAreMeasured, DeviceIsMeasured
<1>10. TroubleIsKnown'
  BY <1>1, <1>2, TroubleFrame DEF Working, TroubleIsKnown
<1> QED  BY <1>3, <1>4, <1>5, <1>6, <1>7, <1>8, <1>9, <1>10 DEF Working

\* With two calls the calibration is 2x1, and the matrices A of both are there
\* or neither is.
LEMMA TwoCallFacts ==
    ASSUME Working, Solved, job.measure, Exchange, call = 2
    PROVE  /\ JobInv /\ TakenInv /\ remaining = {}
           /\ job.rows = 2 /\ job.cols = 1
           /\ SolvedTo(first, 1, 2) /\ SolvedTo(result, 2, 2)
           /\ IsMatrix(first.a) /\ IsMatrix(first.b)
           /\ IsMatrix(result.a) /\ IsMatrix(result.b)
           /\ first.b.rows = 2 /\ first.b.cols = 1
           /\ result.b.rows = 2 /\ result.b.cols = 1
           /\ MixedCell => /\ first.a.rows = 1 /\ first.a.cols = 1
                           /\ result.a.rows = 1 /\ result.a.cols = 1
           /\ ~MixedCell => first.a = NoMatrix
           /\ MixedCell = (first.a # NoMatrix)
<1>1. /\ JobInv /\ TakenInv /\ remaining = {}
      /\ SolvedTo(result, 2, job.rows * job.cols)
      /\ SolvedTo(first, 1, job.rows * job.cols)
  BY SolvedAll DEF Working, ResultInv
<1>2. job.rows = 2 /\ job.cols = 1
  BY <1>1 DEF JobInv, Exchange
<1>3. job.rows * job.cols = 2 /\ ARows = 1
  BY <1>2 DEF ARows
<1>4. Shaped(first) /\ Shaped(result)
  BY <1>1 DEF SolvedTo
<1>5. MixedCell => first.a # NoMatrix
  <2>1. NoMatrix.rows = 0
    BY DEF NoMatrix
  <2> QED  BY <1>3, <1>4, <2>1 DEF Shaped
<1>6. SolvedTo(first, 1, 2) /\ SolvedTo(result, 2, 2)
  BY <1>1, <1>3
<1>7. ~MixedCell => first.a = NoMatrix
  BY <1>4 DEF Shaped
<1>8. MixedCell = (first.a # NoMatrix)
  <2>1. MixedCell \in BOOLEAN
    BY DEF MixedCell
  <2> QED  BY <1>5, <1>7, <2>1
<1>9. /\ IsMatrix(first.a) /\ IsMatrix(first.b)
      /\ IsMatrix(result.a) /\ IsMatrix(result.b)
      /\ first.b.rows = 2 /\ first.b.cols = 1
      /\ result.b.rows = 2 /\ result.b.cols = 1
      /\ MixedCell => /\ first.a.rows = 1 /\ first.a.cols = 1
                      /\ result.a.rows = 1 /\ result.a.cols = 1
  BY <1>2, <1>3, <1>4 DEF Shaped
<1> QED  BY <1>1, <1>2, <1>6, <1>7, <1>8, <1>9

\* The second result fills the second column of B, turned round.
LEMMA ExchangedFacts ==
    ASSUME Working, Solved, job.measure, Exchange, call = 2
    PROVE  /\ IsMatrix(ExchangedB)
           /\ WavesOnly => ToldB(ExchangedB)
<1> DEFINE v == first.b.at
           w == result.b.at
           R(i, j) == ReceivedAt("b", i, j)
           m == ExchangedB
<1>1. /\ JobInv /\ TakenInv /\ job.rows = 2 /\ job.cols = 1
      /\ SolvedTo(first, 1, job.rows * job.cols)
      /\ SolvedTo(result, 2, job.rows * job.cols)
      /\ IsMatrix(first.b) /\ IsMatrix(result.b)
      /\ first.b.rows = 2 /\ first.b.cols = 1
      /\ result.b.rows = 2 /\ result.b.cols = 1
  <2>1. job.rows = 2 /\ job.cols = 1
    BY TwoCallFacts
  <2>2. job.rows * job.cols = 2
    BY <2>1
  <2> QED  BY <2>1, <2>2, TwoCallFacts
<1>2. /\ v[0] \in ValueType /\ v[1] \in ValueType
      /\ w[0] \in ValueType /\ w[1] \in ValueType
  BY <1>1, ElementType
<1>3. /\ IsMatrix(m) /\ m.rows = 2 /\ m.cols = 2
      /\ m.at[0] = v[0] /\ m.at[1] = w[1] /\ m.at[2] = v[1] /\ m.at[3] = w[0]
  <2>1. m = Square(v[0], w[1], v[1], w[0])
    BY DEF ExchangedB
  <2>2. 0 .. 2 * 2 - 1 = 0..3
    OBVIOUS
  <2> HIDE DEF v, w, m
  <2> QED  BY <1>2, <2>1, <2>2 DEF Square, IsMatrix
<1>4. ASSUME WavesOnly
      PROVE  /\ v[0] = Mean(R(1, 1)) /\ R(1, 1) # {}
             /\ v[1] = Mean(R(2, 1)) /\ R(2, 1) # {}
             /\ w[1] = Mean(R(1, 2)) /\ R(1, 2) # {}
             /\ w[0] = Mean(R(2, 2)) /\ R(2, 2) # {}
  <2>1. 0 \in Cells /\ 1 \in Cells
    BY <1>1 DEF Cells
  <2>2. /\ v[0] = Mean(OfCall(1, "b", 0)) /\ OfCall(1, "b", 0) # {}
        /\ v[1] = Mean(OfCall(1, "b", 1)) /\ OfCall(1, "b", 1) # {}
        /\ w[0] = Mean(OfCall(2, "b", 0)) /\ OfCall(2, "b", 0) # {}
        /\ w[1] = Mean(OfCall(2, "b", 1)) /\ OfCall(2, "b", 1) # {}
    BY <1>1, <1>4, <2>1, AllSolved
  <2>3. R(1, 1) = OfCall(1, "b", 0) /\ R(2, 1) = OfCall(1, "b", 1)
    <3>1. \A i \in 1..2 : R(i, 1) = OfCall(1, "b", 1 * (i - 1) + 1 - 1)
      BY <1>1, ReceivedStraight
    <3>2. 1 * (1 - 1) + 1 - 1 = 0 /\ 1 * (2 - 1) + 1 - 1 = 1
      OBVIOUS
    <3> HIDE DEF R
    <3>3. /\ R(1, 1) = OfCall(1, "b", 1 * (1 - 1) + 1 - 1)
          /\ R(2, 1) = OfCall(1, "b", 1 * (2 - 1) + 1 - 1)
      BY <3>1
    <3> QED  BY <3>2, <3>3
  <2>4. R(1, 2) = OfCall(2, "b", 1) /\ R(2, 2) = OfCall(2, "b", 0)
    <3>1. \A i \in 1..2 : R(i, 2) = OfCall(2, "b", 2 - i)
      BY <1>1, ReceivedTurned
    <3>2. 2 - 1 = 1 /\ 2 - 2 = 0
      OBVIOUS
    <3> HIDE DEF R
    <3>3. R(1, 2) = OfCall(2, "b", 2 - 1) /\ R(2, 2) = OfCall(2, "b", 2 - 2)
      BY <3>1
    <3> QED  BY <3>2, <3>3
  <2> QED  BY <2>2, <2>3, <2>4
<1>5. \A S : Mean(S).how = "mean" /\ Mean(S).of = S
  BY DEF Mean, Value
<1> HIDE DEF m, R, v, w
<1>6. ASSUME WavesOnly, NEW i \in 1..2, NEW j \in 1..2
      PROVE  LET B == m.at[2 * (i - 1) + j - 1]
             IN  B.how = "mean" /\ B.of # {} /\ B.of = R(i, j)
  <2>1. CASE i = 1 /\ j = 1
    BY <1>3, <1>4, <1>5, <1>6, <2>1
  <2>2. CASE i = 1 /\ j = 2
    BY <1>3, <1>4, <1>5, <1>6, <2>2
  <2>3. CASE i = 2 /\ j = 1
    BY <1>3, <1>4, <1>5, <1>6, <2>3
  <2>4. CASE i = 2 /\ j = 2
    BY <1>3, <1>4, <1>5, <1>6, <2>4
  <2> QED  BY <2>1, <2>2, <2>3, <2>4
<1>7. WavesOnly => ToldB(m)
  BY <1>1, <1>3, <1>6 DEF ToldB, R
<1> QED  BY <1>3, <1>7 DEF m

\* In column systems A has what was sent into the driven port, call by call.
LEMMA ExchangedAFacts ==
    ASSUME Working, Solved, job.measure, Exchange, call = 2,
           first.a # NoMatrix
    PROVE  /\ IsMatrix(ExchangedA)
           /\ WavesOnly => ToldA(ExchangedA, 2)
<1> DEFINE x == first.a.at[0]
           y == result.a.at[0]
<1>1. /\ JobInv /\ TakenInv /\ job.rows = 2 /\ job.cols = 1
      /\ SolvedTo(first, 1, job.rows * job.cols)
      /\ SolvedTo(result, 2, job.rows * job.cols)
      /\ IsMatrix(first.a) /\ IsMatrix(result.a)
      /\ first.a.rows = 1 /\ first.a.cols = 1
      /\ result.a.rows = 1 /\ result.a.cols = 1
  <2>1. job.rows = 2 /\ job.cols = 1
    BY TwoCallFacts
  <2>2. job.rows * job.cols = 2
    BY <2>1
  <2> QED  BY <2>1, <2>2, TwoCallFacts
<1>2. x \in ValueType /\ y \in ValueType
  BY <1>1, ElementType
<1>3. /\ ExchangedA.at[0] = x /\ ExchangedA.at[1] = y
      /\ IsMatrix(ExchangedA)
  <2>1. 0 .. 1 * 2 - 1 = 0..1
    OBVIOUS
  <2> QED  BY <1>2, <2>1 DEF ExchangedA, IsMatrix
<1>4. ASSUME WavesOnly, job.colsys
      PROVE  /\ x = Sent(ReceivedAt("a", 1, 1), 1, 1)
             /\ y = Sent(ReceivedAt("a", 2, 2), 2, 2)
  <2>1. /\ 0 \in Cells /\ Row(0) = 0 /\ Col(0) = 0
    BY <1>1 DEF Cells, Row, Col
  <2>2. HasElementA(0) /\ AIndex(0) = 0
    BY <1>4, <2>1 DEF HasElementA, AIndex
  <2>3. result.a # NoMatrix
    BY <1>1 DEF NoMatrix
  <2>4. x = AValue(1, 0) /\ y = AValue(2, 0)
    BY <1>1, <1>4, <2>1, <2>2, <2>3, AllSolved
  <2>5. ReceivedAt("a", 1, 1) = OfCall(1, "a", 0)
    <3>1. ReceivedAt("a", 1, 1) = OfCall(1, "a", 1 * (1 - 1) + 1 - 1)
      BY <1>1, ReceivedStraight
    <3> QED  BY <3>1
  <2>6. ReceivedAt("a", 2, 2) = OfCall(2, "a", 0)
    <3>1. ReceivedAt("a", 2, 2) = OfCall(2, "a", 2 - 2)
      BY <1>1, ReceivedTurned
    <3> QED  BY <3>1
  <2> QED  BY <2>1, <2>4, <2>5, <2>6 DEF AValue, Sent
<1> HIDE DEF x, y
<1>5. ASSUME WavesOnly, job.colsys, NEW j \in 1..2
      PROVE  ExchangedA.at[j - 1] = Sent(ReceivedAt("a", j, j), j, j)
  <2>1. CASE j = 1
    BY <1>3, <1>4, <1>5, <2>1
  <2>2. CASE j = 2
    BY <1>3, <1>4, <1>5, <2>2
  <2> QED  BY <2>1, <2>2
<1> QED  BY <1>1, <1>3, <1>5 DEF ToldA

\* measure puts two calls together, or stops at its assertions.
LEMMA ApplyTwoStep ==
    ASSUME Working, ApplyTwo
    PROVE  Working'
<1>1. /\ pc = "solve" /\ Solved /\ job.measure /\ Exchange /\ call = 2
      /\ UNCHANGED <<job, call, remaining, used, cells, next, result, first,
                     taken, overrun>>
  BY DEF ApplyTwo, Solved
<1>2. /\ JobInv /\ remaining = {} /\ job.rows = 2 /\ job.cols = 1
      /\ IsMatrix(given.a) /\ IsMatrix(given.b)
  BY <1>1, TwoCallFacts DEF Working, FlowInv
<1>3. CASE first.a # NoMatrix /\ ~AssertsHold
  <2>1. pc' = "aborted" /\ given' = given
    BY <1>1, <1>3 DEF ApplyTwo
  <2>2. ~job.colsys
    <3>1. \A m \in {first.a, result.a} : m.rows = 1 /\ m.cols = 1
      BY <1>1, <1>3, TwoCallFacts
    <3> QED  BY <1>3, <3>1 DEF AssertsHold, AssertedA
  <2>3. ASSUME WavesOnly PROVE HasA
    <3>1. PICK c \in Cells : Mixed(c)
      BY <1>1, <1>3, TwoCallFacts DEF MixedCell
    <3>2. Waves(c)
      BY <2>3 DEF Waves, WavesOnly, VectorsOf, Needed
    <3> QED  BY <3>1, <3>2, WavesMixed
  <2>4. KnownTrouble
    BY <1>2, <2>2, <2>3 DEF KnownTrouble
  <2>5. ElementsAreMeasured' /\ DeviceIsMeasured'
    BY <2>1 DEF ElementsAreMeasured, DeviceIsMeasured
  <2> QED  BY <1>1, <1>2, <2>1, <2>4, <2>5, GivenFrame
<1>4. CASE first.a = NoMatrix \/ AssertsHold
  <2> DEFINE a == IF first.a = NoMatrix THEN NoMatrix ELSE ExchangedA
  <2>1. pc' = "given" /\ given' = [a |-> a, b |-> ExchangedB]
    BY <1>1, <1>4 DEF ApplyTwo
  <2>2. IsMatrix(ExchangedB) /\ (WavesOnly => ToldB(ExchangedB))
        /\ ExchangedB.rows = 2
    <3>1. ExchangedB.rows = 2
      BY DEF ExchangedB, Square
    <3> QED  BY <1>1, <3>1, ExchangedFacts
  <2>3. IsMatrix(a) /\ (WavesOnly => ToldA(a, 2))
    <3>1. CASE first.a = NoMatrix
      BY <3>1, NoMatrixType DEF ToldA
    <3>2. CASE first.a # NoMatrix
      BY <1>1, <3>2, ExchangedAFacts
    <3> QED  BY <3>1, <3>2
  <2> HIDE DEF a
  <2>4. DeviceIsMeasured'
    BY <1>1, <2>1, <2>2, <2>3, DeviceGiven
  <2>5. ElementsAreMeasured'
    BY <1>1, <2>1 DEF ElementsAreMeasured
  <2>6. IsMatrix(given'.a) /\ IsMatrix(given'.b)
    BY <2>1, <2>2, <2>3
  <2> QED  BY <1>1, <1>2, <2>1, <2>4, <2>5, <2>6, GivenFrame
<1> QED  BY <1>3, <1>4

-----------------------------------------------------------------------------
(***************************************************************************)
(* The invariant and the properties.                                       *)
(***************************************************************************)
\* A stuttering step changes nothing the invariant speaks of.
LEMMA WorkingStays ==
    ASSUME Working, UNCHANGED vars
    PROVE  Working'
<1>1. /\ UNCHANGED job /\ UNCHANGED <<job, call>> /\ UNCHANGED <<job, taken>>
      /\ UNCHANGED <<job, call, first, taken>> /\ UNCHANGED <<job, call, taken>>
      /\ pc' = pc /\ call' = call /\ next' = next /\ overrun' = overrun
      /\ used' = used /\ remaining' = remaining /\ cells' = cells
      /\ taken' = taken /\ result' = result /\ first' = first /\ given' = given
  BY DEF vars
<1>2. JobInv' /\ TakenInv' /\ CellsInv' /\ CoverInv'
  BY <1>1, JobFrame, SamplesFrame DEF Working, TakenInv, CellsInv, CoverInv
<1>3. ResultInv'
  <2>1. ASSUME pc = "solve"
        PROVE  SolvedTo(result, call, next)'
    <3>1. Shaped(result) /\ \A c \in Cells : c < next => ElementOK(result, call, c)
      BY <2>1 DEF Working, ResultInv, SolvedTo
    <3> QED  BY <1>1, <3>1, SolvedFrame
  <2> QED  BY <1>1, <2>1, StillFirst DEF Working, ResultInv
<1>4. FlowInv'
  <2>1. used' \subseteq MeasOf(su)'
    BY <1>1, JobFrame DEF Working, FlowInv
  <2>2. /\ IsMatrix(first'.a) /\ IsMatrix(first'.b)
        /\ IsMatrix(given'.a) /\ IsMatrix(given'.b)
        /\ IsMatrix(result'.a) /\ IsMatrix(result'.b)
        /\ pc' \in {"measure", "solve", "given", "aborted"}
        /\ next' \in 0..4 /\ overrun' \in BOOLEAN
    BY <1>1 DEF Working, FlowInv
  <2> QED  BY <1>1, <2>1, <2>2, FlowFrom
<1>5. ElementsAreMeasured'
  <2>1. WavesOnly' = WavesOnly /\ HasA' = HasA /\ ARows' = ARows /\ Null' = Null
    BY <1>1, TroubleFrame, JobFrame DEF Null, Value
  <2>2. \A kind, r, c : SamplesOf(kind, r, c)' = SamplesOf(kind, r, c)
    BY <1>1, JobFrame DEF SamplesOf
  <2> QED  BY <1>1, <2>1, <2>2 DEF Working, ElementsAreMeasured
<1>6. DeviceIsMeasured'
  <2>1. WavesOnly' = WavesOnly /\ NoMatrix' = NoMatrix
    BY <1>1, TroubleFrame DEF NoMatrix
  <2>2. \A kind, i, j : ReceivedAt(kind, i, j)' = ReceivedAt(kind, i, j)
    BY <1>1, JobFrame DEF ReceivedAt
  <2> QED  BY <1>1, <2>1, <2>2 DEF Working, DeviceIsMeasured
<1>7. TroubleIsKnown'
  BY <1>1, TroubleFrame DEF Working, TroubleIsKnown
<1> QED  BY <1>2, <1>3, <1>4, <1>5, <1>6, <1>7 DEF Working

\* Every step of the program keeps the invariant.
LEMMA InvStep ==
    ASSUME Inv, [Next]_vars
    PROVE  Inv'
<1>1. CASE Idle
  <2>1. ASSUME NEW s \in Setup, NEW rows \in 1..2, NEW cols \in 1..2,
               NEW colsys \in BOOLEAN, NEW measure \in BOOLEAN, NEW opt_y \in BOOLEAN,
               Begin(s, rows, cols, colsys, measure, opt_y)
        PROVE  Working'
    BY <1>1, <2>1, BeginStep
  <2>2. CASE UNCHANGED vars
    BY <1>1, <2>2 DEF Idle, Inv, vars, NoJob
  <2>3. pc = "idle"
    BY <1>1 DEF Idle
  <2> QED
    BY <2>1, <2>2, <2>3
    DEF Next, StartSolve, AverageCell, FitCell, HandOver, ApplyOne, SecondCall,
        ApplyTwo, Done, Solved, Inv
<1>2. CASE Working
  <2>1. pc \in {"measure", "solve", "given", "aborted"}
    BY <1>2 DEF Working, FlowInv
  <2>2. CASE Done
    BY <2>2 DEF Done, Inv, Idle, NoJob
  <2>3. CASE UNCHANGED vars
    BY <1>2, <2>3, WorkingStays DEF Inv
  <2>4. CASE pc = "measure" /\ \E m \in MeasOf(su) : Add(m)
    BY <1>2, <2>4, AddStep DEF Inv
  <2>5. CASE StartSolve \/ AverageCell \/ FitCell
    BY <1>2, <2>5, StartSolveStep, AverageStep, FitStep DEF Inv
  <2>6. CASE HandOver \/ ApplyOne \/ SecondCall \/ ApplyTwo
    BY <1>2, <2>6, HandOverStep, ApplyOneStep, SecondCallStep, ApplyTwoStep DEF Inv
  <2> QED  BY <2>1, <2>2, <2>3, <2>4, <2>5, <2>6 DEF Next, Begin
<1> QED  BY <1>1, <1>2 DEF Inv

\* The inductive invariant: no step of measuring, solving or handing over
\* loses track of where a sample belongs.
THEOREM Invariance == Spec => []Inv
<1>1. Init => Inv
  BY DEF Init, Inv, Idle
<1>2. Inv /\ [Next]_vars => Inv'
  BY InvStep
<1> QED  BY <1>1, <1>2, PTL DEF Spec

\* The types of the measurement matrix and of what is made of it, for any
\* accepted setups: a matrix never has fewer elements than its dimensions say.
THEOREM TypeCorrect == Spec => []TypeOK
<1>1. Inv => TypeOK
  BY TypeFromInv
<1> QED  BY <1>1, Invariance, PTL

\* calibrate hands libvna, in every element of B, the average of all samples of
\* that element's own vector and of nothing else.  It hands over a matrix A
\* exactly if a vector of A is measured, with averages likewise and the identity
\* where nothing was measured, but for the second row of A of a calibration with
\* one row and two columns, which is never assigned.
THEOREM ElementsCorrect == Spec => []ElementsAreMeasured
<1>1. Inv => ElementsAreMeasured
  BY DEF Inv, Working, Idle, ElementsAreMeasured
<1> QED  BY <1>1, Invariance, PTL

\* measure hands libvna the device's matrix, also when the probes were
\* exchanged between two calls or -y completes the missing column.
THEOREM DeviceCorrect == Spec => []DeviceIsMeasured
<1>1. Inv => DeviceIsMeasured
  BY DEF Inv, Working, Idle, DeviceIsMeasured
<1> QED  BY <1>1, Invariance, PTL

\* Nothing else than voltages, currents or an A that is neither square nor of a
\* column system ends in an assertion or writes outside a matrix.
THEOREM TroubleCorrect == Spec => []TroubleIsKnown
<1>1. Inv => TroubleIsKnown
  BY DEF Inv, Working, Idle, TroubleIsKnown
<1> QED  BY <1>1, Invariance, PTL
===============================================================================
