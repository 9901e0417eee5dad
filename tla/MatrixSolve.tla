------------------------------ MODULE MatrixSolve ------------------------------
(***************************************************************************)
(* From scanned vectors to the matrices libvna is given: the measurement   *)
(* matrix of measurement.c (measurement_matrix_add and _solve) and the way *)
(* calibrate.c and measure.c use its result.                               *)
(*                                                                         *)
(* A scanned vector is a Sample: which call of make_measurements, which    *)
(* measurement, which detector.  The arithmetic is abstracted to which     *)
(* samples a value was computed from; the flat indices into the matrices   *)
(* and the decoding of vector codes are kept.                              *)
(***************************************************************************)
EXTENDS Setups

CONSTANTS Setup, SetupDef \* the setups, as in Measurements

ASSUME SetupAssumption == \A s \in Setup : Accepted(SetupDef[s])

VARIABLES
    job,       \* the command's setup, dimensions and kind of calibration
    pc,        \* where the program is
    call,      \* which call of make_measurements this is, 1 or 2
    remaining, \* remaining_mask
    used,      \* measurements made in this call
    cells,     \* mm_matrix: the samples in each cell
    next,      \* the cell the main loop of measurement_matrix_solve is at
    result,    \* mr or mr2: the matrices being filled
    first,     \* mr1: the result of the first of two calls
    given,     \* the matrices handed to libvna
    taken,     \* history: every sample added to a matrix by this command
    overrun    \* history: an element outside a matrix was written

vars == <<job, pc, call, remaining, used, cells, next, result, first, given,
          taken, overrun>>

-----------------------------------------------------------------------------
(***************************************************************************)
(* Vector codes (measurement.h).                                           *)
(***************************************************************************)
KindCode == [a |-> 0, b |-> 1, v |-> 2, i |-> 3]
Code(vec) == KindCode[vec.kind] + 8 * (vec.row - 1) + 4 * (vec.col - 1)

\* VC_TO_11, with the row and column the macro's caller has in scope.
VcTo11(code, row, column) == code - 4 * (2 * row + column)

(***************************************************************************)
(* Samples, values and matrices.  A matrix is a function from the indices  *)
(* of its array; Null is an element never assigned, a "mean" the average   *)
(* of its samples, "one" and "zero" the values assumed of a matrix A that  *)
(* was not measured, and "fit" an incident or reflected wave solved for.   *)
(***************************************************************************)
su == SetupDef[job.setup]
Cells == 0 .. job.rows * job.cols - 1
Row(cell) == cell \div job.cols
Col(cell) == cell % job.cols

SampleVector(s) == Detectors(su, s.meas)[s.det]
Value(how, of) == [how |-> how, of |-> of]
Null == Value("null", {})
Mean(S) == Value("mean", S)

NoMatrix == [rows |-> 0, cols |-> 0, at |-> <<>>]
\* Mutant: the number of rows is used for both dimensions.
AllocateRows(rows, cols) ==
    [rows |-> rows, cols |-> cols, at |-> [k \in 0 .. rows * rows - 1 |-> Null]]
Allocate(rows, cols) ==
    [rows |-> rows, cols |-> cols, at |-> [k \in 0 .. rows * cols - 1 |-> Null]]
\* An assignment to element k: outside the array it changes nothing that is
\* ever read as part of the matrix.
Put(m, k, value) ==
    IF k \in DOMAIN m.at THEN [m EXCEPT !.at[k] = value] ELSE m

NoResult == [a |-> NoMatrix, b |-> NoMatrix]
NoJob == [setup |-> "none", rows |-> 0, cols |-> 0, colsys |-> FALSE,
          measure |-> FALSE, opt_y |-> FALSE]

(***************************************************************************)
(* The calibration types with column systems (E12 and UE14) have at least  *)
(* as many rows as columns: libvna refuses the others (external).          *)
(***************************************************************************)
TypeAllows(colsys, rows, cols) == colsys => rows >= cols

Init ==
    /\ job = NoJob /\ pc = "idle" /\ call = 1
    /\ remaining = {} /\ used = {} /\ cells = <<>> /\ next = 0
    /\ result = NoResult /\ first = NoResult /\ given = NoResult
    /\ taken = {} /\ overrun = FALSE

-----------------------------------------------------------------------------
(***************************************************************************)
(* A command gets past its checks and starts measuring.  A calibration has *)
(* the dimensions of its setup; measure, whose calibration may be smaller  *)
(* than the setup in its file, refuses 1x2 (measure.c:228).                *)
(***************************************************************************)
Begin(s, rows, cols, colsys, measure, opt_y) ==
    /\ pc = "idle"
    /\ IF measure
       THEN /\ <<rows, cols>> # <<1, 2>>
            /\ rows <= SetupDef[s].rows /\ cols <= SetupDef[s].cols
       ELSE rows = SetupDef[s].rows /\ cols = SetupDef[s].cols
    /\ TypeAllows(colsys, rows, cols)
    /\ opt_y => measure
    /\ job' = [setup |-> s, rows |-> rows, cols |-> cols, colsys |-> colsys,
               measure |-> measure, opt_y |-> opt_y]
    /\ pc' = "measure" /\ call' = 1
    /\ remaining' = SuMask(SetupDef[s]) \cap InDims(rows, cols)
    /\ used' = {} /\ cells' = [c \in 0 .. rows * cols - 1 |-> {}]
    /\ result' = NoResult /\ first' = NoResult /\ given' = NoResult
    /\ taken' = {} /\ overrun' = FALSE
    /\ UNCHANGED next

(***************************************************************************)
(* One round of the loop of make_measurements: any measurement that still  *)
(* has a vector to give (Measurements models which of them is chosen), and *)
(* measurement_matrix_add of what its detectors saw.                       *)
(***************************************************************************)
\* Mutant: the cells are numbered column by column.
CellByColumn(vec) == job.rows * (vec.col - 1) + (vec.row - 1)
\* Flat index of the cell a vector belongs to.
CellOf(vec) == job.cols * (vec.row - 1) + (vec.col - 1)

\* The samples of measurement m that are not skipped.
Kept(m) ==
    {s \in [call : {call}, meas : {m}, det : 1..2] :
        SampleVector(s) # NoVector
        /\ SampleVector(s) \in InDims(job.rows, job.cols)}

Add(m) ==
    /\ m \notin used /\ Mask(su, m) \cap remaining # {}
    /\ cells' = [c \in Cells |->
                    cells[c] \cup {s \in Kept(m) : CellOf(SampleVector(s)) = c}]
    /\ taken' = taken \cup Kept(m)
    /\ used' = used \cup {m}
    /\ remaining' = remaining \ Mask(su, m)
    /\ UNCHANGED <<job, pc, call, next, result, first, given, overrun>>

-----------------------------------------------------------------------------
(***************************************************************************)
(* measurement_matrix_solve.                                               *)
(***************************************************************************)
KindsIn(cell) == {SampleVector(s).kind : s \in cells[cell]}
OfKind(kind, cell) == {s \in cells[cell] : SampleVector(s).kind = kind}

\* A is needed when some cell has samples of different kinds.
NeedsA == \E c \in Cells : \E k, l \in KindsIn(c) : k # l

ARows == IF job.colsys THEN 1 ELSE job.cols

StartSolve ==
    /\ pc = "measure" /\ remaining = {}
    /\ pc' = "solve" /\ next' = 0
    /\ result' = [a |-> IF NeedsA THEN Allocate(ARows, job.cols) ELSE NoMatrix,
                  b |-> Allocate(job.rows, job.cols)]
    /\ UNCHANGED <<job, call, remaining, used, cells, first, given, taken,
                   overrun>>

\* The vector of A for a cell of a's and b's; Null: none.
AVector(cell) ==
    LET row == Row(cell)
        col == Col(cell)
    IN  IF OfKind("a", cell) # {} THEN Mean(OfKind("a", cell))
        ELSE IF NeedsA /\ (row = col \/ ~job.colsys)
        THEN Value(IF row = col THEN "one" ELSE "zero", {})
        ELSE Null

\* Mutant: column systems have a full matrix A.
AIndexOfSquare(cell) == job.cols * Row(cell) + Col(cell)
\* Where it is put in A: column systems keep the diagonal only.
AIndex(cell) ==
    IF job.colsys THEN Col(cell) ELSE job.cols * Row(cell) + Col(cell)
\* Mutant: a vector of A that was not measured is left unassigned.
KeepsMeasuredA(cell) ==
    OfKind("a", cell) # {} /\ (job.colsys => Row(cell) = Col(cell))
KeepsA(cell) ==
    AVector(cell) # Null /\ (job.colsys => Row(cell) = Col(cell))

(***************************************************************************)
(* A cell with neither v's nor i's: average the a's and the b's.  The      *)
(* assertion b_count > 0 aborts the program.                               *)
(***************************************************************************)
AverageCell ==
    /\ pc = "solve" /\ next \in Cells
    /\ KindsIn(next) \cap {"v", "i"} = {}
    /\ IF OfKind("b", next) = {}
       THEN pc' = "aborted" /\ UNCHANGED <<next, result, overrun>>
       ELSE /\ result' =
                  [a |-> IF KeepsA(next)
                         THEN Put(result.a, AIndex(next), AVector(next))
                         ELSE result.a,
                   b |-> Put(result.b, next, Mean(OfKind("b", next)))]
            /\ overrun' = (overrun \/ (KeepsA(next)
                                       /\ AIndex(next) \notin DOMAIN result.a.at))
            /\ next' = next + 1
            /\ UNCHANGED pc
    /\ UNCHANGED <<job, call, remaining, used, cells, first, given, taken>>

(***************************************************************************)
(* A cell with v's or i's, of one kind or of several.  The counter of the  *)
(* samples is declared as "row" and hides the row of the cell, so the n-th *)
(* sample's code is decoded as if it belonged to row n: unless the result  *)
(* is one of the four codes of the first cell, the program aborts.  A cell *)
(* with two kinds has two samples and never gets past the decoding.        *)
(***************************************************************************)
Decoded(cell) ==
    {VcTo11(Code(SampleVector(s)), n, Col(cell)) :
        s \in cells[cell], n \in 0 .. Cardinality(cells[cell]) - 1}

FitCell ==
    /\ pc = "solve" /\ next \in Cells
    /\ KindsIn(next) \cap {"v", "i"} # {}
    /\ IF Decoded(next) \subseteq 0..3
       THEN /\ result' = [a |-> result.a,
                          b |-> Put(result.b, next, Value("fit", cells[next]))]
            /\ next' = next + 1
            /\ UNCHANGED pc
       ELSE pc' = "aborted" /\ UNCHANGED <<next, result>>
    /\ UNCHANGED <<job, call, remaining, used, cells, first, given, taken,
                   overrun>>

-----------------------------------------------------------------------------
(***************************************************************************)
(* calibrate passes the result on as it is, for each of its steps.         *)
(***************************************************************************)
Solved == pc = "solve" /\ next \notin Cells

HandOver ==
    /\ Solved /\ ~job.measure
    /\ given' = result
    /\ pc' = "given"
    /\ UNCHANGED <<job, call, remaining, used, cells, next, result, first,
                   taken, overrun>>

(***************************************************************************)
(* measure makes square matrices of it.  One call suffices for a square    *)
(* calibration, or with -y, when the device is taken to be symmetrical:    *)
(* the missing column then repeats the other.                              *)
(***************************************************************************)
Exchange == job.rows # job.cols /\ ~job.opt_y
Square(a00, a01, a10, a11) ==
    [rows |-> 2, cols |-> 2,
     at |-> [k \in 0..3 |-> CASE k = 0 -> a00 [] k = 1 -> a01
                              [] k = 2 -> a10 [] k = 3 -> a11]]
Both(x, y) == Mean(x.of \cup y.of)

SymmetricB(b) ==
    IF b.rows = 2 /\ b.cols = 2
    THEN IF job.opt_y /\ result.a = NoMatrix
         THEN Square(Both(b.at[0], b.at[3]), Both(b.at[1], b.at[2]),
                     Both(b.at[1], b.at[2]), Both(b.at[0], b.at[3]))
         ELSE b
    ELSE IF b.rows = b.cols THEN b
    ELSE Square(b.at[0], b.at[1], b.at[1], b.at[0])

ApplyOne ==
    /\ Solved /\ job.measure /\ ~Exchange
    /\ given' = [a |-> result.a, b |-> SymmetricB(result.b)]
    /\ pc' = "given"
    /\ UNCHANGED <<job, call, remaining, used, cells, next, result, first,
                   taken, overrun>>

(***************************************************************************)
(* Otherwise the probes are exchanged and measured again, and the second   *)
(* result fills the other column, turned round.  (The code for 1x2 is not  *)
(* reached.)                                                               *)
(***************************************************************************)
SecondCall ==
    /\ Solved /\ job.measure /\ Exchange /\ call = 1
    /\ first' = result /\ call' = 2
    /\ pc' = "measure"
    /\ remaining' = SuMask(su) \cap InDims(job.rows, job.cols)
    /\ used' = {} /\ cells' = [c \in Cells |-> {}]
    /\ UNCHANGED <<job, next, result, given, taken, overrun>>

\* Mutant: the second column is not turned round.
StraightB == Square(first.b.at[0], result.b.at[0], first.b.at[1], result.b.at[1])
ExchangedB == Square(first.b.at[0], result.b.at[1], first.b.at[1], result.b.at[0])

\* Mutant: the assertion expects two columns.
AssertedSquareA == <<job.cols, 2>>
\* The dimensions that measure asserts of both matrices A.
AssertedA ==
    IF job.colsys THEN <<1, 1>> ELSE <<job.rows, job.cols>>
AssertsHold ==
    \A m \in {first.a, result.a} : <<m.rows, m.cols>> = AssertedA

ExchangedA ==
    [rows |-> 1, cols |-> 2,
     at |-> [k \in 0..1 |-> IF k = 0 THEN first.a.at[0] ELSE result.a.at[0]]]

(***************************************************************************)
(* The assertions hold only for column systems: the matrix A of a 2x1      *)
(* calibration is otherwise 1x1, and measure expects 2x1.  So only their   *)
(* assembly is here.                                                       *)
(***************************************************************************)
ApplyTwo ==
    /\ Solved /\ job.measure /\ Exchange /\ call = 2
    /\ IF first.a # NoMatrix /\ ~AssertsHold
       THEN pc' = "aborted" /\ UNCHANGED given
       ELSE /\ given' = [a |-> IF first.a = NoMatrix THEN NoMatrix ELSE ExchangedA,
                         b |-> ExchangedB]
            /\ pc' = "given"
    /\ UNCHANGED <<job, call, remaining, used, cells, next, result, first,
                   taken, overrun>>

\* The result is freed and the next calibration step or command follows, or
\* the program is started again.
Done ==
    /\ pc \in {"given", "aborted"}
    /\ pc' = "idle" /\ job' = NoJob /\ call' = 1
    /\ remaining' = {} /\ used' = {} /\ cells' = <<>> /\ next' = 0
    /\ result' = NoResult /\ first' = NoResult /\ given' = NoResult
    /\ taken' = {} /\ overrun' = FALSE

Next ==
    \/ \E s \in Setup, rows, cols \in 1..2, colsys, measure, opt_y \in BOOLEAN :
          Begin(s, rows, cols, colsys, measure, opt_y)
    \/ pc = "measure" /\ \E m \in MeasOf(su) : Add(m)
    \/ StartSolve \/ AverageCell \/ FitCell
    \/ HandOver \/ ApplyOne \/ SecondCall \/ ApplyTwo
    \/ Done

Spec == Init /\ [][Next]_vars

-----------------------------------------------------------------------------
(***************************************************************************)
(* Properties.                                                             *)
(***************************************************************************)
Sample == [call : 1..2, meas : MeasOf(su), det : 1..2]
ValueType == [how : {"null", "mean", "one", "zero", "fit"}, of : SUBSET Sample]
IsMatrix(m) ==
    m \in [rows : 0..2, cols : 0..2,
           at : [0 .. m.rows * m.cols - 1 -> ValueType]]

\* Types.  A matrix has as many elements as its dimensions say, and only
\* vectors that the detectors measured are in it.
TypeOK ==
    /\ pc \in {"idle", "measure", "solve", "given", "aborted"}
    /\ (pc = "idle") = (job = NoJob)
    /\ job # NoJob =>
         /\ job \in [setup : Setup, rows : 1..2, cols : 1..2, colsys : BOOLEAN,
                      measure : BOOLEAN, opt_y : BOOLEAN]
         /\ job.rows <= su.rows /\ job.cols <= su.cols
         /\ call \in 1..2 /\ next \in 0..4 /\ overrun \in BOOLEAN
         /\ remaining \subseteq SuMask(su) /\ used \subseteq MeasOf(su)
         /\ DOMAIN cells = Cells /\ \A c \in Cells : cells[c] \subseteq taken
         /\ \A s \in taken : s \in Sample /\ SampleVector(s) # NoVector
         /\ \A r \in {result, first, given} : IsMatrix(r.a) /\ IsMatrix(r.b)

\* Incident and reflected waves only: no voltages or currents.
WavesOnly == \A vec \in SuMask(su) \cap InDims(job.rows, job.cols) :
                vec.kind \in {"a", "b"}
HasA == \E vec \in SuMask(su) \cap InDims(job.rows, job.cols) : vec.kind = "a"

\* What was measured of a vector since the command (or its step) began.
SamplesOf(kind, r, c) ==
    {s \in taken : SampleVector(s) = [kind |-> kind, row |-> r, col |-> c]}

\* An element of A: what was not measured counts as the identity.
Sent(samples, i, j) ==
    IF samples # {} THEN Mean(samples) ELSE Value(IF i = j THEN "one" ELSE "zero", {})

(***************************************************************************)
(* What calibrate is told (measurement.c:316): in whatever order and in    *)
(* however many measurements the vectors came, and whatever part of the    *)
(* setup's matrix the calibration uses, every element of B is the average  *)
(* of all samples of its own vector and of nothing else.  There is a       *)
(* matrix A if and only if a vector of it is measured; it has one row in   *)
(* column systems, the diagonal, and is square otherwise.  Its elements    *)
(* are averages likewise, and the identity where nothing was measured,     *)
(* except that the second row of A of a 1x2 calibration, which has no      *)
(* cell, is never assigned and is handed over as it was allocated: Null.   *)
(***************************************************************************)
ElementsAreMeasured ==
    pc = "given" /\ ~job.measure /\ WavesOnly =>
      LET A == given.a
      IN  /\ \A r \in 1..job.rows, c \in 1..job.cols :
               /\ SamplesOf("b", r, c) # {}
               /\ given.b.at[job.cols * (r - 1) + c - 1] = Mean(SamplesOf("b", r, c))
          /\ <<A.rows, A.cols>> = IF HasA THEN <<ARows, job.cols>> ELSE <<0, 0>>
          /\ \A r \in 1..A.rows, c \in 1..A.cols :
               LET i == IF job.colsys THEN c ELSE r
               IN  A.at[A.cols * (r - 1) + c - 1] =
                     IF i <= job.rows THEN Sent(SamplesOf("a", i, c), i, c) ELSE Null

(***************************************************************************)
(* What measure is told of the device under test (measure.c:396): probe p  *)
(* is on port p of the device in the first call and on the other port in   *)
(* the second; element (i, j) of B is the average of all that was received *)
(* on port i while port j was driven.  With -y the ports may be exchanged. *)
(* A has what was sent into the ports, the identity where that was not     *)
(* measured; in column systems only what was sent into port j, in column j *)
(* (-y does not complete the one column of A as it completes B's).         *)
(***************************************************************************)
PortOf(n, probe) == IF n = 1 THEN probe ELSE 3 - probe
ReceivedAt(kind, i, j) ==
    {s \in taken : LET vec == SampleVector(s)
                   IN  /\ vec.kind = kind
                       /\ PortOf(s.call, vec.row) = i
                       /\ PortOf(s.call, vec.col) = j}

DeviceIsMeasured ==
    pc = "given" /\ job.measure /\ WavesOnly =>
      LET n == given.b.rows
      IN  /\ given.b.cols = n /\ n = (IF job.rows > job.cols THEN job.rows ELSE job.cols)
          /\ \A i, j \in 1..n :
               LET straight == ReceivedAt("b", i, j)
                   turned   == ReceivedAt("b", 3 - i, 3 - j)
                   B == given.b.at[n * (i - 1) + j - 1]
               IN  /\ B.how = "mean" /\ B.of # {}
                   /\ B.of = straight \/ (job.opt_y /\ B.of = straight \cup turned)
          /\ given.a # NoMatrix =>
               /\ job.colsys /\ (job.opt_y => job.rows = job.cols) =>
                    \A j \in 1..n : given.a.at[j - 1] = Sent(ReceivedAt("a", j, j), j, j)
               /\ ~job.colsys /\ job.rows = job.cols =>
                    \A i, j \in 1..n :
                      given.a.at[n * (i - 1) + j - 1] = Sent(ReceivedAt("a", i, j), i, j)

(***************************************************************************)
(* The assertions of measurement.c:396 and measure.c:555 and the abort()   *)
(* of an unknown code stop the program only when voltages or currents are  *)
(* measured, or when a calibration that is neither square nor made of      *)
(* column systems measures A; and in no other case is an element outside   *)
(* the matrices written.                                                   *)
(***************************************************************************)
KnownTrouble == ~WavesOnly \/ (HasA /\ ~job.colsys /\ job.rows # job.cols)

TroubleIsKnown ==
    /\ pc = "aborted" => KnownTrouble
    /\ overrun => HasA /\ ~job.colsys /\ job.rows > job.cols

(***************************************************************************)
(* doc/html/setup.html says of the RF-IV setup that the software combines  *)
(* its voltage, current and through measurements: measuring with a setup   *)
(* ends with matrices.                                                     *)
(***************************************************************************)
MeasuresToTheEnd == pc # "aborted"
===============================================================================
