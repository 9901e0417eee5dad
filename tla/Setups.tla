-------------------------------- MODULE Setups --------------------------------
(***************************************************************************)
(* The data model of a VNA setup (setup_t, mstep_t and measurement_t of    *)
(* measurement.h) and the rules by which properties.c accepts one from the *)
(* configuration file, a calibration file or the yload command.            *)
(*                                                                         *)
(* A setup is a record                                                     *)
(*    [rows, cols, steps : Seq([named, meas : Seq([sw, det])])]            *)
(* where det is the pair of vectors the two detectors measure, NoVector    *)
(* for a detector that is not connected.  Names, texts and frequencies are *)
(* abstracted away, except whether a manual step has a name: only a named  *)
(* step makes the program ask the operator to prepare the VNA.             *)
(***************************************************************************)
EXTENDS Integers, Sequences, FiniteSets

CONSTANT SwitchCode \* the codes the VNA's two switches can be set to

ASSUME SwitchCodeAssumption == SwitchCode \subseteq 0..3

Kind == {"a", "b", "v", "i"}

\* vector_code_t: what a detector measures, for one cell of the matrix.
Vector == [kind : Kind, row : 1..2, col : 1..2]

\* VC_NONE
NoVector == [kind |-> "none", row |-> 0, col |-> 0]

\* The code of a measurement that leaves the switches alone, and what
\* gs_switch is while the program does not know.
NoSwitch == -1

\* The vectors that belong to a matrix of the given dimensions.
InDims(rows, cols) == {v \in Vector : v.row <= rows /\ v.col <= cols}

\* measurement_t, mstep_t and setup_t.
Measurement ==
    [sw : SwitchCode \cup {NoSwitch},
     det : (Vector \cup {NoVector}) \X (Vector \cup {NoVector})]
ManualStep == [named : BOOLEAN, meas : Seq(Measurement)]
SetupType == [rows : 1..2, cols : 1..2, steps : Seq(ManualStep)]

(***************************************************************************)
(* A measurement is named by its place in the lists: <<i, j>> is the j-th  *)
(* measurement of the i-th step.                                           *)
(***************************************************************************)
MeasOf(su) ==
    UNION {{<<i, j>> : j \in 1..Len(su.steps[i].meas)} : i \in 1..Len(su.steps)}

Sw(su, m) == su.steps[m[1]].meas[m[2]].sw
Detectors(su, m) == su.steps[m[1]].meas[m[2]].det

\* m_mask
Mask(su, m) == {Detectors(su, m)[k] : k \in 1..2} \ {NoVector}

\* su_mask
SuMask(su) == UNION {Mask(su, m) : m \in MeasOf(su)}

\* The order in which find_best_measurement walks the two lists.
Precedes(m, n) == m[1] < n[1] \/ (m[1] = n[1] /\ m[2] < n[2])

(***************************************************************************)
(* What parse_measurement, parse_mstep and parse_setup demand.             *)
(***************************************************************************)
\* A step with several measurements gives each its own switch code.
UniqueSwitches(step) ==
    \A j, k \in 1..Len(step.meas) :
        j # k => /\ step.meas[j].sw # NoSwitch
                 /\ step.meas[j].sw # step.meas[k].sw

\* A setup with several steps gives each a (distinct) name.
UniqueNames(su) ==
    Len(su.steps) > 1 => \A i \in 1..Len(su.steps) : su.steps[i].named

\* Every cell has a vector other than an "a".
EveryCellHasB(su) ==
    \A r \in 1..su.rows, c \in 1..su.cols :
        \E v \in SuMask(su) : v.row = r /\ v.col = c /\ v.kind # "a"

Accepted(su) ==
    /\ su \in SetupType
    /\ \A i \in 1..Len(su.steps) : UniqueSwitches(su.steps[i])
    /\ UniqueNames(su)
    /\ SuMask(su) \subseteq InDims(su.rows, su.cols)
    /\ EveryCellHasB(su)
===============================================================================
