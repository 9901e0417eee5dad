-------------------------- MODULE MeasurementsProofs --------------------------
(***************************************************************************)
(* Proofs about Measurements, for every set of setups that properties.c    *)
(* accepts and every number of calibration steps.                          *)
(*                                                                         *)
(* The inductive invariant Inv has one part per belief that the loop of    *)
(* make_measurements relies on: what is still to be measured and by which  *)
(* measurements, which step and switch code the VNA is believed to be in,  *)
(* and which steps the operator has already been sent to.                  *)
(***************************************************************************)
EXTENDS Measurements, TLAPS

Loop == {"select", "switch", "ack", "scan"}

\* The m_used flags are clear outside the loop; inside it a flagged
\* measurement has nothing left to contribute.
UsedInv ==
    /\ pc \in {"idle", "call", "return"} => used = {}
    /\ pc \in Loop =>
        /\ remaining \subseteq SuMask(su)
        /\ \A m \in used : Mask(su, m) \cap remaining = {}
    /\ pc \in {"switch", "ack", "scan"} => mp \in MeasOf(su)

\* What is not remaining has been scanned.
CoveredInv ==
    /\ pc \in Loop => ~solved /\ Needed \subseteq remaining \cup covered
    /\ pc = "return" /\ solved => rc = 0 /\ Needed \subseteq covered

\* gs_mstep is what the operator prepared, or what the pending instruction
\* will make the operator prepare.
StepInv ==
    /\ stepDoubt = {} /\ instr = NoStep /\ gs_mstep.copy \in {"list", "temp"} =>
        prepared = gs_mstep.step
    /\ stepDoubt = {} /\ instr # NoStep =>
        /\ pc \in {"switch", "ack"}
        /\ gs_need_ack
        /\ gs_mstep.step = instr
    /\ pc \in {"switch", "ack", "scan"} /\ Named(mp) => gs_mstep = MyRef(mp)

\* gs_switch is the switch code of the VNA, and of the chosen measurement.
SwitchInv ==
    /\ gs_switch # NoSwitch /\ ~switchDoubt => vnaSwitch = gs_switch
    /\ pc \in {"ack", "scan"} /\ Sw(su, mp) # NoSwitch => gs_switch = Sw(su, mp)

\* The operator is in the last step asked for, and the earlier ones have no
\* useful measurement left.
AskedInv ==
    /\ \A i, j \in 1..Len(asked) : i # j => asked[i] # asked[j]
    /\ pc \in Loop /\ asked # <<>> =>
        gs_mstep = [copy |-> cmd.copy, step |-> asked[Len(asked)]]
    /\ pc \in Loop => \A i \in 1..Len(asked), m \in MeasOf(su) :
        MyRef(m).step = asked[i] =>
            Named(m) /\ (i < Len(asked) => m \notin Candidates)

Inv == TypeOK /\ UsedInv /\ CoveredInv /\ StepInv /\ SwitchInv /\ AskedInv

-----------------------------------------------------------------------------
(***************************************************************************)
(* Lemmas about setups.                                                    *)
(***************************************************************************)
\* A measurement of an accepted setup is a pair of positions whose switch
\* code, detectors and step name have their types.
LEMMA MeasType ==
    ASSUME NEW s \in Setup, NEW m \in MeasOf(SetupDef[s])
    PROVE  /\ m \in Nat \X Nat
           /\ [setup |-> s, index |-> m[1]] \in Step
           /\ [setup |-> s, index |-> m[1]] # NoStep
           /\ Sw(SetupDef[s], m) \in SwitchCode \cup {NoSwitch}
           /\ Mask(SetupDef[s], m) \subseteq Vector
           /\ SetupDef[s].steps[m[1]].named \in BOOLEAN
<1> DEFINE T == SetupDef[s]
<1>1. T \in SetupType
  BY SetupAssumption DEF Accepted
<1>2. T.steps \in Seq(ManualStep)
  BY <1>1 DEF SetupType
<1>3. PICK i \in 1..Len(T.steps) :
        \E j \in 1..Len(T.steps[i].meas) : m = <<i, j>>
  BY DEF MeasOf
<1>3a. PICK j \in 1..Len(T.steps[i].meas) : m = <<i, j>>
  BY <1>3
<1>4. T.steps[i] \in ManualStep
  BY <1>2, <1>3
<1>5. T.steps[i].meas \in Seq(Measurement)
  BY <1>4 DEF ManualStep
<1>6. T.steps[i].meas[j] \in Measurement
  BY <1>3a, <1>5
<1>7. m \in Nat \X Nat
  BY <1>2, <1>3a, <1>5
<1>8. [setup |-> s, index |-> i] \in Step
  BY <1>3 DEF Step, StepsOf
<1>9. [setup |-> s, index |-> i] # NoStep
  BY <1>2 DEF NoStep
<1>10. Sw(T, m) \in SwitchCode \cup {NoSwitch}
  BY <1>3a, <1>6 DEF Sw, Measurement
<1>11. Mask(T, m) \subseteq Vector
  BY <1>3a, <1>6 DEF Mask, Detectors, Measurement
<1>12. T.steps[m[1]].named \in BOOLEAN
  BY <1>3a, <1>4 DEF ManualStep
<1> QED BY <1>3a, <1>7, <1>8, <1>9, <1>10, <1>11, <1>12

\* The mask of a setup is made of the vectors of its measurements.
LEMMA SuMaskType ==
    ASSUME NEW s \in Setup
    PROVE  SuMask(SetupDef[s]) \subseteq Vector
BY MeasType DEF SuMask

\* The setup of a running command is one of the configured ones.
LEMMA CmdType ==
    ASSUME TypeOK, pc \notin {"idle", "crashed"}
    PROVE  /\ cmd.setup \in Setup
           /\ cmd.copy \in {"list", "temp"}
           /\ cmd.rows \in 1..2 /\ cmd.cols \in 1..2
           /\ cmd.calls \in Calls
BY DEF TypeOK, NoCmd

\* What gs_mstep can be once a copy of a setup has been allocated.
LEMMA AfterAllocType ==
    ASSUME TypeOK, NEW copy \in {"list", "temp"}, NEW s \in Setup,
           NEW p \in AfterAlloc(copy, s)
    PROVE  p \in Ref \cup {Null, Dangling}
BY DEF TypeOK, AfterAlloc, Ref, Step

-----------------------------------------------------------------------------
(***************************************************************************)
(* Type correctness.                                                       *)
(***************************************************************************)
LEMMA EmptyTypes ==
    <<>> \in Seq(Step) /\ {} \in Doubts /\ NoMeas \in Nat \X Nat
<1>1. <<>> \in Seq(Step)
  OBVIOUS
<1>2. {} \in Doubts
  BY DEF Doubts
<1>3. NoMeas \in Nat \X Nat
  BY DEF NoMeas
<1> QED BY <1>1, <1>2, <1>3

LEMMA TypeInit == Init => TypeOK
<1> SUFFICES ASSUME Init PROVE TypeOK
  OBVIOUS
<1> QED BY EmptyTypes DEF Init, TypeOK

LEMMA TypeOperator == TypeOK /\ Operator => TypeOK'
<1> SUFFICES ASSUME TypeOK, Operator PROVE TypeOK'
  OBVIOUS
<1> USE DEF globals, locals, world, history
<1>1. ASSUME NEW s \in Setup, NEW n \in 1..MaxCalls, Calibrate(s, n)
      PROVE  TypeOK'
  <2>1. SetupDef[s].rows \in 1..2 /\ SetupDef[s].cols \in 1..2
    BY SetupAssumption DEF Accepted, SetupType
  <2>2. cmd' \in [name : {"calibrate", "measure"}, setup : Setup,
                  copy : {"list", "temp"}, rows : 1..2, cols : 1..2,
                  calls : Calls, first : BOOLEAN]
    BY <1>1, <2>1 DEF Calibrate, Calls
  <2>3. cmd' # NoCmd
    BY <1>1 DEF Calibrate, NoCmd
  <2> QED BY <1>1, <2>2, <2>3 DEF Calibrate, TypeOK
<1>2. ASSUME NEW s \in Setup, NEW rows \in 1..2, NEW cols \in 1..2,
             NEW opt_y \in BOOLEAN, NEW opt_P \in BOOLEAN,
             Measure(s, rows, cols, opt_y, opt_P)
      PROVE  TypeOK'
  <2>1. cmd' \in [name : {"calibrate", "measure"}, setup : Setup,
                  copy : {"list", "temp"}, rows : 1..2, cols : 1..2,
                  calls : Calls, first : BOOLEAN]
    BY <1>2 DEF Measure, Calls
  <2>2. cmd' # NoCmd
    BY <1>2 DEF Measure, NoCmd
  <2>3. gs_mstep' \in Ref \cup {Null, Dangling}
    BY <1>2, AfterAllocType DEF Measure
  <2>4. stepDoubt' \in Doubts
    BY <1>2 DEF Measure, TypeOK, Doubts
  <2> QED BY <1>2, <2>1, <2>2, <2>3, <2>4 DEF Measure, TypeOK
<1>3. ASSUME NEW code \in SwitchCode, SwitchCommand(code)
      PROVE  TypeOK'
  BY <1>3 DEF SwitchCommand, TypeOK
<1>4. ASSUME NEW s \in Setup, YLoad(s)
      PROVE  TypeOK'
  <2>1. gs_mstep' \in Ref \cup {Null, Dangling}
    BY <1>4, AfterAllocType DEF YLoad
  <2>2. stepDoubt' \in Doubts
    BY <1>4 DEF YLoad, TypeOK, Doubts
  <2> QED BY <1>4, <2>1, <2>2 DEF YLoad, TypeOK
<1>5. ASSUME Restart PROVE TypeOK'
  BY <1>5, EmptyTypes DEF Restart, TypeOK
<1>6. CASE Generate
  BY <1>6 DEF Generate, TypeOK
<1> QED BY <1>1, <1>2, <1>3, <1>4, <1>5, <1>6 DEF Operator

LEMMA TypeProgram == TypeOK /\ UsedInv /\ Program => TypeOK'
<1> SUFFICES ASSUME TypeOK, UsedInv, Program PROVE TypeOK'
  OBVIOUS
<1> USE DEF globals, locals, world, history
<1>1. CASE Call
  <2>1. /\ cmd' \in [name : {"calibrate", "measure"}, setup : Setup,
                  copy : {"list", "temp"}, rows : 1..2, cols : 1..2,
                  calls : Calls, first : BOOLEAN]
        /\ cmd' # NoCmd
    BY <1>1, CmdType DEF Call, TypeOK, NoCmd
  <2>2. Needed \subseteq Vector
    BY <1>1, CmdType, SuMaskType DEF Call, Needed, su
  <2>3. gs_need_ack' \in BOOLEAN
    BY <1>1 DEF Call, TypeOK
  <2>4. remaining' \subseteq Vector /\ pc' \in {"return", "select"}
    BY <1>1, <2>2 DEF Call, TypeOK
  <2> QED BY <1>1, <2>1, <2>3, <2>4, EmptyTypes DEF Call, TypeOK
<1>2. CASE Select
  <2>1. PICK m \in Candidates :
           /\ mp' = m
           /\ IF Named(m) /\ MyRef(m) # gs_mstep
              THEN /\ gs_mstep' = MyRef(m)
                   /\ instr' = MyRef(m).step
                   /\ gs_need_ack' = TRUE
                   /\ asked' = Append(asked, MyRef(m).step)
              ELSE UNCHANGED <<gs_mstep, instr, gs_need_ack, asked>>
    BY <1>2 DEF Select
  <2>2. m \in Nat \X Nat /\ MyRef(m).step \in Step
    BY <1>2, <2>1, CmdType, MeasType
       DEF Select, Candidates, MyRef, StepRef, su
  <2>3. MyRef(m) \in Ref
    BY <1>2, <2>2, CmdType DEF Select, MyRef, StepRef, Ref
  <2>4. asked' \in Seq(Step)
    <3>1. asked \in Seq(Step)
      BY DEF TypeOK
    <3>2. Append(asked, MyRef(m).step) \in Seq(Step)
      BY <2>2, <3>1
    <3> QED BY <2>1, <3>1, <3>2
  <2>5. /\ gs_mstep' \in Ref \cup {Null, Dangling}
        /\ instr' \in Step \cup {NoStep}
        /\ gs_need_ack' \in BOOLEAN
    BY <2>1, <2>2, <2>3 DEF TypeOK
  <2> QED BY <1>2, <2>1, <2>2, <2>4, <2>5 DEF Select, TypeOK
<1>3. CASE SkipSwitch
  BY <1>3 DEF SkipSwitch, TypeOK
<1>4. CASE SetSwitch
  <2>1. Sw(su, mp) \in SwitchCode
    BY <1>4, CmdType, MeasType DEF SetSwitch, UsedInv, su
  <2> QED BY ZenonT(30), <1>4, <2>1 DEF SetSwitch, TypeOK
<1>5. CASE SwitchFails
  <2>1. Sw(su, mp) \in SwitchCode
    BY <1>5, CmdType, MeasType DEF SwitchFails, UsedInv, su
  <2>2. stepDoubt' \in Doubts
    BY <1>5 DEF SwitchFails, TypeOK, Doubts
  <2> QED BY <1>5, <2>1, <2>2 DEF SwitchFails, Out, TypeOK
<1>6. CASE NoAckNeeded
  BY <1>6 DEF NoAckNeeded, TypeOK
<1>7. CASE Scan
  <2>1. Mask(su, mp) \subseteq Vector
    BY <1>7, CmdType, MeasType DEF Scan, UsedInv, su
  <2> QED BY <1>7, <2>1 DEF Scan, TypeOK
<1>8. CASE ScanFails
  BY <1>8 DEF ScanFails, Out, TypeOK
<1>9. CASE Solve
  BY <1>9 DEF Solve, Out, TypeOK
<1>10. CASE SolveFails
  BY <1>10 DEF SolveFails, Out, Crash, TypeOK
<1>11. CASE NextCall
  <2>1. /\ cmd' \in [name : {"calibrate", "measure"}, setup : Setup,
                  copy : {"list", "temp"}, rows : 1..2, cols : 1..2,
                  calls : Calls, first : BOOLEAN]
        /\ cmd' # NoCmd
    <3>1. cmd.calls - 1 \in Calls
      BY <1>11, CmdType, MaxCallsAssumption DEF NextCall, Calls
    <3> QED BY <1>11, <3>1 DEF NextCall, TypeOK, NoCmd
  <2> QED BY <1>11, <2>1 DEF NextCall, TypeOK
<1>12. CASE EndCommand
  BY <1>12, EmptyTypes DEF EndCommand, TypeOK
<1>13. CASE MeasureAsserts
  BY <1>13 DEF MeasureAsserts, Crash, TypeOK
<1> QED BY <1>1, <1>2, <1>3, <1>4, <1>5, <1>6, <1>7, <1>8, <1>9, <1>10,
           <1>11, <1>12, <1>13 DEF Program

LEMMA TypeAnswer == TypeOK /\ Answer => TypeOK'
<1> SUFFICES ASSUME TypeOK, Answer PROVE TypeOK'
  OBVIOUS
<1> USE DEF globals, locals, world, history
<1>1. CASE Acknowledge
  BY <1>1 DEF Acknowledge, TypeOK, Doubts
<1>2. CASE Cancel
  BY <1>2 DEF Cancel, Out, TypeOK, Doubts
<1> QED BY <1>1, <1>2 DEF Answer

LEMMA TypeNext == TypeOK /\ UsedInv /\ [Next]_vars => TypeOK'
<1>1. TypeOK /\ UNCHANGED vars => TypeOK'
  BY DEF TypeOK, vars, globals, locals, world, history
<1> QED BY <1>1, TypeOperator, TypeProgram, TypeAnswer DEF Next

\* Call leaves the setup of the command and its dimensions alone.
LEMMA CallKeepsSetup ==
    ASSUME TypeOK, Call
    PROVE  /\ cmd'.setup = cmd.setup /\ cmd'.copy = cmd.copy
           /\ cmd'.rows = cmd.rows /\ cmd'.cols = cmd.cols
           /\ su' = su
           /\ Needed' = Needed
<1>1. /\ cmd'.setup = cmd.setup /\ cmd'.copy = cmd.copy
      /\ cmd'.rows = cmd.rows /\ cmd'.cols = cmd.cols
  BY DEF Call, TypeOK, NoCmd
<1> QED BY <1>1 DEF su, Needed

\* The operator works outside the loop.
LEMMA OperatorOutside ==
    ASSUME TypeOK, Operator
    PROVE  /\ pc \in {"idle", "crashed"}
           /\ pc' \in {"idle", "call"}
           /\ (pc = "idle" /\ used' = used) \/ used' = {}
BY DEF Operator, Calibrate, Measure, SwitchCommand, Generate, YLoad, Restart, locals

-----------------------------------------------------------------------------
(***************************************************************************)
(* The assertions of find_best_measurement.                                *)
(***************************************************************************)
LEMMA UsedNext == TypeOK /\ UsedInv /\ [Next]_vars => UsedInv'
<1> SUFFICES ASSUME TypeOK, UsedInv, [Next]_vars PROVE UsedInv'
  OBVIOUS
<1> USE DEF globals, locals, world, history, Loop
<1>1. CASE Operator
  BY <1>1, OperatorOutside DEF UsedInv
<1>2. CASE Call
  BY <1>2, CallKeepsSetup DEF Call, UsedInv, Needed
<1>3. CASE Select
  <2>1. su' = su /\ remaining' = remaining /\ pc = "select" /\ pc' = "switch"
    BY <1>3 DEF Select, su
  <2>2. mp' \in MeasOf(su)
    BY <1>3 DEF Select, Candidates
  <2>3. \A m \in used' : Mask(su, m) \cap remaining = {}
    BY <1>3, <2>1 DEF Select, UsedInv
  <2> QED BY <2>1, <2>2, <2>3 DEF UsedInv
<1>4. CASE SkipSwitch
  BY <1>4 DEF SkipSwitch, UsedInv, su
<1>5. CASE SetSwitch
  BY <1>5 DEF SetSwitch, UsedInv, su
<1>6. CASE SwitchFails
  BY <1>6 DEF SwitchFails, Out, UsedInv
<1>7. CASE NoAckNeeded
  BY <1>7 DEF NoAckNeeded, UsedInv, su
<1>8. CASE Acknowledge
  BY <1>8 DEF Acknowledge, UsedInv, su
<1>9. CASE Cancel
  BY <1>9 DEF Cancel, Out, UsedInv
<1>10. CASE Scan
  BY <1>10 DEF Scan, UsedInv, su
<1>11. CASE ScanFails
  BY <1>11 DEF ScanFails, Out, UsedInv
<1>12. CASE Solve
  BY <1>12 DEF Solve, Out, UsedInv
<1>13. CASE SolveFails
  BY <1>13 DEF SolveFails, Out, Crash, UsedInv
<1>14. CASE NextCall
  BY <1>14 DEF NextCall, UsedInv
<1>15. CASE EndCommand
  BY <1>15 DEF EndCommand, UsedInv
<1>16. CASE MeasureAsserts
  BY <1>16 DEF MeasureAsserts, Crash, UsedInv
<1>17. CASE UNCHANGED vars
  BY <1>17 DEF vars, UsedInv, su
<1> QED BY <1>1, <1>2, <1>3, <1>4, <1>5, <1>6, <1>7, <1>8, <1>9, <1>10, <1>11,
           <1>12, <1>13, <1>14, <1>15, <1>16, <1>17 DEF Next, Answer, Program

\* As long as a vector is missing, a measurement that has it is available.
LEMMA UsedAsserts == UsedInv => AssertionsHold
<1> SUFFICES ASSUME UsedInv, pc = "select", remaining # {}
             PROVE  remaining \subseteq SuMask(su) /\ Candidates # {}
  BY DEF AssertionsHold
<1>1. remaining \subseteq SuMask(su)
  BY DEF UsedInv, Loop
<1>2. PICK v \in remaining : TRUE
  OBVIOUS
<1>3. PICK m \in MeasOf(su) : v \in Mask(su, m)
  BY <1>1, <1>2 DEF SuMask
<1>4. m \notin used
  BY <1>2, <1>3 DEF UsedInv, Loop
<1>5. m \in Candidates
  BY <1>2, <1>3, <1>4 DEF Candidates, Useful
<1> QED BY <1>1, <1>5

-----------------------------------------------------------------------------
(***************************************************************************)
(* A solved matrix is a complete one.                                      *)
(***************************************************************************)
LEMMA CoveredNext == TypeOK /\ CoveredInv /\ [Next]_vars => CoveredInv'
<1> SUFFICES ASSUME TypeOK, CoveredInv, [Next]_vars PROVE CoveredInv'
  OBVIOUS
<1> USE DEF globals, locals, world, history, Loop
<1>1. CASE Operator
  BY <1>1, OperatorOutside DEF CoveredInv
<1>2. CASE Call
  <2>1. pc' = "select" => remaining' = Needed
    BY <1>2 DEF Call
  <2> QED BY <1>2, <2>1, CallKeepsSetup DEF Call, CoveredInv
<1>3. CASE Select
  BY <1>3 DEF Select, CoveredInv, Needed, su
<1>4. CASE SkipSwitch
  BY <1>4 DEF SkipSwitch, CoveredInv, Needed, su
<1>5. CASE SetSwitch
  BY <1>5 DEF SetSwitch, CoveredInv, Needed, su
<1>6. CASE SwitchFails
  BY <1>6 DEF SwitchFails, Out, CoveredInv
<1>7. CASE NoAckNeeded
  BY <1>7 DEF NoAckNeeded, CoveredInv, Needed, su
<1>8. CASE Acknowledge
  BY <1>8 DEF Acknowledge, CoveredInv, Needed, su
<1>9. CASE Cancel
  BY <1>9 DEF Cancel, Out, CoveredInv
<1>10. CASE Scan
  <2>1. Needed' = Needed
    BY <1>10 DEF Scan, Needed, su
  <2> QED BY <1>10, <2>1 DEF Scan, CoveredInv
<1>11. CASE ScanFails
  BY <1>11 DEF ScanFails, Out, CoveredInv
<1>12. CASE Solve
  <2>1. Needed' = Needed
    BY <1>12 DEF Solve, Needed, su
  <2> QED BY <1>12, <2>1 DEF Solve, Out, CoveredInv
<1>13. CASE SolveFails
  BY <1>13 DEF SolveFails, Out, Crash, CoveredInv
<1>14. CASE NextCall
  BY <1>14 DEF NextCall, CoveredInv
<1>15. CASE EndCommand
  BY <1>15 DEF EndCommand, CoveredInv
<1>16. CASE MeasureAsserts
  BY <1>16 DEF MeasureAsserts, Crash, CoveredInv
<1>17. CASE UNCHANGED vars
  BY <1>17 DEF vars, CoveredInv, Needed, su
<1> QED BY <1>1, <1>2, <1>3, <1>4, <1>5, <1>6, <1>7, <1>8, <1>9, <1>10, <1>11,
           <1>12, <1>13, <1>14, <1>15, <1>16, <1>17 DEF Next, Answer, Program

-----------------------------------------------------------------------------
(***************************************************************************)
(* The switch code the VNA is at.                                          *)
(***************************************************************************)
LEMMA SwitchNext == TypeOK /\ SwitchInv /\ [Next]_vars => SwitchInv'
<1> SUFFICES ASSUME TypeOK, SwitchInv, [Next]_vars PROVE SwitchInv'
  OBVIOUS
<1> USE DEF globals, locals, world, history
<1>1. CASE Operator
  <2>1. pc' \notin {"ack", "scan"}
    BY <1>1, OperatorOutside
  <2> QED BY <1>1, <2>1 DEF Operator, Calibrate, Measure, SwitchCommand, Generate, YLoad,
                            Restart, SwitchInv
<1>2. CASE Call
  BY <1>2 DEF Call, SwitchInv
<1>3. CASE Select
  BY <1>3 DEF Select, SwitchInv
<1>4. CASE SkipSwitch
  BY <1>4 DEF SkipSwitch, SwitchInv, su
<1>5. CASE SetSwitch
  BY <1>5 DEF SetSwitch, SwitchInv, su
<1>6. CASE SwitchFails
  BY <1>6 DEF SwitchFails, Out, SwitchInv
<1>7. CASE NoAckNeeded
  BY <1>7 DEF NoAckNeeded, SwitchInv, su
<1>8. CASE Acknowledge
  BY <1>8 DEF Acknowledge, SwitchInv, su
<1>9. CASE Cancel
  BY <1>9 DEF Cancel, Out, SwitchInv
<1>10. CASE Scan
  BY <1>10 DEF Scan, SwitchInv
<1>11. CASE ScanFails
  BY <1>11 DEF ScanFails, Out, SwitchInv
<1>12. CASE Solve
  BY <1>12 DEF Solve, Out, SwitchInv
<1>13. CASE SolveFails
  BY <1>13 DEF SolveFails, Out, Crash, SwitchInv
<1>14. CASE NextCall
  BY <1>14 DEF NextCall, SwitchInv
<1>15. CASE EndCommand
  BY <1>15 DEF EndCommand, SwitchInv
<1>16. CASE MeasureAsserts
  BY <1>16 DEF MeasureAsserts, Crash, SwitchInv
<1>17. CASE UNCHANGED vars
  BY <1>17 DEF vars, SwitchInv, su
<1> QED BY <1>1, <1>2, <1>3, <1>4, <1>5, <1>6, <1>7, <1>8, <1>9, <1>10, <1>11,
           <1>12, <1>13, <1>14, <1>15, <1>16, <1>17 DEF Next, Answer, Program

LEMMA SwitchScan == SwitchInv => ScanIsSwitched
<1> SUFFICES ASSUME SwitchInv, pc = "scan", Sw(su, mp) # NoSwitch, ~switchDoubt
             PROVE  vnaSwitch = Sw(su, mp)
  BY DEF ScanIsSwitched
<1> QED BY DEF SwitchInv

-----------------------------------------------------------------------------
(***************************************************************************)
(* The manual step the VNA is prepared for.                                *)
(***************************************************************************)
LEMMA StepNext == TypeOK /\ StepInv /\ [Next]_vars => StepInv'
<1> SUFFICES ASSUME TypeOK, StepInv, [Next]_vars PROVE StepInv'
  OBVIOUS
<1> USE DEF globals, locals, world, history
<1>1. CASE Operator
  <2>1. \/ pc = "idle" /\ pc' \notin {"switch", "ack", "scan"}
        \/ Restart
    BY <1>1 DEF Operator, Calibrate, Measure, SwitchCommand, Generate, YLoad
  <2>2. CASE Restart
    BY <2>2 DEF Restart, StepInv, Null
  <2>3. ASSUME NEW s \in Setup, NEW copy \in {"list", "temp"},
               pc = "idle", pc' \notin {"switch", "ack", "scan"},
               instr' = instr, prepared' = prepared,
               \/ gs_mstep' = gs_mstep /\ stepDoubt' = stepDoubt
               \/ gs_mstep' = Dangling /\ stepDoubt' = stepDoubt
               \/ stepDoubt' # {}
        PROVE  StepInv'
    BY <2>3 DEF StepInv, Dangling
  <2>4. ASSUME NEW s \in Setup, YLoad(s) PROVE StepInv'
    <3>1. \/ stepDoubt' = stepDoubt /\ gs_mstep' \in {gs_mstep, Dangling}
          \/ stepDoubt' # {}
      BY <2>4 DEF YLoad
    <3> QED BY <2>3, <2>4, <3>1 DEF YLoad
  <2>5. ASSUME NEW s \in Setup, NEW rows \in 1..2, NEW cols \in 1..2,
               NEW opt_y \in BOOLEAN, NEW opt_P \in BOOLEAN,
               Measure(s, rows, cols, opt_y, opt_P)
        PROVE  StepInv'
    <3>1. \/ stepDoubt' = stepDoubt /\ gs_mstep' = gs_mstep
          \/ stepDoubt' # {}
      BY <2>5 DEF Measure
    <3> QED BY <2>3, <2>5, <3>1 DEF Measure
  <2>6. ASSUME NEW s \in Setup, NEW n \in 1..MaxCalls, Calibrate(s, n)
        PROVE  StepInv'
    BY <2>6 DEF Calibrate, StepInv
  <2>7. ASSUME NEW code \in SwitchCode, SwitchCommand(code) PROVE StepInv'
    BY <2>7 DEF SwitchCommand, StepInv
  <2>8. CASE Generate
    BY <2>8 DEF Generate, StepInv
  <2> QED BY <1>1, <2>2, <2>4, <2>5, <2>6, <2>7, <2>8 DEF Operator
<1>2. CASE Call
  BY <1>2 DEF Call, StepInv
<1>3. CASE Select
  <2>1. PICK m \in Candidates :
           /\ mp' = m
           /\ IF Named(m) /\ MyRef(m) # gs_mstep
              THEN /\ gs_mstep' = MyRef(m)
                   /\ instr' = MyRef(m).step
                   /\ gs_need_ack' = TRUE
                   /\ asked' = Append(asked, MyRef(m).step)
              ELSE UNCHANGED <<gs_mstep, instr, gs_need_ack, asked>>
    BY <1>3 DEF Select
  <2>2. MyRef(m).step # NoStep
    BY <1>3, <2>1, CmdType, MeasType
       DEF Select, Candidates, MyRef, StepRef, su
  <2>3. Named(mp)' = Named(m) /\ MyRef(mp)' = MyRef(m)
    BY <1>3, <2>1 DEF Select, Named, MyRef, su
  <2> QED BY <1>3, <2>1, <2>2, <2>3 DEF Select, StepInv
<1>4. CASE SkipSwitch
  BY <1>4 DEF SkipSwitch, StepInv, su, Named, MyRef
<1>5. CASE SetSwitch
  BY <1>5 DEF SetSwitch, StepInv, su, Named, MyRef
<1>6. CASE SwitchFails
  BY <1>6 DEF SwitchFails, Out, StepInv
<1>7. CASE NoAckNeeded
  BY <1>7 DEF NoAckNeeded, StepInv, su, Named, MyRef
<1>8. CASE Acknowledge
  <2>1. Named(mp)' = Named(mp) /\ MyRef(mp)' = MyRef(mp)
    BY <1>8 DEF Acknowledge, su, Named, MyRef
  <2> QED BY <1>8, <2>1 DEF Acknowledge, StepInv
<1>9. CASE Cancel
  BY <1>9 DEF Cancel, Out, StepInv
<1>10. CASE Scan
  BY <1>10 DEF Scan, StepInv
<1>11. CASE ScanFails
  BY <1>11 DEF ScanFails, Out, StepInv
<1>12. CASE Solve
  BY <1>12 DEF Solve, Out, StepInv
<1>13. CASE SolveFails
  BY <1>13 DEF SolveFails, Out, Crash, StepInv
<1>14. CASE NextCall
  BY <1>14 DEF NextCall, StepInv
<1>15. CASE EndCommand
  BY <1>15 DEF EndCommand, StepInv, Dangling
<1>16. CASE MeasureAsserts
  BY <1>16 DEF MeasureAsserts, Crash, StepInv
<1>17. CASE UNCHANGED vars
  BY <1>17 DEF vars, StepInv, su, Named, MyRef
<1> QED BY <1>1, <1>2, <1>3, <1>4, <1>5, <1>6, <1>7, <1>8, <1>9, <1>10, <1>11,
           <1>12, <1>13, <1>14, <1>15, <1>16, <1>17 DEF Next, Answer, Program

LEMMA StepScan == TypeOK /\ StepInv => ScanIsPrepared
<1> SUFFICES ASSUME TypeOK, StepInv, pc = "scan", Named(mp), stepDoubt = {}
             PROVE  prepared = MyRef(mp).step /\ instr = NoStep
  BY DEF ScanIsPrepared
<1>1. gs_mstep = MyRef(mp) /\ instr = NoStep
  BY DEF StepInv
<1>2. gs_mstep.copy \in {"list", "temp"}
  BY <1>1, CmdType DEF MyRef, StepRef
<1> QED BY <1>1, <1>2 DEF StepInv

-----------------------------------------------------------------------------
(***************************************************************************)
(* The order of the manual steps.                                          *)
(***************************************************************************)
\* The step prepared has no named measurement left when another is chosen.
LEMMA BestStaysInStep ==
    ASSUME TypeOK, pc = "select", NEW m, IsBest(m),
           Named(m), MyRef(m) # gs_mstep,
           NEW n \in Candidates, Named(n)
    PROVE  MyRef(n) # gs_mstep
<1> SUFFICES ASSUME MyRef(n) = gs_mstep PROVE FALSE
  OBVIOUS
<1>1. gs_mstep # Null
  BY CmdType DEF MyRef, StepRef, Null
<1>2. StepCost(n) = 0 /\ StepCost(m) = 2
  BY <1>1 DEF StepCost
<1>3. SwitchCost(n) \in 0..1 /\ SwitchCost(m) \in 0..1
  BY DEF SwitchCost
<1>4. Cost(n) < Cost(m)
  BY <1>2, <1>3 DEF Cost
<1>5. Cost(n) \in Int /\ Cost(m) \in Int
  BY <1>2, <1>3 DEF Cost
<1> QED BY <1>4, <1>5 DEF IsBest

\* While the setup stays and the vectors remaining and the measurements
\* unused only become fewer, useless measurements stay useless.
LEMMA AskedKept ==
    ASSUME TypeOK, AskedInv, pc \in Loop,
           cmd' = cmd, asked' = asked, gs_mstep' = gs_mstep,
           remaining' \subseteq remaining, used \subseteq used'
    PROVE  AskedInv'
<1>1. su' = su
  BY DEF su
<1>2. \A m \in MeasOf(su) : m \notin Candidates => m \notin Candidates'
  BY <1>1 DEF Candidates, Useful
<1> QED BY <1>1, <1>2 DEF AskedInv, Named, MyRef

\* Outside the loop AskedInv only says that no step was asked for twice.
LEMMA AskedLeft ==
    ASSUME TypeOK, AskedInv, pc' \notin Loop, asked' = asked \/ asked' = <<>>
    PROVE  AskedInv'
BY DEF AskedInv

LEMMA AskedSelect == TypeOK /\ UsedInv /\ AskedInv /\ Select => AskedInv'
<1> SUFFICES ASSUME TypeOK, UsedInv, AskedInv, Select PROVE AskedInv'
  OBVIOUS
<1>1. PICK m \in Candidates :
         /\ IsBest(m)
         /\ IF Named(m) /\ MyRef(m) # gs_mstep
            THEN /\ gs_mstep' = MyRef(m)
                 /\ asked' = Append(asked, MyRef(m).step)
            ELSE UNCHANGED <<gs_mstep, asked>>
  BY DEF Select
<1>2. pc = "select" /\ pc \in Loop /\ cmd' = cmd /\ remaining' = remaining
      /\ used \subseteq used'
  BY DEF Select, Loop
<1>3. CASE ~(Named(m) /\ MyRef(m) # gs_mstep)
  BY <1>1, <1>2, <1>3, AskedKept
<1>4. CASE Named(m) /\ MyRef(m) # gs_mstep
  <2> DEFINE t == MyRef(m).step
             k == Len(asked)
  <2>1. asked \in Seq(Step) /\ k \in Nat
    BY DEF TypeOK
  <2>2. /\ asked' = Append(asked, t) /\ Len(asked') = k + 1
        /\ asked'[k + 1] = t /\ \A i \in 1..k : asked'[i] = asked[i]
    BY <1>1, <1>4, <2>1
  <2>3. su' = su /\ \A n : MyRef(n)' = MyRef(n) /\ Named(n)' = Named(n)
    BY <1>2 DEF su, MyRef, Named
  <2>4. \A n \in MeasOf(su) : n \notin Candidates => n \notin Candidates'
    BY <1>2, <2>3 DEF Candidates, Useful
  <2>5. m \in MeasOf(su)
    BY DEF Candidates
  <2>6. ASSUME NEW i \in 1..k, NEW n \in MeasOf(su), MyRef(n).step = asked[i]
        PROVE  Named(n) /\ n \notin Candidates
    <3>1. Named(n) /\ (i < k => n \notin Candidates)
      BY <1>2, <2>6 DEF AskedInv
    <3>2. CASE i = k
      <4>1. gs_mstep = [copy |-> cmd.copy, step |-> asked[k]]
        BY <1>2, <2>1, <2>6 DEF AskedInv
      <4>2. MyRef(n) = gs_mstep
        BY <2>6, <3>2, <4>1 DEF MyRef, StepRef
      <4> QED BY <1>1, <1>2, <1>4, <3>1, <4>2, BestStaysInStep
    <3> QED BY <2>1, <3>1, <3>2
  <2>7. \A i \in 1..k : asked[i] # t
    BY <1>1, <2>5, <2>6
  <2>8. \A i, j \in 1..Len(asked') : i # j => asked'[i] # asked'[j]
    <3>1. \A i, j \in 1..k : i # j => asked[i] # asked[j]
      BY DEF AskedInv
    <3>2. 1..(k + 1) = 1..k \cup {k + 1}
      BY <2>1
    <3> QED BY <2>1, <2>2, <2>7, <3>1, <3>2
  <2>9. gs_mstep' = [copy |-> cmd'.copy, step |-> asked'[Len(asked')]]
    BY <1>1, <1>2, <1>4, <2>1, <2>2 DEF MyRef, StepRef
  <2>10. ASSUME NEW i \in 1..(k + 1), NEW n \in MeasOf(su),
                MyRef(n).step = asked'[i]
         PROVE  Named(n) /\ (i < k + 1 => n \notin Candidates')
    <3>1. CASE i \in 1..k
      BY <2>2, <2>4, <2>6, <2>10, <3>1
    <3>2. CASE i = k + 1
      <4>1. MyRef(n).step = t
        BY <2>2, <2>10, <3>2
      <4>2. n[1] = m[1]
        BY <4>1 DEF MyRef, StepRef
      <4> QED BY <1>4, <2>1, <3>2, <4>2 DEF Named
    <3> QED BY <2>1, <3>1, <3>2
  <2> QED BY <2>2, <2>3, <2>8, <2>9, <2>10 DEF AskedInv
<1> QED BY <1>3, <1>4

LEMMA AskedNext == TypeOK /\ UsedInv /\ AskedInv /\ [Next]_vars => AskedInv'
<1> SUFFICES ASSUME TypeOK, UsedInv, AskedInv, [Next]_vars PROVE AskedInv'
  OBVIOUS
<1> USE DEF globals, locals, world, history
<1>1. CASE Operator
  <2>1. pc' \notin Loop
    BY <1>1, OperatorOutside DEF Loop
  <2>2. asked' = asked \/ asked' = <<>>
    BY <1>1 DEF Operator, Calibrate, Measure, SwitchCommand, Generate, YLoad, Restart
  <2> QED BY <2>1, <2>2, AskedLeft
<1>2. CASE Call
  <2>1. asked' = <<>> /\ Len(asked') = 0
    BY <1>2 DEF Call
  <2> QED BY <2>1 DEF AskedInv
<1>3. CASE Select
  BY <1>3, AskedSelect
<1>4. CASE SkipSwitch \/ SetSwitch \/ NoAckNeeded \/ Acknowledge \/ Scan
  <2>1. pc \in Loop
    BY <1>4 DEF SkipSwitch, SetSwitch, NoAckNeeded, Acknowledge, Scan, Loop
  <2>2. /\ cmd' = cmd /\ asked' = asked /\ gs_mstep' = gs_mstep
        /\ remaining' \subseteq remaining /\ used \subseteq used'
    BY <1>4 DEF SkipSwitch, SetSwitch, NoAckNeeded, Acknowledge, Scan
  <2> QED BY <2>1, <2>2, AskedKept
<1>5. CASE SwitchFails \/ Cancel \/ ScanFails \/ Solve \/ SolveFails
           \/ NextCall \/ EndCommand \/ MeasureAsserts
  <2>1. pc' \notin Loop
    BY <1>5 DEF SwitchFails, Cancel, ScanFails, Solve, SolveFails, NextCall,
                EndCommand, MeasureAsserts, Out, Crash, Loop
  <2>2. asked' = asked \/ asked' = <<>>
    BY <1>5 DEF SwitchFails, Cancel, ScanFails, Solve, SolveFails, NextCall,
                EndCommand, MeasureAsserts
  <2> QED BY <2>1, <2>2, AskedLeft
<1>6. CASE UNCHANGED vars
  BY <1>6 DEF vars, AskedInv, su, Named, MyRef, Candidates, Useful
<1> QED BY <1>1, <1>2, <1>3, <1>4, <1>5, <1>6 DEF Next, Answer, Program

-----------------------------------------------------------------------------
(***************************************************************************)
(* The theorems.                                                           *)
(***************************************************************************)
LEMMA InvInit == Init => Inv
<1> SUFFICES ASSUME Init PROVE Inv
  OBVIOUS
<1>1. TypeOK
  BY TypeInit
<1>2. UsedInv /\ CoveredInv /\ StepInv /\ SwitchInv
  BY DEF Init, UsedInv, CoveredInv, StepInv, SwitchInv, Loop, Null
<1>3. AskedInv
  BY DEF Init, AskedInv, Loop
<1> QED BY <1>1, <1>2, <1>3 DEF Inv

LEMMA InvNext == Inv /\ [Next]_vars => Inv'
BY TypeNext, UsedNext, CoveredNext, StepNext, SwitchNext, AskedNext DEF Inv

\* The inductive invariant holds in every reachable state.
THEOREM Invariance == Spec => []Inv
<1>1. Init => Inv
  BY InvInit
<1>2. Inv /\ [Next]_vars => Inv'
  BY InvNext
<1> QED BY <1>1, <1>2, PTL DEF Spec

\* Every variable keeps its type.
THEOREM TypeCorrect == Spec => []TypeOK
<1>1. Inv => TypeOK
  BY DEF Inv
<1> QED BY <1>1, Invariance, PTL

\* The assertions of find_best_measurement never fail.
THEOREM AssertionsCorrect == Spec => []AssertionsHold
<1>1. Inv => AssertionsHold
  BY UsedAsserts DEF Inv
<1> QED BY <1>1, Invariance, PTL

\* A matrix is solved only from a complete set of vectors.
THEOREM SolvedCorrect == Spec => []SolvedIsCovered
<1>1. Inv => SolvedIsCovered
  BY DEF Inv, CoveredInv, SolvedIsCovered
<1> QED BY <1>1, Invariance, PTL

\* Scans run with the VNA prepared, but for the known ways to lose track.
THEOREM PreparedCorrect == Spec => []ScanIsPrepared
<1>1. Inv => ScanIsPrepared
  BY StepScan DEF Inv
<1> QED BY <1>1, Invariance, PTL

\* Scans run at the right switch code, but for the known ways to lose track.
THEOREM SwitchedCorrect == Spec => []ScanIsSwitched
<1>1. Inv => ScanIsSwitched
  BY SwitchScan DEF Inv
<1> QED BY <1>1, Invariance, PTL

\* No call of make_measurements asks twice for the same manual step.
THEOREM AskedOnceCorrect == Spec => []AskedOnce
<1>1. Inv => AskedOnce
  BY DEF Inv, AskedInv, AskedOnce
<1> QED BY <1>1, Invariance, PTL

\* The operator is not sent away from a step that is still useful.
THEOREM NoNeedlessPromptCorrect == Spec => NoNeedlessPrompt
<1>1. TypeOK /\ [Next]_vars =>
          [asked' # asked /\ Len(asked') > 0 =>
              \A m \in Candidates : Named(m) => MyRef(m) # gs_mstep]_vars
  <2> SUFFICES ASSUME TypeOK, Next, asked' # asked, Len(asked') > 0,
                      NEW n \in Candidates, Named(n)
               PROVE  MyRef(n) # gs_mstep
    OBVIOUS
  <2> USE DEF globals, locals, world, history
  <2>1. asked' # <<>>
    OBVIOUS
  <2>2. Select
    BY <2>1 DEF Next, Operator, Answer, Program, Calibrate, Measure,
                SwitchCommand, Generate, YLoad, Restart, Call, SkipSwitch, SetSwitch,
                SwitchFails, NoAckNeeded, Acknowledge, Cancel, Scan, ScanFails,
                Solve, SolveFails, NextCall, EndCommand, MeasureAsserts
  <2>3. PICK m \in Candidates :
           IsBest(m) /\ Named(m) /\ MyRef(m) # gs_mstep
    BY <2>2 DEF Select
  <2>4. pc = "select"
    BY <2>2 DEF Select
  <2> QED BY <2>3, <2>4, BestStaysInStep
<1> QED BY <1>1, TypeCorrect, PTL DEF Spec, NoNeedlessPrompt
===============================================================================
