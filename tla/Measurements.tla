----------------------------- MODULE Measurements -----------------------------
(***************************************************************************)
(* make_measurements (measurement.c) and the commands that call it or      *)
(* disturb what it relies on: calibrate, measure, switch and setup yload.  *)
(*                                                                         *)
(* The program caches two facts about the hardware between commands: the   *)
(* switch code it last set (gs_switch) and the manual step the operator    *)
(* last prepared (gs_mstep, a pointer into a setup).  Both are beliefs:    *)
(* the model also has the switch the VNA is really at (vnaSwitch) and the  *)
(* step the operator really prepared (prepared).                           *)
(***************************************************************************)
EXTENDS Setups

CONSTANTS
    Setup,      \* names of the configured setups
    SetupDef,   \* their contents, a function from Setup
    MaxCalls    \* bound: calibration steps of one calibrate command

ASSUME SetupAssumption == \A s \in Setup : Accepted(SetupDef[s])

ASSUME MaxCallsAssumption == MaxCalls \in Nat \ {0}

VARIABLES
    opt_Y,       \* gs_opt_Y: driven by another program
    gs_switch,   \* switch code the program believes in, NoSwitch: unknown
    gs_mstep,    \* pointer to the manual step the program believes prepared
    gs_need_ack, \* the operator must acknowledge before the next scan
    instr,       \* gs_messages: the step of the pending "Prepare VNA" message
    pc,          \* where the program is
    cmd,         \* the command being run and its measurement_args_t
    remaining,   \* remaining_mask
    used,        \* measurements of the active setup with m_used set
    mp,          \* the measurement chosen
    rc,          \* return code of make_measurements
    solved,      \* measurement_matrix_solve succeeded
    vnaSwitch,   \* hardware: the switch code the VNA is at
    prepared,    \* operator: the step the VNA is really prepared for
    covered,     \* history: vectors scanned by this call
    asked,       \* history: steps the operator was asked to prepare, in order
    stepDoubt,   \* history: why gs_mstep may differ from prepared: an
                 \* instruction never followed, or a recycled pointer
    switchDoubt  \* history: gs_switch may differ from vnaSwitch

globals == <<opt_Y, gs_switch, gs_mstep, gs_need_ack, instr>>
locals == <<pc, cmd, remaining, used, mp, rc, solved>>
world == <<vnaSwitch, prepared>>
history == <<covered, asked, stepDoubt, switchDoubt>>
vars == <<globals, locals, world, history>>

-----------------------------------------------------------------------------
(***************************************************************************)
(* Manual steps.  A Step is the step of a setup as the operator knows it.  *)
(* A Ref is a pointer to an mstep_t: to the copy in the gs_setups list or  *)
(* to the temporary copy the measure command parses from the calibration   *)
(* file and frees.  A pointer to freed memory is Dangling until malloc     *)
(* hands the same address out again.                                       *)
(***************************************************************************)
StepsOf(s) == {[setup |-> s, index |-> i] : i \in 1..Len(SetupDef[s].steps)}
Step == UNION {StepsOf(s) : s \in Setup}
NoStep == [setup |-> "none", index |-> 0]

Ref == [copy : {"list", "temp"}, step : Step]
Null == [copy |-> "null", step |-> NoStep]
Dangling == [copy |-> "freed", step |-> NoStep]

StepRef(copy, s, m) == [copy |-> copy, step |-> [setup |-> s, index |-> m[1]]]

\* The value gs_mstep may have once a copy of setup s has been allocated.
AfterAlloc(copy, s) ==
    IF gs_mstep = Dangling
    THEN {Dangling} \cup {[copy |-> copy, step |-> t] : t \in StepsOf(s)}
    ELSE {gs_mstep}

NoCmd == [name |-> "none", setup |-> "none", copy |-> "list",
          rows |-> 0, cols |-> 0, calls |-> 0, first |-> FALSE]
NoMeas == <<0, 0>>

su == SetupDef[cmd.setup]
Named(m) == su.steps[m[1]].named
MyRef(m) == StepRef(cmd.copy, cmd.setup, m)

Calls == 1..MaxCalls \cup 1..2
Doubts == SUBSET {"unread", "alias"}

TypeOK ==
    /\ opt_Y \in BOOLEAN
    /\ gs_switch \in SwitchCode \cup {NoSwitch}
    /\ gs_mstep \in Ref \cup {Null, Dangling}
    /\ gs_need_ack \in BOOLEAN
    /\ instr \in Step \cup {NoStep}
    /\ pc \in {"idle", "call", "select", "switch", "ack", "scan", "return",
               "crashed"}
    /\ cmd \in [name : {"calibrate", "measure"}, setup : Setup,
                copy : {"list", "temp"}, rows : 1..2, cols : 1..2,
                calls : Calls, first : BOOLEAN] \cup {NoCmd}
    /\ pc \notin {"idle", "crashed"} => cmd # NoCmd
    /\ remaining \subseteq Vector
    /\ mp \in Nat \X Nat
    /\ rc \in {-1, 0}
    /\ solved \in BOOLEAN
    /\ vnaSwitch \in SwitchCode
    /\ prepared \in Step \cup {NoStep}
    /\ covered \subseteq Vector
    /\ asked \in Seq(Step)
    /\ stepDoubt \in Doubts
    /\ switchDoubt \in BOOLEAN

Init ==
    /\ opt_Y \in BOOLEAN
    /\ gs_switch = NoSwitch
    /\ gs_mstep = Null
    /\ gs_need_ack = FALSE
    /\ instr = NoStep
    /\ pc = "idle" /\ cmd = NoCmd
    /\ remaining = {} /\ used = {} /\ mp = NoMeas /\ rc = -1 /\ solved = FALSE
    /\ vnaSwitch \in SwitchCode
    /\ prepared = NoStep
    /\ covered = {} /\ asked = <<>> /\ stepDoubt = {} /\ switchDoubt = FALSE

-----------------------------------------------------------------------------
(***************************************************************************)
(* Commands.                                                               *)
(***************************************************************************)
(***************************************************************************)
(* calibrate uses the copy of the setup in the gs_setups list and calls    *)
(* make_measurements once for each of its n calibration steps.             *)
(***************************************************************************)
Calibrate(s, n) ==
    /\ pc = "idle"
    /\ pc' = "call"
    /\ cmd' = [name |-> "calibrate", setup |-> s, copy |-> "list",
               rows |-> SetupDef[s].rows, cols |-> SetupDef[s].cols,
               calls |-> n, first |-> TRUE]
    /\ UNCHANGED <<globals, remaining, used, mp, rc, solved, world, history>>

(***************************************************************************)
(* measure parses its own copy of the setup out of the calibration file,   *)
(* whose dimensions need not be those of the setup, and forgets any        *)
(* acknowledgement still owed.  A non-square calibration takes two calls,  *)
(* with the probes exchanged in between, unless the device under test is   *)
(* declared symmetrical (-y).                                              *)
(***************************************************************************)
Measure(s, rows, cols, opt_y, opt_P) ==
    /\ pc = "idle"
    /\ <<rows, cols>> # <<1, 2>>
    /\ pc' = "call"
    /\ cmd' = [name |-> "measure", setup |-> s, copy |-> "temp",
               rows |-> rows, cols |-> cols,
               calls |-> IF rows = cols \/ opt_y THEN 1 ELSE 2,
               first |-> TRUE]
    /\ gs_mstep' \in AfterAlloc("temp", s)
    /\ stepDoubt' = IF gs_mstep' = gs_mstep THEN stepDoubt
                                           ELSE stepDoubt \cup {"alias"}
    /\ gs_need_ack' = opt_P
    /\ UNCHANGED <<opt_Y, gs_switch, instr, remaining, used, mp, rc, solved,
                   world, covered, asked, switchDoubt>>

(***************************************************************************)
(* The switch command sets the VNA's switches and not gs_switch.  A        *)
(* failure may be reported after the VNA has obeyed: n2pkvna_switch writes *)
(* the command first and reads the status back afterwards.                 *)
(***************************************************************************)
SwitchCommand(code) ==
    /\ pc = "idle"
    /\ vnaSwitch' \in {code, vnaSwitch}
    /\ switchDoubt' = TRUE
    /\ UNCHANGED <<globals, locals, prepared, covered, asked, stepDoubt>>

(***************************************************************************)
(* generate resets the VNA, to synchronise the phases of its oscillators;  *)
(* where that leaves the switches only the firmware knows, and gs_switch   *)
(* stays as it is.                                                         *)
(***************************************************************************)
Generate ==
    /\ pc = "idle"
    /\ vnaSwitch' \in SwitchCode
    /\ switchDoubt' = TRUE
    /\ UNCHANGED <<globals, locals, prepared, covered, asked, stepDoubt>>

(***************************************************************************)
(* setup yload parses a new copy of a setup, then frees the one it         *)
(* replaces in the list.                                                   *)
(***************************************************************************)
YLoad(s) ==
    /\ pc = "idle"
    /\ IF gs_mstep.copy = "list" /\ gs_mstep.step.setup = s
       THEN gs_mstep' = Dangling
       ELSE gs_mstep' \in AfterAlloc("list", s)
    /\ stepDoubt' = IF gs_mstep' \in {gs_mstep, Dangling} THEN stepDoubt
                                           ELSE stepDoubt \cup {"alias"}
    /\ UNCHANGED <<opt_Y, gs_switch, gs_need_ack, instr, locals, world,
                   covered, asked, switchDoubt>>

(***************************************************************************)
(* The program exits, or has crashed, and is started again.                *)
(***************************************************************************)
Restart ==
    /\ pc \in {"idle", "crashed"}
    /\ opt_Y' \in BOOLEAN
    /\ gs_switch' = NoSwitch /\ gs_mstep' = Null /\ gs_need_ack' = FALSE
    /\ instr' = NoStep
    /\ pc' = "idle" /\ cmd' = NoCmd
    /\ remaining' = {} /\ used' = {} /\ mp' = NoMeas
    /\ rc' = -1 /\ solved' = FALSE
    /\ covered' = {} /\ asked' = <<>> /\ stepDoubt' = {} /\ switchDoubt' = FALSE
    /\ UNCHANGED world

\* An assertion of the program fails, or it dereferences a null pointer.
Crash ==
    /\ pc' = "crashed"
    /\ cmd' = NoCmd

-----------------------------------------------------------------------------
(***************************************************************************)
(* make_measurements, one action per stage of its loop.                    *)
(***************************************************************************)
Needed == SuMask(su) \cap InDims(cmd.rows, cmd.cols)

\* Mutant: the flags are left as they are.
OutKeepsUsed == pc' = "return" /\ UNCHANGED used

\* Leave through the label out: the m_used flags are cleared.
Out == pc' = "return" /\ used' = {}

(***************************************************************************)
(* The command adds its own instructions (connect a standard, exchange the *)
(* probes) and make_measurements starts.  It returns at once when the      *)
(* setup is smaller than the calibration asks for.                         *)
(***************************************************************************)
Call ==
    /\ pc = "call"
    /\ \E connect \in BOOLEAN :
        /\ cmd.name = "calibrate" /\ cmd.first => connect
        /\ cmd.name = "measure" => (connect <=> cmd.rows # cmd.cols /\
                                               (cmd.calls = 2 \/ ~cmd.first))
        /\ gs_need_ack' = (gs_need_ack \/ connect)
    /\ cmd' = [cmd EXCEPT !.first = FALSE]
    /\ rc' = -1
    /\ solved' = FALSE
    /\ covered' = {}
    /\ asked' = <<>>
    /\ IF cmd.rows > su.rows \/ cmd.cols > su.cols
       THEN pc' = "return" /\ UNCHANGED remaining
       ELSE pc' = "select" /\ remaining' = Needed
    /\ UNCHANGED <<opt_Y, gs_switch, gs_mstep, instr, used, mp, world,
                   stepDoubt, switchDoubt>>

(***************************************************************************)
(* find_best_measurement: the cheapest measurement that still contributes  *)
(* a vector, the first of them in list order.  Preparing another manual    *)
(* step costs 2 and setting the switches 1.                                *)
(***************************************************************************)
Useful(m) == m \notin used /\ Mask(su, m) \cap remaining # {}

Candidates == {m \in MeasOf(su) : Useful(m)}

\* Mutant: the manual step is not compared with the one prepared.
NoStepCost(m) == 0

StepCost(m) ==
    IF Named(m) /\ gs_mstep # Null /\ MyRef(m) # gs_mstep THEN 2 ELSE 0

SwitchCost(m) ==
    IF Sw(su, m) >= 0 /\ gs_switch >= 0 /\ Sw(su, m) # gs_switch THEN 1 ELSE 0

\* Mutant: a manual step costs no more than a switch.
EqualCost(m) == (StepCost(m) + 1) \div 2 + SwitchCost(m)

Cost(m) == StepCost(m) + SwitchCost(m)

IsBest(m) ==
    /\ m \in Candidates
    /\ \A n \in Candidates \ {m} :
        Cost(m) < Cost(n) \/ (Cost(m) = Cost(n) /\ Precedes(m, n))

\* Mutant: the instruction is added without asking for an acknowledgement.
SelectUnacknowledged ==
    /\ pc = "select" /\ remaining # {}
    /\ \E m \in Candidates :
        /\ IsBest(m)
        /\ mp' = m
        /\ IF Named(m) /\ MyRef(m) # gs_mstep
           THEN /\ gs_mstep' = MyRef(m)
                /\ instr' = MyRef(m).step
                /\ asked' = Append(asked, MyRef(m).step)
           ELSE UNCHANGED <<gs_mstep, instr, asked>>
    /\ used' = used \cup {m \in MeasOf(su) : Mask(su, m) \cap remaining = {}}
    /\ pc' = "switch"
    /\ UNCHANGED <<opt_Y, gs_switch, gs_need_ack, cmd, remaining, rc, solved,
                   world, covered, stepDoubt, switchDoubt>>

(***************************************************************************)
(* Choose a measurement, flag the ones that became useless, and, when it   *)
(* belongs to another manual step, queue the instruction to prepare it.    *)
(***************************************************************************)
Select ==
    /\ pc = "select" /\ remaining # {}
    /\ \E m \in Candidates :
        /\ IsBest(m)
        /\ mp' = m
        /\ IF Named(m) /\ MyRef(m) # gs_mstep
           THEN /\ gs_mstep' = MyRef(m)
                /\ instr' = MyRef(m).step
                /\ gs_need_ack' = TRUE
                /\ asked' = Append(asked, MyRef(m).step)
           ELSE UNCHANGED <<gs_mstep, instr, gs_need_ack, asked>>
    /\ used' = used \cup {m \in MeasOf(su) : Mask(su, m) \cap remaining = {}}
    /\ pc' = "switch"
    /\ UNCHANGED <<opt_Y, gs_switch, cmd, remaining, rc, solved, world,
                   covered, stepDoubt, switchDoubt>>

\* Mutant: an unknown switch code counts as the right one.
SkipUnknownSwitch ==
    /\ pc = "switch"
    /\ Sw(su, mp) \in {NoSwitch, gs_switch} \/ gs_switch = NoSwitch
    /\ pc' = "ack"
    /\ UNCHANGED <<globals, cmd, remaining, used, mp, rc, solved, world, history>>

\* The VNA is already at the right switch code, as far as the program knows.
SkipSwitch ==
    /\ pc = "switch"
    /\ Sw(su, mp) \in {NoSwitch, gs_switch}
    /\ pc' = "ack"
    /\ UNCHANGED <<globals, cmd, remaining, used, mp, rc, solved, world, history>>

SetSwitch ==
    /\ pc = "switch"
    /\ Sw(su, mp) \notin {NoSwitch, gs_switch}
    /\ vnaSwitch' = Sw(su, mp)
    /\ gs_switch' = Sw(su, mp)
    /\ switchDoubt' = FALSE
    /\ pc' = "ack"
    /\ UNCHANGED <<opt_Y, gs_mstep, gs_need_ack, instr, cmd, remaining, used,
                   mp, rc, solved, prepared, covered, asked, stepDoubt>>

\* n2pkvna_switch fails, before or after the VNA has obeyed.
SwitchFails ==
    /\ pc = "switch"
    /\ Sw(su, mp) \notin {NoSwitch, gs_switch}
    /\ vnaSwitch' \in {vnaSwitch, Sw(su, mp)}
    /\ switchDoubt' = TRUE
    /\ stepDoubt' = IF instr = NoStep THEN stepDoubt
                                     ELSE stepDoubt \cup {"unread"}
    /\ Out
    /\ UNCHANGED <<globals, cmd, remaining, mp, rc, solved, prepared, covered,
                   asked>>

NoAckNeeded ==
    /\ pc = "ack" /\ ~gs_need_ack
    /\ pc' = "scan"
    /\ UNCHANGED <<globals, cmd, remaining, used, mp, rc, solved, world, history>>

(***************************************************************************)
(* The operator does what the instructions say and presses Enter.  The     *)
(* return code of make_measurements now says success.                      *)
(***************************************************************************)
Acknowledge ==
    /\ pc = "ack" /\ gs_need_ack
    /\ prepared' = IF instr = NoStep THEN prepared ELSE instr
    /\ stepDoubt' = IF instr # NoStep /\ gs_mstep.step = instr
                    THEN {} ELSE stepDoubt
    /\ instr' = NoStep
    /\ gs_need_ack' = FALSE
    /\ rc' = 0
    /\ pc' = "scan"
    /\ UNCHANGED <<opt_Y, gs_switch, gs_mstep, cmd, remaining, used, mp, solved,
                   vnaSwitch, covered, asked, switchDoubt>>

\* The operator answers q, before or after having prepared the VNA.
Cancel ==
    /\ pc = "ack" /\ gs_need_ack
    /\ prepared' \in {prepared} \cup ({instr} \ {NoStep})
    /\ stepDoubt' = IF instr = NoStep THEN stepDoubt
                                     ELSE stepDoubt \cup {"unread"}
    /\ instr' = NoStep
    /\ gs_need_ack' = FALSE
    /\ rc' = -1
    /\ Out
    /\ UNCHANGED <<opt_Y, gs_switch, gs_mstep, cmd, remaining, mp, solved,
                   vnaSwitch, covered, asked, switchDoubt>>

\* Mutant: the vectors of the whole step are taken as measured.
ScanWholeStep ==
    /\ pc = "scan"
    /\ covered' = covered \cup Mask(su, mp)
    /\ used' = used \cup {mp}
    /\ remaining' = remaining \
           UNION {Mask(su, m) : m \in {n \in MeasOf(su) : n[1] = mp[1]}}
    /\ pc' = "select"
    /\ UNCHANGED <<globals, cmd, mp, rc, solved, world, asked, stepDoubt,
                   switchDoubt>>

Scan ==
    /\ pc = "scan"
    /\ covered' = covered \cup Mask(su, mp)
    /\ used' = used \cup {mp}
    /\ remaining' = remaining \ Mask(su, mp)
    /\ pc' = "select"
    /\ UNCHANGED <<globals, cmd, mp, rc, solved, world, asked, stepDoubt,
                   switchDoubt>>

\* n2pkvna_scan fails.  rc keeps whatever value it had.
ScanFails ==
    /\ pc = "scan"
    /\ Out
    /\ UNCHANGED <<globals, cmd, remaining, mp, rc, solved, world, covered,
                   asked, stepDoubt, switchDoubt>>

Solve ==
    /\ pc = "select" /\ remaining = {}
    /\ solved' = TRUE
    /\ rc' = 0
    /\ Out
    /\ UNCHANGED <<globals, cmd, remaining, mp, world, covered, asked,
                   stepDoubt, switchDoubt>>

(***************************************************************************)
(* With voltage or current vectors the matrix may be singular, or one of   *)
(* the abort() calls of measurement_matrix_solve may be reached.           *)
(***************************************************************************)
SolveFails ==
    /\ pc = "select" /\ remaining = {}
    /\ \E v \in Needed : v.kind \in {"v", "i"}
    /\ \/ Out /\ UNCHANGED cmd
       \/ Crash /\ UNCHANGED used
    /\ UNCHANGED <<globals, remaining, mp, rc, solved, world, covered, asked,
                   stepDoubt, switchDoubt>>

-----------------------------------------------------------------------------
(***************************************************************************)
(* Back in the command.                                                    *)
(***************************************************************************)
\* Mutant: the step of the calibration is never left behind.
NextCallAgain ==
    /\ pc = "return" /\ rc = 0 /\ solved
    /\ cmd.calls > 1
    /\ pc' = "call"
    /\ UNCHANGED <<globals, cmd, remaining, used, mp, rc, solved, world, history>>

NextCall ==
    /\ pc = "return" /\ rc = 0 /\ solved
    /\ cmd.calls > 1
    /\ cmd' = [cmd EXCEPT !.calls = @ - 1]
    /\ pc' = "call"
    /\ UNCHANGED <<globals, remaining, used, mp, rc, solved, world, history>>

(***************************************************************************)
(* The command is over: make_measurements failed, all calls are made, or   *)
(* libvna refused the data (always, when there is none).  measure frees    *)
(* its copy of the setup; with -Y the pending messages go out with the     *)
(* response and are dropped.                                               *)
(***************************************************************************)
EndCommand ==
    /\ pc = "return"
    /\ rc = -1 \/ cmd.name = "calibrate" \/ (solved /\ cmd.calls = 1)
    /\ pc' = "idle"
    /\ cmd' = NoCmd
    /\ gs_mstep' = IF gs_mstep.copy = "temp" THEN Dangling ELSE gs_mstep
    /\ instr' = IF opt_Y THEN NoStep ELSE instr
    /\ remaining' = {} /\ mp' = NoMeas /\ rc' = -1 /\ solved' = FALSE
    /\ covered' = {} /\ asked' = <<>>
    /\ UNCHANGED <<opt_Y, gs_switch, gs_need_ack, used, world, stepDoubt,
                   switchDoubt>>

\* measure asserts the dimensions of a result that make_measurements says
\* it has and has not.
MeasureAsserts ==
    /\ pc = "return" /\ rc = 0 /\ ~solved
    /\ cmd.name = "measure"
    /\ Crash
    /\ UNCHANGED <<globals, remaining, used, mp, rc, solved, world, history>>

Operator ==
    \/ \E s \in Setup, n \in 1..MaxCalls : Calibrate(s, n)
    \/ \E s \in Setup, rows, cols \in 1..2, opt_y, opt_P \in BOOLEAN :
           Measure(s, rows, cols, opt_y, opt_P)
    \/ \E code \in SwitchCode : SwitchCommand(code)
    \/ Generate
    \/ \E s \in Setup : YLoad(s)
    \/ Restart

Answer == Acknowledge \/ Cancel

Program ==
    \/ Call \/ Select 
    \/ SkipSwitch \/ SetSwitch \/ SwitchFails
    \/ NoAckNeeded \/ Scan \/ ScanFails
    \/ Solve \/ SolveFails
    \/ NextCall \/ EndCommand \/ MeasureAsserts

Next == Operator \/ Answer \/ Program

(***************************************************************************)
(* The program never waits except for the operator's answer to a prompt,   *)
(* and an operator who walks away is not a behaviour of interest.          *)
(***************************************************************************)
Fairness == WF_vars(Program) /\ WF_vars(Answer)

Spec == Init /\ [][Next]_vars /\ Fairness

-----------------------------------------------------------------------------
(***************************************************************************)
(* Properties.                                                             *)
(***************************************************************************)
\* Both assertions of find_best_measurement hold whenever the loop runs: a
\* vector still missing belongs to the setup and to a measurement that is
\* not yet flagged as used, whatever an earlier call left behind.
AssertionsHold ==
    pc = "select" /\ remaining # {} =>
        /\ remaining \subseteq SuMask(su)
        /\ Candidates # {}

\* When make_measurements has solved its matrix every vector that the
\* calibration's dimensions call for has been scanned during this call.
SolvedIsCovered == pc = "return" /\ solved => rc = 0 /\ Needed \subseteq covered

\* A scan runs with the VNA prepared for the measurement's manual step and
\* with no instruction still unread, except when a cancelled prompt, a failed
\* switch or a recycled pointer has left gs_mstep ahead of the operator.
ScanIsPrepared ==
    pc = "scan" /\ Named(mp) /\ stepDoubt = {} =>
        prepared = MyRef(mp).step /\ instr = NoStep

\* A scan runs with the VNA at the measurement's switch code, except between
\* a switch or generate command or a failed n2pkvna_switch, which leave
\* gs_switch behind the VNA, and the next successful n2pkvna_switch.
ScanIsSwitched ==
    pc = "scan" /\ Sw(su, mp) # NoSwitch /\ ~switchDoubt =>
        vnaSwitch = Sw(su, mp)

\* The cost function never sends the operator back: one call asks for each
\* manual step at most once.
AskedOnce == \A i, j \in 1..Len(asked) : i # j => asked[i] # asked[j]

\* A step costs the operator work: when the step already prepared can still
\* contribute a vector, no other step is asked for.
NoNeedlessPrompt ==
    [][asked' # asked /\ Len(asked') > 0 =>
          \A m \in Candidates : Named(m) => MyRef(m) # gs_mstep]_vars

\* Every command started comes back to the prompt, or crashes: the loop over
\* the remaining vectors terminates whatever fails.
CommandEnds == pc \notin {"idle", "crashed"} ~> pc \in {"idle", "crashed"}

(***************************************************************************)
(* What comments and assertions of the code say and the code does not do.  *)
(***************************************************************************)
\* measure.c asserts that a result returned as successful has its B matrix.
SuccessHasResult == pc = "return" /\ rc = 0 /\ cmd.name = "measure" => solved
===============================================================================
