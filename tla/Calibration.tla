----------------------------- MODULE Calibration -----------------------------
(***************************************************************************)
(* The commands calibrate (calibrate.c) and measure (measure.c) as the     *)
(* operator meets them: which instructions are given, where the VNA's two  *)
(* probes really are when a measurement is made, and what the program      *)
(* makes of the result.                                                    *)
(*                                                                         *)
(* make_measurements is the subject of Measurements; here it is reduced to *)
(* the ways it can end, and the instructions of its manual steps, which    *)
(* move no probe, are left out.  libvna is external: it may refuse         *)
(* anything.  The one sentence for a through standard counts as two.       *)
(***************************************************************************)
EXTENDS StandardsParser

CONSTANT MaxPending \* bound: instructions pending when a command is given

ASSUME MaxPendingAssumption == MaxPending \in Nat

VARIABLES
    opt_Y,     \* gs_opt_Y: driven by another program
    pc,        \* where the program is
    cmd,       \* the command: "calibrate", "asis" or "exchange"
    k,         \* the step being measured: cstp, or the call of measure
    pc_cur,    \* pc_cur1 and pc_cur2: where the program left the probes
    instr,     \* "instructions" of gs_messages
    need_ack,  \* gs_need_ack
    todo,      \* operator: the instructions not yet followed
    acked,     \* make_measurements has set rc to 0
    probe,     \* the world: where the two probes are
    measured,  \* the world: where they were during the measurement
    added,     \* what libvna has been told, and the truth of it
    saved      \* the last file written

commandVars == <<opt_Y, pc, cmd, k, pc_cur, instr, need_ack, todo, acked>>
worldVars == <<probe, measured, added, saved>>
vars == <<parserVars, commandVars, worldVars>>

-----------------------------------------------------------------------------
(***************************************************************************)
(* Where a probe is connected: probe_connection_t.                         *)
(***************************************************************************)
At(s, p) == [standard |-> s, port |-> p]
Nowhere == At(NoStandard, 0)

Connection ==
    [standard : Standard \cup {Terminator, "DUT"}, port : 1..2] \cup {Nowhere}
Probes == Connection \X Connection

Exchanged(c) == <<c[2], c[1]>>

\* An instruction to the operator, and what following it does.
Connect(p, c) == [probe |-> p, to |-> c]
Swap == [probe |-> 0, to |-> Nowhere]
Instruction ==
    {Connect(p, c) : p \in 1..2, c \in Connection \ {Nowhere}} \cup {Swap}

Follow(i, c) ==
    IF i = Swap THEN Exchanged(c)
    ELSE IF i.probe = 1 THEN <<i.to, c[2]>> ELSE <<c[1], i.to>>

-----------------------------------------------------------------------------
(***************************************************************************)
(* What a calibration step needs (pc1 and pc2), the instructions that take *)
(* the operator there, and what libvna is then told: the standard on each  *)
(* port of the calibration.                                                *)
(***************************************************************************)
Wanted(step) ==
    LET left  == step.standards[1]
        right == step.standards[2]
    IN  IF step.type \in {"THROUGH", "LINE"}
        THEN <<At(left, 1), At(left, 2)>>
        ELSE <<At(left, 1),
               IF right = NoStandard THEN Nowhere ELSE At(right, 1)>>

\* Mutant: one probe in the other's place is enough for a swap.
HastySwap(step, cur) ==
    LET want == Wanted(step)
    IN  IF want = cur THEN <<>>
        ELSE IF want[1] = cur[2] \/ want[2] = cur[1] THEN <<Swap>>
        ELSE IF step.type \in {"THROUGH", "LINE"}
        THEN <<Connect(1, want[1]), Connect(2, want[2])>>
        ELSE IF want[2] = cur[2] THEN <<Connect(1, want[1])>>
        ELSE IF want[1] = cur[1] THEN <<Connect(2, want[2])>>
        ELSE <<Connect(1, want[1]), Connect(2, want[2])>>

\* Mutant: both probes are always connected anew.
AlwaysConnect(step, cur) ==
    LET want == Wanted(step)
    IN  IF want = cur THEN <<>>
        ELSE IF want = Exchanged(cur) THEN <<Swap>>
        ELSE <<Connect(1, want[1]), Connect(2, want[2])>>

Instructions(step, cur) ==
    LET want == Wanted(step)
    IN  IF want = cur THEN <<>>
        ELSE IF want = Exchanged(cur) THEN <<Swap>>
        ELSE IF step.type \in {"THROUGH", "LINE"}
        THEN <<Connect(1, want[1]), Connect(2, want[2])>>
        ELSE IF want[2] = cur[2] THEN <<Connect(1, want[1])>>
        ELSE IF want[1] = cur[1] THEN <<Connect(2, want[2])>>
        ELSE <<Connect(1, want[1]), Connect(2, want[2])>>

\* The instruction would name a standard that is not there.
NamesNull(step, cur) ==
    Connect(2, Nowhere) \in
        {Instructions(step, cur)[i] : i \in 1..Len(Instructions(step, cur))}

Claims(step) ==
    LET want == Wanted(step)
        real == IF want[1].standard # Terminator THEN 1 ELSE 2
    IN  IF step.type = "SINGLE_REFLECT"
        THEN {[port |-> real, is |-> want[real]]}
        ELSE {[port |-> p, is |-> want[p]] : p \in 1..2}

\* Ports of a calibration: libvna takes no standard beyond them.
CalPorts == IF dims.rows > dims.cols THEN dims.rows ELSE dims.cols

\* measure with a 2x1 calibration: the device both ways round.
Dut(call) == IF call = 1 THEN <<At("DUT", 1), At("DUT", 2)>>
                         ELSE <<At("DUT", 2), At("DUT", 1)>>

Calls == CASE cmd = "calibrate" -> Len(steps)
           [] cmd = "exchange"  -> 2
           [] OTHER             -> 1

(***************************************************************************)
(* The matrix given to vnacal_apply for a 2x1 calibration: which call and  *)
(* which detector each cell comes from.                                    *)
(***************************************************************************)
\* Mutant: the second call is taken for one the same way round.
CellSameRow(i, j) == [call |-> j, row |-> i]

Cell(i, j) == [call |-> j, row |-> IF j = 1 THEN i ELSE 3 - i]

NoFile == [cmd |-> "none", steps |-> <<>>, added |-> <<>>]
NoProbes == <<Nowhere, Nowhere>>

CommandName == {"none", "calibrate", "asis", "exchange"}
Result == [claims : SUBSET [port : 1..2, is : Connection], probes : Probes]
SavedFile ==
    [cmd : CommandName, steps : Seq(CalStep), added : Seq(Result)]

TypeOK ==
    /\ ParserTypeOK
    /\ opt_Y \in BOOLEAN
    /\ pc \in {"idle", "parse", "instruct", "measure", "ack", "scan", "add",
               "finish", "crashed"}
    /\ cmd \in CommandName
    /\ k \in Nat \ {0}
    /\ pc_cur \in Probes
    /\ instr \in Seq(Instruction)
    /\ need_ack \in BOOLEAN
    /\ todo \in Seq(Instruction)
    /\ acked \in BOOLEAN
    /\ probe \in Probes
    /\ measured \in Probes \cup {<<>>}
    /\ added \in Seq(Result)
    /\ saved \in SavedFile

Init ==
    /\ ParserInit
    /\ opt_Y \in BOOLEAN
    /\ pc = "idle" /\ cmd = "none" /\ k = 1
    /\ pc_cur = NoProbes
    /\ instr = <<>> /\ need_ack = FALSE /\ todo = <<>> /\ acked = FALSE
    /\ probe = NoProbes
    /\ measured = <<>> /\ added = <<>> /\ saved = NoFile

-----------------------------------------------------------------------------
(***************************************************************************)
(* Commands begin and end.                                                 *)
(***************************************************************************)
\* The locals of the command.
Begin(name) ==
    /\ pc = "idle" /\ Len(instr) <= MaxPending
    /\ cmd' = name
    /\ k' = 1
    /\ pc_cur' = NoProbes
    /\ acked' = FALSE
    /\ added' = <<>> /\ saved' = NoFile
    /\ UNCHANGED <<opt_Y, instr, todo, probe, measured>>

StartCalibrate(d, f, s) ==
    /\ Begin("calibrate")
    /\ pc' = "parse"
    /\ StartParse(d, f, s)
    /\ UNCHANGED need_ack

(***************************************************************************)
(* measure calls make_measurements once, with the device as the operator   *)
(* has connected it, or twice when the calibration is not square and the   *)
(* device not symmetrical.  It forgets any acknowledgement still owed.     *)
(***************************************************************************)
StartMeasure(name, opt_P) ==
    /\ Begin(name)
    /\ pc' = "instruct"
    /\ need_ack' = opt_P
    /\ UNCHANGED parserVars

(***************************************************************************)
(* The command returns and the command loop prompts for the next.  Only    *)
(* with -Y does message_prompt empty gs_messages.                          *)
(***************************************************************************)
Return ==
    /\ pc' = "idle" /\ cmd' = "none" /\ k' = 1
    /\ pc_cur' = NoProbes
    /\ instr' = IF opt_Y THEN <<>> ELSE instr
    /\ todo' = <<>> /\ acked' = FALSE
    /\ input' = <<>> /\ tokens' = <<>> /\ steps' = <<>> /\ status' = "idle"
    /\ measured' = <<>> /\ added' = <<>>
    /\ UNCHANGED <<opt_Y, dims, files>>

Parse ==
    /\ pc = "parse"
    /\ GoodStep \/ BadStep
    /\ UNCHANGED <<commandVars, worldVars>>

\* The program crashes where it would report what is wrong with the string.
ParseCrashes ==
    /\ pc = "parse"
    /\ CrashStep
    /\ pc' = "crashed"
    /\ UNCHANGED <<opt_Y, cmd, k, pc_cur, instr, need_ack, todo, acked,
                   worldVars>>

\* The steps are accepted and the attenuation is set to zero.
Parsed ==
    /\ pc = "parse" /\ status = "accepted"
    /\ pc' = "instruct"
    /\ UNCHANGED <<parserVars, opt_Y, cmd, k, pc_cur, instr, need_ack, todo,
                   acked, worldVars>>

\* The steps are rejected, or the VNA does not answer.
ParseFails ==
    /\ pc = "parse" /\ status \in {"accepted", "rejected"}
    /\ Return
    /\ UNCHANGED <<need_ack, probe, saved>>

-----------------------------------------------------------------------------
(***************************************************************************)
(* One step.                                                               *)
(***************************************************************************)
NewInstructions ==
    CASE cmd = "calibrate" -> Instructions(steps[k], pc_cur)
      [] cmd = "exchange"  -> <<Connect(1, Dut(k)[1]), Connect(2, Dut(k)[2])>>
      [] OTHER             -> <<>>

\* message_add_instruction, then make_measurements is called.
Instruct ==
    /\ pc = "instruct"
    /\ ~(cmd = "calibrate" /\ NamesNull(steps[k], pc_cur))
    /\ instr' = instr \o NewInstructions
    /\ need_ack' = (need_ack \/ NewInstructions # <<>>)
    /\ acked' = FALSE
    /\ measured' = <<>>
    /\ pc' = "measure"
    /\ UNCHANGED <<parserVars, opt_Y, cmd, k, pc_cur, todo, probe, added,
                   saved>>

\* The name of a standard that is not there is printed.
NullStandard ==
    /\ pc = "instruct"
    /\ cmd = "calibrate" /\ NamesNull(steps[k], pc_cur)
    /\ pc' = "crashed"
    /\ UNCHANGED <<parserVars, opt_Y, cmd, k, pc_cur, instr, need_ack, todo,
                   acked, worldVars>>

\* make_measurements fails before it has prompted.
SwitchFails ==
    /\ pc = "measure"
    /\ Return
    /\ UNCHANGED <<need_ack, probe, saved>>

(***************************************************************************)
(* The instructions, those a failed command left behind included, are      *)
(* shown to the operator and forgotten.                                    *)
(***************************************************************************)
Prompt ==
    /\ pc = "measure" /\ need_ack
    /\ todo' = instr
    /\ instr' = <<>>
    /\ pc' = "ack"
    /\ UNCHANGED <<parserVars, opt_Y, cmd, k, pc_cur, need_ack, acked,
                   worldVars>>

NoPrompt ==
    /\ pc = "measure" /\ ~need_ack
    /\ pc' = "scan"
    /\ UNCHANGED <<parserVars, opt_Y, cmd, k, pc_cur, instr, need_ack, todo,
                   acked, worldVars>>

\* The operator follows the instructions one by one, in order.
FollowOne ==
    /\ pc = "ack" /\ todo # <<>>
    /\ probe' = Follow(Head(todo), probe)
    /\ todo' = Tail(todo)
    /\ UNCHANGED <<parserVars, opt_Y, pc, cmd, k, pc_cur, instr, need_ack,
                   acked, measured, added, saved>>

\* The operator has followed them all and presses Enter.
Acknowledge ==
    /\ pc = "ack" /\ todo = <<>>
    /\ need_ack' = FALSE
    /\ acked' = TRUE
    /\ pc' = "scan"
    /\ UNCHANGED <<parserVars, opt_Y, cmd, k, pc_cur, instr, todo, worldVars>>

\* The operator answers q, whatever has been done.
Cancel ==
    /\ pc = "ack"
    /\ Return
    /\ need_ack' = FALSE
    /\ UNCHANGED <<probe, saved>>

\* All the measurements of the setup are made, with the probes where they are.
Scan ==
    /\ pc = "scan"
    /\ measured' = probe
    /\ pc' = "add"
    /\ UNCHANGED <<parserVars, opt_Y, cmd, k, pc_cur, instr, need_ack, todo,
                   acked, probe, added, saved>>

(***************************************************************************)
(* A measurement fails or the operator cancels at the instructions for     *)
(* another manual step.                                                    *)
(***************************************************************************)
ScanFails ==
    /\ pc = "scan"
    /\ Return
    /\ UNCHANGED <<need_ack, probe, saved>>

(***************************************************************************)
(* A measurement fails after a prompt was acknowledged: make_measurements  *)
(* returns 0 and no matrix (see Measurements).  calibrate gives libvna the *)
(* missing matrix, which is refused; measure stops at an assertion.        *)
(***************************************************************************)
ScanFailsUnnoticed ==
    /\ pc = "scan"
    /\ pc' = IF cmd = "calibrate" THEN "add" ELSE "crashed"
    /\ UNCHANGED <<parserVars, opt_Y, cmd, k, pc_cur, instr, need_ack, todo,
                   acked, worldVars>>

\* Mutant: the loop ends one standard early.
AddEndsEarly ==
    /\ pc = "add" /\ measured # <<>>
    /\ cmd = "calibrate" => \A c \in Claims(steps[k]) : c.port <= CalPorts
    /\ added' = Append(added,
           [claims |-> IF cmd = "calibrate" THEN Claims(steps[k]) ELSE {},
            probes |-> measured])
    /\ pc_cur' = IF cmd = "calibrate" THEN Wanted(steps[k]) ELSE pc_cur
    /\ k' = k + 1
    /\ pc' = IF k = Calls \/ (cmd = "calibrate" /\ k + 1 = Calls)
             THEN "finish" ELSE "instruct"
    /\ UNCHANGED <<parserVars, opt_Y, cmd, instr, need_ack, todo, acked, probe,
                   measured, saved>>

(***************************************************************************)
(* The result is given to libvna by a vnacal_new_add function, or kept by  *)
(* measure, and the loop goes on.                                          *)
(***************************************************************************)
Add ==
    /\ pc = "add" /\ measured # <<>>
    /\ cmd = "calibrate" => \A c \in Claims(steps[k]) : c.port <= CalPorts
    /\ added' = Append(added,
           [claims |-> IF cmd = "calibrate" THEN Claims(steps[k]) ELSE {},
            probes |-> measured])
    /\ pc_cur' = IF cmd = "calibrate" THEN Wanted(steps[k]) ELSE pc_cur
    /\ k' = k + 1
    /\ pc' = IF k = Calls THEN "finish" ELSE "instruct"
    /\ UNCHANGED <<parserVars, opt_Y, cmd, instr, need_ack, todo, acked, probe,
                   measured, saved>>

\* libvna refuses the standard, as it must if there is no matrix.
AddRefused ==
    /\ pc = "add" /\ cmd = "calibrate"
    /\ Return
    /\ UNCHANGED <<need_ack, probe, saved>>

\* Solved, or applied, and saved.
Finish ==
    /\ pc = "finish"
    /\ saved' = [cmd |-> cmd, steps |-> steps, added |-> added]
    /\ Return
    /\ UNCHANGED <<need_ack, probe>>

\* libvna cannot solve or apply the calibration, or the file not be written.
FinishFails ==
    /\ pc = "finish"
    /\ Return
    /\ UNCHANGED <<need_ack, probe, saved>>

-----------------------------------------------------------------------------
(***************************************************************************)
(* Between commands the operator connects the probes to a device, or to    *)
(* nothing; after a crash the program is started again.                    *)
(***************************************************************************)
DutEnds == {At("DUT", 1), At("DUT", 2), Nowhere}

Rewire ==
    /\ pc = "idle"
    /\ \E c \in DutEnds \X DutEnds :
           /\ c[1] = c[2] => c[1] = Nowhere
           /\ probe' = c
    /\ UNCHANGED <<parserVars, commandVars, measured, added, saved>>

Restart ==
    /\ pc \in {"idle", "crashed"}
    /\ opt_Y' \in BOOLEAN
    /\ pc' = "idle" /\ cmd' = "none" /\ k' = 1
    /\ pc_cur' = NoProbes
    /\ instr' = <<>> /\ need_ack' = FALSE /\ todo' = <<>> /\ acked' = FALSE
    /\ input' = <<>> /\ tokens' = <<>> /\ steps' = <<>> /\ status' = "idle"
    /\ measured' = <<>> /\ added' = <<>> /\ saved' = NoFile
    /\ UNCHANGED <<dims, files, probe>>

Command ==
    \/ \E d \in Dims, f \in Files, s \in Spelling : StartCalibrate(d, f, s)
    \/ \E name \in {"asis", "exchange"}, opt_P \in BOOLEAN :
           StartMeasure(name, opt_P)

Program ==
    \/ Parse \/ ParseCrashes \/ Parsed \/ ParseFails
    \/ Instruct \/ NullStandard \/ SwitchFails \/ Prompt \/ NoPrompt
    \/ Scan \/ ScanFails \/ ScanFailsUnnoticed
    \/ Add \/ AddRefused \/ Finish \/ FinishFails

Operator == FollowOne \/ Acknowledge \/ Cancel \/ Rewire

Next == Command \/ Program \/ Operator \/ Restart

Spec == Init /\ [][Next]_vars

-----------------------------------------------------------------------------
(***************************************************************************)
(* Properties.                                                             *)
(***************************************************************************)
\* What a parsed step puts on each port of the calibration.
MeantClaims(step) ==
    IF step.type \in {"THROUGH", "LINE"}
    THEN {[port |-> p, is |-> At(step.standards[1], p)] : p \in 1..2}
    ELSE {[port |-> p, is |-> At(step.standards[p], 1)] :
             p \in {q \in 1..2 : step.standards[q] \in Standard}}

(***************************************************************************)
(* Everything calibrate tells libvna was so when the measurement was made: *)
(* each standard was on the probe it is declared to be on, and the other   *)
(* probe carried the terminator.  This rests on the instructions, which    *)
(* leave out what the program believes is connected already (calibrate.c   *)
(* 352-385), on pc_cur being what the operator last did, and on nothing    *)
(* left over from a failed command coming in between.                      *)
(***************************************************************************)
AddedAsConnected ==
    cmd = "calibrate" =>
        \A i \in 1..Len(added) :
            /\ \A p \in 1..2 :
                   Wanted(steps[i])[p] # Nowhere =>
                       added[i].probes[p] = Wanted(steps[i])[p]
            /\ \A c \in added[i].claims : added[i].probes[c.port] = c.is

(***************************************************************************)
(* A calibration file is written only when every step of the -S string was *)
(* measured, in order, and declared for what the string says it is         *)
(* (calibrate.c 322-452 and 505).                                          *)
(***************************************************************************)
SavedIsComplete ==
    saved.cmd = "calibrate" =>
        /\ Len(saved.added) = Len(saved.steps)
        /\ \A i \in 1..Len(saved.steps) :
               saved.added[i].claims = MeantClaims(saved.steps[i])

(***************************************************************************)
(* measure with a 2x1 calibration: the cell (i, j) of the matrix given to  *)
(* vnacal_apply was received at port i of the device while port j was      *)
(* driven; the driven port is the one on probe 1 (measure.c 517-600).      *)
(***************************************************************************)
MatrixAsConnected ==
    saved.cmd = "exchange" =>
        \A i, j \in 1..2 :
            LET probes == saved.added[Cell(i, j).call].probes
            IN  /\ probes[Cell(i, j).row] = At("DUT", i)
                /\ probes[1] = At("DUT", j)

(***************************************************************************)
(* The operator is never told to connect a probe to what it is connected   *)
(* to already because the step before put it there (calibrate.c 352-385).  *)
(***************************************************************************)
NoNeedlessConnection ==
    [][pc = "instruct" /\ cmd = "calibrate" /\ k > 1 =>
          \A i \in Len(instr) + 1..Len(instr') :
              LET p == instr'[i].probe
              IN  instr'[i] # Swap /\ Wanted(steps[k - 1])[p] # Nowhere =>
                      probe[p] # instr'[i].to]_vars
===============================================================================
