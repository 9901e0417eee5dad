--------------------------------- MODULE Scan ---------------------------------
(***************************************************************************)
(* The calls of libn2pkvna that talk to the VNA over USB - n2pkvna_reset,  *)
(* n2pkvna_switch, n2pkvna_scan and n2pkvna_generate - as the commands of  *)
(* n2pkvna make them, and the VNA at the other end.                        *)
(*                                                                         *)
(* A scan sets the oscillators to eight phases at each of n frequencies    *)
(* and keeps one setting ahead of the one it reads ("we maintain two       *)
(* outstanding requests and read behind").  Nothing in a reply names its   *)
(* setting, and a failed or killed scan leaves replies behind: what keeps  *)
(* them out of the next one is what is shown here.  Settings are numbered  *)
(* through a scan, setting j being phase (j - 1) % Phases at frequency     *)
(* (j - 1) \div Phases; the sum of the projections of the detector values  *)
(* is the sequence of the replies it is made of.                           *)
(*                                                                         *)
(* The VNA (external) is assumed to do what it is sent in order, to give   *)
(* the values of each measurement once, in order, and, when it has none,   *)
(* the op code of what it did last.                                        *)
(***************************************************************************)
EXTENDS Integers, Sequences, FiniteSets

CONSTANTS
    Phases,     \* phases of the local oscillator (8 in the code)
    MaxN,       \* bound: frequencies of a scan
    MaxTries,   \* reads before read_status gives up (9 in the code)
    MaxSent     \* bound: commands that the VNA can have yet to do

ASSUME ScanAssumption ==
    /\ {Phases, MaxN, MaxTries, MaxSent} \subseteq Nat \ {0}
    /\ Phases > 1 /\ MaxSent > 1    \* a scan begins by sending two settings

VARIABLES
    command,    \* the command being run, as far as it decides what may follow
    call,       \* the library call being made
    pc,         \* where in the call
    n,          \* frequencies of the scan
    sets,       \* settings sent by the scan
    sum,        \* replies added to the results of the scan
    tries,      \* reads made so far by read_status or flush_input
    code,       \* switch_value of n2pkvna_switch
    wanted,     \* history: what the last successful switch in this process set
    sent,       \* commands that the VNA has yet to do
    replies,    \* measurements that have not been read
    last,       \* op code of what the VNA did last
    position    \* the switches of the VNA

callVars == <<n, sets, sum, code>>
vnaVars == <<sent, replies, last, position>>
vars == <<command, call, pc, tries, wanted, callVars, vnaVars>>

Unknown == -1                    \* no setting, no change of the switches
Stale == 0                       \* a setting of an earlier scan
SwitchCode == {0, 1}             \* of 0..3
OpCode == {"0x55", "0x5A", "0xA5"}

Request(op, setting, switch) ==
    [op |-> op, setting |-> setting, switch |-> switch]
Setting(j) == Request("0x55", j, Unknown)
Output == Request("0x55", Unknown, Unknown)
Reset == Request("0x55", Unknown, 0)
Configure == Request("0xA5", Unknown, Unknown)

\* Mutant: the flag that says that there is a switch value is not set.
SwitchUnflagged(c) == Request("0x5A", Unknown, Unknown)

Switch(c) == Request("0x5A", Unknown, c)

\* A process begins by resetting the VNA, which the last one may have left in
\* the middle of a scan.
Init ==
    /\ command = "single" /\ call = "reset" /\ pc = "flush"
    /\ n = 0 /\ sets = 0 /\ sum = <<>> /\ tries = 0 /\ code = Unknown
    /\ wanted = Unknown
    /\ sent \in {<<>>, <<Setting(Stale)>>, <<Setting(Stale), Setting(Stale)>>}
    /\ replies = <<>> /\ last \in OpCode /\ position \in SwitchCode

-----------------------------------------------------------------------------
(***************************************************************************)
(* What the calls are made of.                                             *)
(***************************************************************************)
Advance(next, s, t) ==
    /\ pc' = next
    /\ sets' = s
    /\ sum' = t
    /\ UNCHANGED <<command, call, n, code>>
Goto(next) == Advance(next, sets, sum)

Ends ==
    /\ call' = "none" /\ pc' = "none"
    /\ n' = 0 /\ sets' = 0 /\ sum' = <<>> /\ code' = Unknown

\* A call that fails makes its command fail (or the program abort).
Return == Ends /\ UNCHANGED command
Fail == Ends /\ command' = "none"

\* libusb_bulk_transfer to the VNA: an error (always, when the VNA can take no
\* more) does not mean that the VNA has not received the command.
Accepted(request) ==
    IF Len(sent) < MaxSent THEN {Append(sent, request)} ELSE {}

Transfer(request, Succeed) ==
    \/ sent' \in Accepted(request) /\ Succeed
    \/ sent' \in {sent} \cup Accepted(request) /\ Fail

\* libusb_bulk_transfer from the VNA: the oldest unread measurement, or none.
Packet ==
    IF replies # <<>> THEN Head(replies)
    ELSE [op |-> last, values |-> FALSE, good |-> TRUE, setting |-> Unknown,
          switch |-> Unknown]
Take == replies' = IF replies # <<>> THEN Tail(replies) ELSE replies

\* Mutant: one read.
FlushOnce(at, next, Error) ==
    /\ pc = at
    /\ tries' = 0
    /\ \/ Take /\ Goto(next)
       \/ UNCHANGED replies /\ Error

\* Mutant: reads until there is an error.
FlushToError(at, next, Error) ==
    /\ pc = at
    /\ \/ Take /\ Goto(at) /\ tries' = 1 - tries
       \/ UNCHANGED replies /\ Error /\ tries' = 0

\* _n2pkvna_flush_input: two reads, or an error.
FlushInput(at, next, Error) ==
    /\ pc = at
    /\ \/ /\ Take
          /\ IF tries = 1
             THEN Goto(next) /\ tries' = 0
             ELSE Goto(at) /\ tries' = tries + 1
       \/ UNCHANGED replies /\ Error /\ tries' = 0

\* _n2pkvna_read_status: back off on another op code or for missing values,
\* fail on a USB error, a short or a bad packet, and after the last try.
ReadStatus(op, values, Succeed) ==
    LET retry == Packet.op # op \/ (values /\ ~Packet.values)
    IN  \/ (UNCHANGED replies \/ Take) /\ Fail /\ tries' = 0
        \/ /\ Take
           /\ \/ /\ retry /\ tries + 1 < MaxTries
                 /\ Goto(pc) /\ tries' = tries + 1
              \/ /\ \/ retry /\ tries + 1 = MaxTries
                    \/ ~retry /\ ~Packet.good
                 /\ Fail /\ tries' = 0
              \/ /\ ~retry /\ Packet.good
                 /\ Succeed /\ tries' = 0

-----------------------------------------------------------------------------
(***************************************************************************)
(* n2pkvna_reset ignores the errors of flush_input, and awaits no reply.   *)
(***************************************************************************)
ResetFlush ==
    /\ call = "reset"
    /\ \/ FlushInput("flush", "configure", Goto("configure"))
       \/ FlushInput("reflush", "return", Goto("return"))
    /\ UNCHANGED <<wanted, sent, last, position>>

ResetSend ==
    /\ call = "reset"
    /\ \/ pc = "configure" /\ Transfer(Configure, Goto("reset"))
       \/ pc = "reset" /\ Transfer(Reset, Goto("reflush"))
    /\ UNCHANGED <<tries, wanted, replies, last, position>>

ResetReturn ==
    /\ call = "reset"
    /\ pc = "return"
    /\ Return
    /\ UNCHANGED <<tries, wanted, vnaVars>>

(***************************************************************************)
(* n2pkvna_switch.  The delay is a tenth of a second (SWITCH_DELAY), in    *)
(* which the VNA is assumed to do what it has been sent.                   *)
(***************************************************************************)
SwitchSend ==
    /\ call = "switch"
    /\ pc = "send"
    /\ Transfer(Switch(code), Goto("read"))
    /\ UNCHANGED <<tries, wanted, replies, last, position>>

SwitchRead ==
    /\ call = "switch"
    /\ pc = "read"
    /\ ReadStatus("0x5A", FALSE, Goto("delay"))
    /\ UNCHANGED <<wanted, sent, last, position>>

SwitchDelay ==
    /\ call = "switch"
    /\ pc = "delay"
    /\ sent = <<>>
    /\ Return
    /\ wanted' = IF code # Unknown THEN code ELSE wanted
    /\ UNCHANGED <<tries, vnaVars>>

(***************************************************************************)
(* n2pkvna_scan: settings 1 and 2, then one before each read, to the last. *)
(***************************************************************************)
ScanFlush ==
    /\ call = "scan"
    /\ FlushInput("flush", "set", Fail)
    /\ UNCHANGED <<wanted, sent, last, position>>

\* Mutant: two settings to prime the pipeline.
AfterSetTwice == IF sets < 2 THEN "set" ELSE "read"

AfterSet == IF sets = 0 THEN "set" ELSE "read"

\* Mutant: a next frequency after the last.
AfterReadAlways == IF Len(sum) + 1 = Phases * n THEN "off" ELSE "set"

AfterRead ==
    IF Len(sum) + 1 = Phases * n THEN "off"
    ELSE IF sets < Phases * n THEN "set" ELSE "read"

ScanSet ==
    /\ call = "scan"
    /\ pc = "set"
    /\ Transfer(Setting(sets + 1), Advance(AfterSet, sets + 1, sum))
    /\ UNCHANGED <<tries, wanted, replies, last, position>>

ScanRead ==
    /\ call = "scan"
    /\ pc = "read"
    /\ ReadStatus("0x55", TRUE, Advance(AfterRead, sets, Append(sum, Packet)))
    /\ UNCHANGED <<wanted, sent, last, position>>

\* "Disable output", whether that succeeds or not.
ScanOff ==
    /\ call = "scan"
    /\ pc = "off"
    /\ sent' \in {sent} \cup Accepted(Output)
    /\ Return
    /\ UNCHANGED <<tries, wanted, replies, last, position>>

(***************************************************************************)
(* n2pkvna_generate.                                                       *)
(***************************************************************************)
GenerateSend ==
    /\ call = "generate"
    /\ pc = "send"
    /\ Transfer(Output, Goto("read"))
    /\ UNCHANGED <<tries, wanted, replies, last, position>>

GenerateRead ==
    /\ call = "generate"
    /\ pc = "read"
    /\ ReadStatus("0x55", FALSE, Return)
    /\ UNCHANGED <<wanted, sent, last, position>>

-----------------------------------------------------------------------------
(***************************************************************************)
(* What the commands call, and when.                                       *)
(***************************************************************************)
Calls(cmd, callee, at) ==
    /\ call = "none"
    /\ command' = cmd
    /\ call' = callee
    /\ pc' = at

\* n2pkvna_switch may fail after the VNA has obeyed.
CallSwitch(cmd, c) ==
    /\ Calls(cmd, "switch", "send")
    /\ code' = c
    /\ wanted' = IF c = Unknown THEN wanted ELSE Unknown
    /\ UNCHANGED <<n, sets, sum, tries, vnaVars>>

\* calibrate and measure first set the attenuator.
Measure == command = "none" /\ CallSwitch("measure", Unknown)

\* The commands switch and attenuate.
SwitchCommand ==
    /\ command = "none"
    /\ \E c \in SwitchCode \cup {Unknown} : CallSwitch("single", c)

\* make_measurements, for the settings of the switches a measurement needs.
MeasureSwitch ==
    command = "measure" /\ \E c \in SwitchCode : CallSwitch(command, c)

\* What is under way when a scan begins is none of its settings.
Forget(requests) ==
    [i \in 1..Len(requests) |->
        IF requests[i].setting = Unknown THEN requests[i]
        ELSE [requests[i] EXCEPT !.setting = Stale]]

MeasureScan ==
    /\ command = "measure"
    /\ Calls(command, "scan", "flush")
    /\ n' \in 1..MaxN
    /\ sets' = 0
    /\ sum' = <<>>
    /\ sent' = Forget(sent)
    /\ replies' = Forget(replies)
    /\ UNCHANGED <<tries, code, wanted, last, position>>

\* generate resets the VNA first, "to synchronize phase"; where that leaves
\* the switches only the VNA knows.  cf does not.
GenerateReset ==
    /\ command = "none"
    /\ Calls("generate", "reset", "flush")
    /\ wanted' = Unknown
    /\ UNCHANGED <<tries, callVars, vnaVars>>

Generate ==
    /\ command \in {"none", "generate"}
    /\ Calls("single", "generate", "send")
    /\ UNCHANGED <<tries, wanted, callVars, vnaVars>>

\* The command ends: it is done, or something else than the VNA has failed.
EndCommand ==
    /\ call = "none"
    /\ command \in {"single", "measure", "generate"}
    /\ command' = "none"
    /\ UNCHANGED <<call, pc, tries, wanted, callVars, vnaVars>>

\* The process is killed, at any time, and another is started.
Kill ==
    /\ command # "dead"
    /\ command' = "dead"
    /\ Ends
    /\ tries' = 0
    /\ wanted' = Unknown
    /\ UNCHANGED vnaVars

Start ==
    /\ command = "dead"
    /\ Calls("single", "reset", "flush")
    /\ UNCHANGED <<tries, wanted, callVars, vnaVars>>

-----------------------------------------------------------------------------
(***************************************************************************)
(* The VNA.                                                                *)
(***************************************************************************)
Does ==
    /\ sent # <<>>
    /\ sent' = Tail(sent)
    /\ last' = Head(sent).op

\* A measurement may fail: the reply then has an error flag or a bad code.
VnaMeasures ==
    /\ Does
    /\ Head(sent).setting # Unknown
    /\ \E good \in BOOLEAN :
          replies' = Append(replies, [op |-> "0x55", values |-> TRUE,
                         good |-> good, setting |-> Head(sent).setting,
                         switch |-> position])
    /\ UNCHANGED <<command, call, pc, tries, wanted, callVars, position>>

\* The switches are moved for certain only by a command to do so.
VnaObeys ==
    /\ Does
    /\ LET request == Head(sent)
       IN  /\ request.setting = Unknown
           /\ position' \in
                 IF request.switch = Unknown THEN {position}
                 ELSE IF request.op = "0x5A" THEN {request.switch}
                 ELSE {position, request.switch}
    /\ UNCHANGED <<command, call, pc, tries, wanted, callVars, replies>>

-----------------------------------------------------------------------------
Library ==
    \/ ResetFlush \/ ResetSend \/ ResetReturn
    \/ SwitchSend \/ SwitchRead \/ SwitchDelay
    \/ ScanFlush \/ ScanSet \/ ScanRead \/ ScanOff
    \/ GenerateSend \/ GenerateRead
Program ==
    \/ Measure \/ SwitchCommand \/ MeasureSwitch \/ MeasureScan
    \/ GenerateReset \/ Generate \/ EndCommand
Vna == VnaMeasures \/ VnaObeys

Next == Library \/ Program \/ Vna \/ Kill \/ Start

\* Calls go on, and the VNA answers in the end; which commands are given, and
\* when, is left open.
Spec == Init /\ [][Next]_vars /\ WF_vars(Library) /\ WF_vars(Vna)

-----------------------------------------------------------------------------
Requests ==
    [op : OpCode, setting : Unknown..Phases * MaxN,
     switch : SwitchCode \cup {Unknown}]
Replies ==
    [op : {"0x55"}, values : {TRUE}, good : BOOLEAN,
     setting : 0..Phases * MaxN, switch : SwitchCode]

\* Every variable has its type, and a scan sets and reads each of its phases at
\* each of its frequencies, and no more.
TypeOK ==
    /\ command \in {"none", "measure", "single", "generate", "dead"}
    /\ call \in {"none", "reset", "switch", "scan", "generate"}
    /\ pc \in {"none", "flush", "configure", "reset", "reflush", "return",
               "send", "read", "delay", "set", "off"}
    /\ n \in 0..MaxN
    /\ sets \in 0..Phases * n
    /\ sum \in Seq(Replies) /\ Len(sum) <= sets
    /\ tries \in 0..MaxTries
    /\ code \in SwitchCode \cup {Unknown}
    /\ wanted \in SwitchCode \cup {Unknown}
    /\ sent \in Seq(Requests) /\ Len(sent) <= MaxSent
    /\ replies \in Seq(Replies)
    /\ last \in OpCode
    /\ position \in SwitchCode

Measuring == {i \in 1..Len(sent) : sent[i].setting # Unknown}

\* n2pkvna_scan.c:86 "Throughout the scan, we maintain two outstanding
\* requests": at no time, and after no failure or kill, are more measurements
\* under way or unread than the two that flush_input can drop.
TwoOutstanding == Cardinality(Measuring) + Len(replies) <= 2

\* Every reply is added to the frequency and phase that it was measured at:
\* nothing left by an earlier scan, command or process is taken for it, and
\* none of its own is skipped.
ValuesBelong ==
    call = "scan" => \A j \in 1..Len(sum) : sum[j].setting = j

\* The values were measured with the switches where n2pkvna_switch was last
\* successfully asked to put them, by whatever command of the process.
ValuesAreSwitched ==
    call = "scan" /\ wanted # Unknown =>
        \A j \in 1..Len(sum) : sum[j].switch = wanted

\* Every call returns, however often the VNA has nothing to say.
CallReturns == call # "none" ~> call = "none"
===============================================================================
